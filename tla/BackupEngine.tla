---------------------------- MODULE BackupEngine ----------------------------
(***************************************************************************)
(* The backup job of the mobile app (a scan, or a scan followed by the     *)
(* uploads), the folder scans that rule changes start beside it, and what  *)
(* happens around them: the user's rules and locks, other programs writing *)
(* files, a kill of the app, another account signing in.                   *)
(***************************************************************************)
EXTENDS CloudUpload

CONSTANTS Videos,        \* assets that go to the video lanes
          VideoLanes,    \* the lanes that take videos
          Breaker,       \* consecutive failures that stop a run
          MaxRuns,       \* bound on the jobs started
          MaxActs        \* bound on what the user and other programs do beside them

ASSUME EngineAssumption ==
  /\ IsFiniteSet(Assets) /\ Videos \subseteq Assets /\ VideoLanes \subseteq Lanes
  /\ Breaker \in Nat \ {0} /\ MaxRuns \in Nat /\ MaxActs \in Nat

VARIABLES job,         \* which job runs, and where it is
          scan,        \* what the scan read when it began, and its progress
          hashing,     \* the hashing loop
          run,         \* the upload loop
          folderScans, \* folder scans in the background
          runs, acts

jobVars == <<job, scan, hashing, run, folderScans>>
vars == <<inventoryVars, uploadVars, jobVars, runs, acts>>

JobKind == {"none", "scan", "backup"}
JobStep == {"idle", "folders", "walk", "assets", "hash", "seed", "rows", "upload"}
ScanRecord == [rules: [Folders -> Mode], known: SUBSET Folders, held: SUBSET Folders,
               locked: SUBSET Assets, todo: SUBSET Folders, present: SUBSET Assets]
HashRecord == [targets: SUBSET Assets, asset: Assets \cup {Nil}]
QueuedRow == [asset: Assets, hash: Contents \cup {Nil}]
RunRecord == [queue: SUBSET QueuedRow, found: SUBSET Assets, uploaded: SUBSET Contents,
              failures: 0..Cardinality(Assets), fatal: BOOLEAN]
FolderScan == [folder: Folders, step: {"listing", "walking"}, locked: SUBSET Assets,
               why: Reason]
NoScan == [rules |-> [f \in Folders |-> "none"], known |-> {}, held |-> {},
           locked |-> {}, todo |-> {}, present |-> {}]
NoHashing == [targets |-> {}, asset |-> Nil]
NoRun == [queue |-> {}, found |-> {}, uploaded |-> {}, failures |-> 0, fatal |-> FALSE]
NoJob == [kind |-> "none", step |-> "idle"]

Act == acts < MaxActs /\ acts' = acts + 1

Busy == job.kind # "none"
LanesIdle == \A l \in Lanes : xfer[l].step = "idle"
Quiet == ~Busy /\ folderScans = {} /\ LanesIdle

At(step) == job.step = step
JobGoes(step) == job' = [job EXCEPT !.step = step]
JobEnds == job' = NoJob /\ scan' = NoScan /\ hashing' = NoHashing /\ run' = NoRun

-----------------------------------------------------------------------------
(* start and scan of the store: the screen starts neither while one runs.
   The scan reads the rules, the locks and its own decisions before its
   first await. *)
Start(kind) ==
  /\ ~Busy /\ runs < MaxRuns /\ runs' = runs + 1
  /\ job' = [kind |-> kind, step |-> "folders"]
  /\ inventory' = RecoverTransientStates(inventory)
  /\ scan' = [NoScan EXCEPT !.rules = rules, !.known = known, !.held = held, !.locked = locked]
  /\ UNCHANGED <<device, rules, known, held, locked, uploadVars, hashing, run, folderScans,
                 acts>>

(* listDeviceFolders: the albums that hold anything. *)
ListFolders ==
  /\ At("folders")
  /\ scan' = [scan EXCEPT !.todo = {FolderOf[a] : a \in OnDevice}]
  /\ JobGoes("walk")
  /\ UNCHANGED <<inventoryVars, uploadVars, hashing, run, folderScans, runs, acts>>

(* One folder of the scan, decided on what the scan read at its start. *)
WalkFolder(f) ==
  LET isNew == f \notin scan.known /\ f \notin scan.held
      action == DecideFolder(scan.rules[f], isNew)
      why == CASE action = "include" -> "none" [] action = "hold" -> "hold" [] OTHER -> "rule"
      entries == ScanEntries(f, scan.locked)
      walked == UpsertFromScan(inventory, entries, why)
  IN /\ At("walk") /\ f \in scan.todo
     /\ inventory' = IF action = "hold" THEN ExcludeFolderItems(walked, f, "hold") ELSE walked
     /\ scan' = [scan EXCEPT
          !.todo = @ \ {f},
          !.present = @ \cup entries,
          !.known = IF action = "hold" THEN @ ELSE @ \cup {f},
          !.held = IF action = "hold" THEN @ \cup {f} ELSE @]
     /\ UNCHANGED <<device, rules, known, held, locked, uploadVars, job, hashing, run,
                    folderScans, runs, acts>>

(* The decisions replace whatever was stored meanwhile, rows of assets the
   scan did not meet go, and the hashing loop takes its targets. *)
FinishScan ==
  /\ At("walk") /\ scan.todo = {}
  /\ known' = scan.known /\ held' = scan.held
  /\ inventory' = RemoveAbsent(inventory, scan.present)
  /\ hashing' = [NoHashing EXCEPT !.targets = HashTargets(inventory')]
  /\ JobGoes("assets")
  /\ UNCHANGED <<device, rules, locked, uploadVars, scan, run, folderScans, runs, acts>>

(* fetchAssetsByIds: targets that left the library are skipped. *)
FetchTargets ==
  /\ At("assets")
  /\ hashing' = [hashing EXCEPT !.targets = @ \cap OnDevice]
  /\ JobGoes("hash")
  /\ UNCHANGED <<inventoryVars, uploadVars, scan, run, folderScans, runs, acts>>

HashStart(a) ==
  /\ At("hash") /\ hashing.asset = Nil /\ a \in hashing.targets
  /\ hashing' = [targets |-> hashing.targets \ {a}, asset |-> a]
  /\ inventory' = MarkHashing(inventory, a)
  /\ UNCHANGED <<device, rules, known, held, locked, uploadVars, job, scan, run, folderScans,
                 runs, acts>>

(* The file is prepared, read and hashed. *)
HashFinish ==
  LET a == hashing.asset IN
  /\ At("hash") /\ a # Nil
  /\ hashing' = [hashing EXCEPT !.asset = Nil]
  /\ \/ /\ inventory' = IF a \in Unsupported THEN MarkExcluded(inventory, a, "unsupported")
                        ELSE IF device[a].bytes = Nil THEN MarkFailed(inventory, a)
                        ELSE SetContentHash(inventory, a, device[a].bytes)
        /\ UNCHANGED mishaps
     \/ Mishap("transcode") /\ inventory' = MarkExcluded(inventory, a, "unsupported")
  /\ UNCHANGED <<device, rules, known, held, locked, server, xfer, job, scan, run, folderScans,
                 runs, acts>>

-----------------------------------------------------------------------------
(* The upload loop begins with a snapshot of the queue. *)
TakeQueue(inv) ==
  /\ run' = [NoRun EXCEPT !.uploaded = UploadedHashes(inv),
                          !.queue = {[asset |-> a, hash |-> inv[a].hash] : a \in QueuedRows(inv)}]
  /\ JobGoes("rows")

(* The hashing loop is over: a scan ends, a backup seeds its dedup set from
   the server when nothing was ever uploaded from here. *)
FinishHashing ==
  /\ At("hash") /\ hashing = NoHashing
  /\ \/ job.kind = "scan" /\ JobEnds
     \/ /\ job.kind = "backup"
        /\ UploadedHashes(inventory) = {} /\ QueuedRows(inventory) # {}
        /\ JobGoes("seed") /\ UNCHANGED <<scan, hashing, run>>
     \/ /\ job.kind = "backup"
        /\ UploadedHashes(inventory) # {} \/ QueuedRows(inventory) = {}
        /\ TakeQueue(inventory) /\ UNCHANGED <<scan, hashing>>
  /\ UNCHANGED <<inventoryVars, uploadVars, folderScans, runs, acts>>

SeedHashes ==
  /\ At("seed")
  /\ \/ /\ inventory' = MarkUploadedByHashes(inventory, {h \in Contents : server[h].state # "none"})
        /\ TakeQueue(inventory') /\ UNCHANGED <<scan, hashing, mishaps>>
     \/ Mishap("list") /\ JobEnds /\ UNCHANGED inventory
  /\ UNCHANGED <<device, rules, known, held, locked, server, xfer, folderScans, runs, acts>>

FetchRows ==
  /\ At("rows")
  /\ run' = [run EXCEPT !.found = OnDevice]
  /\ JobGoes("upload")
  /\ UNCHANGED <<inventoryVars, uploadVars, scan, hashing, folderScans, runs, acts>>

(* The two pools: an asset that is gone counts as a photo. *)
TakenByMediaType(l, a) ==
  a \in run.found /\ ((l \in VideoLanes) <=> (a \in Videos))
TakenBy(l, a) == (l \in VideoLanes) <=> (a \in Videos \cap run.found)

(* The cursor the lanes of a pool share.  (Before it, two variants: one that
   stands still, one that goes past all rows of the same bytes.) *)
RestUnmoved(row) == run
RestOfOtherBytes(row) == [run EXCEPT !.queue = {r \in @ : r.hash # row.hash}]
Rest(row) == [run EXCEPT !.queue = @ \ {row}]

(* processRow, up to its first request. *)
TakeRow(l, row) ==
  LET a == row.asset
      rest == Rest(row) IN
  /\ At("upload") /\ ~run.fatal /\ xfer[l].step = "idle"
  /\ row \in run.queue /\ TakenBy(l, a)
  /\ \/ /\ run.failures >= Breaker
        /\ run' = [rest EXCEPT !.fatal = TRUE]
        /\ UNCHANGED <<inventory, xfer, mishaps>>
     \/ /\ run.failures < Breaker /\ a \notin run.found
        /\ run' = rest
        /\ inventory' = MarkExcluded(inventory, a, "none") /\ UNCHANGED <<xfer, mishaps>>
     \/ /\ run.failures < Breaker /\ a \in run.found /\ row.hash \in run.uploaded
        /\ run' = rest
        /\ inventory' = MarkUploaded(inventory, a, row.hash) /\ UNCHANGED <<xfer, mishaps>>
     \/ /\ run.failures < Breaker /\ a \in run.found /\ row.hash \notin run.uploaded
        /\ \/ /\ run' = rest
              /\ inventory' = MarkUploadStarted(inventory, a)
              /\ xfer' = [xfer EXCEPT ![l] = Begin(l, a, row.hash)] /\ UNCHANGED mishaps
           \/ /\ Mishap("transcode") /\ run' = [rest EXCEPT !.failures = 0]
              /\ inventory' = MarkExcluded(inventory, a, "unsupported") /\ UNCHANGED xfer
  /\ UNCHANGED <<device, rules, known, held, locked, server, job, scan, hashing,
                 folderScans, runs, acts>>

(* processRow, after uploadPhoto answered. *)
FinishRow(l) ==
  LET t == xfer[l] IN
  /\ At("upload") /\ t.step \in {"done", "failed"}
  /\ xfer' = [xfer EXCEPT ![l] = NoTransfer]
  /\ \/ /\ t.step = "done"
        /\ inventory' = MarkUploaded(inventory, t.asset, t.hash)
        /\ run' = [run EXCEPT !.uploaded = @ \cup {t.hash}, !.failures = 0]
     \/ /\ t.step = "failed"
        /\ inventory' = MarkFailed(inventory, t.asset)
        /\ run' = IF t.err \in {"full", "unauthorized"}
                  THEN [run EXCEPT !.fatal = TRUE]
                  ELSE [run EXCEPT !.failures = @ + 1]
  /\ UNCHANGED <<device, rules, known, held, locked, server, mishaps, job, scan, hashing,
                 folderScans, runs, acts>>

(* The polls for the worker's verdict that the end waits for stop by
   themselves, and change nothing here. *)
FinishRun ==
  /\ At("upload") /\ LanesIdle
  /\ run.queue = {} \/ run.fatal
  /\ JobEnds
  /\ UNCHANGED <<inventoryVars, uploadVars, folderScans, runs, acts>>

-----------------------------------------------------------------------------
(* applyRule of the folders screen: the rule, then runFolderScan in the
   background; the locks are read first, the rule after the folders. *)
ApplyRule(f, mode) ==
  /\ Act
  /\ SetSyncRule(f, mode)
  /\ folderScans' = folderScans \cup
       {[folder |-> f, step |-> "listing", locked |-> locked, why |-> "none"]}
  /\ UNCHANGED <<device, locked, uploadVars, job, scan, hashing, run, runs>>

FolderScanListed(s) ==
  /\ s \in folderScans /\ s.step = "listing"
  /\ folderScans' = (folderScans \ {s}) \cup
       IF \E a \in OnDevice : FolderOf[a] = s.folder
       THEN {[s EXCEPT !.step = "walking",
                       !.why = IF rules[s.folder] = "exclude" THEN "rule" ELSE "none"]}
       ELSE {}
  /\ UNCHANGED <<inventoryVars, uploadVars, job, scan, hashing, run, runs, acts>>

FolderScanWalk(s) ==
  /\ s \in folderScans /\ s.step = "walking"
  /\ folderScans' = folderScans \ {s}
  /\ inventory' = UpsertFromScan(inventory, ScanEntries(s.folder, s.locked), s.why)
  /\ UNCHANGED <<device, rules, known, held, locked, uploadVars, job, scan, hashing, run, runs,
                 acts>>

(* The app is killed: memory goes, the tables stay. *)
Kill ==
  /\ Busy /\ Mishap("kill")
  /\ JobEnds
  /\ folderScans' = {} /\ xfer' = [l \in Lanes |-> NoTransfer]
  /\ UNCHANGED <<inventoryVars, server, runs, acts>>

(* Signing out and into an account that holds nothing: the cleanup empties
   the inventory and the rules. *)
SwitchAccount ==
  /\ Mishap("switch")
  /\ inventory' = [a \in Assets |-> NoRow]
  /\ rules' = [f \in Folders |-> "none"] /\ known' = {} /\ held' = {}
  /\ server' = [h \in Contents |-> NoPhoto]
  /\ UNCHANGED <<device, locked, xfer, jobVars, runs, acts>>

(* The user, other programs (which leave the files alone while a job runs)
   and the server. *)
Environment ==
  \/ /\ Act /\ UNCHANGED <<uploadVars, jobVars, runs>>
     /\ \/ Quiet /\ \E a \in Assets : EditFile(a)
        \/ \E a \in Assets : DeleteFile(a)
        \/ \E a \in Assets : AddToLockedFolder(a) \/ RemoveFromLockedFolder(a)
  \/ /\ \E h \in Contents : SweepReservation(h)
     /\ UNCHANGED <<inventoryVars, jobVars, runs, acts>>

(* What the app does by itself and with the device; SeedHashes, the transfers
   and the polls of FinishRun wait for the server. *)
DeviceStep ==
  \/ ListFolders \/ (\E f \in Folders : WalkFolder(f)) \/ FinishScan
  \/ FetchTargets \/ (\E a \in Assets : HashStart(a)) \/ HashFinish \/ FinishHashing
  \/ FetchRows
LaneDeviceStep(l) == (\E row \in run.queue : TakeRow(l, row)) \/ FinishRow(l)
JobStepTaken == DeviceStep \/ SeedHashes \/ FinishRun
LaneStep(l) ==
  \/ \E row \in run.queue : TakeRow(l, row)
  \/ TransferStep(l) /\ UNCHANGED <<jobVars, runs, acts>>
  \/ FinishRow(l)
FolderScanStep == \E s \in folderScans : FolderScanListed(s) \/ FolderScanWalk(s)

Next ==
  \/ \E kind \in {"scan", "backup"} : Start(kind)
  \/ JobStepTaken \/ (\E l \in Lanes : LaneStep(l))
  \/ \E f \in Folders, mode \in {"include", "exclude"} : ApplyRule(f, mode)
  \/ FolderScanStep \/ Kill \/ SwitchAccount \/ Environment

Init ==
  /\ InventoryInit /\ UploadInit
  /\ job = NoJob /\ scan = NoScan /\ hashing = NoHashing /\ run = NoRun
  /\ folderScans = {} /\ runs = 0 /\ acts = 0

Spec == Init /\ [][Next]_vars
FairSpec == Spec /\ WF_vars(DeviceStep) /\ \A l \in Lanes : WF_vars(LaneDeviceStep(l))
(* An assumption on the network, which the code does not enforce: no request
   of a backup has a timeout. *)
RequestsAnswered ==
  /\ WF_vars(SeedHashes \/ FinishRun)
  /\ \A l \in Lanes : WF_vars(TransferStep(l) /\ UNCHANGED <<jobVars, runs, acts>>)

-----------------------------------------------------------------------------
BackupTypeOK ==
  /\ InventoryTypeOK /\ UploadTypeOK
  /\ job \in [kind: JobKind, step: JobStep]
  /\ scan \in ScanRecord /\ hashing \in HashRecord /\ run \in RunRecord
  /\ folderScans \subseteq FolderScan
  /\ runs \in 0..MaxRuns /\ acts \in 0..MaxActs

(* The hash kept for a file as a scan last saw it is the hash of what the
   file holds, until an upload is done: no scan, folder rule or failed upload
   leaves the hash of older bytes on a row still to be sent.  It is about
   files nothing writes while a job runs. *)
HashFresh ==
  \A a \in OnDevice :
    inventory[a].stamp = device[a].stamp /\ inventory[a].state # "uploaded" =>
      inventory[a].hash \in {Nil, device[a].bytes}

(* A photo that was in the locked folder when a job began is not sent by
   that job, whatever rows earlier jobs and folder scans left of it. *)
LockedNeverSent ==
  \A l \in Lanes : xfer[l].step # "idle" => xfer[l].asset \notin scan.locked

(* No photo is sent by two lanes at once: the lanes of a pool share one
   cursor and the two pools share no row. *)
OneLanePerAsset ==
  \A l, m \in Lanes : xfer[l].asset = xfer[m].asset /\ l # m => xfer[l].asset = Nil

(* While a job runs, a row marked hashing or uploading is the one the job is
   hashing or a lane is sending: a row an earlier kill stranded is back in
   the cycle before the job begins. *)
TransientOwned ==
  Busy => \A a \in Assets :
    /\ inventory[a].state = "hashing" => hashing.asset = a
    /\ inventory[a].state = "uploading" => \E l \in Lanes : xfer[l].asset = a

(* The busy state that disables both buttons of the backup screen ends, as
   long as every request is answered or refused in the end. *)
RunEnds == RequestsAnswered => (Busy ~> ~Busy)

(* What the comments of uploadPhoto promise of a failed direct PUT: when
   nothing runs, the bytes of a photo shown as backed up are on the server. *)
QuietBackupStored ==
  Quiet => \A a \in OnDevice :
    inventory[a].state = "uploaded" /\ inventory[a].stamp = device[a].stamp =>
      \E h \in Contents : server[h] = [state |-> "done", bytes |-> device[a].bytes]
=============================================================================
