-------------------------- MODULE BackupInventory --------------------------
(***************************************************************************)
(* The mobile app's backup inventory: one row per device photo with its    *)
(* cached hash and its place in the backup cycle, the folder rules that    *)
(* keep photos out of the cycle, and the device files the rows describe.   *)
(* A file is its content (Contents) and a stamp standing for the size and  *)
(* the modification time; the SHA-256 of a content is the content itself.  *)
(***************************************************************************)
EXTENDS Integers, FiniteSets

CONSTANTS Assets, Folders, Contents,
          FolderOf,      \* [Assets -> Folders]: the album of each asset
          Unsupported,   \* assets in a format that can never be uploaded
          Legacy,        \* assets the first version of the app backed up
          Policy,        \* the stored new-folder policy
          MaxStamp,      \* bound: how many times files are written, per asset
          Nil

ASSUME InventoryAssumption ==
  /\ FolderOf \in [Assets -> Folders]
  /\ Unsupported \subseteq Assets
  /\ Legacy \subseteq Assets
  /\ Policy \in {"ask", "include", "exclude"}
  /\ MaxStamp \in Nat \ {0}
  /\ Nil \notin Contents /\ Nil \notin Assets

VARIABLES device,     \* [Assets -> file]: bytes Nil when the asset is gone
          inventory,  \* [Assets -> row]: the backup_inventory table
          rules,      \* [Folders -> mode]: the sync_rules table
          known,      \* folders a scan has decided about
          held,       \* folders awaiting the user's decision
          locked      \* assets in the locked folder

inventoryVars == <<device, inventory, rules, known, held, locked>>

InventoryState == {"pending", "hashing", "queued", "uploading", "uploaded",
                   "failed", "excluded"}
Reason == {"none", "rule", "hold", "unsupported", "error"}
File == [bytes: Contents \cup {Nil}, stamp: 0..MaxStamp]
InventoryRow == [state: InventoryState, hash: Contents \cup {Nil},
                 stamp: 0..MaxStamp, why: Reason]
NoRow == [state |-> "absent", hash |-> Nil, stamp |-> 0, why |-> "none"]
Mode == {"include", "exclude", "none"}

Tracked(inv) == {a \in Assets : inv[a] # NoRow}
Rows(inv, states) == {a \in Assets : inv[a].state \in states}
OnDevice == {a \in Assets : device[a].bytes # Nil}

(* UPDATE ... WHERE asset_id = ?: nothing happens to a row that is gone. *)
Update(inv, a, row) == [inv EXCEPT ![a] = IF inv[a] = NoRow THEN NoRow ELSE row]

(* INSERT OR IGNORE of the ids the first version kept, as uploaded rows
   with a zero size that no file matches. *)
MigratedRows ==
  [a \in Assets |-> IF a \in Legacy THEN [NoRow EXCEPT !.state = "uploaded"] ELSE NoRow]

-----------------------------------------------------------------------------
(* The decision table of a scan: an explicit rule, then the policy for a
   folder no scan has seen, then include. *)
DecideFolder(rule, isNew) ==
  IF rule # "none" THEN rule
  ELSE IF isNew /\ Policy = "exclude" THEN "exclude"
  ELSE IF isNew /\ Policy = "ask" THEN "hold"
  ELSE "include"

(* New size and modification time void the cached hash. *)
RefreshedKeepingHash(row, stamp) == [row EXCEPT !.stamp = stamp]
Refreshed(row, stamp) ==
  [row EXCEPT !.stamp = stamp, !.hash = IF row.stamp = stamp THEN @ ELSE Nil]

(* One asset met by a scan, `why` being "none" when its folder is included.
   A row out of the cycle stays out; an uploaded row of an excluded folder
   keeps its state. *)
Upserted(row, stamp, why) ==
  LET out == why # "none" IN
  IF row = NoRow
  THEN [state |-> IF out THEN "excluded" ELSE "pending",
        hash |-> Nil, stamp |-> stamp, why |-> why]
  ELSE IF row.state = "excluded" THEN row
  ELSE IF out
  THEN IF row.state = "uploaded" THEN Refreshed(row, stamp)
       ELSE [Refreshed(row, stamp) EXCEPT !.state = "excluded", !.why = why]
  ELSE IF row.stamp # stamp
  THEN [Refreshed(row, stamp) EXCEPT !.state = "pending", !.why = "none"]
  ELSE row

ScanEntries(f, lockedIds) == {a \in OnDevice : FolderOf[a] = f /\ a \notin lockedIds}

UpsertFromScan(inv, entries, why) ==
  [a \in Assets |-> IF a \in entries THEN Upserted(inv[a], device[a].stamp, why) ELSE inv[a]]

RemoveNothing(inv, present) == inv
RemoveAbsent(inv, present) == [a \in Assets |-> IF a \in present THEN inv[a] ELSE NoRow]

(* Rows stranded by a kill of the app. *)
RecoverToStranded(inv) ==
  [a \in Assets |-> IF inv[a].state \in {"hashing", "uploading"}
                    THEN [inv[a] EXCEPT !.state = "stranded"] ELSE inv[a]]
RecoverHashingOnly(inv) ==
  [a \in Assets |-> IF inv[a].state = "hashing"
                    THEN [inv[a] EXCEPT !.state = "pending"] ELSE inv[a]]
RecoverTransientStates(inv) ==
  [a \in Assets |->
     CASE inv[a].state = "hashing"   -> [inv[a] EXCEPT !.state = "pending"]
       [] inv[a].state = "uploading" -> [inv[a] EXCEPT !.state = "queued"]
       [] OTHER -> inv[a]]

-----------------------------------------------------------------------------
(* What hashing and uploading write. *)
HashTargets(inv) ==
  {a \in Assets : \/ inv[a].state = "pending"
                  \/ inv[a].state = "uploaded" /\ inv[a].hash = Nil}

MarkHashing(inv, a) == Update(inv, a, [inv[a] EXCEPT !.state = "hashing"])

SetContentHash(inv, a, hash) ==
  Update(inv, a, [inv[a] EXCEPT
    !.hash = hash,
    !.state = IF @ \in {"pending", "hashing"} THEN "queued" ELSE @])

MarkUploadStarted(inv, a) == Update(inv, a, [inv[a] EXCEPT !.state = "uploading"])

MarkUploaded(inv, a, hash) ==
  Update(inv, a, [inv[a] EXCEPT !.state = "uploaded", !.why = "none",
                                !.hash = IF hash = Nil THEN @ ELSE hash])

MarkFailed(inv, a) == Update(inv, a, [inv[a] EXCEPT !.state = "failed", !.why = "error"])

MarkExcluded(inv, a, why) == Update(inv, a, [inv[a] EXCEPT !.state = "excluded", !.why = why])

UploadedHashes(inv) == {inv[a].hash : a \in Rows(inv, {"uploaded"})} \ {Nil}

MarkUploadedByHashes(inv, hashes) ==
  [a \in Assets |->
     IF inv[a].hash \in hashes /\ inv[a].state \in {"pending", "hashing", "queued"}
     THEN [inv[a] EXCEPT !.state = "uploaded", !.why = "none"]
     ELSE inv[a]]

QueuedRows(inv) == Rows(inv, {"queued"})

-----------------------------------------------------------------------------
(* Folder rules. *)
RependFolderItems(inv, f) ==
  [a \in Assets |->
     IF FolderOf[a] = f /\ inv[a].state = "excluded" /\ inv[a].why \in {"none", "rule", "hold"}
     THEN [inv[a] EXCEPT !.state = IF inv[a].hash # Nil THEN "queued" ELSE "pending",
                         !.why = "none"]
     ELSE inv[a]]

ExcludeFolderItems(inv, f, why) ==
  [a \in Assets |->
     IF /\ FolderOf[a] = f
        /\ inv[a].state \in {"pending", "hashing", "queued", "uploading", "failed"}
     THEN [inv[a] EXCEPT !.state = "excluded", !.why = why]
     ELSE inv[a]]

(* The folders screen: the rule is stored and the rows of the folder follow
   at once; the folder counts as decided. *)
SetSyncRule(f, mode) ==
  /\ rules' = [rules EXCEPT ![f] = mode]
  /\ inventory' = IF mode = "include" THEN RependFolderItems(inventory, f)
                                      ELSE ExcludeFolderItems(inventory, f, "rule")
  /\ known' = known \cup {f}
  /\ held' = held \ {f}

-----------------------------------------------------------------------------
(* The device around the app: another program writes or removes a file. *)
EditFile(a) ==
  /\ device[a].stamp < MaxStamp
  /\ \E c \in Contents : device' = [device EXCEPT ![a] = [bytes |-> c, stamp |-> @.stamp + 1]]
  /\ UNCHANGED <<inventory, rules, known, held, locked>>

DeleteFile(a) ==
  /\ a \in OnDevice
  /\ device' = [device EXCEPT ![a].bytes = Nil]
  /\ UNCHANGED <<inventory, rules, known, held, locked>>

AddToLockedFolder(a) ==
  /\ a \in OnDevice \ locked
  /\ locked' = locked \cup {a}
  /\ UNCHANGED <<device, inventory, rules, known, held>>

RemoveFromLockedFolder(a) ==
  /\ a \in locked
  /\ locked' = locked \ {a}
  /\ UNCHANGED <<device, inventory, rules, known, held>>

InventoryInit ==
  /\ device \in [Assets -> {[bytes |-> c, stamp |-> 1] : c \in Contents}]
  /\ inventory = MigratedRows
  /\ rules = [f \in Folders |-> "none"]
  /\ known = {} /\ held = {} /\ locked = {}

InventoryTypeOK ==
  /\ device \in [Assets -> File]
  /\ inventory \in [Assets -> InventoryRow \cup {NoRow}]
  /\ rules \in [Folders -> Mode]
  /\ known \subseteq Folders /\ held \subseteq Folders
  /\ locked \subseteq Assets
=============================================================================
