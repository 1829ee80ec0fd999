-------------------------------- MODULE Vault --------------------------------
(***************************************************************************)
(* What moves photos out of the device library and back: the vault of the  *)
(* Locked Folder, and the encrypted mode.  Both write a ciphertext and a   *)
(* row, then ask the system to delete the original; both come back through *)
(* a decrypted file in a session cache.                                    *)
(***************************************************************************)
EXTENDS ScreenJobs

CONSTANTS Photos, Videos, VaultIds,
          MaxSaves     \* times a photo is saved back (a bound)
ASSUME VaultAssumption ==
  IsFiniteSet(Photos) /\ Videos \subseteq Photos /\ Nil \notin Photos /\ MaxSaves \in Nat
(* A photo in the device library: the one that was there, or a copy saved
   back, each time under an id of its own. *)
Assets == Photos \X (0..MaxSaves)
Films == {a \in Assets : a[1] \in Videos}
VARIABLES disk,     \* what survives the app: media library, rows, files, key store
          app,      \* what does not: keys in memory, stores, the screen in front
          slips,    \* ways the code is known to lose data, once met
          erased    \* photos a copy of which the user deleted
vaultVars == <<disk, app, slips, erased>>
Free(p) == disk.saves[p] < MaxSaves
(* The file of a photo is saved to the library; what was cut short is no photo. *)
SavedBack(e, p) ==
  [disk EXCEPT !.media = IF e.plain = "whole" THEN @ \cup {<<p, disk.saves[p] + 1>>} ELSE @,
               !.saves[p] = @ + 1]

(* A ciphertext with its row, and its plaintext in the session cache. *)
NoEntry == [row |-> FALSE, file |-> "none", key |-> 0, plain |-> "none", of |-> Nil]
NoCopy == [row |-> FALSE, file |-> "none", key |-> 0, plain |-> "none", thumb |-> FALSE, small |-> FALSE,
           stuck |-> {}]
Rows == {v \in VaultIds : disk.vault[v].row}
Copies == {a \in Assets : disk.mode[a].row}
NoMode == [enabled |-> FALSE, unlocked |-> FALSE, migrating |-> FALSE, error |-> FALSE]
NoFolder == [stage |-> "none", config |-> Nil, first |-> Nil, entered |-> FALSE,
             items |-> {}, legacy |-> {}, loading |-> FALSE, migrating |-> FALSE]
NoApp == [vkey |-> 0, mkey |-> 0, unlocked |-> FALSE, mode |-> NoMode, screen |-> "gallery",
          folder |-> NoFolder, grid |-> {}, busy |-> FALSE, dialog |-> Nil, stamp |-> 0]

(* A file that is there is taken as it is; otherwise it is written before
   the tag is checked, and stays when the check fails. *)
Opened(e, key) ==
  IF e.plain # "none" \/ e.file = "none" THEN e
  ELSE [e EXCEPT !.plain = IF e.file = "whole" /\ e.key = key THEN "whole" ELSE "partial"]
Opens(e, key) == e.plain # "none" \/ (e.file = "whole" /\ e.key = key)
Ask(o, arg) == [op |-> o, live |-> TRUE, arg |-> arg]
Task(o, todo) == [op |-> o, live |-> TRUE, at |-> "item", todo |-> todo, all |-> ToSet(todo), bad |-> 0,
                  key |-> 0, id |-> Nil, from |-> Nil]
Passed(j) == [j EXCEPT !.todo = Tail(@), !.at = "item"]
FailedOne(j) == [Passed(j) EXCEPT !.bad = @ + 1]
Doing(i, o) == At(i, o) /\ jobs[i].at = "item" /\ jobs[i].todo # <<>>
Over(i, o) == At(i, o) /\ jobs[i].at = "item" /\ jobs[i].todo = <<>>
Item(i) == Head(jobs[i].todo)
(* purgeDirectory deletes the decrypted files one by one and goes past those
   it cannot delete, because a viewer still holds them say; `stuck` names the
   ones of a copy the last purge left. *)
DecryptedEntries(d) == {v \in VaultIds : d.vault[v].plain # "none"}
Decrypted(d) == {f \in Assets \X {"full", "thumb"} :
                   IF f[2] = "full" THEN d.mode[f[1]].plain # "none" ELSE d.mode[f[1]].small}
PlainsPurged(d, left) ==
  [d EXCEPT !.vault = [v \in VaultIds |-> IF v \in left THEN @[v] ELSE [@[v] EXCEPT !.plain = "none"]]]
CopyPurged(e, held) ==
  [e EXCEPT !.plain = IF "full" \in held THEN @ ELSE "none", !.small = "thumb" \in held, !.stuck = held]
CopiesPurged(d, left) ==
  [d EXCEPT !.mode = [a \in Assets |-> CopyPurged(@[a], {f \in {"full", "thumb"} : <<a, f>> \in left})]]
(* Nothing is left of an entry but its id, which is never used again. *)
Spent(e) == [NoEntry EXCEPT !.of = e.of]

(* ---------------------------- the vault's key --------------------------- *)

VaultOps == {"import", "export", "vgrid", "play"}
NeedsKey(i) ==
  /\ \E o \in VaultOps : Doing(i, o)
  /\ app.vkey = 0
  /\ jobs[i].op # "import" => Item(i) \in Rows /\ disk.vault[Item(i)].plain = "none"
(* A key store that cannot be read is taken for an empty one. *)
KeyRead(i) ==
  /\ NeedsKey(i)
  /\ \/ /\ disk.vkey # 0 /\ Calm
        /\ app' = [app EXCEPT !.vkey = disk.vkey] /\ UNCHANGED jobs
     \/ /\ IF disk.vkey = 0 THEN Calm ELSE Mishap
        /\ Becomes(i, [jobs[i] EXCEPT !.at = "mint"]) /\ UNCHANGED app
  /\ UNCHANGED <<disk, slips, erased>>
KeyMinted(i) ==
  /\ i \in DOMAIN jobs /\ jobs[i].op \in VaultOps /\ jobs[i].at = "mint" /\ Calm
  /\ disk' = [disk EXCEPT !.vkey = @ + 1]
  /\ app' = [app EXCEPT !.vkey = disk.vkey + 1]
  /\ slips' = IF disk.vkey # 0 THEN slips \cup {"rekeyed"} ELSE slips
  /\ Becomes(i, [jobs[i] EXCEPT !.at = "item"])
  /\ UNCHANGED erased

(* ------------------------ into the vault and back ------------------------ *)

ImportStored(i) ==
  LET v == CHOOSE w \in VaultIds : disk.vault[w].of = Nil IN
  /\ Doing(i, "import") /\ app.vkey # 0 /\ Item(i) \in disk.media /\ Calm
  /\ \E w \in VaultIds : disk.vault[w].of = Nil
  /\ disk' = [disk EXCEPT !.vault[v] = [NoEntry EXCEPT !.of = Item(i)[1], !.row = TRUE,
                                         !.file = "whole", !.key = app.vkey]]
  /\ Becomes(i, [jobs[i] EXCEPT !.at = "deleting", !.id = v])
  /\ UNCHANGED <<app, slips, erased>>
ImportFailed(i) ==
  /\ Doing(i, "import")
  /\ IF Item(i) \in disk.media THEN Mishap ELSE Calm
  /\ Becomes(i, FailedOne(jobs[i]))
  /\ UNCHANGED vaultVars

(* A variant that rolls back whatever became of the original. *)
KeptIfAllowed(ok, p, media) == ok
(* After a refusal the copy is rolled back, unless the original is gone. *)
Kept(ok, p, media) == ok \/ p \notin media
(* The system deletes the original, refuses to, or does it and says no. *)
Deletion(ok, gone) == (ok => gone) /\ IF ok THEN Calm ELSE Mishap
Left(p, gone) == IF gone THEN disk.media \ {p} ELSE disk.media
ImportDeleted(i, ok, gone) ==
  LET p == Item(i)
      d == [disk EXCEPT !.media = Left(p, gone)] IN
  /\ Step(i, "import", "deleting") /\ Deletion(ok, gone)
  /\ IF Kept(ok, p, d.media)
     THEN disk' = [d EXCEPT !.legacy = @ \ {p}] /\ Becomes(i, Passed(jobs[i]))
     ELSE disk' = [d EXCEPT !.vault[jobs[i].id] = Spent(@)] /\ Becomes(i, FailedOne(jobs[i]))
  /\ UNCHANGED <<app, slips, erased>>

VaultReady(i) == app.vkey # 0 \/ Item(i) \notin Rows \/ disk.vault[Item(i)].plain # "none"
ExportOpened(i) ==
  LET v == Item(i) IN
  /\ Doing(i, "export") /\ VaultReady(i) /\ Calm
  /\ disk' = IF v \in Rows THEN [disk EXCEPT !.vault[v] = Opened(@, app.vkey)] ELSE disk
  /\ Becomes(i, IF v \in Rows /\ Opens(disk.vault[v], app.vkey)
                THEN [jobs[i] EXCEPT !.at = "saving"] ELSE FailedOne(jobs[i]))
  /\ UNCHANGED <<app, slips, erased>>
(* A decryption cut short, by a full disk say, leaves its file behind. *)
VaultCut(i) ==
  LET v == Item(i) IN
  /\ Doing(i, "export") \/ Doing(i, "vgrid") \/ Doing(i, "play")
  /\ app.vkey # 0 /\ v \in Rows /\ disk.vault[v].plain = "none" /\ Mishap
  /\ disk' = [disk EXCEPT !.vault[v].plain = "partial"]
  /\ Becomes(i, FailedOne(jobs[i]))
  /\ UNCHANGED <<app, slips, erased>>
ExportSaved(i) ==
  LET e == disk.vault[Item(i)] IN
  /\ Step(i, "export", "saving") /\ e.plain # "none" /\ Free(e.of) /\ Calm
  /\ disk' = [SavedBack(e, e.of) EXCEPT !.vault[Item(i)] = Spent(@)]
  /\ slips' = IF e.plain = "partial" THEN slips \cup {"partial"} ELSE slips
  /\ Becomes(i, Passed(jobs[i]))
  /\ UNCHANGED <<app, erased>>
ExportUnsaved(i) ==
  /\ Step(i, "export", "saving")
  /\ IF disk.vault[Item(i)].plain = "none" THEN Calm ELSE Mishap
  /\ Becomes(i, FailedOne(jobs[i]))
  /\ UNCHANGED vaultVars

(* The grid decrypts its photos one by one; a video only when it is played. *)
GridItem(i) ==
  LET v == Item(i) IN
  /\ Doing(i, "vgrid") /\ VaultReady(i) /\ Calm
  /\ disk' = IF v \in Rows /\ disk.vault[v].of \notin Videos
             THEN [disk EXCEPT !.vault[v] = Opened(@, app.vkey)] ELSE disk
  /\ Becomes(i, Passed(jobs[i]))
  /\ UNCHANGED <<app, slips, erased>>
Played(i) ==
  LET v == Item(i) IN
  /\ Doing(i, "play") /\ VaultReady(i) /\ Calm
  /\ disk' = IF v \in Rows THEN [disk EXCEPT !.vault[v] = Opened(@, app.vkey)] ELSE disk
  /\ Ends(i) /\ UNCHANGED <<app, slips, erased>>
PlayFailed(i) == Over(i, "play") /\ Calm /\ Ends(i) /\ UNCHANGED vaultVars
(* Deleting for good leaves the decrypted file to the next lock. *)
VaultErased(d, ids) ==
  [d EXCEPT !.vault = [v \in VaultIds |-> IF v \in ids THEN [Spent(@[v]) EXCEPT !.plain = d.vault[v].plain]
                                          ELSE @[v]]]

(* -------------------------- the encrypted mode --------------------------- *)

SetUp(i) ==
  /\ Step(i, "enable", "setup") /\ Calm
  /\ disk' = [disk EXCEPT !.mkey = disk.last + 1, !.last = @ + 1]
  /\ app' = [app EXCEPT !.mkey = disk.last + 1]
  /\ slips' = IF Copies # {} THEN slips \cup {"rekeyed"} ELSE slips
  /\ Becomes(i, [jobs[i] EXCEPT !.at = "item", !.todo = SetToSeq(disk.media \ (Films \cup Copies))])
  /\ UNCHANGED erased
(* The key is taken before the thumbnail is awaited. *)
EncryptTaken(i) ==
  /\ Doing(i, "enable") /\ Calm
  /\ Becomes(i, IF app.mkey = 0 THEN FailedOne(jobs[i])
                ELSE [jobs[i] EXCEPT !.at = "thumb", !.key = app.mkey])
  /\ UNCHANGED vaultVars
EncryptStored(i) ==
  LET p == Item(i) IN
  /\ Step(i, "enable", "thumb") /\ p \in disk.media
  /\ \E thumb \in BOOLEAN :
       /\ IF thumb THEN Calm ELSE Mishap
       /\ disk' = [disk EXCEPT !.mode[p] = [@ EXCEPT !.row = TRUE, !.file = "whole", !.key = jobs[i].key,
                                                     !.thumb = thumb]]
  /\ Becomes(i, [jobs[i] EXCEPT !.at = "deleting"])
  /\ UNCHANGED <<app, slips, erased>>
EncryptFailed(i) ==
  /\ Step(i, "enable", "thumb")
  /\ IF Item(i) \in disk.media THEN Mishap ELSE Calm
  /\ Becomes(i, FailedOne(jobs[i]))
  /\ UNCHANGED vaultVars
EncryptDeleted(i, ok, gone) ==
  LET p == Item(i)
      d == [disk EXCEPT !.media = Left(p, gone)] IN
  /\ Step(i, "enable", "deleting") /\ Deletion(ok, gone)
  /\ IF Kept(ok, p, d.media) THEN disk' = d /\ Becomes(i, Passed(jobs[i]))
     ELSE disk' = [d EXCEPT !.mode[p] = NoCopy] /\ Becomes(i, FailedOne(jobs[i]))
  /\ UNCHANGED <<app, slips, erased>>

RestoreOpened(i) ==
  LET e == disk.mode[Item(i)] IN
  /\ Doing(i, "disable") /\ Calm
  /\ disk' = IF app.mkey = 0 THEN disk ELSE [disk EXCEPT !.mode[Item(i)] = Opened(@, app.mkey)]
  /\ Becomes(i, IF e.plain # "none" \/ (app.mkey # 0 /\ Opens(e, app.mkey))
                THEN [jobs[i] EXCEPT !.at = "saving"] ELSE FailedOne(jobs[i]))
  /\ UNCHANGED <<app, slips, erased>>
RestoreCut(i) ==
  /\ Doing(i, "disable") /\ app.mkey # 0 /\ Mishap
  /\ disk.mode[Item(i)].plain = "none" /\ disk.mode[Item(i)].file # "none"
  /\ disk' = [disk EXCEPT !.mode[Item(i)].plain = "partial"]
  /\ Becomes(i, FailedOne(jobs[i]))
  /\ UNCHANGED <<app, slips, erased>>
RestoreSaved(i) ==
  LET e == disk.mode[Item(i)]
      p == Item(i)[1] IN
  /\ Step(i, "disable", "saving") /\ e.plain # "none" /\ Free(p) /\ Calm
  /\ disk' = [SavedBack(e, p) EXCEPT !.mode[Item(i)] = NoCopy]
  /\ slips' = IF e.plain = "partial" THEN slips \cup {"partial"} ELSE slips
  /\ Becomes(i, Passed(jobs[i]))
  /\ UNCHANGED <<app, erased>>
RestoreUnsaved(i) ==
  /\ Step(i, "disable", "saving")
  /\ IF disk.mode[Item(i)].plain = "none" THEN Calm ELSE Mishap
  /\ Becomes(i, FailedOne(jobs[i]))
  /\ UNCHANGED vaultVars
PreviewItem(i) ==
  LET e == disk.mode[Item(i)] IN
  /\ Doing(i, "previews") /\ Calm
  /\ disk' = IF e.thumb /\ app.mkey = e.key THEN [disk EXCEPT !.mode[Item(i)].small = TRUE] ELSE disk
  /\ Becomes(i, Passed(jobs[i]))
  /\ UNCHANGED <<app, slips, erased>>

VaultSteps ==
  \E i \in DOMAIN jobs :
    \/ KeyRead(i) \/ KeyMinted(i)
    \/ ImportStored(i) \/ ImportFailed(i) \/ \E ok, gone \in BOOLEAN : ImportDeleted(i, ok, gone)
    \/ ExportOpened(i) \/ ExportSaved(i) \/ ExportUnsaved(i) \/ VaultCut(i)
    \/ GridItem(i) \/ Played(i) \/ PlayFailed(i)
    \/ SetUp(i) \/ EncryptTaken(i) \/ EncryptStored(i) \/ EncryptFailed(i)
    \/ \E ok, gone \in BOOLEAN : EncryptDeleted(i, ok, gone)
    \/ RestoreOpened(i) \/ RestoreCut(i) \/ RestoreSaved(i) \/ RestoreUnsaved(i)
    \/ PreviewItem(i)
=============================================================================
