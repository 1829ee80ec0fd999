---------------------------- MODULE BackupScreens ----------------------------
(***************************************************************************)
(* What the backup screen and its folders screen count from the inventory: *)
(* the breakdown of the tracked photos and the figures of each folder.     *)
(***************************************************************************)
EXTENDS BackupEngine

(* getInventoryStats and the four lines of the card. *)
Breakdown ==
  [backedUp |-> Rows(inventory, {"uploaded"}),
   toBackUp |-> Rows(inventory, {"pending", "hashing", "queued", "uploading"}),
   failed   |-> Rows(inventory, {"failed"}),
   excluded |-> Rows(inventory, {"excluded"})]

(* getFolderStats: rows carry the folder a scan met them in, so the ones the
   first version left have none until then. *)
FolderStat(f) ==
  LET of(states) == {a \in Rows(inventory, states) : FolderOf[a] = f /\ inventory[a].stamp > 0}
  IN [items |-> of(InventoryState),
      uploaded |-> of({"uploaded"}),
      outOfCycle |-> of({"excluded"}),
      waiting |-> of({"pending", "hashing", "queued", "uploading", "failed"})]

(* A backup that ends by itself, not cut short by a kill, a lost session, a
   full account or too many failures, leaves nothing it hashed to be backed
   up: what either screen still counts as waiting then is a photo no hashing
   loop has come to, or in a folder the user put into the backup or out of
   it, which a tap under the job may have queued anew. *)
BackupLeavesNothing ==
  [][FinishRun /\ ~run.fatal =>
       \A f \in Folders : rules[f] = scan.rules[f] /\ rules[f] # "include" =>
         Breakdown.toBackUp \cap FolderStat(f).waiting \subseteq Rows(inventory, {"pending"})]_vars
=============================================================================
