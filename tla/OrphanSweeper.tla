---------------------------- MODULE OrphanSweeper ----------------------------
(***************************************************************************)
(* OrphanUploadSweeper, in the worker process: every so often it lists the *)
(* PendingUpload rows older than the maximum age and deletes the blob and  *)
(* the row of each.  It works through the list it read at the start of the *)
(* pass and deletes by primary key.                                        *)
(***************************************************************************)
EXTENDS PhotoStore

CONSTANT SlowUploads   \* whether a device may still be uploading, or about to
                       \* complete, when its reservation reaches the maximum age

ASSUME SweeperAssumption == SlowUploads \in BOOLEAN

VARIABLE sweep   \* the rows the pass has yet to visit, and the one it is at

sweeperVars == <<sweep>>

NoSweep == [todo |-> {}, at |-> NoPhoto]

SweeperTypeOK == sweep \in [todo : SUBSET Photo, at : Photo \cup {NoPhoto}]

SweeperInit == sweep = NoSweep

(* Mutations of Stale: the query without its state filter, and with its    *)
(* age comparison the wrong way round.                                     *)
StaleAnyState(p) == Exists(p) /\ client[p] # "uploading"
StaleYoung(p) == photos[p].state = "PendingUpload" /\ client[p] = "uploading"

(* ListStalePendingUploadsAsync. *)
Stale(p) == photos[p].state = "PendingUpload" /\ (SlowUploads \/ client[p] = "gone")

SweepList ==
    /\ sweep = NoSweep
    /\ sweep' = [sweep EXCEPT !.todo = {p \in Photo : Stale(p)}]
    /\ sweep'.todo # {}
    /\ UNCHANGED storeVars

(* Mutation of SweepBlob: only the row is dropped. *)
SweepBlobSkipped(p) ==
    /\ sweep.at = NoPhoto
    /\ p \in sweep.todo
    /\ sweep' = [todo |-> sweep.todo \ {p}, at |-> p]
    /\ UNCHANGED storeVars

(* A blob that cannot be deleted is left behind: the row must go. *)
SweepBlob(p) ==
    /\ sweep.at = NoPhoto
    /\ p \in sweep.todo
    /\ sweep' = [todo |-> sweep.todo \ {p}, at |-> p]
    /\ \/ DropBlob(p, "upload") /\ UNCHANGED mishaps
       \/ Happens("fault") /\ UNCHANGED blobs
    /\ UNCHANGED <<photos, variants, jobs, client, condemned>>

(* photos.DeleteAsync; a row that is already gone ends the whole pass. *)
SweepRow ==
    /\ sweep.at # NoPhoto
    /\ \/ /\ Exists(sweep.at)
          /\ RemovePhoto(sweep.at)
          /\ sweep' = [sweep EXCEPT !.at = NoPhoto]
       \/ /\ ~ Exists(sweep.at)
          /\ sweep' = NoSweep
          /\ UNCHANGED <<photos, variants, jobs>>
    /\ UNCHANGED <<blobs, client, condemned, mishaps>>

SweeperNext == SweepList \/ SweepRow \/ \E p \in Photo : SweepBlob(p)
=============================================================================
