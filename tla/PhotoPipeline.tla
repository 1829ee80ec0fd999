---------------------------- MODULE PhotoPipeline ----------------------------
(***************************************************************************)
(* The API process and the worker process over the store they share.       *)
(***************************************************************************)
EXTENDS PhotoApi, VariantWorker, OrphanSweeper

vars == <<storeVars, apiVars, workerVars, sweeperVars>>

TypeOK == StoreTypeOK /\ ApiTypeOK /\ WorkerTypeOK /\ SweeperTypeOK

Init == StoreInit /\ ApiInit /\ WorkerInit /\ SweeperInit

ApiMoves == ApiNext /\ UNCHANGED <<workerVars, sweeperVars>>
Serving(r) == Serve(r) /\ UNCHANGED <<workerVars, sweeperVars>>

Looping == LoopStep /\ UNCHANGED <<apiVars, sweeperVars>>
Processing(l) == LaneStep(l) /\ UNCHANGED <<apiVars, sweeperVars>>
Failing(l) == LaneMishap(l) /\ UNCHANGED <<apiVars, sweeperVars>>

(* The lanes and the sweeper live in one process and die together. *)
Crashing == WorkerCrash /\ sweep' = NoSweep /\ UNCHANGED apiVars

Sweeping == SweeperNext /\ UNCHANGED <<apiVars, workerVars>>

Next ==
    \/ ApiMoves
    \/ Looping
    \/ \E l \in Lane : Processing(l) \/ Failing(l)
    \/ Crashing
    \/ Sweeping

Spec == Init /\ [][Next]_vars

(* Fairness: the processes keep running.  The loop is one thread of        *)
(* control, each lane and each request another, and the sweeper's timer    *)
(* keeps firing.  Nothing is assumed of the devices, of the users, or of   *)
(* the mishaps.                                                            *)
Fairness ==
    /\ WF_vars(Looping)
    /\ WF_vars(Sweeping)
    /\ \A r \in Request : WF_vars(Serving(r))
    /\ \A l \in Lane : WF_vars(Processing(l))

FairSpec == Spec /\ Fairness

-----------------------------------------------------------------------------
(* Safety.                                                                 *)

(* A photo the gallery shows can be opened: a Ready photo has its three    *)
(* variant rows and the three objects they point at, unless its owner      *)
(* asked to delete it.                                                     *)
ReadyServable ==
    \A p \in Photo \ condemned :
        photos[p].state = "Ready" =>
            /\ Ingested \subseteq variants[p]
            /\ \A k \in Ingested : <<p, VariantBlob(p, k)>> \in blobs

InHandler(l) == lane[l].pc \notin {"idle", "load", "failsave", "timedout"}

(* The handler is not reentrant: it clears and rebuilds the variants of    *)
(* its photo.  No requeued or timed-out job is given to a second lane      *)
(* while the first is still in the handler, so two lanes work on one photo *)
(* only if it was given two jobs.                                          *)
OneHandlerPerJob ==
    \A l, m \in Lane :
        (l # m /\ InHandler(l) /\ InHandler(m)) => lane[l].job # lane[m].job

(* Once the API has confirmed an upload the photo stays until its owner    *)
(* asks to delete it; neither the sweeper nor a failed job drops it.       *)
AckedKept ==
    \A p \in Photo \ condemned : client[p] = "acked" => Exists(p)

(* The uploaded bytes of a confirmed photo are never lost: some original,  *)
(* the uploaded or the smaller one, is in the storage.                     *)
BytesKept ==
    \A p \in Photo \ condemned :
        client[p] = "acked" => \E b \in OriginalPath : <<p, b>> \in blobs

(* The retry budget: a job waits for another attempt only while it has one *)
(* left, and is given up exactly when it has none.                         *)
AttemptsSpent ==
    \A j \in Job :
        /\ jobs[j].state = "Queued" => jobs[j].attempts < MaxAttempts
        /\ jobs[j].state = "Failed" => jobs[j].attempts = MaxAttempts

(* A photo waiting to be processed has a job, and none of the steps that   *)
(* mark a job Done ends the last one: the confirmation and its job are one *)
(* transaction, and so are the job's end and the photo's.                  *)
ConfirmedHasJob ==
    \A p \in Photo :
        photos[p].state = "PendingProcessing" =>
            \E j \in Job : jobs[j].photo = p /\ jobs[j].state # "Done"

(* A reservation the sweeper expired leaves nothing behind in the storage. *)
SweptClean ==
    \A p \in Photo \ condemned :
        photos[p].state = "deleted" => \A b \in BlobName : <<p, b>> \notin blobs

(* The library's contract. *)
PhaseOf(s) ==
    CASE s = "absent" -> "none"
      [] s = "PendingUpload" -> "reserved"
      [] s \in {"PendingProcessing", "Processing"} -> "working"
      [] s = "Ready" -> "ready"
      [] s = "Failed" -> "failed"
      [] s = "deleted" -> "removed"

Lifecycle == INSTANCE PhotoLifecycle WITH
    phase <- [p \in Photo |-> PhaseOf(photos[p].state)], unwanted <- condemned

(* The pipeline implements the contract, through every interleaving of     *)
(* requests, lanes and sweeper.                                            *)
FollowsLifecycle == Lifecycle!Spec

-----------------------------------------------------------------------------
(* Liveness.                                                               *)

Settled(p) == photos[p].state \in {"Ready", "Failed", "deleted"}

(* A confirmed upload is processed, and does not hang in between. *)
UploadSettles ==
    \A p \in Photo : photos[p].state = "PendingProcessing" ~> Settled(p)

(* A reservation whose device is gone is released. *)
ReservationReleased ==
    \A p \in Photo :
        (client[p] = "gone" /\ photos[p].state = "PendingUpload")
            ~> photos[p].state # "PendingUpload"

-----------------------------------------------------------------------------
(* What the repository says of the program and the code does not keep.     *)

(* VariantJob.cs:55, of Fail: "Returns true when the job will be retried". *)
FailedJobRetried ==
    \A p \in Photo : photos[p].state = "Failed" ~> photos[p].state # "Failed"

(* UserPreferencesService.cs:28-29: photos "whose stored bytes can be      *)
(* rewritten" are re-enqueued so that they are.                            *)
ReprocessRewrites ==
    \A p \in Recoded :
        (photos[p].state = "Ready" /\ \E j \in Job : jobs[j].photo = p)
            ~> photos[p].path = "saver"

(* VariantProcessingHandler.cs:145-146: the uploaded bytes are dropped     *)
(* "only after the compressed bytes are durable", so the stored original   *)
(* of a photo no lane works on can be opened.                              *)
OriginalReachable ==
    \A p \in Photo \ condemned :
        (client[p] = "acked" /\ \A l \in Lane : lane[l].photo # p)
            => <<p, photos[p].path>> \in blobs
=============================================================================
