---------------------------- MODULE VariantWorker ----------------------------
(***************************************************************************)
(* The worker process: VariantProcessingWorker's loop, which claims jobs   *)
(* from variant_jobs and hands each to a free lane, and the lanes, which   *)
(* run VariantProcessingHandler on them.                                   *)
(*                                                                         *)
(* The loop claims with a database context that lives for one pass; a lane *)
(* works with a context of its own.  The job object a lane marks Done or   *)
(* Failed belongs to the loop's context, so the outcome reaches the table  *)
(* only if the same pass saves again, that is, claims one more job after   *)
(* the lane is done.  Only the timeout path saves the job itself.          *)
(***************************************************************************)
EXTENDS PhotoStore

CONSTANTS
    Lane,      \* the worker's lanes
    MovieLane  \* those that serve videos; the others serve photos

ASSUME WorkerAssumption == MovieLane \subseteq Lane

VARIABLES
    loop,  \* the claiming loop: pc, the lanes the pass has yet to visit, the
           \* jobs whose outcome its context has yet to save, the lanes it
           \* waits for
    lane,  \* what each lane is doing
    task   \* the job objects in memory: state and attempts

workerVars == <<loop, lane, task>>

NoTask == [state |-> "none", attempts |-> 0]
NoCopy == [state |-> "absent", path |-> "upload"]
IdleLane == [pc |-> "idle", job |-> 0, photo |-> NoPhoto, read |-> NoCopy, mem |-> NoCopy,
             added |-> {}]
FreshPass == [pc |-> "fill", todo |-> Lane, tracked |-> {}, watched |-> {}]

Step == {"idle", "load", "open", "clear", "saverPut", "saverDrop",
         "addOriginal", "putPreview", "addPreview", "putThumbnail", "addThumbnail",
         "publish", "failsave", "timedout"}

(* A lane's context holds the photo as it was read or last saved ("read"), *)
(* as the handler has changed it ("mem"), and the variants to insert.      *)
Copy == [state : PhotoState \cup {"absent"}, path : OriginalPath]
LaneRecord == [pc : Step \ {"idle"}, job : Job, photo : Photo,
               read : Copy, mem : Copy, added : SUBSET VariantKind]

WorkerTypeOK ==
    /\ loop \in [pc : {"fill", "watch"}, todo : SUBSET Lane, tracked : SUBSET Job,
                 watched : SUBSET Lane]
    /\ lane \in [Lane -> LaneRecord \cup {IdleLane}]
    /\ \A l \in Lane : lane[l].mem.state = "absent" => lane[l].read.state = "absent"
    /\ task \in [Job -> [state : JobState \cup {"none"}, attempts : Nat]]

WorkerInit ==
    /\ loop = FreshPass
    /\ lane = [l \in Lane |-> IdleLane]
    /\ task = [j \in Job |-> NoTask]

Idle(l) == lane[l].pc = "idle"

-----------------------------------------------------------------------------
(* The loop.                                                               *)

(* Mutation of Group: an empty slice ends the whole pass. *)
AllLanes(l) == IF l \in Lane THEN Lane ELSE {}

(* The lanes of the same kind as lane l. *)
Group(l) == IF l \in MovieLane THEN MovieLane ELSE Lane \ MovieLane

(* Mutation of Slice: jobs another lane holds are claimable. *)
SliceHeld(l) ==
    {j \in Job : /\ jobs[j].state \in {"Queued", "Processing"}
                 /\ (jobs[j].photo \in Movie) = (l \in MovieLane)}

(* The part of the queue that lane l serves, oldest job first. *)
Slice(l) ==
    {j \in Job : /\ jobs[j].state = "Queued"
                 /\ (jobs[j].photo \in Movie) = (l \in MovieLane)}
Oldest(S) == CHOOSE j \in S : \A i \in S : j <= i

(* Tracked job objects that have an outcome to save. *)
Dirty == {j \in loop.tracked : task[j].state # "Processing"}

(* The pass visits the photo lanes, then the video lanes. *)
Visiting(l) ==
    /\ loop.pc = "fill"
    /\ l \in loop.todo
    /\ l \in MovieLane => loop.todo \subseteq MovieLane

SkipBusyLane(l) ==
    /\ Visiting(l)
    /\ ~ Idle(l)
    /\ loop' = [loop EXCEPT !.todo = @ \ {l}]
    /\ UNCHANGED <<storeVars, lane, task>>

(* DequeueNextAsync returned null: the other lanes of the group are left. *)
EmptySlice(l) ==
    /\ Visiting(l)
    /\ Idle(l)
    /\ Slice(l) = {}
    /\ loop' = [loop EXCEPT !.todo = @ \ Group(l)]
    /\ UNCHANGED <<storeVars, lane, task>>

(* DequeueNextAsync: the oldest job of the slice becomes Processing, and   *)
(* the same save writes the outcome of every tracked job that has one.     *)
Claim(l) ==
    LET j == Oldest(Slice(l)) IN
    /\ Visiting(l)
    /\ Idle(l)
    /\ Slice(l) # {}
    /\ \A i \in Dirty : jobs[i].state # "removed"
    /\ jobs' = [i \in Job |->
                  IF i = j THEN [jobs[i] EXCEPT !.state = "Processing"]
                  ELSE IF i \in Dirty
                       THEN [jobs[i] EXCEPT !.state = task[i].state, !.attempts = task[i].attempts]
                       ELSE jobs[i]]
    /\ task' = [task EXCEPT ![j] = [state |-> "Processing", attempts |-> jobs[j].attempts]]
    /\ lane' = [lane EXCEPT ![l] = [IdleLane EXCEPT !.pc = "load", !.job = j, !.photo = jobs[j].photo]]
    /\ loop' = [loop EXCEPT !.todo = @ \ {l}, !.tracked = (@ \ Dirty) \cup {j}]
    /\ UNCHANGED <<photos, variants, blobs, client, condemned, mishaps>>

(* The job objects still referenced once a context is disposed. *)
Referenced == [j \in Job |-> IF \E l \in Lane : lane[l].job = j THEN task[j] ELSE NoTask]

(* A tracked job with an outcome was deleted with its photo: the claim's   *)
(* save throws, its transaction rolls back and the loop starts over.       *)
ClaimThrows(l) ==
    /\ Visiting(l)
    /\ Idle(l)
    /\ Slice(l) # {}
    /\ \E i \in Dirty : jobs[i].state = "removed"
    /\ loop' = FreshPass
    /\ task' = Referenced
    /\ UNCHANGED <<storeVars, lane>>

(* Every lane visited.  With all lanes idle the loop sleeps until a        *)
(* notification or the idle interval and starts over; with a busy one it   *)
(* waits for a busy lane to finish, whatever is queued meanwhile.          *)
EndFill ==
    /\ loop.pc = "fill"
    /\ loop.todo = {}
    /\ loop' = IF \A l \in Lane : Idle(l)
               THEN FreshPass
               ELSE [pc |-> "watch", todo |-> {}, tracked |-> {},
                     watched |-> {l \in Lane : ~ Idle(l)}]
    /\ task' = Referenced
    /\ UNCHANGED <<storeVars, lane>>

LaneFreed ==
    /\ loop.pc = "watch"
    /\ \E l \in loop.watched : Idle(l)
    /\ loop' = FreshPass
    /\ UNCHANGED <<storeVars, lane, task>>

LoopStep ==
    \/ \E l \in Lane : SkipBusyLane(l) \/ EmptySlice(l) \/ Claim(l) \/ ClaimThrows(l)
    \/ EndFill
    \/ LaneFreed

-----------------------------------------------------------------------------
(* The lanes: ProcessJobAsync, one action per awaited call.                *)

TaskOf(l) == task[lane[l].job]
MarkTask(l, t) == task' = [task EXCEPT ![lane[l].job] = t]

Free(l) == lane' = [lane EXCEPT ![l] = IdleLane]

(* Mutation of FailedTask: one attempt too many. *)
FailedTaskOffByOne(t) ==
    [state |-> IF t.attempts + 1 > MaxAttempts THEN "Failed" ELSE "Queued",
     attempts |-> t.attempts + 1]

(* VariantJob.Fail: one more attempt spent; queued again or given up. *)
FailedTask(t) ==
    [state |-> IF t.attempts + 1 >= MaxAttempts THEN "Failed" ELSE "Queued",
     attempts |-> t.attempts + 1]
DoneTask(t) == [t EXCEPT !.state = "Done"]

(* The catch block: the job object and the photo in memory fail, then the  *)
(* context is saved, pending inserts included.                             *)
Catch(l, added) ==
    /\ lane' = [lane EXCEPT ![l].pc = "failsave", ![l].mem.state = "Failed", ![l].added = added]
    /\ MarkTask(l, FailedTask(TaskOf(l)))

(* SaveChanges of the lane's context, with the photo held as "mem". *)
SaveContext(l, mem, added) ==
    LET p == lane[l].photo IN
    /\ photos' = [photos EXCEPT ![p] = Merge(@, lane[l].read, mem)]
    /\ variants' = [variants EXCEPT ![p] = @ \cup added]

(* The states Photo.MarkProcessing accepts. *)
Processable == {"PendingProcessing", "Failed"}

(* The photo is gone (the job is complete), in a state MarkProcessing      *)
(* refuses outside the try block (the lane crashes), or processing starts. *)
LoadPhoto(l) ==
    LET row == photos[lane[l].photo]
        read == [state |-> row.state, path |-> row.path]
    IN
    /\ lane[l].pc = "load"
    /\ \/ /\ ~ Exists(lane[l].photo)
          /\ Free(l)
          /\ MarkTask(l, DoneTask(TaskOf(l)))
       \/ /\ row.state \in PhotoState \ Processable
          /\ Free(l)
          /\ UNCHANGED task
       \/ /\ row.state \in Processable
          /\ lane' = [lane EXCEPT ![l].pc = "open", ![l].read = read,
                                  ![l].mem = [read EXCEPT !.state = "Processing"]]
          /\ UNCHANGED task
    /\ UNCHANGED <<storeVars, loop>>

(* The original is downloaded once; what happens to the blob later does    *)
(* not disturb the local copy.                                             *)
OpenOriginal(l) ==
    /\ lane[l].pc = "open"
    /\ IF <<lane[l].photo, lane[l].mem.path>> \in blobs
          THEN lane' = [lane EXCEPT ![l].pc = "clear"] /\ UNCHANGED task
          ELSE Catch(l, {})
    /\ UNCHANGED <<storeVars, loop>>

(* variants.DeleteByPhotoAsync; then the saver decides. *)
ClearVariants(l) ==
    LET p == lane[l].photo
        oversize == p \in Recoded /\ lane[l].mem.path = "upload"
    IN
    /\ lane[l].pc = "clear"
    /\ variants' = [variants EXCEPT ![p] = {}]
    /\ lane' = [lane EXCEPT ![l].pc = IF oversize THEN "saverPut" ELSE "addOriginal"]
    /\ UNCHANGED <<photos, jobs, blobs, client, condemned, mishaps, loop, task>>

(* Mutation of SaverPut: the bytes are not yet durable. *)
SaverPutUnflushed(l) ==
    /\ lane[l].pc = "saverPut"
    /\ lane' = [lane EXCEPT ![l].pc = "saverDrop", ![l].mem.path = "saver"]
    /\ UNCHANGED <<storeVars, loop, task>>

(* ApplyStorageSaverAsync: write the smaller original, point the row in    *)
(* memory at it, delete the uploaded one.                                  *)
SaverPut(l) ==
    /\ lane[l].pc = "saverPut"
    /\ PutBlob(lane[l].photo, "saver")
    /\ lane' = [lane EXCEPT ![l].pc = "saverDrop", ![l].mem.path = "saver"]
    /\ UNCHANGED <<photos, variants, jobs, client, condemned, mishaps, loop, task>>

(* Mutation of SaverDrop: the new path is deleted instead of the old one. *)
SaverDropNew(l) ==
    /\ lane[l].pc = "saverDrop"
    /\ DropBlob(lane[l].photo, "saver")
    /\ lane' = [lane EXCEPT ![l].pc = "addOriginal"]
    /\ UNCHANGED <<photos, variants, jobs, client, condemned, mishaps, loop, task>>

SaverDrop(l) ==
    /\ lane[l].pc = "saverDrop"
    /\ DropBlob(lane[l].photo, "upload")
    /\ lane' = [lane EXCEPT ![l].pc = "addOriginal"]
    /\ UNCHANGED <<photos, variants, jobs, client, condemned, mishaps, loop, task>>

(* variants.AddAsync saves the whole context: the first one also writes    *)
(* the photo's Processing state and its new path.                          *)
AddVariant(l, pc, kind, next) ==
    /\ lane[l].pc = pc
    /\ IF CanSave(lane[l].photo, {kind})
          THEN /\ SaveContext(l, lane[l].mem, {kind})
               /\ lane' = [lane EXCEPT ![l].pc = next, ![l].read = lane[l].mem]
               /\ UNCHANGED task
          ELSE Catch(l, {kind}) /\ UNCHANGED <<photos, variants>>
    /\ UNCHANGED <<jobs, blobs, client, condemned, mishaps, loop>>

PutDerived(l, pc, kind, next) ==
    /\ lane[l].pc = pc
    /\ PutBlob(lane[l].photo, kind)
    /\ lane' = [lane EXCEPT ![l].pc = next]
    /\ UNCHANGED <<photos, variants, jobs, client, condemned, mishaps, loop, task>>

AddOriginal(l) == AddVariant(l, "addOriginal", "original", "putPreview")
PutPreview(l) == PutDerived(l, "putPreview", "preview", "addPreview")
AddPreview(l) == AddVariant(l, "addPreview", "preview", "putThumbnail")
PutThumbnail(l) == PutDerived(l, "putThumbnail", "thumbnail", "addThumbnail")
AddThumbnail(l) == AddVariant(l, "addThumbnail", "thumbnail", "publish")

Ready(l) == [lane[l].mem EXCEPT !.state = "Ready"]

(* MarkReady, Complete and the save of both; a photo deleted meanwhile     *)
(* makes it throw and the lane crashes.                                    *)
Publish(l) ==
    /\ lane[l].pc = "publish"
    /\ Free(l)
    /\ MarkTask(l, DoneTask(TaskOf(l)))
    /\ IF Exists(lane[l].photo) THEN SaveContext(l, Ready(l), {})
                                ELSE UNCHANGED <<photos, variants>>
    /\ UNCHANGED <<jobs, blobs, client, condemned, mishaps, loop>>

(* The save after the catch block; if it throws the lane crashes. *)
FailSave(l) ==
    /\ lane[l].pc = "failsave"
    /\ Free(l)
    /\ IF CanSave(lane[l].photo, lane[l].added)
          THEN SaveContext(l, lane[l].mem, lane[l].added)
          ELSE UNCHANGED <<photos, variants>>
    /\ UNCHANGED <<jobs, blobs, client, condemned, mishaps, loop, task>>

-----------------------------------------------------------------------------
(* What may go wrong.                                                      *)

(* The storage, the decoder or ffmpeg throws. *)
StepFails(l) ==
    /\ lane[l].pc \in {"open", "saverPut", "saverDrop", "addOriginal", "putPreview", "putThumbnail"}
    /\ Happens("fault")
    /\ Catch(l, {})
    /\ UNCHANGED <<photos, variants, jobs, blobs, client, condemned, loop>>

(* The insert a cancelled call leaves pending in the context. *)
Pending(l) ==
    CASE lane[l].pc = "addOriginal" -> {"original"}
      [] lane[l].pc = "addPreview" -> {"preview"}
      [] lane[l].pc = "addThumbnail" -> {"thumbnail"}
      [] OTHER -> {}

(* The job outlives its budget: RunJobAsync fails the job and saves it,    *)
(* with whatever else the lane's context holds.  The budget is minutes and *)
(* a pass fills its lanes in an instant, so the claiming pass is over.     *)
TimeoutSave(l, mem) ==
    LET j == lane[l].job
        failed == FailedTask(TaskOf(l))
    IN
    /\ j \notin loop.tracked
    /\ Happens("timeout")
    /\ IF CanSave(lane[l].photo, Pending(l))
          THEN /\ jobs' = [jobs EXCEPT ![j].state = failed.state, ![j].attempts = failed.attempts]
               /\ SaveContext(l, mem, Pending(l))
               /\ lane' = [lane EXCEPT ![l].pc = "timedout", ![l].read = mem, ![l].mem = mem]
          ELSE Free(l) /\ UNCHANGED <<photos, variants, jobs>>
    /\ MarkTask(l, failed)
    /\ UNCHANGED <<blobs, client, condemned, loop>>

(* While the call for the ML jobs is cancelled the photo is already Ready  *)
(* in memory.                                                              *)
Timeout(l) ==
    \/ lane[l].pc \in Step \ {"idle", "publish", "failsave", "timedout"} /\ TimeoutSave(l, lane[l].mem)
    \/ lane[l].pc = "publish" /\ lane[l].photo \notin Movie /\ TimeoutSave(l, Ready(l))

(* Cancelled in the last save, when the job object has its outcome: Fail   *)
(* throws and the lane crashes with nothing saved.                         *)
TimeoutLate(l) ==
    /\ lane[l].pc \in {"publish", "failsave"}
    /\ lane[l].job \notin loop.tracked
    /\ Happens("timeout")
    /\ Free(l)
    /\ UNCHANGED <<photos, variants, jobs, blobs, client, condemned, loop, task>>

(* The second half of the timeout path: mark the photo Failed, which       *)
(* throws unless this lane holds it as Processing.  A lane that never got  *)
(* the photo loaded reads it now.                                          *)
TimeoutLoad(l) ==
    LET row == photos[lane[l].photo]
        seen == [state |-> row.state, path |-> row.path]
    IN
    /\ lane[l].pc = "timedout"
    /\ lane[l].mem = NoCopy
    /\ IF row.state = "Processing"
          THEN lane' = [lane EXCEPT ![l].read = seen, ![l].mem = seen]
          ELSE Free(l)
    /\ UNCHANGED <<storeVars, loop, task>>

TimeoutMark(l) ==
    LET p == lane[l].photo IN
    /\ lane[l].pc = "timedout"
    /\ lane[l].mem # NoCopy
    /\ Free(l)
    /\ IF lane[l].mem.state = "Processing" /\ Exists(p)
          THEN photos' = [photos EXCEPT ![p].state = "Failed"]
          ELSE UNCHANGED photos
    /\ UNCHANGED <<variants, jobs, blobs, client, condemned, mishaps, loop, task>>

Busy == \E l \in Lane : ~ Idle(l)

(* The process dies or is shut down: memory is lost, tables and blobs stay. *)
WorkerCrash ==
    /\ Busy
    /\ Happens("crash")
    /\ loop' = FreshPass
    /\ lane' = [l \in Lane |-> IdleLane]
    /\ task' = [j \in Job |-> NoTask]
    /\ UNCHANGED <<photos, variants, jobs, blobs, client, condemned>>

LaneStep(l) ==
    \/ LoadPhoto(l) \/ OpenOriginal(l) \/ ClearVariants(l)
    \/ SaverPut(l) \/ SaverDrop(l)
    \/ AddOriginal(l) \/ PutPreview(l) \/ AddPreview(l) \/ PutThumbnail(l) \/ AddThumbnail(l)
    \/ Publish(l) \/ FailSave(l)
    \/ TimeoutLoad(l) \/ TimeoutMark(l)

LaneMishap(l) == StepFails(l) \/ Timeout(l) \/ TimeoutLate(l)

WorkerNext ==
    \/ LoopStep
    \/ \E l \in Lane : LaneStep(l) \/ LaneMishap(l)
    \/ WorkerCrash
=============================================================================
