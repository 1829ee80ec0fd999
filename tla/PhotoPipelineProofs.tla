------------------------- MODULE PhotoPipelineProofs -------------------------
(***************************************************************************)
(* Theorems about the pipeline, for any number of photos, jobs, lanes and  *)
(* requests, any set of allowed mishaps and every interleaving: what a     *)
(* confirmed photo may lose; what the worker owes its queue, the retry     *)
(* budget, one handler per job and a job for every photo that waits; and   *)
(* that the pipeline implements the contract PhotoLifecycle.               *)
(***************************************************************************)
EXTENDS PhotoPipeline, WellFoundedInduction, TLAPS

(* An id is minted once: while a device is idle its photo has no row, and  *)
(* a multipart upload that has not inserted its row owns its id.           *)
Inserting(r) == req[r].kind = "ingest" /\ req[r].pc \in {"put", "row"}

Minted ==
    /\ \A p \in Photo : client[p] = "idle" => photos[p].state = "absent"
    /\ \A r \in Request : req[r].kind = "ingest" => client[req[r].photo] # "idle"
    /\ \A r \in Request : Inserting(r) => photos[req[r].photo].state = "absent"
    /\ \A r, s \in Request :
          (r # s /\ Inserting(r) /\ Inserting(s)) => req[r].photo # req[s].photo

(* A busy lane's job belongs to the lane's photo, or both rows are gone.   *)
Linked ==
    \A l \in Lane :
        lane[l].pc # "idle" =>
            \/ /\ jobs[lane[l].job].state \in JobState
               /\ jobs[lane[l].job].photo = lane[l].photo
            \/ /\ jobs[lane[l].job].state = "removed"
               /\ photos[lane[l].photo].state = "deleted"

(* A tracked job was claimed, and its object is in memory. *)
Tracked ==
    \A j \in loop.tracked : jobs[j].state # "absent" /\ task[j].state # "none"

TypeInv == TypeOK /\ Minted /\ Linked /\ Tracked

(* How the tables age, whoever writes them: a deleted photo stays deleted, *)
(* and a job keeps its photo until it is removed together with it.         *)
Ages ==
    /\ \A p \in Photo : photos[p].state = "deleted" => photos'[p].state = "deleted"
    /\ \A j \in Job :
          \/ jobs[j].state = "absent"
          \/ jobs[j].state = "removed" /\ jobs'[j].state = "removed"
          \/ /\ jobs[j].state \in JobState
             /\ \/ jobs'[j].state \in JobState /\ jobs'[j].photo = jobs[j].photo
                \/ jobs'[j].state = "removed" /\ photos'[jobs[j].photo].state = "deleted"

USE PhotoAssumption, KindAssumption, BoundsAssumption, ApiAssumption, WorkerAssumption,
    SweeperAssumption

(* Nobody but the worker moves the worker. *)
LEMMA AgedLanes ==
    ASSUME TypeInv, Ages, UNCHANGED workerVars
    PROVE  WorkerTypeOK' /\ Linked' /\ Tracked'
<1>1. WorkerTypeOK'
  BY DEF TypeInv, TypeOK, WorkerTypeOK, workerVars
<1>2. \A l \in Lane : lane[l].pc # "idle" => lane[l].job \in Job /\ lane[l].photo \in Photo
  BY DEF TypeInv, TypeOK, WorkerTypeOK, LaneRecord, IdleLane
<1>3. Linked'
  BY <1>2 DEF TypeInv, Linked, Ages, JobState, workerVars
<1>4. loop.tracked \subseteq Job
  BY DEF TypeInv, TypeOK, WorkerTypeOK
<1>5. Tracked'
  BY <1>4 DEF TypeInv, Tracked, Ages, JobState, workerVars
<1> QED BY <1>1, <1>3, <1>5
-----------------------------------------------------------------------------
(* The requests.                                                           *)

(* The record of a running request. *)
LEMMA Running ==
    ASSUME ApiTypeOK, NEW r \in Request, req[r].pc # "idle"
    PROVE  req[r] \in RequestRecord
BY DEF ApiTypeOK, RequestRecord, NoRequest

(* What a step does to the table of requests: slot r takes the record q,   *)
(* which starts no insertion under an id that is not its own.              *)
OwnTodo(q) == q.todo \subseteq IF q.pc = "put" THEN BlobName ELSE VariantKind
Slot(r, q) ==
    /\ q \in RequestRecord \cup {NoRequest}
    /\ req' = [req EXCEPT ![r] = q]
    /\ q.kind = "ingest" =>
          /\ OwnTodo(q)
          /\ client'[q.photo] # "idle"
          /\ q.pc \in {"put", "row"} => (Inserting(r) /\ q.photo = req[r].photo)

(* A handler that goes on keeps its slot, its kind and its photo. *)
LEMMA GotoSlot ==
    ASSUME TypeInv, NEW r \in Request, req[r].pc # "idle", UNCHANGED client,
           NEW pc, NEW todo \in SUBSET (BlobName \cup VariantKind), Goto(r, pc, todo),
           pc \in {"save", "row", "blobs", "variants", "put", "add", "flag", "insert", "ready"},
           req[r].kind = "ingest" =>
               /\ todo \subseteq IF pc = "put" THEN BlobName ELSE VariantKind
               /\ pc \in {"put", "row"} => Inserting(r)
    PROVE  \E q : Slot(r, q) /\ q.kind = req[r].kind /\ q.photo = req[r].photo /\ q.pc = pc
<1> DEFINE q == [req[r] EXCEPT !.pc = pc, !.todo = todo]
<1>1. req[r] \in RequestRecord
  BY Running DEF TypeInv, TypeOK
<1>2. /\ q \in RequestRecord
      /\ q.kind = req[r].kind /\ q.photo = req[r].photo /\ q.pc = pc
  BY <1>1 DEF RequestRecord
<1>3. req' = [req EXCEPT ![r] = q]
  BY <1>1 DEF Goto, TypeInv, TypeOK, ApiTypeOK, RequestRecord
<1>4. q.kind = "ingest" => client'[q.photo] # "idle" /\ OwnTodo(q)
  BY <1>2 DEF TypeInv, Minted, OwnTodo
<1> HIDE DEF q
<1>5. Slot(r, q)
  BY <1>2, <1>3, <1>4 DEF Slot
<1> QED BY <1>2, <1>5

(* A handler that returns, or is cancelled, gives its slot back. *)
LEMMA ReturnSlot ==
    ASSUME NEW r \in Request, Return(r)
    PROVE  Slot(r, NoRequest)
BY DEF Slot, Return, NoRequest

(* A handler other than an import that starts takes a well-formed slot. *)
LEMMA BeginSlot ==
    ASSUME NEW r \in Request, NEW kind, NEW p \in Photo, NEW pc,
           NEW todo \in SUBSET (BlobName \cup VariantKind), Begin(r, kind, p, pc, todo),
           kind # "ingest", pc \in {"exists", "blob", "list", "find", "enqueue"}
    PROVE  \E q : Slot(r, q)
<1> DEFINE q == [kind |-> kind, pc |-> pc, photo |-> p, todo |-> todo]
<1>1. q \in RequestRecord /\ q.kind # "ingest" /\ req' = [req EXCEPT ![r] = q]
  BY DEF Begin, RequestRecord
<1> QED BY <1>1 DEF Slot

(* A step of a request that leaves the tables alone. *)
LEMMA TableFreeStep ==
    ASSUME TypeInv, NEW r \in Request, NEW q, Slot(r, q),
           UNCHANGED <<photos, variants, jobs, client, workerVars, sweeperVars>>,
           blobs' \in SUBSET (Photo \X BlobName), condemned' \in SUBSET Photo,
           mishaps' \in 0 .. MaxMishaps
    PROVE  TypeInv'
<1>1. StoreTypeOK'
  BY DEF TypeInv, TypeOK, StoreTypeOK, KeysOK, Exists
<1>2. ApiTypeOK' /\ SweeperTypeOK'
  BY DEF TypeInv, TypeOK, ApiTypeOK, SweeperTypeOK, Slot, OwnTodo, sweeperVars
<1>3. Minted'
  BY DEF TypeInv, TypeOK, ApiTypeOK, Minted, Inserting, Slot
<1>4. Ages
  BY DEF TypeInv, TypeOK, StoreTypeOK, JobRow, NoJobRow, Ages
<1> QED BY <1>1, <1>2, <1>3, <1>4, AgedLanes DEF TypeInv, TypeOK

(* A step of a request that writes the tables. *)
LEMMA TableStep ==
    ASSUME TypeInv, NEW r \in Request, NEW q, Slot(r, q), StoreTypeOK', Ages,
           UNCHANGED <<workerVars, sweeperVars>>,
           \A p \in Photo :
              /\ client[p] # "idle" => client'[p] # "idle"
              /\ client'[p] = "idle" => photos'[p].state = "absent"
              /\ \A s \in Request \ {r} :
                    (Inserting(s) /\ req[s].photo = p) => photos'[p].state = photos[p].state,
           ~ (q.kind = "ingest" /\ q.pc \in {"put", "row"})
    PROVE  TypeInv'
<1>1. ApiTypeOK' /\ SweeperTypeOK'
  BY DEF TypeInv, TypeOK, ApiTypeOK, SweeperTypeOK, Slot, OwnTodo, sweeperVars
<1>2. \A s \in Request : req[s].kind = "ingest" => req[s].photo \in Photo
  BY DEF TypeInv, TypeOK, ApiTypeOK, RequestRecord, NoRequest
<1>3. Minted'
  BY <1>2 DEF TypeInv, TypeOK, ApiTypeOK, Minted, Inserting, Slot, RequestRecord
<1> QED BY <1>1, <1>3, AgedLanes DEF TypeInv, TypeOK

(* The device: the reservation, the direct PUT, and giving up. *)
LEMMA DeviceType ==
    ASSUME TypeInv, NEW p \in Photo, UNCHANGED <<workerVars, sweeperVars>>,
           CreateUploadTicket(p) \/ ClientPut(p) \/ ClientGone(p)
    PROVE  TypeInv'
<1>1. ApiTypeOK' /\ SweeperTypeOK'
  BY DEF TypeInv, TypeOK, ApiTypeOK, SweeperTypeOK, sweeperVars,
         CreateUploadTicket, ClientPut, ClientGone
<1>2. CASE CreateUploadTicket(p)
  <2>1. StoreTypeOK'
    BY <1>2 DEF TypeInv, TypeOK, StoreTypeOK, KeysOK, CreateUploadTicket, PhotoRow, PhotoState, Exists
  <2>2. Minted'
    BY <1>2 DEF TypeInv, TypeOK, StoreTypeOK, Minted, Inserting, CreateUploadTicket
  <2>3. Ages
    BY <1>2 DEF TypeInv, TypeOK, StoreTypeOK, JobRow, NoJobRow, Minted, Ages, CreateUploadTicket
  <2> QED BY <1>1, <2>1, <2>2, <2>3, AgedLanes DEF TypeInv, TypeOK
<1>3. CASE ClientPut(p)
  <2>1. StoreTypeOK'
    BY <1>3 DEF TypeInv, TypeOK, StoreTypeOK, KeysOK, ClientPut, PutBlob, BlobName, OriginalPath, Exists
  <2>2. Minted' /\ Ages
    BY <1>3 DEF TypeInv, TypeOK, StoreTypeOK, JobRow, NoJobRow, Minted, Inserting, Ages, ClientPut
  <2> QED BY <1>1, <2>1, <2>2, AgedLanes DEF TypeInv, TypeOK
<1>4. CASE ClientGone(p)
  <2>1. StoreTypeOK'
    BY <1>4 DEF TypeInv, TypeOK, StoreTypeOK, KeysOK, ClientGone, Exists
  <2>2. Minted' /\ Ages
    BY <1>4 DEF TypeInv, TypeOK, StoreTypeOK, JobRow, NoJobRow, Minted, Inserting, Ages, ClientGone
  <2> QED BY <1>1, <2>1, <2>2, AgedLanes DEF TypeInv, TypeOK
<1> QED BY <1>2, <1>3, <1>4

(* The first step of each kind of request. *)
LEMMA ArrivalType ==
    ASSUME TypeInv, NEW r \in Request, NEW p \in Photo, UNCHANGED <<workerVars, sweeperVars>>,
           \/ CompleteBegin(r, p) \/ AbortBegin(r, p) \/ DeleteBegin(r, p)
           \/ AttachBegin(r, p) \/ ReprocessBegin(r, p) \/ IngestBegin(r, p)
    PROVE  TypeInv'
<1>1. CASE CompleteBegin(r, p) \/ DeleteBegin(r, p) \/ AttachBegin(r, p) \/ ReprocessBegin(r, p)
  <2>1. {photos[p].path} \in SUBSET (BlobName \cup VariantKind)
    BY DEF TypeInv, TypeOK, StoreTypeOK, PhotoRow, BlobName
  <2>2. \E q : Slot(r, q)
    <3>1. PICK kind \in {"complete", "delete", "attach", "reprocess"},
               pc \in {"exists", "list", "find", "enqueue"},
               todo \in SUBSET (BlobName \cup VariantKind) :
                  Begin(r, kind, p, pc, todo)
      BY <1>1, <2>1 DEF CompleteBegin, DeleteBegin, AttachBegin, ReprocessBegin
    <3> QED BY <3>1, BeginSlot
  <2>3. /\ UNCHANGED <<photos, variants, jobs, client>>
        /\ blobs' \in SUBSET (Photo \X BlobName)
        /\ condemned' \in SUBSET Photo
        /\ mishaps' \in 0 .. MaxMishaps
    BY <1>1 DEF CompleteBegin, DeleteBegin, AttachBegin, ReprocessBegin, storeVars,
         TypeInv, TypeOK, StoreTypeOK
  <2> QED BY <2>2, <2>3, TableFreeStep
<1>2. CASE AbortBegin(r, p)
  <2>1. \E q : Slot(r, q) /\ q.kind = "abort"
    <3> DEFINE q == [kind |-> "abort", pc |-> "blob", photo |-> p, todo |-> {}]
    <3>1. q \in RequestRecord /\ q.kind = "abort" /\ req' = [req EXCEPT ![r] = q]
      BY <1>2 DEF AbortBegin, Begin, RequestRecord
    <3> QED BY <3>1 DEF Slot
  <2>2. StoreTypeOK'
    BY <1>2 DEF TypeInv, TypeOK, StoreTypeOK, KeysOK, AbortBegin, Exists
  <2>3. Ages
    BY <1>2 DEF TypeInv, TypeOK, StoreTypeOK, JobRow, NoJobRow, Ages, AbortBegin
  <2>4. \A o \in Photo :
           /\ client[o] # "idle" => client'[o] # "idle"
           /\ client'[o] = "idle" => photos'[o].state = "absent"
           /\ photos'[o].state = photos[o].state
    BY <1>2 DEF TypeInv, TypeOK, StoreTypeOK, Minted, AbortBegin
  <2> QED BY <2>1, <2>2, <2>3, <2>4, TableStep
<1>3. CASE IngestBegin(r, p)
  <2>1. StoreTypeOK'
    BY <1>3 DEF TypeInv, TypeOK, StoreTypeOK, KeysOK, IngestBegin, Exists
  <2>2. Ages
    BY <1>3 DEF TypeInv, TypeOK, StoreTypeOK, JobRow, NoJobRow, Ages, IngestBegin
  <2>3. PICK q \in RequestRecord :
           /\ req' = [req EXCEPT ![r] = q]
           /\ q.kind = "ingest" /\ q.pc = "put" /\ q.photo = p /\ q.todo \subseteq BlobName
    <3> DEFINE q == [kind |-> "ingest", pc |-> "put", photo |-> p,
                     todo |-> {"upload", "preview", "thumbnail"}]
    <3>1. /\ q \in RequestRecord /\ req' = [req EXCEPT ![r] = q]
          /\ q.kind = "ingest" /\ q.pc = "put" /\ q.photo = p /\ q.todo \subseteq BlobName
      BY <1>3 DEF IngestBegin, Begin, RequestRecord, BlobName, OriginalPath
    <3> QED BY <3>1
  <2>4. ApiTypeOK' /\ SweeperTypeOK'
    BY <2>3 DEF TypeInv, TypeOK, ApiTypeOK, SweeperTypeOK, sweeperVars
  <2>5. client[p] = "idle" /\ client' = [client EXCEPT ![p] = "gone"] /\ photos' = photos
    BY <1>3 DEF IngestBegin
  <2>6. Minted'
    BY <2>3, <2>5 DEF TypeInv, TypeOK, StoreTypeOK, ApiTypeOK, Minted, Inserting
  <2> QED BY <2>1, <2>2, <2>4, <2>6, AgedLanes DEF TypeInv, TypeOK
<1> QED BY <1>1, <1>2, <1>3

(* A request that writes the row of its photo owns the row: it exists, or   *)
(* the request is about to insert it.                                      *)
LEMMA OwnRow ==
    ASSUME TypeInv, NEW r \in Request, NEW p \in Photo,
           Exists(p) \/ (Inserting(r) /\ req[r].photo = p),
           \A o \in Photo \ {p} : photos'[o].state = photos[o].state,
           \A o \in Photo : client'[o] = "idle" <=> client[o] = "idle"
    PROVE  \A o \in Photo :
              /\ client[o] # "idle" => client'[o] # "idle"
              /\ client'[o] = "idle" => photos'[o].state = "absent"
              /\ \A s \in Request \ {r} :
                    (Inserting(s) /\ req[s].photo = o) => photos'[o].state = photos[o].state
<1>1. client[p] # "idle"
  BY DEF TypeInv, Minted, Exists, PhotoState, Inserting
<1>2. \A s \in Request \ {r} : Inserting(s) => req[s].photo # p
  BY DEF TypeInv, Minted, Exists, PhotoState
<1> QED BY <1>1, <1>2 DEF TypeInv, Minted

(* Enqueue appends one job, of a photo that exists. *)
LEMMA EnqueueAppends ==
    ASSUME TypeInv, NEW p \in Photo, Exists(p), Enqueue(p), UNCHANGED variants,
           photos' \in [Photo -> PhotoRow], \A o \in Photo : Exists(o) => Exists(o)',
           \A o \in Photo : photos[o].state = "deleted" => photos'[o].state = "deleted"
    PROVE  jobs' \in [Job -> JobRow] /\ KeysOK' /\ Ages
<1>1. PICK j \in Job :
         /\ jobs[j].state = "absent"
         /\ jobs' = [jobs EXCEPT ![j] = [state |-> "Queued", photo |-> p, attempts |-> 0]]
  BY DEF Enqueue
<1>2. jobs' \in [Job -> JobRow]
  BY <1>1 DEF TypeInv, TypeOK, StoreTypeOK, JobRow, JobState
<1>3. KeysOK'
  <2>1. \A o \in Photo : variants'[o] # {} => Exists(o)'
    BY DEF TypeInv, TypeOK, StoreTypeOK, KeysOK
  <2>2. ASSUME NEW i \in Job, jobs'[i].state \in JobState PROVE Exists(jobs[i].photo)'
    <3>1. CASE i = j
      BY <3>1, <1>1 DEF TypeInv, TypeOK, StoreTypeOK
    <3>2. CASE i # j
      <4>1. jobs'[i] = jobs[i] /\ jobs[i].photo \in Photo
        BY <3>2, <1>1, <2>2 DEF TypeInv, TypeOK, StoreTypeOK, JobRow, NoJobRow, JobState
      <4> QED BY <4>1, <2>2 DEF TypeInv, TypeOK, StoreTypeOK, KeysOK
    <3> QED BY <3>1, <3>2
  <2> QED BY <2>1, <2>2 DEF KeysOK
<1>4. Ages
  BY <1>1 DEF TypeInv, TypeOK, StoreTypeOK, JobRow, NoJobRow, Ages
<1> QED BY <1>2, <1>3, <1>4

(* Removing a photo takes its variants and its jobs along. *)
LEMMA RemoveCascades ==
    ASSUME TypeInv, NEW p \in Photo, RemovePhoto(p)
    PROVE  /\ photos' \in [Photo -> PhotoRow]
           /\ variants' \in [Photo -> SUBSET VariantKind]
           /\ jobs' \in [Job -> JobRow]
           /\ KeysOK' /\ Ages
<1>1. /\ photos' = [photos EXCEPT ![p] = NoRow("deleted")]
      /\ variants' = [variants EXCEPT ![p] = {}]
      /\ jobs' = [j \in Job |-> IF jobs[j].photo = p THEN NoJobRow("removed") ELSE jobs[j]]
  BY DEF RemovePhoto
<1>2. NoRow("deleted") \in PhotoRow /\ NoRow("deleted").state = "deleted"
  BY DEF NoRow, PhotoRow, OriginalPath
<1>3. photos' \in [Photo -> PhotoRow] /\ variants' \in [Photo -> SUBSET VariantKind]
  BY <1>1, <1>2 DEF TypeInv, TypeOK, StoreTypeOK
<1>4. jobs' \in [Job -> JobRow]
  BY <1>1 DEF TypeInv, TypeOK, StoreTypeOK, JobRow
<1>5. /\ NoJobRow("removed").state = "removed" /\ "removed" \notin JobState
      /\ NoJobRow("removed").photo = NoPhoto
  BY DEF NoJobRow, JobState
<1>6. KeysOK'
  <2>1. ASSUME NEW o \in Photo, variants'[o] # {} PROVE Exists(o)'
    BY <1>1, <2>1 DEF TypeInv, TypeOK, StoreTypeOK, KeysOK, Exists
  <2>2. ASSUME NEW j \in Job, jobs'[j].state \in JobState PROVE Exists(jobs[j].photo)'
    <3>1. jobs'[j] = jobs[j] /\ jobs[j].photo # p
      BY <1>1, <1>5, <2>2
    <3>2. jobs[j].photo \in Photo
      BY <2>2, <3>1 DEF TypeInv, TypeOK, StoreTypeOK, JobRow, NoJobRow, JobState
    <3> QED BY <1>1, <2>2, <3>1, <3>2 DEF TypeInv, TypeOK, StoreTypeOK, KeysOK, Exists
  <2> QED BY <2>1, <2>2 DEF KeysOK
<1>7. Ages
  <2>1. \A o \in Photo : photos[o].state = "deleted" => photos'[o].state = "deleted"
    BY <1>1, <1>2 DEF TypeInv, TypeOK, StoreTypeOK
  <2>2. ASSUME NEW j \in Job
        PROVE  jobs'[j] = jobs[j] \/ (/\ jobs[j].photo = p
                                      /\ jobs'[j].state = "removed"
                                      /\ photos'[p].state = "deleted")
    BY <1>1, <1>2, <1>5 DEF TypeInv, TypeOK, StoreTypeOK
  <2>3. \A j \in Job : jobs[j].photo = p => jobs[j].state \in JobState
    BY DEF TypeInv, TypeOK, StoreTypeOK, JobRow, NoJobRow
  <2> QED BY <2>1, <2>2, <2>3 DEF TypeInv, TypeOK, StoreTypeOK, JobRow, NoJobRow, Ages
<1> QED BY <1>3, <1>4, <1>6, <1>7

(* A step that leaves the jobs alone and keeps every row. *)
LEMMA RowKept ==
    ASSUME TypeInv, UNCHANGED jobs,
           \A o \in Photo : Exists(o) => Exists(o)',
           \A o \in Photo : photos[o].state = "deleted" => photos'[o].state = "deleted",
           \A o \in Photo : variants'[o] # {} => Exists(o)'
    PROVE  KeysOK' /\ Ages
<1>1. \A j \in Job : jobs[j].state \in JobState => jobs[j].photo \in Photo
  BY DEF TypeInv, TypeOK, StoreTypeOK, JobRow, NoJobRow, JobState
<1>2. KeysOK'
  BY <1>1 DEF TypeInv, TypeOK, StoreTypeOK, KeysOK
<1>3. Ages
  BY DEF TypeInv, TypeOK, StoreTypeOK, JobRow, NoJobRow, Ages
<1> QED BY <1>2, <1>3

(* The later steps of each kind of request, one by one. *)
LEMMA ServeType ==
    ASSUME TypeInv, NEW r \in Request, UNCHANGED <<workerVars, sweeperVars>>, Serve(r)
    PROVE  TypeInv'
<1> DEFINE p == req[r].photo
<1>0. /\ req[r].pc # "idle"
      /\ req[r] \in RequestRecord
      /\ p \in Photo
  <2>1. req[r].pc # "idle"
    BY DEF Serve, TypeInv, TypeOK, ApiTypeOK, RequestRecord, NoRequest, At, CompleteExists, CompleteSave,
         AbortBlob, DeleteRow, DeleteList, DeleteBlob, DeleteVariants, AttachFind, AttachPut,
         AttachAdd, AttachFlag, ReprocessEnqueue, IngestPut, IngestRow, IngestInsert, IngestReady
  <2> QED BY <2>1, Running DEF TypeInv, TypeOK, RequestRecord
<1>a. Slot(r, NoRequest) => /\ \E q : Slot(r, q)
                            /\ \E q : Slot(r, q) /\ ~ (q.kind = "ingest" /\ q.pc \in {"put", "row"})
  BY DEF NoRequest
(* The steps that leave the tables alone. *)
<1>1. CASE CompleteExists(r) \/ DeleteList(r) \/ AttachFind(r)
  <2>1. {VariantBlob(p, k) : k \in variants[p]} \subseteq BlobName \cup VariantKind
    BY <1>0 DEF VariantBlob, TypeInv, TypeOK, StoreTypeOK, PhotoRow, BlobName
  <2>2. PICK pc \in {"save", "blobs", "put"}, todo \in SUBSET (BlobName \cup VariantKind) :
           (Goto(r, pc, todo) \/ Return(r)) /\ req[r].kind # "ingest"
    BY <1>0, <1>1, <2>1 DEF CompleteExists, DeleteList, AttachFind, At, RequestRecord, VariantKind
  <2>3. UNCHANGED storeVars
    BY <1>1 DEF CompleteExists, DeleteList, AttachFind
  <2>4. \E q : Slot(r, q)
    BY <1>0, <2>2, <2>3, GotoSlot, ReturnSlot DEF storeVars
  <2> QED BY <2>3, <2>4, TableFreeStep DEF TypeInv, TypeOK, StoreTypeOK, storeVars
<1>2. CASE AbortBlob(r) \/ DeleteBlob(r) \/ AttachPut(r) \/ IngestPut(r)
  <2>1. PICK pc \in {"row", "blobs", "variants", "save", "put", "add", "flag"},
             todo \in SUBSET (BlobName \cup VariantKind) :
           /\ Goto(r, pc, todo)
           /\ req[r].kind = "ingest" =>
                 /\ todo \subseteq IF pc = "put" THEN BlobName ELSE VariantKind
                 /\ pc \in {"put", "row"} => Inserting(r)
    <3>1. CASE AbortBlob(r)
      BY <3>1, <1>0 DEF AbortBlob, At
    <3>2. CASE DeleteBlob(r)
      <4>1. PICK b \in req[r].todo :
               Goto(r, IF req[r].todo = {b} THEN "variants" ELSE "blobs", req[r].todo \ {b})
        BY <3>2 DEF DeleteBlob
      <4> QED BY <4>1, <3>2, <1>0 DEF DeleteBlob, At, RequestRecord
    <3>3. CASE AttachPut(r)
      BY <3>3, <1>0 DEF AttachPut, At, RequestRecord
    <3>4. CASE IngestPut(r)
      <4>1. PICK b \in req[r].todo :
               Goto(r, IF req[r].todo = {b} THEN "row" ELSE "put", req[r].todo \ {b})
        BY <3>4 DEF IngestPut
      <4>2. req[r].kind = "ingest" /\ req[r].pc = "put" /\ req[r].todo \subseteq BlobName
        BY <3>4 DEF IngestPut, At, TypeInv, TypeOK, ApiTypeOK
      <4>3. CASE req[r].todo = {b}
        BY <4>1, <4>2, <4>3, <1>0 DEF Inserting
      <4>4. CASE req[r].todo # {b}
        BY <4>1, <4>2, <4>4, <1>0 DEF Inserting
      <4> QED BY <4>3, <4>4
    <3> QED BY <1>2, <3>1, <3>2, <3>3, <3>4
  <2>2. /\ UNCHANGED <<photos, variants, jobs, client, condemned, mishaps>>
        /\ blobs' \in SUBSET (Photo \X BlobName)
    <3>1. AbortBlob(r) \/ DeleteBlob(r) => blobs' \subseteq blobs
      BY DEF AbortBlob, DeleteBlob, DropBlob
    <3>2. AttachPut(r) => blobs' = blobs \cup {<<p, "motion">>}
      BY DEF AttachPut, PutBlob
    <3>3. IngestPut(r) => \E b \in BlobName : blobs' = blobs \cup {<<p, b>>}
      BY DEF IngestPut, PutBlob, At, TypeInv, TypeOK, ApiTypeOK
    <3>4. \A b \in BlobName : <<p, b>> \in Photo \X BlobName
      BY <1>0
    <3>5. blobs \in SUBSET (Photo \X BlobName)
      BY DEF TypeInv, TypeOK, StoreTypeOK
    <3>6. {"upload", "preview", "thumbnail", "motion"} \subseteq BlobName
      BY DEF BlobName, OriginalPath
    <3>7. blobs' \in SUBSET (Photo \X BlobName)
      BY <1>2, <3>1, <3>2, <3>3, <3>4, <3>5, <3>6
    <3> QED BY <1>2, <3>7 DEF AbortBlob, DeleteBlob, AttachPut, IngestPut
  <2>3. \E q : Slot(r, q)
    BY <1>0, <2>1, <2>2, GotoSlot
  <2> QED BY <2>2, <2>3, TableFreeStep DEF TypeInv, TypeOK, StoreTypeOK
(* The steps that write the tables; a stale row makes them do nothing. *)
<1>3. CASE UNCHANGED storeVars /\ Return(r)
  <2>1. Slot(r, NoRequest)
    BY <1>3, ReturnSlot
  <2> QED BY <1>3, <2>1, TableFreeStep DEF TypeInv, TypeOK, StoreTypeOK, storeVars
<1>4. CASE CompleteSave(r)
  <2>1. CASE ~ Exists(p)
    BY <1>3, <1>4, <2>1 DEF CompleteSave
  <2>2. CASE Exists(p)
    <3>1. /\ photos' = [photos EXCEPT ![p].state = "PendingProcessing"]
          /\ Enqueue(p) /\ Return(r)
          /\ client' = [client EXCEPT ![p] = IF @ = "uploading" THEN "acked" ELSE @]
          /\ UNCHANGED <<variants, blobs, condemned, mishaps>>
      BY <1>4, <2>2 DEF CompleteSave
    <3>2. /\ photos' \in [Photo -> PhotoRow]
          /\ \A o \in Photo : Exists(o) => Exists(o)'
          /\ \A o \in Photo : photos[o].state = "deleted" => photos'[o].state = "deleted"
      BY <1>0, <2>2, <3>1 DEF TypeInv, TypeOK, StoreTypeOK, PhotoRow, PhotoState, Exists
    <3>3. jobs' \in [Job -> JobRow] /\ KeysOK' /\ Ages
      BY <1>0, <2>2, <3>1, <3>2, EnqueueAppends
    <3>4. StoreTypeOK'
      BY <3>1, <3>2, <3>3 DEF TypeInv, TypeOK, StoreTypeOK
    <3>5. /\ \A o \in Photo \ {p} : photos'[o].state = photos[o].state
          /\ \A o \in Photo : client'[o] = "idle" <=> client[o] = "idle"
      BY <1>0, <3>1 DEF TypeInv, TypeOK, StoreTypeOK
    <3> QED BY <1>0, <1>a, <2>2, <3>1, <3>3, <3>4, <3>5, OwnRow, ReturnSlot, TableStep
  <2> QED BY <2>1, <2>2
<1>5. CASE DeleteRow(r)
  <2>1. CASE ~ Exists(p)
    BY <1>3, <1>5, <2>1 DEF DeleteRow, storeVars
  <2>2. CASE Exists(p)
    <3>1. RemovePhoto(p) /\ Return(r) /\ UNCHANGED <<blobs, client, condemned, mishaps>>
      BY <1>5, <2>2 DEF DeleteRow
    <3>2. StoreTypeOK' /\ Ages
      BY <1>0, <3>1, RemoveCascades DEF TypeInv, TypeOK, StoreTypeOK
    <3>3. \A o \in Photo \ {p} : photos'[o].state = photos[o].state
      BY <1>0, <3>1 DEF RemovePhoto, TypeInv, TypeOK, StoreTypeOK
    <3> QED BY <1>0, <1>a, <2>2, <3>1, <3>2, <3>3, OwnRow, ReturnSlot, TableStep
  <2> QED BY <2>1, <2>2
<1>6. CASE DeleteVariants(r)
  <2>1. /\ variants' = [variants EXCEPT ![p] = {}] /\ Goto(r, "row", {})
        /\ req[r].kind = "delete"
        /\ UNCHANGED <<photos, jobs, blobs, client, condemned, mishaps>>
    BY <1>6 DEF DeleteVariants, At
  <2>2. KeysOK' /\ Ages
    BY <2>1, RowKept DEF Exists, TypeInv, TypeOK, StoreTypeOK, KeysOK
  <2>3. StoreTypeOK'
    BY <2>1, <2>2 DEF TypeInv, TypeOK, StoreTypeOK
  <2>4. PICK q : Slot(r, q) /\ q.kind = "delete"
    BY <1>0, <2>1, GotoSlot
  <2> QED BY <2>1, <2>2, <2>3, <2>4, TableStep DEF TypeInv, Minted
<1>7. CASE AttachAdd(r)
  <2>1. /\ req[r].kind = "attach"
        /\ UNCHANGED <<photos, jobs, blobs, client, condemned, mishaps>>
    BY <1>7 DEF AttachAdd, At
  <2>2. CASE ~ CanSave(p, {"motion"})
    BY <1>3, <1>7, <2>1, <2>2 DEF AttachAdd, storeVars
  <2>3. CASE CanSave(p, {"motion"})
    <3>1. variants' = [variants EXCEPT ![p] = @ \cup {"motion"}] /\ Goto(r, "flag", {}) /\ Exists(p)
      BY <1>7, <2>3 DEF AttachAdd, CanSave
    <3>2. KeysOK' /\ Ages
      BY <1>0, <2>1, <3>1, RowKept DEF TypeInv, TypeOK, StoreTypeOK, KeysOK, Exists
    <3>3. StoreTypeOK'
      BY <1>0, <2>1, <3>1, <3>2 DEF TypeInv, TypeOK, StoreTypeOK, VariantKind
    <3>4. PICK q : Slot(r, q) /\ q.kind = "attach"
      BY <1>0, <2>1, <3>1, GotoSlot
    <3> QED BY <2>1, <3>1, <3>2, <3>3, <3>4, TableStep DEF TypeInv, Minted
  <2> QED BY <2>2, <2>3
<1>12. CASE AttachFlag(r)
  <2>1. /\ Return(r)
        /\ UNCHANGED <<variants, jobs, blobs, client, condemned, mishaps>>
        /\ \/ Exists(p) /\ photos' = [photos EXCEPT ![p].live = TRUE]
           \/ UNCHANGED photos
    BY <1>12 DEF AttachFlag
  <2>2. CASE UNCHANGED photos
    BY <1>3, <2>1, <2>2 DEF storeVars
  <2>3. CASE Exists(p) /\ photos' = [photos EXCEPT ![p].live = TRUE]
    <3>2. /\ photos' \in [Photo -> PhotoRow]
          /\ \A o \in Photo : photos'[o].state = photos[o].state
      <4>1. photos \in [Photo -> PhotoRow]
        BY DEF TypeInv, TypeOK, StoreTypeOK
      <4>2. ASSUME NEW row \in PhotoRow
            PROVE  /\ [row EXCEPT !.live = TRUE] \in PhotoRow
                   /\ [row EXCEPT !.live = TRUE].state = row.state
        BY Zenon DEF PhotoRow
      <4>3. photos' = [photos EXCEPT ![p] = [photos[p] EXCEPT !.live = TRUE]]
        BY <2>3
      <4> HIDE DEF p
      <4> QED BY <1>0, <4>1, <4>2, <4>3
    <3>3. \A o \in Photo : variants'[o] # {} => Exists(o)'
      BY <1>0, <2>1, <3>2 DEF TypeInv, TypeOK, StoreTypeOK, KeysOK, Exists
    <3>4. KeysOK' /\ Ages
      BY <2>1, <3>2, <3>3, RowKept DEF Exists
    <3>5. StoreTypeOK'
      BY <2>1, <3>2, <3>4 DEF TypeInv, TypeOK, StoreTypeOK
    <3> QED BY <1>0, <1>a, <2>1, <2>3, <3>2, <3>4, <3>5, OwnRow, ReturnSlot, TableStep
  <2> QED BY <2>1, <2>2, <2>3
<1>8. CASE ReprocessEnqueue(r)
  <2>1. CASE ~ Exists(p)
    BY <1>3, <1>8, <2>1 DEF ReprocessEnqueue, storeVars
  <2>2. CASE Exists(p)
    <3>1. Enqueue(p) /\ Return(r)
          /\ UNCHANGED <<photos, variants, blobs, client, condemned, mishaps>>
      BY <1>8, <2>2 DEF ReprocessEnqueue
    <3>2. photos' \in [Photo -> PhotoRow] /\ \A o \in Photo : Exists(o) => Exists(o)'
      BY <3>1 DEF TypeInv, TypeOK, StoreTypeOK, Exists
    <3>3. jobs' \in [Job -> JobRow] /\ KeysOK' /\ Ages
      BY <1>0, <2>2, <3>1, <3>2, EnqueueAppends
    <3>4. StoreTypeOK'
      BY <3>1, <3>3 DEF TypeInv, TypeOK, StoreTypeOK
    <3> QED BY <1>0, <1>a, <2>2, <3>1, <3>3, <3>4, OwnRow, ReturnSlot, TableStep
  <2> QED BY <2>1, <2>2
<1>9. CASE IngestRow(r)
  <2>1. /\ photos' = [photos EXCEPT ![p].state = "Processing"]
        /\ Goto(r, "insert", Ingested) /\ Inserting(r)
        /\ UNCHANGED <<variants, jobs, blobs, client, condemned, mishaps>>
    BY <1>9 DEF IngestRow, At, Inserting
  <2>2. /\ photos' \in [Photo -> PhotoRow]
        /\ \A o \in Photo : Exists(o) => Exists(o)'
        /\ \A o \in Photo \ {p} : photos'[o].state = photos[o].state
    BY <1>0, <2>1 DEF TypeInv, TypeOK, StoreTypeOK, PhotoRow, PhotoState, Exists
  <2>3. photos[p].state = "absent"
    BY <2>1 DEF TypeInv, Minted
  <2>4. KeysOK' /\ Ages
    BY <2>1, <2>2, <2>3, RowKept DEF TypeInv, TypeOK, StoreTypeOK, KeysOK
  <2>5. StoreTypeOK'
    BY <2>1, <2>2, <2>4 DEF TypeInv, TypeOK, StoreTypeOK
  <2>6. Ingested \subseteq VariantKind
    BY DEF Ingested, VariantKind
  <2>7. PICK q : Slot(r, q) /\ q.pc = "insert"
    BY <1>0, <2>1, <2>6, GotoSlot
  <2> QED BY <1>0, <2>1, <2>2, <2>4, <2>5, <2>7, OwnRow, TableStep
<1>10. CASE IngestInsert(r)
  <2>1. PICK k \in req[r].todo :
           IF CanSave(p, {k})
              THEN /\ variants' = [variants EXCEPT ![p] = @ \cup {k}]
                   /\ Goto(r, IF req[r].todo = {k} THEN "ready" ELSE "insert", req[r].todo \ {k})
              ELSE Return(r) /\ UNCHANGED variants
    BY <1>10 DEF IngestInsert
  <2>2. UNCHANGED <<photos, jobs, blobs, client, condemned, mishaps>> /\ At(r, "ingest", "insert")
    BY <1>10 DEF IngestInsert
  <2>3. CASE ~ CanSave(p, {k})
    BY <1>3, <2>1, <2>2, <2>3 DEF storeVars
  <2>4. CASE CanSave(p, {k})
    <3>1. req[r].todo \subseteq VariantKind
      BY <2>2 DEF At, TypeInv, TypeOK, ApiTypeOK
    <3>2. variants' = [variants EXCEPT ![p] = @ \cup {k}] /\ Exists(p)
      BY <2>1, <2>4 DEF CanSave
    <3>3. \A o \in Photo : variants'[o] # {} => Exists(o)'
      BY <1>0, <2>2, <3>2 DEF TypeInv, TypeOK, StoreTypeOK, KeysOK, Exists
    <3>4. KeysOK' /\ Ages
      BY <2>2, <3>3, RowKept DEF Exists
    <3>5. StoreTypeOK'
      BY <1>0, <2>2, <3>1, <3>2, <3>4 DEF TypeInv, TypeOK, StoreTypeOK
    <3>6. PICK pc \in {"ready", "insert"} : Goto(r, pc, req[r].todo \ {k})
      BY <2>1, <2>4
    <3>7. PICK q : Slot(r, q) /\ q.pc = pc
      BY <1>0, <2>2, <3>1, <3>6, GotoSlot
    <3> QED BY <1>0, <2>2, <3>2, <3>4, <3>5, <3>7, OwnRow, TableStep
  <2> QED BY <2>3, <2>4
<1>11. CASE IngestReady(r)
  <2>1. CASE ~ Exists(p)
    BY <1>3, <1>11, <2>1 DEF IngestReady, storeVars
  <2>2. CASE Exists(p)
    <3>1. /\ photos' = [photos EXCEPT ![p].state = "Ready"] /\ Return(r)
          /\ UNCHANGED <<variants, jobs, blobs, client, condemned, mishaps>>
      BY <1>11, <2>2 DEF IngestReady
    <3>2. /\ photos' \in [Photo -> PhotoRow]
          /\ \A o \in Photo : Exists(o) => Exists(o)'
          /\ \A o \in Photo \ {p} : photos'[o].state = photos[o].state
      BY <1>0, <3>1 DEF TypeInv, TypeOK, StoreTypeOK, PhotoRow, PhotoState, Exists
    <3>3. photos[p].state # "deleted"
      BY <2>2 DEF Exists, PhotoState
    <3>4. KeysOK' /\ Ages
      BY <3>1, <3>2, <3>3, RowKept DEF TypeInv, TypeOK, StoreTypeOK, KeysOK
    <3>5. StoreTypeOK'
      BY <3>1, <3>2, <3>4 DEF TypeInv, TypeOK, StoreTypeOK
    <3> QED BY <1>0, <1>a, <2>2, <3>1, <3>2, <3>4, <3>5, OwnRow, ReturnSlot, TableStep
  <2> QED BY <2>1, <2>2
<1> QED BY <1>1, <1>2, <1>4, <1>5, <1>6, <1>7, <1>8, <1>9, <1>10, <1>11, <1>12 DEF Serve

(* A cancelled request only gives its slot back. *)
LEMMA DisconnectType ==
    ASSUME TypeInv, NEW r \in Request, UNCHANGED <<workerVars, sweeperVars>>, Disconnect(r)
    PROVE  TypeInv'
<1>1. /\ UNCHANGED <<photos, variants, jobs, blobs, client, condemned>>
      /\ mishaps' \in 0 .. MaxMishaps
  BY DEF Disconnect, Happens, TypeInv, TypeOK, StoreTypeOK
<1>2. Slot(r, NoRequest)
  BY ReturnSlot DEF Disconnect
<1> QED BY <1>1, <1>2, TableFreeStep DEF TypeInv, TypeOK, StoreTypeOK

-----------------------------------------------------------------------------
(* The lanes.                                                              *)

(* What a step of lane l does to it: it takes the record q, of the same    *)
(* job and photo unless it is done.                                        *)
Moves(l, q) ==
    /\ q \in LaneRecord \cup {IdleLane}
    /\ lane' = [lane EXCEPT ![l] = q]
    /\ q.mem.state = "absent" => q.read.state = "absent"
    /\ q.pc # "idle" => /\ lane[l].pc # "idle"
                        /\ q.job = lane[l].job
                        /\ q.photo = lane[l].photo

Working(l) ==
    /\ lane[l] \in LaneRecord
    /\ lane[l].pc # "idle"
    /\ lane[l].photo \in Photo
    /\ lane[l].job \in Job
    /\ TaskOf(l) \in [state : JobState \cup {"none"}, attempts : Nat]
    /\ lane[l].mem.state = "absent" => lane[l].read.state = "absent"

(* A busy lane has a job, a photo and a context. *)
LEMMA WorkingLane ==
    ASSUME TypeInv, NEW l \in Lane, lane[l].pc # "idle"
    PROVE  Working(l)
BY DEF TypeInv, TypeOK, WorkerTypeOK, LaneRecord, IdleLane, TaskOf, Working

(* A lane that frees itself moves to a well-formed record. *)
LEMMA FreeMoves ==
    ASSUME NEW l \in Lane, Free(l)
    PROVE  Moves(l, IdleLane)
BY DEF Free, Moves, IdleLane, NoCopy

(* A step of a lane. *)
LEMMA LaneMoved ==
    ASSUME TypeInv, NEW l \in Lane, NEW q, Moves(l, q), StoreTypeOK', Ages,
           UNCHANGED <<loop, client, apiVars, sweeperVars>>,
           \A p \in Photo : photos[p].state = "absent" => photos'[p].state = "absent",
           task' \in [Job -> [state : JobState \cup {"none"}, attempts : Nat]],
           \A j \in Job : task[j].state # "none" => task'[j].state # "none"
    PROVE  TypeInv'
<1>1. ApiTypeOK' /\ SweeperTypeOK'
  BY DEF TypeInv, TypeOK, ApiTypeOK, SweeperTypeOK, apiVars, sweeperVars
<1>2. WorkerTypeOK'
  BY DEF TypeInv, TypeOK, WorkerTypeOK, Moves
<1>3. Minted'
  <2>1. \A r \in Request : req[r].kind = "ingest" => req[r].photo \in Photo
    BY DEF TypeInv, TypeOK, ApiTypeOK, RequestRecord, NoRequest
  <2> QED BY <2>1 DEF TypeInv, TypeOK, Minted, Inserting, apiVars
<1>4. Linked'
  <2>1. \A m \in Lane : lane'[m].pc # "idle" =>
           /\ lane[m].pc # "idle"
           /\ lane'[m].job = lane[m].job /\ lane'[m].photo = lane[m].photo
    BY DEF Moves, TypeInv, TypeOK, WorkerTypeOK
  <2>2. \A m \in Lane : lane[m].pc # "idle" => lane[m].job \in Job /\ lane[m].photo \in Photo
    BY WorkingLane DEF Working
  <2> QED BY <2>1, <2>2 DEF TypeInv, Linked, Ages, JobState
<1>5. Tracked'
  <2>1. loop.tracked \subseteq Job
    BY DEF TypeInv, TypeOK, WorkerTypeOK
  <2> QED BY <2>1 DEF TypeInv, Tracked, Ages, JobState
<1> QED BY <1>1, <1>2, <1>3, <1>4, <1>5 DEF TypeInv, TypeOK

(* A step of a lane that leaves the tables alone. *)
LEMMA LaneAlone ==
    ASSUME TypeInv, NEW l \in Lane, NEW q, Moves(l, q),
           UNCHANGED <<photos, variants, jobs, loop, client, condemned, apiVars, sweeperVars>>,
           blobs' \in SUBSET (Photo \X BlobName), mishaps' \in 0 .. MaxMishaps,
           task' \in [Job -> [state : JobState \cup {"none"}, attempts : Nat]],
           \A j \in Job : task[j].state # "none" => task'[j].state # "none"
    PROVE  TypeInv'
<1>1. KeysOK' /\ Ages
  BY RowKept DEF Exists, TypeInv, TypeOK, StoreTypeOK, KeysOK
<1>2. StoreTypeOK'
  BY <1>1 DEF TypeInv, TypeOK, StoreTypeOK
<1> QED BY <1>1, <1>2, LaneMoved DEF TypeInv, TypeOK

(* The outcomes a lane gives its job. *)
TaskRecord == [state : JobState \cup {"none"}, attempts : Nat]

(* Marking the job object Done or Failed leaves a well-formed object. *)
LEMMA Marked ==
    ASSUME TypeInv, NEW l \in Lane, Working(l),
           \/ MarkTask(l, DoneTask(TaskOf(l)))
           \/ MarkTask(l, FailedTask(TaskOf(l)))
           \/ UNCHANGED task
    PROVE  /\ task' \in [Job -> TaskRecord]
           /\ \A j \in Job : task[j].state # "none" => task'[j].state # "none"
<1>1. task \in [Job -> TaskRecord]
  BY DEF TypeInv, TypeOK, WorkerTypeOK, TaskRecord
<1>2. ASSUME NEW t \in TaskRecord
      PROVE  /\ DoneTask(t) \in TaskRecord /\ DoneTask(t).state # "none"
             /\ FailedTask(t) \in TaskRecord /\ FailedTask(t).state # "none"
  BY DEF TaskRecord, DoneTask, FailedTask, JobState
<1>3. TaskOf(l) \in TaskRecord /\ lane[l].job \in Job
  BY DEF Working, TaskRecord
<1>4. PICK t : (t \in TaskRecord /\ t.state # "none" /\ MarkTask(l, t)) \/ UNCHANGED task
  BY <1>2, <1>3
<1> QED BY <1>1, <1>3, <1>4 DEF MarkTask

(* The record of a lane whose handler threw. *)
LEMMA CatchMoves ==
    ASSUME TypeInv, NEW l \in Lane, Working(l), NEW added \in SUBSET VariantKind, Catch(l, added)
    PROVE  /\ \E q : Moves(l, q)
           /\ task' \in [Job -> TaskRecord]
           /\ \A j \in Job : task[j].state # "none" => task'[j].state # "none"
<1> DEFINE mem == [lane[l].mem EXCEPT !.state = "Failed"]
           q == [lane[l] EXCEPT !.pc = "failsave", !.mem = mem, !.added = added]
<1>1. mem \in Copy /\ mem.state = "Failed"
  BY DEF Working, LaneRecord, Copy, PhotoState
<1>2. lane' = [lane EXCEPT ![l] = q]
  BY DEF Catch, Working, LaneRecord, TypeInv, TypeOK, WorkerTypeOK
<1> HIDE DEF mem
<1>3. /\ q \in LaneRecord /\ q.mem = mem
      /\ q.job = lane[l].job /\ q.photo = lane[l].photo
  BY <1>1 DEF Working, LaneRecord, Step
<1> HIDE DEF q
<1>4. Moves(l, q)
  BY <1>1, <1>2, <1>3 DEF Moves, Working
<1> QED BY <1>4, Marked DEF Catch

(* A lane that goes on to another step, with another copy of the photo. *)
LEMMA GoesOn ==
    ASSUME TypeInv, NEW l \in Lane, Working(l), NEW pc \in Step \ {"idle"},
           NEW read \in Copy, NEW mem \in Copy, mem.state = "absent" => read.state = "absent",
           lane' = [lane EXCEPT ![l] = [lane[l] EXCEPT !.pc = pc, !.read = read, !.mem = mem]]
    PROVE  \E q : Moves(l, q)
<1> DEFINE q == [lane[l] EXCEPT !.pc = pc, !.read = read, !.mem = mem]
<1>1. /\ q \in LaneRecord /\ q.mem = mem /\ q.read = read
      /\ q.job = lane[l].job /\ q.photo = lane[l].photo
  BY DEF Working, LaneRecord
<1> HIDE DEF q
<1>2. lane' = [lane EXCEPT ![l] = q]
  BY DEF q
<1> QED BY <1>1, <1>2 DEF Moves, Working

(* Saving a lane's context writes a row that is there. *)
LEMMA SaveKeeps ==
    ASSUME TypeInv, NEW l \in Lane, Working(l), NEW mem \in Copy,
           mem.state = "absent" => lane[l].read.state = "absent",
           NEW added \in SUBSET VariantKind, Exists(lane[l].photo), SaveContext(l, mem, added)
    PROVE  /\ photos' \in [Photo -> PhotoRow]
           /\ variants' \in [Photo -> SUBSET VariantKind]
           /\ \A o \in Photo : Exists(o) => Exists(o)'
           /\ \A o \in Photo : ~ Exists(o) => photos'[o] = photos[o]
           /\ \A o \in Photo : variants'[o] # {} => Exists(o)'
<1> DEFINE p == lane[l].photo
           row == Merge(photos[p], lane[l].read, mem)
<1>1. p \in Photo /\ photos[p] \in PhotoRow /\ lane[l].read \in Copy
  BY DEF Working, LaneRecord, TypeInv, TypeOK, StoreTypeOK
<1>2. row \in PhotoRow /\ row.state \in PhotoState
  <2>1. photos[p].state \in PhotoState /\ photos[p].path \in OriginalPath
    BY <1>1 DEF Exists, PhotoRow
  <2>2. /\ mem.path \in OriginalPath
        /\ mem.state # lane[l].read.state => mem.state \in PhotoState
    BY <1>1 DEF Copy
  <2> QED BY <1>1, <2>1, <2>2 DEF Merge, PhotoRow
<1>3. photos' = [photos EXCEPT ![p] = row] /\ variants' = [variants EXCEPT ![p] = @ \cup added]
  BY DEF SaveContext
<1> HIDE DEF row, p
<1> QED BY <1>1, <1>2, <1>3 DEF p, TypeInv, TypeOK, StoreTypeOK, KeysOK, Exists

(* The steps of a lane that leave the tables alone. *)
LEMMA LaneAloneType ==
    ASSUME TypeInv, NEW l \in Lane, UNCHANGED <<apiVars, sweeperVars>>,
           \/ LoadPhoto(l) \/ OpenOriginal(l) \/ SaverPut(l) \/ SaverDrop(l)
           \/ PutPreview(l) \/ PutThumbnail(l) \/ StepFails(l) \/ TimeoutLate(l) \/ TimeoutLoad(l)
    PROVE  TypeInv'
<1> DEFINE p == lane[l].photo
<1>1. Working(l)
  BY WorkingLane DEF LoadPhoto, OpenOriginal, SaverPut, SaverDrop, PutPreview, PutThumbnail,
       PutDerived, StepFails, TimeoutLate, TimeoutLoad
<1>2. /\ UNCHANGED <<photos, variants, jobs, loop, client, condemned>>
      /\ mishaps' \in 0 .. MaxMishaps
  BY DEF LoadPhoto, OpenOriginal, SaverPut, SaverDrop, PutPreview, PutThumbnail,
       PutDerived, StepFails, TimeoutLate, TimeoutLoad, Happens, storeVars, TypeInv, TypeOK, StoreTypeOK
<1>3. blobs' \in SUBSET (Photo \X BlobName)
  <2>1. \A b \in BlobName : <<p, b>> \in Photo \X BlobName
    BY <1>1 DEF Working
  <2>2. blobs \in SUBSET (Photo \X BlobName)
    BY DEF TypeInv, TypeOK, StoreTypeOK
  <2>3. blobs' \subseteq blobs \cup {<<p, b>> : b \in {"saver", "preview", "thumbnail"}}
    BY DEF LoadPhoto, OpenOriginal, SaverPut, SaverDrop, PutPreview, PutThumbnail, PutBlob, DropBlob,
         PutDerived, StepFails, TimeoutLate, TimeoutLoad, storeVars
  <2>4. {"saver", "preview", "thumbnail"} \subseteq BlobName
    BY DEF BlobName, OriginalPath
  <2> QED BY <2>1, <2>2, <2>3, <2>4
<1>4. \/ MarkTask(l, DoneTask(TaskOf(l)))
      \/ MarkTask(l, FailedTask(TaskOf(l)))
      \/ UNCHANGED task
  BY DEF LoadPhoto, OpenOriginal, SaverPut, SaverDrop, PutPreview, PutThumbnail,
       PutDerived, StepFails, TimeoutLate, TimeoutLoad, Catch
<1>5. /\ task' \in [Job -> TaskRecord]
      /\ \A j \in Job : task[j].state # "none" => task'[j].state # "none"
  BY <1>1, <1>4, Marked
<1>6. lane[l].read \in Copy /\ lane[l].mem \in Copy /\ lane[l] \in LaneRecord
  BY <1>1 DEF Working, LaneRecord
<1>7. \E q : Moves(l, q)
  <2>1. CASE Free(l)
    BY <2>1, FreeMoves
  <2>2. CASE Catch(l, {})
    BY <1>1, <2>2, CatchMoves
  <2>3. CASE \E pc \in Step \ {"idle"} : lane' = [lane EXCEPT ![l].pc = pc]
    <3>1. PICK pc \in Step \ {"idle"} : lane' = [lane EXCEPT ![l].pc = pc]
      BY <2>3
    <3>2. lane' = [lane EXCEPT ![l] = [lane[l] EXCEPT !.pc = pc, !.read = lane[l].read, !.mem = lane[l].mem]]
      BY <1>6, <3>1 DEF LaneRecord
    <3>3. lane[l].mem.state = "absent" => lane[l].read.state = "absent"
      BY <1>1 DEF Working
    <3> QED BY <1>1, <1>6, <3>2, <3>3, GoesOn
  <2>4. CASE SaverPut(l)
    <3> DEFINE mem == [lane[l].mem EXCEPT !.path = "saver"]
    <3>1. mem \in Copy /\ mem.state = lane[l].mem.state
      BY <1>6 DEF Copy, OriginalPath
    <3>2. lane' = [lane EXCEPT ![l] = [lane[l] EXCEPT !.pc = "saverDrop", !.read = lane[l].read, !.mem = mem]]
      BY <1>6, <2>4 DEF SaverPut, LaneRecord
    <3> HIDE DEF mem
    <3> QED BY <1>1, <1>6, <3>1, <3>2, GoesOn DEF Working, Step
  <2>5. CASE LoadPhoto(l) /\ ~ Free(l)
    <3> DEFINE row == photos[p]
               read == [state |-> row.state, path |-> row.path]
               mem == [read EXCEPT !.state = "Processing"]
    <3>1. row \in PhotoRow /\ row.state \in Processable
          /\ lane' = [lane EXCEPT ![l].pc = "open", ![l].read = read, ![l].mem = mem]
      BY <1>1, <2>5 DEF LoadPhoto, Working, TypeInv, TypeOK, StoreTypeOK
    <3>2. read \in Copy /\ mem \in Copy /\ mem.state = "Processing"
      BY <3>1 DEF Copy, PhotoRow, Processable, PhotoState
    <3>3. lane' = [lane EXCEPT ![l] = [lane[l] EXCEPT !.pc = "open", !.read = read, !.mem = mem]]
      BY <1>6, <3>1 DEF LaneRecord
    <3> HIDE DEF mem, read
    <3> QED BY <1>1, <3>2, <3>3, GoesOn DEF Step
  <2>6. CASE TimeoutLoad(l) /\ ~ Free(l)
    <3> DEFINE row == photos[p]
               seen == [state |-> row.state, path |-> row.path]
    <3>1. row \in PhotoRow /\ row.state = "Processing" /\ lane[l].pc = "timedout"
          /\ lane' = [lane EXCEPT ![l].read = seen, ![l].mem = seen]
      BY <1>1, <2>6 DEF TimeoutLoad, Working, TypeInv, TypeOK, StoreTypeOK
    <3>2. seen \in Copy
      BY <3>1 DEF Copy, PhotoRow, PhotoState
    <3>3. lane' = [lane EXCEPT ![l] = [lane[l] EXCEPT !.pc = "timedout", !.read = seen, !.mem = seen]]
      BY <1>6, <3>1 DEF LaneRecord
    <3> HIDE DEF seen
    <3> QED BY <1>1, <3>2, <3>3, GoesOn DEF Step
  <2>7. \/ Free(l) \/ Catch(l, {}) \/ \E pc \in Step \ {"idle"} : lane' = [lane EXCEPT ![l].pc = pc]
        \/ SaverPut(l) \/ LoadPhoto(l) \/ TimeoutLoad(l)
    BY DEF OpenOriginal, SaverDrop, PutPreview, PutThumbnail, PutDerived, StepFails, TimeoutLate, Step
  <2> QED BY <2>1, <2>2, <2>3, <2>4, <2>5, <2>6, <2>7
<1> QED BY <1>2, <1>3, <1>5, <1>7, LaneAlone DEF TaskRecord

(* A lane's step that saves its context, or writes only rows that exist. *)
LEMMA LaneSaved ==
    ASSUME TypeInv, NEW l \in Lane, NEW q, Moves(l, q),
           UNCHANGED <<jobs, blobs, loop, client, condemned, apiVars, sweeperVars>>,
           mishaps' \in 0 .. MaxMishaps,
           photos' \in [Photo -> PhotoRow], variants' \in [Photo -> SUBSET VariantKind],
           \A o \in Photo : Exists(o) => Exists(o)',
           \A o \in Photo : ~ Exists(o) => photos'[o] = photos[o],
           \A o \in Photo : variants'[o] # {} => Exists(o)',
           task' \in [Job -> TaskRecord],
           \A j \in Job : task[j].state # "none" => task'[j].state # "none"
    PROVE  TypeInv'
<1>1. \A o \in Photo : photos[o].state \in {"absent", "deleted"} => photos'[o] = photos[o]
  BY DEF Exists, PhotoState
<1>2. KeysOK' /\ Ages
  BY <1>1, RowKept
<1>3. StoreTypeOK'
  BY <1>2 DEF TypeInv, TypeOK, StoreTypeOK
<1> QED BY <1>1, <1>2, <1>3, LaneMoved DEF TaskRecord

(* The steps of a lane that write the tables. *)
LEMMA LaneSavesType ==
    ASSUME TypeInv, NEW l \in Lane, UNCHANGED <<apiVars, sweeperVars>>,
           \/ ClearVariants(l) \/ AddOriginal(l) \/ AddPreview(l) \/ AddThumbnail(l)
           \/ Publish(l) \/ FailSave(l) \/ TimeoutMark(l)
    PROVE  TypeInv'
<1> DEFINE p == lane[l].photo
<1>1. Working(l)
  BY WorkingLane DEF ClearVariants, AddOriginal, AddPreview, AddThumbnail, AddVariant, Publish,
       FailSave, TimeoutMark
<1>2. /\ UNCHANGED <<jobs, blobs, loop, client, condemned>>
      /\ mishaps' \in 0 .. MaxMishaps
  BY DEF ClearVariants, AddOriginal, AddPreview, AddThumbnail, AddVariant, Publish,
       FailSave, TimeoutMark, TypeInv, TypeOK, StoreTypeOK
<1>3. /\ task' \in [Job -> TaskRecord]
      /\ \A j \in Job : task[j].state # "none" => task'[j].state # "none"
  <2>1. \/ MarkTask(l, DoneTask(TaskOf(l)))
        \/ MarkTask(l, FailedTask(TaskOf(l)))
        \/ UNCHANGED task
    BY DEF ClearVariants, AddOriginal, AddPreview, AddThumbnail, AddVariant, Publish,
         FailSave, TimeoutMark, Catch
  <2> QED BY <1>1, <2>1, Marked
<1>4. /\ lane[l].read \in Copy /\ lane[l].mem \in Copy /\ lane[l] \in LaneRecord /\ p \in Photo
      /\ lane[l].added \in SUBSET VariantKind
      /\ lane[l].mem.state = "absent" => lane[l].read.state = "absent"
  BY <1>1 DEF Working, LaneRecord
<1>5. /\ photos \in [Photo -> PhotoRow] /\ variants \in [Photo -> SUBSET VariantKind]
      /\ \A o \in Photo : variants[o] # {} => Exists(o)
  BY DEF TypeInv, TypeOK, StoreTypeOK, KeysOK
<1>6. CASE /\ UNCHANGED photos
           /\ UNCHANGED variants \/ variants' = [variants EXCEPT ![p] = {}]
  <2>0. /\ photos' \in [Photo -> PhotoRow]
        /\ variants' \in [Photo -> SUBSET VariantKind]
        /\ \A o \in Photo : Exists(o) => Exists(o)'
        /\ \A o \in Photo : ~ Exists(o) => photos'[o] = photos[o]
        /\ \A o \in Photo : variants'[o] # {} => Exists(o)'
    <3>1. /\ variants' \in [Photo -> SUBSET VariantKind]
          /\ \A o \in Photo : variants'[o] \subseteq variants[o]
      BY <1>5, <1>6
    <3>2. \A o \in Photo : variants'[o] # {} => variants[o] # {}
      BY <3>1
    <3>3. photos' = photos
      BY <1>6
    <3>4. \A o \in Photo : Exists(o)' <=> Exists(o)
      BY <3>3 DEF Exists
    <3> QED BY <1>5, <3>1, <3>2, <3>3, <3>4
  <2>1. CASE Free(l)
    BY <1>2, <1>3, <2>0, <2>1, FreeMoves, LaneSaved
  <2>2. CASE \E kind \in VariantKind : Catch(l, {kind})
    <3>1. PICK q : Moves(l, q)
      BY <1>1, <2>2, CatchMoves
    <3> QED BY <1>2, <1>3, <2>0, <3>1, LaneSaved
  <2>3. CASE ClearVariants(l)
    <3>1. PICK pc \in Step \ {"idle"} : lane' = [lane EXCEPT ![l].pc = pc]
      BY <2>3 DEF ClearVariants, Step
    <3>2. lane' = [lane EXCEPT ![l] = [lane[l] EXCEPT !.pc = pc, !.read = lane[l].read, !.mem = lane[l].mem]]
      BY <1>4, <3>1 DEF LaneRecord
    <3>3. PICK q : Moves(l, q)
      BY <1>1, <1>4, <3>2, GoesOn
    <3> QED BY <1>2, <1>3, <2>0, <3>3, LaneSaved
  <2>4. CASE \E pc \in Step \ {"idle"} : lane' = [lane EXCEPT ![l].pc = pc, ![l].read = lane[l].mem]
    <3>1. PICK pc \in Step \ {"idle"} : lane' = [lane EXCEPT ![l].pc = pc, ![l].read = lane[l].mem]
      BY <2>4
    <3>2. lane' = [lane EXCEPT ![l] = [lane[l] EXCEPT !.pc = pc, !.read = lane[l].mem, !.mem = lane[l].mem]]
      BY <1>4, <3>1 DEF LaneRecord
    <3>3. PICK q : Moves(l, q)
      BY <1>1, <1>4, <3>2, GoesOn
    <3> QED BY <1>2, <1>3, <2>0, <3>3, LaneSaved
  <2>5. \/ Free(l) \/ (\E kind \in VariantKind : Catch(l, {kind})) \/ ClearVariants(l)
        \/ \E pc \in Step \ {"idle"} : lane' = [lane EXCEPT ![l].pc = pc, ![l].read = lane[l].mem]
    BY DEF AddOriginal, AddPreview, AddThumbnail, AddVariant, Publish, FailSave, TimeoutMark, Step,
         VariantKind
  <2> QED BY <2>1, <2>2, <2>3, <2>4, <2>5
<1>7. CASE \E kind \in VariantKind, pc \in Step \ {"idle"} :
             /\ CanSave(p, {kind}) /\ SaveContext(l, lane[l].mem, {kind})
             /\ lane' = [lane EXCEPT ![l].pc = pc, ![l].read = lane[l].mem]
  <2>1. PICK kind \in VariantKind, pc \in Step \ {"idle"} :
             /\ CanSave(p, {kind}) /\ SaveContext(l, lane[l].mem, {kind})
             /\ lane' = [lane EXCEPT ![l].pc = pc, ![l].read = lane[l].mem]
    BY <1>7
  <2>2. lane' = [lane EXCEPT ![l] = [lane[l] EXCEPT !.pc = pc, !.read = lane[l].mem, !.mem = lane[l].mem]]
    BY <1>4, <2>1 DEF LaneRecord
  <2>3. PICK q : Moves(l, q)
    BY <1>1, <1>4, <2>2, GoesOn
  <2>4. Exists(p) /\ SaveContext(l, lane[l].mem, {kind}) /\ {kind} \in SUBSET VariantKind
    BY <2>1 DEF CanSave
  <2> HIDE DEF p
  <2>5. /\ photos' \in [Photo -> PhotoRow]
        /\ variants' \in [Photo -> SUBSET VariantKind]
        /\ \A o \in Photo : Exists(o) => Exists(o)'
        /\ \A o \in Photo : ~ Exists(o) => photos'[o] = photos[o]
        /\ \A o \in Photo : variants'[o] # {} => Exists(o)'
    BY <1>1, <1>4, <2>4, SaveKeeps DEF p
  <2> QED BY <1>2, <1>3, <2>3, <2>5, LaneSaved
<1>8. CASE /\ Free(l)
           /\ \E mem \in Copy, added \in SUBSET VariantKind :
                /\ Exists(p) /\ SaveContext(l, mem, added)
                /\ mem.state = "absent" => lane[l].read.state = "absent"
  <2>1. PICK mem \in Copy, added \in SUBSET VariantKind :
                /\ Exists(p) /\ SaveContext(l, mem, added)
                /\ mem.state = "absent" => lane[l].read.state = "absent"
    BY <1>8
  <2>2. Moves(l, IdleLane)
    BY <1>8, FreeMoves
  <2>3. /\ photos' \in [Photo -> PhotoRow]
        /\ variants' \in [Photo -> SUBSET VariantKind]
        /\ \A o \in Photo : Exists(o) => Exists(o)'
        /\ \A o \in Photo : ~ Exists(o) => photos'[o] = photos[o]
        /\ \A o \in Photo : variants'[o] # {} => Exists(o)'
    BY <1>1, <2>1, SaveKeeps
  <2> QED BY <1>2, <1>3, <2>2, <2>3, LaneSaved
<1>9. CASE TimeoutMark(l) /\ Exists(p) /\ photos' = [photos EXCEPT ![p].state = "Failed"]
  <2>1. Free(l) /\ UNCHANGED variants
    BY <1>9 DEF TimeoutMark
  <2>2. /\ photos' \in [Photo -> PhotoRow]
        /\ \A o \in Photo : Exists(o) => Exists(o)'
        /\ \A o \in Photo : ~ Exists(o) => photos'[o] = photos[o]
    BY <1>4, <1>5, <1>9 DEF Exists, PhotoRow, PhotoState
  <2> QED BY <1>2, <1>3, <1>5, <2>1, <2>2, FreeMoves, LaneSaved
<1>10. CASE ClearVariants(l)
  BY <1>6, <1>10 DEF ClearVariants
<1>11. CASE AddOriginal(l) \/ AddPreview(l) \/ AddThumbnail(l)
  <2>1. PICK kind \in VariantKind, pc \in Step \ {"idle"} :
           \/ /\ CanSave(p, {kind}) /\ SaveContext(l, lane[l].mem, {kind})
              /\ lane' = [lane EXCEPT ![l].pc = pc, ![l].read = lane[l].mem]
           \/ UNCHANGED <<photos, variants>>
    BY <1>11 DEF AddOriginal, AddPreview, AddThumbnail, AddVariant, VariantKind, Step
  <2> QED BY <1>6, <1>7, <2>1
<1>12. CASE Publish(l)
  <2>1. Ready(l) \in Copy /\ Ready(l).state = "Ready"
    BY <1>4 DEF Ready, Copy, PhotoState
  <2> QED BY <1>6, <1>8, <1>12, <2>1 DEF Publish
<1>13. CASE FailSave(l)
  BY <1>4, <1>6, <1>8, <1>13 DEF FailSave, CanSave
<1>14. CASE TimeoutMark(l)
  BY <1>6, <1>9, <1>14 DEF TimeoutMark
<1> QED BY <1>10, <1>11, <1>12, <1>13, <1>14

(* The timeout saves the job and the lane's context in one transaction. *)
LEMMA TimeoutType ==
    ASSUME TypeInv, NEW l \in Lane, UNCHANGED <<apiVars, sweeperVars>>, Timeout(l)
    PROVE  TypeInv'
<1> DEFINE p == lane[l].photo
           j == lane[l].job
           failed == FailedTask(TaskOf(l))
<1>1. Working(l)
  BY WorkingLane DEF Timeout
<1>2. /\ lane[l].read \in Copy /\ lane[l].mem \in Copy /\ lane[l] \in LaneRecord
      /\ p \in Photo /\ j \in Job
      /\ lane[l].mem.state = "absent" => lane[l].read.state = "absent"
  BY <1>1 DEF Working, LaneRecord
<1>3. PICK mem \in Copy :
         /\ TimeoutSave(l, mem)
         /\ mem.state = "absent" => lane[l].read.state = "absent"
  <2>1. Ready(l) \in Copy /\ Ready(l).state = "Ready"
    BY <1>2 DEF Ready, Copy, PhotoState
  <2> QED BY <1>2, <2>1 DEF Timeout
<1>4. /\ UNCHANGED <<blobs, loop, client, condemned>>
      /\ mishaps' \in 0 .. MaxMishaps
      /\ MarkTask(l, failed)
  BY <1>3 DEF TimeoutSave, Happens, TypeInv, TypeOK, StoreTypeOK
<1>5. /\ task' \in [Job -> TaskRecord]
      /\ \A i \in Job : task[i].state # "none" => task'[i].state # "none"
  BY <1>1, <1>4, Marked
<1>6. failed.state \in JobState /\ failed.attempts \in Nat
  BY <1>1 DEF Working, FailedTask, JobState
<1> HIDE DEF failed
<1>7. CASE ~ CanSave(p, Pending(l))
  <2>1. Free(l) /\ UNCHANGED <<photos, variants, jobs>>
    BY <1>3, <1>7 DEF TimeoutSave
  <2> QED BY <1>4, <1>5, <2>1, FreeMoves, LaneAlone DEF TaskRecord, TypeInv, TypeOK, StoreTypeOK
<1>8. CASE CanSave(p, Pending(l))
  <2>1. /\ jobs' = [jobs EXCEPT ![j].state = failed.state, ![j].attempts = failed.attempts]
        /\ SaveContext(l, mem, Pending(l))
        /\ lane' = [lane EXCEPT ![l].pc = "timedout", ![l].read = mem, ![l].mem = mem]
        /\ Exists(p)
    BY <1>3, <1>8 DEF TimeoutSave, failed, CanSave
  <2>2. lane' = [lane EXCEPT ![l] = [lane[l] EXCEPT !.pc = "timedout", !.read = mem, !.mem = mem]]
    BY <1>2, <2>1 DEF LaneRecord
  <2>3. PICK q : Moves(l, q)
    BY <1>1, <2>2, GoesOn DEF Step
  <2>4. Pending(l) \in SUBSET VariantKind
    BY DEF Pending, VariantKind
  <2>5. /\ photos' \in [Photo -> PhotoRow]
        /\ variants' \in [Photo -> SUBSET VariantKind]
        /\ \A o \in Photo : Exists(o) => Exists(o)'
        /\ \A o \in Photo : ~ Exists(o) => photos'[o] = photos[o]
        /\ \A o \in Photo : variants'[o] # {} => Exists(o)'
    BY <1>1, <1>3, <2>1, <2>4, SaveKeeps
  <2>6. \A o \in Photo : photos[o].state \in {"absent", "deleted"} => photos'[o] = photos[o]
    BY <2>5 DEF Exists, PhotoState
  <2>7. /\ jobs[j].state \in JobState /\ jobs[j].photo = p
        /\ jobs[j] \in [state : JobState, photo : Photo, attempts : Nat]
    <3>1. jobs[j].state \in JobState /\ jobs[j].photo = p
      BY <1>1, <2>1 DEF Working, Exists, PhotoState, TypeInv, Linked
    <3> QED BY <1>2, <3>1 DEF TypeInv, TypeOK, StoreTypeOK, JobRow, NoJobRow, JobState
  <2>8. /\ jobs' \in [Job -> JobRow]
        /\ \A i \in Job : /\ jobs'[i].photo = jobs[i].photo
                          /\ jobs'[i].state = IF i = j THEN failed.state ELSE jobs[i].state
    BY <1>2, <1>6, <2>1, <2>7 DEF TypeInv, TypeOK, StoreTypeOK, JobRow
  <2>9. \A i \in Job : jobs[i].state \in JobState => jobs[i].photo \in Photo
    BY DEF TypeInv, TypeOK, StoreTypeOK, JobRow, NoJobRow, JobState
  <2>10. \A i \in Job : jobs'[i].state \in JobState => jobs[i].state \in JobState
    BY <2>7, <2>8
  <2>11. KeysOK'
    BY <2>5, <2>8, <2>9, <2>10 DEF TypeInv, TypeOK, StoreTypeOK, KeysOK
  <2>12. StoreTypeOK'
    BY <1>4, <2>5, <2>8, <2>11 DEF TypeInv, TypeOK, StoreTypeOK
  <2>13. Ages
    BY <1>6, <2>6, <2>7, <2>8 DEF TypeInv, TypeOK, StoreTypeOK, JobRow, NoJobRow, Ages
  <2> QED BY <1>4, <1>5, <2>3, <2>6, <2>12, <2>13, LaneMoved DEF TaskRecord
<1> QED BY <1>7, <1>8

(* Every step and every mishap of a lane. *)
LEMMA LaneType ==
    ASSUME TypeInv, NEW l \in Lane, UNCHANGED <<apiVars, sweeperVars>>,
           LaneStep(l) \/ LaneMishap(l)
    PROVE  TypeInv'
BY LaneAloneType, LaneSavesType, TimeoutType DEF LaneStep, LaneMishap

-----------------------------------------------------------------------------
(* The claiming loop.                                                      *)

(* The queue is served in order, so the claimed job is in the slice. *)
LEMMA OldestIn ==
    ASSUME NEW S \in SUBSET Job, S # {}
    PROVE  Oldest(S) \in S
<1>1. S \subseteq Nat
  BY DEF Job
<1>2. PICK j \in S : \A i \in S : ~ (<<i, j>> \in OpToRel(<, Nat))
  BY <1>1, NatLessThanWellFounded, WFMin
<1>3. \A i \in S : ~ (i < j)
  BY <1>1, <1>2 DEF OpToRel
<1>4. \A i \in S : j <= i
  BY <1>1, <1>3
<1> QED BY <1>4 DEF Oldest

(* DequeueNextAsync: the claimed job is linked to its photo and tracked,   *)
(* and the outcomes saved with it leave the table well formed.             *)
LEMMA ClaimType ==
    ASSUME TypeInv, NEW l \in Lane, UNCHANGED <<apiVars, sweeperVars>>, Claim(l)
    PROVE  TypeInv'
<1> DEFINE j == Oldest(Slice(l))
           p == jobs[j].photo
<1>1. /\ j \in Job /\ jobs[j].state = "Queued"
      /\ p \in Photo /\ jobs[j].attempts \in Nat
  <2>1. j \in Slice(l) /\ Slice(l) \subseteq Job
    BY OldestIn DEF Claim, Slice
  <2> QED BY <2>1 DEF Slice, TypeInv, TypeOK, StoreTypeOK, JobRow, NoJobRow
<1>2. /\ \A i \in Dirty : jobs[i].state # "removed"
      /\ jobs' = [i \in Job |->
                    IF i = j THEN [jobs[i] EXCEPT !.state = "Processing"]
                    ELSE IF i \in Dirty
                         THEN [jobs[i] EXCEPT !.state = task[i].state, !.attempts = task[i].attempts]
                         ELSE jobs[i]]
      /\ task' = [task EXCEPT ![j] = [state |-> "Processing", attempts |-> jobs[j].attempts]]
      /\ lane' = [lane EXCEPT ![l] = [IdleLane EXCEPT !.pc = "load", !.job = j, !.photo = p]]
      /\ loop' = [loop EXCEPT !.todo = @ \ {l}, !.tracked = (@ \ Dirty) \cup {j}]
      /\ UNCHANGED <<photos, variants, blobs, client, condemned, mishaps>>
      /\ lane[l] = IdleLane
  BY DEF Claim, Idle, TypeInv, TypeOK, WorkerTypeOK, LaneRecord
<1> HIDE DEF j
<1>u. UNCHANGED <<photos, variants, blobs, client, condemned, mishaps>>
  BY <1>2
<1>3. Dirty \subseteq Job /\ loop.tracked \subseteq Job
  BY DEF Dirty, TypeInv, TypeOK, WorkerTypeOK
(* A tracked job whose outcome is saved is still in the table. *)
<1>4. ASSUME NEW i \in Dirty
      PROVE  /\ jobs[i] \in [state : JobState, photo : Photo, attempts : Nat]
             /\ task[i].state \in JobState /\ task[i].attempts \in Nat
  <2>1. i \in Job /\ jobs[i].state # "removed" /\ jobs[i].state # "absent" /\ task[i].state # "none"
    BY <1>2, <1>3 DEF Dirty, TypeInv, Tracked
  <2> QED BY <2>1 DEF TypeInv, TypeOK, StoreTypeOK, WorkerTypeOK, JobRow, NoJobRow
<1>5. \A i \in Job :
         \/ jobs'[i] = jobs[i]
         \/ /\ jobs[i].state \in JobState /\ jobs'[i].state \in JobState
            /\ jobs'[i].photo = jobs[i].photo
            /\ jobs'[i] \in JobRow
  <2>1. jobs[j] \in [state : JobState, photo : Photo, attempts : Nat]
    BY <1>1 DEF TypeInv, TypeOK, StoreTypeOK, JobRow, NoJobRow
  <2>3. "Processing" \in JobState
    BY DEF JobState
  <2> TAKE i \in Job
  <2>4. CASE i = j
    <3>1. jobs'[i] = [jobs[j] EXCEPT !.state = "Processing"]
      BY <1>2, <2>4
    <3> QED BY <2>1, <2>3, <2>4, <3>1 DEF JobRow
  <2>5. CASE i # j /\ i \in Dirty
    <3>1. jobs'[i] = [jobs[i] EXCEPT !.state = task[i].state, !.attempts = task[i].attempts]
      BY <1>2, <2>5
    <3> QED BY <1>4, <2>5, <3>1 DEF JobRow
  <2>6. CASE i # j /\ i \notin Dirty
    BY <1>2, <2>6
  <2> QED BY <2>4, <2>5, <2>6
<1>6. jobs'[j].state = "Processing" /\ jobs'[j].photo = p
  <2>1. jobs[j] \in [state : JobState, photo : Photo, attempts : Nat]
    BY <1>1 DEF TypeInv, TypeOK, StoreTypeOK, JobRow, NoJobRow
  <2>2. jobs'[j] = [jobs[j] EXCEPT !.state = "Processing"]
    BY <1>1, <1>2
  <2> QED BY <2>1, <2>2
<1>7. StoreTypeOK'
  <2>1. jobs' \in [Job -> JobRow]
    BY <1>2, <1>5 DEF TypeInv, TypeOK, StoreTypeOK
  <2>2. KeysOK'
    BY <1>2, <1>5 DEF TypeInv, TypeOK, StoreTypeOK, KeysOK, Exists
  <2> QED BY <1>2, <2>1, <2>2 DEF TypeInv, TypeOK, StoreTypeOK
<1>8. Ages
  <2>1. \A i \in Job : jobs[i].state \in JobState \cup {"absent", "removed"}
    BY DEF TypeInv, TypeOK, StoreTypeOK, JobRow, NoJobRow
  <2> QED BY <1>u, <1>5, <2>1 DEF Ages
<1>9. ApiTypeOK' /\ SweeperTypeOK' /\ Minted'
  BY <1>2 DEF TypeInv, TypeOK, ApiTypeOK, SweeperTypeOK, Minted, Inserting, apiVars, sweeperVars
<1>10. PICK q \in LaneRecord :
          /\ lane' = [lane EXCEPT ![l] = q]
          /\ q.pc = "load" /\ q.job = j /\ q.photo = p /\ q.read.state = "absent"
  <2> DEFINE q == [IdleLane EXCEPT !.pc = "load", !.job = j, !.photo = p]
  <2>1. /\ q \in LaneRecord
        /\ q.pc = "load" /\ q.job = j /\ q.photo = p /\ q.read.state = "absent"
    BY <1>1 DEF IdleLane, NoCopy, LaneRecord, Copy, OriginalPath, Step
  <2> QED BY <1>2, <2>1
<1>11. WorkerTypeOK'
  <2>1. loop' \in [pc : {"fill", "watch"}, todo : SUBSET Lane, tracked : SUBSET Job, watched : SUBSET Lane]
    BY <1>1, <1>2, <1>3 DEF TypeInv, TypeOK, WorkerTypeOK
  <2>2. task' \in [Job -> [state : JobState \cup {"none"}, attempts : Nat]]
    BY <1>1, <1>2 DEF TypeInv, TypeOK, WorkerTypeOK, JobState
  <2> QED BY <1>10, <2>1, <2>2 DEF TypeInv, TypeOK, WorkerTypeOK
<1>12. Linked'
  <2>1. \A m \in Lane : lane[m].pc # "idle" => lane[m].job \in Job /\ lane[m].photo \in Photo
    BY WorkingLane DEF Working
  <2>2. ASSUME NEW m \in Lane, m # l, lane'[m].pc # "idle"
        PROVE  \/ /\ jobs'[lane'[m].job].state \in JobState
                  /\ jobs'[lane'[m].job].photo = lane'[m].photo
               \/ /\ jobs'[lane'[m].job].state = "removed"
                  /\ photos'[lane'[m].photo].state = "deleted"
    <3>1. lane'[m] = lane[m]
      BY <1>2, <2>2 DEF TypeInv, TypeOK, WorkerTypeOK
    <3>2. lane[m].pc # "idle" /\ lane[m].job \in Job
      BY <2>1, <2>2, <3>1
    <3>3. \/ jobs[lane[m].job].state \in JobState /\ jobs[lane[m].job].photo = lane[m].photo
          \/ jobs[lane[m].job].state = "removed" /\ photos[lane[m].photo].state = "deleted"
      BY <3>2 DEF TypeInv, Linked
    <3>4. \/ jobs'[lane[m].job] = jobs[lane[m].job]
          \/ /\ jobs[lane[m].job].state \in JobState /\ jobs'[lane[m].job].state \in JobState
             /\ jobs'[lane[m].job].photo = jobs[lane[m].job].photo
      BY <1>5, <3>2
    <3>5. "removed" \notin JobState
      BY DEF JobState
    <3> QED BY <1>u, <3>1, <3>3, <3>4, <3>5
  <2>3. lane'[l].job = j /\ lane'[l].photo = p
    BY <1>10 DEF TypeInv, TypeOK, WorkerTypeOK
  <2>4. jobs'[lane'[l].job].state \in JobState /\ jobs'[lane'[l].job].photo = lane'[l].photo
    BY <1>6, <2>3 DEF JobState
  <2> QED BY <2>2, <2>4 DEF Linked
<1>13. Tracked'
  <2>1. loop'.tracked \subseteq loop.tracked \cup {j}
    BY <1>2 DEF TypeInv, TypeOK, WorkerTypeOK
  <2>2. task'[j].state = "Processing" /\ \A i \in Job \ {j} : task'[i] = task[i]
    BY <1>1, <1>2 DEF TypeInv, TypeOK, WorkerTypeOK
  <2> QED BY <1>3, <1>5, <1>6, <2>1, <2>2 DEF TypeInv, Tracked, JobState
<1> QED BY <1>7, <1>9, <1>11, <1>12, <1>13 DEF TypeInv, TypeOK

(* Every step of the claiming loop. *)
LEMMA LoopType ==
    ASSUME TypeInv, UNCHANGED <<apiVars, sweeperVars>>, LoopStep
    PROVE  TypeInv'
<1>1. CASE \E l \in Lane : Claim(l)
  BY <1>1, ClaimType
<1>2. CASE \/ EndFill \/ LaneFreed
           \/ \E l \in Lane : SkipBusyLane(l) \/ EmptySlice(l) \/ ClaimThrows(l)
  <2>1. UNCHANGED <<storeVars, lane>>
    BY <1>2 DEF EndFill, LaneFreed, SkipBusyLane, EmptySlice, ClaimThrows
  <2>2. StoreTypeOK' /\ ApiTypeOK' /\ SweeperTypeOK' /\ Minted' /\ Linked'
    BY <2>1 DEF TypeInv, TypeOK, StoreTypeOK, KeysOK, Exists, ApiTypeOK, SweeperTypeOK, Minted,
         Inserting, Linked, storeVars, apiVars, sweeperVars
  <2>3. task' = task \/ task' = Referenced
    BY <1>2 DEF EndFill, LaneFreed, SkipBusyLane, EmptySlice, ClaimThrows
  <2>4. task' \in [Job -> [state : JobState \cup {"none"}, attempts : Nat]]
    BY <2>3 DEF Referenced, NoTask, TypeInv, TypeOK, WorkerTypeOK
  <2>5. /\ loop' \in [pc : {"fill", "watch"}, todo : SUBSET Lane, tracked : SUBSET Job,
                       watched : SUBSET Lane]
        /\ loop'.tracked = {} \/ (loop'.tracked = loop.tracked /\ task' = task)
    <3>1. loop \in [pc : {"fill", "watch"}, todo : SUBSET Lane, tracked : SUBSET Job, watched : SUBSET Lane]
      BY DEF TypeInv, TypeOK, WorkerTypeOK
    <3>2. CASE EndFill \/ LaneFreed \/ \E l \in Lane : ClaimThrows(l)
      BY <3>2 DEF EndFill, LaneFreed, ClaimThrows, FreshPass
    <3>3. CASE \E l \in Lane : SkipBusyLane(l) \/ EmptySlice(l)
      <4>1. PICK S : loop' = [loop EXCEPT !.todo = @ \ S] /\ task' = task
        BY <3>3 DEF SkipBusyLane, EmptySlice
      <4> QED BY <3>1, <4>1
    <3> QED BY <1>2, <3>2, <3>3
  <2>6. WorkerTypeOK'
    BY <2>1, <2>4, <2>5 DEF TypeInv, TypeOK, WorkerTypeOK, storeVars
  <2>7. Tracked'
    BY <2>1, <2>5 DEF TypeInv, Tracked, storeVars
  <2> QED BY <2>2, <2>6, <2>7 DEF TypeInv, TypeOK
<1> QED BY <1>1, <1>2 DEF LoopStep

(* A crash of the worker process. *)
LEMMA CrashType ==
    ASSUME TypeInv, Crashing
    PROVE  TypeInv'
<1>1. /\ UNCHANGED <<photos, variants, jobs, blobs, client, condemned, req>>
      /\ mishaps' \in 0 .. MaxMishaps
      /\ loop' = FreshPass /\ lane' = [l \in Lane |-> IdleLane] /\ task' = [j \in Job |-> NoTask]
      /\ sweep' = NoSweep
  BY DEF Crashing, WorkerCrash, Happens, apiVars, TypeInv, TypeOK, StoreTypeOK
<1>2. StoreTypeOK' /\ ApiTypeOK' /\ SweeperTypeOK' /\ Minted'
  BY <1>1 DEF TypeInv, TypeOK, StoreTypeOK, KeysOK, Exists, ApiTypeOK, SweeperTypeOK, NoSweep, Minted,
       Inserting
<1>3. WorkerTypeOK' /\ Linked' /\ Tracked'
  BY <1>1 DEF WorkerTypeOK, FreshPass, IdleLane, NoCopy, NoTask, Linked, Tracked
<1> QED BY <1>2, <1>3 DEF TypeInv, TypeOK

-----------------------------------------------------------------------------
(* The sweeper.                                                            *)

(* Every step of the orphan sweeper. *)
LEMMA SweepType ==
    ASSUME TypeInv, UNCHANGED <<apiVars, workerVars>>, SweeperNext
    PROVE  TypeInv'
<1>1. ApiTypeOK'
  BY DEF TypeInv, TypeOK, ApiTypeOK, apiVars
<1>2. SweeperTypeOK'
  BY DEF SweeperNext, SweepList, SweepBlob, SweepRow, NoSweep, TypeInv, TypeOK, SweeperTypeOK
<1>3. CASE SweepList \/ (\E p \in Photo : SweepBlob(p)) \/ (SweepRow /\ ~ Exists(sweep.at))
  <2>1. /\ UNCHANGED <<photos, variants, jobs, client, condemned>>
        /\ blobs' \subseteq blobs /\ mishaps' \in 0 .. MaxMishaps
    BY <1>3 DEF SweepList, SweepBlob, SweepRow, DropBlob, Happens, storeVars, TypeInv, TypeOK, StoreTypeOK
  <2>2. KeysOK' /\ Ages
    BY <2>1, RowKept DEF Exists, TypeInv, TypeOK, StoreTypeOK, KeysOK
  <2>3. StoreTypeOK' /\ Minted'
    BY <2>1, <2>2 DEF TypeInv, TypeOK, StoreTypeOK, Minted, Inserting, apiVars
  <2> QED BY <1>1, <1>2, <2>2, <2>3, AgedLanes DEF TypeInv, TypeOK
<1>4. CASE SweepRow /\ Exists(sweep.at)
  <2>1. /\ sweep.at \in Photo /\ RemovePhoto(sweep.at)
        /\ UNCHANGED <<blobs, client, condemned, mishaps>>
    BY <1>4 DEF SweepRow, TypeInv, TypeOK, SweeperTypeOK
  <2>2. StoreTypeOK' /\ Ages
    BY <2>1, RemoveCascades DEF TypeInv, TypeOK, StoreTypeOK
  <2>3. Minted'
    <3>1. photos[sweep.at].state # "absent"
      BY <1>4 DEF Exists, PhotoState
    <3>2. \A o \in Photo : photos[o].state = "absent" => photos'[o] = photos[o]
      BY <2>1, <3>1 DEF RemovePhoto, TypeInv, TypeOK, StoreTypeOK
    <3>3. \A r \in Request : req[r].kind = "ingest" => req[r].photo \in Photo
      BY DEF TypeInv, TypeOK, ApiTypeOK, RequestRecord, NoRequest
    <3> QED BY <2>1, <3>2, <3>3 DEF TypeInv, Minted, Inserting, apiVars
  <2> QED BY <1>1, <1>2, <2>2, <2>3, AgedLanes DEF TypeInv, TypeOK
<1> QED BY <1>3, <1>4 DEF SweeperNext

-----------------------------------------------------------------------------
(* The invariant.                                                          *)

(* The empty library satisfies the invariant. *)
LEMMA InitType == Init => TypeInv
<1> SUFFICES ASSUME Init PROVE TypeInv
  OBVIOUS
<1>1. StoreTypeOK
  BY DEF Init, StoreInit, StoreTypeOK, NoRow, PhotoRow, OriginalPath, JobRow, KeysOK,
       Exists, PhotoState, NoJobRow, JobState
<1>2. ApiTypeOK /\ SweeperTypeOK
  BY DEF Init, ApiInit, SweeperInit, ApiTypeOK, SweeperTypeOK, NoRequest, NoSweep
<1>3. WorkerTypeOK /\ Linked /\ Tracked
  BY DEF Init, WorkerInit, WorkerTypeOK, FreshPass, IdleLane, NoCopy, NoTask, Linked, Tracked
<1>4. Minted
  BY DEF Init, StoreInit, ApiInit, Minted, Inserting, NoRequest, NoRow
<1> QED BY <1>1, <1>2, <1>3, <1>4 DEF TypeInv, TypeOK

(* Nothing changes, the invariant included. *)
LEMMA StutterType ==
    ASSUME TypeInv, UNCHANGED vars
    PROVE  TypeInv'
BY DEF TypeInv, TypeOK, StoreTypeOK, KeysOK, Exists, ApiTypeOK, WorkerTypeOK, SweeperTypeOK,
     Minted, Inserting, Linked, Tracked, vars, storeVars, apiVars, workerVars, sweeperVars

(* The inductive step: one case per process of the system. *)
LEMMA NextType ==
    ASSUME TypeInv, [Next]_vars
    PROVE  TypeInv'
<1>1. CASE ApiMoves
  BY <1>1, DeviceType, ArrivalType, ServeType, DisconnectType DEF ApiMoves, ApiNext, Arrival
<1>2. CASE Looping
  BY <1>2, LoopType DEF Looping
<1>3. CASE \E l \in Lane : Processing(l) \/ Failing(l)
  BY <1>3, LaneType DEF Processing, Failing
<1>4. CASE Crashing
  BY <1>4, CrashType
<1>5. CASE Sweeping
  BY <1>5, SweepType DEF Sweeping
<1> QED BY <1>1, <1>2, <1>3, <1>4, <1>5, StutterType DEF Next

(* The tables, the requests, the lanes and the sweeper stay well formed:   *)
(* in particular the foreign keys hold, no save of a claiming loop, of a   *)
(* lane or of a timeout brings back a job that was deleted with its photo, *)
(* and a lane's copy never writes a row that was not there.                *)
THEOREM TypeCorrect == Spec => []TypeOK
<1>1. Spec => []TypeInv
  BY InitType, NextType, PTL DEF Spec
<1>2. TypeInv => TypeOK
  BY DEF TypeInv
<1> QED BY <1>1, <1>2, PTL

-----------------------------------------------------------------------------
(* Confirmed uploads.                                                      *)

(* Why a confirmed photo stays: a request that removes a row was accepted  *)
(* for its photo, and the sweeper only visits reservations whose device is *)
(* gone, so that none of them can be confirmed between the listing and the *)
(* deletion.                                                               *)
Asked == \A r \in Request : req[r].kind \in {"abort", "delete"} => req[r].photo \in condemned

SweepsGone == \A p \in Photo : p \in sweep.todo \cup {sweep.at} => client[p] = "gone"

KeptInv == ~ SlowUploads => Asked /\ SweepsGone /\ AckedKept

(* A step that takes no row away and whose devices only move on. *)
LEMMA NothingRemoved ==
    ASSUME TypeInv, KeptInv, UNCHANGED sweeperVars, Asked => Asked',
           condemned \subseteq condemned',
           \A o \in Photo \ condemned : Exists(o) => Exists(o)',
           \A o \in Photo : client[o] = "gone" => client'[o] = "gone",
           \A o \in Photo : client'[o] = "acked" => client[o] = "acked" \/ Exists(o)'
    PROVE  KeptInv'
BY DEF KeptInv, SweepsGone, AckedKept, sweeperVars

(* The worker never takes a row away. *)
LEMMA WorkerKeeps ==
    ASSUME TypeInv, NEW l \in Lane, LaneStep(l) \/ LaneMishap(l)
    PROVE  UNCHANGED <<client, condemned>> /\ \A o \in Photo : Exists(o) => Exists(o)'
<1> DEFINE p == lane[l].photo
           row == [photos[p] EXCEPT !.state = "Failed"]
<1>1. UNCHANGED <<client, condemned>>
  BY DEF LaneStep, LaneMishap, LoadPhoto, OpenOriginal, ClearVariants, SaverPut, SaverDrop, AddOriginal,
       PutPreview, AddPreview, PutThumbnail, AddThumbnail, AddVariant, PutDerived, Publish, FailSave,
       TimeoutLoad, TimeoutMark, StepFails, Timeout, TimeoutSave, TimeoutLate, storeVars
<1>2. Working(l)
  BY WorkingLane DEF LaneStep, LaneMishap, LoadPhoto, OpenOriginal, ClearVariants, SaverPut, SaverDrop, AddOriginal,
       PutPreview, AddPreview, PutThumbnail, AddThumbnail, AddVariant, PutDerived, Publish, FailSave,
       TimeoutLoad, TimeoutMark, StepFails, Timeout, TimeoutLate
<1>3. /\ lane[l].mem \in Copy /\ lane[l].added \in SUBSET VariantKind
      /\ lane[l].mem.state = "absent" => lane[l].read.state = "absent"
      /\ Ready(l) \in Copy /\ Ready(l).state # "absent"
  BY <1>2 DEF Working, LaneRecord, Copy, Ready, PhotoState
<1>4. Pending(l) \in SUBSET VariantKind
  BY DEF Pending, VariantKind
<1>5. CASE UNCHANGED photos
  BY <1>1, <1>5 DEF Exists
<1>6. CASE \E mem \in Copy, added \in SUBSET VariantKind :
             /\ mem.state = "absent" => lane[l].read.state = "absent"
             /\ CanSave(p, added) /\ SaveContext(l, mem, added)
  <2>1. PICK mem \in Copy, added \in SUBSET VariantKind :
             /\ mem.state = "absent" => lane[l].read.state = "absent"
             /\ Exists(p) /\ SaveContext(l, mem, added)
    BY <1>6 DEF CanSave
  <2> QED BY <1>1, <1>2, <2>1, SaveKeeps
<1>7. CASE photos' = [photos EXCEPT ![p].state = "Failed"]
  BY <1>1, <1>2, <1>7 DEF Exists, PhotoState, Working, TypeInv, TypeOK, StoreTypeOK
<1>8. CASE AddOriginal(l) \/ AddPreview(l) \/ AddThumbnail(l)
  <2>1. PICK kind \in VariantKind :
           \/ CanSave(p, {kind}) /\ SaveContext(l, lane[l].mem, {kind})
           \/ UNCHANGED photos
    BY <1>8 DEF AddOriginal, AddPreview, AddThumbnail, AddVariant, VariantKind
  <2>2. {kind} \in SUBSET VariantKind
    OBVIOUS
  <2> HIDE DEF p
  <2> QED BY <1>3, <1>5, <1>6, <2>1, <2>2
<1>9. CASE Publish(l)
  <2>1. (CanSave(p, {}) /\ SaveContext(l, Ready(l), {})) \/ UNCHANGED photos
    BY <1>9 DEF Publish, CanSave
  <2> HIDE DEF p
  <2> QED BY <1>3, <1>5, <1>6, <2>1
<1>10. CASE FailSave(l)
  <2>1. (CanSave(p, lane[l].added) /\ SaveContext(l, lane[l].mem, lane[l].added)) \/ UNCHANGED photos
    BY <1>10 DEF FailSave
  <2> HIDE DEF p
  <2> QED BY <1>3, <1>5, <1>6, <2>1
<1>11. CASE Timeout(l)
  <2>1. PICK mem \in {lane[l].mem, Ready(l)} :
           (CanSave(p, Pending(l)) /\ SaveContext(l, mem, Pending(l))) \/ UNCHANGED photos
    BY <1>11 DEF Timeout, TimeoutSave
  <2> HIDE DEF p
  <2> QED BY <1>3, <1>4, <1>5, <1>6, <2>1
<1>12. CASE TimeoutMark(l)
  BY <1>5, <1>7, <1>12 DEF TimeoutMark
<1>13. CASE \/ LoadPhoto(l) \/ OpenOriginal(l) \/ ClearVariants(l) \/ SaverPut(l) \/ SaverDrop(l)
            \/ PutPreview(l) \/ PutThumbnail(l) \/ TimeoutLoad(l) \/ StepFails(l) \/ TimeoutLate(l)
  BY <1>5, <1>13 DEF LoadPhoto, OpenOriginal, ClearVariants, SaverPut, SaverDrop, PutPreview, PutThumbnail,
       PutDerived, TimeoutLoad, StepFails, TimeoutLate, storeVars
<1> QED BY <1>8, <1>9, <1>10, <1>11, <1>12, <1>13 DEF LaneStep, LaneMishap

(* A request takes away only the row it was accepted for. *)
LEMMA RequestKeeps ==
    ASSUME TypeInv, KeptInv, UNCHANGED sweeperVars, NEW r \in Request, Serve(r) \/ Disconnect(r)
    PROVE  KeptInv'
<1> DEFINE p == req[r].photo
<1>1. /\ req[r].pc # "idle"
      /\ req[r] \in RequestRecord
      /\ p \in Photo
  <2>1. req[r].pc # "idle"
    BY DEF Serve, Disconnect, TypeInv, TypeOK, ApiTypeOK, RequestRecord, NoRequest, At, CompleteExists,
         CompleteSave, AbortBlob, DeleteRow, DeleteList, DeleteBlob, DeleteVariants, AttachFind,
         AttachPut, AttachAdd, AttachFlag, ReprocessEnqueue, IngestPut, IngestRow, IngestInsert, IngestReady
  <2> QED BY <2>1, Running DEF TypeInv, TypeOK, RequestRecord
<1>2. UNCHANGED condemned
  BY DEF Serve, Disconnect, CompleteExists, CompleteSave, AbortBlob, DeleteRow, DeleteList, DeleteBlob,
       DeleteVariants, AttachFind, AttachPut, AttachAdd, AttachFlag, ReprocessEnqueue, IngestPut, IngestRow,
       IngestInsert, IngestReady, storeVars
<1>3. PICK q : /\ req' = [req EXCEPT ![r] = q]
               /\ q = NoRequest \/ (q.kind = req[r].kind /\ q.photo = p)
  <2>1. Return(r) \/ \E pc, todo : Goto(r, pc, todo)
    BY DEF Serve, Disconnect, CompleteExists, CompleteSave, AbortBlob, DeleteRow, DeleteList, DeleteBlob,
         DeleteVariants, AttachFind, AttachPut, AttachAdd, AttachFlag, ReprocessEnqueue, IngestPut, IngestRow,
         IngestInsert, IngestReady
  <2>2. ASSUME NEW pc, NEW todo, Goto(r, pc, todo)
        PROVE  \E q : /\ req' = [req EXCEPT ![r] = q]
                     /\ q.kind = req[r].kind /\ q.photo = p
    <3> DEFINE q == [req[r] EXCEPT !.pc = pc, !.todo = todo]
    <3>1. req' = [req EXCEPT ![r] = q]
      BY <1>1, <2>2 DEF Goto, TypeInv, TypeOK, ApiTypeOK, RequestRecord
    <3>2. q.kind = req[r].kind /\ q.photo = p
      BY <1>1 DEF RequestRecord
    <3> QED BY <3>1, <3>2
  <2> QED BY <2>1, <2>2 DEF Return
<1>4. Asked => Asked'
  BY <1>2, <1>3 DEF Asked, NoRequest, TypeInv, TypeOK, ApiTypeOK
<1>5. /\ photos \in [Photo -> PhotoRow]
      /\ client \in [Photo -> {"idle", "uploading", "acked", "gone"}]
  BY DEF TypeInv, TypeOK, StoreTypeOK
<1>6. CASE CompleteSave(r) /\ Exists(p)
  <2>1. /\ photos' = [photos EXCEPT ![p].state = "PendingProcessing"]
        /\ client' = [client EXCEPT ![p] = IF @ = "uploading" THEN "acked" ELSE @]
    BY <1>6 DEF CompleteSave
  <2>2. \A o \in Photo : (o = p \/ Exists(o)) => Exists(o)'
    <3> HIDE DEF p
    <3> QED BY <1>1, <1>5, <2>1 DEF Exists, PhotoState, PhotoRow
  <2>3. \A o \in Photo : /\ client[o] = "gone" => client'[o] = "gone"
                         /\ client'[o] = "acked" => client[o] = "acked" \/ Exists(o)'
    BY <1>1, <1>5, <2>1, <2>2
  <2> QED BY <1>2, <1>4, <2>2, <2>3, NothingRemoved
<1>7. CASE DeleteRow(r) /\ Exists(p)
  <2>1. photos' = [photos EXCEPT ![p] = NoRow("deleted")] /\ UNCHANGED client
    BY <1>7 DEF DeleteRow, RemovePhoto
  <2>2. \A o \in Photo \ {p} : Exists(o) => Exists(o)'
    BY <1>5, <2>1 DEF Exists
  <2>3. Asked => p \in condemned
    BY <1>7 DEF DeleteRow, Asked
  <2> QED BY <1>2, <1>4, <2>1, <2>2, <2>3, NothingRemoved DEF KeptInv
<1>8. CASE UNCHANGED client /\ \A o \in Photo : Exists(o) => Exists(o)'
  BY <1>2, <1>4, <1>8, NothingRemoved
<1>9. CASE IngestRow(r) \/ IngestReady(r) \/ AttachFlag(r)
  <2>1. /\ UNCHANGED client
        /\ \/ UNCHANGED photos
           \/ photos' = [photos EXCEPT ![p].live = TRUE]
           \/ \E s \in PhotoState : photos' = [photos EXCEPT ![p].state = s]
    BY <1>9 DEF IngestRow, IngestReady, AttachFlag, PhotoState
  <2>2. \A o \in Photo : Exists(o) => Exists(o)'
    <3>1. CASE UNCHANGED photos
      BY <3>1 DEF Exists
    <3>2. CASE photos' = [photos EXCEPT ![p].live = TRUE]
      <4>1. \A o \in Photo : photos'[o].state = photos[o].state
        <5>1. \A row \in PhotoRow : [row EXCEPT !.live = TRUE].state = row.state
          BY Zenon DEF PhotoRow
        <5> HIDE DEF p
        <5> QED BY <1>1, <1>5, <3>2, <5>1
      <4> QED BY <4>1 DEF Exists
    <3>3. CASE \E s \in PhotoState : photos' = [photos EXCEPT ![p].state = s]
      BY <1>1, <1>5, <3>3 DEF Exists, PhotoRow
    <3> QED BY <2>1, <3>1, <3>2, <3>3
  <2> QED BY <1>8, <2>1, <2>2
<1>10. CASE UNCHANGED <<client, photos>>
  BY <1>8, <1>10 DEF Exists
<1>11. CASE (CompleteSave(r) \/ DeleteRow(r)) /\ ~ Exists(p)
  BY <1>10, <1>11 DEF CompleteSave, DeleteRow, storeVars
<1>12. CASE \/ CompleteExists(r) \/ AbortBlob(r) \/ DeleteList(r) \/ DeleteBlob(r) \/ DeleteVariants(r)
            \/ AttachFind(r) \/ AttachPut(r) \/ AttachAdd(r) \/ ReprocessEnqueue(r) \/ IngestPut(r)
            \/ IngestInsert(r) \/ Disconnect(r)
  BY <1>10, <1>12 DEF CompleteExists, AbortBlob, DeleteList, DeleteBlob, DeleteVariants, AttachFind,
       AttachPut, AttachAdd, ReprocessEnqueue, IngestPut, IngestInsert, Disconnect, storeVars
<1> QED BY <1>6, <1>7, <1>9, <1>11, <1>12 DEF Serve

(* What the device and the users start. *)
LEMMA ArrivalKeeps ==
    ASSUME TypeInv, KeptInv, UNCHANGED sweeperVars, Arrival
    PROVE  KeptInv'
<1>1. /\ photos \in [Photo -> PhotoRow]
      /\ client \in [Photo -> {"idle", "uploading", "acked", "gone"}]
      /\ req \in [Request -> RequestRecord \cup {NoRequest}]
  BY DEF TypeInv, TypeOK, StoreTypeOK, ApiTypeOK
<1>2. CASE \E p \in Photo : CreateUploadTicket(p) \/ ClientPut(p) \/ ClientGone(p)
  <2>1. UNCHANGED <<condemned, req>>
    BY <1>2 DEF CreateUploadTicket, ClientPut, ClientGone
  <2>2. \A o \in Photo : /\ Exists(o) => Exists(o)'
                         /\ client[o] = "gone" => client'[o] = "gone"
                         /\ client'[o] = "acked" => client[o] = "acked"
    <3>1. PICK p \in Photo : CreateUploadTicket(p) \/ ClientPut(p) \/ ClientGone(p)
      BY <1>2
    <3>2. /\ \/ UNCHANGED photos
             \/ photos' = [photos EXCEPT ![p].state = "PendingUpload"]
          /\ \/ UNCHANGED client
             \/ client[p] = "idle" /\ client' = [client EXCEPT ![p] = "uploading"]
             \/ client' = [client EXCEPT ![p] = "gone"]
      BY <3>1 DEF CreateUploadTicket, ClientPut, ClientGone
    <3>3. \A o \in Photo : Exists(o) => Exists(o)'
      BY <1>1, <3>2 DEF Exists, PhotoState, PhotoRow
    <3>4. \A o \in Photo : /\ client[o] = "gone" => client'[o] = "gone"
                           /\ client'[o] = "acked" => client[o] = "acked"
      BY <1>1, <3>2
    <3> QED BY <3>3, <3>4
  <2> QED BY <2>1, <2>2, NothingRemoved DEF Asked
<1>3. CASE \E r \in Request, p \in Photo :
             \/ CompleteBegin(r, p) \/ AbortBegin(r, p) \/ DeleteBegin(r, p)
             \/ AttachBegin(r, p) \/ ReprocessBegin(r, p) \/ IngestBegin(r, p)
  <2>1. PICK r \in Request, p \in Photo :
             \/ CompleteBegin(r, p) \/ AbortBegin(r, p) \/ DeleteBegin(r, p)
             \/ AttachBegin(r, p) \/ ReprocessBegin(r, p) \/ IngestBegin(r, p)
    BY <1>3
  <2>2. PICK q : /\ req' = [req EXCEPT ![r] = q] /\ q.photo = p
                 /\ condemned \subseteq condemned'
                 /\ q.kind \in {"abort", "delete"} => p \in condemned'
    <3>1. PICK kind, pc, todo :
             /\ Begin(r, kind, p, pc, todo)
             /\ condemned \subseteq condemned'
             /\ kind \in {"abort", "delete"} => p \in condemned'
      BY <2>1 DEF CompleteBegin, AbortBegin, DeleteBegin, AttachBegin, ReprocessBegin, IngestBegin, storeVars
    <3> DEFINE q == [kind |-> kind, pc |-> pc, photo |-> p, todo |-> todo]
    <3>2. req' = [req EXCEPT ![r] = q] /\ q.photo = p /\ q.kind = kind
      BY <3>1 DEF Begin
    <3> QED BY <3>1, <3>2
  <2>3. Asked => Asked'
    BY <1>1, <2>2 DEF Asked
  <2>4. \A o \in Photo : /\ client[o] = "gone" => client'[o] = "gone"
                         /\ client'[o] = "acked" => client[o] = "acked"
    BY <1>1, <2>1 DEF CompleteBegin, AbortBegin, DeleteBegin, AttachBegin, ReprocessBegin, IngestBegin, storeVars
  <2>5. UNCHANGED photos
    BY <2>1 DEF CompleteBegin, AbortBegin, DeleteBegin, AttachBegin, ReprocessBegin, IngestBegin, storeVars
  <2> QED BY <2>2, <2>3, <2>4, <2>5, NothingRemoved DEF Exists
<1> QED BY <1>2, <1>3 DEF Arrival

(* The sweeper takes away only rows of devices that are gone. *)
LEMMA SweeperKeeps ==
    ASSUME TypeInv, KeptInv, UNCHANGED apiVars, SweeperNext
    PROVE  KeptInv'
<1>1. UNCHANGED <<client, condemned, req>>
  BY DEF SweeperNext, SweepList, SweepBlob, SweepRow, storeVars, apiVars
<1>2. ~ SlowUploads /\ SweepsGone => SweepsGone'
  BY <1>1, PhotoAssumption DEF SweeperNext, SweepList, SweepBlob, SweepRow, NoSweep, Stale, SweepsGone,
       TypeInv, TypeOK, SweeperTypeOK
<1>3. ~ SlowUploads /\ SweepsGone /\ AckedKept => AckedKept'
  <2>1. CASE UNCHANGED photos
    BY <1>1, <2>1 DEF AckedKept, Exists
  <2>2. CASE photos' = [photos EXCEPT ![sweep.at] = NoRow("deleted")] /\ sweep.at \in Photo
    BY <1>1, <2>2 DEF AckedKept, Exists, SweepsGone, TypeInv, TypeOK, StoreTypeOK
  <2>3. \/ UNCHANGED photos
        \/ photos' = [photos EXCEPT ![sweep.at] = NoRow("deleted")] /\ sweep.at \in Photo
    BY DEF SweeperNext, SweepList, SweepBlob, SweepRow, RemovePhoto, storeVars, TypeInv, TypeOK, SweeperTypeOK
  <2> QED BY <2>1, <2>2, <2>3
<1> QED BY <1>1, <1>2, <1>3 DEF KeptInv, Asked

(* The inductive step for the confirmed uploads. *)
LEMMA NextKeeps ==
    ASSUME TypeInv, KeptInv, [Next]_vars
    PROVE  KeptInv'
<1>1. CASE ApiMoves
  BY <1>1, ArrivalKeeps, RequestKeeps DEF ApiMoves, ApiNext
<1>2. CASE Looping
  <2>1. UNCHANGED <<photos, client, condemned, req, sweep>>
    BY <1>2 DEF Looping, LoopStep, SkipBusyLane, EmptySlice, Claim, ClaimThrows, EndFill, LaneFreed,
         storeVars, apiVars, sweeperVars
  <2> QED BY <2>1 DEF KeptInv, Asked, SweepsGone, AckedKept, Exists
<1>3. CASE \E l \in Lane : Processing(l) \/ Failing(l)
  <2>1. UNCHANGED <<req, client, condemned, sweep>> /\ \A o \in Photo : Exists(o) => Exists(o)'
    BY <1>3, WorkerKeeps DEF Processing, Failing, apiVars, sweeperVars
  <2> QED BY <2>1, NothingRemoved DEF Asked, sweeperVars
<1>4. CASE Crashing
  <2>1. UNCHANGED <<photos, client, condemned, req>> /\ sweep' = NoSweep
    BY <1>4 DEF Crashing, WorkerCrash, apiVars
  <2> QED BY <2>1, PhotoAssumption DEF KeptInv, Asked, SweepsGone, AckedKept, Exists, NoSweep
<1>5. CASE Sweeping
  BY <1>5, SweeperKeeps DEF Sweeping
<1>6. CASE UNCHANGED vars
  BY <1>6 DEF KeptInv, Asked, SweepsGone, AckedKept, Exists, vars, storeVars, apiVars, sweeperVars
<1> QED BY <1>1, <1>2, <1>3, <1>4, <1>5, <1>6 DEF Next

(* A photo the API has confirmed stays until its owner asks to delete it,  *)
(* as long as the reservation age outlasts every upload that still lives.  *)
THEOREM ConfirmedKept == Spec => [](~ SlowUploads => AckedKept)
<1>1. Init => KeptInv
  BY PhotoAssumption DEF Init, StoreInit, ApiInit, SweeperInit, NoRequest, NoSweep, KeptInv, Asked, SweepsGone, AckedKept
<1>2. Spec => [](TypeInv /\ KeptInv)
  BY <1>1, InitType, NextType, NextKeeps, PTL DEF Spec
<1>3. KeptInv => (~ SlowUploads => AckedKept)
  BY DEF KeptInv
<1> QED BY <1>2, <1>3, PTL

(* ------------------------------ the queue -------------------------------- *)

(* The steps of a lane that has a claimed job, and those of the handler. *)
HandlerStep == Step \ {"idle", "load", "failsave", "timedout"}
WorkStep == HandlerStep \cup {"load"}
InWork(l) == lane[l].pc \in WorkStep

(* A claimed job is worked on by one lane; it is Processing, in memory and
   in the table, until its photo and itself are deleted. *)
OneLanePerJob ==
    \A l, m \in Lane : (l # m /\ InWork(l) /\ InWork(m)) => lane[l].job # lane[m].job
Claimed ==
    \A l \in Lane :
        InWork(l) => /\ task[lane[l].job].state = "Processing"
                     /\ jobs[lane[l].job].state \in {"Processing", "removed"}

(* The budget of the job objects, which the table takes over. *)
TasksSpent ==
    \A j \in Job :
        /\ task[j].state \in {"Queued", "Processing"} => task[j].attempts < MaxAttempts
        /\ task[j].state = "Failed" => task[j].attempts = MaxAttempts

(* What a lane holds of its photo: nothing before it is loaded, then the
   state it will write. *)
CopyOf(q) ==
    /\ q.pc = "load" => q.read.state = "absent" /\ q.mem = q.read
    /\ q.pc \in HandlerStep =>
          /\ q.mem.state = "Processing"
          /\ q.read.state \in Processable \cup {"Processing"}
    /\ q.pc = "failsave" => q.mem.state = "Failed"

(* A photo that waits has a job that neither the table nor memory calls
   Done; a job object is never Done before its row exists. *)
Waited ==
    \A p \in Photo :
        photos[p].state = "PendingProcessing" =>
            \E j \in Job : jobs[j].photo = p /\ jobs[j].state # "Done" /\ task[j].state # "Done"
Unborn == \A j \in Job : jobs[j].state = "absent" => task[j].state # "Done"

WorkInv ==
    /\ OneLanePerJob /\ Claimed /\ TasksSpent /\ AttemptsSpent
    /\ \A l \in Lane : CopyOf(lane[l])
    /\ Waited /\ Unborn

-----------------------------------------------------------------------------
(* The requests and the sweeper.                                           *)

(* What their steps do to the rows of one photo and to the queue. *)
Confirms(p) ==
    /\ photos' = [photos EXCEPT ![p].state = "PendingProcessing"]
    /\ Enqueue(p)
Writes(p) ==
    /\ UNCHANGED jobs
    /\ \A o \in Photo : photos'[o].state # photos[o].state => o = p /\ photos'[p].state # "PendingProcessing"
Served(p) ==
    \/ Confirms(p)
    \/ UNCHANGED photos /\ Enqueue(p)
    \/ RemovePhoto(p)
    \/ Writes(p)

LEMMA RequestServed ==
    ASSUME TypeInv, NEW r \in Request, Serve(r) \/ Disconnect(r)
    PROVE  req[r].photo \in Photo /\ Served(req[r].photo)
<1> DEFINE p == req[r].photo
<1>1. req[r].pc # "idle"
  BY DEF Serve, Disconnect, TypeInv, TypeOK, ApiTypeOK, RequestRecord, NoRequest, At, CompleteExists,
       CompleteSave, AbortBlob, DeleteRow, DeleteList, DeleteBlob, DeleteVariants, AttachFind,
       AttachPut, AttachAdd, AttachFlag, ReprocessEnqueue, IngestPut, IngestRow, IngestInsert, IngestReady
<1>2. p \in Photo
  BY <1>1, Running DEF TypeInv, TypeOK, RequestRecord
<1>3. photos \in [Photo -> PhotoRow]
  BY DEF TypeInv, TypeOK, StoreTypeOK
<1>4. CASE UNCHANGED <<photos, jobs>>
  BY <1>2, <1>4 DEF Served, Writes
<1>5. CASE CompleteSave(r)
  BY <1>2, <1>4, <1>5 DEF CompleteSave, Served, Confirms, storeVars
<1>6. CASE ReprocessEnqueue(r)
  BY <1>2, <1>4, <1>6 DEF ReprocessEnqueue, Served
<1>7. CASE DeleteRow(r)
  BY <1>2, <1>4, <1>7 DEF DeleteRow, Served
<1>8. CASE IngestRow(r) \/ IngestReady(r)
  <2>1. /\ UNCHANGED jobs
        /\ \/ UNCHANGED photos
           \/ \E s \in {"Processing", "Ready"} : photos' = [photos EXCEPT ![p].state = s]
    BY <1>8 DEF IngestRow, IngestReady
  <2> HIDE DEF p
  <2>2. Writes(p)
    BY <1>2, <1>3, <2>1 DEF Writes, PhotoRow
  <2> QED BY <2>2, <1>2 DEF Served, p
<1>9. CASE AttachFlag(r)
  <2>1. UNCHANGED jobs /\ (UNCHANGED photos \/ photos' = [photos EXCEPT ![p].live = TRUE])
    BY <1>9 DEF AttachFlag
  <2>2. \A row \in PhotoRow : [row EXCEPT !.live = TRUE].state = row.state
    BY Zenon DEF PhotoRow
  <2> HIDE DEF p
  <2>3. \A o \in Photo : photos'[o].state = photos[o].state
    BY <1>2, <1>3, <2>1, <2>2
  <2> QED BY <1>2, <2>1, <2>3 DEF Served, Writes, p
<1>10. CASE \/ CompleteExists(r) \/ AbortBlob(r) \/ DeleteList(r) \/ DeleteBlob(r) \/ DeleteVariants(r)
            \/ AttachFind(r) \/ AttachPut(r) \/ AttachAdd(r) \/ IngestPut(r)
            \/ IngestInsert(r) \/ Disconnect(r)
  BY <1>4, <1>10 DEF CompleteExists, AbortBlob, DeleteList, DeleteBlob, DeleteVariants, AttachFind,
       AttachPut, AttachAdd, IngestPut, IngestInsert, Disconnect, storeVars
<1> QED BY <1>2, <1>5, <1>6, <1>7, <1>8, <1>9, <1>10 DEF Serve

LEMMA ArrivalServed ==
    ASSUME TypeInv, Arrival
    PROVE  \E p \in Photo : Served(p)
<1>1. photos \in [Photo -> PhotoRow]
  BY DEF TypeInv, TypeOK, StoreTypeOK
<1>2. PICK p \in Photo :
         /\ UNCHANGED jobs
         /\ UNCHANGED photos \/ photos' = [photos EXCEPT ![p].state = "PendingUpload"]
  BY DEF Arrival, CreateUploadTicket, ClientPut, ClientGone, CompleteBegin, AbortBegin, DeleteBegin,
       AttachBegin, ReprocessBegin, IngestBegin, storeVars
<1>3. Writes(p)
  BY <1>1, <1>2 DEF Writes, PhotoRow
<1> QED BY <1>3 DEF Served

LEMMA SweepServed ==
    ASSUME TypeInv, SweeperNext
    PROVE  UNCHANGED <<photos, jobs>> \/ \E p \in Photo : Served(p)
<1>1. CASE SweepRow
  BY <1>1 DEF SweepRow, Served, TypeInv, TypeOK, SweeperTypeOK
<1>2. CASE SweepList \/ \E p \in Photo : SweepBlob(p)
  BY <1>2 DEF SweepList, SweepBlob, storeVars
<1> QED BY <1>1, <1>2 DEF SweeperNext

(* Such a step leaves the worker's promises alone. *)
LEMMA ServedWork ==
    ASSUME TypeInv, WorkInv, UNCHANGED workerVars, NEW p \in Photo, Served(p)
    PROVE  WorkInv'
<1>1. /\ photos \in [Photo -> PhotoRow] /\ jobs \in [Job -> JobRow]
      /\ \A l \in Lane : InWork(l) => lane[l].job \in Job
  <2>1. \A l \in Lane : InWork(l) => lane[l].pc # "idle"
    BY DEF InWork, WorkStep, HandlerStep
  <2> QED BY <2>1, WorkingLane DEF Working, TypeInv, TypeOK, StoreTypeOK
<1>2. UNCHANGED <<lane, task, loop>>
  BY DEF workerVars
<1>3. CASE Enqueue(p) /\ (UNCHANGED photos \/ Confirms(p))
  <2>1. PICK j \in Job : /\ jobs[j].state = "absent"
                         /\ jobs' = [jobs EXCEPT ![j] = [state |-> "Queued", photo |-> p, attempts |-> 0]]
    BY <1>3 DEF Enqueue
  <2>2. /\ \A i \in Job \ {j} : jobs'[i] = jobs[i]
        /\ jobs'[j] = [state |-> "Queued", photo |-> p, attempts |-> 0]
        /\ \A l \in Lane : InWork(l) => lane[l].job # j
        /\ jobs[j].photo = NoPhoto
    BY <1>1, <2>1 DEF WorkInv, Claimed, JobRow, NoJobRow, JobState
  <2>3. Claimed' /\ OneLanePerJob' /\ TasksSpent'
    BY <1>1, <1>2, <2>2 DEF WorkInv, Claimed, OneLanePerJob, TasksSpent, InWork
  <2>4. AttemptsSpent'
    BY <2>1, <2>2 DEF WorkInv, AttemptsSpent
  <2>5. Unborn'
    BY <1>2, <2>1, <2>2 DEF WorkInv, Unborn
  <2>6. Waited'
    <3>1. task[j].state # "Done"
      BY <2>1 DEF WorkInv, Unborn
    <3>2. \A o \in Photo \ {p} : photos'[o].state = photos[o].state
      BY <1>1, <1>3 DEF Confirms
    <3> QED BY <1>2, <2>1, <2>2, <3>1, <3>2 DEF WorkInv, Waited
  <2> QED BY <1>2, <2>3, <2>4, <2>5, <2>6 DEF WorkInv, CopyOf
<1>4. CASE RemovePhoto(p)
  <2>1. /\ jobs' = [j \in Job |-> IF jobs[j].photo = p THEN NoJobRow("removed") ELSE jobs[j]]
        /\ photos' = [photos EXCEPT ![p] = NoRow("deleted")]
    BY <1>4 DEF RemovePhoto
  <2>2. \A j \in Job : \/ jobs'[j] = jobs[j]
                       \/ jobs[j].photo = p /\ jobs'[j].state = "removed"
    BY <2>1 DEF NoJobRow
  <2>3. Claimed' /\ OneLanePerJob' /\ TasksSpent' /\ AttemptsSpent' /\ Unborn'
    BY <1>1, <1>2, <2>2 DEF WorkInv, Claimed, OneLanePerJob, TasksSpent, AttemptsSpent, Unborn, InWork
  <2>4. Waited'
    BY <1>1, <1>2, <2>1, <2>2 DEF WorkInv, Waited, NoRow
  <2> QED BY <1>2, <2>3, <2>4 DEF WorkInv, CopyOf
<1>5. CASE Writes(p)
  BY <1>2, <1>5 DEF Writes, WorkInv, OneLanePerJob, Claimed, TasksSpent, AttemptsSpent, Waited, Unborn, CopyOf, InWork
<1> QED BY <1>3, <1>4, <1>5 DEF Served, Confirms

-----------------------------------------------------------------------------
(* The lanes.                                                              *)

(* What a step of lane l, which goes on with record q, does to the row of
   its photo and to its job. *)
Wrote(l) ==
    \/ UNCHANGED photos
    \/ \E row \in PhotoRow :
          /\ Exists(lane[l].photo)
          /\ photos' = [photos EXCEPT ![lane[l].photo] = row]
          /\ \/ row.state \in {photos[lane[l].photo].state, "Failed"}
             \/ InHandler(l) /\ row.state = "Ready"
             \/ InHandler(l) /\ row.state = "Processing" /\ lane[l].read.state # "Processing"
Kept(l, q) == UNCHANGED <<task, jobs>> /\ (q.pc \in WorkStep => InWork(l))
Finished(l, q) ==
    /\ InWork(l) /\ q.pc \notin WorkStep
    /\ UNCHANGED jobs
    /\ MarkTask(l, DoneTask(TaskOf(l)))
    /\ ~ Exists(lane[l].photo) \/ photos'[lane[l].photo].state = "Ready"
GaveUp(l, q) ==
    /\ InWork(l) /\ q.pc \notin WorkStep
    /\ MarkTask(l, FailedTask(TaskOf(l)))
    /\ \/ UNCHANGED jobs
       \/ LET failed == FailedTask(TaskOf(l)) IN
          /\ Exists(lane[l].photo)
          /\ jobs' = [jobs EXCEPT ![lane[l].job].state = failed.state,
                                  ![lane[l].job].attempts = failed.attempts]
Worked(l, q) ==
    /\ Moves(l, q) /\ CopyOf(q)
    /\ (q.pc \in HandlerStep /\ q.read.state # "Processing") =>
          /\ UNCHANGED photos
          /\ \/ InHandler(l) /\ lane[l].read.state # "Processing"
             \/ photos[lane[l].photo].state \in Processable
    /\ Wrote(l)
    /\ Kept(l, q) \/ Finished(l, q) \/ GaveUp(l, q)

LEMMA HandlerLane ==
    ASSUME NEW l \in Lane, lane[l].pc \in Step
    PROVE  InHandler(l) <=> lane[l].pc \in HandlerStep
BY DEF InHandler, HandlerStep

(* What is known of a lane that is in the handler. *)
LEMMA InHand ==
    ASSUME TypeInv, WorkInv, NEW l \in Lane, lane[l].pc \in HandlerStep
    PROVE  /\ Working(l) /\ InHandler(l) /\ InWork(l)
           /\ lane[l].mem \in Copy /\ lane[l].read \in Copy
           /\ lane[l].mem.state = "Processing"
           /\ lane[l].read.state \in Processable \cup {"Processing"}
<1>1. lane[l].pc # "idle" /\ InHandler(l) /\ InWork(l)
  BY DEF HandlerStep, InHandler, InWork, WorkStep
<1> QED BY <1>1, WorkingLane DEF WorkInv, CopyOf, Working, LaneRecord

(* A lane that frees itself keeps nothing. *)
LEMMA IdleCopy == CopyOf(IdleLane) /\ IdleLane.pc \notin WorkStep
BY DEF CopyOf, IdleLane, HandlerStep, WorkStep

(* The record of a lane whose handler threw. *)
LEMMA CatchCopy ==
    ASSUME TypeInv, WorkInv, NEW l \in Lane, lane[l].pc \in HandlerStep,
           NEW added \in SUBSET VariantKind, Catch(l, added), UNCHANGED <<photos, jobs>>
    PROVE  \E q : Worked(l, q)
<1> DEFINE mem == [lane[l].mem EXCEPT !.state = "Failed"]
           q == [lane[l] EXCEPT !.pc = "failsave", !.mem = mem, !.added = added]
<1>1. Working(l) /\ InWork(l)
  BY InHand
<1>2. mem \in Copy /\ mem.state = "Failed"
  BY <1>1 DEF Working, LaneRecord, Copy, PhotoState
<1>3. lane' = [lane EXCEPT ![l] = q]
  BY <1>1 DEF Catch, Working, LaneRecord, TypeInv, TypeOK, WorkerTypeOK
<1> HIDE DEF mem
<1>4. /\ q \in LaneRecord /\ q.mem = mem /\ q.pc = "failsave"
      /\ q.job = lane[l].job /\ q.photo = lane[l].photo
  BY <1>1, <1>2 DEF Working, LaneRecord, Step
<1> HIDE DEF q
<1>5. Moves(l, q)
  BY <1>1, <1>2, <1>3, <1>4 DEF Moves, Working
<1>6. CopyOf(q)
  BY <1>2, <1>4 DEF CopyOf, HandlerStep
<1>7. q.pc \notin WorkStep
  BY <1>4 DEF WorkStep, HandlerStep
<1>8. GaveUp(l, q)
  BY <1>1, <1>7 DEF GaveUp, Catch
<1> QED BY <1>5, <1>6, <1>7, <1>8 DEF Worked, Wrote, WorkStep

(* A lane that goes on with another copy of the photo. *)
GoesOnWith(l, q, pc, read, mem) ==
    Moves(l, q) /\ q.pc = pc /\ q.mem = mem /\ q.read = read

LEMMA GoesOnCopy ==
    ASSUME TypeInv, NEW l \in Lane, Working(l), NEW pc \in Step, pc # "idle",
           NEW read \in Copy, NEW mem \in Copy, mem.state # "absent",
           lane' = [lane EXCEPT ![l] = [lane[l] EXCEPT !.pc = pc, !.read = read, !.mem = mem]]
    PROVE  GoesOnWith(l, [lane[l] EXCEPT !.pc = pc, !.read = read, !.mem = mem], pc, read, mem)
<1> DEFINE q == [lane[l] EXCEPT !.pc = pc, !.read = read, !.mem = mem]
<1>1. /\ q \in LaneRecord /\ q.mem = mem /\ q.read = read /\ q.pc = pc
      /\ q.job = lane[l].job /\ q.photo = lane[l].photo
  BY DEF Working, LaneRecord
<1>2. lane' = [lane EXCEPT ![l] = q]
  OBVIOUS
<1> HIDE DEF q
<1>3. GoesOnWith(l, q, pc, read, mem)
  BY <1>1, <1>2 DEF Moves, Working, GoesOnWith
<1> QED BY <1>3 DEF q

(* A handler that goes on, in memory only or with a save of its copy. *)
LEMMA HandlerOn ==
    ASSUME TypeInv, WorkInv, NEW l \in Lane, lane[l].pc \in HandlerStep,
           NEW pc \in HandlerStep, NEW read \in Copy, NEW mem \in Copy,
           mem.state = "Processing", read.state \in Processable \cup {"Processing"},
           lane' = [lane EXCEPT ![l] = [lane[l] EXCEPT !.pc = pc, !.read = read, !.mem = mem]],
           UNCHANGED <<jobs, task>>, Wrote(l),
           read.state # "Processing" => UNCHANGED photos /\ read = lane[l].read
    PROVE  \E q : Worked(l, q)
<1>1. Working(l) /\ InHandler(l) /\ InWork(l)
  BY InHand
<1> DEFINE q == [lane[l] EXCEPT !.pc = pc, !.read = read, !.mem = mem]
<1>2. pc \in Step /\ pc # "idle" /\ mem.state # "absent"
  BY DEF HandlerStep
<1>3. GoesOnWith(l, q, pc, read, mem)
  BY <1>1, <1>2, GoesOnCopy
<1> HIDE DEF q
<1>4. CopyOf(q)
  BY <1>3 DEF GoesOnWith, CopyOf, HandlerStep
<1>5. Worked(l, q)
  BY <1>1, <1>3, <1>4 DEF GoesOnWith, Worked, Kept
<1> QED BY <1>5

(* Saving a lane's context writes the row of its photo. *)
LEMMA SavedRow ==
    ASSUME TypeInv, NEW l \in Lane, Working(l), NEW mem \in Copy, NEW added,
           mem.state = "absent" => lane[l].read.state = "absent",
           Exists(lane[l].photo), SaveContext(l, mem, added)
    PROVE  \E row \in PhotoRow :
              /\ photos' = [photos EXCEPT ![lane[l].photo] = row]
              /\ photos'[lane[l].photo] = row
              /\ row.state = IF mem.state = lane[l].read.state THEN photos[lane[l].photo].state
                                                               ELSE mem.state
<1> DEFINE p == lane[l].photo
           row == Merge(photos[p], lane[l].read, mem)
<1>1. p \in Photo /\ photos[p] \in PhotoRow /\ lane[l].read \in Copy
  BY DEF Working, LaneRecord, TypeInv, TypeOK, StoreTypeOK
<1>2. /\ row \in PhotoRow
      /\ row.state = IF mem.state = lane[l].read.state THEN photos[p].state ELSE mem.state
  <2>1. photos[p].state \in PhotoState /\ photos[p].path \in OriginalPath
    BY <1>1 DEF Exists, PhotoRow
  <2>2. /\ mem.path \in OriginalPath
        /\ mem.state # lane[l].read.state => mem.state \in PhotoState
    BY <1>1 DEF Copy
  <2> QED BY <1>1, <2>1, <2>2 DEF Merge, PhotoRow
<1>3. photos' = [photos EXCEPT ![p] = row]
  BY DEF SaveContext
<1>4. photos'[p] = row
  BY <1>1, <1>3 DEF TypeInv, TypeOK, StoreTypeOK
<1> HIDE DEF row
<1> QED BY <1>2, <1>3, <1>4

(* The step before the handler. *)
LEMMA LoadWorked ==
    ASSUME TypeInv, WorkInv, NEW l \in Lane, LoadPhoto(l)
    PROVE  \E q : Worked(l, q)
<1> DEFINE p == lane[l].photo
           row == photos[p]
           read == [state |-> row.state, path |-> row.path]
           mem == [read EXCEPT !.state = "Processing"]
<1>1. /\ Working(l) /\ InWork(l) /\ UNCHANGED <<photos, jobs>>
      /\ lane[l] \in LaneRecord /\ row \in PhotoRow
  BY WorkingLane DEF LoadPhoto, InWork, WorkStep, storeVars, Working, TypeInv, TypeOK, StoreTypeOK
<1>2. CASE Free(l) /\ (UNCHANGED task \/ (~ Exists(p) /\ MarkTask(l, DoneTask(TaskOf(l)))))
  BY <1>1, <1>2, FreeMoves, IdleCopy DEF Worked, Wrote, Kept, Finished, WorkStep
<1>3. CASE /\ row.state \in Processable /\ UNCHANGED task
           /\ lane' = [lane EXCEPT ![l].pc = "open", ![l].read = read, ![l].mem = mem]
  <2>1. /\ read \in Copy /\ mem \in Copy /\ mem.state = "Processing"
        /\ read.state = row.state
        /\ mem.state # "absent"
    BY <1>1, <1>3 DEF Copy, PhotoRow, Processable, PhotoState
  <2>2. lane' = [lane EXCEPT ![l] = [lane[l] EXCEPT !.pc = "open", !.read = read, !.mem = mem]]
    BY <1>1, <1>3 DEF LaneRecord
  <2>3. "open" \in Step
    BY DEF Step
  <2> HIDE DEF mem, read
  <2> DEFINE q == [lane[l] EXCEPT !.pc = "open", !.read = read, !.mem = mem]
  <2>4. GoesOnWith(l, q, "open", read, mem)
    BY <1>1, <2>1, <2>2, <2>3, GoesOnCopy
  <2> HIDE DEF q
  <2>5. CopyOf(q)
    BY <1>3, <2>1, <2>4 DEF GoesOnWith, CopyOf
  <2>6. Worked(l, q)
    BY <1>1, <1>3, <2>4, <2>5 DEF GoesOnWith, Worked, Wrote, Kept
  <2> QED BY <2>6
<1> QED BY <1>2, <1>3 DEF LoadPhoto

(* The steps of the handler that leave the rows alone. *)
LEMMA HandlerWorked ==
    ASSUME TypeInv, WorkInv, NEW l \in Lane,
           \/ OpenOriginal(l) \/ ClearVariants(l) \/ SaverPut(l) \/ SaverDrop(l)
           \/ PutPreview(l) \/ PutThumbnail(l) \/ StepFails(l)
    PROVE  \E q : Worked(l, q)
<1>1. lane[l].pc \in HandlerStep /\ UNCHANGED <<photos, jobs>>
  BY DEF OpenOriginal, ClearVariants, SaverPut, SaverDrop, PutPreview, PutThumbnail, PutDerived, StepFails,
       storeVars, HandlerStep, Step
<1>2. /\ lane[l].mem \in Copy /\ lane[l].read \in Copy /\ lane[l] \in LaneRecord
      /\ lane[l].mem.state = "Processing" /\ lane[l].read.state \in Processable \cup {"Processing"}
  BY <1>1, InHand DEF Working
<1>3. Wrote(l)
  BY <1>1 DEF Wrote
<1>4. CASE Catch(l, {})
  BY <1>1, <1>4, CatchCopy
<1>5. CASE UNCHANGED task /\ \E pc \in HandlerStep : lane' = [lane EXCEPT ![l].pc = pc]
  <2>1. PICK pc \in HandlerStep : lane' = [lane EXCEPT ![l].pc = pc]
    BY <1>5
  <2>2. lane' = [lane EXCEPT ![l] = [lane[l] EXCEPT !.pc = pc, !.read = lane[l].read, !.mem = lane[l].mem]]
    BY <1>2, <2>1 DEF LaneRecord
  <2> QED BY <1>1, <1>2, <1>3, <1>5, <2>2, HandlerOn
<1>6. CASE SaverPut(l)
  <2> DEFINE mem == [lane[l].mem EXCEPT !.path = "saver"]
  <2>1. mem \in Copy /\ mem.state = "Processing"
    BY <1>2 DEF Copy, OriginalPath
  <2>2. lane' = [lane EXCEPT ![l] = [lane[l] EXCEPT !.pc = "saverDrop", !.read = lane[l].read, !.mem = mem]]
    BY <1>2, <1>6 DEF SaverPut, LaneRecord
  <2>3. "saverDrop" \in HandlerStep /\ UNCHANGED task
    BY <1>6 DEF HandlerStep, Step, SaverPut
  <2> HIDE DEF mem
  <2> QED BY <1>1, <1>2, <1>3, <2>1, <2>2, <2>3, HandlerOn
<1>7. \/ Catch(l, {}) \/ SaverPut(l)
      \/ UNCHANGED task /\ \E pc \in HandlerStep : lane' = [lane EXCEPT ![l].pc = pc]
  BY DEF OpenOriginal, ClearVariants, SaverDrop, PutPreview, PutThumbnail, PutDerived, StepFails, HandlerStep, Step
<1> QED BY <1>4, <1>5, <1>6, <1>7

(* The inserts of the handler. *)
LEMMA InsertWorked ==
    ASSUME TypeInv, WorkInv, NEW l \in Lane, AddOriginal(l) \/ AddPreview(l) \/ AddThumbnail(l)
    PROVE  \E q : Worked(l, q)
<1>1. PICK kind \in VariantKind, pc \in HandlerStep :
         \/ /\ Exists(lane[l].photo) /\ SaveContext(l, lane[l].mem, {kind})
            /\ lane' = [lane EXCEPT ![l].pc = pc, ![l].read = lane[l].mem]
            /\ UNCHANGED task
         \/ UNCHANGED photos /\ Catch(l, {kind})
  BY DEF AddOriginal, AddPreview, AddThumbnail, AddVariant, VariantKind, HandlerStep, Step, CanSave
<1>2. lane[l].pc \in HandlerStep /\ UNCHANGED jobs
  BY DEF AddOriginal, AddPreview, AddThumbnail, AddVariant, HandlerStep, Step
<1>3. /\ Working(l) /\ InHandler(l)
      /\ lane[l].mem \in Copy /\ lane[l].read \in Copy /\ lane[l] \in LaneRecord
      /\ lane[l].mem.state = "Processing"
  BY <1>2, InHand DEF Working
<1>4. CASE UNCHANGED photos /\ Catch(l, {kind})
  BY <1>2, <1>4, CatchCopy
<1>5. CASE /\ Exists(lane[l].photo) /\ SaveContext(l, lane[l].mem, {kind})
           /\ lane' = [lane EXCEPT ![l].pc = pc, ![l].read = lane[l].mem]
           /\ UNCHANGED task
  <2>1. lane' = [lane EXCEPT ![l] = [lane[l] EXCEPT !.pc = pc, !.read = lane[l].mem, !.mem = lane[l].mem]]
    BY <1>3, <1>5 DEF LaneRecord
  <2>2. PICK row \in PhotoRow :
           /\ photos' = [photos EXCEPT ![lane[l].photo] = row]
           /\ \/ row.state = photos[lane[l].photo].state
              \/ row.state = "Processing" /\ lane[l].read.state # "Processing"
    <3>1. lane[l].mem.state = "absent" => lane[l].read.state = "absent"
      BY <1>3
    <3> QED BY <1>3, <1>5, <3>1, SavedRow
  <2>3. Wrote(l)
    BY <1>3, <1>5, <2>2 DEF Wrote
  <2> QED BY <1>2, <1>3, <1>5, <2>1, <2>3, HandlerOn
<1> QED BY <1>1, <1>4, <1>5

(* The last save of the handler, and that after the catch block. *)
LEMMA EndWorked ==
    ASSUME TypeInv, WorkInv, NEW l \in Lane, Publish(l) \/ FailSave(l)
    PROVE  \E q : Worked(l, q)
<1> DEFINE p == lane[l].photo
<1>1. Free(l) /\ UNCHANGED jobs /\ Working(l)
  BY WorkingLane DEF Publish, FailSave
<1>2. /\ lane[l].mem \in Copy /\ lane[l].read \in Copy
      /\ lane[l].mem.state = "absent" => lane[l].read.state = "absent"
  BY <1>1 DEF Working, LaneRecord
<1>3. Moves(l, IdleLane) /\ CopyOf(IdleLane) /\ IdleLane.pc \notin WorkStep
  BY <1>1, FreeMoves, IdleCopy
<1>4. CASE Publish(l)
  <2>1. /\ lane[l].pc \in HandlerStep /\ InWork(l) /\ InHandler(l)
        /\ lane[l].read.state \in Processable \cup {"Processing"}
        /\ MarkTask(l, DoneTask(TaskOf(l)))
    BY <1>4, InHand DEF Publish, HandlerStep, Step
  <2>2. Ready(l) \in Copy /\ Ready(l).state = "Ready" /\ Ready(l).state # lane[l].read.state
    BY <1>2, <2>1 DEF Ready, Copy, PhotoState, Processable
  <2>3. CASE ~ Exists(p)
    BY <1>1, <1>3, <1>4, <2>1, <2>3 DEF Publish, Worked, Wrote, Finished, WorkStep
  <2>4. CASE Exists(p)
    <3>1. SaveContext(l, Ready(l), {})
      BY <1>4, <2>4 DEF Publish
    <3>2. PICK row \in PhotoRow :
             /\ photos' = [photos EXCEPT ![p] = row] /\ photos'[p] = row /\ row.state = "Ready"
      <4>1. Ready(l).state = "absent" => lane[l].read.state = "absent"
        BY <2>2
      <4> QED BY <1>1, <2>2, <2>4, <3>1, <4>1, SavedRow
    <3>3. Wrote(l) /\ photos'[p].state = "Ready"
      BY <2>1, <2>4, <3>2 DEF Wrote
    <3> QED BY <1>1, <1>3, <2>1, <3>3 DEF Worked, Finished, WorkStep
  <2> QED BY <2>3, <2>4
<1>5. CASE FailSave(l)
  <2>1. /\ UNCHANGED task
        /\ UNCHANGED photos \/ (Exists(p) /\ SaveContext(l, lane[l].mem, lane[l].added))
    BY <1>5 DEF FailSave, CanSave
  <2>2. lane[l].mem.state = "Failed"
    BY <1>5 DEF FailSave, WorkInv, CopyOf
  <2>3. Wrote(l)
    <3>1. CASE UNCHANGED photos
      BY <3>1 DEF Wrote
    <3>2. CASE Exists(p) /\ SaveContext(l, lane[l].mem, lane[l].added)
      <4>1. PICK row \in PhotoRow :
               /\ photos' = [photos EXCEPT ![p] = row]
               /\ row.state \in {photos[p].state, "Failed"}
        BY <1>1, <1>2, <2>2, <3>2, SavedRow
      <4> QED BY <3>2, <4>1 DEF Wrote
    <3> QED BY <2>1, <3>1, <3>2
  <2> QED BY <1>1, <1>3, <2>1, <2>3 DEF Worked, Kept, WorkStep
<1> QED BY <1>4, <1>5

(* The job outlives its budget. *)
LEMMA TimeoutWorked ==
    ASSUME TypeInv, WorkInv, NEW l \in Lane, Timeout(l)
    PROVE  \E q : Worked(l, q)
<1> DEFINE p == lane[l].photo
<1>1. Working(l) /\ InWork(l)
  <2>1. lane[l].pc \in WorkStep /\ lane[l].pc # "idle"
    BY DEF Timeout, WorkStep, HandlerStep, Step
  <2> QED BY <2>1, WorkingLane DEF InWork
<1>2. /\ lane[l].read \in Copy /\ lane[l].mem \in Copy /\ lane[l] \in LaneRecord
      /\ lane[l].mem.state = "absent" => lane[l].read.state = "absent"
  BY <1>1 DEF Working, LaneRecord
<1>3. PICK mem \in Copy :
         /\ TimeoutSave(l, mem)
         /\ mem.state = "absent" => lane[l].read.state = "absent"
         /\ \/ mem.state = lane[l].read.state
            \/ InHandler(l) /\ mem.state \in {"Processing", "Ready"}
  <2>1. Ready(l) \in Copy /\ Ready(l).state = "Ready"
    BY <1>2 DEF Ready, Copy, PhotoState
  <2>2. lane[l].pc = "load" => lane[l].mem.state = lane[l].read.state
    BY DEF WorkInv, CopyOf
  <2>3. lane[l].pc \in HandlerStep => InHandler(l) /\ lane[l].mem.state = "Processing"
    BY InHand
  <2>4. lane[l].pc \in HandlerStep \cup {"load"}
    BY <1>1 DEF InWork, WorkStep
  <2>5. lane[l].pc = "publish" => lane[l].pc \in HandlerStep
    BY DEF HandlerStep, Step
  <2> QED BY <1>2, <2>1, <2>2, <2>3, <2>4, <2>5 DEF Timeout
<1>4. MarkTask(l, FailedTask(TaskOf(l)))
  BY <1>3 DEF TimeoutSave
<1>5. CASE ~ CanSave(p, Pending(l))
  <2>1. Free(l) /\ UNCHANGED <<photos, jobs>>
    BY <1>3, <1>5 DEF TimeoutSave
  <2>2. GaveUp(l, IdleLane)
    BY <1>1, <1>4, <2>1, IdleCopy DEF GaveUp
  <2> QED BY <2>1, <2>2, FreeMoves, IdleCopy DEF Worked, Wrote, WorkStep
<1>6. CASE CanSave(p, Pending(l))
  <2>1. /\ jobs' = [jobs EXCEPT ![lane[l].job].state = FailedTask(TaskOf(l)).state,
                                ![lane[l].job].attempts = FailedTask(TaskOf(l)).attempts]
        /\ SaveContext(l, mem, Pending(l))
        /\ lane' = [lane EXCEPT ![l].pc = "timedout", ![l].read = mem, ![l].mem = mem]
        /\ Exists(p)
    BY <1>3, <1>6 DEF TimeoutSave, CanSave
  <2>2. lane' = [lane EXCEPT ![l] = [lane[l] EXCEPT !.pc = "timedout", !.read = mem, !.mem = mem]]
    BY <1>2, <2>1 DEF LaneRecord
  <2> DEFINE q == [lane[l] EXCEPT !.pc = "timedout", !.read = mem, !.mem = mem]
  <2>3. Moves(l, q) /\ q.pc = "timedout"
    <3>1. /\ q \in LaneRecord /\ q.mem = mem /\ q.read = mem /\ q.pc = "timedout"
          /\ q.job = lane[l].job /\ q.photo = lane[l].photo
      BY <1>2 DEF LaneRecord, Step
    <3> HIDE DEF q
    <3>2. lane' = [lane EXCEPT ![l] = q]
      BY <2>2 DEF q
    <3> QED BY <1>1, <3>1, <3>2 DEF Moves, Working
  <2> HIDE DEF q
  <2>4. CopyOf(q) /\ q.pc \notin WorkStep
    BY <2>3 DEF CopyOf, HandlerStep, WorkStep
  <2>5. GaveUp(l, q)
    BY <1>1, <1>4, <2>1, <2>4 DEF GaveUp
  <2>6. Wrote(l)
    <3>1. PICK row \in PhotoRow :
             /\ photos' = [photos EXCEPT ![p] = row]
             /\ row.state = IF mem.state = lane[l].read.state THEN photos[p].state ELSE mem.state
      BY <1>1, <1>3, <2>1, SavedRow
    <3> QED BY <1>3, <2>1, <3>1 DEF Wrote
  <2> QED BY <2>3, <2>4, <2>5, <2>6 DEF Worked, WorkStep
<1> QED BY <1>5, <1>6

(* The rest of the timeout path. *)
LEMMA TimedOutWorked ==
    ASSUME TypeInv, WorkInv, NEW l \in Lane, TimeoutLoad(l) \/ TimeoutMark(l) \/ TimeoutLate(l)
    PROVE  \E q : Worked(l, q)
<1>1. Working(l) /\ UNCHANGED <<task, jobs>>
  BY WorkingLane DEF TimeoutLoad, TimeoutMark, TimeoutLate, storeVars
<1>2. CASE Free(l)
  <2>1. Wrote(l)
    <3>1. CASE TimeoutMark(l)
      <4>1. CASE UNCHANGED photos
        BY <4>1 DEF Wrote
      <4>2. CASE photos' = [photos EXCEPT ![lane[l].photo].state = "Failed"] /\ Exists(lane[l].photo)
        <5> DEFINE row == [photos[lane[l].photo] EXCEPT !.state = "Failed"]
        <5>1. row \in PhotoRow /\ row.state = "Failed"
          BY <1>1 DEF Working, TypeInv, TypeOK, StoreTypeOK, PhotoRow, PhotoState
        <5>2. photos' = [photos EXCEPT ![lane[l].photo] = row]
          BY <4>2
        <5> HIDE DEF row
        <5> QED BY <4>2, <5>1, <5>2 DEF Wrote
      <4> QED BY <3>1, <4>1, <4>2 DEF TimeoutMark
    <3>2. CASE TimeoutLoad(l) \/ TimeoutLate(l)
      BY <3>2 DEF TimeoutLoad, TimeoutLate, storeVars, Wrote
    <3> QED BY <3>1, <3>2
  <2> QED BY <1>1, <1>2, <2>1, FreeMoves, IdleCopy DEF Worked, Kept, WorkStep
<1>3. CASE TimeoutLoad(l) /\ photos[lane[l].photo].state = "Processing"
  <2> DEFINE row == photos[lane[l].photo]
             seen == [state |-> row.state, path |-> row.path]
             q == [lane[l] EXCEPT !.pc = "timedout", !.read = seen, !.mem = seen]
  <2>1. seen \in Copy /\ seen.state # "absent"
    BY <1>1, <1>3 DEF Working, TypeInv, TypeOK, StoreTypeOK, PhotoRow, Copy, PhotoState
  <2>2. lane' = [lane EXCEPT ![l] = q]
    <3>1. lane[l] \in LaneRecord /\ lane[l].pc = "timedout"
      BY <1>1, <1>3 DEF TimeoutLoad, Working
    <3>2. lane' = [lane EXCEPT ![l].read = seen, ![l].mem = seen]
      BY <1>3 DEF TimeoutLoad
    <3> HIDE DEF seen
    <3>3. [lane[l] EXCEPT !.read = seen, !.mem = seen] = q
      BY <3>1 DEF LaneRecord
    <3>4. lane' = [lane EXCEPT ![l] = [lane[l] EXCEPT !.read = seen, !.mem = seen]]
      BY <2>1, <3>1, <3>2
    <3> QED BY <3>3, <3>4
  <2>3. UNCHANGED photos
    BY <1>3 DEF TimeoutLoad, storeVars
  <2> HIDE DEF seen
  <2>4. GoesOnWith(l, q, "timedout", seen, seen)
    BY <1>1, <2>1, <2>2, GoesOnCopy DEF Step
  <2> HIDE DEF q
  <2>5. CopyOf(q) /\ q.pc \notin WorkStep
    BY <2>4 DEF GoesOnWith, CopyOf, HandlerStep, WorkStep
  <2> QED BY <1>1, <2>3, <2>4, <2>5 DEF GoesOnWith, Worked, Wrote, Kept, WorkStep
<1> QED BY <1>2, <1>3 DEF TimeoutLoad, TimeoutMark, TimeoutLate

LEMMA LaneWorked ==
    ASSUME TypeInv, WorkInv, NEW l \in Lane, LaneStep(l) \/ LaneMishap(l)
    PROVE  \E q : Worked(l, q)
BY LoadWorked, HandlerWorked, InsertWorked, EndWorked, TimeoutWorked, TimedOutWorked
   DEF LaneStep, LaneMishap

(* Such a step keeps the worker's promises. *)
LEMMA WorkedKeeps ==
    ASSUME TypeInv, WorkInv, NEW l \in Lane, NEW q, Worked(l, q)
    PROVE  WorkInv'
<1> DEFINE p == lane[l].photo
           j == lane[l].job
<1>1. /\ photos \in [Photo -> PhotoRow] /\ jobs \in [Job -> JobRow]
      /\ task \in [Job -> TaskRecord] /\ lane \in [Lane -> LaneRecord \cup {IdleLane}]
  BY DEF TypeInv, TypeOK, StoreTypeOK, WorkerTypeOK, TaskRecord
<1>2. /\ lane'[l] = q /\ \A m \in Lane \ {l} : lane'[m] = lane[m]
      /\ q.pc # "idle" => q.job = j
  BY <1>1 DEF Worked, Moves
<1>3. \A m \in Lane : InWork(m) => lane[m].job \in Job /\ lane[m].pc # "idle"
  <2>1. \A m \in Lane : InWork(m) => lane[m].pc # "idle"
    BY DEF InWork, WorkStep, HandlerStep
  <2> QED BY <2>1, WorkingLane DEF Working
<1>4. q.pc \in WorkStep => InWork(l) /\ q.job = j /\ UNCHANGED <<task, jobs>>
  <2>1. q.pc \in WorkStep => q.pc # "idle"
    BY DEF WorkStep, HandlerStep
  <2> QED BY <1>2, <2>1 DEF Worked, Kept, Finished, GaveUp
<1>5. \A m \in Lane : InWork(m)' => InWork(m) /\ lane'[m].job = lane[m].job
  BY <1>2, <1>4 DEF InWork
<1>6. OneLanePerJob'
  BY <1>5 DEF WorkInv, OneLanePerJob
<1>7. \A m \in Lane : CopyOf(lane'[m])
  BY <1>2 DEF WorkInv, Worked
<1>8. \A o \in Photo : photos'[o].state = "PendingProcessing" => photos[o].state = "PendingProcessing"
  BY <1>1 DEF Worked, Wrote
<1>9. CASE Kept(l, q)
  <2>1. UNCHANGED <<task, jobs>>
    BY <1>9 DEF Kept
  <2> QED BY <1>5, <1>6, <1>7, <1>8, <2>1 DEF WorkInv, Claimed, TasksSpent, AttemptsSpent, Waited, Unborn
(* Its job has an outcome: only that job changes. *)
<1>10. ASSUME InWork(l), q.pc \notin WorkStep, NEW t \in TaskRecord, MarkTask(l, t),
              t.state \in {"Queued", "Processing"} => t.attempts < MaxAttempts,
              t.state = "Failed" => t.attempts = MaxAttempts,
              \A i \in Job : /\ jobs'[i].photo = jobs[i].photo
                             /\ i # j => jobs'[i] = jobs[i]
                             /\ \/ jobs'[i] = jobs[i]
                                \/ jobs'[i].state = t.state /\ jobs'[i].attempts = t.attempts,
              t.state = "Done" => /\ UNCHANGED jobs
                                  /\ ~ Exists(p) \/ photos'[p].state = "Ready"
       PROVE  WorkInv'
  <2>1. /\ j \in Job /\ p \in Photo /\ lane[l].pc # "idle"
        /\ jobs[j].photo = p \/ photos[p].state = "deleted"
        /\ jobs[j].state \in JobState \/ (jobs[j].state = "removed" /\ photos[p].state = "deleted")
    BY <1>3, <1>10, WorkingLane DEF Working, TypeInv, Linked
  <2>2. task'[j] = t /\ \A i \in Job \ {j} : task'[i] = task[i]
    BY <1>1, <1>10, <2>1 DEF MarkTask
  <2>3. \A m \in Lane : InWork(m)' => lane'[m].job \in Job \ {j}
    <3>1. ~ InWork(l)'
      BY <1>2, <1>10 DEF InWork
    <3> QED BY <1>3, <1>5, <1>10, <3>1 DEF WorkInv, OneLanePerJob
  <2>4. Claimed'
    BY <1>5, <1>10, <2>2, <2>3 DEF WorkInv, Claimed
  <2>5. TasksSpent'
    BY <1>10, <2>2 DEF WorkInv, TasksSpent
  <2>6. AttemptsSpent'
    BY <1>10 DEF WorkInv, AttemptsSpent
  <2>7. Unborn'
    <3>1. t.state = "Done" => jobs'[j].state # "absent"
      BY <1>10, <2>1 DEF JobState
    <3>2. t.state # "Done" => task'[j].state # "Done"
      BY <2>2
    <3>3. \A i \in Job \ {j} : jobs'[i] = jobs[i] /\ task'[i] = task[i]
      BY <1>10, <2>2
    <3> QED BY <3>1, <3>2, <3>3 DEF WorkInv, Unborn
  <2>8. Waited'
    <3> SUFFICES ASSUME NEW o \in Photo, photos'[o].state = "PendingProcessing"
                 PROVE  \E i \in Job : /\ jobs'[i].photo = o
                                       /\ jobs'[i].state # "Done" /\ task'[i].state # "Done"
      BY DEF Waited
    <3>1. PICK i \in Job : jobs[i].photo = o /\ jobs[i].state # "Done" /\ task[i].state # "Done"
      BY <1>8 DEF WorkInv, Waited
    <3>2. CASE i # j
      BY <1>10, <2>2, <3>1, <3>2
    <3>3. CASE i = j /\ t.state # "Done"
      BY <1>10, <2>2, <3>1, <3>3
    <3>4. CASE i = j /\ t.state = "Done"
      <4>1. photos[o].state = "PendingProcessing"
        BY <1>8
      <4>2. jobs[j].state # "removed"
        <5>1. j \in Job /\ jobs[j].photo \in Photo /\ jobs[j] \in JobRow
          BY <1>1, <2>1, <3>1, <3>4
        <5>2. jobs[j].photo # NoPhoto
          BY <5>1
        <5> QED BY <5>1, <5>2 DEF JobRow, NoJobRow, JobState
      <4>3. o = p
        BY <2>1, <3>1, <3>4, <4>2, Zenon DEF TypeInv, Linked
      <4> QED BY <1>10, <3>4, <4>1, <4>3 DEF Exists, PhotoState
    <3> QED BY <3>2, <3>3, <3>4
  <2> QED BY <1>6, <1>7, <2>4, <2>5, <2>6, <2>7, <2>8 DEF WorkInv
<1>11. InWork(l) => /\ TaskOf(l) \in TaskRecord /\ TaskOf(l).state = "Processing"
                    /\ TaskOf(l).attempts < MaxAttempts /\ TaskOf(l).attempts \in Nat
  BY <1>1, <1>3 DEF TaskOf, TaskRecord, WorkInv, Claimed, TasksSpent
<1>12. CASE Finished(l, q)
  <2>1. DoneTask(TaskOf(l)) \in TaskRecord /\ DoneTask(TaskOf(l)).state = "Done"
    BY <1>11, <1>12 DEF Finished, DoneTask, TaskRecord, JobState
  <2> QED BY <1>10, <1>12, <2>1 DEF Finished
<1>13. CASE GaveUp(l, q)
  <2> DEFINE t == FailedTask(TaskOf(l))
  <2>1. /\ t \in TaskRecord /\ t.state \in {"Queued", "Failed"}
        /\ t.state = "Queued" => t.attempts < MaxAttempts
        /\ t.state = "Failed" => t.attempts = MaxAttempts
    BY <1>11, <1>13 DEF GaveUp, FailedTask, TaskRecord, JobState
  <2>2. MarkTask(l, t) /\ InWork(l) /\ q.pc \notin WorkStep
    BY <1>13 DEF GaveUp
  <2>3. \A i \in Job : /\ jobs'[i].photo = jobs[i].photo
                       /\ i # j => jobs'[i] = jobs[i]
                       /\ \/ jobs'[i] = jobs[i]
                          \/ jobs'[i].state = t.state /\ jobs'[i].attempts = t.attempts
    <3> HIDE DEF t
    <3>1. CASE UNCHANGED jobs
      BY <3>1
    <3>2. CASE /\ Exists(p)
               /\ jobs' = [jobs EXCEPT ![j].state = t.state, ![j].attempts = t.attempts]
      <4>1. j \in Job /\ jobs[j] \in [state : JobState, photo : Photo, attempts : Nat]
        <5>1. j \in Job /\ jobs[j].state \in JobState
          BY <1>3, <2>2, <3>2 DEF TypeInv, Linked, Exists, PhotoState
        <5> QED BY <1>1, <5>1 DEF JobRow, NoJobRow, JobState
      <4>2. \A i \in Job : i # j => jobs'[i] = jobs[i]
        BY <1>1, <3>2
      <4>3. /\ jobs'[j].state = t.state /\ jobs'[j].attempts = t.attempts
            /\ jobs'[j].photo = jobs[j].photo
        BY <1>1, <3>2, <4>1
      <4> QED BY <4>2, <4>3
    <3> QED BY <1>13, <3>1, <3>2 DEF GaveUp, t
  <2> HIDE DEF t
  <2> QED BY <1>10, <2>1, <2>2, <2>3
<1> QED BY <1>9, <1>12, <1>13 DEF Worked

-----------------------------------------------------------------------------
(* The loop and the process.                                               *)

(* DequeueNextAsync gives a queued job, which no lane works on, to an idle *)
(* lane, and the outcomes it saves with it are those of spent attempts.    *)
LEMMA ClaimKeeps ==
    ASSUME TypeInv, WorkInv, NEW l \in Lane, Claim(l)
    PROVE  WorkInv'
<1> DEFINE j == Oldest(Slice(l))
<1>1. j \in Job /\ jobs[j].state = "Queued"
  <2>1. j \in Slice(l)
    BY OldestIn DEF Claim, Slice
  <2> QED BY <2>1 DEF Slice
<1>2. /\ \A i \in Dirty : jobs[i].state # "removed"
      /\ jobs' = [i \in Job |->
                    IF i = j THEN [jobs[i] EXCEPT !.state = "Processing"]
                    ELSE IF i \in Dirty
                         THEN [jobs[i] EXCEPT !.state = task[i].state, !.attempts = task[i].attempts]
                         ELSE jobs[i]]
      /\ task' = [task EXCEPT ![j] = [state |-> "Processing", attempts |-> jobs[j].attempts]]
      /\ lane' = [lane EXCEPT ![l] = [IdleLane EXCEPT !.pc = "load", !.job = j, !.photo = jobs[j].photo]]
      /\ UNCHANGED photos
  BY DEF Claim
<1> HIDE DEF j
<1>3. /\ jobs \in [Job -> JobRow] /\ task \in [Job -> TaskRecord]
      /\ lane \in [Lane -> LaneRecord \cup {IdleLane}] /\ Dirty \subseteq Job
      /\ \A m \in Lane : InWork(m) => lane[m].job \in Job
  <2>1. \A m \in Lane : InWork(m) => lane[m].pc # "idle"
    BY DEF InWork, WorkStep, HandlerStep
  <2>2. \A m \in Lane : InWork(m) => lane[m].job \in Job
    BY <2>1, WorkingLane DEF Working
  <2> QED BY <2>2 DEF TypeInv, TypeOK, StoreTypeOK, WorkerTypeOK, TaskRecord, Dirty
<1>4. ASSUME NEW i \in Job, jobs[i].state \in JobState
      PROVE  jobs[i] \in [state : JobState, photo : Photo, attempts : Nat]
  BY <1>3, <1>4 DEF JobRow, NoJobRow, JobState
<1>5. jobs'[j].state = "Processing" /\ jobs'[j].photo = jobs[j].photo /\ jobs'[j].attempts = jobs[j].attempts
  <2>1. jobs[j] \in [state : JobState, photo : Photo, attempts : Nat]
    BY <1>1, <1>4 DEF JobState
  <2>2. jobs'[j] = [jobs[j] EXCEPT !.state = "Processing"]
    BY <1>1, <1>2
  <2> QED BY <2>1, <2>2
<1>6. ASSUME NEW i \in Dirty, i # j
      PROVE  /\ jobs'[i].state = task[i].state /\ jobs'[i].attempts = task[i].attempts
             /\ jobs'[i].photo = jobs[i].photo
             /\ jobs[i].state \in JobState
  <2>1. i \in Job /\ jobs[i].state # "removed" /\ jobs[i].state # "absent"
    BY <1>2, <1>3 DEF Dirty, TypeInv, Tracked
  <2>2. jobs[i] \in [state : JobState, photo : Photo, attempts : Nat]
    BY <1>3, <2>1 DEF JobRow, NoJobRow
  <2>3. jobs'[i] = [jobs[i] EXCEPT !.state = task[i].state, !.attempts = task[i].attempts]
    BY <1>2, <1>6, <2>1
  <2> QED BY <2>2, <2>3
<1>7. \A i \in Job : (i # j /\ i \notin Dirty) => jobs'[i] = jobs[i]
  BY <1>2
<1>8. /\ task'[j].state = "Processing" /\ task'[j].attempts = jobs[j].attempts
      /\ \A i \in Job \ {j} : task'[i] = task[i]
  BY <1>1, <1>2, <1>3
<1>9. /\ lane'[l].pc = "load" /\ lane'[l].job = j
      /\ lane'[l].read.state = "absent" /\ lane'[l].mem = lane'[l].read
      /\ \A m \in Lane \ {l} : lane'[m] = lane[m]
  BY <1>2, <1>3 DEF IdleLane, NoCopy
(* No lane works on the claimed job, nor on one with an outcome to save. *)
<1>10. \A m \in Lane : InWork(m) => lane[m].job # j /\ lane[m].job \notin Dirty
  BY <1>1 DEF WorkInv, Claimed, Dirty
<1>11. OneLanePerJob'
  <2>1. ASSUME NEW k \in Lane, NEW m \in Lane, k # m, InWork(k)', InWork(m)'
        PROVE  lane'[k].job # lane'[m].job
    <3>1. CASE k # l /\ m # l
      BY <1>9, <2>1, <3>1 DEF WorkInv, OneLanePerJob, InWork
    <3>2. CASE k = l \/ m = l
      BY <1>9, <1>10, <2>1, <3>2 DEF InWork
    <3> QED BY <3>1, <3>2
  <2> QED BY <2>1 DEF OneLanePerJob
<1>12. Claimed'
  <2>1. ASSUME NEW m \in Lane \ {l}, InWork(m)'
        PROVE  /\ task'[lane'[m].job].state = "Processing"
               /\ jobs'[lane'[m].job].state \in {"Processing", "removed"}
    <3>1. InWork(m) /\ lane'[m] = lane[m]
      BY <1>9, <2>1 DEF InWork
    <3>2. jobs'[lane[m].job] = jobs[lane[m].job] /\ task'[lane[m].job] = task[lane[m].job]
      BY <1>3, <1>7, <1>8, <1>10, <3>1
    <3> QED BY <3>1, <3>2 DEF WorkInv, Claimed
  <2>2. task'[lane'[l].job].state = "Processing" /\ jobs'[lane'[l].job].state = "Processing"
    BY <1>5, <1>8, <1>9
  <2> QED BY <2>1, <2>2 DEF Claimed
<1>13. TasksSpent'
  BY <1>1, <1>8 DEF WorkInv, TasksSpent, AttemptsSpent
<1>14. AttemptsSpent'
  <2>1. ASSUME NEW i \in Job
        PROVE  /\ jobs'[i].state = "Queued" => jobs'[i].attempts < MaxAttempts
               /\ jobs'[i].state = "Failed" => jobs'[i].attempts = MaxAttempts
    <3>1. CASE i = j
      BY <1>5, <3>1
    <3>2. CASE i # j /\ i \in Dirty
      BY <1>6, <3>2 DEF WorkInv, TasksSpent
    <3>3. CASE i # j /\ i \notin Dirty
      BY <1>7, <3>3 DEF WorkInv, AttemptsSpent
    <3> QED BY <3>1, <3>2, <3>3
  <2> QED BY <2>1 DEF AttemptsSpent
<1>15. \A m \in Lane : CopyOf(lane'[m])
  BY <1>9 DEF WorkInv, CopyOf, HandlerStep
<1>16. Waited'
  <2> SUFFICES ASSUME NEW o \in Photo, photos'[o].state = "PendingProcessing"
               PROVE  \E i \in Job : /\ jobs'[i].photo = o
                                     /\ jobs'[i].state # "Done" /\ task'[i].state # "Done"
    BY DEF Waited
  <2>1. PICK i \in Job : jobs[i].photo = o /\ jobs[i].state # "Done" /\ task[i].state # "Done"
    BY <1>2 DEF WorkInv, Waited
  <2>2. /\ jobs'[i].photo = jobs[i].photo
        /\ jobs'[i].state # "Done" /\ task'[i].state # "Done"
    <3>1. CASE i = j
      BY <1>5, <1>8, <3>1
    <3>2. CASE i # j /\ i \in Dirty
      BY <1>6, <1>8, <2>1, <3>2
    <3>3. CASE i # j /\ i \notin Dirty
      BY <1>7, <1>8, <2>1, <3>3
    <3> QED BY <3>1, <3>2, <3>3
  <2> QED BY <2>1, <2>2
<1>17. Unborn'
  <2>1. ASSUME NEW i \in Job, jobs'[i].state = "absent"
        PROVE  task'[i].state # "Done"
    <3>1. CASE i = j
      BY <1>5, <2>1, <3>1
    <3>2. CASE i # j /\ i \in Dirty
      <4>1. task[i].state = "absent" /\ task'[i] = task[i]
        BY <1>6, <1>8, <2>1, <3>2
      <4> QED BY <4>1
    <3>3. CASE i # j /\ i \notin Dirty
      BY <1>7, <1>8, <2>1, <3>3 DEF WorkInv, Unborn
    <3> QED BY <3>1, <3>2, <3>3
  <2> QED BY <2>1 DEF Unborn
<1> QED BY <1>11, <1>12, <1>13, <1>14, <1>15, <1>16, <1>17 DEF WorkInv

(* The other steps of the loop forget at most job objects no lane holds. *)
LEMMA LoopKeeps ==
    ASSUME TypeInv, WorkInv, LoopStep
    PROVE  WorkInv'
<1>1. CASE \E l \in Lane : Claim(l)
  BY <1>1, ClaimKeeps
<1>2. CASE \/ EndFill \/ LaneFreed
           \/ \E l \in Lane : SkipBusyLane(l) \/ EmptySlice(l) \/ ClaimThrows(l)
  <2>1. UNCHANGED <<photos, jobs, lane>> /\ (task' = task \/ task' = Referenced)
    BY <1>2 DEF EndFill, LaneFreed, SkipBusyLane, EmptySlice, ClaimThrows, storeVars
  <2>2. \A j \in Job : task'[j] = task[j] \/ task'[j].state = "none"
    BY <2>1 DEF Referenced, NoTask
  <2>3. \A l \in Lane : InWork(l) => task'[lane[l].job] = task[lane[l].job]
    <3>1. \A l \in Lane : InWork(l) => lane[l].pc # "idle"
      BY DEF InWork, WorkStep, HandlerStep
    <3>2. \A l \in Lane : InWork(l) => lane[l].job \in Job
      BY <3>1, WorkingLane DEF Working
    <3> QED BY <2>1, <3>2 DEF Referenced
  <2> QED BY <2>1, <2>2, <2>3 DEF WorkInv, OneLanePerJob, Claimed, InWork, TasksSpent, AttemptsSpent, Waited, Unborn, CopyOf
<1> QED BY <1>1, <1>2 DEF LoopStep

(* A process that starts has no lane at work. *)
LEMMA FreshWorks ==
    ASSUME lane' = [l \in Lane |-> IdleLane], task' = [j \in Job |-> NoTask],
           AttemptsSpent',
           \A p \in Photo :
               photos'[p].state = "PendingProcessing" =>
                   \E j \in Job : jobs'[j].photo = p /\ jobs'[j].state # "Done"
    PROVE  WorkInv'
<1>1. \A l \in Lane : lane'[l] = IdleLane
  OBVIOUS
<1>2. \A l \in Lane : ~ InWork(l)' /\ CopyOf(lane'[l])
  BY <1>1, IdleCopy DEF InWork
<1>3. \A j \in Job : task'[j].state = "none"
  BY DEF NoTask
<1> QED BY <1>2, <1>3 DEF WorkInv, OneLanePerJob, Claimed, TasksSpent, Waited, Unborn

LEMMA CrashKeeps ==
    ASSUME WorkInv, Crashing
    PROVE  WorkInv'
BY FreshWorks DEF Crashing, WorkerCrash, WorkInv, AttemptsSpent, Waited

LEMMA InitWork == Init => WorkInv
<1> SUFFICES ASSUME Init PROVE WorkInv
  OBVIOUS
<1>1. /\ \A l \in Lane : lane[l] = IdleLane
      /\ \A j \in Job : task[j].state = "none" /\ jobs[j].state = "absent"
      /\ \A p \in Photo : photos[p].state = "absent"
  BY DEF Init, StoreInit, WorkerInit, NoTask, NoJobRow, NoRow
<1>2. \A l \in Lane : ~ InWork(l) /\ CopyOf(lane[l])
  BY <1>1, IdleCopy DEF InWork
<1> QED BY <1>1, <1>2 DEF WorkInv, OneLanePerJob, Claimed, TasksSpent, AttemptsSpent, Waited, Unborn

(* The inductive step: one case per process of the system. *)
LEMMA NextWork ==
    ASSUME TypeInv, WorkInv, [Next]_vars
    PROVE  WorkInv'
<1>1. CASE ApiMoves
  <2>1. PICK p \in Photo : Served(p)
    BY <1>1, ArrivalServed, RequestServed DEF ApiMoves, ApiNext
  <2> QED BY <1>1, <2>1, ServedWork DEF ApiMoves
<1>2. CASE Looping
  BY <1>2, LoopKeeps DEF Looping
<1>3. CASE \E l \in Lane : Processing(l) \/ Failing(l)
  BY <1>3, LaneWorked, WorkedKeeps DEF Processing, Failing
<1>4. CASE Crashing
  BY <1>4, CrashKeeps
<1>5. CASE Sweeping
  <2>1. CASE UNCHANGED <<photos, jobs>>
    BY <1>5, <2>1 DEF Sweeping, workerVars, WorkInv, OneLanePerJob, Claimed, InWork, TasksSpent, AttemptsSpent, Waited, Unborn, CopyOf
  <2>2. CASE \E p \in Photo : Served(p)
    BY <1>5, <2>2, ServedWork DEF Sweeping
  <2> QED BY <1>5, <2>1, <2>2, SweepServed DEF Sweeping
<1>6. CASE UNCHANGED vars
  BY <1>6 DEF vars, storeVars, workerVars, WorkInv, OneLanePerJob, Claimed, InWork, TasksSpent, AttemptsSpent, Waited, Unborn, CopyOf
<1> QED BY <1>1, <1>2, <1>3, <1>4, <1>5, <1>6 DEF Next

LEMMA WorkAlways == Spec => [](TypeInv /\ WorkInv)
BY InitType, InitWork, NextType, NextWork, PTL DEF Spec

(* VariantJob.Fail keeps its budget over every requeue, crash, timeout and *)
(* late save: a job waits for another attempt only while it has one left.  *)
THEOREM AttemptsKept == Spec => []AttemptsSpent
<1>1. WorkInv => AttemptsSpent
  BY DEF WorkInv
<1> QED BY <1>1, WorkAlways, PTL

(* No job is in the handler of two lanes: neither a requeue, nor a timeout, *)
(* nor the outcome another pass saves late gives it away while it is there. *)
THEOREM OneHandler == Spec => []OneHandlerPerJob
<1>1. TypeInv /\ WorkInv => OneHandlerPerJob
  <2> SUFFICES ASSUME TypeInv, WorkInv PROVE OneHandlerPerJob
    OBVIOUS
  <2>1. \A l \in Lane : lane[l].pc \in Step
    BY DEF TypeInv, TypeOK, WorkerTypeOK, LaneRecord, IdleLane, Step
  <2>2. \A l \in Lane : InHandler(l) => InWork(l)
    BY <2>1 DEF InHandler, InWork, WorkStep, HandlerStep
  <2> QED BY <2>2 DEF WorkInv, OneLanePerJob, OneHandlerPerJob
<1> QED BY <1>1, WorkAlways, PTL

(* A photo that waits to be processed has a job that is not Done: whatever *)
(* requests, lanes and mishaps interleave, nothing completes its last job  *)
(* under it.                                                               *)
THEOREM JobConfirmed == Spec => []ConfirmedHasJob
<1>1. WorkInv => ConfirmedHasJob
  BY DEF WorkInv, Waited, ConfirmedHasJob
<1> QED BY <1>1, WorkAlways, PTL

(* ------------------------------ the contract ---------------------------- *)

(* The pipeline implements the contract PhotoLifecycle when the requests are
   in order: no upload outlives the reservation age, no device sends a second
   complete while its first one runs, and Ready photos are not enqueued
   again. *)
Orderly == ~ SlowUploads /\ ~ DoubleSubmit /\ "reprocess" \notin Operation

(* A photo has one job at most, and none before it is confirmed. *)
JobOnce ==
    \A i, j \in Job :
        (jobs[i].photo = jobs[j].photo /\ jobs[i].photo # NoPhoto) => i = j
Reserved ==
    \A p \in Photo :
        photos[p].state \in {"absent", "PendingUpload"} => \A j \in Job : jobs[j].photo # p

(* A complete in flight is the only one of its photo, which is still
   reserved or gone; its device waits, or has asked to drop the photo. *)
Completing ==
    \A r \in Request :
        req[r].kind = "complete" =>
            /\ photos[req[r].photo].state \in {"PendingUpload", "deleted"}
            /\ client[req[r].photo] \in {"uploading", "gone"}
            /\ client[req[r].photo] = "gone" => req[r].photo \in condemned
            /\ \A s \in Request \ {r} :
                  req[s].kind = "complete" => req[s].photo # req[r].photo

(* A photo the API derives itself never was a reservation and has no job. *)
Ingesting ==
    \A r \in Request :
        req[r].kind = "ingest" =>
            /\ photos[req[r].photo].state # "PendingUpload"
            /\ \A j \in Job : jobs[j].photo # req[r].photo

(* Until the handler has saved its first change the photo is not Ready. *)
HandlerOpen ==
    \A l \in Lane :
        (lane[l].pc \in HandlerStep /\ lane[l].read.state # "Processing") =>
            photos[lane[l].photo].state # "Ready"

(* What the sweeper holds is still reserved, unless its owner dropped it. *)
SweepHolds ==
    \A p \in Photo \ condemned :
        p \in sweep.todo \cup {sweep.at} => photos[p].state \in {"PendingUpload", "deleted"}

OrderInv ==
    JobOnce /\ Reserved /\ Completing /\ Ingesting /\ HandlerOpen /\ SweepHolds

SysInv == TypeInv /\ WorkInv /\ KeptInv /\ OrderInv

-----------------------------------------------------------------------------
(* Steps of the contract.                                                  *)

Phases == [p \in Photo |-> PhaseOf(photos[p].state)]
Follows == [Lifecycle!Next]_<<Phases, condemned>>

LEMMA PhaseIs ==
    /\ PhaseOf("absent") = "none" /\ PhaseOf("PendingUpload") = "reserved"
    /\ PhaseOf("PendingProcessing") = "working" /\ PhaseOf("Processing") = "working"
    /\ PhaseOf("Ready") = "ready" /\ PhaseOf("Failed") = "failed" /\ PhaseOf("deleted") = "removed"
BY DEF PhaseOf

(* One photo moves. *)
LEMMA Moved ==
    ASSUME NEW p \in Photo, UNCHANGED condemned,
           \A o \in Photo \ {p} : photos'[o].state = photos[o].state,
           NEW from, PhaseOf(photos[p].state) \in from
    PROVE  Lifecycle!Move(p, from, PhaseOf(photos'[p].state))
<1>1. Phases' = [Phases EXCEPT ![p] = PhaseOf(photos'[p].state)]
  BY DEF Phases
<1> QED BY <1>1 DEF Lifecycle!Move, Phases

(* None does. *)
LEMMA Stays ==
    ASSUME \A o \in Photo : photos'[o].state = photos[o].state
    PROVE  UNCHANGED Phases
BY DEF Phases

LEMMA StaysFollows ==
    ASSUME \A o \in Photo : photos'[o].state = photos[o].state, UNCHANGED condemned
    PROVE  Follows
BY Stays DEF Follows

(* The moves of a photo that exists and is no reservation. *)
LEMMA WorkFollows ==
    ASSUME NEW p \in Photo, UNCHANGED condemned,
           \A o \in Photo \ {p} : photos'[o].state = photos[o].state,
           photos[p].state \in PhotoState \ {"PendingUpload"},
           \/ photos'[p].state \in {photos[p].state, "Ready", "Failed"}
           \/ photos'[p].state = "Processing" /\ photos[p].state # "Ready"
    PROVE  Follows
<1> DEFINE a == photos[p].state
           b == photos'[p].state
<1>1. CASE PhaseOf(b) = PhaseOf(a)
  BY <1>1 DEF Follows, Phases
<1>2. CASE b = "Ready" /\ a # "Ready"
  <2>1. PhaseOf(a) \in {"working", "failed"} /\ PhaseOf(b) = "ready"
    BY <1>2, PhaseIs DEF PhotoState
  <2>2. Lifecycle!Succeed(p)
    BY <2>1, Moved DEF Lifecycle!Succeed
  <2> QED BY <2>2 DEF Follows, Lifecycle!Next
<1>3. CASE b = "Failed" /\ a # "Failed"
  <2>1. PhaseOf(a) \in {"working", "ready"} /\ PhaseOf(b) = "failed"
    BY <1>3, PhaseIs DEF PhotoState
  <2>2. Lifecycle!Fail(p) \/ Lifecycle!FailLate(p)
    BY <2>1, Moved DEF Lifecycle!Fail, Lifecycle!FailLate
  <2> QED BY <2>2 DEF Follows, Lifecycle!Next
<1>4. CASE b = "Processing" /\ a # "Ready"
  <2>1. PhaseOf(a) \in {"working", "failed"} /\ PhaseOf(b) = "working"
    BY <1>4, PhaseIs DEF PhotoState
  <2>2. PhaseOf(a) = "failed" => Lifecycle!Retry(p)
    BY <2>1, Moved DEF Lifecycle!Retry
  <2> QED BY <1>1, <2>1, <2>2 DEF Follows, Lifecycle!Next
<1> QED BY <1>1, <1>2, <1>3, <1>4

-----------------------------------------------------------------------------
(* The worker.                                                             *)

(* A busy lane's photo was confirmed, and while it exists the lane's job   *)
(* is its job.                                                             *)
LEMMA LaneRow ==
    ASSUME TypeInv, OrderInv, NEW l \in Lane, lane[l].pc # "idle"
    PROVE  /\ lane[l].photo \in Photo /\ lane[l].job \in Job
           /\ photos[lane[l].photo].state \notin {"absent", "PendingUpload"}
           /\ photos[lane[l].photo].state # "deleted" => jobs[lane[l].job].photo = lane[l].photo
<1>1. lane[l].photo \in Photo /\ lane[l].job \in Job
  BY WorkingLane DEF Working
<1> QED BY <1>1 DEF TypeInv, Linked, OrderInv, Reserved

(* What the steps of others must leave alone. *)
ReqKept ==
    \A r \in Request :
        req'[r].kind # "none" => req'[r].kind = req[r].kind /\ req'[r].photo = req[r].photo
SweepKept == sweep'.todo \cup {sweep'.at} \subseteq sweep.todo \cup {sweep.at, NoPhoto}
JobsKept == \A j \in Job : jobs'[j].photo \in {jobs[j].photo, NoPhoto}

(* The row of a confirmed photo is rewritten. *)
LEMMA RowOrder ==
    ASSUME TypeInv, OrderInv, NEW p \in Photo,
           JobsKept, ReqKept, SweepKept, UNCHANGED <<client, condemned>>,
           \A o \in Photo \ {p} : photos'[o].state = photos[o].state,
           photos[p].state \notin {"absent", "PendingUpload"},
           photos'[p].state \in PhotoState \ {"PendingUpload"} \/ photos'[p].state = photos[p].state,
           photos[p].state = "deleted" => photos'[p].state = "deleted"
    PROVE  (JobOnce /\ Reserved /\ Completing /\ Ingesting /\ SweepHolds)'
<1>1. /\ \A r \in Request : req[r].kind # "none" => req[r].photo \in Photo
      /\ photos[p].state \in (PhotoState \cup {"deleted"}) \ {"PendingUpload"}
  BY DEF TypeInv, TypeOK, ApiTypeOK, RequestRecord, NoRequest, StoreTypeOK, PhotoRow
<1>2. photos'[p].state \in (PhotoState \cup {"deleted"}) \ {"PendingUpload", "absent"}
  BY <1>1 DEF PhotoState
<1>3. JobOnce'
  BY DEF JobOnce, JobsKept, OrderInv
<1>4. Reserved'
  BY <1>2 DEF Reserved, JobsKept, OrderInv
<1>5. Completing'
  <2> SUFFICES ASSUME NEW r \in Request, req'[r].kind = "complete"
               PROVE  /\ photos'[req'[r].photo].state \in {"PendingUpload", "deleted"}
                      /\ client'[req'[r].photo] \in {"uploading", "gone"}
                      /\ client'[req'[r].photo] = "gone" => req'[r].photo \in condemned'
                      /\ \A s \in Request \ {r} :
                            req'[s].kind = "complete" => req'[s].photo # req'[r].photo
    BY DEF Completing
  <2>1. req[r].kind = "complete" /\ req'[r].photo = req[r].photo /\ req[r].photo \in Photo
    BY <1>1 DEF ReqKept
  <2>2. photos'[req[r].photo].state = photos[req[r].photo].state \/ photos'[req[r].photo].state = "deleted"
    BY <2>1 DEF OrderInv, Completing
  <2> QED BY <2>1, <2>2 DEF OrderInv, Completing, ReqKept
<1>6. Ingesting'
  <2> SUFFICES ASSUME NEW r \in Request, req'[r].kind = "ingest"
               PROVE  /\ photos'[req'[r].photo].state # "PendingUpload"
                      /\ \A j \in Job : jobs'[j].photo # req'[r].photo
    BY DEF Ingesting
  <2>1. req[r].kind = "ingest" /\ req'[r].photo = req[r].photo /\ req[r].photo \in Photo
    BY <1>1 DEF ReqKept
  <2> QED BY <1>2, <2>1 DEF OrderInv, Ingesting, JobsKept, PhotoState
<1>7. SweepHolds'
  <2> SUFFICES ASSUME NEW o \in Photo \ condemned, o \in sweep'.todo \cup {sweep'.at}
               PROVE  photos'[o].state \in {"PendingUpload", "deleted"}
    BY DEF SweepHolds
  <2>1. photos[o].state \in {"PendingUpload", "deleted"}
    BY DEF SweepKept, OrderInv, SweepHolds
  <2> QED BY <2>1
<1> QED BY <1>3, <1>4, <1>5, <1>6, <1>7

LEMMA WorkedOrder ==
    ASSUME SysInv, NEW l \in Lane, NEW q, Worked(l, q),
           UNCHANGED <<client, condemned, req, sweep>>
    PROVE  OrderInv' /\ Follows
<1> USE DEF SysInv
<1> DEFINE p == lane[l].photo
           j == lane[l].job
<1>1. /\ photos \in [Photo -> PhotoRow] /\ jobs \in [Job -> JobRow]
      /\ lane \in [Lane -> LaneRecord \cup {IdleLane}]
  BY DEF TypeInv, TypeOK, StoreTypeOK, WorkerTypeOK
<1>2. /\ lane'[l] = q /\ \A m \in Lane \ {l} : lane'[m] = lane[m]
      /\ q.pc # "idle" => lane[l].pc # "idle" /\ q.job = j /\ q.photo = p
  BY <1>1 DEF Worked, Moves
<1>3. ReqKept /\ SweepKept
  BY DEF ReqKept, SweepKept
<1>4. JobsKept
  <2>1. CASE UNCHANGED jobs
    BY <2>1 DEF JobsKept
  <2>2. CASE GaveUp(l, q) /\ ~ UNCHANGED jobs
    <3>1. lane[l].pc # "idle" /\ Exists(p)
      BY <2>2 DEF GaveUp, InWork, WorkStep, HandlerStep
    <3>2. j \in Job /\ jobs[j].state \in JobState
      BY <3>1, LaneRow DEF TypeInv, Linked, Exists, PhotoState
    <3>3. jobs[j] \in [state : JobState, photo : Photo, attempts : Nat]
      BY <1>1, <3>2 DEF JobRow, NoJobRow, JobState
    <3>4. PICK s, a : jobs' = [jobs EXCEPT ![j].state = s, ![j].attempts = a]
      BY <2>2 DEF GaveUp
    <3>5. \A i \in Job : jobs'[i].photo = jobs[i].photo
      <4>1. \A i \in Job \ {j} : jobs'[i] = jobs[i]
        BY <1>1, <3>4
      <4>2. jobs'[j] = [jobs[j] EXCEPT !.state = s, !.attempts = a]
        BY <1>1, <3>2, <3>4
      <4>3. jobs'[j].photo = jobs[j].photo
        BY <3>3, <4>2
      <4> QED BY <4>1, <4>3
    <3> QED BY <3>5 DEF JobsKept
  <2> QED BY <2>1, <2>2 DEF Worked, Kept, Finished
<1>5. CASE UNCHANGED photos
  <2>1. (JobOnce /\ Reserved /\ Completing /\ Ingesting /\ SweepHolds)'
    <3>1. JobOnce'
      BY <1>4 DEF OrderInv, JobOnce, JobsKept
    <3>2. Reserved'
      BY <1>4, <1>5 DEF OrderInv, Reserved, JobsKept
    <3>3. Completing' /\ SweepHolds'
      BY <1>5 DEF OrderInv, Completing, SweepHolds
    <3>4. Ingesting'
      <4>1. \A r \in Request : req[r].kind = "ingest" => req[r].photo \in Photo
        BY DEF TypeInv, TypeOK, ApiTypeOK, RequestRecord, NoRequest
      <4> QED BY <1>4, <1>5, <4>1 DEF OrderInv, Ingesting, JobsKept
    <3> QED BY <3>1, <3>2, <3>3, <3>4
  <2>2. HandlerOpen'
    <3> SUFFICES ASSUME NEW m \in Lane, lane'[m].pc \in HandlerStep, lane'[m].read.state # "Processing"
                 PROVE  photos'[lane'[m].photo].state # "Ready"
      BY DEF HandlerOpen
    <3>1. CASE m # l
      BY <1>2, <1>5, <3>1 DEF OrderInv, HandlerOpen
    <3>2. CASE m = l
      <4>1. q.pc # "idle" /\ q.photo = p
        BY <1>2, <3>2 DEF HandlerStep
      <4>2. \/ InHandler(l) /\ lane[l].read.state # "Processing"
            \/ photos[p].state \in Processable
        BY <1>2, <3>2 DEF Worked
      <4>3. lane[l].pc \in Step /\ lane[l].pc # "idle"
        BY <1>1, <1>2, <4>1 DEF LaneRecord, IdleLane, Step
      <4> QED BY <1>2, <1>5, <3>2, <4>1, <4>2, <4>3, HandlerLane DEF OrderInv, HandlerOpen, Processable
    <3> QED BY <3>1, <3>2
  <2>3. Follows
    BY <1>5, StaysFollows
  <2> QED BY <2>1, <2>2, <2>3 DEF OrderInv
<1>6. CASE ~ UNCHANGED photos
  <2>1. PICK row \in PhotoRow :
          /\ Exists(p)
          /\ photos' = [photos EXCEPT ![p] = row]
          /\ \/ row.state \in {photos[p].state, "Failed"}
             \/ InHandler(l) /\ row.state = "Ready"
             \/ InHandler(l) /\ row.state = "Processing" /\ lane[l].read.state # "Processing"
    BY <1>6 DEF Worked, Wrote
  <2>2. lane[l].pc # "idle" /\ lane[l] \in LaneRecord
    <3>1. lane[l].pc = "idle" => p = NoPhoto
      BY <1>1 DEF IdleLane, LaneRecord
    <3>2. p \notin Photo => UNCHANGED photos
      BY <1>1, <2>1
    <3> QED BY <1>1, <1>6, <3>1, <3>2 DEF IdleLane
  <2>3. /\ p \in Photo /\ j \in Job /\ photos[p].state \in PhotoState \ {"PendingUpload"}
        /\ jobs[j].photo = p
    BY <2>1, <2>2, LaneRow DEF Exists, PhotoState
  <2>4. /\ \A o \in Photo \ {p} : photos'[o].state = photos[o].state
        /\ photos'[p] = row
    BY <1>1, <2>1, <2>3
  <2>5. InHandler(l) => lane[l].pc \in HandlerStep /\ InWork(l)
    BY <2>2, HandlerLane DEF LaneRecord, InWork, WorkStep
  <2>6. \/ row.state \in {photos[p].state, "Ready", "Failed"}
        \/ row.state = "Processing" /\ photos[p].state # "Ready"
    BY <2>1, <2>5 DEF OrderInv, HandlerOpen
  <2>7. Follows
    BY <2>3, <2>4, <2>6, WorkFollows
  <2>8. (JobOnce /\ Reserved /\ Completing /\ Ingesting /\ SweepHolds)'
    <3>1. row.state \in PhotoState \ {"PendingUpload"} /\ photos[p].state # "deleted"
      BY <2>3, <2>6 DEF PhotoState
    <3> QED BY <1>3, <1>4, <2>3, <2>4, <3>1, RowOrder DEF PhotoState
  <2>9. HandlerOpen'
    <3> SUFFICES ASSUME NEW m \in Lane, lane'[m].pc \in HandlerStep, lane'[m].read.state # "Processing"
                 PROVE  photos'[lane'[m].photo].state # "Ready"
      BY DEF HandlerOpen
    <3>1. m # l
      BY <1>2, <1>6 DEF Worked
    <3>2. /\ lane'[m] = lane[m] /\ lane[m].pc # "idle" /\ InWork(m)
          /\ photos[lane[m].photo].state # "Ready"
      BY <1>2, <3>1 DEF OrderInv, HandlerOpen, HandlerStep, InWork, WorkStep
    <3>3. CASE lane[m].photo # p
      BY <2>4, <3>2, <3>3, LaneRow
    <3>4. CASE lane[m].photo = p
      <4>1. lane[m].job \in Job /\ jobs[lane[m].job].photo = p /\ p # NoPhoto
        BY <2>3, <3>2, <3>4, LaneRow DEF PhotoState
      <4>2. lane[m].job = j
        BY <2>3, <4>1 DEF OrderInv, JobOnce
      <4>3. ~ InWork(l)
        BY <3>1, <3>2, <4>2 DEF WorkInv, OneLanePerJob
      <4>4. row.state # "Ready"
        BY <2>1, <2>5, <3>2, <3>4, <4>3
      <4> QED BY <2>4, <3>2, <3>4, <4>4
    <3> QED BY <3>3, <3>4
  <2> QED BY <2>7, <2>8, <2>9 DEF OrderInv
<1> QED BY <1>5, <1>6

(* The queue and the rows are as they were. *)
LEMMA QuietOrder ==
    ASSUME TypeInv, OrderInv, JobsKept, ReqKept, SweepKept, UNCHANGED <<client, condemned>>,
           \A o \in Photo : photos'[o].state = photos[o].state
    PROVE  (JobOnce /\ Reserved /\ Completing /\ Ingesting /\ SweepHolds)' /\ Follows
<1>1. \A r \in Request : req[r].kind # "none" => req[r].photo \in Photo
  BY DEF TypeInv, TypeOK, ApiTypeOK, RequestRecord, NoRequest
<1>2. JobOnce'
  BY DEF OrderInv, JobOnce, JobsKept
<1>3. Reserved'
  BY DEF OrderInv, Reserved, JobsKept
<1>4. Completing'
  BY <1>1 DEF OrderInv, Completing, ReqKept
<1>5. Ingesting'
  BY <1>1 DEF OrderInv, Ingesting, JobsKept, ReqKept
<1>6. SweepHolds'
  BY DEF OrderInv, SweepHolds, SweepKept
<1> QED BY <1>2, <1>3, <1>4, <1>5, <1>6, StaysFollows

(* No lane moves, and no photo a lane works on becomes Ready. *)
LEMMA LanesStay ==
    ASSUME TypeInv, OrderInv, UNCHANGED lane,
           \A l \in Lane : lane[l].pc # "idle" =>
               \/ photos'[lane[l].photo].state = photos[lane[l].photo].state
               \/ photos'[lane[l].photo].state # "Ready"
    PROVE  HandlerOpen'
<1>1. \A l \in Lane : lane[l].pc \in HandlerStep => lane[l].pc # "idle"
  BY DEF HandlerStep
<1> QED BY <1>1 DEF OrderInv, HandlerOpen

(* Steps of the loop. *)
LEMMA LoopOrder ==
    ASSUME SysInv, Looping
    PROVE  OrderInv' /\ Follows
<1> USE DEF SysInv
<1>1. UNCHANGED <<photos, client, condemned, req, sweep>>
  BY DEF Looping, LoopStep, SkipBusyLane, EmptySlice, Claim, ClaimThrows, EndFill, LaneFreed,
       storeVars, apiVars, sweeperVars
<1>2. ReqKept /\ SweepKept
  BY <1>1 DEF ReqKept, SweepKept
<1>3. CASE \E l \in Lane : Claim(l)
  <2>1. PICK l \in Lane : Claim(l)
    BY <1>3
  <2> DEFINE j == Oldest(Slice(l))
  <2>2. JobsKept
    <3>1. j \in Job /\ jobs[j].state = "Queued"
      <4>1. j \in Slice(l)
        BY <2>1, OldestIn DEF Claim, Slice
      <4> QED BY <4>1 DEF Slice
    <3>2. jobs' = [i \in Job |->
                     IF i = j THEN [jobs[i] EXCEPT !.state = "Processing"]
                     ELSE IF i \in Dirty
                          THEN [jobs[i] EXCEPT !.state = task[i].state, !.attempts = task[i].attempts]
                          ELSE jobs[i]]
      BY <2>1 DEF Claim
    <3> HIDE DEF j
    <3>3. ASSUME NEW i \in Job
          PROVE  jobs'[i].photo = jobs[i].photo
      <4>1. jobs[i] \in JobRow
        BY DEF TypeInv, TypeOK, StoreTypeOK
      <4>2. CASE i = j
        <5>1. jobs'[i] = [jobs[i] EXCEPT !.state = "Processing"]
          BY <3>2, <4>2
        <5> QED BY <4>1, <5>1 DEF JobRow, NoJobRow
      <4>3. CASE i # j /\ i \in Dirty
        <5>1. jobs'[i] = [jobs[i] EXCEPT !.state = task[i].state, !.attempts = task[i].attempts]
          BY <3>2, <4>3
        <5> QED BY <4>1, <5>1 DEF JobRow, NoJobRow
      <4>4. CASE i # j /\ i \notin Dirty
        BY <3>2, <4>4
      <4> QED BY <4>2, <4>3, <4>4
    <3> QED BY <3>3 DEF JobsKept
  <2>3. PICK q : q.pc = "load" /\ lane' = [lane EXCEPT ![l] = q]
    <3> DEFINE q == [IdleLane EXCEPT !.pc = "load", !.job = j, !.photo = jobs[j].photo]
    <3>1. lane' = [lane EXCEPT ![l] = q]
      BY <2>1 DEF Claim
    <3> HIDE DEF j
    <3>2. q.pc = "load"
      BY DEF IdleLane
    <3> HIDE DEF q
    <3> QED BY <3>1, <3>2
  <2>4. \A m \in Lane : lane'[m].pc \in HandlerStep => lane'[m] = lane[m]
    <3>1. lane'[l].pc = "load" /\ \A m \in Lane \ {l} : lane'[m] = lane[m]
      BY <2>3 DEF TypeInv, TypeOK, WorkerTypeOK
    <3> QED BY <3>1 DEF HandlerStep
  <2>5. HandlerOpen'
    BY <1>1, <2>4 DEF OrderInv, HandlerOpen
  <2> QED BY <1>1, <1>2, <2>2, <2>5, QuietOrder DEF OrderInv
<1>4. CASE ~ \E l \in Lane : Claim(l)
  <2>1. UNCHANGED <<jobs, lane>>
    BY <1>4 DEF Looping, LoopStep, SkipBusyLane, EmptySlice, ClaimThrows, EndFill, LaneFreed, storeVars
  <2> QED BY <1>1, <1>2, <2>1, QuietOrder, LanesStay DEF OrderInv, JobsKept
<1> QED BY <1>3, <1>4

LEMMA CrashOrder ==
    ASSUME SysInv, Crashing
    PROVE  OrderInv' /\ Follows
<1> USE DEF SysInv
<1>1. /\ UNCHANGED <<photos, jobs, client, condemned, req>>
      /\ lane' = [l \in Lane |-> IdleLane] /\ sweep' = NoSweep
  BY DEF Crashing, WorkerCrash, apiVars
<1>2. ReqKept /\ SweepKept /\ JobsKept
  BY <1>1 DEF ReqKept, SweepKept, JobsKept, NoSweep
<1>3. HandlerOpen'
  BY <1>1 DEF HandlerOpen, IdleLane, HandlerStep
<1> QED BY <1>1, <1>2, <1>3, QuietOrder DEF OrderInv

-----------------------------------------------------------------------------
(* A row is removed, with its jobs.                                        *)

LEMMA RemovedOrder ==
    ASSUME TypeInv, OrderInv, NEW p \in Photo, Exists(p), RemovePhoto(p), ReqKept, SweepKept,
           UNCHANGED <<client, condemned, lane>>,
           p \in condemned \/ photos[p].state = "PendingUpload"
    PROVE  OrderInv' /\ Follows
<1>1. /\ photos' = [photos EXCEPT ![p] = NoRow("deleted")]
      /\ jobs' = [j \in Job |-> IF jobs[j].photo = p THEN NoJobRow("removed") ELSE jobs[j]]
  BY DEF RemovePhoto
<1>2. /\ photos'[p].state = "deleted"
      /\ \A o \in Photo \ {p} : photos'[o].state = photos[o].state
  BY <1>1 DEF NoRow, TypeInv, TypeOK, StoreTypeOK
<1>3. JobsKept
  BY <1>1 DEF JobsKept, NoJobRow
<1>4. \A r \in Request : req[r].kind # "none" => req[r].photo \in Photo
  BY DEF TypeInv, TypeOK, ApiTypeOK, RequestRecord, NoRequest
<1>5. JobOnce'
  BY <1>3 DEF OrderInv, JobOnce, JobsKept
<1>6. Reserved'
  BY <1>2, <1>3 DEF OrderInv, Reserved, JobsKept
<1>7. Completing'
  <2>1. \A o \in Photo : photos'[o].state \in {photos[o].state, "deleted"}
    BY <1>2
  <2> QED BY <1>4, <2>1 DEF OrderInv, Completing, ReqKept
<1>8. Ingesting'
  BY <1>2, <1>3, <1>4 DEF OrderInv, Ingesting, JobsKept, ReqKept
<1>9. SweepHolds'
  BY <1>2 DEF OrderInv, SweepHolds, SweepKept
<1>10. HandlerOpen'
  <2>1. \A l \in Lane : lane[l].pc # "idle" => lane[l].photo \in Photo
    BY LaneRow
  <2> QED BY <1>2, <2>1, LanesStay
<1>11. Follows
  <2>1. /\ PhaseOf(photos'[p].state) = "removed"
        /\ PhaseOf(photos[p].state) \in {"reserved", "working", "ready", "failed"}
        /\ photos[p].state = "PendingUpload" => PhaseOf(photos[p].state) = "reserved"
    BY <1>2, PhaseIs DEF Exists, PhotoState
  <2>2. CASE p \in condemned
    <3>1. PhaseOf(photos[p].state) \in Lifecycle!Phase \ {"none", "removed"}
      BY <2>1 DEF Lifecycle!Phase
    <3>2. Lifecycle!Remove(p)
      BY <1>2, <2>1, <2>2, <3>1, Moved DEF Lifecycle!Remove
    <3> QED BY <3>2 DEF Follows, Lifecycle!Next
  <2>3. CASE photos[p].state = "PendingUpload"
    <3>1. Lifecycle!Expire(p)
      BY <1>2, <2>1, <2>3, Moved DEF Lifecycle!Expire
    <3> QED BY <3>1 DEF Follows, Lifecycle!Next
  <2> QED BY <2>2, <2>3
<1> QED BY <1>5, <1>6, <1>7, <1>8, <1>9, <1>10, <1>11 DEF OrderInv

LEMMA SweepOrder ==
    ASSUME Orderly, SysInv, Sweeping
    PROVE  OrderInv' /\ Follows
<1> USE DEF SysInv
<1>1. UNCHANGED <<client, condemned, req, lane>> /\ ReqKept
  BY DEF Sweeping, SweeperNext, SweepList, SweepRow, SweepBlob, storeVars, apiVars, workerVars, ReqKept
<1>2. CASE SweepList
  <2>1. UNCHANGED <<photos, jobs>> /\ sweep = NoSweep
    BY <1>2 DEF SweepList, storeVars
  <2>2. sweep'.todo = {p \in Photo : Stale(p)} /\ sweep'.at = NoPhoto
    BY <1>2 DEF SweepList, NoSweep
  <2>3. SweepHolds'
    BY <2>1, <2>2 DEF SweepHolds, Stale
  <2>4. (JobOnce /\ Reserved /\ Completing /\ Ingesting /\ HandlerOpen)' /\ Follows
    BY <1>1, <2>1, StaysFollows DEF OrderInv, JobOnce, Reserved, Completing, Ingesting, HandlerOpen
  <2> QED BY <2>3, <2>4 DEF OrderInv
<1>3. CASE \E p \in Photo : SweepBlob(p)
  <2>1. UNCHANGED <<photos, jobs>> /\ SweepKept
    BY <1>3 DEF SweepBlob, SweepKept
  <2> QED BY <1>1, <2>1, QuietOrder, LanesStay DEF OrderInv, JobsKept
<1>4. CASE SweepRow
  <2> DEFINE p == sweep.at
  <2>1. p \in Photo /\ SweepKept
    BY <1>4 DEF SweepRow, SweepKept, NoSweep, TypeInv, TypeOK, SweeperTypeOK
  <2>2. CASE Exists(p)
    <3>1. p \in condemned \/ photos[p].state = "PendingUpload"
      BY <2>1, <2>2 DEF OrderInv, SweepHolds, Exists, PhotoState
    <3>2. RemovePhoto(p)
      BY <1>4, <2>2 DEF SweepRow
    <3> QED BY <1>1, <2>1, <2>2, <3>1, <3>2, RemovedOrder
  <2>3. CASE ~ Exists(p)
    <3>1. UNCHANGED <<photos, jobs>>
      BY <1>4, <2>3 DEF SweepRow
    <3> QED BY <1>1, <2>1, <3>1, QuietOrder, LanesStay DEF OrderInv, JobsKept
  <2> QED BY <2>2, <2>3
<1> QED BY <1>2, <1>3, <1>4 DEF Sweeping, SweeperNext

-----------------------------------------------------------------------------
(* The requests.                                                           *)

LEMMA Owned ==
    ASSUME TypeInv
    PROVE  /\ \A r \in Request : req[r].kind # "none" => req[r].photo \in Photo /\ req[r].kind \in Operation
           /\ \A r \in Request : req[r].kind = "none" \/ req[r].pc # "idle"
BY DEF TypeInv, TypeOK, ApiTypeOK, RequestRecord, NoRequest

(* A handler that goes on keeps its kind and its photo, and one that       *)
(* returns gives its slot back.                                            *)
LEMMA SlotKept ==
    ASSUME TypeInv, NEW r \in Request,
           \/ Return(r)
           \/ \E pc, todo : Goto(r, pc, todo)
    PROVE  /\ ReqKept
           /\ \A s \in Request \ {r} : req'[s] = req[s]
           /\ Return(r) => req'[r].kind = "none"
<1>1. /\ req \in [Request -> RequestRecord \cup {NoRequest}]
  BY DEF TypeInv, TypeOK, ApiTypeOK
<1>2. CASE Return(r)
  BY <1>1, <1>2 DEF Return, ReqKept, NoRequest
<1>3. CASE \E pc, todo : Goto(r, pc, todo)
  <2>1. PICK pc, todo : req' = [req EXCEPT ![r].pc = pc, ![r].todo = todo]
    BY <1>3 DEF Goto
  <2>2. req[r] \in RequestRecord \/ req[r] = NoRequest
    BY <1>1
  <2>3. [req[r] EXCEPT !.pc = pc, !.todo = todo].kind = req[r].kind
    BY <2>2 DEF RequestRecord, NoRequest
  <2>4. [req[r] EXCEPT !.pc = pc, !.todo = todo].photo = req[r].photo
    BY <2>2 DEF RequestRecord, NoRequest
  <2>5. /\ req'[r] = [req[r] EXCEPT !.pc = pc, !.todo = todo]
        /\ \A s \in Request \ {r} : req'[s] = req[s]
    BY <1>1, <2>1
  <2>6. req'[r].kind = req[r].kind /\ req'[r].photo = req[r].photo
    BY <2>3, <2>4, <2>5
  <2>7. ReqKept
    BY <2>5, <2>6 DEF ReqKept
  <2> QED BY <1>2, <2>5, <2>7
<1> QED BY <1>2, <1>3

(* The save of a complete: the reservation is confirmed, with its job. *)
LEMMA CompleteOrder ==
    ASSUME Orderly, SysInv, NEW r \in Request, CompleteSave(r), UNCHANGED <<lane, sweep>>
    PROVE  OrderInv' /\ Follows
<1> USE DEF SysInv
<1> DEFINE p == req[r].photo
<1>1. /\ req[r].kind = "complete" /\ p \in Photo /\ Return(r) /\ UNCHANGED condemned
      /\ SweepKept
  BY Owned DEF CompleteSave, At, storeVars, SweepKept
<1>2. ReqKept /\ req'[r].kind = "none" /\ \A s \in Request \ {r} : req'[s] = req[s]
  BY <1>1, SlotKept
<1>3. CASE ~ Exists(p)
  <2>1. UNCHANGED <<photos, jobs, client>>
    BY <1>3 DEF CompleteSave, storeVars
  <2> QED BY <1>1, <1>2, <2>1, QuietOrder, LanesStay DEF OrderInv, JobsKept
<1>4. CASE Exists(p)
  <2>1. /\ photos' = [photos EXCEPT ![p].state = "PendingProcessing"]
        /\ Enqueue(p)
        /\ client' = [client EXCEPT ![p] = IF @ = "uploading" THEN "acked" ELSE @]
    BY <1>4 DEF CompleteSave
  <2>2. /\ photos[p].state = "PendingUpload"
        /\ client[p] = "gone" => p \in condemned
        /\ \A s \in Request \ {r} : req[s].kind = "complete" => req[s].photo # p
    BY <1>1, <1>4 DEF OrderInv, Completing, Exists, PhotoState
  <2>3. /\ photos'[p].state = "PendingProcessing"
        /\ \A o \in Photo \ {p} : photos'[o].state = photos[o].state
        /\ \A o \in Photo \ {p} : client'[o] = client[o]
    BY <1>1, <2>1 DEF TypeInv, TypeOK, StoreTypeOK, PhotoRow
  <2>4. PICK j \in Job :
          /\ jobs'[j].photo = p /\ jobs[j].state = "absent"
          /\ \A i \in Job \ {j} : jobs'[i] = jobs[i]
    <3>1. PICK j \in Job : /\ jobs[j].state = "absent"
                           /\ jobs' = [jobs EXCEPT ![j] = [state |-> "Queued", photo |-> p, attempts |-> 0]]
      BY <2>1 DEF Enqueue
    <3> QED BY <3>1 DEF TypeInv, TypeOK, StoreTypeOK
  <2>5. \A i \in Job : jobs[i].photo # p
    BY <1>1, <2>2 DEF OrderInv, Reserved
  <2>6. JobOnce'
    BY <2>4, <2>5 DEF OrderInv, JobOnce
  <2>7. Reserved'
    BY <1>1, <2>3, <2>4 DEF OrderInv, Reserved
  <2>8. Completing'
    <3> SUFFICES ASSUME NEW s \in Request, req'[s].kind = "complete"
                 PROVE  /\ photos'[req'[s].photo].state \in {"PendingUpload", "deleted"}
                        /\ client'[req'[s].photo] \in {"uploading", "gone"}
                        /\ client'[req'[s].photo] = "gone" => req'[s].photo \in condemned'
                        /\ \A t \in Request \ {s} :
                              req'[t].kind = "complete" => req'[t].photo # req'[s].photo
      BY DEF Completing
    <3>1. s # r /\ req'[s] = req[s]
      BY <1>2
    <3>2. req[s].photo # p /\ req[s].photo \in Photo /\ req[s].kind = "complete"
      BY <2>2, <3>1, Owned
    <3>3. \A t \in Request \ {s} : req'[t].kind = "complete" => req[t].kind = "complete" /\ req'[t].photo = req[t].photo
      BY <1>2 DEF ReqKept
    <3> QED BY <1>1, <2>3, <3>1, <3>2, <3>3 DEF OrderInv, Completing
  <2>9. Ingesting'
    <3> SUFFICES ASSUME NEW s \in Request, req'[s].kind = "ingest"
                 PROVE  /\ photos'[req'[s].photo].state # "PendingUpload"
                        /\ \A i \in Job : jobs'[i].photo # req'[s].photo
      BY DEF Ingesting
    <3>1. req[s].kind = "ingest" /\ req'[s].photo = req[s].photo /\ req[s].photo \in Photo
      BY <1>2, Owned DEF ReqKept
    <3>2. req[s].photo # p
      BY <2>2, <3>1 DEF OrderInv, Ingesting
    <3> QED BY <2>3, <2>4, <3>1, <3>2 DEF OrderInv, Ingesting
  <2>10. HandlerOpen'
    <3>1. \A l \in Lane : lane[l].pc # "idle" => lane[l].photo \in Photo
      BY LaneRow
    <3> QED BY <1>1, <2>3, <3>1, LanesStay
  <2>11. SweepHolds'
    <3>1. p \in sweep.todo \cup {sweep.at} => p \in condemned
      BY <1>1, <2>2 DEF Orderly, KeptInv, SweepsGone
    <3> QED BY <1>1, <2>3, <3>1 DEF OrderInv, SweepHolds
  <2>12. Follows
    <3>1. PhaseOf(photos[p].state) = "reserved" /\ PhaseOf(photos'[p].state) = "working"
      BY <2>2, <2>3, PhaseIs
    <3>2. Lifecycle!Confirm(p)
      BY <1>1, <2>3, <3>1, Moved DEF Lifecycle!Confirm
    <3> QED BY <1>1, <3>2 DEF Follows, Lifecycle!Next
  <2> QED BY <2>6, <2>7, <2>8, <2>9, <2>10, <2>11, <2>12 DEF OrderInv
<1> QED BY <1>3, <1>4

(* An import inserts its row, and later finishes it. *)
LEMMA IngestOrder ==
    ASSUME SysInv, NEW r \in Request, IngestRow(r) \/ IngestReady(r), UNCHANGED <<lane, sweep>>
    PROVE  OrderInv' /\ Follows
<1> USE DEF SysInv
<1> DEFINE p == req[r].photo
<1>1. /\ req[r].kind = "ingest" /\ p \in Photo /\ UNCHANGED <<jobs, client, condemned>>
      /\ SweepKept /\ JobsKept
      /\ photos[p].state # "PendingUpload" /\ \A j \in Job : jobs[j].photo # p
  BY Owned DEF IngestRow, IngestReady, At, SweepKept, JobsKept, OrderInv, Ingesting
<1>2. ReqKept
  BY SlotKept DEF IngestRow, IngestReady
<1>3. CASE UNCHANGED photos
  BY <1>1, <1>2, <1>3, QuietOrder, LanesStay DEF OrderInv
<1>4. CASE IngestRow(r)
  <2>1. photos[p].state = "absent"
    BY <1>1, <1>4 DEF IngestRow, At, TypeInv, Minted, Inserting
  <2>2. /\ photos'[p].state = "Processing"
        /\ \A o \in Photo \ {p} : photos'[o].state = photos[o].state
    BY <1>1, <1>4 DEF IngestRow, TypeInv, TypeOK, StoreTypeOK, PhotoRow
  <2>3. JobOnce' /\ Reserved'
    BY <1>1, <2>2 DEF OrderInv, JobOnce, Reserved
  <2>4. Completing'
    <3>1. \A s \in Request : req[s].kind = "complete" => req[s].photo \in Photo \ {p}
      BY <2>1, Owned DEF OrderInv, Completing
    <3> QED BY <1>1, <1>2, <2>2, <3>1 DEF OrderInv, Completing, ReqKept
  <2>5. Ingesting'
    <3>1. \A s \in Request : req[s].kind = "ingest" => req[s].photo \in Photo
      BY Owned
    <3> QED BY <1>1, <1>2, <2>2, <3>1 DEF OrderInv, Ingesting, ReqKept
  <2>6. HandlerOpen'
    <3>1. \A l \in Lane : lane[l].pc # "idle" => lane[l].photo \in Photo
      BY LaneRow
    <3> QED BY <2>2, <3>1, LanesStay
  <2>7. SweepHolds'
    BY <1>1, <2>1, <2>2 DEF OrderInv, SweepHolds, SweepKept
  <2>8. Follows
    <3>1. PhaseOf(photos[p].state) = "none" /\ PhaseOf(photos'[p].state) = "working"
      BY <2>1, <2>2, PhaseIs
    <3>2. Lifecycle!Ingest(p)
      BY <1>1, <2>2, <3>1, Moved DEF Lifecycle!Ingest
    <3> QED BY <1>1, <3>2 DEF Follows, Lifecycle!Next
  <2> QED BY <2>3, <2>4, <2>5, <2>6, <2>7, <2>8 DEF OrderInv
<1>5. CASE IngestReady(r) /\ Exists(p)
  <2>1. /\ photos'[p].state = "Ready"
        /\ \A o \in Photo \ {p} : photos'[o].state = photos[o].state
    BY <1>1, <1>5 DEF IngestReady, TypeInv, TypeOK, StoreTypeOK, PhotoRow
  <2>2. photos[p].state \in PhotoState \ {"PendingUpload"}
    BY <1>1, <1>5 DEF Exists
  <2>3. (JobOnce /\ Reserved /\ Completing /\ Ingesting /\ SweepHolds)'
    BY <1>1, <1>2, <2>1, <2>2, RowOrder DEF PhotoState
  <2>4. HandlerOpen'
    <3>1. \A l \in Lane : lane[l].pc # "idle" =>
             lane[l].photo \in Photo /\ lane[l].photo # p
      BY <1>1, <2>2, LaneRow DEF PhotoState
    <3> QED BY <2>1, <3>1, LanesStay
  <2>5. Follows
    BY <1>1, <2>1, <2>2, WorkFollows
  <2> QED BY <2>3, <2>4, <2>5 DEF OrderInv
<1>6. IngestReady(r) /\ ~ Exists(p) => UNCHANGED photos
  BY DEF IngestReady
<1> QED BY <1>3, <1>4, <1>5, <1>6

(* The row a request was accepted to drop goes. *)
LEMMA DropOrder ==
    ASSUME Orderly, SysInv, NEW r \in Request, DeleteRow(r), UNCHANGED <<lane, sweep>>
    PROVE  OrderInv' /\ Follows
<1> USE DEF SysInv
<1> DEFINE p == req[r].photo
<1>1. /\ p \in Photo /\ p \in condemned /\ UNCHANGED <<client, condemned>>
      /\ SweepKept /\ ReqKept
  BY Owned, SlotKept DEF DeleteRow, SweepKept, Orderly, KeptInv, Asked
<1>2. CASE Exists(p)
  <2>1. RemovePhoto(p)
    BY <1>2 DEF DeleteRow
  <2> QED BY <1>1, <1>2, <2>1, RemovedOrder
<1>3. CASE ~ Exists(p)
  <2>1. UNCHANGED <<photos, jobs>>
    BY <1>3 DEF DeleteRow
  <2> QED BY <1>1, <2>1, QuietOrder, LanesStay DEF OrderInv, JobsKept
<1> QED BY <1>2, <1>3

LEMMA ServeOrder ==
    ASSUME Orderly, SysInv, NEW r \in Request, Serve(r) \/ Disconnect(r), UNCHANGED <<lane, sweep>>
    PROVE  OrderInv' /\ Follows
<1> USE DEF SysInv
<1>1. ~ ReprocessEnqueue(r)
  BY Owned DEF ReprocessEnqueue, At, Orderly
<1>2. CASE \/ CompleteExists(r) \/ AbortBlob(r) \/ DeleteList(r) \/ DeleteBlob(r) \/ DeleteVariants(r)
           \/ AttachFind(r) \/ AttachPut(r) \/ AttachAdd(r) \/ AttachFlag(r) \/ IngestPut(r)
           \/ IngestInsert(r) \/ Disconnect(r)
  <2>1. /\ UNCHANGED <<jobs, client, condemned>>
        /\ UNCHANGED photos \/ photos' = [photos EXCEPT ![req[r].photo].live = TRUE]
    BY <1>2 DEF CompleteExists, AbortBlob, DeleteList, DeleteBlob, DeleteVariants, AttachFind, AttachPut,
         AttachAdd, AttachFlag, IngestPut, IngestInsert, Disconnect, storeVars
  <2>2. Return(r) \/ \E pc, todo : Goto(r, pc, todo)
    BY <1>2 DEF CompleteExists, AbortBlob, DeleteList, DeleteBlob, DeleteVariants, AttachFind, AttachPut,
         AttachAdd, AttachFlag, IngestPut, IngestInsert, Disconnect
  <2>3. \A row \in PhotoRow : [row EXCEPT !.live = TRUE].state = row.state
    BY Zenon DEF PhotoRow
  <2>4. \A o \in Photo : photos'[o].state = photos[o].state
    <3>1. photos \in [Photo -> PhotoRow]
      BY DEF TypeInv, TypeOK, StoreTypeOK
    <3> DEFINE p == req[r].photo
    <3> HIDE DEF p
    <3>2. ASSUME NEW o \in Photo, photos' = [photos EXCEPT ![p].live = TRUE]
          PROVE  photos'[o] \in {photos[o], [photos[o] EXCEPT !.live = TRUE]}
      BY <3>1, <3>2
    <3> QED BY <2>1, <2>3, <3>1, <3>2 DEF p
  <2>5. ReqKept /\ SweepKept /\ JobsKept
    BY <2>1, <2>2, SlotKept DEF SweepKept, JobsKept
  <2>6. HandlerOpen'
    <3>1. \A l \in Lane : lane[l].pc # "idle" => lane[l].photo \in Photo
      BY LaneRow
    <3> QED BY <2>4, <3>1, LanesStay
  <2> QED BY <2>1, <2>4, <2>5, <2>6, QuietOrder DEF OrderInv
<1> QED BY <1>1, <1>2, CompleteOrder, IngestOrder, DropOrder DEF Serve

-----------------------------------------------------------------------------
(* The devices.                                                            *)

(* A device reserves an upload. *)
LEMMA TicketOrder ==
    ASSUME SysInv, NEW p \in Photo, CreateUploadTicket(p), UNCHANGED <<lane, sweep>>
    PROVE  OrderInv' /\ Follows
<1> USE DEF SysInv
<1>1. /\ UNCHANGED <<jobs, condemned, req>> /\ client[p] = "idle"
      /\ photos[p].state = "absent"
  BY DEF CreateUploadTicket, TypeInv, Minted
<1>2. /\ photos'[p].state = "PendingUpload"
      /\ \A o \in Photo \ {p} : photos'[o].state = photos[o].state
      /\ \A o \in Photo \ {p} : client'[o] = client[o]
  BY DEF CreateUploadTicket, TypeInv, TypeOK, StoreTypeOK, PhotoRow
<1>3. JobOnce' /\ Reserved'
  BY <1>1, <1>2 DEF OrderInv, JobOnce, Reserved
<1>4. Completing'
  <2>1. \A r \in Request : req[r].kind = "complete" => req[r].photo \in Photo \ {p}
    BY <1>1, Owned DEF OrderInv, Completing
  <2> QED BY <1>1, <1>2, <2>1 DEF OrderInv, Completing
<1>5. Ingesting'
  <2>1. \A r \in Request : req[r].kind = "ingest" => req[r].photo \in Photo \ {p}
    BY <1>1, Owned DEF TypeInv, Minted
  <2> QED BY <1>1, <1>2, <2>1 DEF OrderInv, Ingesting
<1>6. HandlerOpen'
  <2>1. \A l \in Lane : lane[l].pc # "idle" => lane[l].photo \in Photo
    BY LaneRow
  <2> QED BY <1>2, <2>1, LanesStay
<1>7. SweepHolds'
  BY <1>1, <1>2 DEF OrderInv, SweepHolds
<1>8. Follows
  <2>1. PhaseOf(photos[p].state) = "none" /\ PhaseOf(photos'[p].state) = "reserved"
    BY <1>1, <1>2, PhaseIs
  <2>2. Lifecycle!Reserve(p)
    BY <1>1, <1>2, <2>1, Moved DEF Lifecycle!Reserve
  <2> QED BY <2>2 DEF Follows, Lifecycle!Next
<1> QED BY <1>3, <1>4, <1>5, <1>6, <1>7, <1>8 DEF OrderInv

(* The device of p stops, or a request about p begins. *)
LEMMA BegunOrder ==
    ASSUME SysInv, NEW r \in Request, NEW p \in Photo,
           UNCHANGED <<photos, jobs, lane, sweep>>, condemned \subseteq condemned',
           \A s \in Request \ {r} : req'[s] = req[s],
           \A o \in Photo \ {p} : client'[o] = client[o],
           \/ client'[p] = client[p]
           \/ /\ client'[p] = "gone"
              /\ p \in condemned' \/ \A s \in Request : req[s].kind = "complete" => req[s].photo # p,
           \/ req'[r] = req[r]
           \/ req'[r].kind \notin {"complete", "ingest"}
           \/ /\ req'[r].kind = "complete" /\ req'[r].photo = p
              /\ photos[p].state = "PendingUpload" /\ client'[p] = "uploading"
              /\ \A s \in Request : req[s].kind = "complete" => req[s].photo # p
           \/ /\ req'[r].kind = "ingest" /\ req'[r].photo = p
              /\ photos[p].state = "absent"
    PROVE  OrderInv'
<1> USE DEF SysInv
<1>1. \A s \in Request : req[s].kind # "none" => req[s].photo \in Photo
  BY Owned
<1>2. JobOnce' /\ Reserved' /\ HandlerOpen'
  BY DEF OrderInv, JobOnce, Reserved, HandlerOpen
<1>3. SweepHolds'
  BY DEF OrderInv, SweepHolds
<1>4. Ingesting'
  <2> SUFFICES ASSUME NEW s \in Request, req'[s].kind = "ingest"
               PROVE  /\ photos'[req'[s].photo].state # "PendingUpload"
                      /\ \A j \in Job : jobs'[j].photo # req'[s].photo
    BY DEF Ingesting
  <2>1. CASE req'[s] = req[s]
    BY <2>1 DEF OrderInv, Ingesting
  <2>2. CASE req'[s] # req[s]
    <3>1. req'[s].photo = p /\ photos[p].state = "absent"
      BY <2>2
    <3> QED BY <3>1 DEF OrderInv, Reserved
  <2> QED BY <2>1, <2>2
<1>5. Completing'
  <2> SUFFICES ASSUME NEW s \in Request, req'[s].kind = "complete"
               PROVE  /\ photos'[req'[s].photo].state \in {"PendingUpload", "deleted"}
                      /\ client'[req'[s].photo] \in {"uploading", "gone"}
                      /\ client'[req'[s].photo] = "gone" => req'[s].photo \in condemned'
                      /\ \A t \in Request \ {s} :
                            req'[t].kind = "complete" => req'[t].photo # req'[s].photo
    BY DEF Completing
  <2>1. CASE req'[s] = req[s]
    <3>1. req[s].photo \in Photo /\ req[s].kind = "complete"
      BY <1>1, <2>1
    <3>2. \A t \in Request \ {s} : req'[t].kind = "complete" => req'[t].photo # req[s].photo
      BY <2>1, <3>1 DEF OrderInv, Completing
    <3>3. /\ client'[req[s].photo] \in {"uploading", "gone"}
          /\ client'[req[s].photo] = "gone" => req[s].photo \in condemned'
      BY <3>1 DEF OrderInv, Completing
    <3> QED BY <2>1, <3>1, <3>2, <3>3 DEF OrderInv, Completing
  <2>2. CASE req'[s] # req[s]
    <3>1. /\ s = r /\ req'[s].photo = p
          /\ photos[p].state = "PendingUpload" /\ client'[p] = "uploading"
          /\ \A t \in Request : req[t].kind = "complete" => req[t].photo # p
      BY <2>2
    <3> QED BY <3>1
  <2> QED BY <2>1, <2>2
<1> QED BY <1>2, <1>3, <1>4, <1>5 DEF OrderInv

(* A request begins in a free slot. *)
LEMMA BegunSlot ==
    ASSUME TypeInv, NEW r \in Request, NEW kind, NEW p, NEW pc, NEW todo, Begin(r, kind, p, pc, todo)
    PROVE  /\ req'[r].kind = kind /\ req'[r].photo = p /\ kind \in Operation
           /\ \A s \in Request \ {r} : req'[s] = req[s]
BY DEF Begin, TypeInv, TypeOK, ApiTypeOK

(* The owner of a photo that is there asks to drop it. *)
LEMMA CondemnFollows ==
    ASSUME NEW p \in Photo, photos[p].state \in PhotoState, UNCHANGED photos,
           condemned' = condemned \cup {p}
    PROVE  Follows
<1>1. PhaseOf(photos[p].state) \notin {"none", "removed"}
  BY PhaseIs DEF PhotoState
<1>2. UNCHANGED Phases
  BY DEF Phases
<1>3. Lifecycle!Condemn(p)
  BY <1>1, <1>2 DEF Lifecycle!Condemn, Phases
<1> QED BY <1>3 DEF Follows, Lifecycle!Next

LEMMA ArrivalOrder ==
    ASSUME Orderly, SysInv, Arrival, UNCHANGED <<lane, sweep>>
    PROVE  OrderInv' /\ Follows
<1> USE DEF SysInv
<1>1. CASE \E p \in Photo : CreateUploadTicket(p)
  BY <1>1, TicketOrder
<1>2. CASE \E p \in Photo : ClientPut(p)
  <2>1. UNCHANGED <<photos, jobs, client, condemned, req>>
    BY <1>2 DEF ClientPut
  <2>2. ReqKept /\ SweepKept /\ JobsKept
    BY <2>1 DEF ReqKept, SweepKept, JobsKept
  <2> QED BY <2>1, <2>2, QuietOrder, LanesStay DEF OrderInv
<1>3. CASE \E p \in Photo : ClientGone(p)
  <2>1. PICK p \in Photo : ClientGone(p)
    BY <1>3
  <2>2. /\ UNCHANGED <<photos, jobs, condemned, req>>
        /\ client' = [client EXCEPT ![p] = "gone"]
        /\ \A s \in Request : req[s].kind = "complete" => req[s].photo # p
    BY <2>1 DEF ClientGone, InFlight
  <2>3. client'[p] = "gone" /\ \A o \in Photo \ {p} : client'[o] = client[o]
    BY <2>2 DEF TypeInv, TypeOK, StoreTypeOK
  <2>4. JobOnce' /\ Reserved' /\ HandlerOpen' /\ SweepHolds' /\ Ingesting'
    BY <2>2 DEF OrderInv, JobOnce, Reserved, HandlerOpen, SweepHolds, Ingesting
  <2>5. Completing'
    <3>1. \A s \in Request : req[s].kind = "complete" => req[s].photo \in Photo \ {p}
      BY <2>2, Owned
    <3> QED BY <2>2, <2>3, <3>1 DEF OrderInv, Completing
  <2> QED BY <2>2, <2>4, <2>5, StaysFollows DEF OrderInv
<1>4. ASSUME NEW r \in Request, NEW p \in Photo, CompleteBegin(r, p)
      PROVE  OrderInv' /\ Follows
  <2>1. /\ UNCHANGED <<photos, jobs, client, condemned>>
        /\ client[p] = "uploading" /\ photos[p].state = "PendingUpload"
        /\ \A s \in Request : req[s].kind = "complete" => req[s].photo # p
    BY <1>4 DEF CompleteBegin, storeVars, Orderly, InFlight
  <2>2. /\ req'[r].kind = "complete" /\ req'[r].photo = p
        /\ \A s \in Request \ {r} : req'[s] = req[s]
    BY <1>4, BegunSlot DEF CompleteBegin
  <2> QED BY <2>1, <2>2, BegunOrder, StaysFollows
<1>5. ASSUME NEW r \in Request, NEW p \in Photo, AbortBegin(r, p)
      PROVE  OrderInv' /\ Follows
  <2>1. /\ UNCHANGED <<photos, jobs>> /\ photos[p].state = "PendingUpload"
        /\ condemned' = condemned \cup {p} /\ client' = [client EXCEPT ![p] = "gone"]
    BY <1>5 DEF AbortBegin
  <2>2. client'[p] = "gone" /\ \A o \in Photo \ {p} : client'[o] = client[o]
    BY <2>1 DEF TypeInv, TypeOK, StoreTypeOK
  <2>3. req'[r].kind = "abort" /\ \A s \in Request \ {r} : req'[s] = req[s]
    BY <1>5, BegunSlot DEF AbortBegin
  <2>4. OrderInv'
    BY <2>1, <2>2, <2>3, BegunOrder
  <2> QED BY <2>1, <2>4, CondemnFollows DEF PhotoState
<1>6. ASSUME NEW r \in Request, NEW p \in Photo, DeleteBegin(r, p)
      PROVE  OrderInv' /\ Follows
  <2>1. /\ UNCHANGED <<photos, jobs, client>> /\ Exists(p) /\ condemned' = condemned \cup {p}
    BY <1>6 DEF DeleteBegin
  <2>2. req'[r].kind = "delete" /\ \A s \in Request \ {r} : req'[s] = req[s]
    BY <1>6, BegunSlot DEF DeleteBegin
  <2>3. OrderInv'
    BY <2>1, <2>2, BegunOrder
  <2> QED BY <2>1, <2>3, CondemnFollows DEF Exists
<1>7. ASSUME NEW r \in Request, NEW p \in Photo, AttachBegin(r, p)
      PROVE  OrderInv' /\ Follows
  <2>1. UNCHANGED <<photos, jobs, client, condemned>>
    BY <1>7 DEF AttachBegin, storeVars
  <2>2. req'[r].kind = "attach" /\ \A s \in Request \ {r} : req'[s] = req[s]
    BY <1>7, BegunSlot DEF AttachBegin
  <2> QED BY <2>1, <2>2, BegunOrder, StaysFollows
<1>8. ASSUME NEW r \in Request, NEW p \in Photo, IngestBegin(r, p)
      PROVE  OrderInv' /\ Follows
  <2>1. /\ UNCHANGED <<photos, jobs, condemned>> /\ photos[p].state = "absent"
        /\ client' = [client EXCEPT ![p] = "gone"] /\ client[p] = "idle"
    BY <1>8 DEF IngestBegin, TypeInv, Minted
  <2>2. client'[p] = "gone" /\ \A o \in Photo \ {p} : client'[o] = client[o]
    BY <2>1 DEF TypeInv, TypeOK, StoreTypeOK
  <2>3. /\ req'[r].kind = "ingest" /\ req'[r].photo = p
        /\ \A s \in Request \ {r} : req'[s] = req[s]
    BY <1>8, BegunSlot DEF IngestBegin
  <2>4. \A s \in Request : req[s].kind = "complete" => req[s].photo # p
    BY <2>1 DEF OrderInv, Completing
  <2> QED BY <2>1, <2>2, <2>3, <2>4, BegunOrder, StaysFollows
<1>9. \A r \in Request, p \in Photo : ~ ReprocessBegin(r, p)
  BY DEF ReprocessBegin, Begin, Orderly
<1> QED BY <1>1, <1>2, <1>3, <1>4, <1>5, <1>6, <1>7, <1>8, <1>9 DEF Arrival

-----------------------------------------------------------------------------
(* The contract.                                                           *)

LEMMA InitOrder == Init => OrderInv /\ Lifecycle!Init
<1> SUFFICES ASSUME Init PROVE OrderInv /\ Lifecycle!Init
  OBVIOUS
<1>1. /\ \A p \in Photo : photos[p].state = "absent"
      /\ \A j \in Job : jobs[j].photo = NoPhoto
      /\ \A r \in Request : req[r].kind = "none"
      /\ \A l \in Lane : lane[l].pc = "idle"
      /\ sweep.todo = {} /\ sweep.at = NoPhoto /\ condemned = {}
  BY DEF Init, StoreInit, ApiInit, WorkerInit, SweeperInit, NoRow, NoJobRow, NoRequest, IdleLane, NoSweep
<1>2. OrderInv
  BY <1>1 DEF OrderInv, JobOnce, Reserved, Completing, Ingesting, HandlerOpen, SweepHolds, HandlerStep
<1>3. Lifecycle!Init
  BY <1>1, PhaseIs DEF Lifecycle!Init
<1> QED BY <1>2, <1>3

(* Every step maps to a step of the contract, or to none. *)
LEMMA NextOrder ==
    ASSUME Orderly, SysInv, [Next]_vars
    PROVE  OrderInv' /\ Follows
<1> USE DEF SysInv
<1>1. CASE ApiMoves
  <2>1. UNCHANGED <<lane, sweep>>
    BY <1>1 DEF ApiMoves, workerVars, sweeperVars
  <2> QED BY <1>1, <2>1, ArrivalOrder, ServeOrder DEF ApiMoves, ApiNext
<1>2. CASE Looping
  BY <1>2, LoopOrder
<1>3. CASE \E l \in Lane : Processing(l) \/ Failing(l)
  <2>1. PICK l \in Lane : Processing(l) \/ Failing(l)
    BY <1>3
  <2>2. UNCHANGED <<client, condemned, req, sweep>>
    BY <2>1, WorkerKeeps DEF Processing, Failing, apiVars, sweeperVars
  <2>3. PICK q : Worked(l, q)
    BY <2>1, LaneWorked DEF Processing, Failing
  <2> QED BY <2>2, <2>3, WorkedOrder
<1>4. CASE Crashing
  BY <1>4, CrashOrder
<1>5. CASE Sweeping
  BY <1>5, SweepOrder
<1>6. CASE UNCHANGED vars
  <2>1. UNCHANGED <<photos, jobs, client, condemned, req, lane, sweep>>
    BY <1>6 DEF vars, storeVars, apiVars, workerVars, sweeperVars
  <2>2. OrderInv'
    BY <2>1 DEF OrderInv, JobOnce, Reserved, Completing, Ingesting, HandlerOpen, SweepHolds
  <2> QED BY <2>1, <2>2, StaysFollows
<1> QED BY <1>1, <1>2, <1>3, <1>4, <1>5, <1>6 DEF Next

LEMMA NextSys ==
    ASSUME Orderly, SysInv, [Next]_vars
    PROVE  SysInv'
BY NextType, NextWork, NextKeeps, NextOrder DEF SysInv

(* The pipeline implements the contract PhotoLifecycle: whatever requests, *)
(* lanes, sweeper and mishaps interleave, a photo is reserved, confirmed,  *)
(* worked on, made ready or failed and removed only as the contract says,  *)
(* and a confirmed one is removed only on its owner's request.             *)
THEOREM Implements ==
    ASSUME Orderly
    PROVE  Spec => FollowsLifecycle
<1>1. Init => SysInv
  <2>1. Init => KeptInv
    BY PhotoAssumption DEF Init, StoreInit, ApiInit, SweeperInit, NoRequest, NoSweep, KeptInv, Asked, SweepsGone, AckedKept
  <2> QED BY <2>1, InitType, InitWork, InitOrder DEF SysInv
<1>2. SysInv /\ [Next]_vars => SysInv'
  BY NextSys
<1>3. SysInv /\ [Next]_vars => [Lifecycle!Next]_<<Phases, condemned>>
  BY NextOrder DEF Follows
<1>4. Init => Lifecycle!Init
  BY InitOrder
<1> QED BY <1>1, <1>2, <1>3, <1>4, PTL DEF Spec, FollowsLifecycle, Lifecycle!Spec, Phases
=============================================================================
