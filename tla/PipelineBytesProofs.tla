------------------------- MODULE PipelineBytesProofs -------------------------
(***************************************************************************)
(* What the storage still holds, for any number of photos, lanes, requests *)
(* and mishaps: the bytes of a confirmed photo, everything a photo that    *)
(* the gallery shows is made of, and what the sweeper leaves of a          *)
(* reservation.                                                            *)
(***************************************************************************)
EXTENDS PhotoPipelineProofs

USE PhotoAssumption, KindAssumption, BoundsAssumption, ApiAssumption, WorkerAssumption,
    SweeperAssumption

(* A complete that has seen the upload, or has been answered, has an
   original behind it. *)
Confirming(p) ==
    \/ client[p] = "acked"
    \/ client[p] = "uploading" /\ \E r \in Request : At(r, "complete", "save") /\ req[r].photo = p
HasOriginal(p) == \E b \in OriginalPath : <<p, b>> \in blobs
Stored == \A p \in Photo \ condemned : Confirming(p) => HasOriginal(p)

(* A lane points its photo at the saver's original only once that is
   written, and drops the uploaded one only then. *)
Repoints(l) == lane[l].mem.path # lane[l].read.path
SaverWritten(l) ==
    /\ lane[l].pc \in {"open", "clear", "saverPut"} => ~ Repoints(l)
    /\ lane[l].pc = "saverPut" => lane[l].mem.path = "upload"
    /\ lane[l].pc = "saverDrop" => Repoints(l)
    /\ (Repoints(l) /\ lane[l].photo \notin condemned) =>
          lane[l].mem.path = "saver" /\ <<lane[l].photo, "saver">> \in blobs

Sent == \A r \in Request : req[r].kind = "complete" => client[req[r].photo] # "idle"

BytesInv == Stored /\ Sent /\ \A l \in Lane : SaverWritten(l)

(* The object that a photo's row calls its original is there. *)
Sound(p) == <<p, photos[p].path>> \in blobs

(* How far the handler has come, for a photo nobody asked to delete. *)
Opening == {"open", "clear", "saverPut", "saverDrop", "addOriginal"}
Derived == {"putPreview", "addPreview", "putThumbnail", "addThumbnail", "publish"}
Built(l) ==
    LET p == lane[l].photo
        pc == lane[l].pc
    IN  /\ pc = "open" => photos[p].path = lane[l].read.path \/ Sound(p)
        /\ pc \in {"clear", "saverPut"} => Sound(p)
        /\ pc = "addOriginal" => Repoints(l) \/ Sound(p)
        /\ pc \in Derived => Sound(p) /\ "original" \in variants[p]
        /\ pc \in Derived \ {"putPreview"} => <<p, "preview">> \in blobs
        /\ pc \in Derived \ {"putPreview", "addPreview"} => "preview" \in variants[p]
        /\ pc \in {"addThumbnail", "publish"} => <<p, "thumbnail">> \in blobs
        /\ pc = "publish" => "thumbnail" \in variants[p]
LaneBuilds ==
    \A l \in Lane :
        /\ lane[l].pc \in Opening => lane[l].read.state # "Processing"
        /\ (lane[l].pc # "idle" /\ lane[l].photo \notin condemned /\ Exists(lane[l].photo)) => Built(l)

(* How far an import has come. *)
Uploaded == {"upload", "preview", "thumbnail"}
Imported(r) ==
    LET p == req[r].photo IN
    /\ req[r].pc = "put" => \A b \in Uploaded \ req[r].todo : <<p, b>> \in blobs
    /\ req[r].pc = "row" => \A b \in Uploaded : <<p, b>> \in blobs
    /\ (req[r].pc \in {"insert", "ready"} /\ Exists(p)) =>
          /\ Sound(p) /\ <<p, "preview">> \in blobs /\ <<p, "thumbnail">> \in blobs
          /\ req[r].pc = "insert" => Ingested \ req[r].todo \subseteq variants[p]
          /\ req[r].pc = "ready" => Ingested \subseteq variants[p]
ImportBuilds ==
    \A r \in Request :
        req[r].kind = "ingest" =>
            /\ req[r].pc \in {"put", "row", "insert", "ready"}
            /\ req[r].pc \in {"insert", "ready"} => photos[req[r].photo].state # "absent"
            /\ req[r].photo \notin condemned => Imported(r)

(* An id without a row yet has the path its upload will get. *)
Unmoved == \A p \in Photo : photos[p].state = "absent" => photos[p].path = "upload"

(* ReadyServable for one photo. *)
Servable(p) ==
    Sound(p) /\ Ingested \subseteq variants[p] /\ <<p, "preview">> \in blobs /\ <<p, "thumbnail">> \in blobs
Shown == \A p \in Photo \ condemned : photos[p].state = "Ready" => Servable(p)

BuildInv == LaneBuilds /\ ImportBuilds /\ Unmoved /\ Shown

-----------------------------------------------------------------------------
(* How a lane goes on.                                                     *)

Same(l) == lane'[l].read = lane[l].read /\ lane'[l].mem = lane[l].mem

LEMMA GoesTo ==
    ASSUME TypeInv, NEW l \in Lane, Working(l), NEW pc, lane' = [lane EXCEPT ![l].pc = pc]
    PROVE  lane'[l].pc = pc /\ Same(l)
<1>1. lane'[l] = [lane[l] EXCEPT !.pc = pc]
  BY DEF TypeInv, TypeOK, WorkerTypeOK
<1> QED BY <1>1 DEF Working, LaneRecord, Same

LEMMA LoadsTo ==
    ASSUME TypeInv, NEW l \in Lane, Working(l), LoadPhoto(l)
    PROVE  \/ Free(l)
           \/ /\ lane'[l].pc = "open"
              /\ lane'[l].read.path = photos[lane[l].photo].path
              /\ lane'[l].mem.path = lane'[l].read.path
              /\ lane'[l].read.state \in Processable
<1> DEFINE row == photos[lane[l].photo]
           read == [state |-> row.state, path |-> row.path]
           mem == [read EXCEPT !.state = "Processing"]
<1>1. CASE /\ lane' = [lane EXCEPT ![l].pc = "open", ![l].read = read, ![l].mem = mem]
           /\ row.state \in Processable
  <2>1. read.path = row.path /\ mem.path = row.path /\ read.state = row.state
    OBVIOUS
  <2> HIDE DEF read, mem
  <2>2. lane'[l] = [lane[l] EXCEPT !.pc = "open", !.read = read, !.mem = mem]
    BY <1>1 DEF TypeInv, TypeOK, WorkerTypeOK
  <2>3. lane'[l].pc = "open" /\ lane'[l].read = read /\ lane'[l].mem = mem
    BY <2>2 DEF Working, LaneRecord
  <2> QED BY <1>1, <2>1, <2>3
<1> QED BY <1>1 DEF LoadPhoto

LEMMA SaverTo ==
    ASSUME TypeInv, NEW l \in Lane, Working(l), SaverPut(l)
    PROVE  /\ lane'[l].pc = "saverDrop"
           /\ lane'[l].read = lane[l].read /\ lane'[l].mem.path = "saver"
<1> DEFINE mem == [lane[l].mem EXCEPT !.path = "saver"]
<1>1. mem.path = "saver"
  BY DEF Working, LaneRecord, Copy
<1>2. lane'[l] = [lane[l] EXCEPT !.pc = "saverDrop", !.mem = mem]
  BY DEF SaverPut, Working, LaneRecord, TypeInv, TypeOK, WorkerTypeOK
<1> HIDE DEF mem
<1> QED BY <1>1, <1>2 DEF Working, LaneRecord

LEMMA CatchTo ==
    ASSUME TypeInv, NEW l \in Lane, Working(l), NEW added, Catch(l, added)
    PROVE  /\ lane'[l].pc = "failsave"
           /\ lane'[l].read = lane[l].read /\ lane'[l].mem.path = lane[l].mem.path
<1> DEFINE mem == [lane[l].mem EXCEPT !.state = "Failed"]
<1>1. mem.path = lane[l].mem.path
  BY DEF Working, LaneRecord, Copy
<1>2. lane'[l] = [lane[l] EXCEPT !.pc = "failsave", !.mem = mem, !.added = added]
  BY DEF Catch, Working, LaneRecord, TypeInv, TypeOK, WorkerTypeOK
<1> HIDE DEF mem
<1> QED BY <1>1, <1>2 DEF Working, LaneRecord

LEMMA SavesTo ==
    ASSUME TypeInv, NEW l \in Lane, Working(l), NEW pc,
           lane' = [lane EXCEPT ![l].pc = pc, ![l].read = lane[l].mem]
    PROVE  lane'[l].pc = pc /\ lane'[l].read = lane[l].mem /\ lane'[l].mem = lane[l].mem
<1>1. PICK old \in LaneRecord : old = lane[l]
  BY DEF Working
<1>2. PICK mem : mem = old.mem
  OBVIOUS
<1>3. lane'[l] = [old EXCEPT !.pc = pc, !.read = mem]
  BY <1>1, <1>2, SMTT(30) DEF TypeInv, TypeOK, WorkerTypeOK
<1>4. PICK new : new = lane'[l]
  OBVIOUS
<1>5. new.pc = pc /\ new.read = mem /\ new.mem = old.mem
  BY <1>3, <1>4, SMTT(30) DEF LaneRecord
<1> QED BY <1>1, <1>2, <1>4, <1>5

LEMMA TimesOutTo ==
    ASSUME TypeInv, NEW l \in Lane, Working(l),
           \/ Timeout(l) /\ ~ Free(l)
           \/ TimeoutLoad(l) /\ ~ Free(l)
    PROVE  lane'[l].pc = "timedout" /\ lane'[l].mem = lane'[l].read
<1>1. CASE \E mem : lane' = [lane EXCEPT ![l].pc = "timedout", ![l].read = mem, ![l].mem = mem]
  <2>1. PICK mem : lane' = [lane EXCEPT ![l].pc = "timedout", ![l].read = mem, ![l].mem = mem]
    BY <1>1
  <2>2. lane'[l] = [lane[l] EXCEPT !.pc = "timedout", !.read = mem, !.mem = mem]
    BY <2>1 DEF Working, LaneRecord, TypeInv, TypeOK, WorkerTypeOK
  <2> QED BY <2>2 DEF Working, LaneRecord
<1>2. CASE lane[l].pc = "timedout" /\ \E mem : lane' = [lane EXCEPT ![l].read = mem, ![l].mem = mem]
  <2>1. PICK mem : lane' = [lane EXCEPT ![l].read = mem, ![l].mem = mem]
    BY <1>2
  <2>2. lane'[l] = [lane[l] EXCEPT !.read = mem, !.mem = mem]
    BY <2>1 DEF Working, LaneRecord, TypeInv, TypeOK, WorkerTypeOK
  <2> QED BY <1>2, <2>2 DEF Working, LaneRecord
<1> QED BY <1>1, <1>2 DEF Timeout, TimeoutSave, TimeoutLoad

(* The others stay, and it keeps its photo as long as it is busy. *)
LEMMA LaneStays ==
    ASSUME TypeInv, WorkInv, NEW l \in Lane, LaneStep(l) \/ LaneMishap(l)
    PROVE  /\ Working(l) /\ \A m \in Lane \ {l} : lane'[m] = lane[m]
           /\ lane'[l] = IdleLane \/ (lane'[l].photo = lane[l].photo /\ lane'[l] \in LaneRecord)
           /\ Free(l) => lane'[l] = IdleLane
<1>1. Working(l)
  BY WorkingLane DEF LaneStep, LaneMishap, LoadPhoto, OpenOriginal, ClearVariants, SaverPut, SaverDrop, AddOriginal,
       PutPreview, AddPreview, PutThumbnail, AddThumbnail, AddVariant, PutDerived, Publish, FailSave,
       TimeoutLoad, TimeoutMark, StepFails, Timeout, TimeoutLate
<1>2. PICK q : Worked(l, q)
  BY LaneWorked
<1>3. /\ lane' = [lane EXCEPT ![l] = q]
      /\ q \in LaneRecord \cup {IdleLane}
      /\ q.pc # "idle" => q.photo = lane[l].photo
  BY <1>2 DEF Worked, Moves
<1>4. lane'[l] = q /\ \A m \in Lane \ {l} : lane'[m] = lane[m]
  BY <1>3 DEF TypeInv, TypeOK, WorkerTypeOK
<1>5. Free(l) => lane'[l] = IdleLane
  BY DEF Free, TypeInv, TypeOK, WorkerTypeOK
<1>6. q \in LaneRecord => q.pc # "idle"
  BY DEF LaneRecord
<1>7. lane'[l] = IdleLane \/ (lane'[l].photo = lane[l].photo /\ lane'[l] \in LaneRecord)
  BY <1>3, <1>4, <1>6
<1> QED BY SMTT(30), <1>1, <1>4, <1>5, <1>7

-----------------------------------------------------------------------------
(* The bytes of a confirmed photo.                                         *)

SaverKept ==
    /\ condemned \subseteq condemned'
    /\ \A o \in Photo \ condemned' : <<o, "saver">> \in blobs => <<o, "saver">> \in blobs'
BlobsKept ==
    /\ condemned \subseteq condemned'
    /\ \A o \in Photo \ condemned', b \in BlobName : <<o, b>> \in blobs => <<o, b>> \in blobs'

LEMMA KeptSaver ==
    ASSUME BlobsKept
    PROVE  /\ SaverKept
           /\ \A o \in Photo \ condemned' : HasOriginal(o) => HasOriginal(o)'
BY DEF BlobsKept, SaverKept, BlobName, OriginalPath, HasOriginal

LEMMA WrittenStays ==
    ASSUME TypeInv, SaverKept, NEW l \in Lane, lane'[l] = lane[l], SaverWritten(l)
    PROVE  SaverWritten(l)'
<1>1. lane[l] = IdleLane => ~ Repoints(l)
  BY DEF IdleLane, NoCopy, Repoints
<1>2. lane[l] = IdleLane \/ lane[l].photo \in Photo
  BY DEF TypeInv, TypeOK, WorkerTypeOK, LaneRecord
<1> QED BY <1>1, <1>2 DEF SaverWritten, Repoints, SaverKept

(* The lane's own step. *)
LEMMA LaneWrites ==
    ASSUME TypeInv, WorkInv, NEW l \in Lane, SaverWritten(l), LaneStep(l) \/ LaneMishap(l)
    PROVE  SaverWritten(l)' /\ SaverKept /\ (SaverDrop(l) \/ BlobsKept)
<1> DEFINE p == lane[l].photo
<1>1. /\ Working(l) /\ UNCHANGED condemned
      /\ lane'[l] = IdleLane \/ lane'[l].photo = p
      /\ Free(l) => lane'[l] = IdleLane
  BY LaneStays, WorkerKeeps
<1>2. SaverDrop(l) => blobs' = blobs \ {<<p, "upload">>}
  BY DEF SaverDrop, DropBlob
<1>3. blobs \subseteq blobs' \/ SaverDrop(l)
  BY DEF LaneStep, LaneMishap, LoadPhoto, OpenOriginal, ClearVariants, SaverPut, AddOriginal,
       PutPreview, AddPreview, PutThumbnail, AddThumbnail, AddVariant, PutDerived, Publish, FailSave,
       TimeoutLoad, TimeoutMark, StepFails, Timeout, TimeoutSave, TimeoutLate, storeVars, PutBlob
<1>4. SaverKept /\ (SaverDrop(l) \/ BlobsKept)
  BY <1>1, <1>2, <1>3 DEF SaverKept, BlobsKept
<1> SUFFICES SaverWritten(l)'
  BY <1>4
<1>5. <<p, "saver">> \in blobs /\ p \notin condemned => <<p, "saver">> \in blobs'
  BY <1>1, <1>4 DEF SaverKept, Working
<1>6. lane'[l].pc = "idle" \/ lane'[l].pc \in Step
  BY LaneStays DEF LaneRecord, IdleLane
<1>7. CASE lane'[l] = IdleLane
  <2>1. lane'[l].pc = "idle" /\ lane'[l].mem = lane'[l].read
    BY <1>7 DEF IdleLane
  <2> QED BY <2>1 DEF SaverWritten, Repoints
<1> USE DEF SaverWritten, Repoints
<1>8. CASE lane'[l].pc \in {"putPreview", "addPreview", "putThumbnail", "addThumbnail", "publish", "failsave", "timedout",
                            "addOriginal", "clear"}
           /\ lane'[l].photo = p
           /\ \/ Same(l) /\ (lane'[l].pc = "clear" => lane[l].pc = "open")
              \/ lane'[l].pc # "clear" /\ lane'[l].mem.path = lane'[l].read.path
              \/ lane'[l].pc # "clear" /\ lane'[l].mem.path = lane[l].mem.path /\ lane'[l].read.path = lane[l].read.path
  BY <1>1, <1>5, <1>8 DEF Same
<1>9. CASE lane'[l].photo = p
  <2>1. CASE LoadPhoto(l)
    BY <1>1, <1>7, <2>1, LoadsTo
  <2>2. CASE \E added : Catch(l, added)
    BY <1>1, <1>8, <1>9, <2>2, CatchTo
  <2>3. CASE OpenOriginal(l)
    BY <1>1, <1>8, <1>9, <2>2, <2>3, GoesTo DEF OpenOriginal
  <2>4. CASE ClearVariants(l)
    <3>1. PICK pc \in {"saverPut", "addOriginal"} :
             /\ lane' = [lane EXCEPT ![l].pc = pc] /\ lane[l].pc = "clear"
             /\ pc = "saverPut" => lane[l].mem.path = "upload"
      BY <2>4 DEF ClearVariants
    <3>2. lane'[l].pc = pc /\ Same(l)
      BY <1>1, <3>1, GoesTo
    <3> QED BY <3>1, <3>2 DEF Same
  <2>5. CASE SaverPut(l)
    <3>1. <<p, "saver">> \in blobs' /\ lane[l].read.path = "upload"
      BY <2>5 DEF SaverPut, PutBlob
    <3> QED BY <1>1, <1>9, <2>5, <3>1, SaverTo
  <2>6. CASE SaverDrop(l) \/ PutPreview(l) \/ PutThumbnail(l)
    BY <1>1, <1>8, <1>9, <2>6, GoesTo DEF SaverDrop, PutPreview, PutThumbnail, PutDerived
  <2>7. CASE AddOriginal(l) \/ AddPreview(l) \/ AddThumbnail(l)
    <3>1. PICK pc \in {"putPreview", "putThumbnail", "publish"} :
             \/ \E added : Catch(l, added)
             \/ lane' = [lane EXCEPT ![l].pc = pc, ![l].read = lane[l].mem]
      BY <2>7 DEF AddOriginal, AddPreview, AddThumbnail, AddVariant
    <3>2. CASE lane' = [lane EXCEPT ![l].pc = pc, ![l].read = lane[l].mem]
      <4>1. lane'[l].pc = pc /\ lane'[l].mem = lane'[l].read
        BY <1>1, <3>2, SavesTo
      <4> QED BY <1>8, <1>9, <4>1
    <3> QED BY <2>2, <3>1, <3>2
  <2>8. CASE Timeout(l) \/ TimeoutLoad(l)
    BY <1>1, <1>7, <1>8, <1>9, <2>8, TimesOutTo
  <2>9. CASE StepFails(l)
    BY <2>2, <2>9 DEF StepFails
  <2>10. CASE Publish(l) \/ FailSave(l) \/ TimeoutLate(l) \/ TimeoutMark(l)
    BY <1>1, <1>7, <2>10 DEF Publish, FailSave, TimeoutLate, TimeoutMark
  <2> QED BY <2>1, <2>3, <2>4, <2>5, <2>6, <2>7, <2>8, <2>9, <2>10 DEF LaneStep, LaneMishap
<1> QED BY <1>1, <1>7, <1>9

(* A request drops only objects of a photo it was accepted to drop.        *)
LEMMA RequestBlobs ==
    ASSUME TypeInv, Asked, NEW r \in Request, Serve(r) \/ Disconnect(r)
    PROVE  BlobsKept /\ UNCHANGED condemned
<1>1. UNCHANGED condemned
  BY DEF Serve, Disconnect, CompleteExists, CompleteSave, AbortBlob, DeleteRow, DeleteList, DeleteBlob,
       DeleteVariants, AttachFind, AttachPut, AttachAdd, AttachFlag, ReprocessEnqueue, IngestPut, IngestRow,
       IngestInsert, IngestReady, storeVars
<1>2. CASE blobs \subseteq blobs'
  BY <1>1, <1>2 DEF BlobsKept
<1>3. CASE AbortBlob(r) \/ DeleteBlob(r)
  <2>1. req[r].photo \in condemned
    BY <1>3 DEF AbortBlob, DeleteBlob, At, Asked
  <2>2. \E b : blobs' = blobs \ {<<req[r].photo, b>>}
    BY <1>3 DEF AbortBlob, DeleteBlob, DropBlob
  <2> QED BY <1>1, <2>1, <2>2 DEF BlobsKept
<1>4. CASE \/ CompleteExists(r) \/ CompleteSave(r) \/ DeleteRow(r) \/ DeleteList(r) \/ DeleteVariants(r)
           \/ AttachFind(r) \/ AttachPut(r) \/ AttachAdd(r) \/ AttachFlag(r) \/ ReprocessEnqueue(r)
           \/ IngestPut(r) \/ IngestRow(r) \/ IngestInsert(r) \/ IngestReady(r) \/ Disconnect(r)
  BY <1>2, <1>4 DEF CompleteExists, CompleteSave, DeleteRow, DeleteList, DeleteVariants, AttachFind, AttachPut,
       AttachAdd, AttachFlag, ReprocessEnqueue, IngestPut, IngestRow, IngestInsert, IngestReady, Disconnect,
       storeVars, PutBlob
<1> QED BY <1>3, <1>4 DEF Serve

(* Only a complete that has seen the upload confirms. *)
LEMMA RequestConfirms ==
    ASSUME TypeInv, NEW r \in Request, Serve(r) \/ Disconnect(r)
    PROVE  /\ \A p \in Photo : Confirming(p)' => Confirming(p) \/ <<p, "upload">> \in blobs'
           /\ Sent => Sent'
<1>1. req \in [Request -> RequestRecord \cup {NoRequest}] /\ client \in [Photo -> {"idle", "uploading", "acked", "gone"}]
  BY DEF TypeInv, TypeOK, ApiTypeOK, StoreTypeOK
<1>2. Return(r) \/ \E pc, todo : Goto(r, pc, todo)
  BY DEF Serve, Disconnect, CompleteExists, CompleteSave, AbortBlob, DeleteRow, DeleteList, DeleteBlob,
       DeleteVariants, AttachFind, AttachPut, AttachAdd, AttachFlag, ReprocessEnqueue, IngestPut, IngestRow,
       IngestInsert, IngestReady
<1>3. ReqKept /\ \A s \in Request \ {r} : req'[s] = req[s]
  BY <1>2, SlotKept
<1>4. \A o \in Photo :
         \/ client'[o] = client[o]
         \/ CompleteSave(r) /\ o = req[r].photo /\ client[o] = "uploading" /\ client'[o] = "acked"
  <2>1. CASE CompleteSave(r)
    BY <1>1, <2>1 DEF CompleteSave, storeVars
  <2>2. CASE UNCHANGED client
    BY <2>2
  <2> QED BY <2>1, <2>2 DEF Serve, Disconnect, CompleteExists, AbortBlob, DeleteRow, DeleteList, DeleteBlob,
       DeleteVariants, AttachFind, AttachPut, AttachAdd, AttachFlag, ReprocessEnqueue, IngestPut, IngestRow,
       IngestInsert, IngestReady, storeVars
<1>5. Sent => Sent'
  <2>1. \A s \in Request : req[s].kind = "complete" => req[s].photo \in Photo
    BY Owned
  <2> QED BY <1>3, <1>4, <2>1 DEF Sent, ReqKept
<1>6. At(r, "complete", "save")' => At(r, "complete", "save") \/ <<req[r].photo, "upload">> \in blobs'
  <2>1. CASE CompleteExists(r)
    <3>1. CASE <<req[r].photo, "upload">> \in blobs
      BY <2>1, <3>1 DEF CompleteExists, storeVars
    <3>2. CASE Return(r)
      BY <3>2, SlotKept DEF At
    <3> QED BY <2>1, <3>1, <3>2 DEF CompleteExists
  <2>2. CASE CompleteSave(r) \/ Disconnect(r)
    <3>1. Return(r)
      BY <2>2 DEF CompleteSave, Disconnect
    <3> QED BY <3>1, SlotKept DEF At
  <2>3. CASE ~ (CompleteExists(r) \/ CompleteSave(r) \/ Disconnect(r))
    <3>1. req[r].kind # "complete"
      BY <2>3 DEF Serve, At, AbortBlob, DeleteRow, DeleteList, DeleteBlob, DeleteVariants, AttachFind, AttachPut,
           AttachAdd, AttachFlag, ReprocessEnqueue, IngestPut, IngestRow, IngestInsert, IngestReady
    <3> QED BY <1>3, <3>1 DEF At, ReqKept
  <2> QED BY <2>1, <2>2, <2>3
<1>7. ASSUME NEW p \in Photo, Confirming(p)'
      PROVE  Confirming(p) \/ <<p, "upload">> \in blobs'
  <2>1. CASE client'[p] = "acked"
    BY <1>4, <2>1 DEF Confirming, CompleteSave
  <2>2. CASE client'[p] = "uploading"
    <3>1. PICK s \in Request : At(s, "complete", "save")' /\ req'[s].photo = p
      BY <1>7, <2>2 DEF Confirming
    <3>2. req[s].photo = p /\ client[p] = "uploading"
      BY <1>3, <1>4, <2>2, <3>1 DEF ReqKept, At
    <3>3. CASE s # r
      BY <1>3, <3>1, <3>2, <3>3 DEF At, Confirming
    <3>4. CASE s = r
      BY <1>6, <3>1, <3>2, <3>4 DEF Confirming
    <3> QED BY <3>3, <3>4
  <2> QED BY <1>7, <2>1, <2>2 DEF Confirming
<1> QED BY <1>5, <1>7

(* What starts confirms nothing. *)
LEMMA ArrivalConfirms ==
    ASSUME TypeInv, Sent, Arrival
    PROVE  /\ BlobsKept /\ Sent'
           /\ \A p \in Photo : Confirming(p)' => Confirming(p)
<1>1. client \in [Photo -> {"idle", "uploading", "acked", "gone"}]
  BY DEF TypeInv, TypeOK, StoreTypeOK
<1>2. \A s \in Request : req[s].kind = "complete" => req[s].photo \in Photo
  BY Owned
<1>3. BlobsKept
  BY DEF Arrival, CreateUploadTicket, ClientPut, ClientGone, CompleteBegin, AbortBegin, DeleteBegin,
       AttachBegin, ReprocessBegin, IngestBegin, storeVars, BlobsKept, PutBlob
<1>4. CASE \E p \in Photo : CreateUploadTicket(p) \/ ClientPut(p) \/ ClientGone(p)
  <2>1. PICK p \in Photo : CreateUploadTicket(p) \/ ClientPut(p) \/ ClientGone(p)
    BY <1>4
  <2>2. /\ UNCHANGED req
        /\ \A o \in Photo \ {p} : client'[o] = client[o]
        /\ \/ client'[p] = client[p]
           \/ client[p] = "idle" /\ client'[p] = "uploading"
           \/ client'[p] = "gone"
    BY <1>1, <2>1 DEF CreateUploadTicket, ClientPut, ClientGone
  <2> QED BY <1>2, <1>3, <2>2 DEF Sent, Confirming, At
<1>5. CASE \E r \in Request, p \in Photo :
             \/ CompleteBegin(r, p) \/ AbortBegin(r, p) \/ DeleteBegin(r, p)
             \/ AttachBegin(r, p) \/ ReprocessBegin(r, p) \/ IngestBegin(r, p)
  <2>1. PICK r \in Request, p \in Photo :
             \/ CompleteBegin(r, p) \/ AbortBegin(r, p) \/ DeleteBegin(r, p)
             \/ AttachBegin(r, p) \/ ReprocessBegin(r, p) \/ IngestBegin(r, p)
    BY <1>5
  <2>2. PICK kind, pc, todo :
          /\ Begin(r, kind, p, pc, todo)
          /\ kind = "complete" => pc = "exists" /\ client[p] = "uploading" /\ UNCHANGED client
    BY <2>1 DEF CompleteBegin, AbortBegin, DeleteBegin, AttachBegin, ReprocessBegin, IngestBegin, storeVars
  <2>3. \A o \in Photo : client'[o] = client[o] \/ client'[o] = "gone"
    BY <1>1, <2>1 DEF CompleteBegin, AbortBegin, DeleteBegin, AttachBegin, ReprocessBegin, IngestBegin, storeVars
  <2>4. /\ req'[r].kind = kind /\ req'[r].photo = p
        /\ \A s \in Request \ {r} : req'[s] = req[s]
    BY <2>2, BegunSlot
  <2>5. req'[r].pc = pc
    BY <2>2 DEF Begin, TypeInv, TypeOK, ApiTypeOK
  <2>6. Sent'
    BY <1>2, <2>2, <2>3, <2>4 DEF Sent
  <2>7. \A o \in Photo : Confirming(o)' => Confirming(o)
    BY <2>2, <2>3, <2>4, <2>5 DEF Confirming, At
  <2> QED BY <1>3, <2>6, <2>7
<1> QED BY <1>4, <1>5 DEF Arrival

(* The inductive step for the bytes. *)
LEMMA NextBytes ==
    ASSUME ~ SlowUploads, TypeInv, WorkInv, KeptInv, BytesInv, [Next]_vars
    PROVE  BytesInv'
<1> USE DEF BytesInv
<1>1. Asked /\ SweepsGone
  BY DEF KeptInv
<1>2. ASSUME UNCHANGED lane, BlobsKept, Sent',
             \A p \in Photo : Confirming(p)' => Confirming(p) \/ <<p, "upload">> \in blobs'
      PROVE  BytesInv'
  <2>1. Stored'
    <3>1. \A p \in Photo : <<p, "upload">> \in blobs' => HasOriginal(p)'
      BY DEF HasOriginal, OriginalPath
    <3> QED BY <1>2, <3>1, KeptSaver DEF Stored, BlobsKept
  <2>2. ASSUME NEW l \in Lane PROVE SaverWritten(l)'
    BY <1>2, KeptSaver, WrittenStays
  <2> QED BY <1>2, <2>1, <2>2
<1>3. CASE ApiMoves
  <2>1. UNCHANGED lane
    BY <1>3 DEF ApiMoves, workerVars
  <2>2. CASE Arrival
    BY <1>2, <2>1, <2>2, ArrivalConfirms
  <2>3. CASE \E r \in Request : Serve(r) \/ Disconnect(r)
    BY <1>1, <1>2, <2>1, <2>3, RequestBlobs, RequestConfirms
  <2> QED BY <1>3, <2>2, <2>3 DEF ApiMoves, ApiNext
<1>4. CASE Looping
  <2>1. UNCHANGED <<blobs, client, condemned, req>>
    BY <1>4 DEF Looping, LoopStep, SkipBusyLane, EmptySlice, Claim, ClaimThrows, EndFill, LaneFreed,
         storeVars, apiVars
  <2>2. Stored' /\ Sent'
    BY <2>1 DEF Stored, Sent, Confirming, At, HasOriginal
  <2>3. ASSUME NEW m \in Lane PROVE SaverWritten(m)'
    <3>1. CASE lane'[m] = lane[m]
      <4>1. SaverKept
        BY <2>1 DEF SaverKept
      <4> QED BY <3>1, <4>1, WrittenStays
    <3>2. CASE lane'[m].pc = "load" /\ lane'[m].mem = lane'[m].read
      BY <3>2 DEF SaverWritten, Repoints
    <3>3. ASSUME NEW l \in Lane, Claim(l)
          PROVE  lane'[m] = lane[m] \/ (lane'[m].pc = "load" /\ lane'[m].mem = lane'[m].read)
      <4>1. PICK j, p : lane' = [lane EXCEPT ![l] = [IdleLane EXCEPT !.pc = "load", !.job = j, !.photo = p]]
        BY <3>3 DEF Claim
      <4> DEFINE q == [IdleLane EXCEPT !.pc = "load", !.job = j, !.photo = p]
      <4>2. q.pc = "load" /\ q.mem = q.read
        BY DEF IdleLane
      <4> HIDE DEF q
      <4>3. lane'[m] = lane[m] \/ lane'[m] = q
        BY <4>1 DEF q, TypeInv, TypeOK, WorkerTypeOK
      <4> QED BY <4>2, <4>3
    <3>4. CASE ~ \E l \in Lane : Claim(l)
      BY <1>4, <3>1, <3>4 DEF Looping, LoopStep, SkipBusyLane, EmptySlice, ClaimThrows, EndFill, LaneFreed
    <3> QED BY <3>1, <3>2, <3>3, <3>4
  <2> QED BY <2>2, <2>3
<1>5. CASE \E l \in Lane : Processing(l) \/ Failing(l)
  <2>1. PICK l \in Lane : LaneStep(l) \/ LaneMishap(l)
    BY <1>5 DEF Processing, Failing
  <2>2. /\ UNCHANGED <<client, req, condemned>> /\ Working(l)
        /\ \A m \in Lane \ {l} : lane'[m] = lane[m]
    BY <1>5, <2>1, WorkerKeeps, LaneStays DEF Processing, Failing, apiVars
  <2>3. SaverWritten(l)' /\ SaverKept /\ (SaverDrop(l) \/ BlobsKept)
    BY <2>1, LaneWrites
  <2>4. ASSUME NEW m \in Lane PROVE SaverWritten(m)'
    BY <2>2, <2>3, WrittenStays
  <2>5. \A p \in Photo \ condemned' : HasOriginal(p) => HasOriginal(p)'
    <3>1. CASE BlobsKept
      BY <3>1, KeptSaver
    <3>2. CASE SaverDrop(l)
      <4> DEFINE p == lane[l].photo
      <4>1. blobs' = blobs \ {<<p, "upload">>} /\ lane[l].pc = "saverDrop"
        BY <3>2 DEF SaverDrop, DropBlob
      <4>2. p \notin condemned => <<p, "saver">> \in blobs
        BY <4>1 DEF SaverWritten
      <4> QED BY <2>2, <4>1, <4>2 DEF HasOriginal, OriginalPath
    <3> QED BY <2>3, <3>1, <3>2
  <2>6. Stored' /\ Sent'
    BY <2>2, <2>5 DEF Stored, Sent, Confirming, At
  <2> QED BY <2>4, <2>6
<1>6. CASE Crashing
  <2>1. UNCHANGED <<blobs, client, condemned, req>> /\ lane' = [l \in Lane |-> IdleLane]
    BY <1>6 DEF Crashing, WorkerCrash, apiVars
  <2>2. IdleLane.pc = "idle" /\ IdleLane.mem = IdleLane.read
    BY DEF IdleLane
  <2>3. \A l \in Lane : SaverWritten(l)'
    BY <2>1, <2>2 DEF SaverWritten, Repoints
  <2> QED BY <2>1, <2>3 DEF Stored, Sent, Confirming, At, HasOriginal
<1>7. CASE Sweeping
  <2>1. UNCHANGED <<client, condemned, req, lane>>
    BY <1>7 DEF Sweeping, SweeperNext, SweepList, SweepRow, SweepBlob, storeVars, apiVars, workerVars
  <2>2. CASE UNCHANGED blobs
    BY <1>2, <2>1, <2>2 DEF BlobsKept, Confirming, At, Sent
  <2>3. CASE \E p \in Photo : SweepBlob(p)
    <3>1. PICK p \in Photo : SweepBlob(p)
      BY <2>3
    <3>2. client[p] = "gone" /\ (blobs' = blobs \/ blobs' = blobs \ {<<p, "upload">>})
      BY <1>1, <3>1 DEF SweepBlob, DropBlob, SweepsGone
    <3>3. SaverKept
      BY <2>1, <3>2 DEF SaverKept
    <3>4. Stored' /\ Sent'
      BY <2>1, <3>2 DEF Stored, Sent, Confirming, At, HasOriginal
    <3>5. ASSUME NEW l \in Lane PROVE SaverWritten(l)'
      BY <2>1, <3>3, WrittenStays
    <3> QED BY <3>4, <3>5
  <2> QED BY <1>7, <2>2, <2>3 DEF Sweeping, SweeperNext, SweepList, SweepRow, storeVars
<1>8. CASE UNCHANGED vars
  <2>1. UNCHANGED <<blobs, client, condemned, req, lane>>
    BY <1>8 DEF vars, storeVars, apiVars, workerVars
  <2> QED BY <1>2, <2>1 DEF BlobsKept, Confirming, At, Sent
<1> QED BY <1>3, <1>4, <1>5, <1>6, <1>7, <1>8 DEF Next

LEMMA InitBytes == Init => BytesInv
<1> SUFFICES ASSUME Init PROVE BytesInv
  OBVIOUS
<1>1. IdleLane.pc = "idle" /\ IdleLane.mem = IdleLane.read
  BY DEF IdleLane
<1>2. \A l \in Lane : SaverWritten(l)
  BY <1>1 DEF Init, WorkerInit, SaverWritten, Repoints
<1> QED BY <1>2 DEF Init, StoreInit, ApiInit, BytesInv, Stored, Sent, Confirming, NoRequest

LEMMA InitKept == Init => KeptInv
BY DEF Init, StoreInit, ApiInit, SweeperInit, NoRequest, NoSweep, KeptInv, Asked, SweepsGone, AckedKept

(* The bytes of a confirmed photo are never lost, whatever the saver, the  *)
(* sweeper, the lanes and the requests do at the same time, as long as the *)
(* reservation age outlasts every upload that still lives.                 *)
THEOREM BytesStay == Spec => [](~ SlowUploads => BytesKept)
<1> DEFINE Inv == TypeInv /\ WorkInv /\ KeptInv /\ (~ SlowUploads => BytesInv)
<1>1. Init => Inv
  BY InitType, InitWork, InitKept, InitBytes
<1>2. Inv /\ [Next]_vars => Inv'
  BY NextType, NextWork, NextKeeps, NextBytes
<1>3. Inv => (~ SlowUploads => BytesKept)
  BY DEF BytesInv, Stored, Confirming, HasOriginal, BytesKept
<1> QED BY <1>1, <1>2, <1>3, PTL DEF Spec

-----------------------------------------------------------------------------
(* What a Ready photo is made of.                                          *)

LEMMA ShownServable == Shown <=> ReadyServable
BY DEF Shown, ReadyServable, Servable, Sound, Ingested, VariantBlob

(* A step that takes nothing of photo o away. *)
Kind(o) ==
    o \notin condemned' =>
        /\ \A b \in BlobName : <<o, b>> \in blobs => <<o, b>> \in blobs'
        /\ Exists(o)' => /\ Exists(o) /\ variants[o] \subseteq variants'[o]
                         /\ photos'[o].path = photos[o].path \/ Sound(o)'

LEMMA SoundStays ==
    ASSUME TypeInv, NEW o \in Photo, Kind(o), o \notin condemned', Exists(o)', Sound(o)
    PROVE  Sound(o)'
<1>1. photos[o].path \in BlobName
  BY DEF TypeInv, TypeOK, StoreTypeOK, PhotoRow, BlobName
<1> QED BY <1>1 DEF Kind, Sound

LEMMA ServableStays ==
    ASSUME TypeInv, NEW o \in Photo, Kind(o), o \notin condemned', Exists(o)', Servable(o)
    PROVE  Servable(o)'
<1>1. Sound(o)'
  BY SoundStays DEF Servable
<1> QED BY <1>1 DEF Kind, Servable, BlobName

LEMMA BuiltStays ==
    ASSUME TypeInv, LaneBuilds, condemned \subseteq condemned',
           NEW l \in Lane, lane'[l] = lane[l], lane[l].pc # "idle",
           NEW p \in Photo, p = lane[l].photo, p \notin condemned', Exists(p)', Kind(p)
    PROVE  Built(l)'
<1>1. Exists(p) /\ p \notin condemned
  BY DEF Kind
<1>2. Built(l)
  BY <1>1 DEF LaneBuilds
<1>3. Sound(p) => Sound(p)'
  BY <1>1, SoundStays
<1>4. /\ variants[p] \subseteq variants'[p]
      /\ <<p, "preview">> \in blobs => <<p, "preview">> \in blobs'
      /\ <<p, "thumbnail">> \in blobs => <<p, "thumbnail">> \in blobs'
      /\ photos'[p].path = photos[p].path \/ Sound(p)'
  BY <1>1 DEF Kind, BlobName
<1> QED BY <1>2, <1>3, <1>4 DEF Built, Repoints

LEMMA ImportedStays ==
    ASSUME TypeInv, ImportBuilds, condemned \subseteq condemned',
           NEW r \in Request, req'[r] = req[r], req[r].kind = "ingest",
           NEW p \in Photo, p = req[r].photo, p \notin condemned',
           Kind(p) \/ (req[r].pc \notin {"put", "row"} /\ ~ Exists(p)')
    PROVE  Imported(r)'
<1>1. p \notin condemned /\ req[r].todo \subseteq IF req[r].pc = "put" THEN BlobName ELSE VariantKind
  BY DEF TypeInv, TypeOK, ApiTypeOK
<1>2. Imported(r)
  BY <1>1 DEF ImportBuilds
<1>3. CASE Kind(p)
  <2>1. Exists(p)' /\ Sound(p) => Sound(p)'
    BY <1>1, <1>3, SoundStays
  <2>2. \A b \in Uploaded \cup {"preview", "thumbnail"} : <<p, b>> \in blobs => <<p, b>> \in blobs'
    BY <1>1, <1>3 DEF Kind, BlobName, OriginalPath, Uploaded
  <2>3. Exists(p)' => Exists(p) /\ variants[p] \subseteq variants'[p]
    BY <1>1, <1>3 DEF Kind
  <2> QED BY <1>2, <2>1, <2>2, <2>3 DEF Imported
<1>4. CASE req[r].pc \notin {"put", "row"} /\ ~ Exists(p)'
  BY <1>4 DEF Imported
<1> QED BY <1>3, <1>4

(* Two handlers do not work on one photo. *)
LEMMA OneHandlerPhoto ==
    ASSUME SysInv, NEW l \in Lane, NEW m \in Lane, l # m,
           lane[l].pc \in HandlerStep, lane[m].pc \in HandlerStep,
           lane[l].photo = lane[m].photo, Exists(lane[l].photo)
    PROVE  FALSE
<1> USE DEF SysInv
<1>1. lane[l].pc # "idle" /\ lane[m].pc # "idle" /\ InWork(l) /\ InWork(m)
  BY DEF HandlerStep, InWork, WorkStep
<1>2. /\ lane[l].job \in Job /\ lane[m].job \in Job /\ lane[l].photo # NoPhoto
      /\ jobs[lane[l].job].photo = lane[l].photo /\ jobs[lane[m].job].photo = lane[l].photo
  BY <1>1, LaneRow DEF Exists, PhotoState
<1>3. lane[l].job = lane[m].job
  BY <1>2 DEF OrderInv, JobOnce
<1> QED BY <1>1, <1>3 DEF WorkInv, OneLanePerJob

-----------------------------------------------------------------------------
(* The lanes.                                                              *)

(* A save of the lane's context. *)
LEMMA SaveKind ==
    ASSUME TypeInv, NEW l \in Lane, SaverWritten(l), NEW p \in Photo, p = lane[l].photo,
           NEW mem \in Copy, mem.path = lane[l].mem.path, NEW added, Exists(p),
           SaveContext(l, mem, added), UNCHANGED <<blobs, condemned>>
    PROVE  /\ \A o \in Photo : Kind(o)
           /\ \A o \in Photo \ {p} : photos'[o] = photos[o]
           /\ variants'[p] = variants[p] \cup added
           /\ p \notin condemned => (Repoints(l) \/ Sound(p) => Sound(p)')
           /\ photos'[p].state = IF mem.state = lane[l].read.state THEN photos[p].state ELSE mem.state
<1> DEFINE state == IF mem.state = lane[l].read.state THEN photos[p].state ELSE mem.state
           path == IF mem.path = lane[l].read.path THEN photos[p].path ELSE mem.path
           row == [photos[p] EXCEPT !.state = state, !.path = path]
<1>1. photos[p] \in PhotoRow /\ photos \in [Photo -> PhotoRow] /\ variants \in [Photo -> SUBSET VariantKind]
  BY DEF TypeInv, TypeOK, StoreTypeOK
<1>2. photos' = [photos EXCEPT ![p] = row] /\ variants' = [variants EXCEPT ![p] = variants[p] \cup added]
  BY DEF SaveContext, Merge
<1> HIDE DEF state, path
<1>3. row.path = path /\ row.state = state
  BY <1>1 DEF PhotoRow
<1> HIDE DEF row
<1>4. photos'[p] = row /\ \A o \in Photo \ {p} : photos'[o] = photos[o]
  BY <1>1, <1>2
<1>5. variants'[p] = variants[p] \cup added /\ \A o \in Photo \ {p} : variants'[o] = variants[o]
  BY <1>1, <1>2
<1>6. p \notin condemned => path = photos[p].path \/ <<p, path>> \in blobs
  BY DEF SaverWritten, Repoints, path
<1>7. p \notin condemned /\ Repoints(l) => <<p, path>> \in blobs
  BY DEF SaverWritten, Repoints, path
<1>8. p \notin condemned => (Repoints(l) \/ Sound(p) => Sound(p)')
  BY <1>3, <1>4, <1>6, <1>7 DEF Sound
<1>9. Kind(p)
  BY <1>3, <1>4, <1>5, <1>6 DEF Kind, Sound
<1>10. \A o \in Photo \ {p} : Kind(o)
  BY <1>4, <1>5 DEF Kind, Exists
<1> QED BY <1>3, <1>4, <1>5, <1>8, <1>9, <1>10 DEF state

(* What a step of a lane does to the photos: it disturbs its own only, and
   that one only while it rebuilds it. *)
LaneEffect(l, p) ==
    /\ \A o \in Photo \ {p} : photos'[o] = photos[o] /\ Kind(o)
    /\ ~ Exists(p) => photos'[p] = photos[p]
    /\ Kind(p) \/ (UNCHANGED photos /\ lane[l].pc \in {"clear", "saverDrop"})
    /\ photos'[p].state = "Ready" => photos[p].state = "Ready" \/ (lane[l].pc = "publish" /\ Kind(p))

LEMMA QuietEffect ==
    ASSUME NEW l \in Lane, NEW p \in Photo, UNCHANGED <<photos, variants>>, blobs \subseteq blobs',
           UNCHANGED condemned
    PROVE  LaneEffect(l, p) /\ \A o \in Photo : Kind(o)
BY DEF LaneEffect, Kind, Exists

LEMMA SavedEffect ==
    ASSUME TypeInv, WorkInv, NEW l \in Lane, Working(l), SaverWritten(l), NEW p \in Photo, p = lane[l].photo,
           NEW mem \in {lane[l].mem, Ready(l)}, mem = Ready(l) => lane[l].pc = "publish",
           NEW added, lane[l].pc # "timedout", Exists(p),
           SaveContext(l, mem, added), UNCHANGED <<blobs, condemned>>
    PROVE  LaneEffect(l, p)
<1>1. mem \in Copy /\ mem.path = lane[l].mem.path
  BY DEF Working, LaneRecord, Copy, Ready, PhotoState
<1>2. /\ \A o \in Photo : Kind(o)
      /\ \A o \in Photo \ {p} : photos'[o] = photos[o]
      /\ photos'[p].state = IF mem.state = lane[l].read.state THEN photos[p].state ELSE mem.state
  BY <1>1, SaveKind
<1>3. \/ lane[l].pc = "publish"
      \/ mem.state \in {"Processing", "Failed"}
      \/ mem.state = lane[l].read.state
  BY DEF WorkInv, CopyOf, Working, LaneRecord, HandlerStep
<1> QED BY <1>2, <1>3 DEF LaneEffect

LEMMA LaneAffects ==
    ASSUME TypeInv, WorkInv, NEW l \in Lane, SaverWritten(l), LaneStep(l) \/ LaneMishap(l),
           NEW p \in Photo, p = lane[l].photo
    PROVE  LaneEffect(l, p)
<1>1. Working(l) /\ UNCHANGED condemned
  BY LaneStays, WorkerKeeps
<1>2. CASE /\ UNCHANGED <<photos, variants>>
           /\ blobs \subseteq blobs'
  BY <1>1, <1>2, QuietEffect
<1>3. CASE ClearVariants(l)
  <2>1. /\ lane[l].pc = "clear" /\ UNCHANGED <<photos, blobs>>
        /\ \A o \in Photo \ {p} : variants'[o] = variants[o]
    BY <1>3 DEF ClearVariants, TypeInv, TypeOK, StoreTypeOK
  <2> QED BY <1>1, <2>1 DEF LaneEffect, Kind, Exists
<1>4. CASE SaverDrop(l)
  <2>1. /\ lane[l].pc = "saverDrop" /\ UNCHANGED <<photos, variants>>
        /\ blobs' = blobs \ {<<p, "upload">>}
    BY <1>4 DEF SaverDrop, DropBlob
  <2> QED BY <1>1, <2>1 DEF LaneEffect, Kind, Exists
<1>5. CASE AddOriginal(l) \/ AddPreview(l) \/ AddThumbnail(l)
  <2>1. /\ UNCHANGED blobs /\ lane[l].pc # "timedout"
        /\ \/ UNCHANGED <<photos, variants>>
           \/ Exists(p) /\ \E added : SaveContext(l, lane[l].mem, added)
    BY <1>5 DEF AddOriginal, AddPreview, AddThumbnail, AddVariant, CanSave
  <2>2. lane[l].pc # "publish" /\ lane[l].mem # Ready(l)
    <3>1. lane[l].mem.state = "Processing" /\ Ready(l).state = "Ready"
      BY <1>1, <1>5 DEF WorkInv, CopyOf, HandlerStep, Step, AddOriginal, AddPreview, AddThumbnail, AddVariant, Ready,
           Working, LaneRecord, Copy
    <3> QED BY <1>5, <3>1 DEF AddOriginal, AddPreview, AddThumbnail, AddVariant
  <2> QED BY <1>1, <1>2, <2>1, <2>2, SavedEffect
<1>6. CASE Publish(l)
  <2>1. /\ UNCHANGED blobs /\ lane[l].pc = "publish"
        /\ \/ UNCHANGED <<photos, variants>>
           \/ Exists(p) /\ SaveContext(l, Ready(l), {})
    BY <1>6 DEF Publish
  <2> QED BY <1>1, <1>2, <2>1, SavedEffect
<1>7. CASE FailSave(l)
  <2>1. /\ UNCHANGED blobs /\ lane[l].pc = "failsave"
        /\ \/ UNCHANGED <<photos, variants>>
           \/ Exists(p) /\ SaveContext(l, lane[l].mem, lane[l].added)
    BY <1>7 DEF FailSave, CanSave
  <2>2. lane[l].mem # Ready(l)
    BY <1>1, <2>1 DEF WorkInv, CopyOf, Ready, Working, LaneRecord, Copy
  <2> QED BY <1>1, <1>2, <2>1, <2>2, SavedEffect
<1>8. CASE Timeout(l)
  <2>1. PICK mem \in {lane[l].mem, Ready(l)} :
          /\ TimeoutSave(l, mem) /\ lane[l].pc # "timedout"
          /\ mem = Ready(l) => lane[l].pc = "publish"
    <3>1. CASE lane[l].pc = "publish" /\ TimeoutSave(l, Ready(l))
      BY <3>1
    <3>2. CASE lane[l].pc \in Step \ {"idle", "publish", "failsave", "timedout"} /\ TimeoutSave(l, lane[l].mem)
      <4>1. lane[l].mem.state # "Ready"
        BY <3>2 DEF WorkInv, CopyOf, HandlerStep, Step
      <4>2. Ready(l).state = "Ready"
        BY <1>1 DEF Ready, Working, LaneRecord, Copy
      <4> QED BY <3>2, <4>1, <4>2
    <3> QED BY <1>8, <3>1, <3>2 DEF Timeout
  <2>2. /\ UNCHANGED blobs
        /\ UNCHANGED <<photos, variants>> \/ (Exists(p) /\ SaveContext(l, mem, Pending(l)))
    BY <2>1 DEF TimeoutSave, CanSave
  <2> QED BY <1>1, <1>2, <2>1, <2>2, SavedEffect
<1>9. CASE TimeoutMark(l)
  <2>1. /\ UNCHANGED <<blobs, variants>>
        /\ UNCHANGED photos \/ (Exists(p) /\ photos' = [photos EXCEPT ![p].state = "Failed"])
    BY <1>9 DEF TimeoutMark
  <2>2. CASE Exists(p) /\ photos' = [photos EXCEPT ![p].state = "Failed"]
    <3>1. /\ photos'[p].state = "Failed" /\ photos'[p].path = photos[p].path
          /\ \A o \in Photo \ {p} : photos'[o] = photos[o]
      BY <2>2 DEF TypeInv, TypeOK, StoreTypeOK, PhotoRow
    <3> QED BY <1>1, <2>1, <2>2, <3>1 DEF LaneEffect, Kind, Exists
  <2> QED BY <1>2, <2>1, <2>2
<1>10. CASE \/ LoadPhoto(l) \/ OpenOriginal(l) \/ SaverPut(l) \/ PutPreview(l) \/ PutThumbnail(l)
            \/ TimeoutLoad(l) \/ StepFails(l) \/ TimeoutLate(l)
  BY <1>2, <1>10 DEF LoadPhoto, OpenOriginal, SaverPut, PutPreview, PutThumbnail, PutDerived, TimeoutLoad,
       StepFails, TimeoutLate, storeVars, PutBlob
<1> QED BY <1>3, <1>4, <1>5, <1>6, <1>7, <1>8, <1>9, <1>10 DEF LaneStep, LaneMishap

(* How far the lane itself has come. *)
LEMMA LaneBuiltOn ==
    ASSUME TypeInv, WorkInv, BytesInv, LaneBuilds, NEW l \in Lane, LaneStep(l) \/ LaneMishap(l),
           NEW p \in Photo, p = lane[l].photo
    PROVE  /\ lane'[l].pc \in Opening => lane'[l].read.state # "Processing"
           /\ (lane'[l].pc # "idle" /\ p \notin condemned' /\ Exists(p)') => Built(l)'
<1>1. /\ Working(l) /\ UNCHANGED condemned /\ SaverWritten(l) /\ SaverWritten(l)'
      /\ lane'[l] = IdleLane \/ lane'[l].photo = p
      /\ Free(l) => lane'[l] = IdleLane
  BY LaneStays, WorkerKeeps, LaneWrites DEF BytesInv
<1>2. lane'[l] = IdleLane => lane'[l].pc = "idle"
  BY DEF IdleLane
<1>3. CASE lane'[l].pc \in {"failsave", "timedout", "idle"}
  BY <1>3 DEF Opening, Derived, Built
<1>4. CASE lane'[l].photo = p /\ lane'[l].pc \notin {"failsave", "timedout", "idle"}
  <2>1. LaneEffect(l, p)
    BY <1>1, LaneAffects
  <2>2. (p \notin condemned' /\ Exists(p)') => (p \notin condemned /\ Exists(p) /\ Built(l))
    BY <1>1, <2>1 DEF LaneEffect, Kind, Exists, LaneBuilds, Working
  <2>3. lane[l].pc \in Opening => lane[l].read.state # "Processing"
    BY DEF LaneBuilds
  <2>4. ~ Free(l) /\ \A added : ~ Catch(l, added)
    BY <1>1, <1>2, <1>4, CatchTo
  <2>5. CASE LoadPhoto(l)
    <3>1. /\ lane'[l].pc = "open" /\ lane'[l].read.path = photos[p].path
          /\ lane'[l].read.state \in Processable /\ UNCHANGED photos
      BY <1>1, <2>4, <2>5, LoadsTo DEF LoadPhoto, storeVars
    <3> QED BY <1>4, <3>1 DEF Built, Processable, Derived
  <2>6. CASE OpenOriginal(l)
    <3>1. /\ lane[l].pc = "open" /\ lane' = [lane EXCEPT ![l].pc = "clear"]
          /\ <<p, lane[l].mem.path>> \in blobs /\ UNCHANGED <<photos, blobs>>
      BY <2>4, <2>6 DEF OpenOriginal, storeVars
    <3>2. lane'[l].pc = "clear" /\ Same(l)
      BY <1>1, <3>1, GoesTo
    <3>3. p \notin condemned' /\ Exists(p)' => Sound(p)
      BY <1>1, <2>2, <3>1 DEF Built, SaverWritten, Repoints, Sound
    <3> QED BY <1>4, <2>3, <3>1, <3>2, <3>3 DEF Built, Opening, Derived, Same, Sound
  <2>7. CASE ClearVariants(l)
    <3>1. PICK pc \in {"saverPut", "addOriginal"} :
            lane[l].pc = "clear" /\ lane' = [lane EXCEPT ![l].pc = pc] /\ UNCHANGED <<photos, blobs>>
      BY <2>7 DEF ClearVariants
    <3>2. lane'[l].pc = pc /\ Same(l)
      BY <1>1, <3>1, GoesTo
    <3>3. p \notin condemned' /\ Exists(p)' => Sound(p)
      BY <2>2, <3>1 DEF Built
    <3> QED BY <1>4, <2>3, <3>1, <3>2, <3>3 DEF Built, Opening, Derived, Same, Sound
  <2>8. CASE SaverPut(l)
    <3>1. lane[l].pc = "saverPut" /\ lane'[l].pc = "saverDrop" /\ lane'[l].read = lane[l].read
      BY <1>1, <2>8, SaverTo DEF SaverPut
    <3> QED BY <2>3, <3>1 DEF Built, Opening, Derived
  <2>9. CASE SaverDrop(l)
    <3>1. lane[l].pc = "saverDrop" /\ lane'[l].pc = "addOriginal" /\ Same(l)
      BY <1>1, <2>9, GoesTo DEF SaverDrop
    <3> QED BY <1>1, <2>3, <3>1 DEF Built, Opening, Derived, Same, SaverWritten, Repoints
  <2>10. CASE PutPreview(l) \/ PutThumbnail(l)
    <3>1. PICK kind \in {"preview", "thumbnail"}, pc \in Step :
            /\ UNCHANGED <<photos, variants>> /\ blobs' = blobs \cup {<<p, kind>>}
            /\ lane' = [lane EXCEPT ![l].pc = pc]
            /\ \/ kind = "preview" /\ lane[l].pc = "putPreview" /\ pc = "addPreview"
               \/ kind = "thumbnail" /\ lane[l].pc = "putThumbnail" /\ pc = "addThumbnail"
      BY <2>10 DEF PutPreview, PutThumbnail, PutDerived, PutBlob, Step
    <3>2. lane'[l].pc = pc
      BY <1>1, <3>1, GoesTo
    <3> QED BY <1>4, <2>2, <3>1, <3>2 DEF Built, Opening, Derived, Sound
  <2>11. CASE AddOriginal(l) \/ AddPreview(l) \/ AddThumbnail(l)
    <3>1. PICK kind \in VariantKind, pc \in Step :
            /\ SaveContext(l, lane[l].mem, {kind}) /\ UNCHANGED <<blobs, condemned>> /\ Exists(p)
            /\ lane' = [lane EXCEPT ![l].pc = pc, ![l].read = lane[l].mem]
            /\ \/ kind = "original" /\ lane[l].pc = "addOriginal" /\ pc = "putPreview"
               \/ kind = "preview" /\ lane[l].pc = "addPreview" /\ pc = "putThumbnail"
               \/ kind = "thumbnail" /\ lane[l].pc = "addThumbnail" /\ pc = "publish"
      BY <2>4, <2>11 DEF AddOriginal, AddPreview, AddThumbnail, AddVariant, VariantKind, CanSave, Step
    <3>2. lane'[l].pc = pc
      BY <1>1, <3>1, SavesTo
    <3>3. SaveContext(l, lane[l].mem, {kind}) /\ UNCHANGED <<blobs, condemned>> /\ Exists(p)
      BY <3>1
    <3>5. lane[l].mem \in Copy /\ SaverWritten(l)
      BY <1>1 DEF Working, LaneRecord
    <3>4. /\ variants'[p] = variants[p] \cup {kind}
          /\ p \notin condemned => (Repoints(l) \/ Sound(p) => Sound(p)')
      <4>1. PICK mem \in Copy : mem = lane[l].mem
        BY <3>5
      <4>2. SaveContext(l, mem, {kind}) /\ mem.path = lane[l].mem.path
        BY <3>3, <4>1
      <4>3. PICK added : added = {kind}
        OBVIOUS
      <4>4. SaveContext(l, mem, added)
        BY <4>2, <4>3
      <4>5. /\ variants'[p] = variants[p] \cup added
            /\ p \notin condemned => (Repoints(l) \/ Sound(p) => Sound(p)')
        BY <3>3, <3>5, <4>2, <4>4, SaveKind
      <4> QED BY <4>3, <4>5
    <3>6. \/ kind = "original" /\ lane[l].pc = "addOriginal" /\ pc = "putPreview"
          \/ kind = "preview" /\ lane[l].pc = "addPreview" /\ pc = "putThumbnail"
          \/ kind = "thumbnail" /\ lane[l].pc = "addThumbnail" /\ pc = "publish"
      BY <3>1
    <3> QED BY <1>4, <2>2, <3>2, <3>3, <3>4, <3>6 DEF Built, Opening, Derived
  <2>12. CASE Timeout(l) \/ TimeoutLoad(l)
    BY <1>1, <1>4, <2>4, <2>12, TimesOutTo
  <2>13. CASE StepFails(l) \/ Publish(l) \/ FailSave(l) \/ TimeoutLate(l) \/ TimeoutMark(l)
    BY <2>4, <2>13 DEF StepFails, Publish, FailSave, TimeoutLate, TimeoutMark
  <2> QED BY <2>5, <2>6, <2>7, <2>8, <2>9, <2>10, <2>11, <2>12, <2>13 DEF LaneStep, LaneMishap
<1> QED BY <1>1, <1>2, <1>3, <1>4

(* No import works on the photo of a busy lane, unless it was deleted. *)
LEMMA ImportApart ==
    ASSUME SysInv, NEW l \in Lane, Working(l), NEW r \in Request, req[r].kind = "ingest",
           req[r].photo = lane[l].photo
    PROVE  req[r].pc \notin {"put", "row"} /\ ~ Exists(lane[l].photo)
<1> USE DEF SysInv
<1>1. /\ lane[l].photo \in Photo /\ lane[l].job \in Job /\ photos[lane[l].photo].state # "absent"
      /\ photos[lane[l].photo].state # "deleted" => jobs[lane[l].job].photo = lane[l].photo
  BY LaneRow DEF Working
<1>2. jobs[lane[l].job].photo # lane[l].photo
  BY <1>1 DEF OrderInv, Ingesting
<1> QED BY <1>1, <1>2 DEF TypeInv, Minted, Inserting, Exists, PhotoState

(* A step of a lane. *)
LEMMA LaneBuild ==
    ASSUME SysInv, BytesInv, BuildInv, NEW l \in Lane, LaneStep(l) \/ LaneMishap(l), UNCHANGED req
    PROVE  BuildInv'
<1> USE DEF SysInv, BuildInv
<1>1. /\ Working(l) /\ \A m \in Lane \ {l} : lane'[m] = lane[m]
      /\ UNCHANGED condemned /\ SaverWritten(l)
  BY LaneStays, WorkerKeeps DEF BytesInv
<1>2. PICK p \in Photo : p = lane[l].photo
  BY <1>1 DEF Working
<1>3. LaneEffect(l, p)
  BY <1>1, <1>2, LaneAffects
<1>4. lane'[l] = IdleLane \/ lane'[l].photo = p
  BY <1>2, LaneStays
<1>5. lane[l].pc \in {"clear", "saverDrop"} => lane[l].pc \in HandlerStep /\ photos[p].state # "Ready"
  BY <1>2 DEF OrderInv, HandlerOpen, LaneBuilds, Opening, HandlerStep, Step
<1>6. LaneBuilds'
  <2>1. ASSUME NEW m \in Lane
        PROVE  lane'[m].pc \in Opening => lane'[m].read.state # "Processing"
    BY <1>1, <1>2, LaneBuiltOn DEF LaneBuilds
  <2>2. ASSUME NEW m \in Lane,
               (lane[m].pc # "idle" /\ lane[m].photo \notin condemned /\ Exists(lane[m].photo))'
        PROVE  Built(m)'
    <3>1. CASE m = l
      <4>1. lane'[l].photo = p
        BY <1>4, <2>2, <3>1 DEF IdleLane
      <4>2. p \notin condemned' /\ Exists(p)' /\ lane'[l].pc # "idle"
        BY <2>2, <3>1, <4>1 DEF Exists
      <4> QED BY <1>2, <3>1, <4>2, LaneBuiltOn
    <3>2. CASE m # l
      <4>1. lane'[m] = lane[m] /\ lane[m].pc # "idle"
        BY <1>1, <2>2, <3>2
      <4>2. PICK q \in Photo : q = lane[m].photo
        BY <4>1, WorkingLane DEF Working
      <4>3. q \notin condemned' /\ Exists(q)'
        BY <2>2, <4>1, <4>2 DEF Exists
      <4>4. CASE Kind(q)
        BY <1>1, <4>1, <4>2, <4>3, <4>4, BuiltStays
      <4>5. CASE ~ Kind(q)
        <5>1. q = p /\ UNCHANGED photos /\ lane[l].pc \in {"clear", "saverDrop"}
          BY <1>3, <4>5 DEF LaneEffect
        <5>2. Exists(lane[l].photo)
          BY <1>2, <4>3, <5>1 DEF Exists
        <5>3. lane[m].pc \notin HandlerStep
          BY <1>2, <1>5, <3>2, <4>2, <5>1, <5>2, OneHandlerPhoto
        <5> QED BY <4>1, <5>3 DEF Built, Derived, HandlerStep, Step
      <4> QED BY <4>4, <4>5
    <3> QED BY <3>1, <3>2
  <2> QED BY <2>1, <2>2 DEF LaneBuilds
<1>7. \A o \in Photo : photos'[o].state = "absent" <=> photos[o].state = "absent"
  <2>1. Exists(p) => Exists(p)'
    BY WorkerKeeps
  <2>2. photos[p].state # "absent"
    BY <1>1, <1>2, LaneRow DEF Working
  <2> QED BY <1>3, <2>1, <2>2 DEF LaneEffect, Exists, PhotoState
<1>8. ImportBuilds'
  <2>1. ASSUME NEW r \in Request, req[r].kind = "ingest", req[r].photo \notin condemned'
        PROVE  Imported(r)'
    <3>1. PICK o \in Photo : o = req[r].photo
      BY <2>1, Owned
    <3>2. req'[r] = req[r]
      OBVIOUS
    <3>3. CASE o # p
      BY <1>1, <1>3, <2>1, <3>1, <3>2, <3>3, ImportedStays DEF LaneEffect
    <3>4. CASE o = p
      <4>1. req[r].pc \notin {"put", "row"} /\ ~ Exists(p)
        BY <1>1, <1>2, <2>1, <3>1, <3>4, ImportApart
      <4>2. ~ Exists(p)'
        BY <1>3, <4>1 DEF LaneEffect, Exists
      <4> QED BY <1>1, <2>1, <3>1, <3>2, <3>4, <4>1, <4>2, ImportedStays
    <3> QED BY <3>3, <3>4
  <2>2. \A r \in Request : req[r].kind = "ingest" => req[r].photo \in Photo
    BY Owned
  <2> QED BY <1>7, <2>1, <2>2 DEF ImportBuilds
<1>9. Unmoved'
  <2>1. photos[p].state # "absent"
    BY <1>1, <1>2, LaneRow DEF Working
  <2> QED BY <1>3, <1>7, <2>1 DEF Unmoved, LaneEffect
<1>10. ASSUME NEW o \in Photo \ condemned', photos'[o].state = "Ready"
       PROVE  Servable(o)'
  <2>1. Exists(o)' /\ o \notin condemned
    BY <1>1, <1>10 DEF Exists, PhotoState
  <2>2. ASSUME Kind(o), photos[o].state = "Ready"
        PROVE  Servable(o)'
    BY <2>1, <2>2, <1>10, ServableStays DEF Shown
  <2>3. CASE o # p
    BY <1>3, <1>10, <2>2, <2>3 DEF LaneEffect
  <2>4. CASE o = p /\ photos[p].state = "Ready"
    BY <1>3, <1>5, <2>2, <2>4 DEF LaneEffect
  <2>5. CASE o = p /\ photos[p].state # "Ready"
    <3>1. lane[l].pc = "publish" /\ Kind(p)
      BY <1>3, <1>10, <2>5 DEF LaneEffect
    <3>2. Exists(p)
      BY <2>1, <2>5, <3>1, <1>10 DEF Kind
    <3>3. Built(l)
      BY <1>1, <1>2, <2>1, <2>5, <3>2 DEF LaneBuilds, Working
    <3>4. Servable(p)
      BY <1>2, <3>1, <3>3 DEF Built, Derived, Servable, Ingested
    <3> QED BY <1>10, <2>1, <2>5, <3>1, <3>4, ServableStays
  <2> QED BY <2>3, <2>4, <2>5
<1>11. Shown'
  BY <1>10 DEF Shown
<1> QED BY <1>6, <1>8, <1>9, <1>11

-----------------------------------------------------------------------------
(* The requests, the loop and the sweeper.                                 *)

(* Who does not move the lanes leaves what they have built. *)
LEMMA LanesBuilt ==
    ASSUME TypeInv, OrderInv, LaneBuilds, UNCHANGED lane, condemned \subseteq condemned',
           \A o \in Photo : Kind(o) \/ ~ Exists(o)' \/ photos[o].state = "absent"
    PROVE  LaneBuilds'
<1>1. ASSUME NEW m \in Lane,
             (lane[m].pc # "idle" /\ lane[m].photo \notin condemned /\ Exists(lane[m].photo))'
      PROVE  Built(m)'
  <2>1. lane'[m] = lane[m] /\ lane[m].pc # "idle"
    BY <1>1
  <2>2. PICK q \in Photo : q = lane[m].photo
    BY <2>1, LaneRow
  <2>3. q \notin condemned' /\ Exists(q)' /\ photos[q].state # "absent"
    BY <1>1, <2>1, <2>2, LaneRow DEF Exists
  <2>4. Kind(q)
    BY <2>3
  <2> QED BY <2>1, <2>2, <2>3, <2>4, BuiltStays
<1> QED BY <1>1 DEF LaneBuilds

(* What is Ready after a step, and was servable before it. *)
LEMMA ShownStays ==
    ASSUME TypeInv, Shown, condemned \subseteq condemned',
           \A o \in Photo \ condemned' :
              photos'[o].state = "Ready" => (photos[o].state = "Ready" \/ Servable(o)) /\ Kind(o)
    PROVE  Shown'
<1>1. ASSUME NEW o \in Photo \ condemned', photos'[o].state = "Ready"
      PROVE  Servable(o)'
  <2>1. Exists(o)' /\ o \notin condemned /\ Kind(o)
    BY <1>1 DEF Exists, PhotoState
  <2>2. Servable(o)
    BY <1>1, <2>1 DEF Shown
  <2> QED BY <1>1, <2>1, <2>2, ServableStays
<1> QED BY <1>1 DEF Shown

(* What a running request does to the photos. *)
ServeEffect(r, p) ==
    /\ \A o \in Photo \ {p} : photos'[o] = photos[o] /\ Kind(o)
    /\ Kind(p) \/ IngestRow(r)
    /\ photos'[p].state = "absent" => photos'[p] = photos[p]
    /\ photos'[p].state = "Ready" => photos[p].state = "Ready" \/ (IngestReady(r) /\ Exists(p))

LEMMA ServeAffects ==
    ASSUME TypeInv, Asked, NEW r \in Request, Serve(r) \/ Disconnect(r),
           NEW p \in Photo, p = req[r].photo
    PROVE  ServeEffect(r, p)
<1>1. BlobsKept /\ UNCHANGED condemned
  BY RequestBlobs
<1>2. photos \in [Photo -> PhotoRow] /\ variants \in [Photo -> SUBSET VariantKind]
  BY DEF TypeInv, TypeOK, StoreTypeOK
<1>3. ASSUME \A o \in Photo : variants[o] \subseteq variants'[o],
             \/ UNCHANGED photos
             \/ /\ \A o \in Photo \ {p} : photos'[o] = photos[o]
                /\ photos'[p].path = photos[p].path
                /\ photos'[p].state \in PhotoState
                /\ Exists(p) \/ IngestRow(r)
                /\ photos'[p].state \in {photos[p].state, "PendingProcessing", "Processing"} \/ (IngestReady(r) /\ Exists(p))
      PROVE  ServeEffect(r, p)
  BY <1>1, <1>3 DEF ServeEffect, Kind, Exists, BlobsKept, PhotoState
<1>4. CASE CompleteSave(r) \/ IngestRow(r) \/ IngestReady(r)
  <2>1. /\ UNCHANGED variants
        /\ \/ UNCHANGED photos
           \/ \E s \in {"PendingProcessing", "Processing", "Ready"} :
                 /\ photos' = [photos EXCEPT ![p].state = s]
                 /\ Exists(p) \/ IngestRow(r)
                 /\ s \in {"PendingProcessing", "Processing"} \/ (IngestReady(r) /\ Exists(p))
    BY <1>4 DEF CompleteSave, IngestRow, IngestReady, storeVars
  <2>2. ASSUME NEW s \in {"PendingProcessing", "Processing", "Ready"}, photos' = [photos EXCEPT ![p].state = s]
        PROVE  /\ \A o \in Photo \ {p} : photos'[o] = photos[o]
               /\ photos'[p].path = photos[p].path /\ photos'[p].state = s /\ s \in PhotoState
    BY <1>2, <2>2 DEF PhotoRow, PhotoState
  <2> QED BY <1>2, <1>3, <2>1, <2>2
<1>5. CASE AttachFlag(r)
  <2>1. UNCHANGED variants /\ (UNCHANGED photos \/ (Exists(p) /\ photos' = [photos EXCEPT ![p].live = TRUE]))
    BY <1>5 DEF AttachFlag
  <2>2. \A row \in PhotoRow : [row EXCEPT !.live = TRUE].state = row.state /\ [row EXCEPT !.live = TRUE].path = row.path
    BY Zenon DEF PhotoRow
  <2>3. CASE Exists(p) /\ photos' = [photos EXCEPT ![p].live = TRUE]
    <3>1. photos'[p] = [photos[p] EXCEPT !.live = TRUE] /\ \A o \in Photo \ {p} : photos'[o] = photos[o]
      BY <1>2, <2>3
    <3>2. photos'[p].state = photos[p].state /\ photos'[p].path = photos[p].path
      BY <1>2, <2>2, <3>1
    <3> QED BY <1>2, <1>3, <2>1, <2>3, <3>1, <3>2 DEF Exists
  <2> QED BY <1>2, <1>3, <2>1, <2>3
<1>6. CASE IngestInsert(r) \/ AttachAdd(r)
  <2>1. UNCHANGED photos /\ (UNCHANGED variants \/ \E k : variants' = [variants EXCEPT ![p] = variants[p] \cup {k}])
    BY <1>6 DEF IngestInsert, AttachAdd
  <2> QED BY <1>2, <1>3, <2>1
<1>7. CASE DeleteRow(r)
  <2>1. CASE UNCHANGED <<photos, variants>>
    BY <1>3, <2>1
  <2>2. CASE RemovePhoto(p)
    <3>1. /\ photos' = [photos EXCEPT ![p] = NoRow("deleted")]
          /\ variants' = [variants EXCEPT ![p] = {}]
      BY <2>2 DEF RemovePhoto
    <3>2. photos'[p].state = "deleted" /\ \A o \in Photo \ {p} : photos'[o] = photos[o] /\ variants'[o] = variants[o]
      BY <1>2, <3>1 DEF NoRow
    <3> QED BY <1>1, <3>2 DEF ServeEffect, Kind, Exists, BlobsKept, PhotoState
  <2> QED BY <1>7, <2>1, <2>2 DEF DeleteRow
<1>8. CASE DeleteVariants(r)
  <2>1. /\ UNCHANGED photos /\ p \in condemned
        /\ \A o \in Photo \ {p} : variants'[o] = variants[o]
    BY <1>2, <1>8 DEF DeleteVariants, At, Asked
  <2> QED BY <1>1, <2>1 DEF ServeEffect, Kind, Exists, BlobsKept
<1>9. CASE \/ CompleteExists(r) \/ AbortBlob(r) \/ DeleteList(r) \/ DeleteBlob(r) \/ AttachFind(r) \/ AttachPut(r)
           \/ ReprocessEnqueue(r) \/ IngestPut(r) \/ Disconnect(r)
  <2>1. UNCHANGED <<photos, variants>>
    BY <1>9 DEF CompleteExists, AbortBlob, DeleteList, DeleteBlob, AttachFind, AttachPut, ReprocessEnqueue, IngestPut,
         Disconnect, storeVars
  <2> QED BY <1>3, <2>1
<1> QED BY <1>4, <1>5, <1>6, <1>7, <1>8, <1>9 DEF Serve

LEMMA GoneTo ==
    ASSUME TypeInv, NEW r \in Request, NEW pc, NEW todo, Goto(r, pc, todo)
    PROVE  req'[r].pc = pc /\ req'[r].todo = todo
<1>1. req'[r] = [req[r] EXCEPT !.pc = pc, !.todo = todo]
  BY DEF Goto, TypeInv, TypeOK, ApiTypeOK
<1> QED BY <1>1 DEF TypeInv, TypeOK, ApiTypeOK, RequestRecord, NoRequest

(* How far the import itself has come. *)
LEMMA ImportOn ==
    ASSUME TypeInv, Asked, Unmoved, ImportBuilds, NEW r \in Request, Serve(r) \/ Disconnect(r),
           req'[r].kind = "ingest", NEW p \in Photo, p = req[r].photo
    PROVE  /\ req'[r].photo = p
           /\ req'[r].pc \in {"put", "row", "insert", "ready"}
           /\ req'[r].pc \in {"insert", "ready"} => photos'[p].state # "absent"
           /\ p \notin condemned' => Imported(r)'
<1>1. BlobsKept /\ UNCHANGED condemned
  BY RequestBlobs
<1>2. photos \in [Photo -> PhotoRow] /\ variants \in [Photo -> SUBSET VariantKind]
  BY DEF TypeInv, TypeOK, StoreTypeOK
<1>3. ~ Return(r)
  BY SlotKept
<1>4. \E pc, todo : Goto(r, pc, todo)
  BY <1>3 DEF Serve, Disconnect, CompleteExists, CompleteSave, AbortBlob, DeleteRow, DeleteList, DeleteBlob,
       DeleteVariants, AttachFind, AttachPut, AttachAdd, AttachFlag, ReprocessEnqueue, IngestPut, IngestRow,
       IngestInsert, IngestReady
<1>5. req[r].kind = "ingest" /\ req'[r].photo = p
  BY <1>4, SlotKept DEF ReqKept
<1>6. \A b \in BlobName : p \notin condemned' /\ <<p, b>> \in blobs => <<p, b>> \in blobs'
  BY <1>1 DEF BlobsKept
<1>7. p \notin condemned' => Imported(r)
  BY <1>1, <1>5 DEF ImportBuilds
<1>8. CASE IngestPut(r)
  <2>1. PICK b \in req[r].todo :
          /\ blobs' = blobs \cup {<<p, b>>} /\ req[r].pc = "put" /\ UNCHANGED photos
          /\ Goto(r, IF req[r].todo = {b} THEN "row" ELSE "put", req[r].todo \ {b})
    BY <1>8 DEF IngestPut, PutBlob, At
  <2>2. req'[r].pc = (IF req[r].todo = {b} THEN "row" ELSE "put") /\ req'[r].todo = req[r].todo \ {b}
    BY <2>1, GoneTo
  <2>3. p \notin condemned' => \A u \in Uploaded \ req[r].todo : <<p, u>> \in blobs
    BY <1>7, <2>1 DEF Imported
  <2> QED BY <1>5, <2>1, <2>2, <2>3 DEF Imported
<1>9. CASE IngestRow(r)
  <2>1. /\ photos' = [photos EXCEPT ![p].state = "Processing"] /\ UNCHANGED blobs
        /\ req[r].pc = "row" /\ Goto(r, "insert", Ingested)
    BY <1>9 DEF IngestRow, At
  <2>2. req'[r].pc = "insert" /\ req'[r].todo = Ingested
    BY <2>1, GoneTo
  <2>3. photos[p].path = "upload"
    BY <1>5, <2>1 DEF TypeInv, Minted, Inserting, Unmoved
  <2>4. photos'[p].state = "Processing" /\ photos'[p].path = "upload"
    BY <1>2, <2>1, <2>3 DEF PhotoRow
  <2>5. p \notin condemned' => \A u \in Uploaded : <<p, u>> \in blobs
    BY <1>7, <2>1 DEF Imported
  <2> QED BY <1>5, <2>1, <2>2, <2>4, <2>5 DEF Imported, Uploaded, Sound
<1>10. CASE IngestInsert(r)
  <2>1. PICK k \in req[r].todo :
          /\ variants' = [variants EXCEPT ![p] = variants[p] \cup {k}]
          /\ req[r].pc = "insert" /\ UNCHANGED <<photos, blobs>>
          /\ Goto(r, IF req[r].todo = {k} THEN "ready" ELSE "insert", req[r].todo \ {k})
    BY <1>3, <1>10 DEF IngestInsert, At
  <2>2. /\ req'[r].pc = (IF req[r].todo = {k} THEN "ready" ELSE "insert")
        /\ req'[r].todo = req[r].todo \ {k} /\ variants'[p] = variants[p] \cup {k}
    BY <1>2, <2>1, GoneTo
  <2>3. photos[p].state # "absent"
    BY <1>5, <2>1 DEF ImportBuilds
  <2>4. p \notin condemned' /\ Exists(p) =>
          /\ Sound(p) /\ <<p, "preview">> \in blobs /\ <<p, "thumbnail">> \in blobs
          /\ Ingested \ req[r].todo \subseteq variants[p]
    BY <1>7, <2>1 DEF Imported
  <2> QED BY <1>5, <2>1, <2>2, <2>3, <2>4 DEF Imported, Sound, Exists
<1>11. CASE ~ (IngestPut(r) \/ IngestRow(r) \/ IngestInsert(r))
  BY <1>3, <1>5, <1>11 DEF Serve, Disconnect, At, CompleteExists, CompleteSave, AbortBlob, DeleteRow, DeleteList, DeleteBlob,
       DeleteVariants, AttachFind, AttachPut, AttachAdd, AttachFlag, ReprocessEnqueue, IngestReady
<1> QED BY <1>8, <1>9, <1>10, <1>11

LEMMA ServeBuild ==
    ASSUME Orderly, SysInv, BuildInv, NEW r \in Request, Serve(r) \/ Disconnect(r), UNCHANGED lane
    PROVE  BuildInv'
<1> USE DEF SysInv, BuildInv
<1>1. Asked /\ BlobsKept /\ UNCHANGED condemned
  BY RequestBlobs DEF Orderly, KeptInv
<1>2. PICK p \in Photo : p = req[r].photo
  BY RequestServed
<1>3. ServeEffect(r, p)
  BY <1>1, <1>2, ServeAffects
<1>4. IngestRow(r) => photos[p].state = "absent"
  BY <1>2 DEF IngestRow, At, TypeInv, Minted, Inserting
<1>5. LaneBuilds'
  BY <1>1, <1>3, <1>4, LanesBuilt DEF ServeEffect
<1>6. ReqKept /\ \A s \in Request \ {r} : req'[s] = req[s]
  <2>1. Return(r) \/ \E pc, todo : Goto(r, pc, todo)
    BY DEF Serve, Disconnect, CompleteExists, CompleteSave, AbortBlob, DeleteRow, DeleteList, DeleteBlob,
         DeleteVariants, AttachFind, AttachPut, AttachAdd, AttachFlag, ReprocessEnqueue, IngestPut, IngestRow,
         IngestInsert, IngestReady
  <2> QED BY <2>1, SlotKept
<1>7. ImportBuilds'
  <2>1. ASSUME NEW s \in Request \ {r}, req'[s].kind = "ingest"
        PROVE  /\ req'[s].pc \in {"put", "row", "insert", "ready"}
               /\ req'[s].pc \in {"insert", "ready"} => photos'[req'[s].photo].state # "absent"
               /\ req'[s].photo \notin condemned' => Imported(s)'
    <3>1. req'[s] = req[s] /\ req[s].kind = "ingest"
      BY <1>6, <2>1
    <3>2. PICK q \in Photo : q = req[s].photo
      BY <3>1, Owned
    <3>3. /\ req[s].pc \in {"put", "row", "insert", "ready"}
          /\ req[s].pc \in {"insert", "ready"} => photos[q].state # "absent"
      BY <3>1, <3>2 DEF ImportBuilds
    <3>4. req[s].pc \in {"insert", "ready"} => photos'[q].state # "absent"
      BY <1>3, <3>3 DEF ServeEffect
    <3>5. Kind(q)
      <4>1. CASE q # p
        BY <1>3, <4>1 DEF ServeEffect
      <4>2. ASSUME q = p, IngestRow(r) PROVE FALSE
        <5>1. Inserting(r) /\ photos[p].state = "absent"
          BY <1>4, <4>2 DEF IngestRow, At, Inserting
        <5>2. Inserting(s)
          BY <3>1, <3>3, <4>2, <5>1 DEF Inserting
        <5> QED BY <1>2, <2>1, <3>2, <4>2, <5>1, <5>2 DEF TypeInv, Minted
      <4> QED BY <1>3, <4>1, <4>2 DEF ServeEffect
    <3>6. q \notin condemned' => Imported(s)'
      BY <1>1, <3>1, <3>2, <3>5, ImportedStays
    <3> QED BY <3>1, <3>2, <3>3, <3>4, <3>6
  <2>2. ASSUME req'[r].kind = "ingest"
        PROVE  /\ req'[r].pc \in {"put", "row", "insert", "ready"}
               /\ req'[r].pc \in {"insert", "ready"} => photos'[req'[r].photo].state # "absent"
               /\ req'[r].photo \notin condemned' => Imported(r)'
    BY <1>1, <1>2, <2>2, ImportOn
  <2> QED BY <2>1, <2>2 DEF ImportBuilds
<1>8. Unmoved'
  BY <1>3 DEF Unmoved, ServeEffect
<1>9. Shown'
  <2>1. ASSUME NEW o \in Photo \ condemned', photos'[o].state = "Ready"
        PROVE  (photos[o].state = "Ready" \/ Servable(o)) /\ Kind(o)
    <3>1. CASE o # p
      BY <1>3, <2>1, <3>1 DEF ServeEffect
    <3>2. CASE o = p /\ IngestReady(r) /\ Exists(p)
      <4>1. Imported(r) /\ req[r].pc = "ready"
        BY <1>1, <1>2, <2>1, <3>2 DEF ImportBuilds, IngestReady, At
      <4>2. Servable(p)
        BY <1>2, <3>2, <4>1 DEF Imported, Servable
      <4>3. ~ IngestRow(r)
        BY <3>2 DEF IngestReady, IngestRow, At
      <4> QED BY <1>3, <3>2, <4>2, <4>3 DEF ServeEffect
    <3>3. CASE o = p /\ photos[p].state = "Ready"
      BY <1>3, <1>4, <3>3 DEF ServeEffect
    <3> QED BY <1>3, <2>1, <3>1, <3>2, <3>3 DEF ServeEffect
  <2> QED BY <1>1, <2>1, ShownStays
<1> QED BY <1>5, <1>7, <1>8, <1>9

LEMMA ArrivalBuild ==
    ASSUME SysInv, BytesInv, BuildInv, Arrival, UNCHANGED lane
    PROVE  BuildInv'
<1> USE DEF SysInv, BuildInv
<1>1. BlobsKept
  BY ArrivalConfirms DEF BytesInv
<1>2. UNCHANGED variants /\ photos \in [Photo -> PhotoRow]
  BY DEF Arrival, CreateUploadTicket, ClientPut, ClientGone, CompleteBegin, AbortBegin, DeleteBegin,
       AttachBegin, ReprocessBegin, IngestBegin, storeVars, TypeInv, TypeOK, StoreTypeOK
<1>3. CASE \E p \in Photo : CreateUploadTicket(p)
  <2>1. PICK p \in Photo : CreateUploadTicket(p)
    BY <1>3
  <2>2. /\ client[p] = "idle" /\ photos[p].state = "absent" /\ UNCHANGED req
        /\ \A o \in Photo \ {p} : photos'[o] = photos[o]
        /\ photos'[p].state = "PendingUpload"
    BY <1>2, <2>1 DEF CreateUploadTicket, TypeInv, Minted, PhotoRow
  <2>3. \A o \in Photo \ {p} : Kind(o)
    BY <1>1, <1>2, <2>2 DEF Kind, BlobsKept, Exists
  <2>4. LaneBuilds'
    BY <1>1, <2>2, <2>3, LanesBuilt DEF BlobsKept
  <2>5. ASSUME NEW r \in Request, req[r].kind = "ingest"
        PROVE  /\ req[r].pc \in {"insert", "ready"} => photos'[req[r].photo].state # "absent"
               /\ req[r].photo \notin condemned' => Imported(r)'
    <3>1. PICK q \in Photo : q = req[r].photo
      BY <2>5, Owned
    <3>2. q # p
      BY <2>2, <2>5, <3>1 DEF TypeInv, Minted
    <3>3. req'[r] = req[r] /\ condemned \subseteq condemned'
      BY <1>1, <2>2 DEF BlobsKept
    <3>4. q \notin condemned' => Imported(r)'
      BY <2>3, <2>5, <3>1, <3>2, <3>3, ImportedStays
    <3> QED BY <2>2, <2>5, <3>1, <3>2, <3>4 DEF ImportBuilds
  <2>6. ImportBuilds'
    BY <2>2, <2>5 DEF ImportBuilds
  <2>7. Shown' /\ Unmoved'
    BY <1>1, <2>2, <2>3, ShownStays DEF BlobsKept, Unmoved
  <2> QED BY <2>4, <2>6, <2>7
<1>4. CASE ~ \E p \in Photo : CreateUploadTicket(p)
  <2>1. UNCHANGED photos
    BY <1>4 DEF Arrival, ClientPut, ClientGone, CompleteBegin, AbortBegin, DeleteBegin,
         AttachBegin, ReprocessBegin, IngestBegin, storeVars
  <2>2. \A o \in Photo : Kind(o)
    BY <1>1, <1>2, <2>1 DEF Kind, BlobsKept, Exists
  <2>3. LaneBuilds' /\ Shown' /\ Unmoved'
    BY <1>1, <2>1, <2>2, LanesBuilt, ShownStays DEF BlobsKept, Unmoved
  <2>4. ASSUME NEW r \in Request, req'[r].kind = "ingest"
        PROVE  \/ req'[r] = req[r]
               \/ req'[r].pc = "put" /\ req'[r].todo = Uploaded
    <3>1. CASE UNCHANGED req
      BY <3>1
    <3>2. CASE \E s \in Request, p \in Photo :
                 \/ CompleteBegin(s, p) \/ AbortBegin(s, p) \/ DeleteBegin(s, p)
                 \/ AttachBegin(s, p) \/ ReprocessBegin(s, p) \/ IngestBegin(s, p)
      <4>1. PICK s \in Request, p \in Photo :
                 \/ CompleteBegin(s, p) \/ AbortBegin(s, p) \/ DeleteBegin(s, p)
                 \/ AttachBegin(s, p) \/ ReprocessBegin(s, p) \/ IngestBegin(s, p)
        BY <3>2
      <4>2. PICK kind, pc, todo :
              /\ Begin(s, kind, p, pc, todo)
              /\ kind = "ingest" => pc = "put" /\ todo = Uploaded
        BY <4>1 DEF CompleteBegin, AbortBegin, DeleteBegin, AttachBegin, ReprocessBegin, IngestBegin, Uploaded
      <4>3. req'[s].kind = kind /\ \A t \in Request \ {s} : req'[t] = req[t]
        BY <4>2, BegunSlot
      <4>4. req'[s].pc = pc /\ req'[s].todo = todo
        BY <4>2 DEF Begin, TypeInv, TypeOK, ApiTypeOK
      <4> QED BY <2>4, <4>2, <4>3, <4>4
    <3> QED BY <1>4, <3>1, <3>2 DEF Arrival, ClientPut, ClientGone
  <2>5. ASSUME NEW r \in Request, req'[r].kind = "ingest"
        PROVE  /\ req'[r].pc \in {"put", "row", "insert", "ready"}
               /\ req'[r].pc \in {"insert", "ready"} => photos'[req'[r].photo].state # "absent"
               /\ req'[r].photo \notin condemned' => Imported(r)'
    <3>1. CASE req'[r] = req[r]
      <4>1. req[r].kind = "ingest"
        BY <2>5, <3>1
      <4>2. PICK q \in Photo : q = req[r].photo
        BY <4>1, Owned
      <4>3. q \notin condemned' => Imported(r)'
        BY <1>1, <2>2, <3>1, <4>1, <4>2, ImportedStays DEF BlobsKept
      <4> QED BY <2>1, <3>1, <4>1, <4>2, <4>3 DEF ImportBuilds
    <3>2. CASE req'[r].pc = "put" /\ req'[r].todo = Uploaded
      BY <3>2 DEF Imported
    <3> QED BY <2>4, <2>5, <3>1, <3>2
  <2>6. ImportBuilds'
    BY <2>5 DEF ImportBuilds
  <2> QED BY <2>3, <2>6
<1> QED BY <1>3, <1>4

(* The sweeper drops no object and no row of a photo that anyone builds. *)
LEMMA SweepBuild ==
    ASSUME SysInv, BuildInv, SweeperNext, UNCHANGED <<lane, req>>
    PROVE  BuildInv'
<1> USE DEF SysInv, BuildInv
<1>1. photos \in [Photo -> PhotoRow] /\ variants \in [Photo -> SUBSET VariantKind] /\ UNCHANGED condemned
  BY DEF TypeInv, TypeOK, StoreTypeOK, SweeperNext, SweepList, SweepRow, SweepBlob, storeVars
<1>2. \A r \in Request : req[r].kind = "ingest" => req[r].photo \in Photo
  BY Owned
<1>3. CASE \E p \in Photo : SweepBlob(p)
  <2>1. PICK p \in Photo : SweepBlob(p)
    BY <1>3
  <2>2. /\ UNCHANGED <<photos, variants>> /\ p \in sweep.todo
        /\ blobs' = blobs \/ blobs' = blobs \ {<<p, "upload">>}
    BY <2>1 DEF SweepBlob, DropBlob
  <2>3. /\ \A o \in Photo : o # p => Kind(o)
        /\ p \in condemned => Kind(p)
    BY <1>1, <2>2 DEF Kind, Exists
  <2>4. p \in condemned \/ photos[p].state = "PendingUpload" \/ photos[p].state = "deleted"
    BY <2>2 DEF OrderInv, SweepHolds
  <2>5. LaneBuilds'
    <3>1. ASSUME NEW m \in Lane,
                 (lane[m].pc # "idle" /\ lane[m].photo \notin condemned /\ Exists(lane[m].photo))'
          PROVE  Built(m)'
      <4>1. lane'[m] = lane[m] /\ lane[m].pc # "idle"
        BY <3>1
      <4>2. PICK q \in Photo : q = lane[m].photo
        BY <4>1, LaneRow
      <4>3. q \notin condemned' /\ Exists(q)' /\ Exists(q) /\ photos[q].state # "PendingUpload"
        BY <2>2, <3>1, <4>1, <4>2, LaneRow DEF Exists
      <4>4. Kind(q)
        BY <1>1, <2>3, <2>4, <4>3 DEF Exists, PhotoState
      <4> QED BY <1>1, <4>1, <4>2, <4>3, <4>4, BuiltStays
    <3> QED BY <3>1 DEF LaneBuilds
  <2>6. ImportBuilds'
    <3>1. ASSUME NEW r \in Request, req[r].kind = "ingest", req[r].photo \notin condemned'
          PROVE  Imported(r)'
      <4>1. PICK q \in Photo : q = req[r].photo
        BY <1>2, <3>1
      <4>2. Kind(q) \/ photos[q].state = "deleted"
        BY <2>3, <2>4, <3>1, <4>1 DEF OrderInv, Ingesting
      <4>3. photos[q].state = "deleted" => req[r].pc \notin {"put", "row"} /\ ~ Exists(q)'
        BY <2>2, <3>1, <4>1 DEF TypeInv, Minted, Inserting, Exists, PhotoState
      <4>4. req'[r] = req[r]
        OBVIOUS
      <4> QED BY <1>1, <3>1, <4>1, <4>2, <4>3, <4>4, ImportedStays
    <3> QED BY <2>2, <3>1 DEF ImportBuilds
  <2>7. Shown' /\ Unmoved'
    <3>1. \A o \in Photo \ condemned' : photos'[o].state = "Ready" => photos[o].state = "Ready" /\ Kind(o)
      BY <1>1, <2>2, <2>3, <2>4
    <3> QED BY <1>1, <2>2, <3>1, ShownStays DEF Unmoved
  <2> QED BY <2>5, <2>6, <2>7
<1>4. CASE SweepList \/ SweepRow
  <2>1. /\ UNCHANGED blobs
        /\ \A o \in Photo :
              \/ photos'[o] = photos[o] /\ variants'[o] = variants[o]
              \/ photos'[o].state = "deleted"
    <3>1. CASE UNCHANGED <<photos, variants, blobs>>
      BY <3>1
    <3>2. CASE SweepRow /\ RemovePhoto(sweep.at)
      <4>1. NoRow("deleted").state = "deleted"
        BY DEF NoRow
      <4> QED BY <1>1, <3>2, <4>1 DEF SweepRow, RemovePhoto
    <3> QED BY <1>4, <3>1, <3>2 DEF SweepList, SweepRow, storeVars
  <2>2. \A o \in Photo : Kind(o)
    BY <2>1 DEF Kind, Exists, PhotoState
  <2>3. LaneBuilds' /\ Shown' /\ Unmoved'
    BY <1>1, <2>1, <2>2, LanesBuilt, ShownStays DEF Unmoved
  <2>4. ASSUME NEW r \in Request, req[r].kind = "ingest", req[r].photo \notin condemned'
        PROVE  Imported(r)'
    <3>1. PICK q \in Photo : q = req[r].photo
      BY <1>2, <2>4
    <3>2. req'[r] = req[r]
      OBVIOUS
    <3> QED BY <1>1, <2>2, <2>4, <3>1, <3>2, ImportedStays
  <2>5. ImportBuilds'
    BY <1>2, <2>1, <2>4 DEF ImportBuilds
  <2> QED BY <2>3, <2>5
<1> QED BY <1>3, <1>4 DEF SweeperNext

(* The loop, a crash and a stutter touch no photo. *)
LEMMA WorkerBuild ==
    ASSUME BuildInv, UNCHANGED <<photos, variants, blobs, condemned, req>>,
           \A l \in Lane : lane'[l] = lane[l] \/ lane'[l].pc \in {"load", "idle"}
    PROVE  BuildInv'
<1> USE DEF BuildInv
<1>1. LaneBuilds'
  <2>1. ASSUME NEW l \in Lane
        PROVE  /\ lane'[l].pc \in Opening => lane'[l].read.state # "Processing"
               /\ (lane[l].pc # "idle" /\ lane[l].photo \notin condemned /\ Exists(lane[l].photo))' => Built(l)'
    <3>1. CASE lane'[l] = lane[l]
      BY <3>1 DEF LaneBuilds, Built, Sound, Exists, Repoints
    <3>2. CASE lane'[l].pc \in {"load", "idle"}
      BY <3>2 DEF Built, Opening, Derived
    <3> QED BY <3>1, <3>2
  <2> QED BY <2>1 DEF LaneBuilds
<1>2. ImportBuilds' /\ Unmoved' /\ Shown'
  BY DEF ImportBuilds, Imported, Unmoved, Shown, Servable, Sound, Exists
<1> QED BY <1>1, <1>2

LEMMA NextBuild ==
    ASSUME Orderly, SysInv, BytesInv, BuildInv, [Next]_vars
    PROVE  BuildInv'
<1>1. CASE ApiMoves
  <2>1. UNCHANGED lane
    BY <1>1 DEF ApiMoves, workerVars
  <2> QED BY <1>1, <2>1, ServeBuild, ArrivalBuild DEF ApiMoves, ApiNext
<1>2. CASE Looping
  <2>1. UNCHANGED <<photos, variants, blobs, condemned, req>>
    BY <1>2 DEF Looping, LoopStep, SkipBusyLane, EmptySlice, Claim, ClaimThrows, EndFill, LaneFreed,
         storeVars, apiVars
  <2>2. ASSUME NEW m \in Lane PROVE lane'[m] = lane[m] \/ lane'[m].pc \in {"load", "idle"}
    <3>1. ASSUME NEW l \in Lane, Claim(l)
          PROVE  lane'[m] = lane[m] \/ lane'[m].pc = "load"
      <4>1. PICK j, p : lane' = [lane EXCEPT ![l] = [IdleLane EXCEPT !.pc = "load", !.job = j, !.photo = p]]
        BY <3>1 DEF Claim
      <4> DEFINE q == [IdleLane EXCEPT !.pc = "load", !.job = j, !.photo = p]
      <4>2. q.pc = "load"
        BY DEF IdleLane
      <4> HIDE DEF q
      <4>3. lane'[m] = lane[m] \/ lane'[m] = q
        BY <4>1 DEF q, SysInv, TypeInv, TypeOK, WorkerTypeOK
      <4> QED BY <4>2, <4>3
    <3>2. CASE ~ \E l \in Lane : Claim(l)
      BY <1>2, <3>2 DEF Looping, LoopStep, SkipBusyLane, EmptySlice, ClaimThrows, EndFill, LaneFreed
    <3> QED BY <3>1, <3>2
  <2> QED BY <2>1, <2>2, WorkerBuild
<1>3. CASE \E l \in Lane : Processing(l) \/ Failing(l)
  BY <1>3, LaneBuild DEF Processing, Failing, apiVars
<1>4. CASE Crashing
  <2>1. /\ UNCHANGED <<photos, variants, blobs, condemned, req>>
        /\ lane' = [l \in Lane |-> IdleLane] /\ IdleLane.pc = "idle"
    BY <1>4 DEF Crashing, WorkerCrash, apiVars, IdleLane
  <2> QED BY <2>1, WorkerBuild
<1>5. CASE Sweeping
  BY <1>5, SweepBuild DEF Sweeping, apiVars, workerVars
<1>6. CASE UNCHANGED vars
  BY <1>6, WorkerBuild DEF vars, storeVars, apiVars, workerVars
<1> QED BY <1>1, <1>2, <1>3, <1>4, <1>5, <1>6 DEF Next

LEMMA InitBuild == Init => BuildInv
<1> SUFFICES ASSUME Init PROVE BuildInv
  OBVIOUS
<1>1. /\ \A p \in Photo : photos[p].state = "absent" /\ photos[p].path = "upload"
      /\ \A r \in Request : req[r].kind = "none"
      /\ \A l \in Lane : lane[l].pc = "idle"
  BY DEF Init, StoreInit, ApiInit, WorkerInit, NoRow, NoRequest, IdleLane
<1> QED BY <1>1 DEF BuildInv, LaneBuilds, ImportBuilds, Unmoved, Shown, Opening

(* A photo the gallery shows can be opened, whatever requests, lanes,      *)
(* sweeper and mishaps interleave: its variant rows are there and so are   *)
(* the objects they point at, unless its owner asked to delete it.         *)
THEOREM GalleryServes ==
    ASSUME Orderly
    PROVE  Spec => []ReadyServable
<1> DEFINE Inv == SysInv /\ BytesInv /\ BuildInv
<1>1. Init => Inv
  BY InitType, InitWork, InitKept, InitOrder, InitBytes, InitBuild DEF SysInv
<1>2. Inv /\ [Next]_vars => Inv'
  BY NextSys, NextBytes, NextBuild DEF Orderly, SysInv
<1>3. Inv => ReadyServable
  BY ShownServable DEF BuildInv
<1> QED BY <1>1, <1>2, <1>3, PTL DEF Spec

-----------------------------------------------------------------------------
(* What the sweeper leaves in the storage.                                 *)

(* The storage obeys the sweeper, every device has completed or given up   *)
(* when its reservation reaches the maximum age, and no clip is attached.  *)
Tidy == ~ SlowUploads /\ "fault" \notin Mishap /\ "attach" \notin Operation

(* A photo that is past its reservation, and one that never will be. *)
Past(p) == p \in condemned \/ photos[p].state \notin {"absent", "PendingUpload", "deleted"}
Forsaken(p) ==
    p \in condemned \/ (client[p] = "gone" /\ photos[p].state \in {"PendingUpload", "deleted"})
Held(p) == p \in condemned \/ client[p] \in {"uploading", "acked"}

(* The sweeper visits forsaken photos, and everybody who writes objects of *)
(* a photo, the import that still owns its id apart, works on one that is  *)
(* past its reservation.                                                   *)
SweepsForsaken == \A p \in Photo : p \in sweep.todo \cup {sweep.at} => Forsaken(p)
RequestPast(r) ==
    /\ req[r].kind = "complete" => Held(req[r].photo)
    /\ req[r].kind = "reprocess" => Past(req[r].photo)
    /\ (req[r].kind = "ingest" /\ ~ Inserting(r)) => Past(req[r].photo)
RequestsPast == \A r \in Request : RequestPast(r)
JobsPast == \A j \in Job : jobs[j].state \in JobState => Past(jobs[j].photo)
LanesPast == \A l \in Lane : lane[l].pc # "idle" => Past(lane[l].photo)

PastInv == SweepsForsaken /\ RequestsPast /\ JobsPast /\ LanesPast

(* What the storage holds of a photo that is not past its reservation. *)
Bare(p) == \A b \in BlobName : <<p, b>> \notin blobs
OnlyUpload(p) == \A b \in BlobName \ {"upload"} : <<p, b>> \notin blobs
BareInv ==
    \A p \in Photo \ condemned :
        /\ client[p] = "idle" => Bare(p)
        /\ photos[p].state = "PendingUpload" => OnlyUpload(p)
        /\ photos[p].state = "deleted" => Bare(p) /\ client[p] = "gone"
        /\ sweep.at = p => Bare(p)

(* What a step may do to a photo, and to the storage. *)
Onward(p) ==
    /\ p \in condemned => p \in condemned'
    /\ Past(p) => Past(p)'
    /\ Forsaken(p) => Forsaken(p)'
    /\ client'[p] = "idle" => client[p] = "idle"
    /\ client[p] = "gone" => client'[p] = "gone"
    /\ p \notin condemned' =>
          /\ photos'[p].state = "PendingUpload" =>
                photos[p].state = "PendingUpload" \/ (client[p] = "idle" /\ client'[p] # "idle")
          /\ photos'[p].state = "deleted" => photos[p].state = "deleted" \/ sweep.at = p
AllOnward == \A p \in Photo : Onward(p)
Adds ==
    \A p \in Photo, b \in BlobName :
        <<p, b>> \in blobs' =>
            \/ <<p, b>> \in blobs
            \/ b = "upload" /\ client[p] = "uploading"
            \/ Past(p)
            \/ \E r \in Request : Inserting(r) /\ req[r].photo = p

LEMMA StillOnward ==
    ASSUME NEW p \in Photo, photos'[p].state = photos[p].state, client'[p] = client[p],
           UNCHANGED condemned
    PROVE  Onward(p)
BY DEF Onward, Past, Forsaken

(* The storage of a photo that is not past its reservation stays as bare. *)
LEMMA BareStays ==
    ASSUME TypeInv, PastInv, BareInv, AllOnward, Adds,
           \A p \in Photo \ condemned' : sweep'.at = p => sweep.at = p \/ Bare(p)'
    PROVE  BareInv'
<1> SUFFICES ASSUME NEW p \in Photo, p \notin condemned'
             PROVE  /\ client'[p] = "idle" => Bare(p)'
                    /\ photos'[p].state = "PendingUpload" => OnlyUpload(p)'
                    /\ photos'[p].state = "deleted" => Bare(p)' /\ client'[p] = "gone"
                    /\ sweep'.at = p => Bare(p)'
  BY DEF BareInv
<1>1. p \notin condemned /\ Onward(p)
  BY DEF AllOnward, Onward
<1>2. client[p] = "idle" => photos[p].state = "absent"
  BY DEF TypeInv, Minted
<1>3. \A r \in Request : (Inserting(r) /\ req[r].photo = p) => photos[p].state = "absent" /\ client[p] # "idle"
  BY DEF TypeInv, Minted, Inserting
<1>4. client[p] = "idle" \/ photos[p].state = "deleted" \/ sweep.at = p =>
          Bare(p) /\ client[p] # "uploading" /\ ~ Past(p)
  BY <1>1, <1>2 DEF PastInv, SweepsForsaken, Forsaken, BareInv, Past
<1>5. client[p] = "idle" \/ photos[p].state = "deleted" \/ sweep.at = p => Bare(p)'
  <2>1. sweep.at = p => photos[p].state # "absent"
    BY <1>1 DEF PastInv, SweepsForsaken, Forsaken
  <2> QED BY <1>3, <1>4, <2>1 DEF Adds, Bare
<1>6. photos[p].state = "PendingUpload" => OnlyUpload(p)'
  BY <1>1, <1>3 DEF Adds, OnlyUpload, BareInv, Past
<1>7. photos'[p].state = "PendingUpload" => OnlyUpload(p)'
  BY <1>1, <1>5, <1>6 DEF Onward, Bare, OnlyUpload
<1>8. photos'[p].state = "deleted" => Bare(p)' /\ client'[p] = "gone"
  <2>1. sweep.at = p => client[p] = "gone"
    BY <1>1 DEF PastInv, SweepsForsaken, Forsaken
  <2> QED BY <1>1, <1>5, <2>1 DEF Onward, BareInv
<1> QED BY <1>1, <1>5, <1>7, <1>8 DEF Onward

(* Requests and jobs that a step leaves to their photos. *)
LEMMA RequestsStay ==
    ASSUME TypeInv, RequestsPast, AllOnward,
           \A p \in Photo :
              (client[p] \in {"uploading", "acked"} /\ InFlight(p, "complete")) => Held(p)',
           \A r \in Request : req'[r] = req[r] \/ RequestPast(r)'
    PROVE  RequestsPast'
<1> SUFFICES ASSUME NEW r \in Request, req'[r] = req[r] PROVE RequestPast(r)'
  BY DEF RequestsPast
<1>1. CASE req[r].kind = "none"
  BY <1>1 DEF RequestPast
<1>2. CASE req[r].kind # "none"
  <2>1. PICK p \in Photo : p = req[r].photo
    BY <1>2, Owned
  <2>2. req'[r].photo = p /\ Onward(p) /\ (Inserting(r)' <=> Inserting(r))
    BY <2>1 DEF AllOnward, Inserting
  <2>3. req[r].kind = "complete" => Held(p)'
    BY <2>1, <2>2 DEF RequestsPast, RequestPast, Held, InFlight, Onward
  <2> QED BY <2>1, <2>2, <2>3 DEF RequestsPast, RequestPast, Onward, Held, Past
<1> QED BY <1>1, <1>2

LEMMA JobsStay ==
    ASSUME TypeInv, JobsPast, AllOnward,
           \A j \in Job :
              jobs'[j].state \in JobState =>
                  \/ jobs[j].state \in JobState /\ jobs'[j].photo = jobs[j].photo
                  \/ \E p \in Photo : jobs'[j].photo = p /\ Past(p)'
    PROVE  JobsPast'
<1> SUFFICES ASSUME NEW j \in Job, jobs'[j].state \in JobState PROVE Past(jobs[j].photo)'
  BY DEF JobsPast
<1>1. CASE jobs[j].state \in JobState /\ jobs'[j].photo = jobs[j].photo
  <2>1. PICK p \in Photo : p = jobs[j].photo
    BY <1>1 DEF TypeInv, TypeOK, StoreTypeOK, JobRow, NoJobRow, JobState
  <2>2. Past(p)'
    BY <1>1, <2>1 DEF JobsPast, AllOnward, Onward
  <2> QED BY <1>1, <2>1, <2>2 DEF Past
<1> QED BY <1>1 DEF Past

LEMMA LanesKeep ==
    ASSUME TypeInv, LanesPast, AllOnward,
           \A l \in Lane : lane'[l].pc # "idle" => lane[l].pc # "idle" /\ lane'[l].photo = lane[l].photo
    PROVE  LanesPast'
<1> SUFFICES ASSUME NEW l \in Lane, lane'[l].pc # "idle" PROVE Past(lane[l].photo)'
  BY DEF LanesPast
<1>1. PICK p \in Photo : p = lane[l].photo
  BY WorkingLane DEF Working
<1>2. Past(p)'
  BY <1>1 DEF LanesPast, AllOnward, Onward
<1> QED BY <1>1, <1>2 DEF Past

(* The jobs a removed photo leaves. *)
LEMMA RemovedJobs ==
    ASSUME NEW p \in Photo, RemovePhoto(p), photos \in [Photo -> PhotoRow]
    PROVE  /\ photos'[p].state = "deleted" /\ \A o \in Photo \ {p} : photos'[o].state = photos[o].state
           /\ \A j \in Job : jobs'[j].state \in JobState => jobs'[j] = jobs[j]
BY DEF RemovePhoto, NoRow, NoJobRow, JobState

(* What the server does for a request. *)
LEMMA ServePast ==
    ASSUME TypeInv, Tidy, KeptInv, PastInv, NEW r \in Request, Serve(r) \/ Disconnect(r),
           UNCHANGED <<lane, sweep>>
    PROVE  PastInv' /\ AllOnward
<1>0. /\ req \in [Request -> RequestRecord \cup {NoRequest}] /\ photos \in [Photo -> PhotoRow]
      /\ client \in [Photo -> {"idle", "uploading", "acked", "gone"}]
      /\ jobs \in [Job -> JobRow]
  BY DEF TypeInv, TypeOK, ApiTypeOK, StoreTypeOK
<1>1. PICK p \in Photo : p = req[r].photo
  BY SMTT(30), RequestServed
<1>2. /\ UNCHANGED condemned
      /\ Return(r) \/ \E pc, todo : Goto(r, pc, todo)
      /\ ~ CompleteSave(r) => UNCHANGED client
      /\ ~ (CompleteSave(r) \/ ReprocessEnqueue(r) \/ DeleteRow(r)) => UNCHANGED jobs
      /\ ~ (CompleteSave(r) \/ IngestRow(r) \/ IngestReady(r) \/ DeleteRow(r) \/ AttachFlag(r)) => UNCHANGED photos
  BY DEF Serve, Disconnect, CompleteExists, CompleteSave, AbortBlob, DeleteRow, DeleteList, DeleteBlob,
       DeleteVariants, AttachFind, AttachPut, AttachAdd, AttachFlag, ReprocessEnqueue, IngestPut, IngestRow,
       IngestInsert, IngestReady, storeVars
<1>3. ~ AttachFlag(r)
  BY Owned DEF AttachFlag, At, Tidy
<1>4. ReqKept /\ \A s \in Request \ {r} : req'[s] = req[s]
  BY <1>2, SlotKept
<1>5. RequestPast(r) /\ SweepsForsaken /\ RequestsPast /\ JobsPast /\ LanesPast
  BY DEF PastInv, RequestsPast
<1>6. /\ \A o \in Photo \ {p} : photos'[o].state = photos[o].state /\ client'[o] = client[o]
      /\ \/ CompleteSave(r)
         \/ client'[p] = client[p]
  <2>1. CASE DeleteRow(r)
    BY <1>0, <1>1, <1>2, <2>1, RemovedJobs DEF DeleteRow
  <2>2. CASE CompleteSave(r) \/ IngestRow(r) \/ IngestReady(r)
    BY <1>0, <1>1, <2>2 DEF CompleteSave, IngestRow, IngestReady, storeVars
  <2> QED BY <1>2, <1>3, <2>1, <2>2
(* The photo goes on. *)
<1>7. Onward(p)
  <2>1. CASE CompleteSave(r)
    <3>1. CASE Exists(p)
      <4>1. photos'[p].state = "PendingProcessing" /\ client'[p] = (IF client[p] = "uploading" THEN "acked" ELSE client[p])
        BY <1>0, <1>1, <2>1, <3>1 DEF CompleteSave, PhotoRow
      <4>2. Held(p)
        BY <1>1, <1>5, <2>1 DEF CompleteSave, At, RequestPast
      <4> QED BY <1>2, <4>1, <4>2 DEF Onward, Past, Forsaken, Held
    <3>2. CASE ~ Exists(p)
      BY <1>1, <2>1, <3>2, StillOnward DEF CompleteSave, storeVars
    <3> QED BY <3>1, <3>2
  <2>2. CASE DeleteRow(r)
    <3>1. p \in condemned
      BY <1>1, <2>2 DEF DeleteRow, KeptInv, Asked, Tidy
    <3> QED BY <1>2, <2>2, <3>1 DEF Onward, Past, Forsaken, DeleteRow
  <2>3. CASE IngestRow(r)
    <3>1. photos[p].state = "absent" /\ photos'[p].state = "Processing"
      BY <1>0, <1>1, <2>3 DEF IngestRow, At, TypeInv, Minted, Inserting, PhotoRow
    <3> QED BY <1>2, <2>3, <3>1 DEF Onward, Past, Forsaken, IngestRow
  <2>4. CASE IngestReady(r)
    <3>1. Past(p)
      BY <1>1, <1>5, <2>4 DEF IngestReady, At, RequestPast, Inserting
    <3>2. photos'[p].state = photos[p].state \/ photos'[p].state = "Ready"
      BY <1>0, <1>1, <2>4 DEF IngestReady, PhotoRow
    <3> QED BY <1>2, <2>4, <3>1, <3>2 DEF Onward, Past, Forsaken, IngestReady
  <2> QED BY <1>2, <1>3, <2>1, <2>2, <2>3, <2>4, StillOnward
<1>8. AllOnward
  BY <1>2, <1>6, <1>7, StillOnward DEF AllOnward
(* The requests, the queue, the lanes and the sweeper. *)
<1>9. RequestsPast'
  <2>1. \A o \in Photo : client[o] \in {"uploading", "acked"} => Held(o)'
    <3>1. client[p] \in {"uploading", "acked"} => client'[p] \in {"uploading", "acked"}
      BY <1>0, <1>1, <1>6 DEF CompleteSave, storeVars
    <3> QED BY <1>6, <3>1 DEF Held
  <2>2. RequestPast(r)'
    <3>1. CASE req'[r].kind = "none"
      BY <3>1 DEF RequestPast
    <3>2. CASE req'[r].kind # "none"
      <4>1. req'[r].kind = req[r].kind /\ req'[r].photo = p
        BY <1>1, <1>4, <3>2 DEF ReqKept
      <4>2. req[r].kind = "complete" => Held(p)'
        BY <1>1, <1>2, <1>5, <2>1 DEF RequestPast, Held
      <4>3. req[r].kind = "reprocess" => Past(p)'
        BY <1>1, <1>5, <1>7 DEF RequestPast, Onward
      <4>4. (req[r].kind = "ingest" /\ ~ Inserting(r)') => Past(p)'
        <5>1. CASE Inserting(r)
          <6>1. IngestPut(r) => Inserting(r)'
            <7>1. IngestPut(r) => \E pc \in {"put", "row"} : \E todo : Goto(r, pc, todo)
              BY DEF IngestPut
            <7>2. \A pc, todo : Goto(r, pc, todo) => req'[r].pc = pc
              BY <1>0 DEF Goto, RequestRecord, NoRequest
            <7> QED BY <4>1, <5>1, <7>1, <7>2 DEF Inserting
          <6>2. IngestRow(r) => Past(p)'
            BY <1>0, <1>1 DEF IngestRow, Past, PhotoRow
          <6>3. ~ Disconnect(r)
            BY <3>2, SlotKept DEF Disconnect
          <6> QED BY <5>1, <6>1, <6>2, <6>3 DEF Inserting, Serve, At, CompleteExists, CompleteSave, AbortBlob,
                 DeleteRow, DeleteList, DeleteBlob, DeleteVariants, AttachFind, AttachPut, AttachAdd, AttachFlag,
                 ReprocessEnqueue, IngestInsert, IngestReady
        <5>2. CASE ~ Inserting(r)
          BY <1>1, <1>5, <1>7, <5>2 DEF RequestPast, Onward
        <5> QED BY <5>1, <5>2
      <4> QED BY <4>1, <4>2, <4>3, <4>4 DEF RequestPast, Held, Past
    <3> QED BY <3>1, <3>2
  <2> QED BY <1>4, <1>5, <1>8, <2>1, <2>2, RequestsStay
<1>10. JobsPast'
  <2>1. CASE UNCHANGED jobs
    BY <1>5, <1>8, <2>1, JobsStay
  <2>2. CASE Enqueue(p) /\ Past(p)'
    <3>1. \A j \in Job : jobs'[j] = jobs[j] \/ jobs'[j].photo = p
      BY <1>0, <2>2 DEF Enqueue
    <3> QED BY <1>5, <1>8, <2>2, <3>1, JobsStay
  <2>3. CASE DeleteRow(r)
    BY <1>0, <1>1, <1>5, <1>8, <2>1, <2>3, RemovedJobs, JobsStay DEF DeleteRow
  <2>4. CASE CompleteSave(r)
    <3>1. Exists(p) => Past(p)' /\ Enqueue(p)
      BY <1>0, <1>1, <2>4 DEF CompleteSave, Past, PhotoRow
    <3> QED BY <1>1, <2>1, <2>2, <2>4, <3>1 DEF CompleteSave, storeVars
  <2>5. CASE ReprocessEnqueue(r)
    <3>1. Past(p)'
      BY <1>1, <1>5, <1>7, <2>5 DEF ReprocessEnqueue, At, RequestPast, Onward
    <3> QED BY <1>1, <2>1, <2>2, <2>5, <3>1 DEF ReprocessEnqueue
  <2> QED BY <1>2, <2>1, <2>3, <2>4, <2>5
<1>11. LanesPast' /\ SweepsForsaken'
  BY <1>5, <1>8, LanesKeep DEF SweepsForsaken, AllOnward, Onward
<1> QED BY <1>8, <1>9, <1>10, <1>11 DEF PastInv

(* What the devices and the users may do. *)
LEMMA ArrivalPast ==
    ASSUME TypeInv, Tidy, PastInv, Arrival, UNCHANGED <<lane, sweep>>
    PROVE  PastInv' /\ AllOnward
<1>0. /\ req \in [Request -> RequestRecord \cup {NoRequest}] /\ photos \in [Photo -> PhotoRow]
      /\ client \in [Photo -> {"idle", "uploading", "acked", "gone"}]
  BY DEF TypeInv, TypeOK, ApiTypeOK, StoreTypeOK
<1>1. SweepsForsaken /\ RequestsPast /\ JobsPast /\ LanesPast
  BY DEF PastInv
<1>2. UNCHANGED jobs
  BY DEF Arrival, CreateUploadTicket, ClientPut, ClientGone, CompleteBegin, AbortBegin, DeleteBegin,
       AttachBegin, ReprocessBegin, IngestBegin, storeVars
<1>3. ASSUME AllOnward, RequestsPast' PROVE PastInv' /\ AllOnward
  <2>1. JobsPast' /\ LanesPast'
    BY <1>1, <1>2, <1>3, JobsStay, LanesKeep
  <2>2. SweepsForsaken'
    BY <1>1, <1>3 DEF SweepsForsaken, AllOnward, Onward
  <2> QED BY <1>3, <2>1, <2>2 DEF PastInv
<1>4. ASSUME NEW p \in Photo, UNCHANGED <<condemned, req>>,
             \A o \in Photo \ {p} : photos'[o].state = photos[o].state /\ client'[o] = client[o],
             Onward(p), (client[p] \in {"uploading", "acked"} /\ InFlight(p, "complete")) => Held(p)'
      PROVE  PastInv' /\ AllOnward
  <2>1. AllOnward
    BY <1>4, StillOnward DEF AllOnward
  <2>2. RequestsPast'
    BY <1>1, <1>4, <2>1, RequestsStay DEF Held
  <2> QED BY <1>3, <2>1, <2>2
<1>5. ASSUME NEW p \in Photo, CreateUploadTicket(p) \/ ClientPut(p) \/ ClientGone(p)
      PROVE  PastInv' /\ AllOnward
  <2>1. CASE CreateUploadTicket(p)
    <3>1. /\ client[p] = "idle" /\ client'[p] = "uploading" /\ photos[p].state = "absent"
          /\ photos'[p].state = "PendingUpload" /\ UNCHANGED <<condemned, req>>
          /\ \A o \in Photo \ {p} : photos'[o].state = photos[o].state /\ client'[o] = client[o]
      BY <1>0, <2>1 DEF CreateUploadTicket, TypeInv, Minted, PhotoRow
    <3>2. Onward(p)
      BY <3>1 DEF Onward, Past, Forsaken
    <3> QED BY <1>4, <3>1, <3>2
  <2>2. CASE ClientPut(p)
    <3>1. UNCHANGED <<photos, client, condemned, req>>
      BY <2>2 DEF ClientPut
    <3> QED BY <1>4, <3>1, StillOnward DEF Held
  <2>3. CASE ClientGone(p)
    <3>1. /\ client[p] = "uploading" /\ client'[p] = "gone" /\ UNCHANGED <<photos, condemned, req>>
          /\ \A o \in Photo \ {p} : client'[o] = client[o]
          /\ ~ InFlight(p, "complete")
      BY <1>0, <2>3 DEF ClientGone
    <3>2. Onward(p)
      BY <3>1 DEF Onward, Past, Forsaken
    <3> QED BY <1>4, <3>1, <3>2
  <2> QED BY <1>5, <2>1, <2>2, <2>3
(* A request begins. *)
<1>6. ASSUME NEW r \in Request, NEW p \in Photo,
             \/ CompleteBegin(r, p) \/ AbortBegin(r, p) \/ DeleteBegin(r, p)
             \/ AttachBegin(r, p) \/ ReprocessBegin(r, p) \/ IngestBegin(r, p)
      PROVE  PastInv' /\ AllOnward
  <2>1. PICK kind, pc, todo :
          /\ Begin(r, kind, p, pc, todo)
          /\ kind = "complete" => client[p] = "uploading" /\ UNCHANGED client
          /\ kind = "reprocess" => photos[p].state = "Ready"
          /\ kind = "ingest" => pc = "put"
    BY <1>6 DEF CompleteBegin, AbortBegin, DeleteBegin, AttachBegin, ReprocessBegin, IngestBegin, storeVars
  <2>2. /\ UNCHANGED photos
        /\ \A o \in Photo \ {p} : client'[o] = client[o]
        /\ \/ condemned' = condemned /\ client'[p] = client[p]
           \/ condemned' = condemned \cup {p} /\ client'[p] = client[p]
           \/ condemned' = condemned \cup {p} /\ client[p] = "uploading" /\ client'[p] = "gone"
           \/ condemned' = condemned /\ client[p] = "idle" /\ client'[p] = "gone"
    BY <1>0, <1>6 DEF CompleteBegin, AbortBegin, DeleteBegin, AttachBegin, ReprocessBegin, IngestBegin, storeVars
  <2>3. ASSUME NEW o \in Photo PROVE Onward(o)
    BY <2>2 DEF Onward, Past, Forsaken
  <2>4. AllOnward
    BY <2>3 DEF AllOnward
  <2>5. \A o \in Photo : client[o] \in {"uploading", "acked"} => Held(o)'
    BY <2>2 DEF Held
  <2>6. /\ req'[r].kind = kind /\ req'[r].photo = p
        /\ \A s \in Request \ {r} : req'[s] = req[s]
    BY <2>1, BegunSlot
  <2>7. req'[r].pc = pc
    BY <1>0, <2>1 DEF Begin
  <2>8. RequestPast(r)'
    BY <2>1, <2>2, <2>6, <2>7 DEF RequestPast, Held, Past, Inserting
  <2> QED BY <1>1, <1>3, <2>4, <2>5, <2>6, <2>8, RequestsStay
<1> QED BY <1>5, <1>6 DEF Arrival

(* A step of a lane. *)
LEMMA LanePast ==
    ASSUME TypeInv, WorkInv, PastInv, NEW l \in Lane, LaneStep(l) \/ LaneMishap(l), UNCHANGED <<req, sweep>>
    PROVE  PastInv' /\ AllOnward
<1>1. SweepsForsaken /\ RequestsPast /\ JobsPast /\ LanesPast
  BY DEF PastInv
<1>2. /\ UNCHANGED <<client, condemned>> /\ Working(l)
      /\ \A m \in Lane \ {l} : lane'[m] = lane[m]
      /\ lane'[l] = IdleLane \/ lane'[l].photo = lane[l].photo
  BY WorkerKeeps, LaneStays
<1>3. PICK p \in Photo : p = lane[l].photo
  BY <1>2 DEF Working
<1>4. PICK q : Worked(l, q)
  BY LaneWorked
<1>5. Past(p) /\ lane[l].pc # "idle" /\ photos \in [Photo -> PhotoRow] /\ jobs \in [Job -> JobRow]
  BY <1>1, <1>2, <1>3 DEF LanesPast, Working, TypeInv, TypeOK, StoreTypeOK
<1>6. /\ \A o \in Photo \ {p} : photos'[o].state = photos[o].state
      /\ photos'[p].state \in {photos[p].state, "Failed", "Ready", "Processing"}
  BY <1>3, <1>4, <1>5 DEF Worked, Wrote
<1>7. AllOnward
  <2>1. Onward(p)
    BY <1>2, <1>5, <1>6 DEF Onward, Past, Forsaken
  <2> QED BY <1>2, <1>6, <2>1, StillOnward DEF AllOnward
<1>8. RequestsPast' /\ SweepsForsaken'
  <2>1. RequestsPast'
    BY <1>1, <1>2, <1>7, RequestsStay DEF Held
  <2> QED BY <1>1, <1>7, <2>1 DEF SweepsForsaken, AllOnward, Onward
<1>9. LanesPast'
  <2>1. IdleLane.pc = "idle"
    BY DEF IdleLane
  <2> QED BY <1>1, <1>2, <1>5, <1>7, <2>1, LanesKeep
<1>10. JobsPast'
  <2>1. CASE UNCHANGED jobs
    BY <1>1, <1>7, <2>1, JobsStay
  <2>2. ASSUME Exists(p),
               jobs' = [jobs EXCEPT ![lane[l].job].state = FailedTask(TaskOf(l)).state,
                                    ![lane[l].job].attempts = FailedTask(TaskOf(l)).attempts]
        PROVE  JobsPast'
    <3>1. PICK j \in Job : j = lane[l].job
      BY <1>2 DEF Working
    <3>2. jobs[j].state \in JobState /\ jobs[j].photo = p
      BY <1>3, <1>5, <2>2, <3>1 DEF TypeInv, Linked, Exists, PhotoState
    <3>3. jobs[j] \in [state : JobState, photo : Photo, attempts : Nat]
      BY <1>5, <3>2 DEF JobRow, NoJobRow, JobState
    <3>4. /\ jobs'[j].photo = jobs[j].photo
          /\ \A i \in Job \ {j} : jobs'[i] = jobs[i]
      BY <1>5, <2>2, <3>1, <3>3
    <3> QED BY <1>1, <1>7, <3>2, <3>4, JobsStay
  <2> QED BY <1>3, <1>4, <2>1, <2>2 DEF Worked, Kept, Finished, GaveUp
<1> QED BY <1>7, <1>8, <1>9, <1>10 DEF PastInv

(* The loop gives a lane the photo of a queued job. *)
LEMMA LoopPast ==
    ASSUME TypeInv, PastInv, LoopStep, UNCHANGED <<req, sweep>>
    PROVE  PastInv' /\ AllOnward
<1>1. SweepsForsaken /\ RequestsPast /\ JobsPast /\ LanesPast
  BY DEF PastInv
<1>2. UNCHANGED <<photos, client, condemned, blobs>>
  BY DEF LoopStep, SkipBusyLane, EmptySlice, Claim, ClaimThrows, EndFill, LaneFreed, storeVars
<1>3. AllOnward
  BY <1>2, StillOnward DEF AllOnward
<1>4. RequestsPast' /\ SweepsForsaken'
  <2>1. RequestsPast'
    BY <1>1, <1>2, <1>3, RequestsStay DEF Held
  <2> QED BY <1>1, <1>3, <2>1 DEF SweepsForsaken, AllOnward, Onward
<1>5. JobsPast' /\ LanesPast'
  <2>1. CASE UNCHANGED <<jobs, lane>>
    BY <1>1, <1>3, <2>1, JobsStay, LanesKeep
  <2>2. ASSUME NEW l \in Lane, Claim(l) PROVE JobsPast' /\ LanesPast'
    <3> DEFINE j == Oldest(Slice(l))
    <3>1. j \in Job /\ jobs[j].state = "Queued"
      <4>1. j \in Slice(l)
        BY <2>2, OldestIn DEF Claim, Slice
      <4> QED BY <4>1 DEF Slice
    <3>2. /\ \A i \in Dirty : jobs[i].state # "removed"
          /\ jobs' = [i \in Job |->
                        IF i = j THEN [jobs[i] EXCEPT !.state = "Processing"]
                        ELSE IF i \in Dirty
                             THEN [jobs[i] EXCEPT !.state = task[i].state, !.attempts = task[i].attempts]
                             ELSE jobs[i]]
          /\ lane' = [lane EXCEPT ![l] = [IdleLane EXCEPT !.pc = "load", !.job = j, !.photo = jobs[j].photo]]
      BY <2>2 DEF Claim
    <3> HIDE DEF j
    <3>3. jobs \in [Job -> JobRow] /\ lane \in [Lane -> LaneRecord \cup {IdleLane}]
      BY DEF TypeInv, TypeOK, StoreTypeOK, WorkerTypeOK
    <3>4. ASSUME NEW i \in Job, i = j \/ i \in Dirty
          PROVE  jobs[i] \in [state : JobState, photo : Photo, attempts : Nat]
      <4>1. jobs[i].state \notin {"absent", "removed"}
        BY <3>1, <3>2, <3>4 DEF Dirty, TypeInv, Tracked
      <4>2. jobs[i] \in JobRow
        BY <3>3
      <4> QED BY <4>1, <4>2 DEF JobRow, NoJobRow
    <3>5. ASSUME NEW i \in Job PROVE jobs'[i] = jobs[i] \/ (jobs[i].state \in JobState /\ jobs'[i].photo = jobs[i].photo)
      <4>1. CASE i = j
        <5>1. jobs'[i] = [jobs[i] EXCEPT !.state = "Processing"]
          BY <3>2, <4>1
        <5> QED BY <3>4, <4>1, <5>1
      <4>2. CASE i # j /\ i \in Dirty
        <5>1. jobs'[i] = [jobs[i] EXCEPT !.state = task[i].state, !.attempts = task[i].attempts]
          BY <3>2, <4>2
        <5> QED BY <3>4, <4>2, <5>1
      <4>3. CASE i # j /\ i \notin Dirty
        BY <3>2, <4>3
      <4> QED BY <4>1, <4>2, <4>3
    <3>6. JobsPast'
      BY <1>1, <1>3, <3>5, JobsStay
    <3>7. PICK p \in Photo : p = jobs[j].photo
      BY <3>1, <3>4
    <3>8. Past(p)'
      BY <1>1, <1>3, <3>1, <3>7 DEF JobsPast, JobState, AllOnward, Onward
    <3> DEFINE q == [IdleLane EXCEPT !.pc = "load", !.job = j, !.photo = p]
    <3>9. q.photo = p
      BY DEF IdleLane
    <3> HIDE DEF q
    <3>10. \A m \in Lane : lane'[m] = (IF m = l THEN q ELSE lane[m])
      BY <3>2, <3>3, <3>7 DEF q
    <3>11. ASSUME NEW m \in Lane, lane'[m].pc # "idle" PROVE Past(lane[m].photo)'
      <4>1. CASE m = l
        BY <3>8, <3>9, <3>10, <4>1 DEF Past
      <4>2. CASE m # l
        <5>1. PICK o \in Photo : o = lane[m].photo
          BY <3>10, <3>11, <4>2, WorkingLane DEF Working
        <5>2. Past(o)'
          BY <1>1, <1>3, <3>10, <3>11, <4>2, <5>1 DEF LanesPast, AllOnward, Onward
        <5> QED BY <3>10, <4>2, <5>1, <5>2 DEF Past
      <4> QED BY <4>1, <4>2
    <3> QED BY <3>6, <3>11 DEF LanesPast
  <2> QED BY <2>1, <2>2 DEF LoopStep, SkipBusyLane, EmptySlice, ClaimThrows, EndFill, LaneFreed, storeVars
<1> QED BY <1>3, <1>4, <1>5 DEF PastInv

(* The worker process dies. *)
LEMMA CrashPast ==
    ASSUME TypeInv, PastInv, Crashing
    PROVE  PastInv' /\ AllOnward
<1>1. SweepsForsaken /\ RequestsPast /\ JobsPast /\ LanesPast
  BY DEF PastInv
<1>2. /\ UNCHANGED <<photos, client, condemned, jobs, req>> /\ sweep' = NoSweep
      /\ lane' = [l \in Lane |-> IdleLane]
  BY DEF Crashing, WorkerCrash, apiVars
<1>3. AllOnward
  BY <1>2, StillOnward DEF AllOnward
<1>4. RequestsPast' /\ JobsPast'
  BY <1>1, <1>2, <1>3, RequestsStay, JobsStay DEF Held
<1>5. LanesPast'
  BY <1>2 DEF LanesPast, IdleLane
<1>6. SweepsForsaken'
  BY <1>2 DEF SweepsForsaken, NoSweep
<1> QED BY <1>3, <1>4, <1>5, <1>6 DEF PastInv

(* Dropping a row leaves the rest of the list. *)
LEMMA SweepRowTodo ==
    ASSUME TypeInv, SweepRow
    PROVE  \A p \in Photo : p \in sweep'.todo \cup {sweep'.at} => p \in sweep.todo
BY DEF SweepRow, NoSweep, TypeInv, TypeOK, SweeperTypeOK

(* The sweeper lists forsaken reservations and drops them one by one. *)
LEMMA SweepPast ==
    ASSUME TypeInv, Tidy, PastInv, SweeperNext, UNCHANGED <<req, lane>>
    PROVE  PastInv' /\ AllOnward
<1>1. SweepsForsaken /\ RequestsPast /\ JobsPast /\ LanesPast
  BY DEF PastInv
<1>2. UNCHANGED <<client, condemned>> /\ photos \in [Photo -> PhotoRow]
  BY DEF SweeperNext, SweepList, SweepBlob, SweepRow, storeVars, TypeInv, TypeOK, StoreTypeOK
<1>3. CASE UNCHANGED <<photos, jobs>>
  <2>1. AllOnward
    BY <1>2, <1>3, StillOnward DEF AllOnward
  <2>2. RequestsPast' /\ JobsPast' /\ LanesPast'
    BY <1>1, <1>2, <1>3, <2>1, RequestsStay, JobsStay, LanesKeep DEF Held
  <2>3. \A p \in Photo : p \in sweep'.todo \cup {sweep'.at} => p \in sweep.todo \cup {sweep.at} \/ Forsaken(p)
    <3>1. CASE SweepList
      <4>1. sweep' = [NoSweep EXCEPT !.todo = {p \in Photo : Stale(p)}]
        BY <3>1 DEF SweepList
      <4> QED BY <4>1 DEF NoSweep, Stale, Forsaken, Tidy
    <3>2. CASE \E p \in Photo : SweepBlob(p)
      BY <3>2 DEF SweepBlob
    <3>3. CASE SweepRow
      BY <3>3, SweepRowTodo
    <3> QED BY <3>1, <3>2, <3>3 DEF SweeperNext
  <2>4. SweepsForsaken'
    BY <1>1, <2>1, <2>3 DEF SweepsForsaken, AllOnward, Onward
  <2> QED BY <2>1, <2>2, <2>4 DEF PastInv
<1>4. CASE SweepRow
  <2>1. CASE ~ Exists(sweep.at)
    BY <1>3, <1>4, <2>1 DEF SweepRow
  <2>2. CASE Exists(sweep.at)
    <3>1. PICK p \in Photo : p = sweep.at
      BY <1>4 DEF SweepRow, TypeInv, TypeOK, SweeperTypeOK
    <3>2. RemovePhoto(p) /\ Forsaken(p)
      BY <1>1, <1>4, <2>2, <3>1 DEF SweepRow, SweepsForsaken
    <3>3. /\ photos'[p].state = "deleted" /\ \A o \in Photo \ {p} : photos'[o].state = photos[o].state
          /\ \A j \in Job : jobs'[j].state \in JobState => jobs'[j] = jobs[j]
      BY <1>2, <3>2, RemovedJobs
    <3>4. AllOnward
      <4>1. Onward(p)
        BY <1>2, <3>1, <3>2, <3>3 DEF Onward, Past, Forsaken
      <4> QED BY <1>2, <3>3, <4>1, StillOnward DEF AllOnward
    <3>5. RequestsPast' /\ JobsPast' /\ LanesPast'
      BY <1>1, <1>2, <3>3, <3>4, RequestsStay, JobsStay, LanesKeep DEF Held
    <3>6. SweepsForsaken'
      BY <1>1, <1>4, <3>4, SweepRowTodo DEF SweepsForsaken, AllOnward, Onward
    <3> QED BY <3>4, <3>5, <3>6 DEF PastInv
  <2> QED BY <2>1, <2>2
<1> QED BY <1>3, <1>4 DEF SweeperNext, SweepList, SweepBlob, storeVars

(* What is written where: the device writes the upload of a reservation,   *)
(* an import the objects of the id it owns, a lane those of its photo.     *)
LEMMA RequestAdds ==
    ASSUME TypeInv, Tidy, NEW r \in Request, Serve(r) \/ Disconnect(r)
    PROVE  Adds
<1>1. CASE blobs' \subseteq blobs
  BY <1>1 DEF Adds
<1>2. CASE IngestPut(r)
  <2>1. Inserting(r) /\ \E b : blobs' = blobs \cup {<<req[r].photo, b>>}
    BY <1>2 DEF IngestPut, PutBlob, At, Inserting
  <2> QED BY <2>1 DEF Adds
<1>3. ~ AttachPut(r)
  BY Owned DEF AttachPut, At, Tidy
<1> QED BY <1>1, <1>2, <1>3 DEF Serve, Disconnect, CompleteExists, CompleteSave, AbortBlob, DeleteRow, DeleteList,
       DeleteBlob, DeleteVariants, AttachFind, AttachAdd, AttachFlag, ReprocessEnqueue, IngestRow,
       IngestInsert, IngestReady, storeVars, DropBlob

LEMMA ArrivalAdds ==
    ASSUME Arrival
    PROVE  Adds
<1>1. CASE blobs' \subseteq blobs
  BY <1>1 DEF Adds
<1>2. CASE \E p \in Photo : ClientPut(p)
  BY <1>2 DEF ClientPut, PutBlob, Adds
<1> QED BY <1>1, <1>2 DEF Arrival, CreateUploadTicket, ClientGone, CompleteBegin, AbortBegin, DeleteBegin,
       AttachBegin, ReprocessBegin, IngestBegin, storeVars

LEMMA LaneAdds ==
    ASSUME TypeInv, WorkInv, PastInv, NEW l \in Lane, LaneStep(l) \/ LaneMishap(l)
    PROVE  Adds
<1>1. Past(lane[l].photo)
  BY LaneStays DEF Working, PastInv, LanesPast
<1>2. blobs' \subseteq blobs \/ \E b : blobs' = blobs \cup {<<lane[l].photo, b>>}
  BY DEF LaneStep, LaneMishap, LoadPhoto, OpenOriginal, ClearVariants, SaverPut, SaverDrop, AddOriginal,
       PutPreview, AddPreview, PutThumbnail, AddThumbnail, AddVariant, PutDerived, Publish, FailSave,
       TimeoutLoad, TimeoutMark, StepFails, Timeout, TimeoutSave, TimeoutLate, storeVars, PutBlob, DropBlob
<1> QED BY <1>1, <1>2 DEF Adds

(* Once the sweeper has dropped the object of a photo it holds, the photo  *)
(* has none.                                                               *)
LEMMA SweepsBare ==
    ASSUME TypeInv, Tidy, PastInv, BareInv, SweeperNext
    PROVE  /\ Adds
           /\ \A p \in Photo \ condemned' : sweep'.at = p => sweep.at = p \/ Bare(p)'
<1>1. CASE SweepList
  <2>1. UNCHANGED blobs /\ sweep' = [NoSweep EXCEPT !.todo = {p \in Photo : Stale(p)}]
    BY <1>1 DEF SweepList, storeVars
  <2> QED BY <2>1 DEF NoSweep, Adds
<1>2. CASE SweepRow
  <2>1. UNCHANGED blobs /\ sweep'.at = NoPhoto
    BY <1>2 DEF SweepRow, NoSweep, TypeInv, TypeOK, SweeperTypeOK
  <2> QED BY <2>1 DEF Adds
<1>3. CASE \E p \in Photo : SweepBlob(p)
  <2>1. PICK p \in Photo : SweepBlob(p)
    BY <1>3
  <2>2. /\ blobs' = blobs \ {<<p, "upload">>} /\ sweep'.at = p /\ UNCHANGED condemned
        /\ p \in sweep.todo
    BY <2>1 DEF SweepBlob, DropBlob, Happens, Tidy
  <2>3. p \notin condemned => Bare(p)'
    BY <2>2 DEF PastInv, SweepsForsaken, Forsaken, BareInv, OnlyUpload, Bare
  <2> QED BY <2>2, <2>3 DEF Adds
<1> QED BY <1>1, <1>2, <1>3 DEF SweeperNext

LEMMA NextBare ==
    ASSUME TypeInv, WorkInv, KeptInv, Tidy, PastInv, BareInv, [Next]_vars
    PROVE  PastInv' /\ BareInv'
<1>1. CASE ApiMoves
  <2>1. UNCHANGED <<lane, sweep>>
    BY <1>1 DEF ApiMoves, workerVars, sweeperVars
  <2>2. PastInv' /\ AllOnward /\ Adds
    BY <1>1, <2>1, ArrivalPast, ServePast, ArrivalAdds, RequestAdds DEF ApiMoves, ApiNext
  <2> QED BY <2>1, <2>2, BareStays
<1>2. CASE Looping
  <2>1. UNCHANGED <<req, sweep, blobs>>
    BY <1>2 DEF Looping, LoopStep, SkipBusyLane, EmptySlice, Claim, ClaimThrows, EndFill, LaneFreed,
         storeVars, apiVars, sweeperVars
  <2>2. PastInv' /\ AllOnward
    BY <1>2, <2>1, LoopPast DEF Looping
  <2> QED BY <2>1, <2>2, BareStays DEF Adds
<1>3. CASE \E l \in Lane : Processing(l) \/ Failing(l)
  <2>1. UNCHANGED <<req, sweep>>
    BY <1>3 DEF Processing, Failing, apiVars, sweeperVars
  <2>2. PastInv' /\ AllOnward /\ Adds
    BY <1>3, <2>1, LanePast, LaneAdds DEF Processing, Failing
  <2> QED BY <2>1, <2>2, BareStays
<1>4. CASE Crashing
  <2>1. UNCHANGED blobs /\ sweep'.at = NoPhoto
    BY <1>4 DEF Crashing, WorkerCrash, NoSweep
  <2>2. PastInv' /\ AllOnward
    BY <1>4, CrashPast
  <2> QED BY <2>1, <2>2, BareStays DEF Adds
<1>5. CASE Sweeping
  <2>1. UNCHANGED <<req, lane>>
    BY <1>5 DEF Sweeping, apiVars, workerVars
  <2>2. PastInv' /\ AllOnward
    BY <1>5, <2>1, SweepPast DEF Sweeping
  <2> QED BY <1>5, <2>2, SweepsBare, BareStays DEF Sweeping
<1>6. CASE UNCHANGED vars
  <2>1. UNCHANGED <<photos, jobs, blobs, client, condemned, req, lane, sweep>>
    BY <1>6 DEF vars, storeVars, apiVars, workerVars, sweeperVars
  <2>2. PastInv'
    BY <2>1 DEF PastInv, SweepsForsaken, RequestsPast, RequestPast, JobsPast, LanesPast, Past, Forsaken, Held, Inserting
  <2> QED BY <2>1, <2>2 DEF BareInv, Bare, OnlyUpload
<1> QED BY <1>1, <1>2, <1>3, <1>4, <1>5, <1>6 DEF Next

LEMMA InitBare == Init => PastInv /\ BareInv
<1> SUFFICES ASSUME Init PROVE PastInv /\ BareInv
  OBVIOUS
<1>1. /\ \A r \in Request : req[r].kind = "none"
      /\ \A j \in Job : jobs[j].state = "absent"
      /\ \A l \in Lane : lane[l].pc = "idle"
      /\ sweep.todo = {} /\ sweep.at = NoPhoto /\ blobs = {}
      /\ \A p \in Photo : photos[p].state = "absent"
  BY DEF Init, StoreInit, ApiInit, WorkerInit, SweeperInit, NoRow, NoRequest, NoJobRow, IdleLane, NoSweep
<1>2. PastInv
  BY <1>1 DEF PastInv, SweepsForsaken, RequestsPast, RequestPast, JobsPast, LanesPast, JobState
<1> QED BY <1>1, <1>2 DEF BareInv, Bare, OnlyUpload

(* A reservation that the sweeper expired leaves nothing behind in the     *)
(* storage, whatever requests, imports, lanes and crashes do meanwhile:    *)
(* the object is dropped before the row, and nobody writes one of a photo  *)
(* that has not been confirmed.  A storage that refuses the sweeper, and a *)
(* clip attached to a reservation, would leave an object.                  *)
THEOREM SweepLeavesNothing ==
    ASSUME Tidy
    PROVE  Spec => []SweptClean
<1> DEFINE Inv == TypeInv /\ WorkInv /\ KeptInv /\ PastInv /\ BareInv
<1>1. Init => Inv
  BY InitType, InitWork, InitKept, InitBare
<1>2. Inv /\ [Next]_vars => Inv'
  BY NextType, NextWork, NextKeeps, NextBare
<1>3. Inv => SweptClean
  BY DEF BareInv, Bare, SweptClean
<1> QED BY <1>1, <1>2, <1>3, PTL DEF Spec
=============================================================================
