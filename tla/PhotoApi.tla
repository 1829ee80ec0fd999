------------------------------ MODULE PhotoApi ------------------------------
(***************************************************************************)
(* PhotoService: the requests the clients make about a photo.  Each        *)
(* request is a handler with its own database context; its steps are the   *)
(* calls it awaits, so two requests, or a request and the worker, may      *)
(* interleave at every await.  A request whose client disconnects is       *)
(* cancelled at its next await and leaves what it did so far.              *)
(***************************************************************************)
EXTENDS PhotoStore

CONSTANTS
    Request,      \* concurrent request slots of the API process
    Operation,    \* the request kinds a run allows
    DoubleSubmit  \* whether a device may send a second complete for a photo
                  \* while its first one is still running (a retry after a
                  \* client-side timeout)

ASSUME ApiAssumption ==
    /\ Operation \subseteq {"complete", "abort", "delete", "attach", "reprocess", "ingest"}
    /\ DoubleSubmit \in BOOLEAN

VARIABLE req   \* the running requests

apiVars == <<req>>

NoRequest == [kind |-> "none", pc |-> "idle", photo |-> NoPhoto, todo |-> {}]

(* "todo" is what a loop of the handler still has to visit: blob names to  *)
(* write or delete, or the motion row that was found.                      *)
RequestRecord ==
    [kind : Operation,
     pc : {"exists", "save", "blob", "row", "list", "blobs", "variants", "find",
           "put", "add", "flag", "insert", "ready", "enqueue"},
     photo : Photo,
     todo : SUBSET (BlobName \cup VariantKind)]

ApiTypeOK ==
    /\ req \in [Request -> RequestRecord \cup {NoRequest}]
    /\ \A r \in Request :
          req[r].kind = "ingest" =>
              req[r].todo \subseteq IF req[r].pc = "put" THEN BlobName ELSE VariantKind

ApiInit == req = [r \in Request |-> NoRequest]

At(r, kind, pc) == req[r].kind = kind /\ req[r].pc = pc

Begin(r, kind, p, pc, todo) ==
    /\ kind \in Operation
    /\ req[r].pc = "idle"
    /\ req' = [req EXCEPT ![r] = [kind |-> kind, pc |-> pc, photo |-> p, todo |-> todo]]

Goto(r, pc, todo) == req' = [req EXCEPT ![r].pc = pc, ![r].todo = todo]

Return(r) == req' = [req EXCEPT ![r] = NoRequest]

InFlight(p, kind) == \E r \in Request : req[r].kind = kind /\ req[r].photo = p

-----------------------------------------------------------------------------
(* The device.                                                             *)

(* CreateUploadTicketAsync: the PendingUpload row reserves the upload. *)
CreateUploadTicket(p) ==
    /\ "complete" \in Operation
    /\ client[p] = "idle"
    /\ photos' = [photos EXCEPT ![p].state = "PendingUpload"]
    /\ client' = [client EXCEPT ![p] = "uploading"]
    /\ UNCHANGED <<variants, jobs, blobs, condemned, mishaps, req>>

(* The direct PUT of the bytes to the presigned URL; the API never sees it. *)
ClientPut(p) ==
    /\ client[p] = "uploading"
    /\ <<p, "upload">> \notin blobs
    /\ PutBlob(p, "upload")
    /\ UNCHANGED <<photos, variants, jobs, client, condemned, mishaps, req>>

(* The device stops: the app is killed or loses the network for good. *)
ClientGone(p) ==
    /\ client[p] = "uploading"
    /\ ~ InFlight(p, "complete")
    /\ client' = [client EXCEPT ![p] = "gone"]
    /\ UNCHANGED <<photos, variants, jobs, blobs, condemned, mishaps, req>>

-----------------------------------------------------------------------------
(* CompleteUploadAsync: check the state, check the blob, then move the row *)
(* to PendingProcessing and insert its job in one transaction.             *)

CompleteBegin(r, p) ==
    /\ client[p] = "uploading"
    /\ DoubleSubmit \/ ~ InFlight(p, "complete")
    /\ photos[p].state = "PendingUpload"
    /\ Begin(r, "complete", p, "exists", {})
    /\ UNCHANGED storeVars

CompleteExists(r) ==
    /\ At(r, "complete", "exists")
    /\ IF <<req[r].photo, "upload">> \in blobs THEN Goto(r, "save", {}) ELSE Return(r)
    /\ UNCHANGED storeVars

CompleteSave(r) ==
    LET p == req[r].photo IN
    /\ At(r, "complete", "save")
    /\ Return(r)
    /\ \/ /\ Exists(p)
          /\ photos' = [photos EXCEPT ![p].state = "PendingProcessing"]
          /\ Enqueue(p)
          /\ client' = [client EXCEPT ![p] = IF @ = "uploading" THEN "acked" ELSE @]
          /\ UNCHANGED <<variants, blobs, condemned, mishaps>>
       \/ ~ Exists(p) /\ UNCHANGED storeVars

-----------------------------------------------------------------------------
(* AbortUploadAsync: check the state, delete the blob, delete the row.     *)

AbortBegin(r, p) ==
    /\ client[p] = "uploading"
    /\ photos[p].state = "PendingUpload"
    /\ Begin(r, "abort", p, "blob", {})
    /\ condemned' = condemned \cup {p}
    /\ client' = [client EXCEPT ![p] = "gone"]
    /\ UNCHANGED <<photos, variants, jobs, blobs, mishaps>>

AbortBlob(r) ==
    /\ At(r, "abort", "blob")
    /\ DropBlob(req[r].photo, "upload")
    /\ Goto(r, "row", {})
    /\ UNCHANGED <<photos, variants, jobs, client, condemned, mishaps>>

(* photos.DeleteAsync; a row that is already gone makes it throw. *)
DeleteRow(r) ==
    LET p == req[r].photo IN
    /\ req[r].kind \in {"abort", "delete"} /\ req[r].pc = "row"
    /\ Return(r)
    /\ IF Exists(p) THEN RemovePhoto(p) ELSE UNCHANGED <<photos, variants, jobs>>
    /\ UNCHANGED <<blobs, client, condemned, mishaps>>

-----------------------------------------------------------------------------
(* DeletePhotoWithBlobsAsync: list the variants, delete every blob listed  *)
(* (the oldest variant's first: any order covers it), then the variant     *)
(* rows, then the photo row.                                               *)

DeleteBegin(r, p) ==
    /\ Exists(p)
    /\ Begin(r, "delete", p, "list", {photos[p].path})
    /\ condemned' = condemned \cup {p}
    /\ UNCHANGED <<photos, variants, jobs, blobs, client, mishaps>>

DeleteList(r) ==
    LET p == req[r].photo IN
    /\ At(r, "delete", "list")
    /\ Goto(r, "blobs", req[r].todo \cup {VariantBlob(p, k) : k \in variants[p]})
    /\ UNCHANGED storeVars

DeleteBlob(r) ==
    /\ At(r, "delete", "blobs")
    /\ \E b \in req[r].todo :
          /\ DropBlob(req[r].photo, b)
          /\ Goto(r, IF req[r].todo = {b} THEN "variants" ELSE "blobs", req[r].todo \ {b})
    /\ UNCHANGED <<photos, variants, jobs, client, condemned, mishaps>>

DeleteVariants(r) ==
    /\ At(r, "delete", "variants")
    /\ variants' = [variants EXCEPT ![req[r].photo] = {}]
    /\ Goto(r, "row", {})
    /\ UNCHANGED <<photos, jobs, blobs, client, condemned, mishaps>>

-----------------------------------------------------------------------------
(* AttachMotionAsync, called by the zip importer for the clip of a Live    *)
(* Photo whose still is new or, when its hash was known, already there in  *)
(* whatever state.  A clip that was attached before has the same path.     *)

AttachBegin(r, p) ==
    /\ Exists(p)
    /\ p \notin Movie
    /\ Begin(r, "attach", p, "find", {})
    /\ UNCHANGED storeVars

AttachFind(r) ==
    /\ At(r, "attach", "find")
    /\ Goto(r, "put", variants[req[r].photo] \cap {"motion"})
    /\ UNCHANGED storeVars

AttachPut(r) ==
    /\ At(r, "attach", "put")
    /\ PutBlob(req[r].photo, "motion")
    /\ Goto(r, IF req[r].todo = {} THEN "add" ELSE "flag", req[r].todo)
    /\ UNCHANGED <<photos, variants, jobs, client, condemned, mishaps>>

AttachAdd(r) ==
    LET p == req[r].photo IN
    /\ At(r, "attach", "add")
    /\ IF CanSave(p, {"motion"})
          THEN /\ variants' = [variants EXCEPT ![p] = @ \cup {"motion"}]
               /\ Goto(r, "flag", {})
          ELSE Return(r) /\ UNCHANGED variants
    /\ UNCHANGED <<photos, jobs, blobs, client, condemned, mishaps>>

(* The save of the flag also updates a row that was found; if it is gone   *)
(* and the new clip differs, the whole save throws.                        *)
AttachFlag(r) ==
    LET p == req[r].photo IN
    /\ At(r, "attach", "flag")
    /\ Return(r)
    /\ \/ Exists(p) /\ photos' = [photos EXCEPT ![p].live = TRUE]
       \/ ~ (Exists(p) /\ req[r].todo \subseteq variants[p]) /\ UNCHANGED photos
    /\ UNCHANGED <<variants, jobs, blobs, client, condemned, mishaps>>

-----------------------------------------------------------------------------
(* UserPreferencesService.UpdateAsync with ApplyToExisting: list the Ready *)
(* photos still stored at original quality, then enqueue a job for each.   *)

ReprocessBegin(r, p) ==
    /\ photos[p].state = "Ready"
    /\ photos[p].path = "upload"
    /\ p \in Recoded
    /\ Begin(r, "reprocess", p, "enqueue", {})
    /\ UNCHANGED storeVars

ReprocessEnqueue(r) ==
    LET p == req[r].photo IN
    /\ At(r, "reprocess", "enqueue")
    /\ Return(r)
    /\ IF Exists(p) THEN Enqueue(p) ELSE UNCHANGED jobs
    /\ UNCHANGED <<photos, variants, blobs, client, condemned, mishaps>>

-----------------------------------------------------------------------------
(* UploadAsync and UploadVideoAsync (multipart upload and zip import): the *)
(* API derives the variants itself.  The blobs are written first; then the *)
(* photo row, in Processing, each variant row, and at last Ready.          *)

Ingested == {"original", "preview", "thumbnail"}

(* The blobs, and later the rows, are written original first, then         *)
(* preview, then thumbnail.                                                *)
NextOf(todo, b) ==
    \/ b \in {"upload", "original"}
    \/ b = "preview" /\ todo \cap {"upload", "original"} = {}
    \/ todo = {b}

IngestBegin(r, p) ==
    /\ client[p] = "idle"
    /\ Begin(r, "ingest", p, "put", {"upload", "preview", "thumbnail"})
    /\ client' = [client EXCEPT ![p] = "gone"]
    /\ UNCHANGED <<photos, variants, jobs, blobs, condemned, mishaps>>

IngestPut(r) ==
    /\ At(r, "ingest", "put")
    /\ \E b \in req[r].todo :
          /\ NextOf(req[r].todo, b)
          /\ PutBlob(req[r].photo, b)
          /\ Goto(r, IF req[r].todo = {b} THEN "row" ELSE "put", req[r].todo \ {b})
    /\ UNCHANGED <<photos, variants, jobs, client, condemned, mishaps>>

(* Mutation of IngestRow: the row is inserted as Ready. *)
IngestRowReady(r) ==
    /\ At(r, "ingest", "row")
    /\ photos' = [photos EXCEPT ![req[r].photo].state = "Ready"]
    /\ Goto(r, "insert", Ingested)
    /\ UNCHANGED <<variants, jobs, blobs, client, condemned, mishaps>>

IngestRow(r) ==
    /\ At(r, "ingest", "row")
    /\ photos' = [photos EXCEPT ![req[r].photo].state = "Processing"]
    /\ Goto(r, "insert", Ingested)
    /\ UNCHANGED <<variants, jobs, blobs, client, condemned, mishaps>>

(* A row deleted meanwhile makes the insert or the update throw. *)
IngestInsert(r) ==
    LET p == req[r].photo IN
    /\ At(r, "ingest", "insert")
    /\ \E k \in req[r].todo :
          /\ NextOf(req[r].todo, k)
          /\ IF CanSave(p, {k})
                THEN /\ variants' = [variants EXCEPT ![p] = @ \cup {k}]
                     /\ Goto(r, IF req[r].todo = {k} THEN "ready" ELSE "insert", req[r].todo \ {k})
                ELSE Return(r) /\ UNCHANGED variants
    /\ UNCHANGED <<photos, jobs, blobs, client, condemned, mishaps>>

(* Mutation of IngestReady: an update that re-creates a row that is gone. *)
IngestReadyUpsert(r) ==
    /\ At(r, "ingest", "ready")
    /\ Return(r)
    /\ photos' = [photos EXCEPT ![req[r].photo].state = "Ready"]
    /\ UNCHANGED <<variants, jobs, blobs, client, condemned, mishaps>>

IngestReady(r) ==
    LET p == req[r].photo IN
    /\ At(r, "ingest", "ready")
    /\ Return(r)
    /\ IF Exists(p) THEN photos' = [photos EXCEPT ![p].state = "Ready"] ELSE UNCHANGED photos
    /\ UNCHANGED <<variants, jobs, blobs, client, condemned, mishaps>>

-----------------------------------------------------------------------------
(* The client disconnects: the request's token is cancelled and the        *)
(* handler stops at its next await.                                        *)
Disconnect(r) ==
    /\ req[r].pc # "idle"
    /\ Happens("disconnect")
    /\ Return(r)
    /\ UNCHANGED <<photos, variants, jobs, blobs, client, condemned>>

(* What the device and the users may do. *)
Arrival ==
    \/ \E p \in Photo : CreateUploadTicket(p) \/ ClientPut(p) \/ ClientGone(p)
    \/ \E r \in Request, p \in Photo :
          \/ CompleteBegin(r, p) \/ AbortBegin(r, p) \/ DeleteBegin(r, p)
          \/ AttachBegin(r, p) \/ ReprocessBegin(r, p) \/ IngestBegin(r, p)

(* What the server does for a request it has accepted. *)
Serve(r) ==
    \/ CompleteExists(r) \/ CompleteSave(r)
    \/ AbortBlob(r) \/ DeleteRow(r)
    \/ DeleteList(r) \/ DeleteBlob(r) \/ DeleteVariants(r)
    \/ AttachFind(r) \/ AttachPut(r) \/ AttachAdd(r) \/ AttachFlag(r)
    \/ ReprocessEnqueue(r)
    \/ IngestPut(r) \/ IngestRow(r) \/ IngestInsert(r) \/ IngestReady(r)

ApiNext == Arrival \/ (\E r \in Request : Serve(r) \/ Disconnect(r))
=============================================================================
