----------------------------- MODULE PhotoStore -----------------------------
(***************************************************************************)
(* The state that the iPhotos API process and the iPhotos worker process   *)
(* share: the photos, photo_variants and variant_jobs tables and the blob  *)
(* storage, with the operations both sides build their steps from.  No     *)
(* lock spans two calls: every call to the database or to the storage is   *)
(* one atomic step, and anything may happen between two of them.           *)
(*                                                                         *)
(* A database write goes through an Entity Framework context.  What        *)
(* matters of it here: SaveChanges writes, in one transaction, every       *)
(* pending change of the context; an UPDATE or DELETE of a row that is     *)
(* gone, or an INSERT that breaks a key, makes the whole transaction fail; *)
(* and an UPDATE writes the changed columns by primary key, whatever the   *)
(* row's other columns have become since it was read.                      *)
(***************************************************************************)
EXTENDS Naturals, FiniteSets

CONSTANTS
    Photo,       \* the photo ids (Guids) minted in this history, of one owner
    NoPhoto,     \* "no photo"
    Movie,       \* those that are videos
    Recoded,     \* those over the owner's storage-saver cap, in a format the
                 \* saver rewrites to another extension (HEIC, PNG, MOV, ...)
    NJobs,       \* bound: rows ever inserted into variant_jobs
    MaxAttempts, \* VariantJob.DefaultMaxAttempts
    Mishap,      \* the kinds of mishap a run allows
    MaxMishaps   \* bound: mishaps in one history

ASSUME PhotoAssumption == NoPhoto \notin Photo
ASSUME KindAssumption == Movie \subseteq Photo /\ Recoded \subseteq Photo
ASSUME BoundsAssumption ==
    /\ NJobs \in Nat
    /\ MaxAttempts \in Nat \ {0}
    /\ MaxMishaps \in Nat
    /\ Mishap \subseteq {"fault", "timeout", "crash", "disconnect"}

VARIABLES
    photos,    \* the photos table
    variants,  \* the photo_variants table: the kinds each photo has a row of
    jobs,      \* the variant_jobs table, in created_at order
    blobs,     \* the blob storage: the objects that exist
    client,    \* the uploading device, per photo
    condemned, \* history: photos an abort or a delete request was accepted for
    mishaps    \* how many mishaps have happened

storeVars == <<photos, variants, jobs, blobs, client, condemned, mishaps>>

Job == 1 .. NJobs

PhotoState == {"PendingUpload", "PendingProcessing", "Processing", "Ready", "Failed"}
VariantKind == {"original", "preview", "thumbnail", "motion"}

(* The original lives where the upload put it until the storage saver      *)
(* writes a smaller one under another extension; the other objects are     *)
(* named for their kind.                                                   *)
OriginalPath == {"upload", "saver"}
BlobName == OriginalPath \cup {"preview", "thumbnail", "motion"}

(* "absent": the id is not minted yet.  "deleted": its row is gone for     *)
(* good, since ids are never reused.                                       *)
NoRow(s) == [state |-> s, path |-> "upload", live |-> FALSE]
PhotoRow == [state : PhotoState \cup {"absent", "deleted"}, path : OriginalPath, live : BOOLEAN]

NoJobRow(s) == [state |-> s, photo |-> NoPhoto, attempts |-> 0]
JobState == {"Queued", "Processing", "Done", "Failed"}
JobRow ==
    {NoJobRow("absent"), NoJobRow("removed")}
        \cup [state : JobState, photo : Photo, attempts : Nat]

Exists(p) == photos[p].state \in PhotoState

(* The foreign keys of photo_variants and variant_jobs. *)
KeysOK ==
    /\ \A p \in Photo : variants[p] # {} => Exists(p)
    /\ \A j \in Job : jobs[j].state \in JobState => Exists(jobs[j].photo)

StoreTypeOK ==
    /\ photos \in [Photo -> PhotoRow]
    /\ variants \in [Photo -> SUBSET VariantKind]
    /\ jobs \in [Job -> JobRow]
    /\ blobs \in SUBSET (Photo \X BlobName)
    /\ client \in [Photo -> {"idle", "uploading", "acked", "gone"}]
    /\ condemned \in SUBSET Photo
    /\ mishaps \in 0 .. MaxMishaps
    /\ KeysOK

StoreInit ==
    /\ photos = [p \in Photo |-> NoRow("absent")]
    /\ variants = [p \in Photo |-> {}]
    /\ jobs = [j \in Job |-> NoJobRow("absent")]
    /\ blobs = {}
    /\ client = [p \in Photo |-> "idle"]
    /\ condemned = {}
    /\ mishaps = 0

-----------------------------------------------------------------------------
(* The operations both processes are built from.                           *)

Happens(kind) ==
    /\ kind \in Mishap
    /\ mishaps < MaxMishaps
    /\ mishaps' = mishaps + 1

(* The object a variant row points at. *)
VariantBlob(p, k) == IF k = "original" THEN photos[p].path ELSE k

PutBlob(p, b) == blobs' = blobs \cup {<<p, b>>}
DropBlob(p, b) == blobs' = blobs \ {<<p, b>>}

(* Mutation of Enqueue: the insert is never saved. *)
EnqueueUnsaved(p) == p \in Photo /\ UNCHANGED jobs

(* The next variant_jobs row: Queued, no attempt spent. *)
Enqueue(p) ==
    \E j \in Job :
        /\ jobs[j].state = "absent"
        /\ \A i \in Job : i < j => jobs[i].state # "absent"
        /\ jobs' = [jobs EXCEPT ![j] = [state |-> "Queued", photo |-> p, attempts |-> 0]]

(* Mutation of RemovePhoto: no cascade to the jobs. *)
RemovePhotoOnly(p) ==
    /\ photos' = [photos EXCEPT ![p] = NoRow("deleted")]
    /\ variants' = [variants EXCEPT ![p] = {}]
    /\ UNCHANGED jobs

(* Removing a photo row cascades to its variants and its jobs. *)
RemovePhoto(p) ==
    /\ photos' = [photos EXCEPT ![p] = NoRow("deleted")]
    /\ variants' = [variants EXCEPT ![p] = {}]
    /\ jobs' = [j \in Job |-> IF jobs[j].photo = p THEN NoJobRow("removed") ELSE jobs[j]]

(* Mutation of CanSave: an update that re-creates a row that is gone. *)
CanSaveUpsert(p, added) == photos[p].state # "absent" /\ added \cap variants[p] = {}

(* A context with an update of photo p and the pending inserts "added" can *)
(* be saved when the row is still there and no variant kind is taken.      *)
CanSave(p, added) == Exists(p) /\ added \cap variants[p] = {}

(* The columns of a row that a context read as "read" and now holds as     *)
(* "mem": only the changed ones are written.                               *)
Merge(row, read, mem) ==
    [row EXCEPT !.state = IF mem.state = read.state THEN @ ELSE mem.state,
                !.path = IF mem.path = read.path THEN @ ELSE mem.path]
=============================================================================
