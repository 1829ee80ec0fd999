# iPhotos in TLA+

A verification project for iPhotos, a self-hosted photo library: a .NET API and a
.NET worker over PostgreSQL and an object store, a Next.js web client, a React
Native mobile client and a Python inference container. The specifications are
written from the source; line references are to the files under `src/`. The paths
below leave out `src/backend/` where a name starts with `iPhotos.`, and
`src/mobile/src/` or `src/web/src/` where the text says which client is meant.

Contents: 1 inventory, 2 modules, 3 the photo pipeline, 4 billing, 5 mobile backup,
6 sessions and caches, 7 people, 8 the library as its user meets it, 9 runs, 10 what
the code does not keep, 11 proofs, 12 limits, 13 not modelled, 14 plan.

## 1. Inventory

How the parts interact. Clients call the API over HTTP; an upload's bytes go from
the device straight to the object store through a presigned URL, so the API sees a
reservation, then a confirmation, and never the bytes. The API and the worker share
no memory. They meet in three places: the database tables, the blob storage, and
PostgreSQL notifications, which only shorten the worker's sleep. No lock and no
transaction spans two awaits of a handler, there are no concurrency tokens on any
entity, and queued work is claimed by an update of one row. So every pair of
handlers may interleave at every await.

The clients are single threads of JavaScript. There too everything interesting
happens at awaits: a screen asks, the user goes on, and the answer lands on whatever
the screen has become. Stores outlive screens, files and key stores outlive the app,
and the session may be another one by the time a request is answered.

| Component | State | Operations | What makes it correct |
|---|---|---|---|
| Photo store (`iPhotos.Domain/Photo.cs`, `VariantJob.cs`, the repositories, `BlobPaths.cs`) | tables `photos`, `photo_variants`, `variant_jobs`; blobs | Entity Framework saves, cascades, blob put and delete | foreign keys hold; a row that is shown has its objects; an object has an owner |
| Photo API (`PhotoService.cs`) | running requests | ticket, complete, abort, delete, form upload, zip ingest, motion attach, multipart session, quota, dedup, key photo | a confirmed photo is kept and has a job; only its owner removes it |
| Upload-quality preference (`UserPreferencesService.cs`) | user row | update, with re-processing of the existing photos | what is re-enqueued is rewritten |
| Variant worker (`VariantProcessingWorker.cs`, `VariantProcessingHandler.cs`) | loop, lanes, job objects in memory | claim, process, compress, fail, time out, crash | every job ends; one handler per photo; the retry budget; no byte lost |
| Orphan sweeper (`OrphanUploadSweeper.cs`) | the list of one pass | list, delete blob, delete row | drops abandoned reservations and nothing else |
| Queue wake-up (`PostgresQueueListener.cs`) | a connection, a semaphore | notify, listen, reconnect, idle fallback | a lost notification costs at most one idle interval |
| Billing (`BillingService.cs`, `BillingExpiryHandler.cs`) | `billing_purchases`, plan and quota of a user | verify, restore, expiry sweep | a paid plan was bought; a purchase has one account; a running subscription is not downgraded |
| Upload quota (`PhotoService.cs:193-233`) | sum over the user's photos | reserve with the ticket | confirmed bytes stay below the quota |
| Mobile backup (`data/backup-*.ts`, `sync-rules-repository.ts`, `cloud-photos-repository.ts`, its screens) | SQLite inventory, folder rules, one running job with its upload lanes | scan, hash, upload, recover, rules, circuit breaker | a hash is that of the bytes; a locked photo is not sent; nothing is sent twice at once; a job ends |
| Client sessions (`api-client.ts`, account stores, the four auth screens, both clients) | token pair in memory and persisted, the refresh in flight | sign in, register, refresh, sign out, restore, forced sign-out | what is held belongs to the user shown; a refresh token is spent once |
| Media caches (`cloud-media-cache.ts`, `blob-cache.ts`, the crop scheduler) | files, object URLs, slots | ensure, evict, prefetch, key photo, purge | ceilings hold; no file is fetched twice; nothing of another account is left |
| People on the server (`PersonService.cs`, `PersonClusterJobService.cs`) | faces, persons, verdicts | suggest, rename, merge, delete, accept, review, cluster | a rejected face is not offered again |
| People screens (both clients) | rows, filter, stepper, sheets, requests in flight | list, search, review, merge, rename, delete | the rows are those of the chip; a review sends what was answered |
| Locked Folder and encrypted mode (`vault-*.ts`, `encrypted-mode*.ts`, their screens) | ciphertexts, rows, keys, decrypted files, gates | move in, move out, encrypt and decrypt the library, lock, unlock | no photo is lost; locking leaves no plaintext but what could not be deleted |
| ZIP import (`ZipImportService`, `import-panel.tsx`, the mobile store) | job row, staged archive, list of archives | stage, process, poll, cancel | an import is followed to its end |
| Web upload queue (`upload-dialog.tsx`, `upload-processor.tsx`, `stores/ui.ts`) | tasks, the processor's running flag | enqueue, send, retry of a shell | the queue never stalls and sends nothing twice at once |
| Web gallery and viewer (`gallery-screen.tsx`, `viewer-overlay.tsx`) | pages, selection, history entries, Live Photo stage | filter, page, select, delete, open, close | the viewer keeps step with the browser's history |
| Mobile timeline (`use-unified-feed.ts`, `unified-feed.ts`, `use-gallery-feed.ts`) | two paged sources and their merge | page, jump, refresh, delete, reload | nothing is inserted behind the reader |
| Mobile cloud grids and viewer (`CloudGallery.tsx`, `CloudPhotoGrid.tsx`, `ViewerOverlay.tsx`) | one paged listing, the viewer's own list | filter, order, jump, refresh, page, delete | the grid is the listing that is chosen |
| ML jobs (`MlJobWorker.cs`, `FaceProcessingService.cs`) | `ml_jobs`, faces, clusters | enqueue, claim, detect, requeue | a photo's faces end up clustered |
| Storage providers, imaging, ML container, other screens | none of interest | adapters, codecs, layout | not protocol code |

`PROJECT.json` lists each with its status, and 40 places where this code can go wrong
in ways a unit test hardly reaches ("hazards"); the properties are aimed at those.

What is hard, by kind. *Stale copies*: every handler loads a row, awaits, and later
saves the columns it changed over whatever the row has become. *Two contexts*: the job
a lane works on belongs to the claiming loop's database context, the photo to the
lane's. *Partial sequences*: blobs, rows, files and keys are written in separate steps,
and a crash, a disconnect or a fault may fall between any two. *Time*: reservations expire while
devices still upload; jobs time out while their calls are about to finish. *Late
answers*: a page, a refresh or a verdict that comes back for a filter, a session or a
dialog that is gone. *Paging by number* over a listing that grows and shrinks.

## 2. Modules

| Module | Models |
|---|---|
| `PhotoStore` | the shared tables and blobs, and the operations both processes use |
| `PhotoApi` | the requests about a photo, one action per awaited call, and the devices |
| `VariantWorker` | the claiming loop, the lanes, faults, timeouts, crashes |
| `OrphanSweeper` | the expiry of reservations |
| `PhotoPipeline` | the composition of the four, its fairness and its properties |
| `PhotoLifecycle` | the abstract contract: what the library promises about one photo |
| `Billing` | purchases, plans, the requests and the expiry sweep |
| `BackupInventory` | the inventory table, folder rules and what each statement writes |
| `CloudUpload` | one upload with ticket, PUT, parts, complete, abort and the proxied form |
| `BackupEngine` | the job: scan, hashing, lanes; folder scans; kills, accounts, other programs |
| `BackupScreens` | what the backup screens derive from the inventory |
| `ApiSession` | tokens, refresh, requests, auth screens, sign-out of both clients |
| `MediaCaches` | the files and object URLs of both clients over the session |
| `PeopleServer` | faces, persons, verdicts, suggestions, the clustering pass |
| `PeopleCalls` | requests in flight and what the people screens of both clients share |
| `MobilePeople`, `WebPeople` | the people screens of each client |
| `People` | their composition with the server, and its properties |
| `ScreenJobs` | promises in flight and budgets, shared by the areas below |
| `Vault`, `VaultScreens` | the Locked Folder and the encrypted mode; their screens and gates |
| `ZipImports` | staging and following archives, web panel and mobile store |
| `WebUploads` | the upload dialog, the queue, the processor |
| `WebGallery` | pages, selection and the viewer of the web |
| `MobileFeed` | the merged timeline of the phone |
| `CloudGrids` | the grids of the phone that show only the cloud, and their viewer |
| `Library` | the seven areas under one specification |
| `MCPhotoPipeline`, `MCBilling`, `MCBackup`, `MCSession`, `MCPeople`, `MCLibrary` | what TLC runs: values of the constants and symmetry |
| `PhotoPipelineProofs`, `PipelineBytesProofs`, `BillingProofs`, `BackupProofs`, `PeopleProofs`, `SessionProofs`, `LibraryProofs`, `AreaProofs` | theorems and proofs |

`PhotoApi`, `VariantWorker` and `OrphanSweeper` each EXTEND `PhotoStore` and declare only
their own variables; `PhotoPipeline` EXTENDS the three and gives each one's steps the
UNCHANGED of the others. The mobile backup is a tower (`BackupInventory`, `CloudUpload`,
`BackupEngine`, `BackupScreens`), as is the session with its caches. `Billing` shares no
state with the pipeline in the code (the quota it writes is read by the ticket only) and
stands alone. The pipeline and the clients are not composed: the server a client meets is
what the client can see of it, written in the client's module.

Definitions that no specification uses, most of them commented as a variant or a mutation, are plausible bugs:
`PROJECT.json` pairs each property with one that breaks it, which shows the property
depends on the code it is about. They are not part of any specification.

## 3. The photo pipeline

**State.** `photos[p]` holds the state of `Photo.cs`, where its original lives
("upload", or "saver" once the storage saver rewrote it under another extension), and
the Live flag. "absent" is an id not minted yet, "deleted" one whose row is gone:
ids are Guids and are never reused. `variants[p]` is the set of kinds with a row (the
table is unique on photo and kind), `jobs` the queue in `created_at` order, `blobs` the set
of objects. `client[p]` is the device: uploading, acked (it saw the confirmation), or
gone. `condemned` is a history variable, the photos for which an abort or delete
request was accepted. `req`, `loop`, `lane`, `task` and `sweep` are what the processes hold
in memory.

**Entity Framework.** Three facts carry the model. A context saves everything
pending in it at once (`SaveContext`, which also writes the photo when a variant is
added). An update writes the *changed* columns by primary key (`Merge`): no handler
notices that a row moved on, unless it is gone. And an update of a row that is gone or
an insert that breaks a key fails the whole save (`CanSave`).

**Requests.** `Complete*`, `Abort*`, `Delete*`, `Attach*`, `Reprocess*`, `Ingest*` follow the
handlers of `PhotoService` and `UserPreferencesService` call by call; "todo" is what a
loop of the handler has left. A request's client may disconnect (`Disconnect`), which
cancels the handler at its next await. With `DoubleSubmit` a device sends a second
complete while the first is still running.

**Worker.** A pass of the loop visits the photo lanes, then the video lanes, claims the
oldest queued job for each free one and starts it (`Claim`, `EmptySlice`); with a lane busy at
the end it waits for *one of the busy lanes* (`EndFill`, `LaneFreed`). The loop claims in a
context that lives for one pass. A lane marks its job Done or Failed on the object
of that context (`task`), so the outcome reaches the table only when the same pass
claims again: `Claim` writes `Dirty`. Only the timeout path saves the job itself. The lanes'
actions are the calls of `ProcessJobAsync` in order, with the catch block (`Catch`, `FailSave`)
and the timeout of `RunJobAsync` (`TimeoutSave`, `TimeoutLoad`, `TimeoutMark`, `TimeoutLate`).

**Contract.** `PhotoLifecycle` says what a user may rely on: reserved, then working, then
ready or failed; a failed photo may be worked on again; a ready photo is not, and only the late
failure of an attempt that another one overtook takes it back (`FailLate`, section 10); nothing
but the owner's request removes a confirmed photo. `FollowsLifecycle` maps the
pipeline onto it with `phase <- PhaseOf(photos[p].state)` and `unwanted <- condemned`.

**Abstractions.** One owner; the zip importer appears through the requests it makes. EXIF,
hashes, sizes and names are not modelled. `Recoded` are the photos the saver would
rewrite under *another* extension, the case in which a path changes; when the extension
stays, the put replaces the object in one step. The order of blobs in a delete is
left open, a superset of the code's. Time is replaced by "the device is gone"
(`SlowUploads = FALSE`: no device is slower than the reservation age) or by nothing at all
(`TRUE`). A timeout may happen at any await once the claiming pass is over: the budget is
minutes, a pass is an instant.

## 4. Billing

`purchases` is the table by its unique token, `plan` the user's plan (the quota is written
with it). "running" says that the term and the grace period are not over; `TermEnds` is the
clock. A request (`calls`) keeps the row and the plan it read. `VerifyAdd` is the insert, which
saves before the plan is applied (`VerifyLoad`, `VerifySave`). `Restore*` reads both, asks the store,
and saves both: on a valid answer `RestoreValid` renews and writes only what differs from
what was read; on a refund `RestoreRefunded`, `RestoreCheck` and `RestoreRevoke` revoke the row in memory, ask
the database for other active purchases, and save. `Sweep*` is the pass of the expiry
handler: two saves with one read and one query per user between them. `fresh` is a history
variable, the tokens activated since the pass read its list. The store's answers are
nondeterministic; with `Refunds = FALSE` it never reports one, as the sandbox provider.

## 5. Mobile backup

**State.** `inventory[a]` is a row of `backup_inventory`: its state, the cached hash, the stamp
(size and modification time) a scan last saw and why it is out of the cycle. `rules`, `known` and
`held` are the folder rules, the folders a scan decided about and those that wait for the user. `device`
holds the files, `locked` the Locked Folder of the first version (a list of assets to hide). `job`,
`scan`, `hashing` and `run` are the local variables of the running job, `xfer[l]` the upload a lane is in,
`folderScans` the scans that rule changes start beside it. `server[h]` is the photo row under the hash h a
client claims: none, reserved, or done with its bytes.

**Actions.** One per await. `Start` reads rules and locks once; `WalkFolder`, `FinishScan`, `FetchTargets`,
`HashStart`, `HashFinish` are `runInventoryScan` and `hashPendingItems`; `FinishHashing`, `SeedHashes`, `FetchRows`,
`TakeRow`, `FinishRow`, `FinishRun` are `runBackup`. A transfer is `Ticket`, `Put` or `Part`s, `Complete`, `Abort` and
`Form`, the proxied upload it falls back to. `ApplyRule` with `FolderScanListed` and `FolderScanWalk` is a switch of the folders
screen. `Kill` drops all memory and keeps the tables; `SwitchAccount` empties the tables as the cleanup of a sign-out does.

**Abstractions.** The SHA-256 of a content is the content. Every kind of refusal is a mishap with a name
(`Mishaps`), so that a run can choose which happen. The polls for the worker's verdict change nothing here. The captions,
rates and the progress ring are left out; the breakdown and the figures of each folder are in `BackupScreens`. Of the folders screen only
the rule it applies is modelled: which controls it offers follows from those figures.

## 6. Sessions and caches

**State.** A token stands for a pair; `server` says who owns it, whether its refresh half is live and its access half
fresh. `mem` and `kept` are the tokens in memory and what is persisted, `flights` the `POST /auth/refresh` under
way with `current` as `refreshInFlight`, `calls` the requests with the token they were sent with, `forms` what the auth screens
submit, `leaving` the revocations, `purges` the cleanups of the mobile sign-out. `slips` records that an answer met a
session that is not its own, by kind. `client` chooses the program; both share the single flight and differ in what
they persist, in the order of sign-out (mobile ends at once, the web once the server answered) and in restoring.

`MediaCaches` adds the entries (`files`, a set; an entry's age counts the writes since its own, on the web the uses too), the
queue for download slots (`turn` is the act in which a request joined it) and the settings. `Ensure`,
`SlotGiven`, `Downloaded`, `Stored` are a load; `Enforced` is the eviction of a limited cache and the LRU of the web, which keeps
three caches (`Shelf`). `Refused` and `Failed` are what a download adds to a 401 and a failure: the phone writes the body of a refusal
where the file would be, unregistered, and the next start lists it (`is`). `PurgeFiles` and `PurgeMeta` are the two halves of
the cleanup, around its await.
`SetKeyPhoto` changes bytes behind a key that stays.

**Fairness.** `FairSpec` has weak fairness on `OwnStep` alone: what the client does by itself or with its own disk and key store. That requests are
answered or refused in the end is no property of the code: only the mobile login passes a timeout (`api-client.ts:173`, `210`, `233`). It is an
assumption on the network, `RequestsAnswered`, under which `CallsEnd` is stated. Nothing is assumed of the user or of the clock.

## 7. People

`db` is the server: each face's person, names, verdicts. An embedding is a *look*; a face is close to a person with a face of the same
look. `MergeSuggestions`, the fresh clusters, paging, merging (which moves verdicts along), deleting and the incremental
clustering (`Recluster`) are operators of `PeopleServer`; each command is one step of the server.

`calls` holds the requests: sent, served (`Served` takes the answer as of then), then answered. An answer
knows the visit of the screen it was asked from, so that what a component does after it is unmounted is modelled too. On mobile a
screen asks in its focus effect and drops answers by a sequence number; on the web `Query` names the
request of each query (`from` is its key): it holds its last answer whether shown or not, asks once at a time, and asks when a screen comes to show
it and it is missing, old (chosen freely: time is not modelled) or in `hub.stale`. `Placed` decides what becomes of the request already in
flight, joined or cancelled; a mutation marks the people queries first and the suggestions once those have ended (`then`). `given` on a request is a history
variable: the verdicts the user gave.

## 8. The library as its user meets it

`Library` puts seven areas under one specification. They share no state in the code beyond what the other modules
cover, so a behaviour is one session in one area (`area`), with a budget of taps, of promises in flight and of mishaps. `jobs` is
the sequence of promises in flight, in the order they were begun; any may answer next.

- **Vault.** `disk` is what survives the app (media library, rows, ciphertexts, keys), `app` the memory. Moving a photo in is
  key, encrypt and insert (`ImportStored`), then the system's deletion, which may be refused or may happen and answer no
  (`Deletion`); back it is decrypt to a file, save to the library, erase. The encrypted mode does the same for the whole
  library, photo after photo, and back. `Background` relocks both, `Crash` ends the app between any two awaits. A purge deletes file by file and goes past those it
  cannot delete (`vault-crypto.ts:140-144`): `LockMode` and `Background` leave any of the decrypted files behind, as one mishap, and
  `stuck` names those of the mode until the next purge.
- **ZIP imports.** The request stages a job before its first byte; the web panel restores the list, pumps the archives one by one and
  polls each; the mobile store has one run, known by its token. `Stop` and `CancelImport` reach a request before, while or after it is
  accepted.
- **Web uploads.** The queue is a store of the page; the processor is an effect of the shell, which signing out unmounts and
  signing in mounts again.
- **Web gallery.** An infinite query per filter, the browser's `history` with the entry the viewer pushes, `backs` (pops under way), the viewer's own
  list of ids. `strays` sets apart two ways the code loses step (section 10).
- **Mobile timeline.** A photo is the time it was taken; the camera takes photos now (`clock`), so that each is newer than all there are
  (`FeedAssumption`). `Frontier` is how far the merge may go without a page to come
  holding something newer; a jump rebases both sources, whose newer side is paged upwards. `slips` sets apart answers that land in a window that is not theirs.
- **Mobile cloud grids.** One listing by filter and order; `JumpTo` rebases it on a month; the viewer has its own
  list and index, deletes and reloads the grid behind it.

## 9. Runs

Every parameter is given by the `.cfg` of the run. Deadlock is checked in the runs of the server: the idle
loop can always look at the queue again, and in `Billing` an account may always ask for a restore. The runs of the clients
set CHECK_DEADLOCK FALSE, because a client whose user has no taps left and whose requests are answered does stop.

| Run | Bounds | Distinct states | Shows |
|---|---|---|---|
| `Worker` | 2 photos (1 recoded), 2 lanes, 2 jobs, 2 attempts, 2 mishaps of fault, timeout, crash | 247 391 | `ReadyServable`, `OneHandlerPerJob`, `BytesKept`, `AttemptsSpent` |
| `Requests` | 1 recoded photo, 2 requests (complete, abort, delete), 2 lanes, 2 attempts, 1 fault, timeout, crash or disconnect | 720 372 | `TypeOK`, `ConfirmedHasJob`, `FollowsLifecycle` |
| `Sweep` | 2 photos, 2 requests (complete twice, abort), 1 lane, 1 disconnect | 254 464 | `AckedKept`, `SweptClean` |
| `Import` | 1 recoded photo, 2 requests (attach, ingest, reprocess, delete), 1 lane, 1 disconnect | 263 202 | `ReadyServable`, `FollowsLifecycle` |
| `Progress` | 2 photos (1 video), photo and video lane, complete, delete, fair | 123 913 | `UploadSettles`, `ReservationReleased` |
| `Subscriptions` | 2 accounts, 2 tokens, 1 tier, 2 requests, refunds | 2 515 741 | `BillingTypeOK`, `PaidPlanBought`, `TokenOneAccount`, `SweepSparesActive` |
| `Backup` | 2 photos (1 large, of 2 parts) in 2 folders, 2 contents, 2 lanes, 2 jobs, 1 act, 1 mishap of 13 kinds, breaker at 1, fair | 562 686 | `BackupTypeOK`, `HashFresh`, `LockedNeverSent`, `OneLanePerAsset`, `TransientOwned`, `BackupLeavesNothing`, `RunEnds` |
| `Session` | either client, 2 accounts, 3 requests, 2 refreshes, 3 token pairs, 3 files of 2 photos, 4 acts, 1 mishap of 3 kinds, 1 slot, 1 cached file, fair | 827 101 | `SessionTypeOK`, `OnlyLateAnswersMix`, `RefreshOnce`, `CacheBounded`, `CallsEnd` |
| `People` | either client, 5 faces, 3 ids, 2 databases, 3 requests in flight, 4 acts, pages of 1 | 356 964 | `PeopleTypeOK`, `WindowOfFilter`, `VerdictsKept`, `RejectionFollows` |
| `Library` | seven areas, one at a time: 2 photos, 3 vault ids; 2 archives; 3 files, 2 accounts; 3 web photos, pages of 2; 12 moments on the timeline; 7 in the grids; 3 to 6 taps, 2 to 4 promises, 1 mishap | 885 570 | `LibraryTypeOK`, `NothingLost`, `ModePlaintextGone`, `TransfersFollowed`, `ViewerInStep`, `FeedInOrder`, `GridFollows` |
| `PutFailureLosesPhoto` | as `Backup`, 1 job, only a failed PUT | stops at the violation | violates `QuietBackupStored` |
| `ReviewLosesLast` | as `People` | stops at the violation | violates `LastVerdictSent` |

**Why these bounds.** Two of each actor is what the races of this code need: two lanes on one
photo, two requests on one row, a request against a lane, a sweep against a request. Photos
meet only through the queue, the lanes and the batch save, for which two suffice. `NJobs`
bounds the rows ever inserted in the queue: 2 allows a double complete or a re-processing
besides a first job. `MaxAttempts` is 2 in `Worker` and `Requests`, so the last attempt is reached with two
mishaps. `MaxMishaps` bounds faults, timeouts, crashes and disconnects in one history. The
symmetry of `Subscriptions` covers accounts, tokens and requests, which nothing orders; the
properties there are invariants and a step property. `Sweep` sees two completes in flight for
one photo; the contract run does not, see section 10.

`Backup` needs two photos for two lanes and for dedup between equal files, two jobs so that the second meets what the first
(or a kill of it) left, and a stamp of 2 so that a file can change between them. `Session` needs three pairs: a
login, its refresh, and another login; two requests meet one 401 while a third waits for a slot, and a second refresh may start while the first outlives its session. `People` has five faces so that both merge and
new-face suggestions exist in one database; its symmetry permutes the slots of requests, which mean nothing. In `Library` two
vault jobs suffice to race a gate against a lock or two first uses of the key; the paged areas have more photos than two pages hold, so that a
middle page, a last page and a hole can exist. The cloud grids were also explored with four taps, and by random simulation
with seven (nine for what its proof rests on), without a violation. Random simulation at two to three times the bounds (`Session` with 10 acts and 6 pairs, `People` with 10
acts, `Library` with 12 taps, the pipeline with 4 jobs and 4 mishaps of every kind) visited 4 to 36 million states each and
found none either. The contract, with the properties of `Worker`, was also explored to the end with two photos, two lanes and two mishaps of
fault, timeout and crash (247 391 states), and with one photo, requests, two lanes and two mishaps (962 284).

**Fairness.** In the pipeline (`FairSpec`): weak fairness on the loop, on the sweeper, on each running request
and on each lane. The loop is one thread of control that always runs or sleeps for a
bounded time; the sweeper is a timer; a lane's calls are bounded by the job's timeout, and
a request is served by its own task. In `Backup`: weak fairness on what the job and each lane do by themselves and with the
device (`DeviceStep`, `LaneDeviceStep`); that the server answers is the assumption `RequestsAnswered` of `RunEnds`, because no request of a
backup has a timeout. In `Session`: section 6. Nothing is assumed of devices, users,
mishaps or the clock. Weak fairness suffices, since no other process disables a lane's or a
request's next step for good.

## 10. What the code does not keep

Two runs expect a violation; each checks one sentence the repository states and the code does
not keep. `PROJECT.json` quotes the lines.

| Run | The sentence | What happens |
|---|---|---|
| `PutFailureLosesPhoto` | the upload falls back to the proxied form when "the direct PUT fails" (mobile `cloud-photos-repository.ts:181`) | the reservation of the ticket has the same hash, so the form is answered as its duplicate (`PhotoService.cs:380`); the photo is marked uploaded and its bytes are nowhere |
| `ReviewLosesLast` | "on the last step applies the verdicts" (web `person-screen.tsx:270`) | the last verdict is recorded with a state setter and the review is sent from the same render, without it |

Sentences found broken before them, whose formulas are kept in `PhotoPipeline` and `Billing`:

| Formula | The sentence | What happens |
|---|---|---|
| `UploadSettles` with a crash | a claimed row is requeued at the next start (`VariantProcessingWorker.cs:175`) | nothing requeues `variant_jobs`: the row stays Processing and so does its photo |
| `FailedJobRetried` | `Fail` returns true when the job will be retried (`VariantJob.cs:55`) | the requeued object is in the loop's context and is dropped with it, unless the same pass claims once more |
| `AckedKept` with `SlowUploads = TRUE` | the sweeper deletes photos whose upload was never completed (`OrphanUploadSweeper.cs:8`) | an upload completed between the listing and the deletion is deleted with its bytes |
| `ReprocessRewrites` | the photos are re-enqueued to be rewritten (`UserPreferencesService.cs:28`) | they are Ready, and `MarkProcessing` refuses that state outside the try block: the lane dies |
| `OriginalReachable` | the old blob goes only once the new bytes are durable (`VariantProcessingHandler.cs:145`) | the new *path* is not durable yet; a crash leaves a row whose path leads nowhere |
| `RefundDowngrades` | a refund "RevokesAndDowngrades" (`BillingServiceTests.cs:315`) | the check for other purchases reads the database, where the refunded one is still Active |

The first two share a cause that `MlJobWorker.cs:109-114` describes, and fixes, for the ML queue. The last is
the trap that `BillingExpiryHandler.cs:35-37` describes, and avoids, for the sweep; the test's
in-memory repository shares the object and hides it.

Behaviours met while modelling that no line of the repository rules out clearly enough, or that a property sets apart
by name, are kept here and not as runs.

**Server.**

- Two complete requests in flight for one photo both pass the check of the state. Both confirm, two
  jobs are queued, and a photo that became Ready in between is worked on again; two lanes may then be in the
  handler of one photo, and a Ready photo may lose its variants meanwhile. The run `Sweep` allows it.
- A photo deleted while a lane derives its variants leaves the objects written after the
  listing in the storage, with no row that names them.
- The handler clears the variant rows of a photo before it rebuilds three of them; the row of
  an attached motion clip is not among the three, so the clip is lost while the Live flag stays.
- With two jobs for one photo, the lane that fails last writes Failed over the other's Ready. One job suffices when the save
  after its catch block is slower than another lane's whole work on the requeued job: the contract's `FailLate`.
- A timeout that strikes while the photo is being loaded, on the last attempt, leaves a Failed job and a photo that stays
  PendingProcessing: `MarkFailed` refuses that state. `ConfirmedHasJob` therefore asks for a job that is not Done, not for one that will run.
- The timeout path requeues the job in one save and marks the photo Failed in the next. A crash in
  between leaves a Processing photo, which the retry refuses; a timeout that strikes in the
  handler's last save makes the bookkeeping itself throw, and the job stays Processing.
- With every photo lane idle and a video in progress, the loop waits for the video; a photo that
  arrives is not claimed before the video ends or times out.
- A client that disconnects between the insert of a form upload's row and its last save leaves
  a Processing photo with no job, and a re-upload of the same bytes is answered as its duplicate.
- A crash between the two saves of a verification leaves an Active purchase on the free plan; verifying again
  only returns the status, a restore repairs it.
- A crash between the two saves of the expiry sweep leaves a paid plan with no active purchase;
  the next pass lists only Active purchases and does not return to it.
- A restore that read the row before the sweep saved Expired writes neither the state nor, without a
  longer term, the expiry: the plan is paid and its purchase reads Expired.

**Mobile backup.**

- A photo locked, or a rule changed, while a job runs is not noticed by that job (`backup-inventory.ts:138`); the
  decisions of a scan replace those the user stored meanwhile (known and pending folders).
- A held folder counts as seen at the second scan and its photos are queued (`folder-rules.ts:19-23`).
- A failed row is not tried again until its file changes (`docs/plans/03-backup-e2e.md:129` plans it), and a HEIC photo whose
  transcoding failed once is excluded for good.
- An uploaded row of an excluded folder whose file changed is hashed and uploaded again (against the comment at
  `backup-inventory-repository.ts:190`).
- The second of two equal files is a duplicate of the first's *reservation*, which may still fail.
- A file edited between two jobs whose folder is switched off and on while the second one scans is queued with the hash of its old bytes
  (the scan skips the row, the switch puts it back; `sync-rules-repository.ts:85`), and uploaded under that hash. `HashFresh` therefore
  speaks of rows still to be sent: the uploaded row keeps the old hash, and a later dedup against it may skip another photo.
- Signing out does not stop a running backup. A 401 or 413 within a multipart session leaves it without an abort.
- No request of a backup has a timeout (`api-client.ts:173`, `233`): one that is never answered keeps the job, and both buttons of its screen,
  busy for ever. `RunEnds` assumes that every request is answered.
- The breaker counts consecutive failures over all lanes, and a 401 in another lane hides that the quota is full.

**Sessions and caches** (each is a slip of `OnlyLateAnswersMix`).

- A refresh that answers after sign-out writes its tokens back (`api-client.ts:212`, both clients); its `finally` also clears a newer
  flight, and a rejection of it signs out whoever signed in since.
- On the web a login made while the session is being restored is overwritten by the restoration; a sign-out answered late
  (`user-menu.tsx:33`, the palette, the settings) signs out a newer session.
- The refresh has no timeout (`api-client.ts:210`): while its host does not answer, every request that got a 401 waits for it.
  `CallsEnd` assumes that requests are answered.
- A late plan is stored for another account. Two forms answered late replace each other with no cleanup between.
- An app that ends during the cleanup keeps the old account's metadata (`logout-cleanup.ts:28`); a download in flight at sign-out adds
  its file afterwards.
- On the web a blob requested before the key photo changed is cached under the new one. `blob-cache.ts:39` revokes the
  key and not the URL. The comment at `cloud-media-cache.ts:147` says otherwise than line 160.
- A key store that fails while the app starts shows the login gate and purges nothing (`account.ts:94`, `store`): the token stays on the
  device, and so do the plan and the files.
- The answer of a refused download is written where the file would be (`cloud-media-cache.ts:117`). A retry that is refused deletes it; a
  refresh that fails does not, and the next start of the app lists the error body as the photo. `CacheBounded` counts the files
  of somebody only: such a body takes no part in the size limit until the next start.

**People.**

- Mobile: whether there is more is read off the last page alone; a filter change that fails silently keeps the old
  rows under the new chip; the error is cleared only by Retry; one busy id for all cards lets a second create re-enable the first, and a card
  created twice makes an empty person; the similar-people sheet opened again in one visit stays on its skeletons; a
  stepper that merges the person away leaves its page; merging or creating navigates although the user left.
- Web: after a failed submit, a last verdict answered again sends the *first* answer. The dialog reads the live
  suggestion, which a refetch shifts under the step. A next page that fails replaces the hub by the error, so the footer at
  `people-screen.tsx:432` is unreachable. A hub without people hides the new faces. Merge and delete leave the suggestions stale.
  The hub's refetch after a change joins a window that was asked for before it (`fetchQuery`, line 104), whose answer then passes for fresh.
- The incremental clustering assigns a face to a person it was rejected for.

**Vault and encrypted mode** (`rekeyed`, `partial`, `crossed` and `crash` are the slips of `NothingLost` and `ModePlaintextGone`).

- A key store that cannot be read counts as empty: a new key replaces the one the ciphertexts need
  (`vault-crypto.ts:31-43`); two first uses at once mint two keys.
- `disable` asks whether a migration is running before it awaits the password check and does not ask again
  (`stores/encrypted-mode.ts:84-89`): a mode that is enabled again in between (the key store could not be read, or a second
  `disable` ended) is disabled while its photos are being encrypted, and the key they are under is destroyed. Found while the
  invariant of `NothingLost` was proved; it takes six taps, TLC confirms it with eight.
- A plaintext cut short by a full disk is taken as whole at the next use, exported, and the ciphertext erased.
- A gate that answers after the relock (PIN timer, biometrics) unlocks again; the Locked Folder's grid stays on screen and
  is decrypted again after a relock (against its doc line 61); a configuration that cannot be read lets a new PIN be set.
- A purge swallows the failure to delete a file (`vault-crypto.ts:140-144`): what a viewer still holds is on the device, decrypted, until a later
  lock can delete it. `ModePlaintextGone` excuses those files, and no others.
- The decrypted file of a photo deleted for good stays until the next lock; after a crash all of them do.
- Enabling ends unlocked even if the session was locked meanwhile; leaving and replacing the screen acts wherever the user is.
- Items that could not be removed leave the list like the others.

**Web library.**

- The queue's `reset()` (`ui.ts:150`) is never called: after a sign-out the files that wait are uploaded into the next account, and the
  new shell's processor sends beside the request still in flight. A failed task is not tried again.
- Import: leaving the page loses the archives that wait and cancels nothing; one failed poll says failed; a lost answer marks a
  row failed that was imported; a list that answers after the pump started shows the archive twice. Mobile: cancelling before the task exists
  lets the import run unseen, and a first cancel answered late resets the next run.
- The selection survives a filter change, so photos are deleted that are not shown. A next page that fails hides the whole gallery.
- Viewer: a deletion answered after moving on removes another photo from the list; emptying the list while a pop is on
  its way pops twice; what is opened during that pop is undone (`crossed`); the palette leads elsewhere under an open viewer (`palette`).

**Mobile timeline and grids** (the slips of `FeedInOrder` and `GridFollows`).

- A device page with a paired video or a locked photo drops its overflow while the cursor is past it
  (`media-repository.ts:126-162`, `cut`); a page asked while the first page is in flight counts for the new window (`window`);
  the reload after the viewer has no epoch, is skipped while the cloud is busy, and one that was asked for before a deletion may answer after
  it (all `reload`, `use-unified-feed.ts:343-368`); a failed page ends its source
  (`failed`); a deletion or a new photo shifts the newer side's pages (`newer`). Deleted photos show again until the library's
  change is heard.
- Cloud grid: a page of another filter is let in, and an old answer to an earlier page sets the grid back by pages (both `late`); after a month jump the end of the list loads page 2 of
  the *whole* listing (`jumped`, against the comment at `CloudGallery.tsx:330`); photos from other devices shift the pages
  (`grown`); two deletions at once bring a photo back and move the index (`overlap`). Every close reloads twice, and a video that
  is not ready opens the first photo. A page that fails late replaces a good list by the error.

Hazards of the code without a property, for later: a blob that cannot be deleted by the sweeper (`OrphanUploadSweeper.cs:78`); the
variants cleared under an attached clip (`VariantProcessingHandler.cs:53`); a lost answer to a multipart complete (`PhotoService.cs:328`), a
PUT after the abort (`:302`), concurrent tickets over the quota (`:200`), motion adoption (`:885`); the two saves of a
verification and of the expiry sweep (`BillingService.cs:93`, `BillingExpiryHandler.cs:63`); two refreshes of one token on the
server (`AuthService.cs:88`); notifications lost while reconnecting (`PostgresQueueListener.cs:12`); a detection run twice
(`FaceProcessingService.cs:78`); and those behaviours above that no property names.

## 11. Proofs

Theorems hold for every value of the constants (any number of photos, jobs, lanes, requests, accounts, tokens,
folders, edits and mishaps) under the named assumptions of the modules, which only say that the "no such"
values are outside the sets, that the bounds are numbers, and that what a device holds or is handed (photos, archives, files) is finite.

**`TypeCorrect`: Spec => []TypeOK** (pipeline). `TypeOK` includes the two foreign keys and so is not inductive.
`TypeInv` adds three facts. `Minted`: an id belongs to one upload, so the insert of a form
upload cannot resurrect a deleted row. `Linked`: a busy lane's job is that of the lane's photo, or
both rows are gone; without it a timeout could write a job row that the cascade had removed.
`Tracked`: the batch save of a claim only touches jobs that exist and have an object in memory.
The proof has one lemma per group of actions; `AgedLanes` carries `Linked` across the
steps of other actors, from how the tables age (`Ages`).

**`ConfirmedKept`: Spec => [](~ SlowUploads => AckedKept).** The strengthening says why a row stays:
`Asked`, a running abort or delete was accepted for its photo, and `SweepsGone`, the sweeper
only holds reservations whose device is gone, so none can be confirmed between the listing and the
deletion. The hypothesis is needed: with `SlowUploads = TRUE` the property fails (section 10).

**`AttemptsKept`, `OneHandler`, `JobConfirmed`** (pipeline): Spec => []AttemptsSpent, []OneHandlerPerJob and
[]ConfirmedHasJob. None is inductive, because an outcome lives in memory before a later claim saves it. `WorkInv` therefore says of the
job objects what the properties say of the rows (`TasksSpent`; `Waited`, a photo that waits has a job that neither the table nor memory
calls Done), that one lane works on a claimed job (`OneLanePerJob`) and that this job is Processing in memory and in the table until
it is deleted (`Claimed`), so that no claim can give it away; and what a lane holds of its photo before and in the handler
(`CopyOf`). The steps of requests and sweeper are all of a few shapes (`Served`), those of a lane too (`Worked`): each action is shown
to have one, and the invariant is shown for the shapes.

**`Implements`: Spec => FollowsLifecycle** (pipeline), assuming `Orderly`: no upload outlives the reservation age,
no device sends a second complete while its first one runs, and Ready photos are not enqueued again. Each hypothesis excludes
something the code allows: a slow upload is swept as it is confirmed and a doubled complete gives a photo two jobs (section 10);
re-processing gives a Ready photo a second job, and what that does to the contract is checked, not proved (`Import`).
The refinement mapping reads a photo's phase off its row; a step that moves no phase, or one photo's as the contract allows, is
found from the shapes of `WorkInv`. What makes a move legal is `OrderInv`: a photo has one job at most and none while it is
reserved (`JobOnce`, `Reserved`), so the lane in its handler is the only one and its first save of Processing meets a row that is
not Ready (`HandlerOpen`); a complete in flight is its photo's only one and finds it reserved or gone (`Completing`); an ingest has a
photo no job is for (`Ingesting`); and what the sweeper holds is still reserved or was dropped by its owner (`SweepHolds`), so
no confirmed photo is removed unasked.

**`BytesStay`: Spec => [](~ SlowUploads => BytesKept)** (module `PipelineBytesProofs`). A photo is confirmed only by a complete that has seen
the upload, so `Stored` asks for an original already of a photo whose complete has seen it (`Confirming`). What may take an original
away is the sweeper, which by `SweepsGone` holds only reservations whose device is gone; a request, which by `Asked` was accepted for its photo;
and the saver. For the saver, `SaverWritten` relates a lane's two copies of the row: they differ in the path only once the lane has
written the smaller original and until it has saved the row, and the uploaded one is dropped only in between. The write may be repeated by a retry
or by another lane, but nothing drops the smaller original again.

**`GalleryServes`: Spec => []ReadyServable**, assuming `Orderly`. `BuildInv` follows the two builders of a photo. `Built`: how far a
lane's handler has come, step by step, in rows and objects, where the row's original is there (`Sound`) from the download on or the lane's next
save repoints the row (`Repoints`); `Imported`: the same for a form upload, whose objects come before the row.
Both are about photos nobody asked to delete. That nobody else takes away what a builder relies on is one formula,
`Kind`: every other actor keeps a photo's objects and variant rows and keeps its path or writes one that is there. Only
two steps are not kind to a photo, the clearing of its variants and the drop of its upload; both are a lane's, on a photo that is not
Ready (`HandlerOpen`) and that no other handler is working on (`OneHandlerPhoto`, from `JobOnce`), nor an import (`ImportApart`).

**`SweepLeavesNothing`: Spec => []SweptClean**, assuming `Tidy`: the storage obeys the sweeper, no upload outlives the reservation age, and no
motion clip is attached (an attachment accepted for a reservation writes its clip after the sweep). Neither re-processing nor a
doubled complete is excluded. The argument is who may write an object of a photo: its device while the photo is reserved,
an import while the id has no row, and otherwise a lane, whose photo is past its reservation. `PastInv` says so of every job, lane
and request, and that what the sweeper holds is `Forsaken`: reserved or removed, its device gone, so that no complete is left that could
confirm it. `BareInv` is what the storage then holds: of a reservation the upload at most, of a removed one nothing. A step moves a photo
only `Onward`, which keeps both.

**`BillingTypeCorrect`, `PaidWasBought`, `OneAccount`.** One invariant, `BillingInv`: the type invariant; what
each running request knows of its copies (`Knows`: before the insert, the row it will insert; after it, that the
token is this user's, with the product it will write; in a restore, the same of the row it read); every plan
was bought (`AllBought`); the sweep works on purchases that exist (`SweepsBought`). What lets a stale copy stay true is
`Grows`: purchases are only added, and owner and product never change. `OneAccount` is that lemma as
an action property.

**`SweepSpares`: Spec => []SweepSparesActive.** When the pass picks a user none of its purchases is Active, so an
Active purchase it has later was activated since the pass began (`fresh`); between two passes
nobody is about to be downgraded (`SparesInv`).

**`BackupTypeCorrect`, `OneLane`, `LockedKept`, `NoneStranded`** (mobile backup). One invariant, `BackupInv`, whose
theorem is `BackupCorrect`. Besides the type and the three properties it says what a step of the job knows: `JobKnows`,
the locals are empty outside the steps that use them; `LaneKnows`, how far a lane's transfer can be for what it holds;
`QueueOnce`, an asset is in the queue once and then in no lane, which makes `OneLanePerAsset` inductive;
`LockedOut`, a photo locked at the start is in neither queue nor targets and its row is one that no query of the job returns
(`Unsent`), whatever rule changes and folder scans do to it meanwhile; and `FailuresBounded`, the failures and the photos still to
come are at most the photos there are, which bounds the breaker's counter (the one place that counts, hence the
finiteness assumption). `Gentle` is what any statement run beside the job does to a row: it makes none transient and keeps an
`Unsent` row so.

**`HashesFresh`: Spec => []HashFresh** (also in `BackupProofs`). `HashFresh` asks about rows whose stamp is the file's; `HashInv` adds
that no stamp is newer than the file's, that no row that is queued, in a lane or being hashed is uploaded, and that a row among the
targets of the hashing is not uploaded or has no hash. Hence only an upload makes a row uploaded, and no
step gives an uploaded row a hash (`Calm`): a row leaves the exception only by losing its hash.

**`SessionTyped`, `NothingElseMixes`, `PresentedOnce`, `CachesBounded`** (sessions and caches of both clients, module `SessionProofs`).
One invariant, `SessionInv`, whose theorem is `SessionHolds`. None of the four properties is inductive. `TokensKnown`: what memory, the
persisted copy, the flights and the requests carry was issued, the two copies agree where the client keeps them together, and a refresh
hands a session to its owner. `Rotated`, until a refresh outlives its session: the token in memory is presented by the flight
`refreshInFlight` names or by none, and a token that is on its way back is known to nobody yet; hence a flight that starts presents a
token nobody presents. `Mobile` and `Web` say how each client keeps the user it shows beside the user it persists. `TokensOwned`,
`PlanOwned`, `MetaOwned` and `FilesOwned` are the parts of `OnlyLateAnswersMix`, the metadata without its exception for a start in
progress. For the caches
an eviction keeps the entries that have at most `Ceiling` on their shelf no older than themselves; of a finite set with an age on
each entry those are `Ceiling` at most, shown with the oldest one kept (`YoungestKept`), and this is why finiteness of
`files` is in the invariant. The steps are again of few shapes: `Quiet` ones leave the session alone (`CoreOrQuiet`), and a step changes
`files` in one of six ways (`FileStep`).

**`RejectionsFollow`: Spec => RejectionFollows; `ReviewsKeepVerdicts`: Spec => []VerdictsKept** (people, module `PeopleProofs`). One
invariant, `Sound`, whose theorem is `PeopleSound`. `DbSound`: a verdict of the server is on a person there is, so that deleting or merging a
person leaves no verdict behind that a later person could be blamed for. `UiSound`: the three lists of an open review are exactly the
verdicts given so far, skips left out. `CallSound`: what a request sends was given; on mobile all of it, on the web all but
one verdict, the one `finish` reads too early. `RejectionFollows` is then shown command by command: only a merge moves a rejection, and it
moves it to the one the merge keeps; only deleting a person drops one, and a suggestion offers no face that was rejected
for its person. `VerdictsKept` rests on `Sound` for every slot at
once: `Follows` says that a step makes a request with the verdicts of the review it ends, or with none. Assumed are that the ids a person can have are a sequence, and of the databases at first what
the foreign key of `face_review_decisions` says (with its cascade, which is why it lasts).

**`WindowFollows`: Spec => []WindowOfFilter** (the hub of the people screens, also in `PeopleProofs`). The property speaks of
moments without a window in flight; `Hub` says what holds during one. On mobile (`MobileHub`): no window is newer than the
newest asked for and that one is of the filter that is lit, so that any older answer drops itself; and either the
hub shows its filter, or it has failed, or the newest window is still in flight (`Newest`). On the web (`HubWaits`): either the hub is settled or
a window of the lit filter is in flight, of which the query cache keeps one whatever else is fetched, joined or cancelled
(`FetchWindows`). That nobody is listed twice rests on the listing being a strict order (`BeforeOrders`, `OrderedRows`), on a page having each id
once (`PageRows`) and on the later page leaving out whom it finds (`FreshRows`): rows grow and people move between pages meanwhile.
Most of the steps are `Quiet`: they leave the listing of the hub and the windows in flight alone; the others ask for a first page (`Asks`),
for a later one (`Pages`), turn to another filter (`Turns`) or take an answer (`HubAnswer`). Assumed are that the faces and the
slots for requests are finitely many and that a page has room for someone.

**`PhotosKept`: LibrarySpec => []NothingLost; `PlaintextGone`: LibrarySpec => []ModePlaintextGone** (vault and encrypted mode, module
`LibraryProofs`). One invariant, `LibraryInv`, whose theorem is `LibraryInvariant`; neither property is inductive. A photo moves in
several awaits, so most of the invariant says what a promise in flight remembers and why it is still so. `DiskOk`: a row of the vault
or of the mode has its file and was encrypted with some key, and no original in the gallery is younger than the last one saved there. `Knows` and
`JobsOk`: an import that is about to delete an original knows which it is and holds a vault id that is this photo's and no other import's.
`Alone`, until the slip `crossed`: there is one migration at a time; one that encrypts has each photo on its list once, none of them encrypted yet but
the one it is deleting; and one that decrypts has every encrypted photo on its list, until one of them fails, so that the key is dropped when none
needs it. `KeysKept`: the key of a row is the one in the key store. `HomesKept` is `NothingLost` made inductive: every
photo has a home (the library, a row of the vault or of the mode with its file), and a photo whose original a promise
is about to delete has a home that outlives every rollback and every removal now in flight (`Outlives`). One home is not enough:
two imports or exports of one photo may interleave, and the one that fails removes the home the other relied on.
For `ModePlaintextGone` (`Clean` in the invariant): nothing decrypted is written while the key is out of memory, and what takes the key out purges,
naming in `stuck` exactly the files it could not delete, or, when the mode is turned off, comes after the last copy is gone.
The steps are of a few shapes (`Still`, `From`, `Goes`, `Turns`): the disk is untouched, a promise ends, goes on, or the
disk is changed as one promise is entitled to; each action is shown to have one and the invariant is shown for the shapes. In the other six areas the
disk is `Clean` too. Assumed are that the photos are finitely many and that on the first disk each is somewhere.

**`NothingHangs`: LibrarySpec => []TransfersFollowed** (imports and uploads, module `AreaProofs`). `TransferInv` is `UploadInv` in the upload
queue and `ImportInv` in the imports. The queue: requests and files that say they are uploading belong to each other one to one (`RequestsOk`,
`TasksOk`), one request at most has a processor that waits for it, the processor runs exactly as long as there is one, and copies of one file
say the same. The imports: each transfer has a job of its own on the server, and the job is as far as the transfer is (`Fit`, `Own`), so that a new
id is nobody's; every row of the panel and every phase of the phone that says busy is awaited by a promise that is alive (`Awaited`, by the key of
the row or the token of the run); and a row that says done has a job the server calls Done, a state it never leaves. The lemmas about the
end of a promise say which rows may lose the one they await.

**`ViewerKeepsStep`: LibrarySpec => []ViewerInStep** (also in `AreaProofs`). The property speaks of moments without a pop on its way; `ViewerInv` says what
holds during one (`InTouch`): only the entry in front can be a viewer's; an open viewer has it; an entry whose viewer has closed
is left to a pop that is still to come, and so is an X that is spent. A change of the gallery beside the viewer keeps it (`Aside`, `SameViewer`), also every
answer that comes late; what remains are the eight steps that open, close, push or pop.

**`GridShows`: LibrarySpec => []GridFollows** (the cloud grids of the phone, also in `AreaProofs`). The property says that nothing is left out
before the last photo that is shown; `Whole` adds what the next page needs. From the start of the listing, a photo the grid knew of is shown
if its place among all photos there are now is within the pages that are counted, and a photo that is shown has its place within them
among those the grid knew or shows. Photos that arrive only move others to later places (`PlaceGrows`), one moves them by one (`PlaceOneMore`): so the
page after the last adds photos behind the last one (`ExtendedWhole`), also when one photo has arrived in between, and a first page or a jump
starts over (`RebasedWhole`). This counts unless a slip is noted, the viewer is open or an answer on its way will start the window over
(`GridInv`). The effect's own request that is still heeded is always of the filter that is chosen (`FirstsFit`). The attempt showed a slip the model had
taken for harmless: an answer to an earlier page that comes after a later one. Assumed are that a photo's time is a number, that photos are
finitely many and that a page has room for one.

**`FeedShows`: LibrarySpec => []FeedInOrder** (the Photos tab, module `LibraryProofs`; lists, pages and the invariant in `AreaProofs`). The property
speaks of two merged lists, the invariant of each apart. `Held` says that a list is sorted and holds exactly the photos whose place in the
listing of its source is within what was read, but for those a page leaves out or cuts off. It holds of the phone's photos as far as the cursor
(`DeviceFits`), of the cloud's as far as the pages counted (`CloudFits`), of a reload under way as far as it has come
(`ReloadsFit`), and of both newer sides (`NewerFits`). It need not hold while an answer on its way starts the list over, nor of a list a slip
is noted for, so `FeedOk` also says what is in flight: a page of the cloud is the first or the next of this window (`PagesOk`), of
two there is one at most, a page of the phone starts at the cursor of the window that is shown unless it is `crossed`, and without the
permission there is none (`Ungranted`). Reading a page keeps `Held` (`AddsHeld`: the page's places
are the next, by `CloudPageIs` and `DevicePageIs`); what the camera takes is newer than all, so that it shifts the places of the
window, which is then read anew, and none of the newer side. What the merge holds is what the recursive function says of one pair of
places at a time: `ZipExists` and `ZippedIs` go by how much of the two lists is left, of whose counterexamples the naturals have a least (`LeastOf`).
Then `HeldComplete` says of each source that down to its frontier nothing is missing, `MergedShown` and `NewerSideShown` the same of
both together, and `ListedShown` of one list above the other. The attempt showed two errors of the model: its camera took a removed photo
again, in a place that a page had passed, where the code's new photo has a time of its own (hence `clock`); and a reload that
a deletion overtakes was not a slip when a second reload followed it. Assumed (`FeedAssumption`) are that the times are finitely many positive
numbers, that a month ends between photos, that no photo of the phone is in the cloud without the inventory knowing it, that the camera's
photos are newer than all others, and that a page has room for one.

Model-checked only: the liveness properties (temporal reasoning under fairness is out of this
prover's reach); `BackupLeavesNothing`; `FollowsLifecycle` and `ReadyServable` without `Orderly`; the type invariants `LibraryTypeOK` and `PeopleTypeOK`,
whose parts that a proof needs are in its invariant.

## 12. Limits

- Of `PhotoService`, multipart sessions, quota, dedup, key-photo replacement and motion adoption are not
  modelled; neither are its read-only queries. (The multipart session is modelled from the phone's side, in `CloudUpload`.)
- `SweptClean` is checked and proved without storage faults (the sweeper logs a blob it cannot delete and drops its row) and without motion
  clips (a clip attached to a reservation the sweeper is dropping stays behind).
- A presigned URL outlives the abort; the model's device stops once it has aborted.
- The liveness run `Progress` has no mishap: with a crash or a fault the property fails (section 10).
- The re-processing of `UserPreferencesService` is one photo per request: its loop over the
  photos inserts each job by a save of its own.
- Billing's status reporting changes nothing. The tier's quota is a function of the product.
- The backup's properties are about files that no other program writes while a job runs; between jobs and before they are
  edited and deleted freely.
- `Library` is one area at a time. The areas share the HTTP client and the query cache of the web, and nothing that the
  properties there tell apart; what they share through the session is in `ApiSession`.
- Runs allow one mishap in a client (two where the table says so), and pages of one or two items. The browser's forward button is never pressed.
- On the server of the people screens a command is one step: two commands that interleave inside it are not explored.
- The web people screens keep one listing per query: what the cache holds of a filter or a search left behind is asked for again. The hub's
  prefetch of the next window, the query library's own retry, the photo grids and a rename left open under another dialog are left out, and a
  preview asks for its photos at each opening.
- Object URLs are not revoked in `MediaCaches`; a page that unloads is a restart of the client. Files there are of one size, and the three
  caches of the web have one ceiling. A step is atomic where the code awaits only the key store or the registration of a file that has
  arrived: a token and its persisted copy, clearing a session and resetting the account store, a setting and the eviction it causes.
- A purge may fail on any file, but the deletion of a single decrypted file when its entry is removed always succeeds in `Vault`; the mode's
  photo has just gone back to the library in clear, and an id of the vault is not used again.
- Progress figures, captions, gestures, animations and the layout of grids are left out throughout.

## 13. Not modelled

| Part | Why |
|---|---|
| Queue wake-up (`PostgresQueueListener.cs`) | the worker model may look at the queue at any time, which covers every delay of a notification; that the delay is bounded by the idle interval is a statement about time |
| Upload quota (`PhotoService.cs:193-233`) | one read of a sum, a comparison and an insert with no lock between them: that two tickets may pass together is plain from the code, and what the quota should then hold is not said |
| ML jobs (`MlJobWorker.cs`, `FaceProcessingService.cs`) | the queue is that of the variant jobs with the requeue the latter lack; the incremental clustering pass is in `PeopleServer`; the detection itself is numeric |
| Server side of token rotation (`AuthService.cs:88`) | `ApiSession` takes a rotation as one step; two concurrent refreshes with one token, which two tabs of a browser may send, are not explored |
| Storage providers | adapters over file systems, S3 and Azure; what a handler needs of them is `blobs` |
| Imaging, metadata, ML container | codecs, EXIF and inference: no protocol state |
| Other screens (settings, albums, favorites, search, onboarding) | they show and forward what the modelled stores hold |

## 14. Plan

In order of weight; each item is a module with its run, written so that it can be proved about.

1. Pipeline: `ReadyServable` and the contract with re-processing, which need an invariant of two jobs of one photo.
2. `UploadQuota` and `MultipartUpload` on the server: reservation in two steps, retry after a lost answer, the
   late PUT; composed with `PhotoStore` and, on the other side, with `CloudUpload`.
3. `MlJobs`: detection, the clustering job enqueued by a later save, user corrections against a clustering pass;
   an abstract "every face is clustered in the end" that it implements.
4. `AuthSession`: token rotation inside `AuthService`; `QueueWake`.
5. `Billing`: liveness of the downgrade, stated per crash-free pass.
