---------------------------- MODULE MediaCaches -----------------------------
(***************************************************************************)
(* The media caches of the two clients over the session.  Mobile keeps     *)
(* files on disk, downloads a few at a time and evicts by window and by    *)
(* size; the web keeps object URLs in memory and queues face crops.  An    *)
(* entry's age counts the writes (on the web also the uses) since its own. *)
(***************************************************************************)
EXTENDS ApiSession

CONSTANTS Files,     \* cached variants and face crops
          KindOf,    \* [Files -> {"thumbnail", "preview", "original", "crop"}]
          PhotoOf,   \* the photo of each
          Newest,    \* the photos, newest first
          Recent,    \* DEFAULT_PREVIEW_PREFETCH_COUNT
          Ceiling,   \* files a limited cache holds, and entries of the web's
          Cap        \* downloads at a time

ASSUME CacheAssumption ==
  /\ Files \cap {"api", "plan"} = {} /\ Kinds \subseteq {"api", "plan"}
  /\ PhotoOf \in [Files -> {Newest[i] : i \in DOMAIN Newest}]
  /\ Ceiling \in Nat /\ Cap \in Nat \ {0}

VARIABLES files,     \* cached entries
          cache,     \* mobile settings and the eviction flags
          bytes,     \* version of the bytes of each photo on the server
          meta       \* accounts whose metadata is on the device

cacheVars == <<files, cache, bytes, meta>>
vars == <<sessionVars, cacheVars>>

Photos == {Newest[i] : i \in DOMAIN Newest}
Window(n) == {Newest[i] : i \in {j \in DOMAIN Newest : j <= n}}
Mode == {"default", "limited", "all"}

CacheInit ==
  /\ files = {} /\ meta = {}
  /\ cache = [mode |-> "default", count |-> 0, previews |-> FALSE, originals |-> FALSE, window |-> {}]
  /\ bytes = [p \in Photos |-> 0]

(* knownFiles: on disk and registered.  The body of a refused download stays
   on disk unregistered, until the next start of the app lists it. *)
Cached(k) == \E e \in files : e.file = k /\ e.is = "cached"
Written(fs, e) == {[x EXCEPT !.age = @ + 1] : x \in {y \in fs : y.file # e.file}} \cup {e}

(* Files go by least recent write, in limited mode only, and crops are
   exempt; the web has three caches, each dropping what was used longest ago. *)
Limited(k, mode) == client = "web" \/ (mode = "limited" /\ KindOf[k] # "crop")
Shelf(k) ==
  CASE client = "mobile" -> "disk"
    [] client = "web" /\ KindOf[k] \in {"preview", "original"} -> "preview"
    [] OTHER -> KindOf[k]
SameShelf(fs, e, mode) == {x \in fs : Limited(x.file, mode) /\ Shelf(x.file) = Shelf(e.file)}
Enforced(fs, mode) ==
  {e \in fs : \/ ~Limited(e.file, mode)
              \/ Cardinality({x \in SameShelf(fs, e, mode) : x.age <= e.age}) <= Ceiling}

(* evictStalePreviews, evictStaleOriginals. *)
Evicted(fs, kind, keep) == {e \in fs : KindOf[e.file] # kind \/ PhotoOf[e.file] \in keep}

(* ------------------------------- downloads ------------------------------ *)

Capped(k) == client = "mobile" \/ KindOf[k] = "crop"
Active == {c \in Calls : /\ calls[c].step \in {"sent", "refreshing", "body"}
                         /\ IsFile(calls[c].what) /\ Capped(calls[c].what)}
PendingSent(k) == \E c \in Calls : calls[c].step = "sent" /\ calls[c].what = k
Pending(k) == \E c \in Calls : calls[c].step # "idle" /\ calls[c].what = k

(* ensureCloudFile and ensureFaceCrop, BlobUrlCache.load: nothing to do for
   a cached entry, nothing to add to a download of the same file.  A slot is
   handed to whoever waits, so a newcomer queues behind. *)
Ensure(c, k, urge) ==
  LET free == \/ ~Capped(k)
              \/ Cardinality(Active) < Cap /\ \A d \in Calls : calls[d].step # "waiting" IN
  /\ ui.phase = "in" /\ FreeCall(c) /\ Act
  /\ ~Cached(k) /\ ~Pending(k)
  /\ urge = "low" => client = "web" /\ KindOf[k] = "crop"
  /\ calls' = [calls EXCEPT ![c] =
                 IF free THEN [NoCall EXCEPT !.step = "sent", !.what = k, !.tok = mem.access]
                 ELSE [NoCall EXCEPT !.step = "waiting", !.what = k, !.urge = urge, !.turn = acts]]
  /\ UNCHANGED <<client, mem, kept, server, flights, current, forms, ui, boot, leaving, purges,
                 slips, mishaps, cacheVars>>

(* The next download takes the slot another gave up: first come first
   served, but what the web prefetches yields to what it shows.  (The first
   is a variant in which a download yields to itself.) *)
BeforeOrSame(d, c) == \/ calls[d].urge = "high" /\ calls[c].urge = "low"
                      \/ calls[d].urge = calls[c].urge /\ calls[d].turn <= calls[c].turn
Before(d, c) == \/ calls[d].urge = "high" /\ calls[c].urge = "low"
                \/ calls[d].urge = calls[c].urge /\ calls[d].turn < calls[c].turn
SlotGiven(c) ==
  /\ calls[c].step = "waiting" /\ Cardinality(Active) < Cap
  /\ \A d \in Calls : calls[d].step = "waiting" => ~Before(d, c)
  /\ calls' = [calls EXCEPT ![c] = [NoCall EXCEPT !.step = "sent", !.what = calls[c].what,
                                                  !.tok = mem.access]]
  /\ UNCHANGED <<client, mem, kept, server, flights, current, forms, ui, boot, leaving, purges,
                 slips, mishaps, acts, cacheVars>>

(* The server answers with the bytes of this version; they are on their way. *)
Downloaded(c) ==
  LET k == calls[c].what IN
  /\ calls[c].step = "sent" /\ IsFile(k) /\ calls[c].tok \in server.fresh
  /\ calls' = [calls EXCEPT ![c] = [@ EXCEPT !.step = "body", !.ver = bytes[PhotoOf[k]]]]
  /\ UNCHANGED <<client, mem, kept, server, flights, current, forms, ui, boot, leaving, purges,
                 slips, mishaps, acts, cacheVars>>

(* They arrive: knownFiles.add and the size limit (not after a crop); on the
   web BlobUrlCache.set. *)
Stored(c) ==
  LET k == calls[c].what
      e == [file |-> k, who |-> Owner(calls[c].tok), ver |-> calls[c].ver, age |-> 0, is |-> "cached"] IN
  /\ calls[c].step = "body"
  /\ files' = IF client = "mobile" /\ KindOf[k] = "crop" THEN Written(files, e)
              ELSE Enforced(Written(files, e), cache.mode)
  /\ calls' = [calls EXCEPT ![c] = NoCall]
  /\ Slip(IF client = "mobile" THEN "download" ELSE "load",
          IF client = "mobile" THEN e.who # ui.user
          ELSE KindOf[k] # "crop" /\ e.ver # bytes[PhotoOf[k]])
  /\ UNCHANGED <<client, mem, kept, server, flights, current, forms, ui, boot, leaving, purges,
                 mishaps, acts, cache, bytes, meta>>

(* On the phone the answer of a refused download is written where the file
   would be; only a refused retry, or another failure, deletes it. *)
Refusal(k) == [file |-> k, who |-> Nil, ver |-> 0, age |-> 0, is |-> "left"]
Refused(c) ==
  LET k == calls[c].what IN
  /\ Unauthorized(c)
  /\ files' = IF client = "mobile" /\ IsFile(k) THEN Written(files, Refusal(k)) ELSE files
  /\ UNCHANGED <<cache, bytes, meta>>
Failed(c) ==
  LET k == calls[c].what IN
  /\ CallFails(c)
  /\ \/ mishaps' # mishaps /\ UNCHANGED files
     \/ /\ client = "mobile" /\ IsFile(k)
        /\ files' = {e \in files : e.file # k}
     \/ ~(client = "mobile" /\ IsFile(k)) /\ UNCHANGED files
  /\ UNCHANGED <<cache, bytes, meta>>

(* BlobUrlCache.get: the web's entries go by least recent use. *)
Touched(e) ==
  /\ client = "web" /\ ui.phase = "in" /\ e \in files /\ e.age # 0 /\ Act
  /\ files' = Written(files, [e EXCEPT !.age = 0])
  /\ UNCHANGED <<client, mem, kept, server, flights, current, calls, forms, ui, boot, leaving,
                 purges, slips, mishaps, cache, bytes, meta>>

(* Live photo: another frame becomes the key photo; the web drops the
   variants it holds, unless the answer is lost. *)
SetKeyPhoto(p) ==
  /\ client = "web" /\ ui.phase = "in" /\ Act /\ bytes[p] = 0
  /\ bytes' = [bytes EXCEPT ![p] = 1]
  /\ \/ /\ files' = {e \in files : PhotoOf[e.file] # p \/ KindOf[e.file] = "crop"}
        /\ UNCHANGED <<slips, mishaps>>
     \/ Mishap("net") /\ Slip("load", TRUE) /\ UNCHANGED files
  /\ UNCHANGED <<client, mem, kept, server, flights, current, calls, forms, ui, boot, leaving,
                 purges, cache, meta>>

(* ------------------------------- eviction ------------------------------- *)

NotCacheActs == <<client, mem, kept, server, flights, current, calls, forms, ui, boot, leaving,
                  purges, slips, mishaps, bytes, meta>>

(* prefetchRecentPreviews, once until the mode changes; its downloads are
   Ensure. *)
PrefetchPreviews ==
  /\ client = "mobile" /\ ui.phase = "in" /\ ~cache.previews /\ cache.mode # "all" /\ Act
  /\ cache' = [cache EXCEPT !.previews = TRUE]
  /\ files' = Evicted(files, "preview", Window(Recent))
  /\ UNCHANGED NotCacheActs

(* prefetchRecentOriginals: a window of none evicts them all. *)
PrefetchOriginals ==
  LET keep == Window(cache.count) IN
  /\ client = "mobile" /\ ui.phase = "in" /\ Act
  /\ ~cache.originals \/ cache.count > 0
  /\ cache' = [cache EXCEPT !.originals = TRUE, !.window = keep]
  /\ files' = IF cache.originals THEN files ELSE Evicted(files, "original", keep)
  /\ UNCHANGED NotCacheActs

(* cloudCacheModeChanged. *)
ModeChanged(mode) ==
  /\ client = "mobile" /\ ui.phase = "in" /\ Act /\ mode # cache.mode
  /\ cache' = [cache EXCEPT !.mode = mode, !.previews = FALSE]
  /\ files' = Enforced(files, mode)
  /\ UNCHANGED NotCacheActs

(* cloudFullCacheCountChanged: the last window, cut to the new size. *)
CountChanged(n) ==
  LET keep == cache.window \cap Window(n) IN
  /\ client = "mobile" /\ ui.phase = "in" /\ Act /\ n # cache.count
  /\ cache' = [cache EXCEPT !.count = n, !.originals = FALSE, !.window = keep]
  /\ files' = Evicted(files, "original", keep)
  /\ UNCHANGED NotCacheActs

(* --------------------------------- purge -------------------------------- *)

(* Searches, inventory, rules and purchase token of the signed-in user. *)
Recorded ==
  /\ client = "mobile" /\ ui.phase = "in" /\ ui.user \notin meta /\ Act
  /\ meta' = meta \cup {ui.user}
  /\ UNCHANGED <<client, mem, kept, server, flights, current, calls, forms, ui, boot, leaving,
                 purges, slips, mishaps, files, cache, bytes>>

(* purgeAccountData up to the image cache it awaits, and after it. *)
PurgeFiles ==
  /\ purges.files > 0
  /\ purges' = [files |-> purges.files - 1, meta |-> purges.meta + 1]
  /\ files' = {}
  /\ UNCHANGED <<client, mem, kept, server, flights, current, calls, forms, ui, boot, leaving,
                 slips, mishaps, acts, cache, bytes, meta>>
PurgeMeta ==
  /\ purges.meta > 0
  /\ purges' = [purges EXCEPT !.meta = @ - 1]
  /\ meta' = {}
  /\ UNCHANGED <<client, mem, kept, server, flights, current, calls, forms, ui, boot, leaving,
                 slips, mishaps, acts, files, cache, bytes>>

(* A restart ends the downloads, resets the flags and empties what was in
   memory; loadKnownFromDisk registers whatever lies on disk. *)
CacheRestart ==
  /\ Restart
  /\ cache' = [cache EXCEPT !.previews = FALSE, !.originals = FALSE, !.window = {}]
  /\ files' = IF client = "web" THEN {} ELSE {[e EXCEPT !.is = "cached"] : e \in files}
  /\ UNCHANGED <<bytes, meta>>

Init == SessionInit /\ CacheInit

(* What a request waits for. *)
SessionReply ==
  \/ \E k \in Form : Submitted(k)
  \/ \E f \in Flight : FlightServed(f) \/ FlightAnswered(f)
  \/ \E c \in Calls : Accepted(c)
  \/ \E t \in leaving : LogoutEnds(t)
SessionAnswer == SessionReply \/ Resolve \/ Restore
SessionAct ==
  \/ \E k \in Form, who \in Accounts : Submit(k, who)
  \/ \E c \in Calls, what \in Kinds : Call(c, what)
  \/ \E t \in DOMAIN server.owner : Expire(t)
  \/ SignOut
CacheReply == \E c \in Calls : Downloaded(c) \/ Stored(c) \/ Refused(c) \/ Failed(c)
CacheAnswer == PurgeFiles \/ PurgeMeta \/ (\E c \in Calls : SlotGiven(c)) \/ CacheReply
CacheAct ==
  \/ \E c \in Calls, k \in Files, urge \in {"high", "low"} : Ensure(c, k, urge)
  \/ \E e \in files : Touched(e)
  \/ \E p \in Photos : SetKeyPhoto(p)
  \/ PrefetchPreviews \/ PrefetchOriginals
  \/ \E mode \in Mode : ModeChanged(mode)
  \/ \E n \in 0..1 : CountChanged(n)
  \/ Recorded

Next == \/ SessionAnswer /\ UNCHANGED cacheVars
        \/ SessionAct /\ UNCHANGED cacheVars
        \/ ((\E f \in Flight : FlightLost(f)) \/ ResolveFails) /\ UNCHANGED cacheVars
        \/ CacheAnswer \/ CacheAct \/ CacheRestart

Spec == Init /\ [][Next]_vars
(* What the client does by itself, or with its own disk and key store, is
   done in the end. *)
OwnStep ==
  \/ (Resolve \/ Restore) /\ UNCHANGED cacheVars
  \/ PurgeFiles \/ PurgeMeta \/ (\E c \in Calls : SlotGiven(c))
FairSpec == Spec /\ WF_vars(OwnStep)
(* An assumption on the network, which the code does not enforce: only the
   login of the mobile client has a timeout. *)
RequestsAnswered == WF_vars(SessionReply /\ UNCHANGED cacheVars) /\ WF_vars(CacheReply)

(* ------------------------------ properties ------------------------------ *)

CallRecord == [step: {"idle", "waiting", "sent", "refreshing", "body"}, what: Files \cup Kinds \cup {Nil},
               tok: Nat, flight: Flight \cup {0}, tries: {0, 1}, ver: {0, 1}, urge: {"high", "low"}, turn: Nat]
FlightRecord == [step: {"free", "sent", "ok", "rejected", "lost"}, tok: Nat, new: Nat]
FileRecord == [file: Files, who: Accounts \cup {Nil}, ver: {0, 1}, age: Nat, is: {"cached", "left"}]

(* Types, and what the records rely on: the flight refreshInFlight names, the
   one a request waits for and the one a restore waits for are under way, and
   whoever waits for a slot waits for a download. *)
ClientTypeOK ==
  /\ client \in {"mobile", "web"}
  /\ mem \in [access: Token, refresh: Token]
  /\ kept \in [token: Token, user: Accounts \cup {Nil}, plan: Accounts \cup {Nil}]
  /\ ui \in [phase: {"restoring", "in", "out"}, user: Accounts \cup {Nil}, plan: Accounts \cup {Nil}]
LedgerTypeOK ==
  /\ forms \in [Form -> Accounts \cup {Nil}]
  /\ purges \in [files: Nat, meta: Nat] /\ mishaps \in Nat /\ acts \in Nat
ServerTypeOK ==
  /\ server \in [owner: Seq(Accounts), live: SUBSET Token, fresh: SUBSET Token]
  /\ server.live \cup server.fresh \subseteq DOMAIN server.owner
FlightTypeOK ==
  /\ flights \in [Flight -> FlightRecord]
  /\ current \in Flight \cup {0} /\ boot \in Flight \cup {0}
  /\ \A f \in {current, boot} \ {0} : flights[f].step # "free"
CallTypeOK ==
  /\ calls \in [Calls -> CallRecord]
  /\ \A c \in Calls :
       /\ calls[c].step = "refreshing" => calls[c].flight # 0 /\ flights[calls[c].flight].step # "free"
       /\ calls[c].step = "waiting" => calls[c].what \in Files /\ calls[c].tok = 0
       /\ calls[c].step = "body" => calls[c].what \in Files
CacheTypeOK ==
  /\ cache \in [mode: Mode, count: Nat, previews: BOOLEAN, originals: BOOLEAN, window: SUBSET Photos]
  /\ files \in SUBSET FileRecord /\ bytes \in [Photos -> {0, 1}] /\ meta \in SUBSET Accounts
SessionTypeOK ==
  ClientTypeOK /\ LedgerTypeOK /\ ServerTypeOK /\ FlightTypeOK /\ CallTypeOK /\ CacheTypeOK

(* Everything the client holds belongs to the user it shows.  The only ways
   out are answers that outlived the session they were asked for, a cleanup
   cut short by the end of the app and a key store that fails as it starts,
   each with its own damage; a file of nobody is the body of a refusal. *)
OnlyLateAnswersMix ==
  /\ "refresh" \notin slips => \A t \in {mem.access, mem.refresh} \ {0} :
                                 "logout" \in slips \/ Owner(t) = ui.user \/ ui.phase = "restoring"
  /\ "refresh" \notin slips /\ kept.user # Nil /\ kept.token # 0 => Owner(kept.token) = kept.user
  /\ slips \cap {"plan", "login", "refresh", "store"} = {} /\ ui.phase = "in" => ui.plan \in {Nil, ui.user}
  /\ slips \cap {"purge", "login", "store"} = {} /\ purges.files + purges.meta = 0 /\ ui.phase # "restoring"
       => meta \subseteq {ui.user}
  /\ client = "mobile" /\ slips = {} /\ purges.files = 0 /\ ui.phase # "restoring"
       => \A e \in files : e.who \in {ui.user, Nil}
  /\ client = "web" /\ "load" \notin slips
       => \A e \in files : KindOf[e.file] = "crop" \/ e.ver = bytes[PhotoOf[e.file]]

(* No two refreshes under way at once present the same token: the second
   presentation would be a rejection and cost the session. *)
RefreshOnce ==
  "refresh" \notin slips =>
    \A f, g \in Flight : f # g /\ flights[f].step # "free" /\ flights[g].step # "free"
                         => flights[f].tok # flights[g].tok

(* A limited cache keeps what it downloaded within its ceiling, downloads
   keep within their slots, and no file is downloaded twice at once. *)
CacheBounded ==
  /\ \A k \in Files : Limited(k, cache.mode) =>
       Cardinality({e \in files : /\ Limited(e.file, cache.mode) /\ Shelf(e.file) = Shelf(k)
                                  /\ e.who # Nil}) <= Ceiling
  /\ Cardinality(Active) <= Cap
  /\ \A c, d \in Calls : c # d /\ calls[c].step # "idle" /\ calls[d].step # "idle"
                         /\ IsFile(calls[c].what) => calls[c].what # calls[d].what

(* Every request ends as long as the network answers or refuses each: none is
   left behind by the flight it waits for nor in the queue for a slot. *)
CallsEnd == RequestsAnswered => \A c \in Calls : []<>(calls[c].step = "idle")
=============================================================================
