----------------------------- MODULE MobileFeed ------------------------------
(***************************************************************************)
(* The Photos tab of the phone: the device library and the photos only the *)
(* cloud has, paged apart and merged newest first; a jump of the rail      *)
(* rebases both onto a month, whose newer side is paged upwards.  A photo  *)
(* is the time it was taken at; what fails is a page of the cloud.         *)
(***************************************************************************)
EXTENDS ScreenJobs

CONSTANTS DeviceTimes,    \* photos on the phone at first
          CameraTimes,    \* photos the camera may take
          CloudTimes,     \* photos in the cloud at first
          Synced,         \* those of the cloud the inventory knows
          PairedVideos,   \* assets of the phone a page leaves out
          MonthEnds,      \* where the rail can jump to
          PageLimit,      \* photos of a page
          MinShown,       \* photos the grid starts with at least
          WindowTarget, MaxWindowPages   \* the cache window
VARIABLES pool,           \* [device, cloud, clock]: what there is, and when the camera last took one
          feed            \* what the tab holds
feedVars == <<pool, feed>>
FeedView == area = "feed"

PhoneTimes == DeviceTimes \cup CameraTimes \cup PairedVideos
Times == PhoneTimes \cup CloudTimes
(* A month ends between photos; the inventory knows what the phone has; and
   the camera takes photos now. *)
ASSUME FeedAssumption ==
  /\ Times \subseteq Nat \ {0} /\ IsFiniteSet(Times) /\ PageLimit \in Nat \ {0}
  /\ Nil \notin Nat /\ MonthEnds \subseteq Nat \ Times
  /\ PhoneTimes \cap (CloudTimes \ Synced) = {}
  /\ \A p \in CameraTimes : \A q \in DeviceTimes \cup PairedVideos \cup CloudTimes : q < p

Latest == 1 + Max({0} \cup Times)
NewestFirst(S) == InOrder(S, "desc")
OldestFirst(S) == InOrder(S, "asc")
Within(S, before) == IF before = Nil THEN S ELSE {p \in S : p < before}
Except(ps, S) == Sifted(ps, {i \in DOMAIN ps : ps[i] \notin S})
Adds(ps, qs) == ps \o Except(qs, ToSet(ps))

(* -------------------------------- the sources ---------------------------- *)

CloudPaged(listing, n) ==
  [items |-> SubSeq(listing, (n - 1) * PageLimit + 1, Min({n * PageLimit, Len(listing)})),
   done  |-> n * PageLimit >= Len(listing)]
Chunk(listing, from, k) == Except(SubSeq(listing, from + 1, Min({from + k * PageLimit, Len(listing)})), PairedVideos)
(* Pages are read until one is full; what is over is cut off, and the
   cursor is past it. *)
DevicePaged(listing, from) ==
  LET enough(k) == from + k * PageLimit >= Len(listing) \/ Len(Chunk(listing, from, k)) >= PageLimit
      k == Min({n \in 1 .. Len(listing) + 1 : enough(n)})
      got == Chunk(listing, from, k) IN
  [items |-> SubSeq(got, 1, Min({PageLimit, Len(got)})),
   cut   |-> ToSet(SubSeq(got, PageLimit + 1, Len(got))),
   done  |-> from + k * PageLimit >= Len(listing),
   cursor |-> IF from + k * PageLimit >= Len(listing) THEN Nil ELSE from + k * PageLimit]

NoDevice == [items |-> <<>>, cursor |-> Nil, ended |-> FALSE, loading |-> TRUE, before |-> Nil, cut |-> {}]
NoCloud == [items |-> <<>>, page |-> 0, done |-> FALSE, loading |-> FALSE, before |-> Nil]
NoNewer == [cloud |-> <<>>, page |-> 0, cloudDone |-> FALSE,
            device |-> <<>>, cursor |-> Nil, deviceDone |-> FALSE, cut |-> {}]
NoFeed == [permission |-> "unknown", anchor |-> Nil, device |-> NoDevice, cloud |-> NoCloud, newer |-> NoNewer,
           cloudBusy |-> FALSE, months |-> FALSE, snapshot |-> <<>>, removed |-> {}, changed |-> FALSE,
           viewing |-> FALSE, deleted |-> FALSE, video |-> "none", slips |-> {}]

(* --------------------------------- merging ------------------------------- *)

CloudOnly(ps) == Except(ps, Synced)
Low(items, horizon, done) == IF done THEN 0
                             ELSE IF horizon # <<>> THEN Last(horizon)
                             ELSE IF items = <<>> THEN Latest ELSE Last(items)
DeviceLow(f) == Low(f.device.items, <<>>, f.device.ended)
CloudLow(f) == Low(CloudOnly(f.cloud.items), f.cloud.items, f.cloud.done)
(* A variant that shows what only one of the two sources is sure of. *)
FrontierOfOne(f) == Min({DeviceLow(f), CloudLow(f)})
(* Older than this, a page to come may still hold something newer. *)
Frontier(f) == Max({DeviceLow(f), CloudLow(f)})
Blocker(f) == IF Frontier(f) = 0 THEN Nil ELSE IF CloudLow(f) >= DeviceLow(f) THEN "cloud" ELSE "device"
(* Two lists in one, the device first among equals, up to the first that is
   beyond the bound. *)
Zipped(ds, cs, order, bound) ==
  LET zip[at \in (1 .. Len(ds) + 1) \X (1 .. Len(cs) + 1)] ==
        LET d == at[1]
            c == at[2]
            first == c > Len(cs) \/ (d <= Len(ds) /\ ~Ahead(order, cs[c], ds[d]))
            p == IF first THEN ds[d] ELSE cs[c] IN
        IF (d > Len(ds) /\ c > Len(cs)) \/ Ahead(order, bound, p) THEN <<>>
        ELSE <<p>> \o zip[IF first THEN <<d + 1, c>> ELSE <<d, c + 1>>]
  IN zip[<<1, 1>>]
Merged(f) == Zipped(f.device.items, CloudOnly(f.cloud.items), "desc", Frontier(f))

High(items, horizon, done) == IF done THEN Latest
                              ELSE IF horizon # <<>> THEN Last(horizon)
                              ELSE IF items = <<>> THEN 0 ELSE Last(items)
Ceiling(f) == Min({High(f.newer.device, <<>>, f.newer.deviceDone \/ f.permission # "granted"),
                   High(CloudOnly(f.newer.cloud), f.newer.cloud, f.newer.cloudDone)})
Newer(f) == IF f.anchor = Nil THEN <<>>
            ELSE Reverse(Zipped(f.newer.device, CloudOnly(f.newer.cloud), "asc", Ceiling(f)))
Listed(f) == Adds(Newer(f), Merged(f))
Timeline == Except(Listed(feed), feed.removed)
(* A rebased window that is still loading is hidden behind a loader. *)
Jumping == feed.anchor # feed.device.before \/ feed.anchor # feed.cloud.before
TimelineShown == FeedView /\ feed.permission = "granted" /\ ~Jumping /\ Timeline # <<>>
FeedGrid == ~feed.viewing /\ feed.video = "none" /\ TimelineShown

(* ---------------------------- loading and filling ------------------------ *)

Under(js, o) == \E i \in DOMAIN js : js[i].op = o
Without(js, o) == Sifted(js, {i \in DOMAIN js : js[i].op # o})
(* Page 1 starts the window over and supersedes what is in flight; another
   waits for nobody: it is not asked for while the cloud is busy. *)
CloudAsked(f, js, n) ==
  IF n > 1 /\ f.cloudBusy THEN [f |-> f, js |-> js]
  ELSE [f  |-> [f EXCEPT !.cloudBusy = TRUE, !.cloud.loading = TRUE],
        js |-> Append(IF n = 1 THEN Without(js, "cloudPage") ELSE js,
                      [op |-> "cloudPage", live |-> TRUE, page |-> n, before |-> f.anchor])]
DeviceAsked(f, js) ==
  IF Under(js, "nextPage") \/ f.device.ended \/ f.device.cursor = Nil THEN [f |-> f, js |-> js]
  ELSE [f |-> f, js |-> Append(js, [op |-> "nextPage", live |-> TRUE, before |-> f.anchor, from |-> f.device.cursor,
                                         crossed |-> f.anchor # f.device.before])]
More(f, js) ==
  IF Blocker(f) = "cloud" /\ ~f.cloud.done THEN CloudAsked(f, js, f.cloud.page + 1)
  ELSE IF Blocker(f) = "device" THEN DeviceAsked(f, js) ELSE [f |-> f, js |-> js]
(* A short list asks for the page that blocks it, and the newest photos of
   the cloud are listed as far as the cache keeps them. *)
Filled(f, js) ==
  LET short == /\ f.permission = "granted" /\ ~f.device.loading /\ ~f.cloud.loading /\ ~Under(js, "nextPage")
               /\ Blocker(f) # Nil /\ Len(Merged(f)) < MinShown
      one == IF short THEN More(f, js) ELSE [f |-> f, js |-> js]
      wide == /\ f.anchor = Nil /\ ~f.cloud.loading /\ ~f.cloud.done /\ f.cloud.page < MaxWindowPages
              /\ Len(CloudOnly(f.cloud.items)) < WindowTarget
  IN IF wide THEN CloudAsked(one.f, one.js, f.cloud.page + 1) ELSE one
(* What the effects make of it. *)
Effects(f, js) == LET r == Filled(f, js) IN feed' = r.f /\ jobs' = r.js /\ Len(r.js) <= MaxJobs[area]
Holds(f, js) == feed' = f /\ jobs' = js /\ Len(js) <= MaxJobs[area]

(* A new first page of the phone: earlier pages no longer count. *)
FirstAsked(f, js, before) ==
  [f  |-> [f EXCEPT !.device.loading = TRUE],
   js |-> Append(Orphaned(Without(js, "firstPage"), {"nextPage"}),
                [op |-> "firstPage", live |-> TRUE, before |-> before])]
PermissionAsked(f) == [op |-> "permission", live |-> TRUE, before |-> f.anchor]

PermissionBack(i, granted) ==
  LET r == FirstAsked([feed EXCEPT !.permission = "granted"], RemoveAt(jobs, i), jobs[i].before)
      no == [feed EXCEPT !.permission = "denied", !.device.loading = FALSE] IN
  /\ At(i, "permission") /\ UNCHANGED pool
  /\ IF granted THEN Calm /\ feed.permission # "denied" /\ Effects(r.f, r.js)
     ELSE feed.permission # "granted" /\ Mishap /\ Effects(no, RemoveAt(jobs, i))
AskPermission == /\ FeedView /\ feed.permission = "denied" /\ Act /\ UNCHANGED pool
                 /\ LET r == FirstAsked([feed EXCEPT !.permission = "granted"], jobs, feed.anchor) IN Effects(r.f, r.js)
(* A page asked for while a first page is on its way counts for the new
   window, though it is a page of the old one. *)
Crossed(js) == [i \in DOMAIN js |-> IF js[i].op = "nextPage" THEN [js[i] EXCEPT !.crossed = TRUE] ELSE js[i]]
FirstBack(i) ==
  LET page == DevicePaged(NewestFirst(Within(pool.device, jobs[i].before)), 0) IN
  /\ At(i, "firstPage") /\ Calm /\ UNCHANGED pool
  /\ Effects([feed EXCEPT !.device = [items |-> page.items, cursor |-> page.cursor, ended |-> page.done,
                                    loading |-> FALSE, before |-> jobs[i].before, cut |-> page.cut],
                        !.slips = @ \ {"window"}], Crossed(RemoveAt(jobs, i)))
DeviceMoreBack(i) ==
  LET page == DevicePaged(NewestFirst(Within(pool.device, jobs[i].before)), jobs[i].from)
      d == [feed.device EXCEPT !.items = Adds(@, page.items), !.cursor = page.cursor,
                               !.ended = @ \/ page.done, !.cut = @ \cup page.cut] IN
  /\ At(i, "nextPage") /\ Calm /\ UNCHANGED pool
  /\ IF ~jobs[i].live THEN Ends(i) /\ UNCHANGED feed
     ELSE Effects([feed EXCEPT !.device = d, !.slips = IF jobs[i].crossed THEN @ \cup {"window"} ELSE @],
                RemoveAt(jobs, i))

CloudPageBack(i) ==
  LET n == jobs[i].page
      page == CloudPaged(NewestFirst(Within(pool.cloud, jobs[i].before)), n)
      items == Adds(IF n = 1 THEN <<>> ELSE feed.cloud.items, page.items) IN
  /\ At(i, "cloudPage") /\ Calm /\ UNCHANGED pool
  /\ Effects([feed EXCEPT !.cloud = [items |-> items, page |-> n, done |-> page.done, loading |-> FALSE,
                                   before |-> jobs[i].before],
                        !.snapshot = IF jobs[i].before = Nil THEN items ELSE @,
                        !.cloudBusy = FALSE, !.slips = IF n = 1 THEN @ \ {"failed"} ELSE @], RemoveAt(jobs, i))
(* Offline: the last known index, or what there is; this source ends here. *)
CloudPageFailed(i) ==
  LET n == jobs[i].page
      items == IF n > 1 THEN feed.cloud.items ELSE IF jobs[i].before = Nil THEN feed.snapshot ELSE <<>> IN
  /\ At(i, "cloudPage") /\ Mishap /\ UNCHANGED pool
  /\ Effects([feed EXCEPT !.cloud = [items |-> items, page |-> n, done |-> TRUE, loading |-> FALSE,
                                   before |-> jobs[i].before],
                        !.cloudBusy = FALSE, !.slips = @ \cup {"failed"}], RemoveAt(jobs, i))
MonthsBack(i) == At(i, "months") /\ Calm /\ Ends(i) /\ feed' = [feed EXCEPT !.months = TRUE] /\ UNCHANGED pool
MonthsFailed(i) == At(i, "months") /\ Mishap /\ Ends(i) /\ UNCHANGED feedVars

(* ------------------------------- the timeline ---------------------------- *)

LoadMore == /\ Act /\ FeedGrid /\ UNCHANGED pool
            /\ LET r == More(feed, jobs) IN r.js # jobs /\ Holds(r.f, r.js)
(* The rail rebases every source; the newest month is the live window. *)
JumpToMonth(m) ==
  LET f == [feed EXCEPT !.anchor = m, !.newer = NoNewer, !.changed = FALSE, !.slips = @ \ {"newer"}]
      r == CloudAsked(f, Append(Without(jobs, "newer"), PermissionAsked(f)), 1) IN
  /\ Act /\ feed.months /\ m # feed.anchor /\ FeedGrid /\ UNCHANGED pool /\ Effects(r.f, r.js)
HasNewer == feed.anchor # Nil /\ ~(feed.newer.cloudDone /\ feed.newer.deviceDone)
LoadNewer == /\ Act /\ HasNewer /\ ~Under(jobs, "newer") /\ FeedGrid
             /\ Begun(<<Job("newer")>>) /\ UNCHANGED feedVars
Beyond(S) == OldestFirst({p \in S : p > feed.anchor})
(* Both sides answer together; a side that failed is taken to be done. *)
CloudSide(n, c, lost) == IF n.cloudDone THEN n ELSE IF lost THEN [n EXCEPT !.cloudDone = TRUE]
                         ELSE [n EXCEPT !.cloud = Adds(@, c.items), !.page = @ + 1, !.cloudDone = c.done]
DeviceSide(n, d) == IF n.deviceDone THEN n
                    ELSE [n EXCEPT !.device = Adds(@, d.items), !.cursor = d.cursor, !.deviceDone = d.done,
                                   !.cut = @ \cup d.cut]
NewerBack(i, lost) ==
  LET c == CloudPaged(Beyond(pool.cloud), feed.newer.page + 1)
      d == DevicePaged(Beyond(pool.device), IF feed.newer.cursor = Nil THEN 0 ELSE feed.newer.cursor) IN
  /\ At(i, "newer") /\ UNCHANGED pool
  /\ IF lost THEN Mishap /\ ~feed.newer.cloudDone ELSE Calm
  /\ Holds([feed EXCEPT !.newer = DeviceSide(CloudSide(@, c, lost), d),
                        !.slips = IF lost THEN @ \cup {"newer"} ELSE @],
           RemoveAt(jobs, i))
Refresh ==
  LET r == FirstAsked([feed EXCEPT !.removed = {}], jobs, feed.anchor)
      s == CloudAsked(r.f, Append(Without(r.js, "months"), Job("months")), 1) IN
  /\ Act /\ FeedGrid /\ UNCHANGED pool /\ Effects(s.f, s.js)

(* The pages after a loss or a gain shift: whoever counts them, slips. *)
Shifted(f, side) == IF f.anchor # Nil /\ ~side THEN [f EXCEPT !.slips = @ \cup {"newer"}] ELSE f
CameraTakes(p) == /\ FeedView /\ p > pool.clock /\ Act
                  /\ pool' = [pool EXCEPT !.device = @ \cup {p}, !.clock = p]
                  /\ feed' = [feed EXCEPT !.changed = feed.permission = "granted"] /\ UNCHANGED jobs
LibraryChanged == /\ feed.changed /\ Calm /\ UNCHANGED pool
                  /\ LET r == FirstAsked([feed EXCEPT !.changed = FALSE], jobs, feed.anchor) IN Effects(r.f, r.js)
RemovePhotos(p, how) ==
  /\ Act /\ p \in pool.device /\ ~Under(jobs, "removal") /\ FeedGrid /\ p \in ToSet(Timeline)
  /\ Begun(<<[op |-> "removal", live |-> TRUE, photo |-> p, how |-> how]>>) /\ UNCHANGED feedVars
(* What is locked stays hidden; what is deleted is shown again until the
   change of the library is heard. *)
RemovalBack(i, ok) ==
  LET gone == IF jobs[i].how = "lock" THEN feed.removed \cup {jobs[i].photo} ELSE {} IN
  /\ At(i, "removal") /\ Ends(i)
  /\ IF ok THEN /\ Calm /\ pool' = [pool EXCEPT !.device = @ \ {jobs[i].photo}]
                /\ feed' = Shifted([feed EXCEPT !.removed = gone, !.changed = TRUE], feed.newer.deviceDone)
     ELSE Mishap /\ UNCHANGED feedVars

OpenViewer == /\ FeedGrid /\ Calm /\ feed' = [feed EXCEPT !.viewing = TRUE] /\ UNCHANGED <<pool, jobs>>
ViewerDeletes(p) ==
  /\ Act /\ FeedView /\ feed.viewing /\ p \in pool.cloud \ Synced /\ p \in ToSet(Timeline)
  /\ pool' = [pool EXCEPT !.cloud = @ \ {p}]
  /\ feed' = Shifted([feed EXCEPT !.deleted = TRUE], feed.newer.cloudDone) /\ UNCHANGED jobs
(* Every loaded page is fetched again, unless the cloud is busy; a reload that
   read pages before a deletion may still answer after it. *)
ReloadAsked(f) == [op |-> "reload", live |-> TRUE, page |-> 1, upto |-> f.cloud.page, before |-> f.anchor, items |-> <<>>]
ReloadCloud(f) ==
  LET busy == f.cloudBusy \/ f.cloud.page = 0
      slip == f.deleted /\ (busy \/ Under(jobs, "reload"))
      g == [f EXCEPT !.slips = IF slip THEN @ \cup {"reload"} ELSE @, !.deleted = FALSE] IN
  IF busy THEN Holds(g, jobs) ELSE Holds([g EXCEPT !.cloudBusy = TRUE], Append(jobs, ReloadAsked(f)))
CloseViewer == /\ FeedView /\ feed.viewing /\ Act /\ UNCHANGED pool /\ ReloadCloud([feed EXCEPT !.viewing = FALSE])
(* The answer lands on whatever window is there by now. *)
Overtaken(j) == j.before # feed.anchor \/ feed.cloud.page # j.upto \/ Under(jobs, "cloudPage")
ReloadBack(i) ==
  LET j == jobs[i]
      page == CloudPaged(NewestFirst(Within(pool.cloud, j.before)), j.page)
      items == Adds(j.items, page.items) IN
  /\ At(i, "reload") /\ Calm /\ UNCHANGED pool
  /\ IF j.page < j.upto THEN Becomes(i, [j EXCEPT !.page = @ + 1, !.items = items]) /\ UNCHANGED feed
     ELSE Effects([feed EXCEPT !.cloud.items = items, !.cloud.done = page.done, !.cloudBusy = FALSE,
                             !.snapshot = IF j.before = Nil THEN items ELSE @,
                             !.slips = IF Overtaken(j) THEN @ \cup {"reload"} ELSE @], RemoveAt(jobs, i))
ReloadFailed(i) == /\ At(i, "reload") /\ Mishap /\ UNCHANGED pool
                   /\ Holds([feed EXCEPT !.cloudBusy = FALSE, !.slips = @ \cup {"reload"}], RemoveAt(jobs, i))

(* A video of the cloud is fetched to a file and played from it. *)
PlayCloudVideo(p) == /\ Act /\ p \in ToSet(feed.cloud.items) \cup ToSet(feed.newer.cloud)
                     /\ FeedGrid /\ p \in ToSet(Timeline) /\ UNCHANGED pool
                     /\ Holds([feed EXCEPT !.video = "loading"], Append(jobs, Job("video")))
VideoBack(i, ok) == /\ At(i, "video") /\ Ends(i) /\ UNCHANGED pool
                    /\ IF ok THEN Calm ELSE Mishap
                    /\ feed' = IF ~jobs[i].live THEN feed ELSE [feed EXCEPT !.video = IF ok THEN "ready" ELSE "error"]
CloseVideo == /\ FeedView /\ feed.video # "none" /\ Calm /\ UNCHANGED pool
              /\ Holds([feed EXCEPT !.video = "none"], Orphaned(jobs, {"video"}))

FeedInit ==
  LET f == [NoFeed EXCEPT !.cloudBusy = TRUE, !.cloud.loading = TRUE] IN
  /\ \E paired \in {{}, PairedVideos} : pool = [device |-> DeviceTimes \cup paired, cloud |-> CloudTimes, clock |-> 0]
  /\ feed = f
  /\ jobs = <<PermissionAsked(f), [op |-> "cloudPage", live |-> TRUE, page |-> 1, before |-> Nil], Job("months")>>
FeedIdle == pool = [device |-> {}, cloud |-> {}, clock |-> 0] /\ feed = NoFeed
FeedNext ==
  \/ AskPermission \/ LoadMore \/ LoadNewer \/ Refresh \/ LibraryChanged \/ OpenViewer \/ CloseViewer \/ CloseVideo
  \/ \E m \in MonthEnds \cup {Nil} : JumpToMonth(m)
  \/ \E p \in CameraTimes : CameraTakes(p)
  \/ \E p \in ToSet(Timeline) : ViewerDeletes(p) \/ PlayCloudVideo(p) \/ \E how \in {"lock", "delete"} : RemovePhotos(p, how)
  \/ \E i \in DOMAIN jobs :
       \/ FirstBack(i) \/ DeviceMoreBack(i) \/ CloudPageBack(i) \/ CloudPageFailed(i)
       \/ MonthsBack(i) \/ MonthsFailed(i) \/ ReloadBack(i) \/ ReloadFailed(i)
       \/ \E ok \in BOOLEAN : PermissionBack(i, ok) \/ NewerBack(i, ok) \/ RemovalBack(i, ok) \/ VideoBack(i, ok)

(* --------------------------------- properties ---------------------------- *)

FeedTypeOK ==
  /\ pool \in [device : SUBSET Int, cloud : SUBSET Int, clock : Int]
  /\ feed.permission \in {"unknown", "granted", "denied"} /\ feed.anchor \in MonthEnds \cup {Nil}
  /\ feed.cloud.page \in Nat /\ feed.slips \subseteq {"window", "reload", "failed", "newer"}
  /\ feed.video \in {"none", "loading", "ready", "error"}

(* Nothing is on its way that will change what was loaded. *)
Settled == /\ feed.slips = {} /\ ~feed.changed /\ ~feed.deleted
           /\ ~Under(jobs, "firstPage") /\ ~Under(jobs, "reload")
Expected == (pool.device \ (PairedVideos \cup feed.device.cut \cup feed.newer.cut)) \cup (pool.cloud \ Synced)
(* However the pages of the two sources answer, jump and are reloaded, the
   timeline on screen is newest first without a photo twice, and no photo
   belongs between two that are shown: nothing is inserted later above what
   the user already passed (mergeFeeds, mergeNewer, useUnifiedFeed). *)
FeedInOrder ==
  (TimelineShown /\ Settled) =>
    /\ \A i, k \in DOMAIN Timeline : i < k => Timeline[i] > Timeline[k]
    /\ \A p \in Expected : (p < Timeline[1] /\ p > Last(Timeline)) => p \in ToSet(Timeline)
=============================================================================
