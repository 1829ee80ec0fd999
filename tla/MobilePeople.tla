---------------------------- MODULE MobilePeople -----------------------------
(***************************************************************************)
(* The mobile people screens: the paged hub with its filters, a person's   *)
(* page with the review banners, the one-by-one stepper and the two merge  *)
(* sheets, and the review queue with its preview and its picker.           *)
(***************************************************************************)
EXTENDS PeopleCalls

Mobile == client = "mobile"
Reload(u) == <<[Req(u, "detail", "person") EXCEPT !.who = u.route.id], Req(u, "suggest", "person")>>
(* After an action of the banners or of the stepper, which waits for both. *)
Reloaded(u, waiter) == [i \in 1..2 |-> [Reload(u)[i] EXCEPT !.from = waiter]]
Waiters == {"accepted", "judged"}
LoadOf(c, waiter) == Here(c) /\ calls[c].op \in {"detail", "suggest"} /\ calls[c].from = waiter
LastLoad(c, waiter) == LoadOf(c, waiter) /\ \A d \in Slots \ {c} : ~LoadOf(d, waiter)
Window1(u) == [Req(u, "window", "hub") EXCEPT !.seq = u.hub.seq + 1, !.page = 1, !.filter = u.hub.filter]
Asked(u) == [u EXCEPT !.hub.seq = @ + 1]
(* A variant that leaves the sheet up. *)
RoutedUnderSheet(u, at, id) == [u EXCEPT !.route = [@ EXCEPT !.at = at, !.id = id, !.visit = @ + 1],
                                         !.person = NoPerson, !.queue = NoQueue]
(* Another screen comes in front, with nothing loaded and no sheet open. *)
Routed(u, at, id) ==
  LET r == u.route IN
  [u EXCEPT !.route = [at |-> at, id |-> id, visit |-> r.visit + 1,
                       under |-> IF ui.route.at = "person" THEN r.under ELSE ui.route.at],
            !.person = NoPerson, !.queue = NoQueue, !.sheet = NoSheet]

(* Each screen asks again whenever it comes into focus. *)
Focused(u, at, id) ==
  LET v == Routed(u, at, id) IN IF at = "hub" THEN Asked(v) ELSE v
FocusCalls(u, at, id) ==
  LET v == Routed(u, at, id) IN
  CASE at = "hub" -> <<Window1(v), Req(v, "suggest", "hub")>>
    [] at = "person" -> Reload(v)
    [] at = "review" -> <<[Req(v, "fresh", "queue") EXCEPT !.page = 1], Req(v, "suggest", "queue")>>
MGo(at, id) == /\ Only(Focused(ui, at, id)) /\ Act /\ Issue(FocusCalls(ui, at, id))
MGoes(c, at, id) == /\ ui' = Focused(ui, at, id) /\ Follow(c, FocusCalls(ui, at, id))
                    /\ UNCHANGED <<client, db, acts>>
MStay(c, u) == /\ ui' = u /\ calls' = Freed(c) /\ UNCHANGED <<client, db, acts>>

(* --------------------------------- the hub ------------------------------ *)

MHubShown ==
  CASE ui.hub.error -> "error"
    [] ~ui.hub.error /\ ui.hub.rows = Nil -> "skeleton"
    [] OTHER -> IF ui.hub.rows = <<>> THEN "empty" ELSE "grid"
MNewFaces == IF ui.hub.seen = Nil THEN {} ELSE Live(ui.hub.seen.fresh)
MReviewTotal == IF ui.hub.seen = Nil THEN 0 ELSE Cardinality(MNewFaces) + Cardinality(Live(ui.hub.seen.groups))
MHubControls ==
  {"filter"} \cup (IF MReviewTotal > 0 THEN {"review"} ELSE {})
             \cup (CASE MHubShown = "grid" -> {"person", "more", "refresh"}
                     [] MHubShown = "error" -> {"retry"}
                     [] OTHER -> {})
OnHub(control) == Mobile /\ At("hub") /\ Sheet("none") /\ control \in MHubControls

MSetFilter(f) ==
  LET u == [ui EXCEPT !.hub.filter = f] IN
  /\ OnHub("filter") /\ f # ui.hub.filter
  /\ Only(Asked(u)) /\ Act /\ Issue(<<Window1(u)>>)
MRefresh == /\ OnHub("refresh") /\ Only(Asked(ui)) /\ Act
            /\ Issue(<<[Window1(ui) EXCEPT !.then = TRUE], Req(ui, "suggest", "hub")>>)
MRetry == /\ OnHub("retry") /\ Only([Asked(ui) EXCEPT !.hub.error = FALSE]) /\ Act
          /\ Issue(<<[Window1(ui) EXCEPT !.then = TRUE]>>)

(* A variant that shows whichever window comes last. *)
MWindowAny(c) ==
  LET a == calls[c].ans IN
  [ui.hub EXCEPT !.rows = a.items, !.of = calls[c].filter, !.next = 2,
                 !.more = Len(a.items) < a.total, !.failed = FALSE]
(* A window superseded by a newer one drops itself. *)
MWindow(c) ==
  LET a == calls[c].ans IN
  IF calls[c].seq # ui.hub.seq THEN ui.hub
  ELSE [ui.hub EXCEPT !.rows = a.items, !.of = calls[c].filter, !.next = 2,
                      !.more = Len(a.items) < a.total, !.failed = FALSE]
MWindowFailed(c) ==
  IF calls[c].seq # ui.hub.seq THEN ui.hub
  ELSE [ui.hub EXCEPT !.failed = TRUE, !.error = @ \/ calls[c].then \/ ui.hub.rows = Nil]
MWindowBack(c) ==
  /\ Mobile
  /\ \/ Back(c, "window", "hub") /\ MStay(c, [ui EXCEPT !.hub = MWindow(c)])
     \/ Failed(c, "window", "hub") /\ MStay(c, [ui EXCEPT !.hub = MWindowFailed(c)])
  /\ UNCHANGED dismissed

(* Whether there is more is read off the last page alone. *)
MMore ==
  /\ OnHub("more") /\ ui.hub.more /\ ~ui.hub.loading
  /\ Only([ui EXCEPT !.hub.loading = TRUE]) /\ Act
  /\ Issue(<<[Req(ui, "window", "more") EXCEPT !.seq = ui.hub.seq, !.page = ui.hub.next,
                                               !.filter = ui.hub.filter]>>)
MMoreBack(c) ==
  LET a == calls[c].ans
      late == calls[c].seq # ui.hub.seq
      hub == [ui.hub EXCEPT !.loading = FALSE] IN
  /\ Mobile
  /\ \/ /\ Back(c, "window", "more")
        /\ MStay(c, [ui EXCEPT !.hub = IF late THEN hub ELSE
             [hub EXCEPT !.next = @ + 1, !.more = Len(a.items) < a.total,
                         !.rows = IF @ = Nil THEN a.items ELSE @ \o Fresh(@, a.items)]])
     \/ Failed(c, "window", "more") /\ MStay(c, [ui EXCEPT !.hub = hub])
  /\ UNCHANGED dismissed

(* What waited for the last load is over: the banners are free again, or the
   stepper, whichever is open, closes. *)
Settled(u, waiter) ==
  IF waiter = "accepted" THEN [u EXCEPT !.person.busy = @ \ {"banner"}]
  ELSE [u EXCEPT !.person.busy = @ \ {"review"},
                 !.sheet = IF @.kind = "stepper" THEN NoSheet ELSE @]
LoadOver(c, u) == IF \E w \in Waiters : LastLoad(c, w) THEN Settled(u, calls[c].from) ELSE u
(* Suggestions arrive for the hub or for the person; a failure leaves what
   was there.  Those of a merge from the ranked sheet are followed by a new
   ranking. *)
MSuggested(c) ==
  LET from == calls[c].from
      seen == IF calls[c].step = "failed" THEN ui
              ELSE IF from = "hub" THEN [ui EXCEPT !.hub.seen = calls[c].ans]
              ELSE IF Here(c) THEN [ui EXCEPT !.person.seen = calls[c].ans] ELSE ui IN
  /\ Mobile /\ calls[c].op = "suggest" /\ calls[c].step \in {"back", "failed"}
  /\ \/ from \in {"hub", "person"} \cup Waiters /\ MStay(c, LoadOver(c, seen))
     \/ /\ from = "similar"
        /\ IF ~Here(c) THEN MStay(c, ui)
           ELSE /\ ui' = [seen EXCEPT !.sheet = IF @.kind = "similar" THEN
                             [@ EXCEPT !.busy = FALSE, !.picked = {}, !.rows = Nil] ELSE @]
                /\ Follow(c, <<[Req(ui, "similar", "ranked") EXCEPT !.who = Self, !.page = 1]>>)
                /\ UNCHANGED <<client, db, acts>>
  /\ UNCHANGED dismissed

MLongPress(p) == /\ OnHub("person") /\ p \in IdsOf(ui.hub.rows)
                 /\ OnlyAct([ui EXCEPT !.sheet = [NoSheet EXCEPT !.kind = "rename", !.picked = {p}]])
                 /\ UNCHANGED calls
MRename(n) ==
  LET p == CHOOSE q \in ui.sheet.picked : TRUE IN
  /\ Mobile /\ At("hub") /\ Sheet("rename") /\ OnlyAct(Closed(ui))
  /\ Issue(<<[Req(ui, "rename", "hub") EXCEPT !.who = p, !.name = n]>>)
(* The loaded row is patched in place. *)
MRenamed(c) ==
  /\ Mobile
  /\ \/ /\ Back(c, "rename", "hub")
        /\ MStay(c, [ui EXCEPT !.hub.rows = IF @ = Nil THEN Nil ELSE [i \in DOMAIN @ |->
             IF @[i].id = calls[c].who THEN [@[i] EXCEPT !.name = calls[c].name] ELSE @[i]]])
     \/ Failed(c, "rename", "hub") /\ MStay(c, ui)
  /\ UNCHANGED dismissed

MOpen(p) == OnHub("person") /\ p \in IdsOf(ui.hub.rows) /\ MGo("person", p) /\ UNCHANGED dismissed
MOpenReview == OnHub("review") /\ MGo("review", Nil) /\ UNCHANGED dismissed
MLeave == Mobile /\ ~At("hub") /\ MGo(IF At("person") THEN ui.route.under ELSE "hub", Nil)

(* -------------------------------- a person ------------------------------ *)

MFaces == FaceMerge(ui.person.seen, Self)
MGroup == GroupOf(ui.person.seen, Self)
MBanners == {s \in {MFaces, MGroup} : s # Nil}
MBannerControls == IF "banner" \in ui.person.busy THEN {} ELSE MBanners
MActions == CASE ~Sheet("none") -> {}
              [] ui.person.row = Nil -> {"rename", "delete"}
              [] OTHER -> {"rename", "merge", "similar", "delete"}
OnPerson(control) == Mobile /\ At("person") /\ control \in MActions

MDetail(c) ==
  LET r == IF ~Here(c) THEN ui
           ELSE [ui EXCEPT !.person.row = IF calls[c].step = "back" THEN calls[c].ans ELSE Nil]
      u == LoadOver(c, r) IN
  /\ Mobile /\ calls[c].op = "detail" /\ calls[c].step \in {"back", "failed"}
  /\ MStay(c, IF u.person.prompt /\ u.person.row # Nil
              THEN [u EXCEPT !.person.prompt = FALSE, !.sheet = [NoSheet EXCEPT !.kind = "rename"]]
              ELSE u)
  /\ UNCHANGED dismissed

MStartRename == /\ OnPerson("rename") /\ OnlyAct([ui EXCEPT !.sheet = [NoSheet EXCEPT !.kind = "rename"]])
                /\ UNCHANGED calls
MSaveName(n) ==
  /\ Mobile /\ At("person") /\ Sheet("rename") /\ ui.person.row # Nil /\ OnlyAct(Closed(ui))
  /\ Issue(<<[Req(ui, "rename", "person") EXCEPT !.who = Self, !.name = n]>>)
MSavedName(c) ==
  /\ Mobile
  /\ \/ Back(c, "rename", "person") /\ MStay(c, IF Here(c) THEN [ui EXCEPT !.person.row =
                                            [id |-> calls[c].who, name |-> calls[c].name]] ELSE ui)
     \/ Failed(c, "rename", "person") /\ MStay(c, ui)
  /\ UNCHANGED dismissed

(* The banners: add the faces, merge the group into this person, or this
   person into the group's target. *)
MBusy(u, what) == [u EXCEPT !.person.busy = @ \cup {what}]
MAccept(s) ==
  /\ Mobile /\ At("person") /\ Sheet("none") /\ s \in MBannerControls
  /\ Only(MBusy(ui, "banner")) /\ Act
  /\ IF s = MFaces
     THEN /\ ui.person.row # Nil
          /\ Issue(<<[Req(ui, "join", "banner") EXCEPT !.who = Self, !.of = s.of]>>)
     ELSE IF s.who = Self
     THEN Issue(<<[Req(ui, "merge", "banner") EXCEPT !.who = Self, !.of = s.of \ {Self}]>>)
     ELSE Issue(<<[Req(ui, "merge", "into") EXCEPT !.who = s.who, !.of = {Self}]>>)
MNotNow(s) == /\ Mobile /\ At("person") /\ Sheet("none") /\ s \in MBannerControls
              /\ NotNow(s) /\ UNCHANGED ui
MAccepted(c) ==
  /\ Mobile
  /\ \/ \E op \in {"join", "merge"} : /\ Back(c, op, "banner")
          /\ IF Here(c) THEN /\ Follow(c, Reloaded(ui, "accepted")) /\ UNCHANGED <<client, db, ui, acts>>
             ELSE MStay(c, ui)
     \/ Back(c, "merge", "into") /\ MGoes(c, "person", calls[c].who)
     \/ \E op \in {"join", "merge"}, from \in {"banner", "into"} :
          Failed(c, op, from) /\ MStay(c, IF Here(c) THEN [ui EXCEPT !.person.busy = @ \ {"banner"}] ELSE ui)
  /\ UNCHANGED dismissed

(* ------------------------------- the stepper ---------------------------- *)

StepSuggestion == IF At("review") THEN ui.sheet.sugg
                  ELSE IF ui.sheet.term = "faces" THEN MFaces ELSE MGroup
StepItems == Candidates(StepSuggestion)
StepBusy == IF At("review") THEN ui.queue.review ELSE "review" \in ui.person.busy
StepButtons == IF StepBusy \/ ui.sheet.step > Len(StepItems) THEN {}
               ELSE {"accept"} \cup (IF ui.sheet.term = "faces" THEN {"reject", "defer"} ELSE {"skip"})

MReview(s) ==
  /\ Mobile /\ At("person") /\ Sheet("none") /\ s \in MBannerControls
  /\ OnlyAct([ui EXCEPT !.sheet = [NoSheet EXCEPT !.kind = "stepper",
                                   !.term = IF s = MFaces THEN "faces" ELSE "group"]])
  /\ UNCHANGED calls

(* One verdict per candidate, on the candidate shown. *)
Judged(sheet, id, v) ==
  [sheet EXCEPT !.yes = IF v = "accept" THEN @ \cup {id} ELSE @,
                !.no = IF v = "reject" THEN @ \cup {id} ELSE @,
                !.unsure = IF v = "defer" THEN @ \cup {id} ELSE @,
                !.given = @ \cup {[id |-> id, verdict |-> v]}]
(* A variant that sends what was recorded before the last verdict. *)
MVerdictsBefore(sheet, id, v) == [Judged(sheet, id, v) EXCEPT !.yes = sheet.yes, !.no = sheet.no, !.unsure = sheet.unsure]
(* What the last verdict sends: everything recorded so far, itself
   included. *)
MVerdicts(sheet, id, v) == Judged(sheet, id, v)
MFinish(s, done) ==
  LET r == [Req(ui, IF ui.sheet.term = "faces" THEN "review" ELSE "merge", "stepper")
             EXCEPT !.who = s.who, !.of = done.yes, !.no = done.no, !.unsure = done.unsure,
                    !.sugg = s, !.given = done.given] IN
  IF ui.sheet.term = "group" /\ done.yes = {}
  THEN NotNow(s) /\ ui' = Closed(ui)
  ELSE /\ ui' = IF At("review") THEN [ui EXCEPT !.sheet = done, !.queue.review = TRUE]
                ELSE MBusy([ui EXCEPT !.sheet = done], "review")
       /\ Act /\ Issue(<<r>>)
       /\ UNCHANGED <<client, db, dismissed>>
MVerdict(v) ==
  LET id == StepItems[ui.sheet.step] IN
  /\ Mobile /\ Sheet("stepper") /\ v \in StepButtons
  /\ IF ui.sheet.step < Len(StepItems)
     THEN /\ OnlyAct([ui EXCEPT !.sheet = [Judged(ui.sheet, id, v) EXCEPT !.step = ui.sheet.step + 1]])
          /\ UNCHANGED <<calls, dismissed>>
     ELSE MFinish(StepSuggestion, MVerdicts(ui.sheet, id, v))
MJudged(c) ==
  LET closed == IF ~Here(c) THEN ui
                ELSE [ui EXCEPT !.sheet = IF @.kind = "stepper" THEN NoSheet ELSE @,
                                !.queue.review = FALSE, !.person.busy = @ \ {"review"}]
      s == calls[c].sugg IN
  /\ Mobile
  /\ \/ /\ Back(c, "review", "stepper") /\ Dismiss(s)
        /\ IF Here(c) THEN /\ Follow(c, Reloaded(ui, "judged")) /\ UNCHANGED <<client, db, ui, acts>>
           ELSE MStay(c, ui)
     \/ /\ Back(c, "merge", "stepper") /\ UNCHANGED dismissed
        /\ IF Here(c) /\ At("person")
           THEN /\ Follow(c, Reloaded(ui, "judged")) /\ UNCHANGED <<client, db, ui, acts>>
           ELSE MStay(c, IF ~Here(c) THEN ui ELSE [closed EXCEPT !.queue.groups =
                           IF @ = Nil THEN @ ELSE {g \in @ : Key(g) # Key(s)}])
     \/ /\ Failed(c, "review", "stepper") \/ Failed(c, "merge", "stepper")
        /\ MStay(c, closed) /\ UNCHANGED dismissed

(* ----------------------------- the two sheets --------------------------- *)

MOpenMerge ==
  /\ OnPerson("merge")
  /\ OnlyAct([ui EXCEPT !.sheet = [NoSheet EXCEPT !.kind = "merge", !.rows = <<>>, !.loading = TRUE]])
  /\ Issue(<<[Req(ui, "window", "targets") EXCEPT !.page = 1]>>)
(* Each opening empties the rows; only the first one of a person asks. *)
MOpenSimilar ==
  /\ OnPerson("similar")
  /\ OnlyAct([ui EXCEPT !.sheet = [NoSheet EXCEPT !.kind = "similar"], !.person.ranked = TRUE])
  /\ IF ui.person.ranked THEN UNCHANGED calls
     ELSE Issue(<<[Req(ui, "similar", "ranked") EXCEPT !.who = Self, !.page = 1]>>)
MListMore ==
  LET s == ui.sheet IN
  /\ Mobile /\ s.kind \in {"merge", "similar", "picker"} /\ s.rows # Nil /\ ~s.loading /\ s.more
  /\ OnlyAct([ui EXCEPT !.sheet.loading = TRUE])
  /\ Issue(<<[Req(ui, IF s.kind = "similar" THEN "similar" ELSE "window",
                  CASE s.kind = "merge" -> "targets" [] s.kind = "similar" -> "ranked" [] OTHER -> "picker")
               EXCEPT !.who = Self, !.filter = s.term,
                      !.page = IF s.kind = "merge" THEN s.next ELSE Len(s.rows) \div PageSize + 1]>>)

(* Page one replaces the rows, a later page adds to them; the picker's
   search takes its answers in the order they come. *)
Listed(c, sheet) ==
  LET a == calls[c].ans
      items == IF sheet.kind = "merge" /\ calls[c].page = 1
               THEN SelectSeq(a.items, LAMBDA r : r.id # Self) ELSE a.items
      rows == IF calls[c].page = 1 \/ sheet.rows = Nil THEN items
              ELSE sheet.rows \o Fresh(sheet.rows, items) IN
  [sheet EXCEPT !.loading = FALSE, !.rows = rows, !.next = calls[c].page + 1,
                !.more = Len(IF sheet.kind = "merge" THEN a.items ELSE rows) < a.total]
(* A first page that fails closes the merge sheet and leaves the others
   empty; a later one ends the merge sheet's paging. *)
Unlisted(c, sheet) ==
  CASE sheet.kind = "merge" -> IF calls[c].page = 1 THEN NoSheet
                               ELSE [sheet EXCEPT !.loading = FALSE, !.more = FALSE]
    [] OTHER -> [sheet EXCEPT !.loading = FALSE,
                              !.rows = IF calls[c].page = 1 THEN <<>> ELSE @,
                              !.more = @ /\ calls[c].page # 1]
ListOf(c) == CASE calls[c].from = "targets" -> "merge" [] calls[c].from = "ranked" -> "similar"
               [] calls[c].from = "picker" -> "picker" [] OTHER -> "other"
MListBack(c) ==
  /\ Mobile /\ calls[c].op \in {"window", "similar"} /\ ListOf(c) # "other"
  /\ \/ /\ calls[c].step = "back"
        /\ MStay(c, IF Here(c) /\ Sheet(ListOf(c)) THEN [ui EXCEPT !.sheet = Listed(c, @)] ELSE ui)
     \/ /\ calls[c].step = "failed"
        /\ MStay(c, IF Here(c) /\ Sheet(ListOf(c)) THEN [ui EXCEPT !.sheet = Unlisted(c, @)] ELSE ui)
  /\ UNCHANGED dismissed

MPickTarget(t) ==
  /\ Mobile /\ At("person") /\ Sheet("merge") /\ t \in IdsOf(ui.sheet.rows) /\ OnlyAct(Closed(ui))
  /\ Issue(<<[Req(ui, "merge", "sheet") EXCEPT !.who = t, !.of = {Self}]>>)
MTick(p) ==
  /\ Mobile /\ Sheet("similar") /\ ui.sheet.rows # Nil /\ p \in IdsOf(ui.sheet.rows) /\ ~ui.sheet.busy
  /\ OnlyAct([ui EXCEPT !.sheet.picked = SymDiff(@, {p})]) /\ UNCHANGED calls
MMergeTicked ==
  /\ Mobile /\ At("person") /\ Sheet("similar") /\ ui.sheet.picked # {} /\ ~ui.sheet.busy /\ ui.person.row # Nil
  /\ OnlyAct([ui EXCEPT !.sheet.busy = TRUE])
  /\ Issue(<<[Req(ui, "merge", "similar") EXCEPT !.who = Self, !.of = ui.sheet.picked]>>)
MAskDelete == /\ OnPerson("delete") /\ OnlyAct([ui EXCEPT !.sheet = [NoSheet EXCEPT !.kind = "delete"]])
              /\ UNCHANGED calls
MDelete == /\ Mobile /\ At("person") /\ Sheet("delete") /\ OnlyAct(Closed(ui))
           /\ IF ui.person.row = Nil THEN UNCHANGED calls
              ELSE Issue(<<[Req(ui, "delete", "confirm") EXCEPT !.who = Self]>>)
MGone(c) ==
  LET on(kind) == Here(c) /\ Sheet(kind) IN
  /\ Mobile
  /\ \/ Back(c, "merge", "sheet") /\ MGoes(c, "person", calls[c].who)
     \/ Back(c, "delete", "confirm") /\ MGoes(c, IF At("person") THEN ui.route.under ELSE "hub", Nil)
     \/ /\ Back(c, "merge", "similar")
        /\ IF Here(c) THEN Follow(c, <<Req(ui, "suggest", "similar")>>) /\ UNCHANGED <<client, db, ui, acts>>
           ELSE MStay(c, ui)
     \/ /\ Failed(c, "merge", "sheet") \/ Failed(c, "delete", "confirm") \/ Failed(c, "merge", "similar")
        /\ MStay(c, IF on("similar") THEN [ui EXCEPT !.sheet.busy = FALSE] ELSE ui)
  /\ UNCHANGED dismissed

(* ----------------------------- the review queue ------------------------- *)

MCards == IF ui.queue.cards = Nil THEN {}
          ELSE {s \in Range(ui.queue.cards) : Key(s) \notin dismissed}
MGroups == IF ui.queue.groups = Nil \/ ui.queue.cards = Nil THEN {} ELSE Live(ui.queue.groups)
MFreeCards == {s \in MCards : ui.queue.busy # Key(s)}
OnReview == Mobile /\ At("review") /\ Sheet("none")

MQueueBack(c) ==
  LET q == ui.queue
      a == calls[c].ans
      add(rows, items) == rows \o SelectSeq(items, LAMBDA s : s \notin Range(rows)) IN
  /\ Mobile
  /\ \/ /\ Back(c, "fresh", "queue")
        /\ MStay(c, IF ~Here(c) THEN ui ELSE [ui EXCEPT
             !.queue.cards = IF calls[c].page = 1 \/ @ = Nil THEN a.items ELSE add(@, a.items),
             !.queue.total = a.total, !.queue.loading = IF calls[c].page = 1 THEN @ ELSE FALSE])
     \/ /\ Failed(c, "fresh", "queue")
        /\ MStay(c, IF ~Here(c) THEN ui ELSE [ui EXCEPT
             !.queue.cards = IF calls[c].page = 1 THEN <<>> ELSE @,
             !.queue.loading = IF calls[c].page = 1 THEN @ ELSE FALSE])
     \/ /\ Back(c, "suggest", "queue") \/ Failed(c, "suggest", "queue")
        /\ MStay(c, IF ~Here(c) THEN ui ELSE [ui EXCEPT
             !.queue.groups = IF calls[c].step = "back" THEN a.groups ELSE {}])
  /\ UNCHANGED dismissed
MQueueMore ==
  LET q == ui.queue IN
  /\ OnReview /\ q.cards # Nil /\ ~q.loading /\ Len(q.cards) < q.total
  /\ OnlyAct([ui EXCEPT !.queue.loading = TRUE])
  /\ Issue(<<[Req(ui, "fresh", "queue") EXCEPT !.page = Len(q.cards) \div PageSize + 1]>>)

(* One card is busy at a time: a second create frees the first one. *)
MCreate(s) ==
  /\ Mobile /\ At("review") /\ s \in MFreeCards
  /\ Sheet("none") \/ (Sheet("preview") /\ ui.sheet.sugg = s)
  /\ OnlyAct([ui EXCEPT !.queue.busy = Key(s)])
  /\ Issue(<<[Req(ui, "create", "card") EXCEPT !.of = s.of, !.sugg = s]>>)
MAssign(p) ==
  LET s == ui.sheet.sugg IN
  /\ Mobile /\ At("review") /\ Sheet("picker") /\ ui.sheet.rows # Nil /\ p \in IdsOf(ui.sheet.rows)
  /\ ui.queue.busy # Key(s)
  /\ OnlyAct([ui EXCEPT !.queue.busy = Key(s)])
  /\ Issue(<<[Req(ui, "join", "card") EXCEPT !.who = p, !.of = s.of, !.sugg = s]>>)
MCardDone(c) ==
  LET freed == IF Here(c) THEN [ui EXCEPT !.queue.busy = Nil] ELSE ui IN
  /\ Mobile
  /\ \/ /\ Back(c, "create", "card") /\ Dismiss(calls[c].sugg)
        /\ LET u == Focused(ui, "person", calls[c].ans) IN
           /\ ui' = [u EXCEPT !.person.prompt = TRUE]
           /\ Follow(c, FocusCalls(ui, "person", calls[c].ans))
           /\ UNCHANGED <<client, db, acts>>
     \/ Back(c, "join", "card") /\ Dismiss(calls[c].sugg) /\ MStay(c, IF Here(c) THEN Closed(freed) ELSE ui)
     \/ /\ Failed(c, "create", "card") \/ Failed(c, "join", "card")
        /\ MStay(c, freed) /\ UNCHANGED dismissed

MPreview(s) ==
  /\ OnReview /\ s \in MCards
  /\ OnlyAct([ui EXCEPT !.sheet = [NoSheet EXCEPT !.kind = "preview", !.sugg = s, !.photos = "loading"]])
  /\ Issue(<<[Req(ui, "photos", "preview") EXCEPT !.of = s.of]>>)
(* A cluster that is gone leaves the queue, and the queue is asked again. *)
MPhotos(c) ==
  LET shown == Here(c) /\ ui.sheet.kind \in {"preview", "picker"} /\ ui.sheet.sugg.of = calls[c].of IN
  /\ Mobile
  /\ \/ /\ Back(c, "photos", "preview") /\ UNCHANGED dismissed
        /\ MStay(c, IF shown THEN [ui EXCEPT !.sheet.photos = "shown"] ELSE ui)
     \/ /\ Failed(c, "photos", "preview")
        /\ IF shown /\ calls[c].ans = "404"
           THEN /\ Dismiss(ui.sheet.sugg)
                /\ ui' = [Closed(ui) EXCEPT !.queue = [NoQueue EXCEPT !.busy = ui.queue.busy]]
                /\ Follow(c, <<[Req(ui, "fresh", "queue") EXCEPT !.page = 1], Req(ui, "suggest", "queue")>>)
                /\ UNCHANGED <<client, db, acts>>
           ELSE /\ UNCHANGED dismissed
                /\ MStay(c, IF shown THEN [ui EXCEPT !.sheet.photos = "failed"] ELSE ui)
MRetryPhotos == /\ Mobile /\ Sheet("preview") /\ ui.sheet.photos = "failed"
                /\ OnlyAct([ui EXCEPT !.sheet.photos = "loading"])
                /\ Issue(<<[Req(ui, "photos", "preview") EXCEPT !.of = ui.sheet.sugg.of]>>)
MPick == /\ Mobile /\ Sheet("preview") /\ ui.queue.busy # Key(ui.sheet.sugg)
         /\ OnlyAct([ui EXCEPT !.sheet.kind = "picker"])
         /\ IF ui.sheet.rows = Nil THEN Issue(<<[Req(ui, "window", "picker") EXCEPT !.page = 1]>>)
            ELSE UNCHANGED calls
MSearch(f) ==
  /\ Mobile /\ Sheet("picker") /\ f # ui.sheet.term
  /\ OnlyAct([ui EXCEPT !.sheet.term = f, !.sheet.rows = Nil])
  /\ Issue(<<[Req(ui, "window", "picker") EXCEPT !.page = 1, !.filter = f]>>)
MUnpick == Mobile /\ Sheet("picker") /\ OnlyAct([ui EXCEPT !.sheet.kind = "preview"]) /\ UNCHANGED calls
MSkip(s) == /\ OnReview /\ s \in MFreeCards \cup MGroups /\ NotNow(s) /\ UNCHANGED ui

MMergeGroup(g) ==
  /\ OnReview /\ g \in MGroups /\ ui.queue.group # Key(g)
  /\ OnlyAct([ui EXCEPT !.queue.group = Key(g)])
  /\ Issue(<<[Req(ui, "merge", "group") EXCEPT !.who = g.who, !.of = g.of \ {g.who}, !.sugg = g]>>)
MMergedGroup(c) ==
  /\ Mobile /\ (Back(c, "merge", "group") \/ Failed(c, "merge", "group"))
  /\ MStay(c, IF ~Here(c) THEN ui ELSE [ui EXCEPT !.queue.group = Nil,
                !.queue.groups = IF calls[c].step = "failed" \/ @ = Nil THEN @
                                 ELSE {g \in @ : Key(g) # Key(calls[c].sugg)}])
  /\ UNCHANGED dismissed
MReviewGroup(g) ==
  /\ OnReview /\ g \in MGroups /\ ui.queue.group # Key(g)
  /\ OnlyAct([ui EXCEPT !.sheet = [NoSheet EXCEPT !.kind = "stepper", !.term = "group", !.sugg = g]])
  /\ UNCHANGED calls

MobileNext ==
  \/ \E f \in Filters : MSetFilter(f) \/ MSearch(f)
  \/ \E p \in People : MLongPress(p) \/ MOpen(p) \/ MPickTarget(p) \/ MTick(p) \/ MAssign(p)
  \/ \E n \in Names : MRename(n) \/ MSaveName(n)
  \/ MRefresh \/ MRetry \/ MMore \/ MOpenReview \/ MStartRename \/ MOpenMerge \/ MOpenSimilar
  \/ MListMore \/ MMergeTicked \/ MAskDelete \/ MDelete \/ MQueueMore \/ MRetryPhotos \/ MPick \/ MUnpick
  \/ MLeave /\ UNCHANGED dismissed
  \/ Mobile /\ CloseSheet
  \/ \E s \in MBanners : MAccept(s) \/ MNotNow(s) \/ MReview(s)
  \/ \E s \in MCards : MCreate(s) \/ MPreview(s)
  \/ \E s \in MCards \cup MGroups : MSkip(s)
  \/ \E g \in MGroups : MMergeGroup(g) \/ MReviewGroup(g)
  \/ \E v \in {"accept", "reject", "defer", "skip"} : MVerdict(v)
  \/ \E c \in Slots : \/ MWindowBack(c) \/ MMoreBack(c) \/ MSuggested(c) \/ MRenamed(c) \/ MDetail(c)
                      \/ MSavedName(c) \/ MAccepted(c) \/ MJudged(c) \/ MListBack(c) \/ MGone(c)
                      \/ MQueueBack(c) \/ MCardDone(c) \/ MPhotos(c) \/ MMergedGroup(c)
=============================================================================
