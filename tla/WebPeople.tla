------------------------------ MODULE WebPeople ------------------------------
(***************************************************************************)
(* The web people screens: the hub over an infinite query, the page of one *)
(* person, and the review of new faces, all over one query cache.  A query *)
(* keeps its last answer whether or not it is shown; it asks when a screen *)
(* comes to show it and it is missing, old or invalidated; and it asks     *)
(* once at a time.  A request is the query's when its "from" names it.     *)
(***************************************************************************)
EXTENDS PeopleCalls

Web == client = "web"

(* -------------------------------- queries ------------------------------- *)

(* The queries under the two prefixes a mutation invalidates. *)
PeopleKeys == {"hub", "person", "picker"}
ReviewKeys == {"suggest", "queue"}

(* The picker of a card remembers its search and its selection. *)
Choice(u) == IF u.sheet.sugg \in DOMAIN u.queue.chosen THEN u.queue.chosen[u.sheet.sugg]
             ELSE [term |-> "all", who |-> Nil]
Cached(u, k) ==
  CASE k = "hub" -> u.hub.rows # Nil /\ u.hub.of = u.hub.filter
    [] k = "person" -> u.person.rows # Nil
    [] k = "suggest" -> u.hub.seen # Nil
    [] k = "queue" -> u.queue.cards # Nil
    [] k = "picker" -> u.queue.picks.rows # Nil /\ u.queue.picks.of = Choice(u).term
    [] OTHER -> FALSE
Loaded(rows) == IF rows = Nil THEN 1 ELSE Max({1, (Len(rows) + PageSize - 1) \div PageSize})
(* All the pages a query holds, or one more. *)
Query(u, k) ==
  LET ask(op, rows, f) == [Req(u, op, k) EXCEPT !.visit = 0, !.page = Loaded(rows), !.filter = f] IN
  CASE k = "hub" -> ask("windows", IF Cached(u, k) THEN u.hub.rows ELSE Nil, u.hub.filter)
    [] k = "picker" -> ask("windows", IF Cached(u, k) THEN u.queue.picks.rows ELSE Nil, Choice(u).term)
    [] k = "person" -> ask("people", Nil, "all")
    [] k = "suggest" -> ask("suggest", Nil, "all")
    [] k = "queue" -> ask("queue", u.queue.cards, "all")
NextPage(u, k) == [Query(u, k) EXCEPT !.op = IF k = "queue" THEN "fresh" ELSE "window", !.page = @ + 1]

SameQuery(r, s) == {r.op, s.op} \subseteq Reads /\ r.from = s.from /\ r.filter = s.filter /\ r.of = s.of
InFlight(k) == \E c \in Slots : SameQuery(calls[c], Query(ui, k))
Paging(k) == \E c \in Slots : SameQuery(calls[c], Query(ui, k)) /\ calls[c].op = NextPage(ui, k).op

(* A query without data joins the request it has in flight, and so does the
   hub, whose windows are queries of their own; any other cancels it.  Who
   waited for the cancelled one waits for its successor. *)
Placed(u, r, old) ==
  LET joins == old.op = r.op /\ (r.from = "hub" \/ ~Cached(u, r.from)) IN
  [(IF joins THEN old ELSE r) EXCEPT !.then = r.then \/ old.then]
Fetch(u, cs, reqs) ==
  LET same(c) == {r \in reqs : SameQuery(cs[c], r)}
      new == {r \in reqs : \A c \in Slots : ~SameQuery(cs[c], r)}
      placed == [c \in Slots |-> IF same(c) = {} THEN cs[c] ELSE Placed(u, CHOOSE r \in same(c) : TRUE, cs[c])]
  IN /\ Cardinality(new) <= Cardinality(Idle(cs))
     /\ calls' = Issued(placed, SetToSeq(new))

(* What the screen in front shows; on the hub the suggestions wait for the
   first window. *)
Shows(u) ==
  CASE u.route.at = "hub" -> {"hub"} \cup (IF u.hub.rows = Nil THEN {} ELSE ReviewKeys)
    [] u.route.at = "person" -> {"person", "suggest"}
    [] u.route.at = "review" -> {"queue"} \cup (IF u.sheet.kind = "picker" THEN {"picker"} ELSE {})
NewlyShown(v) == {k \in Shows(v) : \/ v.route.visit # ui.route.visit \/ k \notin Shows(ui)
                                   \/ ~SameQuery(Query(v, k), Query(ui, k))}
(* A further page of a listing that is no longer held does not do. *)
Observed(cs, v, reqs, old) ==
  {r \in {Query(v, k) : k \in {j \in NewlyShown(v) : old \/ ~Cached(v, j) \/ j \in v.hub.stale}} :
     \A q \in reqs \cup Range(cs) : SameQuery(q, r) => (q.op # r.op /\ ~Cached(v, r.from))}

(* Every step of the screens: the requests it makes itself, and those of the
   queries it brings in front. *)
Moves(cs, v, reqs) == /\ ui' = v /\ UNCHANGED <<client, db>>
                      /\ \E old \in BOOLEAN : Fetch(v, cs, reqs \cup Observed(cs, v, reqs, old))
Does(v, reqs) == Act /\ Moves(calls, v, reqs) /\ UNCHANGED dismissed
Ends(c, v, reqs) == Moves(Freed(c), v, reqs) /\ UNCHANGED acts

(* Invalidated queries are marked, and those in front ask again. *)
Invalid(u, keys, then) ==
  LET v == [u EXCEPT !.hub.stale = @ \cup keys] IN
  [ui |-> v, reqs |-> {[Query(v, k) EXCEPT !.then = then] : k \in keys \cap Shows(v)}]
(* The people first; the suggestions, where they are invalidated at all, once
   the people have answered or failed. *)
Invalidated(u, both) ==
  LET i == Invalid(u, PeopleKeys, both) IN
  IF both /\ i.reqs = {} THEN Invalid(i.ui, ReviewKeys, FALSE) ELSE i
Invalidate(c, u, both) == LET i == Invalidated(u, both) IN Ends(c, i.ui, i.reqs)
(* An answer takes the mark off its query, a failure puts it on. *)
Answered(c, u) ==
  LET k == {calls[c].from}
      v == IF ~SameQuery(calls[c], Query(ui, calls[c].from)) THEN u
           ELSE [u EXCEPT !.hub.stale = IF calls[c].step = "back" THEN @ \ k ELSE @ \cup k]
      i == Invalid(v, ReviewKeys, FALSE) IN
  /\ IF calls[c].then THEN Ends(c, i.ui, i.reqs) ELSE Ends(c, v, {})
  /\ UNCHANGED dismissed
Arrived(c, op, k) == Web /\ (Back(c, op, k) \/ Failed(c, op, k))

(* A screen mounts over what the cache holds. *)
Mounted(u, at, id) ==
  LET kept == u.hub.of = "all" IN
  [u EXCEPT !.route = [u.route EXCEPT !.at = at, !.id = id, !.visit = u.route.visit + 1],
            !.hub = IF at # "hub" THEN u.hub ELSE
                      [u.hub EXCEPT !.filter = "all", !.of = "all", !.rows = IF kept THEN u.hub.rows ELSE Nil,
                                    !.failed = u.hub.failed /\ u.hub.filter = "all"],
            !.person = [NoPerson EXCEPT !.rows = u.person.rows],
            !.queue = [NoQueue EXCEPT !.cards = u.queue.cards, !.total = u.queue.total, !.picks = u.queue.picks],
            !.sheet = NoSheet]
WGo(at, id) == Does(Mounted(ui, at, id), {})
(* Moving on after a mutation: the queries are invalidated before the new
   screen mounts. *)
WGoes(c, at, id, both) ==
  LET i == Invalidated(ui, both) IN Ends(c, Mounted(i.ui, at, id), i.reqs)

(* --------------------------------- the hub ------------------------------ *)

Placeholder == ui.hub.of # ui.hub.filter
WGroups == IF ui.hub.seen = Nil THEN {} ELSE Live(ui.hub.seen.groups)
Collapsed == UNION {g.of \ {g.who} : g \in WGroups}
WTiles == IF ui.hub.rows = Nil THEN {} ELSE IdsOf(ui.hub.rows) \ Collapsed
CardsOf(u) == IF u.queue.cards = Nil THEN {} ELSE Live(Range(u.queue.cards)) \ u.queue.done
WCards == CardsOf(ui)
HasDeck == ui.hub.filter = "all" /\ WCards # {}
WHubShown ==
  CASE ui.hub.failed /\ (Cached(ui, "hub") \/ ~InFlight("hub")) -> "error"
    [] OTHER -> IF ui.hub.rows = Nil THEN "skeleton" ELSE IF ui.hub.rows = <<>> THEN "empty" ELSE "grid"
WHubControls == CASE WHubShown = "error" -> {"retry"}
                  [] WHubShown = "skeleton" -> {}
                  [] WHubShown = "empty" -> {"filter"}
                  [] OTHER -> {"filter", "person", "more"} \cup (IF HasDeck THEN {"review"} ELSE {})
WOnHub(control) == Web /\ At("hub") /\ control \in WHubControls

(* The rows of the filter left behind stay until those of the new one come. *)
WSetFilter(f) == /\ WOnHub("filter") /\ f # ui.hub.filter
                 /\ Does([ui EXCEPT !.hub.filter = f, !.hub.failed = FALSE], {})
WRetry == WOnHub("retry") /\ ~InFlight("hub") /\ Does(ui, {Query(ui, "hub")})
WMore == WOnHub("more") /\ ui.hub.more /\ ~Placeholder /\ ~Paging("hub") /\ Does(ui, {NextPage(ui, "hub")})
(* Pages are laid end to end, and a page that fails shows the error screen
   too.  The answer of a filter no longer shown is another query's. *)
WWindows(c) ==
  LET r == calls[c] IN
  IF r.filter # ui.hub.filter THEN ui.hub
  ELSE IF r.step = "failed" THEN [ui.hub EXCEPT !.failed = TRUE]
  ELSE [ui.hub EXCEPT !.rows = IF r.op = "window" THEN @ \o r.ans.items ELSE r.ans.items,
                      !.of = r.filter, !.more = r.page * PageSize < r.ans.total, !.failed = FALSE]
WWindowsBack(c) == /\ \E op \in {"windows", "window"} : Arrived(c, op, "hub")
                   /\ Answered(c, [ui EXCEPT !.hub = WWindows(c)])
WSuggested(c) ==
  /\ Arrived(c, "suggest", "suggest")
  /\ Answered(c, IF calls[c].step = "failed" THEN ui ELSE [ui EXCEPT !.hub.seen = calls[c].ans])

WOpen(p) == WOnHub("person") /\ p \in WTiles /\ WGo("person", p)
WOpenReview == WOnHub("review") /\ WGo("review", Nil)

(* -------------------------------- a person ------------------------------ *)

PersonShown == IF ui.person.rows = Nil THEN IF InFlight("person") THEN "skeleton" ELSE "not found"
               ELSE IF Self \in IdsOf(ui.person.rows) THEN "person" ELSE "not found"
Others == IF ui.person.rows = Nil THEN {} ELSE IdsOf(ui.person.rows) \ {Self}
WFaces == FaceMerge(ui.hub.seen, Self)
WGroup == GroupOf(ui.hub.seen, Self)
WBanners == {s \in {WFaces, WGroup} : s # Nil}
(* The dialog reads the suggestion that is current, whatever it was when the
   review began. *)
WStep == IF ui.sheet.term = "faces" THEN WFaces ELSE WGroup
WItems == Candidates(WStep)
WShown == IF ui.sheet.step <= Len(WItems) THEN WItems[ui.sheet.step] ELSE Nil
(* The dialog on the screen: none without the person, and no review without
   candidates. *)
Dialog == IF At("person") /\ (PersonShown # "person" \/ (Sheet("stepper") /\ WItems = <<>>))
          THEN "none" ELSE ui.sheet.kind
Mutating(froms) == \E c \in Slots : calls[c].from \in froms /\ Here(c)
Reviewing == Mutating({"banner", "batch", "into", "stepper"})
WPersonControls ==
  IF PersonShown # "person" THEN {}
  ELSE {"rename", "delete"} \cup (IF Others = {} THEN {} ELSE {"merge"})
                            \cup (IF Reviewing THEN {} ELSE {"banner"})
WOnPerson(control) == Web /\ At("person") /\ Dialog = "none" /\ control \in WPersonControls
WIn(dialog) == Web /\ At("person") /\ Dialog = dialog
WLeave == Web /\ ~At("hub") /\ Dialog = "none" /\ WGo("hub", Nil)

WPeopleBack(c) ==
  /\ Arrived(c, "people", "person")
  /\ Answered(c, IF calls[c].step = "failed" THEN ui ELSE [ui EXCEPT !.person.rows = calls[c].ans])

WOpenSheet(kind) == WOnPerson(kind) /\ Does([ui EXCEPT !.sheet = [NoSheet EXCEPT !.kind = kind]], {})
(* From the picker back to the preview under it, if it came from there; the
   list of a merge only once its confirmation is gone. *)
WClose ==
  /\ Web /\ Dialog # "none" /\ (Dialog = "merge" => ui.sheet.picked = {})
  /\ Does(IF Sheet("picker") /\ ui.sheet.photos # "none" THEN [ui EXCEPT !.sheet.kind = "preview"] ELSE Closed(ui), {})
NameShown == LET i == CHOOSE j \in DOMAIN ui.person.rows : ui.person.rows[j].id = Self
             IN ui.person.rows[i].name
WSaveName(n) ==
  /\ WIn("rename")
  /\ IF n = NameShown THEN Does(Closed(ui), {})
     ELSE Does(ui, {[Req(ui, "rename", "name") EXCEPT !.who = Self, !.name = n]})
(* One survivor is picked, then confirmed. *)
WPickTarget(t) == WIn("merge") /\ t \in Others /\ ui.sheet.picked = {} /\ Does([ui EXCEPT !.sheet.picked = {t}], {})
WUnpick == WIn("merge") /\ ui.sheet.picked # {} /\ Does([ui EXCEPT !.sheet.picked = {}], {})
WConfirmMerge ==
  /\ WIn("merge") /\ ~Mutating({"sheet"})
  /\ \E t \in ui.sheet.picked : Does(ui, {[Req(ui, "merge", "sheet") EXCEPT !.who = t, !.of = {Self}]})
WConfirmDelete == /\ WIn("delete") /\ ~Mutating({"confirm"})
                  /\ Does(ui, {[Req(ui, "delete", "confirm") EXCEPT !.who = Self]})
(* A merge or a delete moves the user on wherever they are by then. *)
WGone(c) ==
  /\ Web /\ UNCHANGED dismissed
  /\ \/ Back(c, "rename", "name") /\ Invalidate(c, IF Here(c) /\ Sheet("rename") THEN Closed(ui) ELSE ui, FALSE)
     \/ Back(c, "merge", "sheet") /\ WGoes(c, "person", calls[c].who, FALSE)
     \/ Back(c, "delete", "confirm") /\ WGoes(c, "hub", Nil, FALSE)
     \/ calls[c].from \in {"name", "sheet", "confirm"} /\ calls[c].step = "failed" /\ Ends(c, ui, {})

(* ------------------------------- the review ----------------------------- *)

WAccept(s) ==
  /\ WOnPerson("banner") /\ s \in WBanners
  /\ Does(ui, {IF s = WFaces THEN [Req(ui, "join", "banner") EXCEPT !.who = Self, !.of = s.of]
               ELSE IF s.who = Self THEN [Req(ui, "merge", "batch") EXCEPT !.who = Self, !.of = s.of \ {Self}]
               ELSE [Req(ui, "merge", "into") EXCEPT !.who = s.who, !.of = {Self}]})
WNotNow(s) == WOnPerson("banner") /\ s \in WBanners /\ NotNow(s) /\ UNCHANGED ui
WReview(s) ==
  /\ WOnPerson("banner") /\ s \in WBanners
  /\ Does([ui EXCEPT !.sheet = [NoSheet EXCEPT !.kind = "stepper", !.term = IF s = WFaces THEN "faces" ELSE "group"]], {})

WStepButtons == IF Reviewing THEN {}
                ELSE {"accept"} \cup (IF ui.sheet.term = "faces" THEN {"reject", "defer"} ELSE {"skip"})
WJudges(sheet, v) ==
  [sheet EXCEPT !.yes = IF v = "accept" THEN @ \cup {WShown} ELSE @,
                !.no = IF v = "reject" THEN @ \cup {WShown} ELSE @,
                !.unsure = IF v = "defer" THEN @ \cup {WShown} ELSE @,
                !.given = @ \cup {[id |-> WShown, verdict |-> v]}]
(* What the finished review sends: the verdicts of the last render, without
   the one just given. *)
WFinish(done) ==
  LET s == WStep
      r == [Req(ui, IF ui.sheet.term = "faces" THEN "review" ELSE "merge", "stepper")
             EXCEPT !.who = s.who, !.of = ui.sheet.yes, !.no = ui.sheet.no, !.unsure = ui.sheet.unsure,
                    !.sugg = s, !.given = done.given, !.then = Self \in ui.sheet.yes] IN
  IF ui.sheet.term = "group" /\ ui.sheet.yes = {}
  THEN NotNow(s) /\ ui' = Closed(ui)
  ELSE Does([ui EXCEPT !.sheet = done], {r})
WVerdict(v) ==
  /\ WIn("stepper") /\ v \in WStepButtons
  /\ IF ui.sheet.step < Len(WItems) THEN Does([ui EXCEPT !.sheet = [WJudges(ui.sheet, v) EXCEPT !.step = ui.sheet.step + 1]], {})
     ELSE WFinish(WJudges(ui.sheet, v))
(* Every end closes the review; a merge of this page's person follows them to
   the survivor. *)
Reviewless(c) == IF Here(c) /\ Sheet("stepper") THEN Closed(ui) ELSE ui
WReviewed(c) ==
  /\ Web
  /\ \/ Back(c, "join", "banner") /\ Invalidate(c, Reviewless(c), TRUE) /\ UNCHANGED dismissed
     \/ /\ Back(c, "review", "stepper") /\ Invalidate(c, Reviewless(c), TRUE)
        /\ Dismiss(calls[c].sugg) \/ (~Here(c) /\ UNCHANGED dismissed)
     \/ /\ \E from \in {"batch", "stepper"} : Back(c, "merge", from)
        /\ IF calls[c].then THEN WGoes(c, "person", calls[c].who, TRUE) ELSE Invalidate(c, Reviewless(c), TRUE)
        /\ UNCHANGED dismissed
     \/ Back(c, "merge", "into") /\ WGoes(c, "person", calls[c].who, TRUE) /\ UNCHANGED dismissed
     \/ /\ calls[c].from \in {"banner", "batch", "into", "stepper"} /\ calls[c].step = "failed"
        /\ Ends(c, ui, {}) /\ UNCHANGED dismissed

(* ----------------------------- new faces -------------------------------- *)

(* One card is busy at a time: a second action frees the first one. *)
WFree(s) == ui.queue.busy # Key(s)
WOnReview == Web /\ At("review")
OnCard(s) == s \in WCards /\ (Sheet("none") \/ (Sheet("preview") /\ ui.sheet.sugg = s))
(* A card that leaves takes its dialogs and its picker's choice along. *)
Kept(u, cards) == [u EXCEPT !.sheet = IF @.sugg \in cards THEN @ ELSE NoSheet,
                            !.queue.chosen = Restrict(@, DOMAIN @ \cap cards)]

(* Pages follow while the end of the list is near, or on request. *)
WQueueMore == LET q == ui.queue IN
  /\ WOnReview /\ q.cards # Nil /\ Loaded(q.cards) * PageSize < q.total /\ ~Paging("queue")
  /\ Does(ui, {NextPage(ui, "queue")})
WQueueBack(c) ==
  LET r == calls[c]
      u == [ui EXCEPT !.queue.cards = IF r.op = "fresh" THEN @ \o r.ans.items ELSE r.ans.items,
                      !.queue.total = r.ans.total] IN
  /\ \E op \in {"queue", "fresh"} : Arrived(c, op, "queue")
  /\ Answered(c, IF r.step = "failed" THEN ui ELSE IF At("review") THEN Kept(u, CardsOf(u)) ELSE u)

WCreate(s) ==
  /\ WOnReview /\ OnCard(s) /\ WFree(s)
  /\ Does([ui EXCEPT !.queue.busy = Key(s)], {[Req(ui, "create", "card") EXCEPT !.of = s.of, !.sugg = s]})
WPreview(s) ==
  /\ WOnReview /\ Sheet("none") /\ s \in WCards
  /\ Does([ui EXCEPT !.sheet = [NoSheet EXCEPT !.kind = "preview", !.sugg = s, !.photos = "loading"]],
          {[Req(ui, "photos", "preview") EXCEPT !.visit = 0, !.of = s.of]})
(* A cluster that is gone is not asked for again. *)
WPhotos(c) ==
  /\ Arrived(c, "photos", "preview") /\ UNCHANGED dismissed
  /\ Ends(c, IF ui.sheet.photos # "none" /\ ui.sheet.sugg.of = calls[c].of
             THEN [ui EXCEPT !.sheet.photos = IF calls[c].step = "back" THEN "shown" ELSE "failed"] ELSE ui, {})
WSkip(s) == WOnReview /\ OnCard(s) /\ WFree(s) /\ NotNow(s) /\ ui' = Kept(ui, WCards \ {s})

(* The picker keeps its listing over openings, if its search is the same. *)
PicksShown == IF ui.queue.picks.failed /\ (Cached(ui, "picker") \/ ~InFlight("picker")) THEN {}
              ELSE IF ui.queue.picks.rows = Nil THEN {} ELSE IdsOf(ui.queue.picks.rows)
Chosen(u, choice) == [u EXCEPT !.queue.chosen = (u.sheet.sugg :> choice) @@ @]
WPick(s) ==
  LET u == [ui EXCEPT !.sheet = [(IF Sheet("none") THEN NoSheet ELSE @) EXCEPT !.kind = "picker", !.sugg = s]] IN
  /\ WOnReview /\ OnCard(s) /\ WFree(s)
  /\ Does(IF Cached(u, "picker") THEN u ELSE [u EXCEPT !.queue.picks = [NoPicks EXCEPT !.of = Choice(u).term]], {})
WSearch(f) == /\ Web /\ Sheet("picker") /\ f # Choice(ui).term
              /\ Does([Chosen(ui, [Choice(ui) EXCEPT !.term = f]) EXCEPT !.queue.picks.failed = FALSE], {})
WListMore == /\ Web /\ Sheet("picker") /\ Cached(ui, "picker") /\ ui.queue.picks.more /\ ~Paging("picker")
             /\ Does(ui, {NextPage(ui, "picker")})
WPicks(c) ==
  LET r == calls[c] IN
  IF r.filter # Choice(ui).term THEN ui.queue.picks
  ELSE IF r.step = "failed" THEN [ui.queue.picks EXCEPT !.failed = TRUE]
  ELSE [ui.queue.picks EXCEPT !.rows = IF r.op = "window" THEN @ \o r.ans.items ELSE r.ans.items,
                              !.of = r.filter, !.more = r.page * PageSize < r.ans.total, !.failed = FALSE]
WPicksBack(c) == /\ \E op \in {"windows", "window"} : Arrived(c, op, "picker")
                 /\ Answered(c, [ui EXCEPT !.queue.picks = WPicks(c)])
WSelect(p) == /\ Web /\ Sheet("picker") /\ p \in PicksShown \ {Choice(ui).who}
              /\ Does(Chosen(ui, [Choice(ui) EXCEPT !.who = p]), {})
WAssign ==
  LET s == ui.sheet.sugg IN
  /\ WOnReview /\ Sheet("picker") /\ Choice(ui).who # Nil /\ WFree(s)
  /\ Does([ui EXCEPT !.queue.busy = Key(s)],
          {[Req(ui, "join", "card") EXCEPT !.who = Choice(ui).who, !.of = s.of, !.sugg = s]})
(* The card leaves at once, before the queue is asked again. *)
WCardDone(c) ==
  LET s == calls[c].sugg
      freed == IF Here(c) THEN [ui EXCEPT !.queue.busy = Nil] ELSE ui
      done == IF Here(c) THEN Kept([freed EXCEPT !.queue.done = @ \cup {s}], WCards \ {s}) ELSE ui IN
  /\ Web /\ UNCHANGED dismissed
  /\ \/ \E op \in {"create", "join"} : Back(c, op, "card") /\ Invalidate(c, done, TRUE)
     \/ calls[c].from = "card" /\ calls[c].step = "failed" /\ Ends(c, freed, {})

WebNext ==
  \/ \E f \in Filters : WSetFilter(f) \/ WSearch(f)
  \/ \E p \in People : WOpen(p) \/ WPickTarget(p) \/ WSelect(p)
  \/ \E n \in Names \cup {Nil} : WSaveName(n)
  \/ \E kind \in {"rename", "merge", "delete"} : WOpenSheet(kind)
  \/ WRetry \/ WMore \/ WOpenReview \/ WLeave \/ WClose \/ WUnpick \/ WConfirmMerge \/ WConfirmDelete
  \/ WQueueMore \/ WListMore \/ WAssign
  \/ \E s \in WBanners : WAccept(s) \/ WNotNow(s) \/ WReview(s)
  \/ \E s \in WCards : WCreate(s) \/ WPreview(s) \/ WSkip(s) \/ WPick(s)
  \/ \E v \in {"accept", "reject", "defer", "skip"} : WVerdict(v)
  \/ \E c \in Slots : \/ WWindowsBack(c) \/ WSuggested(c) \/ WPeopleBack(c) \/ WGone(c) \/ WReviewed(c)
                      \/ WQueueBack(c) \/ WPhotos(c) \/ WPicksBack(c) \/ WCardDone(c)
=============================================================================
