----------------------------- MODULE PeopleCalls -----------------------------
(***************************************************************************)
(* What the people screens of both clients share: the screen the user is   *)
(* on, the requests it has in flight and the dismissals kept on the device *)
(* or in the browser.  A request is sent, served and answered; its screen  *)
(* may be gone by then.                                                    *)
(***************************************************************************)
EXTENDS PeopleServer

CONSTANTS Slots,       \* requests in flight
          Databases,   \* what the server may hold at first
          Filters,
          MaxActs      \* bound on what the user does and on what fails

(* The foreign keys of the database: a verdict is on a person there is. *)
ASSUME DatabasesAssumption ==
  \A d \in Databases : d \in Database /\ \A v \in d.verdicts : v.who \in d.live

ASSUME SlotsAssumption == IsFiniteSet(Slots)

VARIABLES client,      \* "web" or "mobile"
          db,          \* the server
          dismissed,   \* "Not now", for good
          ui,          \* the screens
          calls,       \* requests in flight
          acts

vars == <<client, db, dismissed, ui, calls, acts>>

NoCall == [op |-> "none", step |-> "idle", from |-> "none", visit |-> 0, seq |-> 0, page |-> 0,
           filter |-> "all", who |-> Nil, name |-> Nil, of |-> {}, no |-> {}, unsure |-> {},
           sugg |-> Nil, given |-> {}, then |-> FALSE, ans |-> Nil]
NoSheet == [kind |-> "none", step |-> 1, yes |-> {}, no |-> {}, unsure |-> {}, given |-> {},
            rows |-> Nil, more |-> FALSE, next |-> 2, loading |-> FALSE, picked |-> {},
            busy |-> FALSE, sugg |-> Nil, photos |-> "none", term |-> "all"]
NoHub == [filter |-> "all", rows |-> Nil, of |-> "all", next |-> 2, more |-> FALSE,
          loading |-> FALSE, seq |-> 0, failed |-> FALSE, error |-> FALSE, seen |-> Nil, stale |-> {}]
NoPerson == [row |-> Nil, rows |-> Nil, seen |-> Nil, busy |-> {}, prompt |-> FALSE,
             ranked |-> FALSE]
NoPicks == [rows |-> Nil, of |-> "all", more |-> FALSE, failed |-> FALSE]
NoQueue == [cards |-> Nil, total |-> 0, groups |-> Nil, loading |-> FALSE, busy |-> Nil,
            group |-> Nil, review |-> FALSE, done |-> {}, picks |-> NoPicks, chosen |-> <<>>]
NoUi == [route |-> [at |-> "hub", id |-> Nil, visit |-> 0, under |-> "hub"], hub |-> NoHub, person |-> NoPerson,
         queue |-> NoQueue, sheet |-> NoSheet]

Reads == {"window", "windows", "people", "suggest", "fresh", "queue", "detail", "similar", "photos"}
Writes == {"rename", "merge", "delete", "create", "join", "review"}

(* A suggestion is known by its members, and the person they are for. *)
Key(s) == [who |-> IF s.of \subseteq People THEN Nil ELSE s.who, of |-> s.of]
Live(S) == {s \in S : Key(s) \notin dismissed}
Dismiss(s) == dismissed' = dismissed \cup {Key(s)}

(* ------------------------------- requests ------------------------------- *)

Act == acts < MaxActs /\ acts' = acts + 1
Req(u, op, from) == [NoCall EXCEPT !.op = op, !.step = "sent", !.from = from, !.visit = u.route.visit]
Here(c) == calls[c].visit = ui.route.visit
Idle(cs) == {c \in Slots : cs[c].op = "none"}
Issued(cs, reqs) ==
  LET free == SetToSeq(Idle(cs)) IN
  [c \in Slots |-> IF \E i \in DOMAIN reqs \cap DOMAIN free : free[i] = c
                   THEN reqs[CHOOSE i \in DOMAIN reqs \cap DOMAIN free : free[i] = c] ELSE cs[c]]
Issue(reqs) == Len(reqs) <= Cardinality(Idle(calls)) /\ calls' = Issued(calls, reqs)
Freed(c) == [calls EXCEPT ![c] = NoCall]
Follow(c, reqs) == /\ Len(reqs) <= Cardinality(Idle(Freed(c)))
                   /\ calls' = Issued(Freed(c), reqs)
Back(c, op, from) == calls[c].step = "back" /\ calls[c].op = op /\ calls[c].from = from
Failed(c, op, from) == calls[c].step = "failed" /\ calls[c].op = op /\ calls[c].from = from

(* ------------------------------- the server ----------------------------- *)

Refused(d, r) ==
  CASE r.op \in {"detail", "similar", "rename", "delete", "join", "review"} -> r.who \notin d.live
    [] r.op = "merge" -> ~(r.of \subseteq d.live) \/ r.who \notin d.live \/ r.who \in r.of
    [] r.op = "photos" -> [who |-> Nil, of |-> r.of] \notin NewPeople(d)
    [] OTHER -> FALSE
(* A client may also send an id that is none. *)
Malformed(r) == Nil \in r.of \cup r.no \cup r.unsure
(* A refetch asks for every page loaded so far. *)
UpTo(n, Page(_)) == FoldLeft(LAMBDA all, i : all \o Page(i), <<>>, [i \in 1..n |-> i])
Answer(d, r) ==
  CASE r.op = "window" -> ListPage(d, r.filter, r.page)
    [] r.op = "windows" -> [ListPage(d, r.filter, 1) EXCEPT !.items = UpTo(r.page, LAMBDA i : ListPage(d, r.filter, i).items)]
    [] r.op = "queue" -> [NewPeoplePage(d, 1) EXCEPT !.items = UpTo(r.page, LAMBDA i : NewPeoplePage(d, i).items)]
    [] r.op = "people" -> Ordered(d, d.live)
    [] r.op = "suggest" -> Suggest(d)
    [] r.op = "fresh" -> NewPeoplePage(d, r.page)
    [] r.op = "detail" -> Row(d, r.who)
    [] r.op = "similar" -> Similar(d, r.who, r.page)
    [] r.op = "create" -> CHOOSE p \in Unused(d) : \A q \in Unused(d) : Rank(p) <= Rank(q)
    [] OTHER -> Nil
Applied(d, r) ==
  CASE r.op = "rename" -> Renamed(d, r.who, r.name)
    [] r.op = "merge" -> Merged(d, r.of, r.who)
    [] r.op = "delete" -> Deleted(d, r.who)
    [] r.op = "create" -> Created(d, r.of)
    [] r.op = "join" -> [d EXCEPT !.home = Assigned(d, r.of, r.who)]
    [] r.op = "review" -> Reviewed(d, r.who, r.of, r.no, r.unsure)
    [] OTHER -> d

Served(c) ==
  LET r == calls[c] IN
  /\ r.step = "sent" /\ (r.op = "create" => Unused(db) # {})
  /\ IF Refused(db, r) \/ Malformed(r)
     THEN calls' = [calls EXCEPT ![c].step = "failed", ![c].ans = "404"] /\ UNCHANGED db
     ELSE calls' = [calls EXCEPT ![c].step = "back", ![c].ans = Answer(db, r)] /\ db' = Applied(db, r)
  /\ UNCHANGED <<client, dismissed, ui, acts>>

(* The request, or the answer to a write, does not come through. *)
Dropped(c) ==
  /\ Act
  /\ calls[c].step = "sent" \/ (calls[c].step = "back" /\ calls[c].op \in Writes)
  /\ calls' = [calls EXCEPT ![c].step = "failed", ![c].ans = "net"]
  /\ UNCHANGED <<client, db, dismissed, ui>>

(* The clustering job. *)
Recluster ==
  /\ Act /\ Clustered(db) # db
  /\ db' = Clustered(db)
  /\ UNCHANGED <<client, dismissed, ui, calls>>

(* -------------------------------- the UI -------------------------------- *)

Only(u) == ui' = u /\ UNCHANGED <<client, db, dismissed>>
OnlyAct(u) == Only(u) /\ Act

At(screen) == ui.route.at = screen
Self == ui.route.id
Sheet(kind) == ui.sheet.kind = kind
Closed(u) == [u EXCEPT !.sheet = NoSheet]

(* Rows appended once each. *)
Fresh(rows, items) ==
  LET new == {i \in DOMAIN items : \A j \in DOMAIN rows : rows[j].id # items[i].id}
  IN [n \in 1..Cardinality(new) |-> items[CHOOSE i \in new : Cardinality({k \in new : k < i}) = n - 1]]
IdsOf(rows) == {rows[i].id : i \in DOMAIN rows}

(* The review of one person: the faces offered to them, the group they are
   in, and the candidates of the stepper in order. *)
Pending(S, p) == LET mine == {s \in Live(S) : p \in s.of \cup {s.who}}
                 IN IF mine = {} THEN Nil ELSE CHOOSE s \in mine : TRUE
FaceMerge(seen, p) == IF seen = Nil THEN Nil ELSE Pending({s \in seen.merges : s.who = p}, p)
GroupOf(seen, p) == IF seen = Nil THEN Nil ELSE Pending(seen.groups, p)
Candidates(s) == IF s = Nil THEN <<>> ELSE SetToSeq(s.of \ {s.who})

(* Steps of the user that both clients take alike. *)
CloseSheet == ui.sheet.kind # "none" /\ OnlyAct(Closed(ui)) /\ UNCHANGED calls
NotNow(s) == /\ Act /\ Dismiss(s) /\ UNCHANGED <<client, db, calls>>
=============================================================================
