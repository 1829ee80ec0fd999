-------------------------------- MODULE People -------------------------------
(***************************************************************************)
(* The people of one account: the server, and either client in front of    *)
(* it.                                                                     *)
(***************************************************************************)
EXTENDS MobilePeople, WebPeople

(* The hub is open and its first requests are out. *)
Init ==
  /\ client \in {"mobile", "web"} /\ db \in Databases
  /\ dismissed = {} /\ acts = 0
  /\ ui = IF client = "mobile" THEN Asked(NoUi) ELSE NoUi
  /\ calls = Issued([c \in Slots |-> NoCall],
                    IF client = "mobile" THEN <<Window1(NoUi), Req(NoUi, "suggest", "hub")>>
                    ELSE <<Query(NoUi, "hub")>>)
Next == \/ MobileNext
        \/ WebNext
        \/ \E c \in Slots : Served(c) \/ Dropped(c)
        \/ Recluster
Spec == Init /\ [][Next]_vars

(* The requests, the server and the screens hold values of their kinds; a
   sheet is open only on the screen it belongs to. *)
PeopleTypeOK ==
  /\ db \in Database
  /\ \A c \in Slots : calls[c].op \in Reads \cup Writes \cup {"none"}
                      /\ calls[c].step \in {"idle", "sent", "back", "failed"}
  /\ ui.route.at \in {"hub", "person", "review"} /\ (At("person") <=> Self # Nil)
  /\ ui.sheet.kind \in CASE At("hub") -> {"none", "rename"}
                         [] At("person") -> {"none", "rename", "merge", "similar", "delete", "stepper"}
                         [] At("review") -> {"none", "preview", "picker", "stepper"}

HubWindow(c) == calls[c].op \in {"window", "windows"} /\ calls[c].from = "hub"
(* Once the hub's requests are answered its rows are those of the chip that
   is lit, however fast the chips were changed; and on mobile, where later
   pages are merged by id, nobody is listed twice. *)
WindowOfFilter ==
  /\ (ui.hub.rows # Nil /\ ~ui.hub.failed /\ \A c \in Slots : ~HubWindow(c)) => ui.hub.of = ui.hub.filter
  /\ (client = "mobile" /\ ui.hub.rows # Nil) =>
       \A i, j \in DOMAIN ui.hub.rows : ui.hub.rows[i].id = ui.hub.rows[j].id => i = j

Sent(r) == {[id |-> x, verdict |-> "accept"] : x \in r.of}
           \cup {[id |-> x, verdict |-> "reject"] : x \in r.no}
           \cup {[id |-> x, verdict |-> "defer"] : x \in r.unsure}
(* A finished review sends no verdict the user did not give; the mobile
   stepper sends all of them, the web stepper all but at most the last. *)
VerdictsKept ==
  \A c \in Slots : calls[c].from = "stepper" =>
    LET given == {g \in calls[c].given : g.verdict # "skip"} IN
    /\ Sent(calls[c]) \subseteq given
    /\ client = "mobile" => Sent(calls[c]) = given
    /\ client = "web" => Cardinality(given \ Sent(calls[c])) <= 1

(* What the web dialog says of itself: accepted faces are added, and merges
   apply, when the review is finished.  The last verdict does not: it is
   recorded after what is sent was read. *)
LastVerdictSent ==
  \A c \in Slots : calls[c].from = "stepper" =>
    Sent(calls[c]) = {g \in calls[c].given : g.verdict # "skip"}

Rejected(d, f, p) == \E v \in d.verdicts : v.face = f /\ v.who = p /\ v.kind = "rejected"
Absorber(p) == {calls[c].who : c \in {e \in Slots : calls[e].op = "merge" /\ p \in calls[e].of
                                                    /\ calls[e].step = "sent" /\ calls'[e].step = "back"}}
(* A face rejected for a person is never again offered to them, nor to the
   person they are merged into: the verdict lives until the person is
   deleted. *)
RejectionFollows ==
  [][\A f \in Faces, p \in People : Rejected(db, f, p) =>
       \A q \in (IF p \in db'.live THEN {p} ELSE Absorber(p)) :
         /\ Rejected(db', f, q)
         /\ \A s \in MergeSuggestions(db') : s.who = q => f \notin s.of]_vars
=============================================================================
