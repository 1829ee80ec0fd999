---------------------------- MODULE PeopleServer -----------------------------
(***************************************************************************)
(* People on the server: faces, the person each belongs to, review         *)
(* verdicts, and the suggestions derived from them.  An embedding is a     *)
(* look: a face is close to a person who has a face of the same look.      *)
(***************************************************************************)
EXTENDS Naturals, FiniteSets, SequencesExt

CONSTANTS Nil,
          PeopleIds,   \* the ids a person can have, in order
          Faces,
          Names,
          PageSize

ASSUME IdsAssumption == PeopleIds \in Seq(Range(PeopleIds))
(* The rows of a table, and the size of a page the clients ask for. *)
ASSUME ListingAssumption == IsFiniteSet(Faces) /\ PageSize \in Nat \ {0}

People == {PeopleIds[i] : i \in DOMAIN PeopleIds}
Rank(p) == CHOOSE i \in DOMAIN PeopleIds : PeopleIds[i] = p

Verdicts == [face : Faces, who : People, kind : {"rejected", "deferred"}, count : 0..Cardinality(Faces)]
Database == [look : [Faces -> Nat], home : [Faces -> People \cup {Nil}], live : SUBSET People,
             used : SUBSET People, name : [People -> Names \cup {Nil}], verdicts : SUBSET Verdicts]

Members(d, p) == {f \in Faces : d.home[f] = p}
Unassigned(d) == Members(d, Nil)
FaceCount(d, p) == Cardinality(Members(d, p))
Close(d, f, p) == \E g \in Members(d, p) : d.look[g] = d.look[f]

(* ------------------------------- suggestions ---------------------------- *)

(* A rejection holds for good, a deferral until the person has grown. *)
Blocked(d, f, p) ==
  \E v \in d.verdicts : /\ v.face = f /\ v.who = p
                        /\ v.kind = "deferred" => FaceCount(d, p) <= v.count

(* The closest person a face may be offered to. *)
Best(d, f) ==
  LET near == {p \in d.live : Close(d, f, p) /\ ~Blocked(d, f, p)}
  IN IF near = {} THEN Nil ELSE CHOOSE p \in near : \A q \in near : Rank(p) <= Rank(q)

OfLook(d, fs) == {{g \in fs : d.look[g] = d.look[f]} : f \in fs}

(* Unassigned faces for an existing person, and those nobody claims. *)
MergeSuggestions(d) ==
  {[who |-> p, of |-> {f \in Unassigned(d) : Best(d, f) = p}] :
     p \in {Best(d, f) : f \in Unassigned(d)} \ {Nil}}
NewPeople(d) ==
  {[who |-> Nil, of |-> fs] :
     fs \in {g \in OfLook(d, {f \in Unassigned(d) : Best(d, f) = Nil}) : Cardinality(g) > 1}}

(* People chained by their looks; the named or the larger absorbs. *)
Linked(d, p, q) == \E f \in Members(d, p) : Close(d, f, q)
Component(d, p) ==
  {q \in d.live : \A S \in SUBSET d.live :
     (p \in S /\ \A r \in S, s \in d.live : Linked(d, r, s) => s \in S) => q \in S}
Bigger(d, p, q) ==
  LET n == FaceCount(d, p)
      m == FaceCount(d, q) IN n > m \/ (n = m /\ Rank(p) <= Rank(q))
Target(d, S) ==
  LET named == {p \in S : d.name[p] # Nil}
      best == IF named = {} THEN S ELSE named
  IN CHOOSE p \in best : \A q \in best : Bigger(d, p, q)
MergeGroups(d) ==
  {[who |-> Target(d, S), of |-> S] :
     S \in {g \in {Component(d, p) : p \in {q \in d.live : FaceCount(d, q) > 0}} : Cardinality(g) > 1}}

Suggest(d) == [fresh |-> NewPeople(d), merges |-> MergeSuggestions(d), groups |-> MergeGroups(d)]

(* --------------------------------- listing ------------------------------ *)

(* Named first, then by faces, then by id. *)
Before(d, p, q) ==
  IF (d.name[p] # Nil) # (d.name[q] # Nil) THEN d.name[p] # Nil
  ELSE p # q /\ Bigger(d, p, q)
Matches(d, p, filter) ==
  CASE filter = "all" -> TRUE
    [] filter = "named" -> d.name[p] # Nil
    [] filter = "unnamed" -> d.name[p] = Nil
Row(d, p) == [id |-> p, name |-> d.name[p]]
Ordered(d, S) ==
  [n \in 1..Cardinality(S) |-> Row(d, CHOOSE p \in S : Cardinality({q \in S : Before(d, q, p)}) = n - 1)]
PageOf(s, page) == SubSeq(s, (page - 1) * PageSize + 1,
                          IF page * PageSize < Len(s) THEN page * PageSize ELSE Len(s))
ListPage(d, filter, page) ==
  LET all == Ordered(d, {p \in d.live : Matches(d, p, filter)})
  IN [items |-> PageOf(all, page), total |-> Len(all)]
Similar(d, p, page) ==
  LET all == Ordered(d, {q \in d.live \ {p} : FaceCount(d, q) > 0})
  IN [items |-> PageOf(all, page), total |-> Len(all)]
NewPeoplePage(d, page) ==
  LET all == SetToSeq(NewPeople(d)) IN [items |-> PageOf(all, page), total |-> Len(all)]

(* --------------------------------- commands ----------------------------- *)

Assigned(d, fs, p) == [f \in Faces |-> IF f \in fs /\ d.home[f] = Nil THEN p ELSE d.home[f]]
Renamed(d, p, n) == [d EXCEPT !.name[p] = n]

(* A variant that leaves the verdicts on the sources. *)
MergedForgetting(d, S, t) ==
  [d EXCEPT !.home = [f \in Faces |-> IF d.home[f] \in S THEN t ELSE d.home[f]],
            !.live = @ \ S,
            !.verdicts = {v \in @ : v.who \notin S}]
(* The sources' faces and verdicts move to the target in one transaction. *)
Merged(d, S, t) ==
  [d EXCEPT !.home = [f \in Faces |-> IF d.home[f] \in S THEN t ELSE d.home[f]],
            !.live = @ \ S,
            !.verdicts = {[v EXCEPT !.who = IF @ \in S THEN t ELSE @] : v \in @}]
Deleted(d, p) ==
  [d EXCEPT !.home = [f \in Faces |-> IF @[f] = p THEN Nil ELSE @[f]],
            !.live = @ \ {p}, !.verdicts = {v \in @ : v.who # p}]
Unused(d) == People \ d.used
(* The person is created even when every face was taken meanwhile. *)
Created(d, fs) ==
  LET p == CHOOSE q \in Unused(d) : \A r \in Unused(d) : Rank(q) <= Rank(r)
  IN [d EXCEPT !.home = Assigned(d, fs, p), !.live = @ \cup {p}, !.used = @ \cup {p}]
Reviewed(d, p, yes, no, unsure) ==
  LET home == Assigned(d, yes, p)
      n == Cardinality({f \in Faces : home[f] = p})
      made(fs, kind) == {[face |-> f, who |-> p, kind |-> kind, count |-> n] : f \in fs}
  IN [d EXCEPT !.home = home,
               !.verdicts = @ \cup made(no, "rejected") \cup made(unsure, "deferred")]

(* The incremental clustering pass: close faces join, leftovers that are
   enough become people. *)
Clustered(d) ==
  LET near(f) == {p \in d.live : Close(d, f, p)}
      first(f) == CHOOSE p \in near(f) : \A q \in near(f) : Rank(p) <= Rank(q)
      rest == {f \in Unassigned(d) : near(f) = {}}
      new == SetToSeq({g \in OfLook(d, rest) : Cardinality(g) > 1})
      ids == SelectSeq(PeopleIds, LAMBDA p : p \in Unused(d))
      made == {i \in DOMAIN new : i <= Len(ids)}
      home(f) == IF d.home[f] # Nil THEN d.home[f]
                 ELSE IF f \notin rest THEN first(f)
                 ELSE IF \E i \in made : f \in new[i] THEN ids[CHOOSE i \in made : f \in new[i]]
                 ELSE Nil
      added == {p \in Unused(d) : \E i \in made : p = ids[i]}
  IN [d EXCEPT !.home = [f \in Faces |-> home(f)], !.live = @ \cup added, !.used = @ \cup added]
=============================================================================
