------------------------------ MODULE MCPeople -------------------------------
(***************************************************************************)
(* Five faces and three ids: two look-alike people with two new faces, one *)
(* of them already rejected for the unnamed, and a stray one; or one       *)
(* person and two clusters nobody is named for.                            *)
(***************************************************************************)
EXTENDS People

CONSTANTS p1, p2, p3, f1, f2, f3, f4, f5, ann, s1, s2, s3

(* Which slot holds a request means nothing. *)
MCSymmetry == Permutations(Slots)

MCIds == <<p1, p2, p3>>
Blank == [look |-> [f \in Faces |-> 1], home |-> [f \in Faces |-> Nil], live |-> {}, used |-> {},
          name |-> [p \in People |-> Nil], verdicts |-> {}]
MCDatabases ==
  { [Blank EXCEPT !.look = [f \in Faces |-> IF f = f5 THEN 2 ELSE 1], !.home[f1] = p1, !.home[f2] = p2,
                  !.live = {p1, p2}, !.used = {p1, p2}, !.name[p1] = ann,
                  !.verdicts = {[face |-> f3, who |-> p2, kind |-> "rejected", count |-> 1]}],
    [Blank EXCEPT !.look = f1 :> 1 @@ [f \in {f2, f3} |-> 2] @@ [f \in {f4, f5} |-> 3],
                  !.home[f1] = p1, !.live = {p1}, !.used = {p1}] }
=============================================================================
