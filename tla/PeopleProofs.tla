----------------------------- MODULE PeopleProofs -----------------------------
(***************************************************************************)
(* What the people screens and their server keep, for any faces, people,   *)
(* names, databases and requests in flight: a rejected face stays rejected *)
(* through merges, a finished review sends what was answered, and the hub  *)
(* shows the filter that is lit once its requests are answered.            *)
(***************************************************************************)
EXTENDS People, FiniteSetTheorems, WellFoundedInduction, TLAPS

(* ------------------------------- the server ----------------------------- *)

(* A verdict is on a person there is. *)
DbSound(d) ==
  /\ DOMAIN d = {"look", "home", "live", "used", "name", "verdicts"}
  /\ d.live \subseteq People
  /\ \A v \in d.verdicts : DOMAIN v = {"face", "who", "kind", "count"} /\ v.who \in d.live

(* What a step of the server does to the rejections of the people it leaves. *)
Spares(d, e) == \A f, p : Rejected(d, f, p) /\ p \in e.live => Rejected(e, f, p)

(* A finite set as a sequence: each element once. *)
LEMMA SeqOfSet ==
  ASSUME NEW S, IsFiniteSet(S)
  PROVE  /\ SetToSeq(S) \in [1..Cardinality(S) -> S]
         /\ IsInjective(SetToSeq(S))
<1>1. PICK f \in Bijection(1..Cardinality(S), S) : TRUE
  BY FS_CardinalityType DEF ExistsBijection
<1>2. f \in [1..Cardinality(S) -> S] /\ IsInjective(f)
  BY <1>1 DEF Bijection, Injection
<1> QED
  BY <1>2, Zenon DEF SetToSeq

LEMMA FiniteImage ==
  ASSUME NEW f, IsFiniteSet(DOMAIN f)
  PROVE  IsFiniteSet({f[x] : x \in DOMAIN f})
<1> DEFINE T == {f[x] : x \in DOMAIN f}
           g == [x \in DOMAIN f |-> f[x]]
<1>1. g \in Surjection(DOMAIN f, T)
  BY DEF Surjection
<1> QED
  BY <1>1, FS_Surjection

LEMMA SeqCovers ==
  ASSUME NEW S, IsFiniteSet(S), NEW x \in S
  PROVE  \E i \in 1..Cardinality(S) : SetToSeq(S)[i] = x
<1> DEFINE c == Cardinality(S)
<1>0. PICK f : f = SetToSeq(S)
  OBVIOUS
<1>1. f \in [1..c -> S] /\ IsInjective(f) /\ c \in Nat
  BY <1>0, SeqOfSet, FS_CardinalityType
<1>2. IsFiniteSet(1..c) /\ Cardinality(1..c) = c
  <2>1. 1 \in Int /\ c \in Int /\ c - 1 + 1 = c
    BY <1>1
  <2>2. IsFiniteSet(1..c) /\ Cardinality(1..c) = IF 1 > c THEN 0 ELSE c - 1 + 1
    BY <2>1, FS_Interval
  <2> HIDE DEF c
  <2> QED
    BY <1>1, <2>2
<1>3. f \in Injection(1..c, S)
  BY <1>1 DEF Injection
<1>4. f \in Surjection(1..c, S)
  BY <1>2, <1>3, FS_Injection
<1> QED
  BY <1>0, <1>4 DEF Surjection

(* Of some people one comes first. *)
LEMMA FirstOf ==
  ASSUME NEW S \in SUBSET People, S # {}
  PROVE  \E p \in S : \A q \in S : Rank(p) <= Rank(q)
<1> DEFINE T == {Rank(q) : q \in S}
<1>1. \A q \in S : Rank(q) \in Nat
  <2> SUFFICES ASSUME NEW q \in S PROVE Rank(q) \in Nat
    OBVIOUS
  <2>1. PICK i \in DOMAIN PeopleIds : PeopleIds[i] = q
    BY DEF People
  <2>2. Rank(q) \in DOMAIN PeopleIds
    BY <2>1 DEF Rank
  <2> QED
    BY <2>2, IdsAssumption
<1>2. T \in SUBSET Nat /\ T # {}
  BY <1>1
<1>3. PICK n \in T : \A m \in T : ~(<<m, n>> \in OpToRel(<, Nat))
  BY <1>2, NatLessThanWellFounded, WFMin, Zenon
<1>4. \A m \in T : n <= m
  <2> SUFFICES ASSUME NEW m \in T PROVE n <= m
    OBVIOUS
  <2>1. m \in Nat /\ n \in Nat
    BY <1>2
  <2>2. ~(m < n)
    BY <1>3, <2>1, Zenon DEF OpToRel
  <2> QED
    BY <2>1, <2>2
<1>5. PICK p \in S : Rank(p) = n
  BY <1>3
<1> QED
  BY <1>4, <1>5

(* The person a face is offered to has no verdict that blocks it. *)
LEMMA BestIsFree ==
  ASSUME NEW d, d.live \subseteq People, NEW f, Best(d, f) # Nil
  PROVE  ~Blocked(d, f, Best(d, f))
<1> DEFINE near == {p \in d.live : Close(d, f, p) /\ ~Blocked(d, f, p)}
<1>1. near # {}
  BY DEF Best
<1>2. Best(d, f) = CHOOSE p \in near : \A q \in near : Rank(p) <= Rank(q)
  BY <1>1, Zenon DEF Best
<1>3. \E p \in near : \A q \in near : Rank(p) <= Rank(q)
  BY <1>1, FirstOf
<1> QED
  BY <1>2, <1>3

(* A rejected face is in no suggestion for the person. *)
LEMMA NotOffered ==
  ASSUME NEW d, DbSound(d), NEW f, NEW q, Rejected(d, f, q),
         NEW s \in MergeSuggestions(d), s.who = q
  PROVE  f \notin s.of
<1>1. PICK p \in {Best(d, g) : g \in Unassigned(d)} \ {Nil} :
        s = [who |-> p, of |-> {g \in Unassigned(d) : Best(d, g) = p}]
  BY Zenon DEF MergeSuggestions
<1>2. s.who = p /\ s.of = {g \in Unassigned(d) : Best(d, g) = p} /\ p # Nil
  BY <1>1
<1>3. Blocked(d, f, q)
  BY DEF Rejected, Blocked
<1>4. Best(d, f) # q
  BY <1>2, <1>3, BestIsFree DEF DbSound
<1> QED
  BY <1>2, <1>4

LEMMA RenamedSpares ==
  ASSUME NEW d, DbSound(d), NEW p, NEW n
  PROVE  DbSound(Renamed(d, p, n)) /\ Spares(d, Renamed(d, p, n))
BY DEF DbSound, Spares, Renamed, Rejected

LEMMA JoinedSpares ==
  ASSUME NEW d, DbSound(d), NEW home
  PROVE  DbSound([d EXCEPT !.home = home]) /\ Spares(d, [d EXCEPT !.home = home])
BY DEF DbSound, Spares, Rejected

LEMMA DeletedSpares ==
  ASSUME NEW d, DbSound(d), NEW p
  PROVE  DbSound(Deleted(d, p)) /\ Spares(d, Deleted(d, p))
<1>1. /\ DOMAIN Deleted(d, p) = DOMAIN d
      /\ Deleted(d, p).live = d.live \ {p}
      /\ Deleted(d, p).verdicts = {v \in d.verdicts : v.who # p}
  BY DEF Deleted, DbSound
<1>2. DbSound(Deleted(d, p))
  BY <1>1 DEF DbSound
<1>3. Spares(d, Deleted(d, p))
  BY <1>1 DEF Spares, Rejected
<1> QED
  BY <1>2, <1>3

LEMMA CreatedSpares ==
  ASSUME NEW d, DbSound(d), NEW fs, Unused(d) # {}
  PROVE  DbSound(Created(d, fs)) /\ Spares(d, Created(d, fs))
<1> DEFINE p == CHOOSE q \in Unused(d) : \A r \in Unused(d) : Rank(q) <= Rank(r)
<1>1. p \in People
  BY FirstOf DEF Unused
<1>2. /\ DOMAIN Created(d, fs) = DOMAIN d
      /\ Created(d, fs).live = d.live \cup {p}
      /\ Created(d, fs).verdicts = d.verdicts
  BY DEF Created, DbSound
<1> HIDE DEF p
<1>3. DbSound(Created(d, fs))
  BY <1>1, <1>2 DEF DbSound
<1>4. Spares(d, Created(d, fs))
  BY <1>2 DEF Spares, Rejected
<1> QED
  BY <1>3, <1>4

LEMMA ReviewedSpares ==
  ASSUME NEW d, DbSound(d), NEW p \in d.live, NEW yes, NEW no, NEW unsure
  PROVE  DbSound(Reviewed(d, p, yes, no, unsure)) /\ Spares(d, Reviewed(d, p, yes, no, unsure))
<1> DEFINE e == Reviewed(d, p, yes, no, unsure)
           n == Cardinality({f \in Faces : Assigned(d, yes, p)[f] = p})
           made(fs, kind) == {[face |-> f, who |-> p, kind |-> kind, count |-> n] : f \in fs}
<1>1. /\ DOMAIN e = DOMAIN d /\ e.live = d.live
      /\ e.verdicts = d.verdicts \cup made(no, "rejected") \cup made(unsure, "deferred")
  BY DEF Reviewed, DbSound
<1>2. \A fs, kind : \A v \in made(fs, kind) : DOMAIN v = {"face", "who", "kind", "count"} /\ v.who = p
  <2> SUFFICES ASSUME NEW fs, NEW kind, NEW v \in made(fs, kind)
               PROVE  DOMAIN v = {"face", "who", "kind", "count"} /\ v.who = p
    OBVIOUS
  <2>1. PICK f \in fs : v = [face |-> f, who |-> p, kind |-> kind, count |-> n]
    OBVIOUS
  <2> QED
    BY <2>1
<1> HIDE DEF e, made, n
<1>3. DbSound(e)
  BY <1>1, <1>2 DEF DbSound
<1>4. Spares(d, e)
  BY <1>1 DEF Spares, Rejected
<1> QED
  BY <1>3, <1>4 DEF e

LEMMA ClusteredSpares ==
  ASSUME NEW d, DbSound(d)
  PROVE  DbSound(Clustered(d)) /\ Spares(d, Clustered(d))
<1>1. /\ DOMAIN Clustered(d) = DOMAIN d
      /\ Clustered(d).verdicts = d.verdicts
      /\ \E added \in SUBSET Unused(d) : Clustered(d).live = d.live \cup added
  BY DEF Clustered, DbSound
<1>2. DbSound(Clustered(d))
  BY <1>1 DEF DbSound, Unused
<1>3. Spares(d, Clustered(d))
  BY <1>1 DEF Spares, Rejected
<1> QED
  BY <1>2, <1>3

(* A merge takes the verdicts on its sources to its target. *)
LEMMA MergedFollows ==
  ASSUME NEW d, DbSound(d), NEW S \in SUBSET d.live, NEW t \in d.live \ S
  PROVE  /\ DbSound(Merged(d, S, t)) /\ Spares(d, Merged(d, S, t))
         /\ Merged(d, S, t).live = d.live \ S
         /\ \A f : \A p \in S : Rejected(d, f, p) => Rejected(Merged(d, S, t), f, t)
<1> DEFINE e == Merged(d, S, t)
           moved(v) == [v EXCEPT !.who = IF @ \in S THEN t ELSE @]
<1>1. DOMAIN e = DOMAIN d /\ e.live = d.live \ S /\ e.verdicts = {moved(v) : v \in d.verdicts}
  BY DEF Merged, DbSound
<1>2. \A v \in d.verdicts : /\ DOMAIN moved(v) = DOMAIN v
                            /\ moved(v).face = v.face /\ moved(v).kind = v.kind
                            /\ moved(v).who = IF v.who \in S THEN t ELSE v.who
  BY DEF DbSound
<1> HIDE DEF e, moved
<1>3. DbSound(e)
  BY <1>1, <1>2 DEF DbSound
<1>4. Spares(d, e)
  BY <1>1, <1>2 DEF Spares, Rejected
<1>5. \A f : \A p \in S : Rejected(d, f, p) => Rejected(e, f, t)
  BY <1>1, <1>2 DEF Rejected
<1> QED
  BY <1>1, <1>3, <1>4, <1>5 DEF e

(* ------------------------------- the listing ---------------------------- *)

Earlier(S, R, p) == {q \in S : <<q, p>> \in R}

(* A finite set in a strict order: each place has its element. *)
LEMMA NthOf ==
  ASSUME NEW S, IsFiniteSet(S), NEW R,
         \A p \in S : <<p, p>> \notin R,
         \A p, q \in S : p # q => <<p, q>> \in R \/ <<q, p>> \in R,
         \A p, q, r \in S : <<p, q>> \in R /\ <<q, r>> \in R => <<p, r>> \in R
  PROVE  /\ Cardinality(S) \in Nat
         /\ \A n \in 1..Cardinality(S) : \E p \in S : Cardinality(Earlier(S, R, p)) = n - 1
<1> DEFINE c == Cardinality(S)
           place == [p \in S |-> Cardinality(Earlier(S, R, p)) + 1]
<1>1. c \in Nat
  BY FS_CardinalityType
<1>2. \A p \in S : IsFiniteSet(Earlier(S, R, p)) /\ Cardinality(Earlier(S, R, p)) \in Nat /\ Cardinality(Earlier(S, R, p)) < c
  <2> SUFFICES ASSUME NEW p \in S
               PROVE  IsFiniteSet(Earlier(S, R, p)) /\ Cardinality(Earlier(S, R, p)) \in Nat /\ Cardinality(Earlier(S, R, p)) < c
    OBVIOUS
  <2>1. Earlier(S, R, p) \subseteq S /\ Earlier(S, R, p) # S
    BY DEF Earlier
  <2>2. IsFiniteSet(Earlier(S, R, p)) /\ Cardinality(Earlier(S, R, p)) <= c /\ Cardinality(Earlier(S, R, p)) # c
    BY <2>1, FS_Subset
  <2>3. Cardinality(Earlier(S, R, p)) \in Nat
    BY <2>2, FS_CardinalityType
  <2> HIDE DEF c
  <2> QED
    BY <1>1, <2>2, <2>3
<1>3. \A p, q \in S : <<p, q>> \in R => Cardinality(Earlier(S, R, p)) # Cardinality(Earlier(S, R, q))
  <2> SUFFICES ASSUME NEW p \in S, NEW q \in S, <<p, q>> \in R
               PROVE  Cardinality(Earlier(S, R, p)) # Cardinality(Earlier(S, R, q))
    OBVIOUS
  <2>1. Earlier(S, R, p) \subseteq Earlier(S, R, q) /\ p \in Earlier(S, R, q) /\ p \notin Earlier(S, R, p)
    BY DEF Earlier
  <2> QED
    BY <1>2, <2>1, FS_Subset
<1>4. \A p \in S : place[p] \in 1..c
  <2> SUFFICES ASSUME NEW p \in S PROVE place[p] \in 1..c
    OBVIOUS
  <2>1. place[p] = Cardinality(Earlier(S, R, p)) + 1
    OBVIOUS
  <2> HIDE DEF place, c
  <2> QED
    BY <1>1, <1>2, <2>1
<1>5. \A p, q \in S : place[p] = place[q] => p = q
  <2> SUFFICES ASSUME NEW p \in S, NEW q \in S, place[p] = place[q] PROVE p = q
    OBVIOUS
  <2>1. Cardinality(Earlier(S, R, p)) = Cardinality(Earlier(S, R, q))
    BY <1>2
  <2> QED
    BY <1>3, <2>1
<1>6. place \in [S -> 1..c]
  <2> HIDE DEF c
  <2> QED
    BY <1>4
<1>7. place \in Injection(S, 1..c)
  <2> HIDE DEF place, c
  <2> QED
    BY <1>5, <1>6 DEF Injection, IsInjective
<1>8. IsFiniteSet(1..c) /\ Cardinality(1..c) = c
  <2>1. 1 \in Int /\ c \in Int /\ c - 1 + 1 = c
    BY <1>1
  <2>2. IsFiniteSet(1..c) /\ Cardinality(1..c) = IF 1 > c THEN 0 ELSE c - 1 + 1
    BY <2>1, FS_Interval
  <2> HIDE DEF c
  <2> QED
    BY <1>1, <2>2
<1>9. place \in Surjection(S, 1..c)
  <2> HIDE DEF place
  <2> QED
    BY <1>7, <1>8, FS_Injection
<1>10. \A n \in 1..c : \E p \in S : place[p] = n
  <2> HIDE DEF place, c
  <2> QED
    BY <1>9 DEF Surjection
<1>11. \A n \in 1..c : \E p \in S : Cardinality(Earlier(S, R, p)) = n - 1
  <2> SUFFICES ASSUME NEW n \in 1..c PROVE \E p \in S : Cardinality(Earlier(S, R, p)) = n - 1
    OBVIOUS
  <2>1. PICK p \in S : place[p] = n
    BY <1>10
  <2>2. Cardinality(Earlier(S, R, p)) + 1 = n /\ Cardinality(Earlier(S, R, p)) \in Nat
    BY <1>2, <2>1
  <2>3. Cardinality(Earlier(S, R, p)) = n - 1
    <3> HIDE DEF c
    <3> QED
      BY <1>1, <2>2
  <2> QED
    BY <2>3
<1> QED
  BY <1>1, <1>11

(* The places of a strict order name each element once. *)
Placing(S, R) == [n \in 1..Cardinality(S) |-> CHOOSE p \in S : Cardinality(Earlier(S, R, p)) = n - 1]
LEMMA PlacesOf ==
  ASSUME NEW S, IsFiniteSet(S), NEW R,
         \A p \in S : <<p, p>> \notin R,
         \A p, q \in S : p # q => <<p, q>> \in R \/ <<q, p>> \in R,
         \A p, q, r \in S : <<p, q>> \in R /\ <<q, r>> \in R => <<p, r>> \in R
  PROVE  Placing(S, R) \in [1..Cardinality(S) -> S] /\ IsInjective(Placing(S, R))
<1> DEFINE c == Cardinality(S)
<1>0. PICK at : at = Placing(S, R)
  OBVIOUS
<1>1. c \in Nat /\ \A n \in 1..c : \E p \in S : Cardinality(Earlier(S, R, p)) = n - 1
  BY NthOf
<1> HIDE DEF c
<1>2. \A n \in 1..c : at[n] \in S /\ Cardinality(Earlier(S, R, at[n])) = n - 1
  <2> SUFFICES ASSUME NEW n \in 1..c PROVE at[n] \in S /\ Cardinality(Earlier(S, R, at[n])) = n - 1
    OBVIOUS
  <2>1. at[n] = CHOOSE p \in S : Cardinality(Earlier(S, R, p)) = n - 1
    BY <1>0 DEF c, Placing
  <2> QED
    BY <1>1, <2>1
<1>3. at = [n \in 1..c |-> at[n]]
  BY <1>0 DEF c, Placing
<1>4. at \in [1..c -> S]
  BY <1>2, <1>3
<1>5. \A m, n \in 1..c : at[m] = at[n] => m = n
  <2> SUFFICES ASSUME NEW m \in 1..c, NEW n \in 1..c, at[m] = at[n] PROVE m = n
    OBVIOUS
  <2>1. m - 1 = n - 1
    BY <1>2
  <2> QED
    BY <1>1, <2>1
<1> QED
  BY <1>0, <1>4, <1>5 DEF c, IsInjective

LEMMA RankIs ==
  ASSUME NEW p \in People
  PROVE  Rank(p) \in DOMAIN PeopleIds /\ PeopleIds[Rank(p)] = p /\ Rank(p) \in Nat
<1>1. PICK i \in DOMAIN PeopleIds : PeopleIds[i] = p
  BY DEF People
<1>2. Rank(p) \in DOMAIN PeopleIds /\ PeopleIds[Rank(p)] = p
  BY <1>1 DEF Rank
<1> QED
  BY <1>2, IdsAssumption

LEMMA PeopleFinite == IsFiniteSet(People)
<1>1. Len(PeopleIds) \in Nat /\ DOMAIN PeopleIds = 1..Len(PeopleIds)
  BY IdsAssumption
<1>2. IsFiniteSet(DOMAIN PeopleIds)
  <2>1. 1 \in Int /\ Len(PeopleIds) \in Int
    BY <1>1
  <2> QED
    BY <1>1, <2>1, FS_Interval
<1> QED
  BY <1>2, FiniteImage DEF People

LEMMA FacesCounted ==
  ASSUME NEW d, NEW p
  PROVE  FaceCount(d, p) \in Nat
<1>1. IsFiniteSet(Members(d, p))
  BY ListingAssumption, FS_Subset DEF Members
<1> QED
  BY <1>1, FS_CardinalityType DEF FaceCount

(* Named first, then by faces, then by id: a strict order. *)
LEMMA BeforeOrders ==
  ASSUME NEW d, NEW S \in SUBSET People
  PROVE  /\ \A p \in S : ~Before(d, p, p)
         /\ \A p, q \in S : p # q => Before(d, p, q) \/ Before(d, q, p)
         /\ \A p, q, r \in S : Before(d, p, q) /\ Before(d, q, r) => Before(d, p, r)
<1> DEFINE named(p) == d.name[p] # Nil
<1>1. \A p \in S : Rank(p) \in Nat /\ FaceCount(d, p) \in Nat
  BY RankIs, FacesCounted
<1>2. \A p, q \in S : Rank(p) = Rank(q) => p = q
  BY RankIs
<1>3. \A p, q : Before(d, p, q) <=> \/ named(p) /\ ~named(q)
                                    \/ (named(p) <=> named(q)) /\ p # q /\ Bigger(d, p, q)
  BY DEF Before
<1>4. \A p, q : Bigger(d, p, q) <=> FaceCount(d, p) > FaceCount(d, q) \/ (FaceCount(d, p) = FaceCount(d, q) /\ Rank(p) <= Rank(q))
  BY DEF Bigger
<1> HIDE DEF named
<1>5. \A p \in S : ~Before(d, p, p)
  BY <1>3
<1>6. \A p, q \in S : p # q => Before(d, p, q) \/ Before(d, q, p)
  <2> SUFFICES ASSUME NEW p \in S, NEW q \in S, p # q PROVE Before(d, p, q) \/ Before(d, q, p)
    OBVIOUS
  <2>1. Bigger(d, p, q) \/ Bigger(d, q, p)
    BY <1>1, <1>4
  <2> QED
    BY <1>3, <2>1
<1>7. \A p, q, r \in S : Before(d, p, q) /\ Before(d, q, r) => Before(d, p, r)
  <2> SUFFICES ASSUME NEW p \in S, NEW q \in S, NEW r \in S, Before(d, p, q), Before(d, q, r) PROVE Before(d, p, r)
    OBVIOUS
  <2>1. Bigger(d, p, q) /\ Bigger(d, q, r) => Bigger(d, p, r)
    BY <1>1, <1>4
  <2>2. Bigger(d, p, q) /\ Bigger(d, q, p) => p = q
    BY <1>1, <1>2, <1>4
  <2> QED
    BY <1>3, <2>1, <2>2
<1> QED
  BY <1>5, <1>6, <1>7

(* Rows with an id, each id once. *)
RowsOk(rows) ==
  /\ rows \in Seq({rows[i] : i \in DOMAIN rows})
  /\ \A i \in DOMAIN rows : "id" \in DOMAIN rows[i]
  /\ \A i, j \in DOMAIN rows : rows[i].id = rows[j].id => i = j

LEMMA OrderedRows ==
  ASSUME NEW d, NEW S \in SUBSET People
  PROVE  RowsOk(Ordered(d, S)) /\ \E V : Ordered(d, S) \in Seq(V)
<1> DEFINE R == {pq \in S \X S : Before(d, pq[1], pq[2])}
           c == Cardinality(S)
           at == Placing(S, R)
<1>1. \A p, q \in S : <<p, q>> \in R <=> Before(d, p, q)
  OBVIOUS
<1>2. \A p \in S : Earlier(S, R, p) = {q \in S : Before(d, q, p)}
  BY <1>1 DEF Earlier
<1>3. IsFiniteSet(S) /\ c \in Nat
  BY PeopleFinite, FS_Subset, FS_CardinalityType
<1>4. at \in [1..c -> S] /\ IsInjective(at)
  <2>1. \A p \in S : <<p, p>> \notin R
    BY <1>1, BeforeOrders
  <2>2. \A p, q \in S : p # q => <<p, q>> \in R \/ <<q, p>> \in R
    BY <1>1, BeforeOrders
  <2>3. \A p, q, r \in S : <<p, q>> \in R /\ <<q, r>> \in R => <<p, r>> \in R
    <3>1. \A p, q, r \in S : Before(d, p, q) /\ Before(d, q, r) => Before(d, p, r)
      BY BeforeOrders
    <3> HIDE DEF R
    <3> QED
      BY <1>1, <3>1
  <2> HIDE DEF R
  <2> QED
    BY <1>3, <2>1, <2>2, <2>3, PlacesOf
<1>5. \A n \in 1..c : (CHOOSE p \in S : Cardinality({q \in S : Before(d, q, p)}) = n - 1) = at[n]
  <2> SUFFICES ASSUME NEW n \in 1..c
               PROVE  (CHOOSE p \in S : Cardinality({q \in S : Before(d, q, p)}) = n - 1) = at[n]
    OBVIOUS
  <2>1. \A p \in S : Cardinality({q \in S : Before(d, q, p)}) = n - 1 <=> Cardinality(Earlier(S, R, p)) = n - 1
    BY <1>2
  <2> HIDE DEF R
  <2>2. (CHOOSE p \in S : Cardinality({q \in S : Before(d, q, p)}) = n - 1)
        = (CHOOSE p \in S : Cardinality(Earlier(S, R, p)) = n - 1)
    BY <2>1
  <2> QED
    BY <2>2 DEF Placing
<1> HIDE DEF R
<1>6. PICK f : f = at
  OBVIOUS
<1>7. f \in [1..c -> S] /\ IsInjective(f)
  BY <1>4, <1>6
<1>8. Ordered(d, S) = [n \in 1..c |-> Row(d, f[n])]
  <2>1. Ordered(d, S) = [n \in 1..c |-> Row(d, CHOOSE p \in S : Cardinality({q \in S : Before(d, q, p)}) = n - 1)]
    BY DEF Ordered
  <2>2. \A n \in 1..c : Row(d, CHOOSE p \in S : Cardinality({q \in S : Before(d, q, p)}) = n - 1) = Row(d, f[n])
    BY <1>5, <1>6
  <2> HIDE DEF c
  <2> QED
    BY <2>1, <2>2
<1> HIDE DEF c, at
<1>9. PICK s : s = Ordered(d, S)
  OBVIOUS
<1>10. DOMAIN s = 1..c /\ \A n \in 1..c : s[n] = [id |-> f[n], name |-> d.name[f[n]]]
  BY <1>8, <1>9 DEF Row
<1>11. s = [n \in 1..c |-> s[n]]
  BY <1>8, <1>9
<1> DEFINE V == {s[i] : i \in DOMAIN s}
<1>12. s \in [1..c -> V]
  BY <1>10, <1>11
<1>13. s \in Seq(V)
  <2> HIDE DEF V
  <2> QED
    BY <1>3, <1>12
<1>14. \A i \in DOMAIN s : "id" \in DOMAIN s[i] /\ s[i].id = f[i]
  BY <1>10
<1>15. \A i, j \in DOMAIN s : s[i].id = s[j].id => i = j
  BY <1>7, <1>10, <1>14 DEF IsInjective
<1>16. RowsOk(s)
  BY <1>13, <1>14, <1>15 DEF RowsOk
<1> QED
  BY <1>9, <1>13, <1>16

(* A page holds entries of the listing, each at its place. *)
LEMMA PageRows ==
  ASSUME NEW s, RowsOk(s), NEW page \in Nat \ {0}
  PROVE  RowsOk(PageOf(s, page))
<1> DEFINE V == {s[i] : i \in DOMAIN s}
           m == (page - 1) * PageSize + 1
           n == IF page * PageSize < Len(s) THEN page * PageSize ELSE Len(s)
<1>1. s \in Seq(V)
  BY DEF RowsOk
<1>2. Len(s) \in Nat /\ DOMAIN s = 1..Len(s)
  <2> HIDE DEF V
  <2> QED
    BY <1>1
<1>3. PageSize \in Nat /\ page - 1 \in Nat
  BY ListingAssumption
<1>4. \A x, y \in Nat : x * y \in Nat
  OBVIOUS
<1>5. (page - 1) * PageSize \in Nat /\ page * PageSize \in Nat
  BY <1>3, <1>4
<1>6. m \in Nat \ {0} /\ n \in Nat /\ n <= Len(s)
  BY <1>2, <1>5
<1>7. PICK t : t = SubSeq(s, m, n)
  OBVIOUS
<1>8. PageOf(s, page) = t
  BY <1>7 DEF PageOf
<1> HIDE DEF m, n, V
<1>9. t \in Seq(V) /\ Len(t) \in Nat
  BY <1>1, <1>6, <1>7
<1>10. \A i \in DOMAIN t : m + i - 1 \in DOMAIN s /\ t[i] = s[m + i - 1]
  BY <1>1, <1>6, <1>7
<1>11. DOMAIN t = 1..Len(t)
  BY <1>9
<1>12. t \in Seq({t[i] : i \in DOMAIN t})
  BY <1>9, <1>11
<1>13. \A i \in DOMAIN t : "id" \in DOMAIN t[i]
  BY <1>10 DEF RowsOk
<1>14. \A i, j \in DOMAIN t : t[i].id = t[j].id => i = j
  <2> SUFFICES ASSUME NEW i \in DOMAIN t, NEW j \in DOMAIN t, t[i].id = t[j].id PROVE i = j
    OBVIOUS
  <2>1. m + i - 1 = m + j - 1
    BY <1>10 DEF RowsOk
  <2> QED
    BY <1>6, <1>9, <1>11, <2>1
<1>15. RowsOk(t)
  BY <1>12, <1>13, <1>14 DEF RowsOk
<1> QED
  BY <1>8, <1>15

LEMMA ListPageRows ==
  ASSUME NEW d, d.live \subseteq People, NEW filter, NEW page \in Nat \ {0}
  PROVE  RowsOk(ListPage(d, filter, page).items)
<1> DEFINE S == {p \in d.live : Matches(d, p, filter)}
<1>1. RowsOk(PageOf(Ordered(d, S), page))
  BY OrderedRows, PageRows
<1>2. ListPage(d, filter, page).items = PageOf(Ordered(d, S), page)
  BY DEF ListPage
<1> QED
  BY <1>1, <1>2

(* What a later page adds is on no row yet. *)
LEMMA FreshRows ==
  ASSUME NEW rows, RowsOk(rows), NEW items, RowsOk(items)
  PROVE  RowsOk(rows \o Fresh(rows, items))
<1> DEFINE new == {i \in DOMAIN items : \A j \in DOMAIN rows : rows[j].id # items[i].id}
           R == {ik \in new \X new : ik[1] < ik[2]}
           c == Cardinality(new)
           at == Placing(new, R)
           A == {rows[i] : i \in DOMAIN rows} \cup {items[i] : i \in DOMAIN items}
<1>1. /\ rows \in Seq(A) /\ items \in Seq(A)
      /\ Len(rows) \in Nat /\ DOMAIN rows = 1..Len(rows)
      /\ Len(items) \in Nat /\ DOMAIN items = 1..Len(items)
  BY DEF RowsOk
<1>2. IsFiniteSet(new) /\ c \in Nat
  <2>1. 1 \in Int /\ Len(items) \in Int
    BY <1>1
  <2>2. IsFiniteSet(1..Len(items))
    BY <2>1, FS_Interval
  <2> QED
    BY <1>1, <2>2, FS_Subset, FS_CardinalityType
<1>3. \A i, k \in new : <<i, k>> \in R <=> i < k
  OBVIOUS
<1>4. \A i \in new : Earlier(new, R, i) = {k \in new : k < i}
  BY <1>3 DEF Earlier
<1>5. new \subseteq Nat
  BY <1>1
<1>6. at \in [1..c -> new] /\ IsInjective(at)
  <2>1. /\ \A i \in new : <<i, i>> \notin R
        /\ \A i, k \in new : i # k => <<i, k>> \in R \/ <<k, i>> \in R
        /\ \A i, k, l \in new : <<i, k>> \in R /\ <<k, l>> \in R => <<i, l>> \in R
    <3> HIDE DEF R, new
    <3> QED
      BY <1>3, <1>5
  <2> HIDE DEF R, new
  <2> QED
    BY <1>2, <2>1, PlacesOf
<1>7. \A n \in 1..c : (CHOOSE i \in new : Cardinality({k \in new : k < i}) = n - 1) = at[n]
  <2> SUFFICES ASSUME NEW n \in 1..c
               PROVE  (CHOOSE i \in new : Cardinality({k \in new : k < i}) = n - 1) = at[n]
    OBVIOUS
  <2>1. \A i \in new : Cardinality({k \in new : k < i}) = n - 1 <=> Cardinality(Earlier(new, R, i)) = n - 1
    BY <1>4
  <2> HIDE DEF R, new
  <2>2. (CHOOSE i \in new : Cardinality({k \in new : k < i}) = n - 1)
        = (CHOOSE i \in new : Cardinality(Earlier(new, R, i)) = n - 1)
    BY <2>1
  <2> QED
    BY <2>2 DEF Placing
<1>8. PICK f : f = at
  OBVIOUS
<1>9. f \in [1..c -> new] /\ IsInjective(f)
  BY <1>6, <1>8
<1>10. \A i \in new : i \in DOMAIN items /\ \A j \in DOMAIN rows : rows[j].id # items[i].id
  OBVIOUS
<1>11. PICK g : g = Fresh(rows, items)
  OBVIOUS
<1>12. g = [n \in 1..c |-> items[f[n]]]
  <2>1. g = [n \in 1..c |-> items[CHOOSE i \in new : Cardinality({k \in new : k < i}) = n - 1]]
    BY <1>11 DEF Fresh
  <2>2. \A n \in 1..c : items[CHOOSE i \in new : Cardinality({k \in new : k < i}) = n - 1] = items[f[n]]
    BY <1>7, <1>8
  <2> HIDE DEF c, new
  <2> QED
    BY <2>1, <2>2
<1> HIDE DEF c, new, R, at
<1>13. \A n \in 1..c : f[n] \in 1..Len(items) /\ items[f[n]] \in A
  BY <1>1, <1>9, <1>10
<1> HIDE DEF A
<1>14. g \in [1..c -> A]
  BY <1>12, <1>13
<1>15. g \in Seq(A) /\ Len(g) = c /\ DOMAIN g = 1..c
  BY <1>2, <1>14
<1>16. PICK t : t = rows \o g
  OBVIOUS
<1>17. /\ t \in Seq(A) /\ DOMAIN t = 1..(Len(rows) + c)
       /\ \A i \in 1..Len(rows) : t[i] = rows[i]
       /\ \A i \in (Len(rows) + 1)..(Len(rows) + c) : i - Len(rows) \in 1..c /\ t[i] = g[i - Len(rows)]
  <2>1. t \in Seq(A) /\ Len(t) = Len(rows) + c
    BY <1>1, <1>2, <1>15, <1>16
  <2>2. DOMAIN t = 1..(Len(rows) + c)
    BY <2>1
  <2>3. \A i \in 1..Len(rows) : t[i] = rows[i]
    BY <1>1, <1>2, <1>15, <1>16
  <2>4. \A i \in (Len(rows) + 1)..(Len(rows) + c) : i - Len(rows) \in 1..c
    BY <1>1, <1>2
  <2>5. \A i \in (Len(rows) + 1)..(Len(rows) + c) : t[i] = g[i - Len(rows)]
    BY <1>1, <1>2, <1>15, <1>16
  <2> QED
    BY <2>1, <2>2, <2>3, <2>4, <2>5
<1>18. \A i \in DOMAIN t : i \in 1..Len(rows) \/ i \in (Len(rows) + 1)..(Len(rows) + c)
  BY <1>1, <1>2, <1>17
<1>19. \A n \in 1..c : g[n] = items[f[n]] /\ f[n] \in DOMAIN items /\ \A j \in DOMAIN rows : rows[j].id # g[n].id
  BY <1>9, <1>10, <1>12
<1>20. \A i \in DOMAIN t : "id" \in DOMAIN t[i]
  <2> SUFFICES ASSUME NEW i \in DOMAIN t PROVE "id" \in DOMAIN t[i]
    OBVIOUS
  <2>1. CASE i \in 1..Len(rows)
    BY <1>1, <1>17, <2>1 DEF RowsOk
  <2>2. CASE i \notin 1..Len(rows)
    <3>1. i - Len(rows) \in 1..c /\ t[i] = g[i - Len(rows)]
      BY <1>17, <1>18, <2>2
    <3>2. g[i - Len(rows)] = items[f[i - Len(rows)]] /\ f[i - Len(rows)] \in DOMAIN items
      BY <1>19, <3>1
    <3> QED
      BY <3>1, <3>2 DEF RowsOk
  <2> QED
    BY <2>1, <2>2
<1>21. \A m, n \in 1..c : g[m].id = g[n].id => m = n
  <2> SUFFICES ASSUME NEW m \in 1..c, NEW n \in 1..c, g[m].id = g[n].id PROVE m = n
    OBVIOUS
  <2>1. items[f[m]].id = items[f[n]].id /\ f[m] \in DOMAIN items /\ f[n] \in DOMAIN items
    BY <1>19
  <2>2. f[m] = f[n]
    BY <2>1 DEF RowsOk
  <2> QED
    BY <1>9, <2>2 DEF IsInjective
<1>22. \A i, j \in DOMAIN t : t[i].id = t[j].id => i = j
  <2> SUFFICES ASSUME NEW i \in DOMAIN t, NEW j \in DOMAIN t, t[i].id = t[j].id PROVE i = j
    OBVIOUS
  <2>1. CASE i \in 1..Len(rows) /\ j \in 1..Len(rows)
    BY <1>1, <1>17, <2>1 DEF RowsOk
  <2>2. CASE i \in 1..Len(rows) /\ j \notin 1..Len(rows)
    <3>1. j - Len(rows) \in 1..c /\ t[j] = g[j - Len(rows)] /\ t[i] = rows[i] /\ i \in DOMAIN rows
      BY <1>1, <1>17, <1>18, <2>2
    <3> QED
      BY <1>19, <3>1
  <2>3. CASE i \notin 1..Len(rows) /\ j \in 1..Len(rows)
    <3>1. i - Len(rows) \in 1..c /\ t[i] = g[i - Len(rows)] /\ t[j] = rows[j] /\ j \in DOMAIN rows
      BY <1>1, <1>17, <1>18, <2>3
    <3> QED
      BY <1>19, <3>1
  <2>4. CASE i \notin 1..Len(rows) /\ j \notin 1..Len(rows)
    <3>1. i - Len(rows) \in 1..c /\ j - Len(rows) \in 1..c /\ t[i] = g[i - Len(rows)] /\ t[j] = g[j - Len(rows)]
      BY <1>17, <1>18, <2>4
    <3>2. i - Len(rows) = j - Len(rows)
      BY <1>21, <3>1
    <3> QED
      BY <1>1, <1>2, <1>17, <3>2
  <2> QED
    BY <2>1, <2>2, <2>3, <2>4
<1>23. t \in Seq({t[i] : i \in DOMAIN t})
  <2>1. t \in Seq(A)
    BY <1>17
  <2> QED
    BY <2>1
<1>24. RowsOk(t)
  BY <1>20, <1>22, <1>23 DEF RowsOk
<1> QED
  BY <1>11, <1>16, <1>24

(* ------------------------------ the requests ---------------------------- *)

CallFields == {"op", "step", "from", "visit", "seq", "page", "filter", "who", "name", "of", "no", "unsure",
               "sugg", "given", "then", "ans"}
Meant(given) == {g \in given : g.verdict # "skip"}

(* A window of the hub; a request whose answer does not change its rows. *)
Wide(r) == r.op \in {"window", "windows"} /\ r.from = "hub"
Beside(r) == r.op \notin {"window", "windows"} \/ r.from \notin {"hub", "more"}

(* A request of a finished review says what the user said; on the web one
   verdict may be missing. *)
SaysAll(r) == Sent(r) = Meant(r.given)
SaysMost(r) == Sent(r) \subseteq Meant(r.given) /\ \E x : Meant(r.given) \subseteq Sent(r) \cup {x}
CallSound(w, r) ==
  /\ DOMAIN r = CallFields
  /\ r.from = "stepper" => (w = "mobile" => SaysAll(r)) /\ (w = "web" => SaysMost(r))
  /\ w = "web" /\ r.from = "hub" => Wide(r)
CallsSound(w, cs) == DOMAIN cs = Slots /\ \A c \in Slots : CallSound(w, cs[c])
Plain(r) == DOMAIN r = CallFields /\ r.from \notin {"stepper", "hub", "more"}

(* The windows of the hub stay: on mobile as they are, on the web as a
   request for the same filter. *)
Carried(r, t) ==
  /\ client = "mobile" => (t = r \/ (~Wide(r) /\ Beside(t)))
  /\ client = "web" => (Wide(r) /\ r.filter = ui.hub.filter => Wide(t) /\ t.filter = r.filter)
CallsNear(cs) == CallsSound(client, cs) /\ \A c \in Slots : Carried(calls[c], cs[c])
(* No filter waits for the answer of this request. *)
Spent(c) == ~Wide(calls[c]) \/ (client = "web" /\ calls[c].filter # ui.hub.filter)

LEMMA ReqPlain ==
  ASSUME NEW u, NEW op, NEW from, from \notin {"stepper", "hub", "more"}
  PROVE  Plain(Req(u, op, from))
BY DEF Plain, Req, NoCall, CallFields

LEMMA NoCallPlain == Plain(NoCall)
BY DEF Plain, NoCall, CallFields

LEMMA PlainSound ==
  ASSUME NEW w, NEW r, Plain(r)
  PROVE  CallSound(w, r) /\ Beside(r)
BY DEF Plain, CallSound, Beside

(* New requests go to idle slots, the others stay. *)
LEMMA IssuedSound ==
  ASSUME NEW w, NEW cs, CallsSound(w, cs), NEW reqs, \A i \in DOMAIN reqs : CallSound(w, reqs[i])
  PROVE  CallsSound(w, Issued(cs, reqs))
<1> DEFINE free == SetToSeq(Idle(cs))
           at(c) == IF \E i \in DOMAIN reqs \cap DOMAIN free : free[i] = c
                    THEN reqs[CHOOSE i \in DOMAIN reqs \cap DOMAIN free : free[i] = c] ELSE cs[c]
<1>1. Issued(cs, reqs) = [c \in Slots |-> at(c)]
  BY DEF Issued
<1> HIDE DEF free
<1>2. \A c \in Slots : CallSound(w, at(c))
  <2> SUFFICES ASSUME NEW c \in Slots PROVE CallSound(w, at(c))
    OBVIOUS
  <2>1. CASE \E i \in DOMAIN reqs \cap DOMAIN free : free[i] = c
    <3>1. (CHOOSE i \in DOMAIN reqs \cap DOMAIN free : free[i] = c) \in DOMAIN reqs
      BY <2>1
    <3> QED
      BY <2>1, <3>1
  <2>2. CASE ~ \E i \in DOMAIN reqs \cap DOMAIN free : free[i] = c
    BY <2>2 DEF CallsSound
  <2> QED
    BY <2>1, <2>2
<1> QED
  BY <1>1, <1>2 DEF CallsSound

(* A slot keeps its request or, being idle, takes a new one; and every new
   one finds a slot. *)
LEMMA IssuedCases ==
  ASSUME NEW cs, NEW reqs, NEW c \in Slots
  PROVE  \/ Issued(cs, reqs)[c] = cs[c]
         \/ cs[c].op = "none" /\ \E i \in DOMAIN reqs : Issued(cs, reqs)[c] = reqs[i]
<1> DEFINE free == SetToSeq(Idle(cs))
           I == {i \in DOMAIN reqs \cap DOMAIN free : free[i] = c}
<1>1. Issued(cs, reqs)[c] = IF I # {} THEN reqs[CHOOSE i \in DOMAIN reqs \cap DOMAIN free : free[i] = c] ELSE cs[c]
  BY DEF Issued
<1>2. free \in [1..Cardinality(Idle(cs)) -> Idle(cs)]
  BY SlotsAssumption, FS_Subset, SeqOfSet DEF Idle
<1> HIDE DEF free
<1>3. CASE I # {}
  <2>1. PICK i \in DOMAIN reqs \cap DOMAIN free : free[i] = c
    BY <1>3
  <2>2. c \in Idle(cs)
    BY <1>2, <2>1
  <2>3. (CHOOSE j \in DOMAIN reqs \cap DOMAIN free : free[j] = c) \in DOMAIN reqs
    BY <2>1
  <2> QED
    BY <1>1, <1>3, <2>2, <2>3 DEF Idle
<1>4. CASE I = {}
  BY <1>1, <1>4
<1> QED
  BY <1>3, <1>4

LEMMA IssuedPlaces ==
  ASSUME NEW cs, NEW reqs, NEW n \in Nat, DOMAIN reqs = 1..n, n <= Cardinality(Idle(cs)), NEW i \in 1..n
  PROVE  \E c \in Slots : Issued(cs, reqs)[c] = reqs[i]
<1> DEFINE free == SetToSeq(Idle(cs))
<1>1. IsFiniteSet(Idle(cs)) /\ Cardinality(Idle(cs)) \in Nat
  BY SlotsAssumption, FS_Subset, FS_CardinalityType DEF Idle
<1>2. free \in [1..Cardinality(Idle(cs)) -> Idle(cs)] /\ IsInjective(free)
  BY <1>1, SeqOfSet
<1>3. \A c \in Slots : Issued(cs, reqs)[c] =
        IF \E j \in DOMAIN reqs \cap DOMAIN free : free[j] = c
        THEN reqs[CHOOSE j \in DOMAIN reqs \cap DOMAIN free : free[j] = c] ELSE cs[c]
  BY DEF Issued
<1> HIDE DEF free
<1>4. i \in DOMAIN reqs \cap DOMAIN free /\ free[i] \in Slots
  BY <1>1, <1>2 DEF Idle
<1>5. \A j \in DOMAIN free : free[j] = free[i] => j = i
  BY <1>2, <1>4 DEF IsInjective
<1>6. (CHOOSE j \in DOMAIN reqs \cap DOMAIN free : free[j] = free[i]) = i
  BY <1>4, <1>5
<1>7. Issued(cs, reqs)[free[i]] = reqs[i]
  BY <1>3, <1>4, <1>6
<1> QED
  BY <1>4, <1>7

LEMMA IssuedNear ==
  ASSUME NEW cs, CallsNear(cs), NEW reqs, \A i \in DOMAIN reqs : CallSound(client, reqs[i]) /\ Beside(reqs[i])
  PROVE  CallsNear(Issued(cs, reqs))
<1>1. CallsSound(client, Issued(cs, reqs))
  BY IssuedSound DEF CallsNear
<1>2. ASSUME NEW c \in Slots PROVE Carried(calls[c], Issued(cs, reqs)[c])
  <2>1. Carried(calls[c], cs[c])
    BY DEF CallsNear
  <2>2. PICK t : t = Issued(cs, reqs)[c]
    OBVIOUS
  <2>3. t = cs[c] \/ (cs[c].op = "none" /\ Beside(t))
    BY <2>2, IssuedCases
  <2>4. cs[c].op = "none" => ~Wide(cs[c])
    BY DEF Wide
  <2>5. Carried(calls[c], t)
    BY <2>1, <2>3, <2>4 DEF Carried
  <2> QED
    BY <2>2, <2>5
<1> QED
  BY <1>1, <1>2 DEF CallsNear

LEMMA FreedSound ==
  ASSUME NEW w, CallsSound(w, calls), NEW c
  PROVE  CallsSound(w, Freed(c))
BY NoCallPlain, PlainSound DEF CallsSound, Freed

LEMMA FreedNear ==
  ASSUME CallsSound(client, calls), NEW c, Spent(c)
  PROVE  CallsNear(Freed(c))
<1>1. CallsSound(client, Freed(c))
  BY FreedSound
<1>2. ASSUME NEW e \in Slots PROVE Carried(calls[e], Freed(c)[e])
  <2>1. Freed(c)[e] = IF e = c THEN NoCall ELSE calls[e]
    BY DEF Freed, CallsSound
  <2>2. Beside(NoCall)
    BY NoCallPlain, PlainSound
  <2>3. e # c => Carried(calls[e], calls[e])
    BY DEF Carried
  <2>4. Carried(calls[c], NoCall)
    BY <2>2 DEF Carried, Spent
  <2> QED
    BY <2>1, <2>3, <2>4
<1> QED
  BY <1>1, <1>2 DEF CallsNear

LEMMA CallsNearSelf == ASSUME CallsSound(client, calls) PROVE CallsNear(calls)
BY DEF CallsNear, Carried

LEMMA IssueOne ==
  ASSUME CallsSound(client, calls), NEW r, CallSound(client, r), Beside(r), Issue(<<r>>)
  PROVE  CallsNear(calls')
<1>1. \A i \in DOMAIN <<r>> : CallSound(client, <<r>>[i]) /\ Beside(<<r>>[i])
  OBVIOUS
<1> QED
  BY <1>1, IssuedNear, CallsNearSelf DEF Issue

LEMMA FollowOne ==
  ASSUME CallsSound(client, calls), NEW c, Spent(c), NEW r, CallSound(client, r), Beside(r), Follow(c, <<r>>)
  PROVE  CallsNear(calls')
<1>1. \A i \in DOMAIN <<r>> : CallSound(client, <<r>>[i]) /\ Beside(<<r>>[i])
  OBVIOUS
<1> QED
  BY <1>1, IssuedNear, FreedNear DEF Follow

LEMMA FollowTwo ==
  ASSUME CallsSound(client, calls), NEW c, Spent(c), NEW r, CallSound(client, r), Beside(r),
         NEW s, CallSound(client, s), Beside(s), Follow(c, <<r, s>>)
  PROVE  CallsNear(calls')
<1>1. \A i \in DOMAIN <<r, s>> : CallSound(client, <<r, s>>[i]) /\ Beside(<<r, s>>[i])
  OBVIOUS
<1> QED
  BY <1>1, IssuedNear, FreedNear DEF Follow

LEMMA IssueTwo ==
  ASSUME CallsSound(client, calls), NEW r, CallSound(client, r), Beside(r),
         NEW s, CallSound(client, s), Beside(s), Issue(<<r, s>>)
  PROVE  CallsNear(calls')
<1>1. \A i \in DOMAIN <<r, s>> : CallSound(client, <<r, s>>[i]) /\ Beside(<<r, s>>[i])
  OBVIOUS
<1> QED
  BY <1>1, IssuedNear, CallsNearSelf DEF Issue

(* ------------------------------- the screens ---------------------------- *)

SheetFields == {"kind", "step", "yes", "no", "unsure", "given", "rows", "more", "next", "loading",
                "picked", "busy", "sugg", "photos", "term"}
Said(s) == {[id |-> x, verdict |-> "accept"] : x \in s.yes}
           \cup {[id |-> x, verdict |-> "reject"] : x \in s.no}
           \cup {[id |-> x, verdict |-> "defer"] : x \in s.unsure}
(* The three lists of a review are its verdicts. *)
SheetSound(s) == DOMAIN s = SheetFields /\ Said(s) = Meant(s.given)
RouteSound(r) == /\ DOMAIN r = {"at", "id", "visit", "under"}
                 /\ r.at \in {"hub", "person", "review"} /\ r.under \in {"hub", "review"}
HubFields == {"filter", "rows", "of", "next", "more", "loading", "seq", "failed", "error", "seen", "stale"}
UiSound(u) == /\ DOMAIN u = {"route", "hub", "person", "queue", "sheet"} /\ DOMAIN u.hub = HubFields
              /\ RouteSound(u.route) /\ SheetSound(u.sheet)

(* The same listing on the hub; one that waits for nothing. *)
SameHub(h, k) == /\ k.rows = h.rows /\ k.of = h.of /\ k.filter = h.filter
                 /\ k.next = h.next /\ k.seq = h.seq /\ k.failed = h.failed
Settles(h) == h.failed \/ h.of = h.filter
UiNear(u) == UiSound(u) /\ (SameHub(ui.hub, u.hub) \/ (client = "web" /\ Settles(u.hub)))

(* What every step of the clients keeps. *)
Sound == /\ client \in {"mobile", "web"}
         /\ DbSound(db) /\ CallsSound(client, calls) /\ UiSound(ui)
(* A step that leaves the hub's listing alone, and the requests it waits
   for. *)
Quiet == db' = db /\ client' = client /\ CallsNear(calls') /\ UiNear(ui')
Calm == db' = db /\ client' = client /\ CallsSound(client, calls') /\ UiSound(ui')

LEMMA NoSheetSound == SheetSound(NoSheet)
BY DEF SheetSound, NoSheet, SheetFields, Said, Meant

(* A sheet that changes nothing of its verdicts. *)
LEMMA SheetKept ==
  ASSUME NEW s, SheetSound(s), NEW t, DOMAIN t = SheetFields,
         t.yes = s.yes, t.no = s.no, t.unsure = s.unsure, t.given = s.given
  PROVE  SheetSound(t)
BY DEF SheetSound, Said

(* A sheet that opens is empty. *)
LEMMA OpenedSound ==
  ASSUME NEW kind, NEW x, NEW y
  PROVE  /\ SheetSound([NoSheet EXCEPT !.kind = kind])
         /\ SheetSound([NoSheet EXCEPT !.kind = kind, !.picked = x])
         /\ SheetSound([NoSheet EXCEPT !.kind = kind, !.term = x])
         /\ SheetSound([NoSheet EXCEPT !.kind = kind, !.term = x, !.sugg = y])
         /\ SheetSound([NoSheet EXCEPT !.kind = kind, !.rows = x, !.loading = y])
         /\ SheetSound([NoSheet EXCEPT !.kind = kind, !.sugg = x, !.photos = y])
         /\ SheetSound([NoSheet EXCEPT !.kind = kind, !.sugg = x])
BY NoSheetSound DEF SheetSound, SheetFields, Said

(* Paging, ticking and the like leave the verdicts alone. *)
LEMMA EditedSound ==
  ASSUME NEW s, SheetSound(s), NEW x, NEW y, NEW z
  PROVE  /\ SheetSound([s EXCEPT !.loading = x])
         /\ SheetSound([s EXCEPT !.picked = x])
         /\ SheetSound([s EXCEPT !.busy = x])
         /\ SheetSound([s EXCEPT !.kind = x])
         /\ SheetSound([s EXCEPT !.photos = x])
         /\ SheetSound([s EXCEPT !.step = x])
         /\ SheetSound([s EXCEPT !.kind = x, !.sugg = y])
         /\ SheetSound([[s EXCEPT !.term = x] EXCEPT !.rows = y])
         /\ SheetSound([s EXCEPT !.busy = x, !.picked = y, !.rows = z])
         /\ SheetSound([s EXCEPT !.loading = x, !.more = y])
         /\ SheetSound([s EXCEPT !.loading = x, !.rows = y, !.more = z])
         /\ \A m : SheetSound([s EXCEPT !.loading = x, !.rows = y, !.next = z, !.more = m])
BY DEF SheetSound, SheetFields, Said

LEMMA QuietCalm == ASSUME Quiet PROVE Calm
BY DEF Quiet, Calm, CallsNear, UiNear

LEMMA NearSelf == ASSUME Sound PROVE UiNear(ui) /\ CallsNear(calls)
BY CallsNearSelf DEF Sound, UiNear, SameHub

LEMMA NearLike ==
  ASSUME NEW u, UiNear(u), NEW v, UiSound(v), v.hub = u.hub \/ SameHub(u.hub, v.hub)
  PROVE  UiNear(v)
BY DEF UiNear, SameHub, Settles

(* So do steps that leave the sheet or change it so. *)
LEMMA UiSoundEdited ==
  ASSUME NEW u, UiSound(u), NEW x
  PROVE  /\ DOMAIN x = HubFields => UiSound([u EXCEPT !.hub = x])
         /\ UiSound([u EXCEPT !.hub.seen = x]) /\ SameHub(u.hub, [u EXCEPT !.hub.seen = x].hub)
         /\ UiSound([u EXCEPT !.hub.stale = x]) /\ SameHub(u.hub, [u EXCEPT !.hub.stale = x].hub)
         /\ UiSound([u EXCEPT !.person = x]) /\ [u EXCEPT !.person = x].hub = u.hub
         /\ UiSound([u EXCEPT !.queue = x]) /\ [u EXCEPT !.queue = x].hub = u.hub
         /\ SheetSound(x) => UiSound([u EXCEPT !.sheet = x]) /\ [u EXCEPT !.sheet = x].hub = u.hub
BY DEF UiSound, HubFields, SameHub

LEMMA UiEdited ==
  ASSUME NEW u, UiNear(u), NEW x
  PROVE  /\ UiNear([u EXCEPT !.hub.seen = x]) /\ UiNear([u EXCEPT !.hub.stale = x])
         /\ UiNear([u EXCEPT !.person = x]) /\ UiNear([u EXCEPT !.queue = x])
         /\ SheetSound(x) => UiNear([u EXCEPT !.sheet = x])
BY UiSoundEdited, NearLike DEF UiNear

LEMMA ClosedSound ==
  ASSUME NEW u, UiNear(u)
  PROVE  UiNear(Closed(u))
BY NoSheetSound, UiEdited DEF Closed

(* A verdict goes to its list. *)
LEMMA JudgedSound ==
  ASSUME NEW s, SheetSound(s), NEW id, NEW v \in {"accept", "reject", "defer", "skip"}
  PROVE  SheetSound(Judged(s, id, v))
<1> DEFINE t == Judged(s, id, v)
           g == [id |-> id, verdict |-> v]
<1>1. /\ DOMAIN t = SheetFields
      /\ t.yes = IF v = "accept" THEN s.yes \cup {id} ELSE s.yes
      /\ t.no = IF v = "reject" THEN s.no \cup {id} ELSE s.no
      /\ t.unsure = IF v = "defer" THEN s.unsure \cup {id} ELSE s.unsure
      /\ t.given = s.given \cup {g}
  BY DEF Judged, SheetSound, SheetFields
<1>2. Said(t) = IF v = "skip" THEN Said(s) ELSE Said(s) \cup {g}
  <2> HIDE DEF t
  <2> QED
    BY <1>1 DEF Said
<1>3. g.verdict = v
  OBVIOUS
<1>4. Meant(t.given) = IF v = "skip" THEN Meant(s.given) ELSE Meant(s.given) \cup {g}
  <2> HIDE DEF g, t
  <2> QED
    BY <1>1, <1>3 DEF Meant
<1> QED
  BY <1>1, <1>2, <1>4 DEF SheetSound

(* --------------------------- the mobile screens ------------------------- *)

LEMMA WindowSound ==
  ASSUME NEW u
  PROVE  /\ CallSound("mobile", Window1(u)) /\ CallSound("mobile", [Window1(u) EXCEPT !.then = TRUE])
         /\ CallSound("mobile", Req(u, "suggest", "hub")) /\ Beside(Req(u, "suggest", "hub"))
BY DEF Window1, Req, NoCall, CallFields, CallSound, Beside

(* The hub asks for its first page anew: the window it waits for is the
   newest. *)
Wanted(h, r) == /\ r.op = "window" /\ r.from = "hub" /\ r.step = "sent" /\ r.page = 1
                /\ r.seq = h.seq /\ r.filter = h.filter
AskedFrom(h, k) == /\ k.rows = h.rows /\ k.of = h.of /\ k.next = h.next /\ k.failed = h.failed
                   /\ k.seq = h.seq + 1
Asks == /\ Calm /\ AskedFrom(ui.hub, ui'.hub)
        /\ \A c \in Slots : calls'[c] = calls[c] \/ Beside(calls'[c]) \/ Wanted(ui'.hub, calls'[c])
        /\ \E c \in Slots : Wanted(ui'.hub, calls'[c])

LEMMA WindowWanted ==
  ASSUME NEW u, UiSound(u), NEW v, v.hub.filter = u.hub.filter, v.hub.seq = u.hub.seq + 1
  PROVE  Wanted(v.hub, Window1(u)) /\ Wanted(v.hub, [Window1(u) EXCEPT !.then = TRUE])
BY DEF Wanted, Window1, Req, NoCall

(* The requests of such a step, over what is in flight or over what is left
   of it. *)
LEMMA IssuedAsks ==
  ASSUME Sound, Mobile, NEW cs, CallsSound(client, cs), \A c \in Slots : cs[c] = calls[c] \/ Beside(cs[c]),
         NEW reqs, NEW n \in {1, 2}, DOMAIN reqs = 1..n, n <= Cardinality(Idle(cs)),
         NEW h, Wanted(h, reqs[1]), CallSound(client, reqs[1]),
         n = 2 => CallSound(client, reqs[2]) /\ Beside(reqs[2]),
         NEW ds, ds = Issued(cs, reqs)
  PROVE  /\ CallsSound(client, ds)
         /\ \A c \in Slots : ds[c] = calls[c] \/ Beside(ds[c]) \/ Wanted(h, ds[c])
         /\ \E c \in Slots : Wanted(h, ds[c])
<1>1. \A i \in DOMAIN reqs : i = 1 \/ (n = 2 /\ i = 2)
  OBVIOUS
<1>2. \A i \in DOMAIN reqs : CallSound(client, reqs[i]) /\ (Beside(reqs[i]) \/ Wanted(h, reqs[i]))
  BY <1>1
<1>3. CallsSound(client, ds)
  BY <1>2, IssuedSound
<1>4. \A c \in Slots : ds[c] = cs[c] \/ \E i \in DOMAIN reqs : ds[c] = reqs[i]
  BY IssuedCases
<1>5. \A c \in Slots : ds[c] = calls[c] \/ Beside(ds[c]) \/ Wanted(h, ds[c])
  BY <1>2, <1>4
<1>6. n \in Nat /\ 1 \in 1..n
  OBVIOUS
<1>7. \E c \in Slots : ds[c] = reqs[1]
  BY <1>6, IssuedPlaces
<1> QED
  BY <1>3, <1>5, <1>7

(* Another screen comes in front with no sheet, and what it asks for is no
   review. *)
LEMMA FocusSound ==
  ASSUME UiSound(ui), NEW u, UiSound(u), NEW at \in {"hub", "person", "review"}, NEW id
  PROVE  /\ UiSound(Routed(u, at, id)) /\ Routed(u, at, id).hub = u.hub
         /\ UiSound(Focused(u, at, id))
         /\ at # "hub" => Focused(u, at, id).hub = u.hub
         /\ at = "hub" => AskedFrom(u.hub, Focused(u, at, id).hub) /\ Focused(u, at, id).hub.filter = u.hub.filter
<1> DEFINE v == Routed(u, at, id)
           under == IF ui.route.at = "person" THEN u.route.under ELSE ui.route.at
<1>1. DOMAIN v = DOMAIN u /\ v.sheet = NoSheet /\ v.hub = u.hub
      /\ v.route = [at |-> at, id |-> id, visit |-> u.route.visit + 1, under |-> under]
  BY DEF Routed, UiSound
<1>2. under \in {"hub", "review"}
  BY DEF UiSound, RouteSound
<1>3. RouteSound(v.route)
  <2> HIDE DEF v, under
  <2> QED
    BY <1>1, <1>2 DEF RouteSound
<1>4. UiSound(v)
  BY <1>1, <1>3, NoSheetSound DEF UiSound
<1>5. Focused(u, at, id) = IF at = "hub" THEN [v EXCEPT !.hub.seq = v.hub.seq + 1] ELSE v
  BY DEF Focused, Asked
<1> HIDE DEF v
<1>6. UiSound([v EXCEPT !.hub.seq = v.hub.seq + 1]) /\ AskedFrom(v.hub, [v EXCEPT !.hub.seq = v.hub.seq + 1].hub)
      /\ [v EXCEPT !.hub.seq = v.hub.seq + 1].hub.filter = v.hub.filter
  BY <1>4 DEF UiSound, HubFields, AskedFrom
<1> QED
  BY <1>1, <1>4, <1>5, <1>6 DEF v

LEMMA ReloadPlain ==
  ASSUME NEW u
  PROVE  /\ Plain([Req(u, "detail", "person") EXCEPT !.who = u.route.id])
         /\ Plain(Req(u, "suggest", "person"))
BY ReqPlain DEF Plain, CallFields

LEMMA ReloadedPlain ==
  ASSUME NEW u, NEW w \in Waiters
  PROVE  \A i \in DOMAIN Reloaded(u, w) : Plain(Reloaded(u, w)[i])
<1>1. Reload(u)[1] = [Req(u, "detail", "person") EXCEPT !.who = u.route.id] /\ Reload(u)[2] = Req(u, "suggest", "person")
  BY DEF Reload
<1>2. \A i \in 1..2 : Plain(Reload(u)[i])
  BY <1>1, ReloadPlain
<1>3. \A i \in 1..2 : Plain([Reload(u)[i] EXCEPT !.from = w])
  BY <1>2 DEF Plain, CallFields, Waiters
<1> QED
  BY <1>3 DEF Reloaded

LEMMA FocusCallsTwo ==
  ASSUME NEW u, NEW at \in {"person", "review"}, NEW id
  PROVE  \E r, s : Plain(r) /\ Plain(s) /\ FocusCalls(u, at, id) = <<r, s>>
<1> DEFINE v == Routed(u, at, id)
<1> HIDE DEF v
<1>2. CASE at = "person"
  <2>1. FocusCalls(u, at, id) = <<[Req(v, "detail", "person") EXCEPT !.who = v.route.id], Req(v, "suggest", "person")>>
    BY <1>2 DEF FocusCalls, Reload, v
  <2> QED
    BY <2>1, ReloadPlain
<1>3. CASE at = "review"
  <2>1. FocusCalls(u, at, id) = <<[Req(v, "fresh", "queue") EXCEPT !.page = 1], Req(v, "suggest", "queue")>>
    BY <1>3 DEF FocusCalls, v
  <2>2. Plain([Req(v, "fresh", "queue") EXCEPT !.page = 1])
    BY ReqPlain DEF Plain, CallFields
  <2> QED
    BY <2>1, <2>2, ReqPlain
<1> QED
  BY <1>2, <1>3

(* The hub comes in front over these requests, or another screen. *)
LEMMA HubFocus ==
  ASSUME Sound, Mobile, UNCHANGED <<client, db>>, NEW id, ui' = Focused(ui, "hub", id),
         NEW cs, CallsSound(client, cs), \A c \in Slots : cs[c] = calls[c] \/ Beside(cs[c]),
         NEW reqs, reqs = FocusCalls(ui, "hub", id), Len(reqs) <= Cardinality(Idle(cs)), calls' = Issued(cs, reqs)
  PROVE  Asks
<1> DEFINE v == Routed(ui, "hub", id)
           r == Window1(v)
           s == Req(v, "suggest", "hub")
<1>1. UiSound(v) /\ v.hub = ui.hub /\ UiSound(ui') /\ AskedFrom(ui.hub, ui'.hub) /\ ui'.hub.filter = ui.hub.filter
  BY FocusSound DEF Sound
<1>2. reqs = <<r, s>>
  BY DEF FocusCalls
<1>3. CallSound(client, r) /\ CallSound(client, s) /\ Beside(s)
  BY WindowSound DEF Mobile
<1>4. Wanted(ui'.hub, r)
  BY <1>1, WindowWanted DEF AskedFrom
<1> HIDE DEF v, r, s
<1>5. DOMAIN reqs = 1..2 /\ Len(reqs) = 2 /\ reqs[1] = r /\ reqs[2] = s
  BY <1>2
<1>6. PICK ds : ds = calls'
  OBVIOUS
<1>7. PICK h : h = ui'.hub
  OBVIOUS
<1>8. /\ CallsSound(client, ds)
      /\ \A c \in Slots : ds[c] = calls[c] \/ Beside(ds[c]) \/ Wanted(h, ds[c])
      /\ \E c \in Slots : Wanted(h, ds[c])
  BY <1>3, <1>4, <1>5, <1>6, <1>7, IssuedAsks
<1> QED
  BY <1>1, <1>6, <1>7, <1>8 DEF Asks, Calm

LEMMA GoCalm ==
  ASSUME Sound, Mobile, NEW at \in {"hub", "person", "review"}, NEW id, MGo(at, id)
  PROVE  Quiet \/ Asks
<1>1. CASE at # "hub"
  <2>1. PICK r, s : Plain(r) /\ Plain(s) /\ FocusCalls(ui, at, id) = <<r, s>>
    BY <1>1, FocusCallsTwo
  <2>2. Issue(<<r, s>>)
    BY <2>1 DEF MGo
  <2>3. CallsNear(calls')
    BY <2>1, <2>2, IssueTwo, PlainSound DEF Sound
  <2>4. UiNear(ui')
    BY <1>1, FocusSound, NearSelf, NearLike DEF MGo, Only, Sound
  <2> QED
    BY <2>3, <2>4 DEF Quiet, MGo, Only
<1>2. CASE at = "hub"
  <2>1. PICK reqs : reqs = FocusCalls(ui, "hub", id)
    OBVIOUS
  <2>2. Len(reqs) <= Cardinality(Idle(calls)) /\ calls' = Issued(calls, reqs)
    BY <1>2, <2>1 DEF MGo, Issue
  <2>3. ui' = Focused(ui, "hub", id) /\ UNCHANGED <<client, db>>
    BY <1>2 DEF MGo, Only
  <2> QED
    BY <2>1, <2>2, <2>3, HubFocus DEF Sound
<1> QED
  BY <1>1, <1>2

LEMMA GoesCalm ==
  ASSUME Sound, Mobile, NEW c, Spent(c), NEW at \in {"hub", "person", "review"}, NEW id, MGoes(c, at, id)
  PROVE  (at # "hub" => Quiet) /\ (Quiet \/ Asks)
<1>1. CASE at # "hub"
  <2>1. PICK r, s : Plain(r) /\ Plain(s) /\ FocusCalls(ui, at, id) = <<r, s>>
    BY <1>1, FocusCallsTwo
  <2>2. Follow(c, <<r, s>>)
    BY <2>1 DEF MGoes
  <2>3. CallsNear(calls')
    BY <2>1, <2>2, FollowTwo, PlainSound DEF Sound
  <2>4. UiNear(ui')
    BY <1>1, FocusSound, NearSelf, NearLike DEF MGoes, Sound
  <2> QED
    BY <2>3, <2>4 DEF Quiet, MGoes
<1>2. CASE at = "hub"
  <2>1. PICK reqs : reqs = FocusCalls(ui, "hub", id)
    OBVIOUS
  <2>2. Len(reqs) <= Cardinality(Idle(Freed(c))) /\ calls' = Issued(Freed(c), reqs)
    BY <1>2, <2>1 DEF MGoes, Follow
  <2>3. ui' = Focused(ui, "hub", id) /\ UNCHANGED <<client, db>>
    BY <1>2 DEF MGoes
  <2>4. CallsSound(client, Freed(c))
    BY FreedSound DEF Sound
  <2>5. \A e \in Slots : Freed(c)[e] = calls[e] \/ Beside(Freed(c)[e])
    BY NoCallPlain, PlainSound DEF Freed, Sound, CallsSound
  <2> QED
    BY <1>2, <2>1, <2>2, <2>3, <2>4, <2>5, HubFocus
<1> QED
  BY <1>1, <1>2

LEMMA StayCalm ==
  ASSUME Sound, NEW c, Spent(c), NEW u, MStay(c, u), UiNear(u)
  PROVE  Quiet
BY FreedNear DEF Quiet, MStay, Sound

LEMMA StaySound ==
  ASSUME Sound, NEW c, NEW u, MStay(c, u), UiSound(u)
  PROVE  Calm
BY FreedSound DEF Calm, MStay, Sound

LEMMA ReloadsCalm ==
  ASSUME Sound, NEW c, Spent(c), NEW w \in Waiters, Follow(c, Reloaded(ui, w)), UNCHANGED <<client, db, ui, acts>>
  PROVE  Quiet
<1>1. \A i \in DOMAIN Reloaded(ui, w) : CallSound(client, Reloaded(ui, w)[i]) /\ Beside(Reloaded(ui, w)[i])
  BY ReloadedPlain, PlainSound
<1>2. CallsNear(calls')
  BY <1>1, FreedNear, IssuedNear DEF Follow, Sound
<1> QED
  BY <1>2, NearSelf DEF Quiet

LEMMA SettledNear ==
  ASSUME NEW u, UiNear(u), NEW w
  PROVE  UiNear(Settled(u, w))
<1> DEFINE v == [u EXCEPT !.person.busy = @ \ {"review"}]
           s == IF u.sheet.kind = "stepper" THEN NoSheet ELSE u.sheet
<1>1. UiNear(v) /\ v.sheet = u.sheet
  BY UiEdited DEF UiNear, UiSound
<1>2. SheetSound(s)
  BY NoSheetSound DEF UiNear, UiSound
<1>3. Settled(u, w) = [v EXCEPT !.sheet = s] \/ Settled(u, w) = [u EXCEPT !.person.busy = @ \ {"banner"}]
  BY <1>1 DEF Settled
<1>5. UiNear([u EXCEPT !.person.busy = @ \ {"banner"}])
  BY UiEdited
<1> HIDE DEF v, s
<1>4. UiNear([v EXCEPT !.sheet = s])
  BY <1>1, <1>2, UiEdited
<1> QED
  BY <1>3, <1>4, <1>5

LEMMA LoadOverNear ==
  ASSUME NEW u, UiNear(u), NEW c
  PROVE  UiNear(LoadOver(c, u))
BY SettledNear DEF LoadOver

(* The hub asks for its next page. *)
NextOf(h, r) == r.op = "window" /\ r.from = "more" /\ r.step = "sent" /\ r.page = h.next
Pages == /\ Calm /\ UiNear(ui')
         /\ \A c \in Slots : Carried(calls[c], calls'[c]) \/ (~Wide(calls[c]) /\ NextOf(ui.hub, calls'[c]))

LEMMA HubChanged ==
  ASSUME NEW u, UiSound(u), NEW x, NEW y
  PROVE  /\ UiSound([u EXCEPT !.hub.loading = x]) /\ SameHub(u.hub, [u EXCEPT !.hub.loading = x].hub)
         /\ UiSound([u EXCEPT !.hub.rows = x])
         /\ UiSound([u EXCEPT !.hub.failed = x])
         /\ UiSound(Asked(u)) /\ AskedFrom(u.hub, Asked(u).hub) /\ Asked(u).hub.filter = u.hub.filter
         /\ UiSound([u EXCEPT !.hub.filter = x])
         /\ [u EXCEPT !.hub.filter = x].hub.filter = x
         /\ AskedFrom([u EXCEPT !.hub.filter = x].hub, Asked(u).hub)
         /\ AskedFrom(u.hub, Asked([u EXCEPT !.hub.filter = x]).hub)
         /\ UiSound([u EXCEPT !.hub.error = x]) /\ SameHub(u.hub, [u EXCEPT !.hub.error = x].hub)
BY DEF UiSound, HubFields, Asked, AskedFrom, SameHub

(* The hub asks anew over what is in flight. *)
LEMMA AskedAnew ==
  ASSUME Sound, Mobile, NEW u, UiSound(u), AskedFrom(ui.hub, u.hub), ui' = u, UNCHANGED <<client, db>>,
         NEW r, Wanted(u.hub, r), CallSound(client, r),
         \/ Issue(<<r>>)
         \/ \E s : CallSound(client, s) /\ Beside(s) /\ Issue(<<r, s>>)
  PROVE  Asks
<1> DEFINE P(reqs, n) == /\ DOMAIN reqs = 1..n /\ Len(reqs) = n /\ reqs[1] = r /\ Issue(reqs)
                         /\ n = 2 => (CallSound(client, reqs[2]) /\ Beside(reqs[2]))
<1>1. PICK reqs, n : n \in {1, 2} /\ P(reqs, n)
  <2>1. CASE Issue(<<r>>)
    <3>1. P(<<r>>, 1)
      BY <2>1
    <3> HIDE DEF P
    <3> QED
      BY <3>1
  <2>2. CASE \E s : CallSound(client, s) /\ Beside(s) /\ Issue(<<r, s>>)
    <3>1. PICK s : CallSound(client, s) /\ Beside(s) /\ Issue(<<r, s>>)
      BY <2>2
    <3>2. P(<<r, s>>, 2)
      BY <3>1
    <3> HIDE DEF P
    <3> QED
      BY <3>2
  <2> QED
    BY <2>1, <2>2
<1>2. PICK ds, h : ds = calls' /\ h = u.hub
  OBVIOUS
<1>3. n <= Cardinality(Idle(calls)) /\ ds = Issued(calls, reqs)
  BY <1>1, <1>2 DEF Issue
<1>4. /\ CallsSound(client, ds)
      /\ \A c \in Slots : ds[c] = calls[c] \/ Beside(ds[c]) \/ Wanted(h, ds[c])
      /\ \E c \in Slots : Wanted(h, ds[c])
  <2>1. CallsSound(client, calls) /\ \A c \in Slots : calls[c] = calls[c] \/ Beside(calls[c])
    BY DEF Sound
  <2>2. Wanted(h, reqs[1]) /\ CallSound(client, reqs[1])
    BY <1>1, <1>2
  <2> QED
    BY <1>1, <1>3, <2>1, <2>2, IssuedAsks
<1> QED
  BY <1>2, <1>4 DEF Asks, Calm

LEMMA HubCalm ==
  ASSUME Sound, Mobile
  PROVE  /\ \A f : MSetFilter(f) => Asks
         /\ MRefresh => Asks
         /\ MRetry => Asks
         /\ MMore => Pages
         /\ \A p : MLongPress(p) => Quiet
         /\ \A n : MRename(n) => Quiet
         /\ \A p : MOpen(p) => Quiet \/ Asks
         /\ MOpenReview => Quiet \/ Asks
         /\ MLeave => Quiet \/ Asks
<1>0. UiNear(ui) /\ CallsNear(calls) /\ UiSound(ui) /\ client = "mobile"
  BY NearSelf DEF Sound, Mobile
<1>1. ASSUME NEW f, MSetFilter(f) PROVE Asks
  <2> DEFINE v == [ui EXCEPT !.hub.filter = f]
             u == Asked(v)
             r == Window1(v)
  <2>1. UiSound(v) /\ v.hub.filter = f /\ UiSound(u) /\ u.hub.filter = f
    <3>1. UiSound(v) /\ v.hub.filter = f
      BY <1>0, HubChanged
    <3> HIDE DEF v
    <3> QED
      BY <3>1, HubChanged
  <2>2. AskedFrom(ui.hub, u.hub)
    BY <1>0, HubChanged
  <2>3. v.hub.seq = ui.hub.seq
    BY <1>0 DEF UiSound, HubFields
  <2>4. ui' = u /\ Issue(<<r>>) /\ UNCHANGED <<client, db>>
    BY <1>1 DEF MSetFilter, Only
  <2> HIDE DEF u, v
  <2>5. CallSound(client, r)
    BY <1>0, WindowSound
  <2>6. Wanted(u.hub, r)
    BY <2>1, <2>2, <2>3, WindowWanted DEF AskedFrom
  <2> HIDE DEF r
  <2> QED
    BY <2>1, <2>2, <2>4, <2>5, <2>6, AskedAnew
<1>2. UiSound(Asked(ui)) /\ AskedFrom(ui.hub, Asked(ui).hub) /\ Asked(ui).hub.filter = ui.hub.filter
  BY <1>0, HubChanged
<1>3. Wanted(Asked(ui).hub, [Window1(ui) EXCEPT !.then = TRUE])
  BY <1>0, <1>2, WindowWanted DEF AskedFrom
<1>4. ASSUME MRefresh PROVE Asks
  <2>1. /\ ui' = Asked(ui) /\ UNCHANGED <<client, db>>
        /\ Issue(<<[Window1(ui) EXCEPT !.then = TRUE], Req(ui, "suggest", "hub")>>)
    BY <1>4 DEF MRefresh, Only
  <2>2. CallSound(client, [Window1(ui) EXCEPT !.then = TRUE])
        /\ CallSound(client, Req(ui, "suggest", "hub")) /\ Beside(Req(ui, "suggest", "hub"))
    BY <1>0, WindowSound
  <2> QED
    BY <1>2, <1>3, <2>1, <2>2, AskedAnew
<1>5. ASSUME MRetry PROVE Asks
  <2> DEFINE v == Asked(ui)
             u == [v EXCEPT !.hub.error = FALSE]
             r == [Window1(ui) EXCEPT !.then = TRUE]
  <2>1. ui' = u /\ UNCHANGED <<client, db>> /\ Issue(<<r>>)
    BY <1>5 DEF MRetry, Only
  <2>2. CallSound(client, r)
    BY <1>0, WindowSound
  <2>3. UiSound(u) /\ SameHub(v.hub, u.hub)
    <3> HIDE DEF v
    <3> QED
      BY <1>2, HubChanged DEF v
  <2>4. AskedFrom(ui.hub, u.hub) /\ u.hub.filter = v.hub.filter /\ u.hub.seq = v.hub.seq
    BY <1>2, <2>3 DEF SameHub, AskedFrom
  <2>5. Wanted(u.hub, r)
    BY <1>3, <2>4 DEF Wanted
  <2> HIDE DEF u, r
  <2> QED
    BY <2>1, <2>2, <2>3, <2>4, <2>5, AskedAnew
<1>6. ASSUME MMore PROVE Pages
  <2> DEFINE r == [Req(ui, "window", "more") EXCEPT !.seq = ui.hub.seq, !.page = ui.hub.next,
                                                    !.filter = ui.hub.filter]
  <2>1. CallSound(client, r) /\ NextOf(ui.hub, r)
    BY <1>0 DEF CallSound, NextOf, Req, NoCall, CallFields
  <2>2. Issue(<<r>>) /\ ui' = [ui EXCEPT !.hub.loading = TRUE] /\ UNCHANGED <<client, db>>
    BY <1>6 DEF MMore, Only
  <2> HIDE DEF r
  <2>3. PICK reqs : reqs = <<r>>
    OBVIOUS
  <2>4. \A i \in DOMAIN reqs : reqs[i] = r
    BY <2>3
  <2>5. PICK ds : ds = calls'
    OBVIOUS
  <2>6. ds = Issued(calls, reqs)
    BY <2>2, <2>3, <2>5 DEF Issue
  <2>7. CallsSound(client, ds)
    BY <2>1, <2>4, <2>6, IssuedSound DEF Sound
  <2>8. \A c \in Slots : Carried(calls[c], ds[c]) \/ (~Wide(calls[c]) /\ NextOf(ui.hub, ds[c]))
    <3> SUFFICES ASSUME NEW c \in Slots
                 PROVE  Carried(calls[c], ds[c]) \/ (~Wide(calls[c]) /\ NextOf(ui.hub, ds[c]))
      OBVIOUS
    <3>1. ds[c] = calls[c] \/ (calls[c].op = "none" /\ ds[c] = r)
      BY <2>4, <2>6, IssuedCases
    <3>2. ds[c] = calls[c] => Carried(calls[c], ds[c])
      BY DEF Carried
    <3>3. calls[c].op = "none" => ~Wide(calls[c])
      BY DEF Wide
    <3> QED
      BY <2>1, <3>1, <3>2, <3>3
  <2>9. UiNear(ui')
    BY <1>0, <2>2, HubChanged, NearLike
  <2> QED
    BY <2>2, <2>5, <2>7, <2>8, <2>9 DEF Pages, Calm, UiNear
<1>7. ASSUME NEW p, MLongPress(p) PROVE Quiet
  <2>1. UiNear(ui')
    BY <1>0, <1>7, OpenedSound, UiEdited DEF MLongPress, OnlyAct, Only
  <2> QED
    BY <1>0, <1>7, <2>1 DEF MLongPress, OnlyAct, Only, Quiet
<1>8. ASSUME NEW n, MRename(n) PROVE Quiet
  <2> DEFINE r == [Req(ui, "rename", "hub") EXCEPT !.who = CHOOSE q \in ui.sheet.picked : TRUE, !.name = n]
  <2>1. CallSound(client, r) /\ Beside(r)
    BY <1>0 DEF CallSound, Beside, Req, NoCall, CallFields
  <2>2. Issue(<<r>>) /\ ui' = Closed(ui) /\ UNCHANGED <<client, db>>
    BY <1>8 DEF MRename, OnlyAct, Only
  <2> HIDE DEF r
  <2>3. CallsNear(calls')
    BY <2>1, <2>2, IssueOne DEF Sound
  <2> QED
    BY <1>0, <2>2, <2>3, ClosedSound DEF Quiet
<1>9. ASSUME NEW p, MOpen(p) PROVE Quiet \/ Asks
  BY <1>9, GoCalm DEF MOpen
<1>10. ASSUME MOpenReview PROVE Quiet \/ Asks
  BY <1>10, GoCalm DEF MOpenReview
<1>11. ASSUME MLeave PROVE Quiet \/ Asks
  <2>1. (IF At("person") THEN ui.route.under ELSE "hub") \in {"hub", "person", "review"}
    BY DEF Sound, UiSound, RouteSound
  <2> QED
    BY <1>11, <2>1, GoCalm DEF MLeave
<1> QED
  BY <1>1, <1>4, <1>5, <1>6, <1>7, <1>8, <1>9, <1>10, <1>11

(* The windows, the later pages and the new names of the hub. *)
HubAnswer(c) == MWindowBack(c) \/ MMoreBack(c) \/ MRenamed(c)

LEMMA HubAnswersCalm ==
  ASSUME Sound, Mobile, NEW c
  PROVE  /\ HubAnswer(c) => Calm
         /\ MSuggested(c) => Quiet
<1> USE DEF Sound
<1>0. UiNear(ui) /\ CallsNear(calls)
  BY NearSelf
<1>1. ASSUME MWindowBack(c) PROVE Calm
  <2>1. DOMAIN MWindow(c) = HubFields /\ DOMAIN MWindowFailed(c) = HubFields
    BY DEF MWindow, MWindowFailed, UiSound
  <2>2. UiSound([ui EXCEPT !.hub = MWindow(c)]) /\ UiSound([ui EXCEPT !.hub = MWindowFailed(c)])
    BY <2>1, UiSoundEdited
  <2> QED
    BY <1>1, <2>2, StaySound DEF MWindowBack
<1>2. ASSUME MMoreBack(c) PROVE Calm
  <2>1. PICK x : MStay(c, [ui EXCEPT !.hub = x]) /\ DOMAIN x = HubFields
    <3>1. PICK a : a = calls[c].ans
      OBVIOUS
    <3> DEFINE hub == [ui.hub EXCEPT !.loading = FALSE]
               more == [hub EXCEPT !.next = @ + 1, !.more = Len(a.items) < a.total,
                           !.rows = IF @ = Nil THEN a.items ELSE @ \o Fresh(@, a.items)]
    <3>2. DOMAIN hub = HubFields
      BY DEF UiSound
    <3>3. DOMAIN more = HubFields
      <4> HIDE DEF hub
      <4> QED
        BY <3>2
    <3>4. \/ MStay(c, [ui EXCEPT !.hub = IF calls[c].seq # ui.hub.seq THEN hub ELSE more])
          \/ MStay(c, [ui EXCEPT !.hub = hub])
      BY <1>2, <3>1, Zenon DEF MMoreBack
    <3> HIDE DEF hub, more
    <3> QED
      BY <3>2, <3>3, <3>4
  <2> QED
    BY <2>1, UiSoundEdited, StaySound
<1>3. ASSUME MRenamed(c) PROVE Calm
  <2>1. PICK x : MStay(c, [ui EXCEPT !.hub.rows = x]) \/ MStay(c, ui)
    BY <1>3, Zenon DEF MRenamed
  <2>2. UiSound([ui EXCEPT !.hub.rows = x])
    BY HubChanged
  <2> QED
    BY <2>1, <2>2, StaySound
<1>4. ASSUME MSuggested(c) PROVE Quiet
  <2> DEFINE from == calls[c].from
             seen == IF calls[c].step = "failed" THEN ui
                     ELSE IF from = "hub" THEN [ui EXCEPT !.hub.seen = calls[c].ans]
                     ELSE IF Here(c) THEN [ui EXCEPT !.person.seen = calls[c].ans] ELSE ui
             sheet == IF seen.sheet.kind = "similar"
                      THEN [seen.sheet EXCEPT !.busy = FALSE, !.picked = {}, !.rows = Nil] ELSE seen.sheet
  <2>0. Spent(c)
    BY <1>4 DEF MSuggested, Spent, Wide
  <2>1. UiNear(seen)
    <3>1. UiNear([ui EXCEPT !.hub.seen = calls[c].ans])
      BY <1>0, UiEdited
    <3>2. UiNear([ui EXCEPT !.person.seen = calls[c].ans])
      BY <1>0, UiEdited
    <3> QED
      BY <1>0, <3>1, <3>2
  <2>2. UiNear(LoadOver(c, seen))
    <3> HIDE DEF seen
    <3> QED
      BY <2>1, LoadOverNear
  <2>3. UiNear([seen EXCEPT !.sheet = sheet])
    <3> HIDE DEF seen
    <3>1. SheetSound(sheet)
      BY <2>1, EditedSound DEF UiNear, UiSound
    <3> HIDE DEF sheet
    <3> QED
      BY <2>1, <3>1, UiEdited
  <2>4. CASE MStay(c, LoadOver(c, seen))
    <3> HIDE DEF seen
    <3> QED
      BY <2>0, <2>2, <2>4, StayCalm
  <2>5. CASE MStay(c, ui)
    BY <1>0, <2>0, <2>5, StayCalm
  <2>6. CASE /\ ui' = [seen EXCEPT !.sheet = sheet]
             /\ Follow(c, <<[Req(ui, "similar", "ranked") EXCEPT !.who = Self, !.page = 1]>>)
             /\ UNCHANGED <<client, db, acts>>
    <3>1. Plain([Req(ui, "similar", "ranked") EXCEPT !.who = Self, !.page = 1])
      BY ReqPlain DEF Plain, CallFields
    <3>2. CallsNear(calls')
      BY <2>0, <2>6, <3>1, FollowOne, PlainSound
    <3> HIDE DEF seen, sheet
    <3> QED
      BY <2>3, <2>6, <3>2 DEF Quiet
  <2> QED
    BY <1>4, <2>4, <2>5, <2>6 DEF MSuggested
<1> QED
  BY <1>1, <1>2, <1>3, <1>4 DEF HubAnswer

LEMMA BackSpent ==
  ASSUME NEW c, NEW op, NEW from, Back(c, op, from) \/ Failed(c, op, from),
         op \notin {"window", "windows"} \/ from # "hub"
  PROVE  Spent(c)
BY DEF Back, Failed, Spent, Wide

LEMMA PersonCalm ==
  ASSUME Sound, Mobile
  PROVE  /\ MStartRename => Quiet
         /\ \A n : MSaveName(n) => Quiet
         /\ \A s : MAccept(s) => Quiet
         /\ \A s : MNotNow(s) => Quiet
         /\ \A s : MReview(s) => Quiet
         /\ \A v \in {"accept", "reject", "defer", "skip"} : MVerdict(v) => Quiet
<1> USE DEF Sound
<1>0. UiNear(ui) /\ CallsNear(calls)
  BY NearSelf
<1> USE <1>0
<1>1. ASSUME MStartRename PROVE Quiet
  BY <1>1, OpenedSound, UiEdited DEF MStartRename, OnlyAct, Only, Quiet
<1>2. ASSUME NEW n, MSaveName(n) PROVE Quiet
  <2> DEFINE r == [Req(ui, "rename", "person") EXCEPT !.who = Self, !.name = n]
  <2>1. Plain(r)
    BY ReqPlain DEF Plain, CallFields
  <2>2. Issue(<<r>>)
    BY <1>2 DEF MSaveName
  <2> HIDE DEF r
  <2> QED
    BY <1>2, <2>1, <2>2, IssueOne, PlainSound, ClosedSound DEF MSaveName, OnlyAct, Only, Quiet
<1>3. ASSUME NEW s, MAccept(s) PROVE Quiet
  <2> DEFINE q == [Req(ui, "join", "banner") EXCEPT !.who = Self, !.of = s.of]
             r == [Req(ui, "merge", "banner") EXCEPT !.who = Self, !.of = s.of \ {Self}]
             t == [Req(ui, "merge", "into") EXCEPT !.who = s.who, !.of = {Self}]
  <2>1. Plain(q) /\ Plain(r) /\ Plain(t)
    BY ReqPlain DEF Plain, CallFields
  <2>2. Issue(<<q>>) \/ Issue(<<r>>) \/ Issue(<<t>>)
    BY <1>3 DEF MAccept
  <2> HIDE DEF q, r, t
  <2>3. CallsNear(calls')
    BY <2>1, <2>2, IssueOne, PlainSound
  <2>4. UiNear(ui')
    BY <1>3, UiEdited DEF MAccept, Only, MBusy
  <2> QED
    BY <1>3, <2>3, <2>4 DEF MAccept, Only, Quiet
<1>4. ASSUME NEW s, MNotNow(s) PROVE Quiet
  BY <1>4 DEF MNotNow, NotNow, Quiet
<1>5. ASSUME NEW s, MReview(s) PROVE Quiet
  <2>1. PICK x : ui' = [ui EXCEPT !.sheet = [NoSheet EXCEPT !.kind = "stepper", !.term = x]]
    BY <1>5 DEF MReview, OnlyAct, Only
  <2>2. UiNear(ui')
    BY <2>1, OpenedSound, UiEdited
  <2> QED
    BY <1>5, <2>2 DEF MReview, OnlyAct, Only, Quiet
<1>6. ASSUME NEW v \in {"accept", "reject", "defer", "skip"}, MVerdict(v) PROVE Quiet
  <2> DEFINE id == StepItems[ui.sheet.step]
             done == Judged(ui.sheet, id, v)
             s == StepSuggestion
             r == [Req(ui, IF ui.sheet.term = "faces" THEN "review" ELSE "merge", "stepper")
                    EXCEPT !.who = s.who, !.of = done.yes, !.no = done.no, !.unsure = done.unsure,
                           !.sugg = s, !.given = done.given]
  <2>1. SheetSound(done)
    BY JudgedSound DEF UiNear, UiSound
  <2>2. CASE ui' = [ui EXCEPT !.sheet = [done EXCEPT !.step = ui.sheet.step + 1]] /\ UNCHANGED <<client, db, calls>>
    <3> HIDE DEF done
    <3> QED
      BY <2>1, <2>2, EditedSound, UiEdited DEF Quiet
  <2>3. CASE NotNow(s) /\ ui' = Closed(ui)
    BY <2>3, ClosedSound DEF NotNow, Quiet
  <2>4. CASE /\ \/ ui' = [[ui EXCEPT !.sheet = done] EXCEPT !.queue.review = TRUE]
                \/ ui' = MBusy([ui EXCEPT !.sheet = done], "review")
             /\ Issue(<<r>>) /\ UNCHANGED <<client, db>>
    <3>1. UiNear(ui')
      <4> DEFINE u == [ui EXCEPT !.sheet = done]
      <4> HIDE DEF done, r
      <4>1. UiNear(u)
        BY <2>1, UiEdited
      <4>2. ui' = [u EXCEPT !.queue.review = TRUE] \/ ui' = MBusy(u, "review")
        BY <2>4
      <4> HIDE DEF u
      <4>3. (\E x : ui' = [u EXCEPT !.queue = x]) \/ (\E x : ui' = [u EXCEPT !.person = x])
        BY <4>2 DEF MBusy
      <4>4. \A x : UiNear([u EXCEPT !.queue = x]) /\ UiNear([u EXCEPT !.person = x])
        BY <4>1, UiEdited
      <4> QED
        BY <4>3, <4>4, Zenon
    <3>2. DOMAIN r = CallFields /\ r.of = done.yes /\ r.no = done.no /\ r.unsure = done.unsure /\ r.given = done.given
      <4> HIDE DEF done, s
      <4> QED
        BY DEF Req, NoCall, CallFields
    <3>3. CallSound(client, r)
      <4> HIDE DEF done, r
      <4>1. Sent(r) = Meant(r.given)
        BY <2>1, <3>2 DEF SheetSound, Sent, Said
      <4> QED
        BY <3>2, <4>1 DEF CallSound, SaysAll, SaysMost, Mobile
    <3>5. Beside(r)
      <4> HIDE DEF done, s
      <4> QED
        BY DEF Beside, Req, NoCall
    <3> HIDE DEF r
    <3>4. CallsNear(calls')
      BY <2>4, <3>3, <3>5, IssueOne
    <3> QED
      BY <2>4, <3>1, <3>4 DEF Quiet
  <2> QED
    BY <1>6, <2>2, <2>3, <2>4 DEF MVerdict, MFinish, MVerdicts, OnlyAct, Only
<1> QED
  BY <1>1, <1>2, <1>3, <1>4, <1>5, <1>6

LEMMA PersonAnswersCalm ==
  ASSUME Sound, Mobile, NEW c
  PROVE  /\ MDetail(c) => Quiet
         /\ MSavedName(c) => Quiet
         /\ MAccepted(c) => Quiet
         /\ MJudged(c) => Quiet
         /\ MGone(c) => Quiet \/ Asks
<1> USE DEF Sound
<1>0. UiNear(ui) /\ CallsNear(calls)
  BY NearSelf
<1> USE <1>0
<1>1. ASSUME MDetail(c) PROVE Quiet
  <2>0. Spent(c)
    BY <1>1 DEF MDetail, Spent, Wide
  <2> DEFINE r == IF ~Here(c) THEN ui
                  ELSE [ui EXCEPT !.person.row = IF calls[c].step = "back" THEN calls[c].ans ELSE Nil]
             u == LoadOver(c, r)
             v == [u EXCEPT !.person.prompt = FALSE, !.sheet = [NoSheet EXCEPT !.kind = "rename"]]
  <2>1. UiNear(r)
    BY UiEdited
  <2>2. UiNear(u)
    <3> HIDE DEF r
    <3> QED
      BY <2>1, LoadOverNear
  <2>3. UiNear(v)
    <3> HIDE DEF u
    <3> DEFINE w == [u EXCEPT !.person.prompt = FALSE]
               x == [NoSheet EXCEPT !.kind = "rename"]
    <3>1. UiNear(w) /\ SheetSound(x)
      BY <2>2, UiEdited, OpenedSound
    <3> HIDE DEF w, x
    <3>2. UiNear([w EXCEPT !.sheet = x])
      BY <3>1, UiEdited
    <3> QED
      BY <3>2 DEF w, x
  <2>4. MStay(c, v) \/ MStay(c, u)
    BY <1>1 DEF MDetail
  <2> HIDE DEF u, v
  <2> QED
    BY <2>0, <2>2, <2>3, <2>4, StayCalm
<1>2. ASSUME MSavedName(c) PROVE Quiet
  <2>0. Spent(c)
    BY <1>2, BackSpent DEF MSavedName
  <2>1. \A x : UiNear([ui EXCEPT !.person.row = x])
    BY UiEdited
  <2> QED
    BY <1>2, <2>0, <2>1, StayCalm DEF MSavedName
<1>3. ASSUME MAccepted(c) PROVE Quiet
  <2>0. Spent(c)
    BY <1>3, BackSpent DEF MAccepted
  <2>1. UiNear([ui EXCEPT !.person.busy = @ \ {"banner"}])
    BY UiEdited
  <2> QED
    BY <1>3, <2>0, <2>1, StayCalm, GoesCalm, ReloadsCalm DEF MAccepted, Waiters
<1>4. ASSUME MJudged(c) PROVE Quiet
  <2>0. Spent(c)
    BY <1>4, BackSpent DEF MJudged
  <2> DEFINE closed == IF ~Here(c) THEN ui
                       ELSE [ui EXCEPT !.sheet = IF @.kind = "stepper" THEN NoSheet ELSE @,
                                       !.queue.review = FALSE, !.person.busy = @ \ {"review"}]
             s == calls[c].sugg
             groups == [closed EXCEPT !.queue.groups = IF @ = Nil THEN @ ELSE {g \in @ : Key(g) # Key(s)}]
  <2>1. UiNear(closed)
    <3> DEFINE x == IF ui.sheet.kind = "stepper" THEN NoSheet ELSE ui.sheet
               y == ui.person.busy \ {"review"}
               t == [ui EXCEPT !.sheet = x]
    <3>1. SheetSound(x)
      BY NoSheetSound DEF UiSound
    <3>2. closed = IF Here(c) THEN [[t EXCEPT !.queue.review = FALSE] EXCEPT !.person.busy = y] ELSE ui
      BY DEF UiSound
    <3> HIDE DEF x, y
    <3>3. UiNear(t)
      BY <3>1, UiEdited
    <3> HIDE DEF t
    <3>4. UiNear([t EXCEPT !.queue.review = FALSE])
      BY <3>3, UiEdited
    <3>5. UiNear([[t EXCEPT !.queue.review = FALSE] EXCEPT !.person.busy = y])
      BY <3>4, UiEdited
    <3> HIDE DEF closed
    <3> QED
      BY <3>2, <3>5
  <2>2. UiNear(groups)
    <3> HIDE DEF closed
    <3> QED
      BY <2>1, UiEdited
  <2>3. \/ Follow(c, Reloaded(ui, "judged")) /\ UNCHANGED <<client, db, ui, acts>>
        \/ MStay(c, ui)
        \/ MStay(c, groups)
        \/ MStay(c, closed)
    <3> HIDE DEF closed
    <3> QED
      BY <1>4 DEF MJudged, closed
  <2> HIDE DEF closed, groups
  <2> QED
    BY <2>0, <2>1, <2>2, <2>3, StayCalm, ReloadsCalm DEF Waiters
<1>5. ASSUME MGone(c) PROVE Quiet \/ Asks
  <2>0. Spent(c)
    BY <1>5, BackSpent DEF MGone
  <2>1. (IF At("person") THEN ui.route.under ELSE "hub") \in {"hub", "person", "review"}
    BY DEF UiNear, UiSound, RouteSound
  <2>2. UiNear([ui EXCEPT !.sheet.busy = FALSE])
    BY EditedSound, UiEdited DEF UiNear, UiSound
  <2>3. CASE Follow(c, <<Req(ui, "suggest", "similar")>>) /\ UNCHANGED <<client, db, ui, acts>>
    <3>1. CallsNear(calls')
      BY <2>0, <2>3, ReqPlain, FollowOne, PlainSound
    <3> QED
      BY <2>3, <3>1 DEF Quiet
  <2> QED
    BY <1>5, <2>0, <2>1, <2>2, <2>3, StayCalm, GoesCalm DEF MGone
<1> QED
  BY <1>1, <1>2, <1>3, <1>4, <1>5

LEMMA ListsCalm ==
  ASSUME Sound, Mobile
  PROVE  /\ MOpenMerge => Quiet
         /\ MOpenSimilar => Quiet
         /\ MListMore => Quiet
         /\ \A c : MListBack(c) => Quiet
         /\ \A p : MPickTarget(p) => Quiet
         /\ \A p : MTick(p) => Quiet
         /\ MMergeTicked => Quiet
         /\ MAskDelete => Quiet
         /\ MDelete => Quiet
<1> USE DEF Sound
<1>0. UiNear(ui) /\ CallsNear(calls)
  BY NearSelf
<1> USE <1>0
<1>1. ASSUME MOpenMerge PROVE Quiet
  <2>1. Plain([Req(ui, "window", "targets") EXCEPT !.page = 1])
    BY ReqPlain DEF Plain, CallFields
  <2>2. CallsNear(calls')
    BY <1>1, <2>1, IssueOne, PlainSound DEF MOpenMerge
  <2>3. UiNear(ui')
    BY <1>1, OpenedSound, UiEdited DEF MOpenMerge, OnlyAct, Only
  <2> QED
    BY <1>1, <2>2, <2>3 DEF MOpenMerge, OnlyAct, Only, Quiet
<1>2. ASSUME MOpenSimilar PROVE Quiet
  <2>1. Plain([Req(ui, "similar", "ranked") EXCEPT !.who = Self, !.page = 1])
    BY ReqPlain DEF Plain, CallFields
  <2>2. CallsNear(calls')
    BY <1>2, <2>1, IssueOne, PlainSound DEF MOpenSimilar
  <2>3. UiNear(ui')
    BY <1>2, OpenedSound DEF MOpenSimilar, OnlyAct, Only, UiNear, UiSound
  <2> QED
    BY <1>2, <2>2, <2>3 DEF MOpenSimilar, OnlyAct, Only, Quiet
<1>3. ASSUME MListMore PROVE Quiet
  <2> DEFINE op == IF ui.sheet.kind = "similar" THEN "similar" ELSE "window"
             from == CASE ui.sheet.kind = "merge" -> "targets" [] ui.sheet.kind = "similar" -> "ranked" [] OTHER -> "picker"
             page == IF ui.sheet.kind = "merge" THEN ui.sheet.next ELSE Len(ui.sheet.rows) \div PageSize + 1
             r == [Req(ui, op, from) EXCEPT !.who = Self, !.filter = ui.sheet.term, !.page = page]
  <2>1. from \notin {"stepper", "hub", "more"}
    OBVIOUS
  <2>2. Plain(r)
    <3> HIDE DEF op, from, page
    <3> QED
      BY <2>1, ReqPlain DEF Plain, CallFields
  <2>3. Issue(<<r>>)
    BY <1>3 DEF MListMore
  <2> HIDE DEF r
  <2>4. CallsNear(calls')
    BY <2>2, <2>3, IssueOne, PlainSound
  <2>5. UiNear(ui')
    BY <1>3, EditedSound, UiEdited DEF MListMore, OnlyAct, Only, UiNear, UiSound
  <2> QED
    BY <1>3, <2>4, <2>5 DEF MListMore, OnlyAct, Only, Quiet
<1>4. ASSUME NEW c, MListBack(c) PROVE Quiet
  <2>0. Spent(c)
    BY <1>4 DEF MListBack, ListOf, Spent, Wide
  <2>1. SheetSound(ui.sheet)
    BY DEF UiNear, UiSound
  <2>2. SheetSound(Listed(c, ui.sheet))
    <3>1. PICK y, z, m : Listed(c, ui.sheet) = [ui.sheet EXCEPT !.loading = FALSE, !.rows = y, !.next = z, !.more = m]
      BY Zenon DEF Listed
    <3>2. SheetSound([ui.sheet EXCEPT !.loading = FALSE, !.rows = y, !.next = z, !.more = m])
      BY <2>1, EditedSound
    <3> QED
      BY <3>1, <3>2
  <2>3. SheetSound(Unlisted(c, ui.sheet))
    BY <2>1, EditedSound, NoSheetSound DEF Unlisted
  <2>4. UiNear([ui EXCEPT !.sheet = Listed(c, @)]) /\ UiNear([ui EXCEPT !.sheet = Unlisted(c, @)])
    BY <2>2, <2>3, UiEdited
  <2> QED
    BY <1>4, <2>0, <2>4, StayCalm DEF MListBack
<1>5. ASSUME NEW t, MPickTarget(t) PROVE Quiet
  <2> DEFINE r == [Req(ui, "merge", "sheet") EXCEPT !.who = t, !.of = {Self}]
  <2>1. Plain(r)
    BY ReqPlain DEF Plain, CallFields
  <2>2. Issue(<<r>>)
    BY <1>5 DEF MPickTarget
  <2> HIDE DEF r
  <2> QED
    BY <1>5, <2>1, <2>2, IssueOne, PlainSound, ClosedSound DEF MPickTarget, OnlyAct, Only, Quiet
<1>6. ASSUME NEW p, MTick(p) PROVE Quiet
  <2>1. UiNear(ui')
    BY <1>6, EditedSound, UiEdited DEF MTick, OnlyAct, Only, UiNear, UiSound
  <2> QED
    BY <1>6, <2>1 DEF MTick, OnlyAct, Only, Quiet
<1>7. ASSUME MMergeTicked PROVE Quiet
  <2> DEFINE r == [Req(ui, "merge", "similar") EXCEPT !.who = Self, !.of = ui.sheet.picked]
  <2>1. Plain(r)
    BY ReqPlain DEF Plain, CallFields
  <2>2. Issue(<<r>>)
    BY <1>7 DEF MMergeTicked
  <2> HIDE DEF r
  <2>3. UiNear(ui')
    BY <1>7, EditedSound, UiEdited DEF MMergeTicked, OnlyAct, Only, UiNear, UiSound
  <2> QED
    BY <1>7, <2>1, <2>2, <2>3, IssueOne, PlainSound DEF MMergeTicked, OnlyAct, Only, Quiet
<1>8. ASSUME MAskDelete PROVE Quiet
  BY <1>8, OpenedSound, UiEdited DEF MAskDelete, OnlyAct, Only, Quiet
<1>9. ASSUME MDelete PROVE Quiet
  <2> DEFINE r == [Req(ui, "delete", "confirm") EXCEPT !.who = Self]
  <2>1. Plain(r)
    BY ReqPlain DEF Plain, CallFields
  <2>2. UNCHANGED calls \/ Issue(<<r>>)
    BY <1>9 DEF MDelete
  <2> HIDE DEF r
  <2> QED
    BY <1>9, <2>1, <2>2, IssueOne, PlainSound, ClosedSound DEF MDelete, OnlyAct, Only, Quiet
<1> QED
  BY <1>1, <1>2, <1>3, <1>4, <1>5, <1>6, <1>7, <1>8, <1>9

LEMMA QueueCalm ==
  ASSUME Sound, Mobile
  PROVE  /\ \A c : MQueueBack(c) => Quiet
         /\ MQueueMore => Quiet
         /\ \A s : MCreate(s) => Quiet
         /\ \A p : MAssign(p) => Quiet
         /\ \A c : MCardDone(c) => Quiet
         /\ \A s : MPreview(s) => Quiet
         /\ \A c : MPhotos(c) => Quiet
         /\ MRetryPhotos => Quiet
         /\ MPick => Quiet
         /\ \A f : MSearch(f) => Quiet
         /\ MUnpick => Quiet
         /\ \A s : MSkip(s) => Quiet
         /\ \A g : MMergeGroup(g) => Quiet
         /\ \A c : MMergedGroup(c) => Quiet
         /\ \A g : MReviewGroup(g) => Quiet
         /\ Mobile /\ CloseSheet => Quiet
<1> USE DEF Sound
<1>0. UiNear(ui) /\ CallsNear(calls)
  BY NearSelf
<1> USE <1>0
<1>1. ASSUME NEW c, MQueueBack(c) PROVE Quiet
  <2>0. Spent(c)
    BY <1>1, BackSpent DEF MQueueBack
  <2>1. MStay(c, ui) \/ \E x : MStay(c, [ui EXCEPT !.queue = x])
    <3>1. CASE Back(c, "fresh", "queue")
      BY <1>1, <3>1 DEF MQueueBack
    <3>2. CASE ~Back(c, "fresh", "queue")
      BY <1>1, <3>2 DEF MQueueBack
    <3> QED
      BY <3>1, <3>2
  <2>2. \A x : UiNear([ui EXCEPT !.queue = x])
    BY UiEdited
  <2> QED
    BY <2>0, <2>1, <2>2, StayCalm
<1>2. ASSUME MQueueMore PROVE Quiet
  <2> DEFINE page == Len(ui.queue.cards) \div PageSize + 1
             r == [Req(ui, "fresh", "queue") EXCEPT !.page = page]
  <2>1. Plain(r)
    <3> HIDE DEF page
    <3> QED
      BY ReqPlain DEF Plain, CallFields
  <2>2. Issue(<<r>>)
    BY <1>2 DEF MQueueMore
  <2> HIDE DEF r
  <2>3. UiNear(ui')
    BY <1>2, UiEdited DEF MQueueMore, OnlyAct, Only
  <2> QED
    BY <1>2, <2>1, <2>2, <2>3, IssueOne, PlainSound DEF MQueueMore, OnlyAct, Only, Quiet
<1>3. ASSUME NEW s, MCreate(s) PROVE Quiet
  <2> DEFINE r == [Req(ui, "create", "card") EXCEPT !.of = s.of, !.sugg = s]
  <2>1. Plain(r)
    BY ReqPlain DEF Plain, CallFields
  <2>2. Issue(<<r>>)
    BY <1>3 DEF MCreate
  <2> HIDE DEF r
  <2>3. UiNear(ui')
    BY <1>3, UiEdited DEF MCreate, OnlyAct, Only
  <2> QED
    BY <1>3, <2>1, <2>2, <2>3, IssueOne, PlainSound DEF MCreate, OnlyAct, Only, Quiet
<1>4. ASSUME NEW p, MAssign(p) PROVE Quiet
  <2> DEFINE r == [Req(ui, "join", "card") EXCEPT !.who = p, !.of = ui.sheet.sugg.of, !.sugg = ui.sheet.sugg]
  <2>1. Plain(r)
    BY ReqPlain DEF Plain, CallFields
  <2>2. Issue(<<r>>)
    BY <1>4 DEF MAssign
  <2> HIDE DEF r
  <2>3. UiNear(ui')
    BY <1>4, UiEdited DEF MAssign, OnlyAct, Only
  <2> QED
    BY <1>4, <2>1, <2>2, <2>3, IssueOne, PlainSound DEF MAssign, OnlyAct, Only, Quiet
<1>5. ASSUME NEW c, MCardDone(c) PROVE Quiet
  <2>0. Spent(c)
    BY <1>5, BackSpent DEF MCardDone
  <2> DEFINE freed == IF Here(c) THEN [ui EXCEPT !.queue.busy = Nil] ELSE ui
             u == Focused(ui, "person", calls[c].ans)
  <2>1. UiNear(freed)
    BY UiEdited
  <2>2. UiNear(Closed(freed))
    <3> HIDE DEF freed
    <3> QED
      BY <2>1, ClosedSound
  <2>3. CASE /\ ui' = [u EXCEPT !.person.prompt = TRUE]
             /\ Follow(c, FocusCalls(ui, "person", calls[c].ans)) /\ UNCHANGED <<client, db, acts>>
    <3>1. PICK r, s : Plain(r) /\ Plain(s) /\ FocusCalls(ui, "person", calls[c].ans) = <<r, s>>
      BY FocusCallsTwo
    <3>2. Follow(c, <<r, s>>)
      BY <2>3, <3>1
    <3>3. CallsNear(calls')
      BY <2>0, <3>1, <3>2, FollowTwo, PlainSound
    <3>4. UiNear(u)
      BY FocusSound, NearLike DEF UiNear
    <3>5. UiNear(ui')
      <4> HIDE DEF u
      <4>1. \A x : UiNear([u EXCEPT !.person = x])
        BY <3>4, UiEdited
      <4> QED
        BY <2>3, <4>1
    <3> QED
      BY <2>3, <3>3, <3>5 DEF Quiet
  <2>4. MStay(c, IF Here(c) THEN Closed(freed) ELSE ui) \/ MStay(c, freed)
        \/ (/\ ui' = [u EXCEPT !.person.prompt = TRUE]
            /\ Follow(c, FocusCalls(ui, "person", calls[c].ans)) /\ UNCHANGED <<client, db, acts>>)
    <3> HIDE DEF freed, u
    <3> QED
      BY <1>5 DEF MCardDone, freed, u
  <2> HIDE DEF freed, u
  <2> QED
    BY <2>0, <2>1, <2>2, <2>3, <2>4, StayCalm
<1>6. ASSUME NEW s, MPreview(s) PROVE Quiet
  <2> DEFINE r == [Req(ui, "photos", "preview") EXCEPT !.of = s.of]
  <2>1. Plain(r)
    BY ReqPlain DEF Plain, CallFields
  <2>2. Issue(<<r>>)
    BY <1>6 DEF MPreview
  <2> HIDE DEF r
  <2>3. UiNear(ui')
    BY <1>6, OpenedSound, UiEdited DEF MPreview, OnlyAct, Only
  <2> QED
    BY <1>6, <2>1, <2>2, <2>3, IssueOne, PlainSound DEF MPreview, OnlyAct, Only, Quiet
<1>7. ASSUME NEW c, MPhotos(c) PROVE Quiet
  <2>0. Spent(c)
    BY <1>7, BackSpent DEF MPhotos
  <2> DEFINE shown == [ui EXCEPT !.sheet.photos = "shown"]
             failed == [ui EXCEPT !.sheet.photos = "failed"]
             gone == [Closed(ui) EXCEPT !.queue = [NoQueue EXCEPT !.busy = ui.queue.busy]]
             r == [Req(ui, "fresh", "queue") EXCEPT !.page = 1]
             q == Req(ui, "suggest", "queue")
  <2>1. UiNear(shown) /\ UiNear(failed)
    BY EditedSound, UiEdited DEF UiNear, UiSound
  <2>2. UiNear(gone)
    BY ClosedSound, UiEdited
  <2>3. Plain(r) /\ Plain(q)
    BY ReqPlain DEF Plain, CallFields
  <2>4. \/ MStay(c, shown) \/ MStay(c, failed) \/ MStay(c, ui)
        \/ ui' = gone /\ Follow(c, <<r, q>>) /\ UNCHANGED <<client, db, acts>>
    BY <1>7 DEF MPhotos
  <2> HIDE DEF shown, failed, gone, r, q
  <2>5. CASE ui' = gone /\ Follow(c, <<r, q>>) /\ UNCHANGED <<client, db, acts>>
    BY <2>0, <2>2, <2>3, <2>5, FollowTwo, PlainSound DEF Quiet
  <2> QED
    BY <2>0, <2>1, <2>4, <2>5, StayCalm
<1>8. ASSUME MRetryPhotos PROVE Quiet
  <2> DEFINE r == [Req(ui, "photos", "preview") EXCEPT !.of = ui.sheet.sugg.of]
  <2>1. Plain(r)
    BY ReqPlain DEF Plain, CallFields
  <2>2. Issue(<<r>>)
    BY <1>8 DEF MRetryPhotos
  <2> HIDE DEF r
  <2>3. UiNear(ui')
    BY <1>8, EditedSound, UiEdited DEF MRetryPhotos, OnlyAct, Only, UiNear, UiSound
  <2> QED
    BY <1>8, <2>1, <2>2, <2>3, IssueOne, PlainSound DEF MRetryPhotos, OnlyAct, Only, Quiet
<1>9. ASSUME MPick PROVE Quiet
  <2> DEFINE r == [Req(ui, "window", "picker") EXCEPT !.page = 1]
  <2>1. Plain(r)
    BY ReqPlain DEF Plain, CallFields
  <2>2. Issue(<<r>>) \/ UNCHANGED calls
    BY <1>9 DEF MPick
  <2> HIDE DEF r
  <2>3. UiNear(ui')
    BY <1>9, EditedSound, UiEdited DEF MPick, OnlyAct, Only, UiNear, UiSound
  <2> QED
    BY <1>9, <2>1, <2>2, <2>3, IssueOne, PlainSound DEF MPick, OnlyAct, Only, Quiet
<1>10. ASSUME NEW f, MSearch(f) PROVE Quiet
  <2> DEFINE r == [Req(ui, "window", "picker") EXCEPT !.page = 1, !.filter = f]
  <2>1. Plain(r)
    BY ReqPlain DEF Plain, CallFields
  <2>2. Issue(<<r>>)
    BY <1>10 DEF MSearch
  <2> HIDE DEF r
  <2>3. SheetSound([[ui.sheet EXCEPT !.term = f] EXCEPT !.rows = Nil])
    BY EditedSound DEF UiNear, UiSound
  <2>4. UiNear(ui')
    BY <1>10, <2>3 DEF MSearch, OnlyAct, Only, UiNear, UiSound
  <2> QED
    BY <1>10, <2>1, <2>2, <2>4, IssueOne, PlainSound DEF MSearch, OnlyAct, Only, Quiet
<1>11. ASSUME MUnpick PROVE Quiet
  <2>1. UiNear(ui')
    BY <1>11, EditedSound, UiEdited DEF MUnpick, OnlyAct, Only, UiNear, UiSound
  <2> QED
    BY <1>11, <2>1 DEF MUnpick, OnlyAct, Only, Quiet
<1>12. ASSUME NEW s, MSkip(s) PROVE Quiet
  BY <1>12 DEF MSkip, NotNow, Quiet
<1>13. ASSUME NEW g, MMergeGroup(g) PROVE Quiet
  <2> DEFINE r == [Req(ui, "merge", "group") EXCEPT !.who = g.who, !.of = g.of \ {g.who}, !.sugg = g]
  <2>1. Plain(r)
    BY ReqPlain DEF Plain, CallFields
  <2>2. Issue(<<r>>)
    BY <1>13 DEF MMergeGroup
  <2> HIDE DEF r
  <2>3. UiNear(ui')
    BY <1>13, UiEdited DEF MMergeGroup, OnlyAct, Only
  <2> QED
    BY <1>13, <2>1, <2>2, <2>3, IssueOne, PlainSound DEF MMergeGroup, OnlyAct, Only, Quiet
<1>14. ASSUME NEW c, MMergedGroup(c) PROVE Quiet
  <2>0. Spent(c)
    BY <1>14, BackSpent DEF MMergedGroup
  <2>1. MStay(c, ui) \/ \E x : MStay(c, [[ui EXCEPT !.queue.group = Nil] EXCEPT !.queue.groups = x])
    BY <1>14 DEF MMergedGroup
  <2>2. \A x : UiNear([[ui EXCEPT !.queue.group = Nil] EXCEPT !.queue.groups = x])
    BY DEF UiNear, UiSound
  <2> QED
    BY <2>0, <2>1, <2>2, StayCalm
<1>15. ASSUME NEW g, MReviewGroup(g) PROVE Quiet
  <2>1. UiNear(ui')
    BY <1>15, OpenedSound, UiEdited DEF MReviewGroup, OnlyAct, Only
  <2> QED
    BY <1>15, <2>1 DEF MReviewGroup, OnlyAct, Only, Quiet
<1>16. ASSUME Mobile /\ CloseSheet PROVE Quiet
  BY <1>16, ClosedSound DEF CloseSheet, OnlyAct, Only, Quiet
<1> QED
  BY <1>1, <1>2, <1>3, <1>4, <1>5, <1>6, <1>7, <1>8, <1>9, <1>10, <1>11, <1>12, <1>13, <1>14, <1>15, <1>16

(* Every step of the mobile screens leaves the server alone and keeps the
   screens and the requests sound. *)
MobileStep == Quiet \/ Asks \/ Pages \/ (Calm /\ \E c \in Slots : HubAnswer(c))
LEMMA MobileCalm == ASSUME Sound, MobileNext PROVE Mobile /\ MobileStep
<1>1. Mobile
  BY DEF MobileNext, MSetFilter, MSearch, MLongPress, MOpen, MPickTarget, MTick, MAssign, MRename, MSaveName, MRefresh,
         MRetry, MMore, MOpenReview, MStartRename, MOpenMerge, MOpenSimilar, MListMore, MMergeTicked, MAskDelete, MDelete,
         MQueueMore, MRetryPhotos, MPick, MUnpick, MLeave, MAccept, MNotNow, MReview, MCreate, MPreview, MSkip,
         MMergeGroup, MReviewGroup, MVerdict, MWindowBack, MMoreBack, MSuggested, MRenamed, MDetail, MSavedName,
         MAccepted, MJudged, MListBack, MGone, MQueueBack, MCardDone, MPhotos, MMergedGroup, OnHub, OnPerson, OnReview
<1>2. ASSUME NEW c \in Slots, MWindowBack(c) \/ MMoreBack(c) \/ MRenamed(c) PROVE MobileStep
  BY <1>1, <1>2, HubAnswersCalm DEF MobileStep, HubAnswer
<1>3. CASE \A c \in Slots : ~(MWindowBack(c) \/ MMoreBack(c) \/ MRenamed(c))
  <2>1. Quiet \/ Asks \/ Pages
    BY <1>1, <1>3, HubCalm, HubAnswersCalm, PersonCalm, PersonAnswersCalm, ListsCalm, QueueCalm DEF MobileNext
  <2> QED
    BY <1>1, <2>1 DEF MobileStep
<1> QED
  BY <1>1, <1>2, <1>3

(* ---------------------------- the web queries --------------------------- *)

WebKeys == {"hub", "person", "suggest", "queue", "picker"}

(* Requests to make: finitely many, and none of them loses a verdict. *)
Fine(reqs) == IsFiniteSet(reqs) /\ \A r \in reqs : CallSound("web", r)

LEMMA FineNone == Fine({})
BY FS_EmptySet DEF Fine

LEMMA FineOne == ASSUME NEW r, CallSound("web", r) PROVE Fine({r})
BY FS_Singleton DEF Fine

LEMMA WebKeysFinite == ASSUME NEW S \in SUBSET WebKeys PROVE IsFiniteSet(S)
<1>1. IsFiniteSet({"hub"} \cup {"person"} \cup {"suggest"} \cup {"queue"} \cup {"picker"})
  BY FS_Singleton, FS_Union
<1>2. WebKeys = {"hub"} \cup {"person"} \cup {"suggest"} \cup {"queue"} \cup {"picker"}
  BY DEF WebKeys
<1>3. IsFiniteSet(WebKeys)
  BY <1>1, <1>2
<1> QED
  BY <1>3, FS_Subset

(* The hub asks for windows of the filter that is lit. *)
LEMMA QuerySound ==
  ASSUME NEW u, NEW k \in WebKeys
  PROVE  /\ CallSound("web", Query(u, k)) /\ CallSound("web", NextPage(u, k))
         /\ \A x : CallSound("web", [Query(u, k) EXCEPT !.then = x])
         /\ k = "hub" => Wide(Query(u, k)) /\ Query(u, k).filter = u.hub.filter
<1>1. PICK op, page, filter : /\ Query(u, k) = [Req(u, op, k) EXCEPT !.visit = 0, !.page = page, !.filter = filter]
                              /\ k = "hub" => op = "windows" /\ filter = u.hub.filter
  <2>1. CASE k = "hub"
    BY <2>1 DEF Query
  <2>2. CASE k = "picker"
    BY <2>2 DEF Query
  <2>3. CASE k = "person"
    BY <2>3 DEF Query
  <2>4. CASE k = "suggest"
    BY <2>4 DEF Query
  <2>5. CASE k = "queue"
    BY <2>5 DEF Query
  <2> QED
    BY <2>1, <2>2, <2>3, <2>4, <2>5 DEF WebKeys
<1>2. k # "stepper" /\ (k = "queue" => k # "hub")
  BY DEF WebKeys
<1>3. PICK q : q = Query(u, k)
  OBVIOUS
<1>4. DOMAIN q = CallFields /\ q.from = k /\ (k = "hub" => q.op = "windows" /\ q.filter = u.hub.filter)
  BY <1>1, <1>3 DEF Req, NoCall, CallFields
<1>5. CallSound("web", q) /\ \A x : CallSound("web", [q EXCEPT !.then = x])
  BY <1>2, <1>4 DEF CallSound, Wide, CallFields
<1>6. NextPage(u, k) = [q EXCEPT !.op = IF k = "queue" THEN "fresh" ELSE "window", !.page = @ + 1]
  BY <1>3 DEF NextPage
<1>7. CallSound("web", NextPage(u, k))
  BY <1>2, <1>4, <1>6 DEF CallSound, Wide, CallFields
<1> QED
  BY <1>3, <1>4, <1>5, <1>7 DEF Wide

LEMMA ShownKeys ==
  ASSUME NEW u, UiSound(u)
  PROVE  Shows(u) \subseteq WebKeys
BY DEF Shows, ReviewKeys, WebKeys, UiSound, RouteSound

(* What a request is joined with or replaced by keeps what it says. *)
LEMMA ThenSound ==
  ASSUME NEW r, CallSound("web", r), NEW x
  PROVE  CallSound("web", [r EXCEPT !.then = x])
<1> DEFINE t == [r EXCEPT !.then = x]
<1>1. /\ DOMAIN t = DOMAIN r /\ t.from = r.from /\ t.of = r.of /\ t.no = r.no /\ t.unsure = r.unsure
      /\ t.given = r.given /\ t.op = r.op
  BY DEF CallSound, CallFields
<1> HIDE DEF t
<1>2. Sent(t) = Sent(r)
  BY <1>1 DEF Sent
<1> QED
  BY <1>1, <1>2 DEF CallSound, SaysAll, SaysMost, Wide, t

LEMMA FetchSound ==
  ASSUME NEW cs, CallsSound("web", cs), NEW reqs, Fine(reqs), NEW u, Fetch(u, cs, reqs)
  PROVE  CallsSound("web", calls')
<1> DEFINE same(c) == {r \in reqs : SameQuery(cs[c], r)}
           new == {r \in reqs : \A c \in Slots : ~SameQuery(cs[c], r)}
           at(c) == IF same(c) = {} THEN cs[c] ELSE Placed(u, CHOOSE r \in same(c) : TRUE, cs[c])
           placed == [c \in Slots |-> at(c)]
<1>1. calls' = Issued(placed, SetToSeq(new))
  BY DEF Fetch
<1>2. \A c \in Slots : CallSound("web", at(c))
  <2> SUFFICES ASSUME NEW c \in Slots PROVE CallSound("web", at(c))
    OBVIOUS
  <2>1. CASE same(c) = {}
    BY <2>1 DEF CallsSound
  <2>2. CASE same(c) # {}
    <3>1. PICK r \in reqs : r = CHOOSE q \in same(c) : TRUE
      BY <2>2
    <3>2. CallSound("web", r) /\ CallSound("web", cs[c])
      BY <3>1 DEF Fine, CallsSound
    <3>3. CallSound("web", Placed(u, r, cs[c]))
      BY <3>2, ThenSound DEF Placed
    <3> QED
      BY <2>2, <3>1, <3>3
  <2> QED
    BY <2>1, <2>2
<1>3. CallsSound("web", placed)
  <2> HIDE DEF at
  <2> QED
    BY <1>2 DEF CallsSound
<1>4. IsFiniteSet(new)
  BY FS_Subset DEF Fine
<1>5. \A i \in DOMAIN SetToSeq(new) : CallSound("web", SetToSeq(new)[i])
  BY <1>4, SeqOfSet DEF Fine
<1> HIDE DEF placed, new
<1> QED
  BY <1>1, <1>3, <1>5, IssuedSound

(* A window in flight stays, or gives way to one of its filter; and one that
   is asked for is in flight then. *)
LEMMA FetchWindows ==
  ASSUME NEW cs, CallsSound("web", cs), NEW reqs, Fine(reqs), NEW u, Fetch(u, cs, reqs)
  PROVE  /\ \A c \in Slots : Wide(cs[c]) => Wide(calls'[c]) /\ calls'[c].filter = cs[c].filter
         /\ \A r \in reqs : Wide(r) => \E c \in Slots : Wide(calls'[c]) /\ calls'[c].filter = r.filter
<1> DEFINE same(c) == {r \in reqs : SameQuery(cs[c], r)}
           new == {r \in reqs : \A c \in Slots : ~SameQuery(cs[c], r)}
           at(c) == IF same(c) = {} THEN cs[c] ELSE Placed(u, CHOOSE r \in same(c) : TRUE, cs[c])
           placed == [c \in Slots |-> at(c)]
<1>1. calls' = Issued(placed, SetToSeq(new)) /\ Cardinality(new) <= Cardinality(Idle(cs))
  BY DEF Fetch
<1>2. ASSUME NEW c \in Slots
      PROVE  \/ placed[c] = cs[c]
             \/ \E r \in reqs : /\ SameQuery(cs[c], r) /\ placed[c].op \in {cs[c].op, r.op}
                                /\ placed[c].from = r.from /\ placed[c].filter = r.filter
  <2>1. CASE same(c) = {}
    BY <2>1
  <2>2. CASE same(c) # {}
    <3>1. PICK r \in reqs : r = (CHOOSE q \in same(c) : TRUE) /\ SameQuery(cs[c], r)
      BY <2>2
    <3>2. DOMAIN r = CallFields /\ DOMAIN cs[c] = CallFields
      BY <3>1 DEF Fine, CallsSound, CallSound
    <3>3. PICK t : t = Placed(u, r, cs[c])
      OBVIOUS
    <3>4. PICK o : o \in {cs[c], r} /\ \E x : t = [o EXCEPT !.then = x]
      <4>1. CASE cs[c].op = r.op /\ (r.from = "hub" \/ ~Cached(u, r.from))
        <5>1. t = [cs[c] EXCEPT !.then = r.then \/ cs[c].then]
          BY <3>3, <4>1 DEF Placed
        <5> QED
          BY <5>1
      <4>2. CASE ~(cs[c].op = r.op /\ (r.from = "hub" \/ ~Cached(u, r.from)))
        <5>1. t = [r EXCEPT !.then = r.then \/ cs[c].then]
          BY <3>3, <4>2 DEF Placed
        <5> QED
          BY <5>1
      <4> QED
        BY <4>1, <4>2
    <3>5. t.op = o.op /\ t.from = o.from /\ t.filter = o.filter
      BY <3>2, <3>4 DEF CallFields
    <3>6. placed[c] = t
      BY <2>2, <3>1, <3>3
    <3>7. t.op \in {cs[c].op, r.op} /\ t.from = r.from /\ t.filter = r.filter
      BY <3>1, <3>4, <3>5 DEF SameQuery
    <3> QED
      BY <3>1, <3>6, <3>7
  <2> QED
    BY <2>1, <2>2
<1>3. PICK ps : ps = placed
  OBVIOUS
<1>4. Idle(ps) = Idle(cs)
  <2> SUFFICES ASSUME NEW c \in Slots PROVE ps[c].op = "none" <=> cs[c].op = "none"
    BY DEF Idle
  <2>1. \A r : SameQuery(cs[c], r) => cs[c].op # "none" /\ r.op # "none"
    BY DEF SameQuery, Reads
  <2> HIDE DEF placed
  <2> QED
    BY <1>2, <1>3, <2>1
<1>5. ASSUME NEW c \in Slots, Wide(cs[c]) PROVE Wide(ps[c]) /\ ps[c].filter = cs[c].filter
  <2>1. CASE ps[c] = cs[c]
    BY <1>5, <2>1
  <2>2. CASE ps[c] # cs[c]
    <3>1. PICK r \in reqs : /\ SameQuery(cs[c], r) /\ ps[c].op \in {cs[c].op, r.op}
                            /\ ps[c].from = r.from /\ ps[c].filter = r.filter
      <4> HIDE DEF placed
      <4> QED
        BY <1>2, <1>3, <2>2
    <3>2. CallSound("web", r)
      BY DEF Fine
    <3> QED
      BY <1>5, <3>1, <3>2 DEF SameQuery, CallSound, Wide
  <2> QED
    BY <2>1, <2>2
<1>6. calls' = Issued(ps, SetToSeq(new)) /\ Cardinality(new) <= Cardinality(Idle(ps))
  BY <1>1, <1>3, <1>4
<1> HIDE DEF placed
<1>7. ASSUME NEW c \in Slots, Wide(cs[c]) PROVE Wide(calls'[c]) /\ calls'[c].filter = cs[c].filter
  <2>1. calls'[c] = ps[c] \/ ps[c].op = "none"
    BY <1>6, IssuedCases
  <2>2. Wide(ps[c]) /\ ps[c].filter = cs[c].filter
    BY <1>5, <1>7
  <2>3. ps[c].op # "none"
    BY <2>2 DEF Wide
  <2> QED
    BY <2>1, <2>2, <2>3
<1>8. ASSUME NEW r \in reqs, Wide(r) PROVE \E c \in Slots : Wide(calls'[c]) /\ calls'[c].filter = r.filter
  <2>1. CASE r \in new
    <3> DEFINE s == SetToSeq(new)
               n == Cardinality(new)
    <3>1. IsFiniteSet(new)
      BY FS_Subset DEF Fine
    <3>2. n \in Nat /\ s \in [1..n -> new] /\ \E i \in 1..n : s[i] = r
      BY <2>1, <3>1, SeqOfSet, SeqCovers, FS_CardinalityType
    <3> HIDE DEF s, n, new
    <3>3. PICK i \in 1..n : s[i] = r
      BY <3>2
    <3>4. \E c \in Slots : Issued(ps, s)[c] = s[i]
      <4>1. n <= Cardinality(Idle(ps))
        BY <1>6 DEF n
      <4>2. DOMAIN s = 1..n
        BY <3>2
      <4> QED
        BY <3>2, <4>1, <4>2, IssuedPlaces
    <3> QED
      BY <1>6, <1>8, <3>3, <3>4 DEF s
  <2>2. CASE r \notin new
    <3>1. PICK c \in Slots : SameQuery(cs[c], r)
      BY <2>2
    <3>2. cs[c].from = "hub" /\ cs[c].filter = r.filter
      BY <1>8, <3>1 DEF SameQuery, Wide
    <3>3. Wide(cs[c])
      BY <3>2 DEF CallsSound, CallSound
    <3> QED
      BY <1>7, <3>2, <3>3
  <2> QED
    BY <2>1, <2>2
<1> QED
  BY <1>7, <1>8

LEMMA FetchNear ==
  ASSUME Web, NEW cs, CallsNear(cs), NEW reqs, Fine(reqs), NEW u, Fetch(u, cs, reqs)
  PROVE  CallsNear(calls')
<1>1. client = "web" /\ CallsSound("web", cs) /\ \A c \in Slots : Carried(calls[c], cs[c])
  BY DEF Web, CallsNear
<1>2. CallsSound("web", calls')
  BY <1>1, FetchSound
<1>3. \A c \in Slots : Wide(cs[c]) => Wide(calls'[c]) /\ calls'[c].filter = cs[c].filter
  BY <1>1, FetchWindows
<1> QED
  BY <1>1, <1>2, <1>3 DEF CallsNear, Carried

LEMMA ObservedFine ==
  ASSUME NEW cs, NEW v, UiSound(v), NEW reqs, NEW old
  PROVE  Fine(Observed(cs, v, reqs, old))
<1> DEFINE K == {j \in NewlyShown(v) : old \/ ~Cached(v, j) \/ j \in v.hub.stale}
           f == [k \in K |-> Query(v, k)]
           T == {f[k] : k \in DOMAIN f}
<1>1. K \subseteq WebKeys
  BY ShownKeys DEF NewlyShown
<1>2. IsFiniteSet(T)
  BY <1>1, WebKeysFinite, FiniteImage
<1>3. \A r \in T : CallSound("web", r)
  BY <1>1, QuerySound
<1>4. Observed(cs, v, reqs, old) \in SUBSET T
  BY DEF Observed
<1> QED
  BY <1>2, <1>3, <1>4, FS_Subset DEF Fine

LEMMA MovesFetch ==
  ASSUME NEW cs, NEW v, UiSound(v), NEW reqs, Fine(reqs), Moves(cs, v, reqs)
  PROVE  \E all : Fine(all) /\ Fetch(v, cs, all)
<1>1. PICK old \in BOOLEAN : Fetch(v, cs, reqs \cup Observed(cs, v, reqs, old))
  BY DEF Moves
<1>2. Fine(reqs \cup Observed(cs, v, reqs, old))
  BY ObservedFine, FS_Union DEF Fine
<1> QED
  BY <1>1, <1>2

LEMMA MovesCalm ==
  ASSUME Sound, Web, NEW cs, CallsSound(client, cs), NEW v, UiSound(v), NEW reqs, Fine(reqs), Moves(cs, v, reqs)
  PROVE  Calm
<1>1. PICK all : Fine(all) /\ Fetch(v, cs, all)
  BY MovesFetch
<1>2. CallsSound(client, calls')
  BY <1>1, FetchSound DEF Web
<1> QED
  BY <1>2 DEF Moves, Calm

LEMMA MovesQuiet ==
  ASSUME Sound, Web, NEW cs, CallsNear(cs), NEW v, UiNear(v), NEW reqs, Fine(reqs), Moves(cs, v, reqs)
  PROVE  Quiet
<1>1. PICK all : Fine(all) /\ Fetch(v, cs, all)
  BY MovesFetch DEF UiNear
<1>2. CallsNear(calls')
  BY <1>1, FetchNear
<1> QED
  BY <1>2 DEF Moves, Quiet

LEMMA DoesQuiet ==
  ASSUME Sound, Web, NEW v, UiNear(v), NEW reqs, Fine(reqs), Does(v, reqs)
  PROVE  Quiet
BY MovesQuiet, NearSelf DEF Does

LEMMA EndsCalm ==
  ASSUME Sound, Web, NEW c, NEW v, UiSound(v), NEW reqs, Fine(reqs), Ends(c, v, reqs)
  PROVE  Calm
BY MovesCalm, FreedSound DEF Ends, Sound

LEMMA EndsQuiet ==
  ASSUME Sound, Web, NEW c, Spent(c), NEW v, UiNear(v), NEW reqs, Fine(reqs), Ends(c, v, reqs)
  PROVE  Quiet
<1>1. CallsNear(Freed(c))
  BY FreedNear DEF Sound
<1> QED
  BY <1>1, MovesQuiet DEF Ends

LEMMA InvalidFine ==
  ASSUME NEW u, UiSound(u), NEW keys, NEW then
  PROVE  /\ UiSound(Invalid(u, keys, then).ui) /\ SameHub(u.hub, Invalid(u, keys, then).ui.hub)
         /\ Fine(Invalid(u, keys, then).reqs)
<1> DEFINE v == [u EXCEPT !.hub.stale = @ \cup keys]
           K == keys \cap Shows(v)
           f == [k \in K |-> [Query(v, k) EXCEPT !.then = then]]
           T == {f[k] : k \in DOMAIN f}
<1>1. UiSound(v) /\ SameHub(u.hub, v.hub)
  BY UiSoundEdited
<1>2. Invalid(u, keys, then).ui = v /\ Invalid(u, keys, then).reqs = T
  BY DEF Invalid
<1> HIDE DEF v
<1>3. K \subseteq WebKeys
  BY <1>1, ShownKeys
<1>4. IsFiniteSet(T)
  BY <1>3, WebKeysFinite, FiniteImage
<1>5. \A r \in T : CallSound("web", r)
  BY <1>3, QuerySound
<1> QED
  BY <1>1, <1>2, <1>4, <1>5 DEF Fine

LEMMA InvalidatedFine ==
  ASSUME NEW u, UiNear(u), NEW both
  PROVE  UiNear(Invalidated(u, both).ui) /\ Fine(Invalidated(u, both).reqs)
<1> DEFINE i == Invalid(u, PeopleKeys, both)
           j == Invalid(i.ui, ReviewKeys, FALSE)
<1>1. UiNear(i.ui) /\ Fine(i.reqs)
  BY InvalidFine, NearLike DEF UiNear
<1>2. Invalidated(u, both) = IF both /\ i.reqs = {} THEN j ELSE i
  BY DEF Invalidated
<1> HIDE DEF i
<1>3. UiNear(j.ui) /\ Fine(j.reqs)
  BY <1>1, InvalidFine, NearLike DEF UiNear
<1> HIDE DEF j
<1> QED
  BY <1>1, <1>2, <1>3

LEMMA InvalidateQuiet ==
  ASSUME Sound, Web, NEW c, Spent(c), NEW u, UiNear(u), NEW both, Invalidate(c, u, both)
  PROVE  Quiet
<1>1. UiNear(Invalidated(u, both).ui) /\ Fine(Invalidated(u, both).reqs)
  BY InvalidatedFine
<1> QED
  BY <1>1, EndsQuiet DEF Invalidate

(* The screens after an answer: those the answer was for, but for a mark. *)
LEMMA AnsweredEnds ==
  ASSUME NEW c, NEW u, UiSound(u), Answered(c, u)
  PROVE  \E v, reqs : UiSound(v) /\ SameHub(u.hub, v.hub) /\ Fine(reqs) /\ Ends(c, v, reqs)
<1> DEFINE k == {calls[c].from}
           v == IF ~SameQuery(calls[c], Query(ui, calls[c].from)) THEN u
                ELSE [u EXCEPT !.hub.stale = IF calls[c].step = "back" THEN @ \ k ELSE @ \cup k]
           i == Invalid(v, ReviewKeys, FALSE)
<1>1. UiSound(v) /\ SameHub(u.hub, v.hub)
  <2>1. PICK x : v = u \/ v = [u EXCEPT !.hub.stale = x]
    BY Zenon
  <2>2. SameHub(u.hub, u.hub)
    BY DEF SameHub
  <2>3. UiSound([u EXCEPT !.hub.stale = x]) /\ SameHub(u.hub, [u EXCEPT !.hub.stale = x].hub)
    BY UiSoundEdited
  <2> HIDE DEF v
  <2> QED
    BY <2>1, <2>2, <2>3
<1>2. Ends(c, i.ui, i.reqs) \/ Ends(c, v, {})
  BY DEF Answered
<1> HIDE DEF v
<1>3. UiSound(i.ui) /\ SameHub(v.hub, i.ui.hub) /\ Fine(i.reqs)
  BY <1>1, InvalidFine
<1>4. SameHub(u.hub, i.ui.hub)
  BY <1>1, <1>3 DEF SameHub
<1> HIDE DEF i
<1> QED
  BY <1>1, <1>2, <1>3, <1>4, FineNone

LEMMA AnsweredCalm ==
  ASSUME Sound, Web, NEW c, NEW u, UiSound(u), Answered(c, u)
  PROVE  Calm /\ SameHub(u.hub, ui'.hub)
<1>1. PICK v, reqs : UiSound(v) /\ SameHub(u.hub, v.hub) /\ Fine(reqs) /\ Ends(c, v, reqs)
  BY AnsweredEnds
<1>2. ui' = v
  BY <1>1 DEF Ends, Moves
<1> QED
  BY <1>1, <1>2, EndsCalm

LEMMA AnsweredQuiet ==
  ASSUME Sound, Web, NEW c, Spent(c), NEW u, UiNear(u), Answered(c, u)
  PROVE  Quiet
<1>1. PICK v, reqs : UiSound(v) /\ SameHub(u.hub, v.hub) /\ Fine(reqs) /\ Ends(c, v, reqs)
  BY AnsweredEnds DEF UiNear
<1>2. UiNear(v)
  BY <1>1, NearLike
<1> QED
  BY <1>1, <1>2, EndsQuiet

LEMMA MountedNear ==
  ASSUME Web, NEW u, UiNear(u), NEW at \in {"hub", "person", "review"}, NEW id
  PROVE  UiNear(Mounted(u, at, id))
<1> DEFINE v == Mounted(u, at, id)
<1>0. UiSound(u)
  BY DEF UiNear
<1>1. DOMAIN v = DOMAIN u /\ v.sheet = NoSheet
  BY <1>0 DEF Mounted, UiSound
<1>2. v.route = [u.route EXCEPT !.at = at, !.id = id, !.visit = u.route.visit + 1]
  BY <1>0 DEF Mounted, UiSound
<1>3. RouteSound(v.route)
  <2> HIDE DEF v
  <2> QED
    BY <1>0, <1>2 DEF RouteSound, UiSound
<1>4. v.hub = IF at # "hub" THEN u.hub
              ELSE [u.hub EXCEPT !.filter = "all", !.of = "all", !.rows = IF u.hub.of = "all" THEN u.hub.rows ELSE Nil,
                                 !.failed = u.hub.failed /\ u.hub.filter = "all"]
  BY <1>0 DEF Mounted, UiSound
<1> HIDE DEF v
<1>5. DOMAIN v.hub = HubFields /\ (at # "hub" => v.hub = u.hub) /\ (at = "hub" => v.hub.of = "all" /\ v.hub.filter = "all")
  BY <1>0, <1>4 DEF UiSound, HubFields
<1>6. UiSound(v)
  BY <1>0, <1>1, <1>3, <1>5, NoSheetSound DEF UiSound
<1>7. CASE at # "hub"
  BY <1>5, <1>6, <1>7, NearLike DEF v
<1>8. CASE at = "hub"
  BY <1>5, <1>6, <1>8 DEF UiNear, Settles, Web, v
<1> QED
  BY <1>7, <1>8

LEMMA WGoQuiet ==
  ASSUME Sound, Web, NEW at \in {"hub", "person", "review"}, NEW id, WGo(at, id)
  PROVE  Quiet
<1>1. UiNear(Mounted(ui, at, id))
  BY MountedNear, NearSelf
<1> QED
  BY <1>1, FineNone, DoesQuiet DEF WGo

LEMMA WGoesQuiet ==
  ASSUME Sound, Web, NEW c, Spent(c), NEW at \in {"hub", "person", "review"}, NEW id, NEW both, WGoes(c, at, id, both)
  PROVE  Quiet
<1>1. UiNear(Invalidated(ui, both).ui) /\ Fine(Invalidated(ui, both).reqs)
  BY InvalidatedFine, NearSelf
<1>2. UiNear(Mounted(Invalidated(ui, both).ui, at, id))
  BY <1>1, MountedNear
<1> QED
  BY <1>1, <1>2, EndsQuiet DEF WGoes

(* --------------------------- the web screens ---------------------------- *)

(* The hub waits for rows only while a window of its filter is in flight. *)
HubWaits(h, cs) == Settles(h) \/ \E c \in Slots : Wide(cs[c]) /\ cs[c].filter = h.filter
Turns == Calm /\ HubWaits(ui'.hub, calls')

LEMMA FilterTurns == ASSUME Sound, Web, NEW f, WSetFilter(f) PROVE Turns
<1> DEFINE v == [ui EXCEPT !.hub.filter = f, !.hub.failed = FALSE]
<1>1. client = "web" /\ CallsSound("web", calls) /\ UiSound(ui)
  BY DEF Sound, Web
<1>2. UiSound(v) /\ v.hub.filter = f /\ v.route = ui.route /\ v.hub.of = ui.hub.of
  BY <1>1 DEF UiSound, HubFields
<1>3. Moves(calls, v, {}) /\ f # ui.hub.filter /\ ui.route.at = "hub"
  BY DEF WSetFilter, Does, WOnHub, At
<1> HIDE DEF v
<1>4. PICK old \in BOOLEAN : Fetch(v, calls, Observed(calls, v, {}, old))
  BY <1>3 DEF Moves
<1>5. PICK reqs : reqs = Observed(calls, v, {}, old)
  OBVIOUS
<1>6. Fine(reqs) /\ Fetch(v, calls, reqs) /\ ui' = v
  BY <1>2, <1>3, <1>4, <1>5, ObservedFine DEF Moves
<1>7. Calm
  BY <1>1, <1>2, <1>3, FineNone, MovesCalm
<1>8. PICK r : r = Query(v, "hub")
  OBVIOUS
<1>9. Wide(r) /\ r.filter = f /\ CallSound("web", r) /\ r.from = "hub"
  BY <1>2, <1>8, QuerySound DEF WebKeys, Wide
<1>10. CASE v.hub.of = f
  BY <1>2, <1>6, <1>7, <1>10 DEF Turns, HubWaits, Settles
<1>11. CASE v.hub.of # f
  <2>1. ~Cached(v, "hub")
    BY <1>2, <1>11 DEF Cached
  <2>2. "hub" \in NewlyShown(v)
    <3>1. "hub" \in Shows(v)
      BY <1>2, <1>3 DEF Shows
    <3>2. Query(ui, "hub").filter = ui.hub.filter
      BY <1>1, QuerySound DEF WebKeys
    <3>3. ~SameQuery(r, Query(ui, "hub"))
      BY <1>3, <1>9, <3>2 DEF SameQuery
    <3> QED
      BY <1>8, <3>1, <3>3 DEF NewlyShown
  <2>3. CASE \E c \in Slots : SameQuery(calls[c], r)
    <3>1. PICK c \in Slots : SameQuery(calls[c], r)
      BY <2>3
    <3>2. calls[c].from = "hub" /\ calls[c].filter = f
      BY <1>9, <3>1 DEF SameQuery
    <3>3. Wide(calls[c])
      BY <1>1, <3>2 DEF CallsSound, CallSound
    <3>4. Wide(calls'[c]) /\ calls'[c].filter = f
      BY <1>1, <1>6, <3>2, <3>3, FetchWindows
    <3> QED
      BY <1>2, <1>6, <1>7, <3>4 DEF Turns, HubWaits
  <2>4. CASE \A c \in Slots : ~SameQuery(calls[c], r)
    <3>1. \A q \in {} \cup Range(calls) : ~SameQuery(q, r)
      BY <1>1, <2>4 DEF Range, CallsSound
    <3>2. r \in reqs
      BY <1>5, <1>8, <2>1, <2>2, <3>1 DEF Observed
    <3>3. \E c \in Slots : Wide(calls'[c]) /\ calls'[c].filter = r.filter
      BY <1>1, <1>6, <1>9, <3>2, FetchWindows
    <3> QED
      BY <1>2, <1>6, <1>7, <1>9, <3>3 DEF Turns, HubWaits
  <2> QED
    BY <2>3, <2>4
<1> QED
  BY <1>10, <1>11

LEMMA WindowTurns == ASSUME Sound, Web, NEW c, WWindowsBack(c) PROVE Quiet \/ Turns
<1> DEFINE h == WWindows(c)
           v == [ui EXCEPT !.hub = h]
<1>1. UiSound(ui) /\ UiNear(ui)
  BY NearSelf DEF Sound
<1>2. Answered(c, v)
  BY DEF WWindowsBack
<1>3. CASE calls[c].filter # ui.hub.filter
  <2>1. h = ui.hub
    BY <1>3 DEF WWindows
  <2>2. v.hub = ui.hub /\ UiSound(v)
    BY <1>1, <2>1, UiSoundEdited DEF UiSound
  <2>3. UiNear(v)
    <3> HIDE DEF v
    <3> QED
      BY <1>1, <2>2, NearLike
  <2>4. Spent(c)
    BY <1>3 DEF Spent, Web
  <2> HIDE DEF v
  <2> QED
    BY <1>2, <2>3, <2>4, AnsweredQuiet
<1>4. CASE calls[c].filter = ui.hub.filter
  <2>1. DOMAIN h = HubFields /\ Settles(h)
    <3>1. CASE calls[c].step = "failed"
      <4>1. h = [ui.hub EXCEPT !.failed = TRUE]
        BY <1>4, <3>1 DEF WWindows
      <4> HIDE DEF h
      <4> QED
        BY <1>1, <4>1 DEF UiSound, HubFields, Settles
    <3>2. CASE calls[c].step # "failed"
      <4>1. PICK rows, more : h = [ui.hub EXCEPT !.rows = rows, !.of = calls[c].filter, !.more = more, !.failed = FALSE]
        BY <1>4, <3>2 DEF WWindows
      <4> HIDE DEF h
      <4> QED
        BY <1>1, <1>4, <4>1 DEF UiSound, HubFields, Settles
    <3> QED
      BY <3>1, <3>2
  <2>2. UiSound(v) /\ v.hub = h
    <3> HIDE DEF h
    <3> QED
      BY <1>1, <2>1, UiSoundEdited DEF UiSound
  <2> HIDE DEF v, h
  <2>3. Calm /\ SameHub(v.hub, ui'.hub)
    BY <1>2, <2>2, AnsweredCalm
  <2> QED
    BY <2>1, <2>2, <2>3 DEF Turns, HubWaits, Settles, SameHub
<1> QED
  BY <1>3, <1>4

LEMMA WebHubCalm ==
  ASSUME Sound, Web
  PROVE  /\ WRetry => Quiet
         /\ WMore => Quiet
         /\ \A c : WSuggested(c) => Quiet
         /\ \A p : WOpen(p) => Quiet
         /\ WOpenReview => Quiet
         /\ WLeave => Quiet
<1> USE DEF Sound
<1>0. UiNear(ui) /\ CallsNear(calls)
  BY NearSelf
<1> USE <1>0
<1>2. Fine({Query(ui, "hub")}) /\ Fine({NextPage(ui, "hub")})
  BY QuerySound, FineOne DEF WebKeys
<1>3. ASSUME WRetry PROVE Quiet
  BY <1>2, <1>3, DoesQuiet DEF WRetry
<1>4. ASSUME WMore PROVE Quiet
  BY <1>2, <1>4, DoesQuiet DEF WMore
<1>6. ASSUME NEW c, WSuggested(c) PROVE Quiet
  <2>0. Spent(c)
    BY <1>6 DEF WSuggested, Arrived, Back, Failed, Spent, Wide
  <2>1. UiNear([ui EXCEPT !.hub.seen = calls[c].ans])
    BY UiEdited
  <2> QED
    BY <1>6, <2>0, <2>1, AnsweredQuiet DEF WSuggested
<1>7. ASSUME NEW p, WOpen(p) PROVE Quiet
  BY <1>7, WGoQuiet DEF WOpen
<1>8. ASSUME WOpenReview PROVE Quiet
  BY <1>8, WGoQuiet DEF WOpenReview
<1>9. ASSUME WLeave PROVE Quiet
  BY <1>9, WGoQuiet DEF WLeave
<1> QED
  BY <1>3, <1>4, <1>6, <1>7, <1>8, <1>9

LEMMA WebPersonCalm ==
  ASSUME Sound, Web
  PROVE  /\ \A c : WPeopleBack(c) => Quiet
         /\ \A kind : WOpenSheet(kind) => Quiet
         /\ WClose => Quiet
         /\ \A n : WSaveName(n) => Quiet
         /\ \A t : WPickTarget(t) => Quiet
         /\ WUnpick => Quiet
         /\ WConfirmMerge => Quiet
         /\ WConfirmDelete => Quiet
         /\ \A c : WGone(c) => Quiet
<1> USE DEF Sound
<1>0. UiNear(ui) /\ CallsNear(calls)
  BY NearSelf
<1> USE <1>0
<1>1. ASSUME NEW c, WPeopleBack(c) PROVE Quiet
  <2>0. Spent(c)
    BY <1>1 DEF WPeopleBack, Arrived, Back, Failed, Spent, Wide
  <2>1. UiNear([ui EXCEPT !.person.rows = calls[c].ans])
    BY UiEdited
  <2> QED
    BY <1>1, <2>0, <2>1, AnsweredQuiet DEF WPeopleBack
<1>2. ASSUME NEW kind, WOpenSheet(kind) PROVE Quiet
  <2>1. UiNear([ui EXCEPT !.sheet = [NoSheet EXCEPT !.kind = kind]])
    BY OpenedSound, UiEdited
  <2> QED
    BY <1>2, <2>1, FineNone, DoesQuiet DEF WOpenSheet
<1>3. ASSUME WClose PROVE Quiet
  <2>1. UiNear([ui EXCEPT !.sheet.kind = "preview"])
    BY EditedSound, UiEdited DEF UiNear, UiSound
  <2> QED
    BY <1>3, <2>1, ClosedSound, FineNone, DoesQuiet DEF WClose
<1>4. ASSUME NEW n, WSaveName(n) PROVE Quiet
  <2> DEFINE r == [Req(ui, "rename", "name") EXCEPT !.who = Self, !.name = n]
  <2>1. Plain(r)
    BY ReqPlain DEF Plain, CallFields
  <2>2. Does(Closed(ui), {}) \/ Does(ui, {r})
    BY <1>4 DEF WSaveName
  <2> HIDE DEF r
  <2> QED
    BY <2>1, <2>2, PlainSound, FineOne, FineNone, ClosedSound, DoesQuiet
<1>5. ASSUME NEW t, WPickTarget(t) PROVE Quiet
  <2>1. UiNear([ui EXCEPT !.sheet.picked = {t}])
    BY EditedSound, UiEdited DEF UiNear, UiSound
  <2> QED
    BY <1>5, <2>1, FineNone, DoesQuiet DEF WPickTarget
<1>6. ASSUME WUnpick PROVE Quiet
  <2>1. UiNear([ui EXCEPT !.sheet.picked = {}])
    BY EditedSound, UiEdited DEF UiNear, UiSound
  <2> QED
    BY <1>6, <2>1, FineNone, DoesQuiet DEF WUnpick
<1>7. ASSUME WConfirmMerge PROVE Quiet
  <2>1. PICK t : Does(ui, {[Req(ui, "merge", "sheet") EXCEPT !.who = t, !.of = {Self}]})
    BY <1>7 DEF WConfirmMerge
  <2>2. Plain([Req(ui, "merge", "sheet") EXCEPT !.who = t, !.of = {Self}])
    BY ReqPlain DEF Plain, CallFields
  <2> QED
    BY <2>1, <2>2, PlainSound, FineOne, DoesQuiet
<1>8. ASSUME WConfirmDelete PROVE Quiet
  <2>1. Plain([Req(ui, "delete", "confirm") EXCEPT !.who = Self])
    BY ReqPlain DEF Plain, CallFields
  <2> QED
    BY <1>8, <2>1, PlainSound, FineOne, DoesQuiet DEF WConfirmDelete
<1>9. ASSUME NEW c, WGone(c) PROVE Quiet
  <2>0. Spent(c)
    BY <1>9 DEF WGone, Arrived, Back, Failed, Spent, Wide
  <2>1. UiNear(IF Here(c) /\ Sheet("rename") THEN Closed(ui) ELSE ui)
    BY ClosedSound
  <2> QED
    BY <1>9, <2>0, <2>1, InvalidateQuiet, WGoesQuiet, FineNone, EndsQuiet DEF WGone
<1> QED
  BY <1>1, <1>2, <1>3, <1>4, <1>5, <1>6, <1>7, <1>8, <1>9

LEMMA WebReviewCalm ==
  ASSUME Sound, Web
  PROVE  /\ \A s : WAccept(s) => Quiet
         /\ \A s : WNotNow(s) => Quiet
         /\ \A s : WReview(s) => Quiet
         /\ \A v \in {"accept", "reject", "defer", "skip"} : WVerdict(v) => Quiet
         /\ \A c : WReviewed(c) => Quiet
<1> USE DEF Sound
<1>0. UiNear(ui) /\ CallsNear(calls)
  BY NearSelf
<1> USE <1>0
<1>1. ASSUME NEW s, WAccept(s) PROVE Quiet
  <2> DEFINE q == [Req(ui, "join", "banner") EXCEPT !.who = Self, !.of = s.of]
             r == [Req(ui, "merge", "batch") EXCEPT !.who = Self, !.of = s.of \ {Self}]
             t == [Req(ui, "merge", "into") EXCEPT !.who = s.who, !.of = {Self}]
  <2>1. Plain(q) /\ Plain(r) /\ Plain(t)
    BY ReqPlain DEF Plain, CallFields
  <2>2. Does(ui, {q}) \/ Does(ui, {r}) \/ Does(ui, {t})
    BY <1>1 DEF WAccept
  <2> HIDE DEF q, r, t
  <2> QED
    BY <2>1, <2>2, PlainSound, FineOne, DoesQuiet
<1>2. ASSUME NEW s, WNotNow(s) PROVE Quiet
  BY <1>2 DEF WNotNow, NotNow, Quiet
<1>3. ASSUME NEW s, WReview(s) PROVE Quiet
  <2>1. PICK x : Does([ui EXCEPT !.sheet = [NoSheet EXCEPT !.kind = "stepper", !.term = x]], {})
    BY <1>3 DEF WReview
  <2>2. UiNear([ui EXCEPT !.sheet = [NoSheet EXCEPT !.kind = "stepper", !.term = x]])
    BY OpenedSound, UiEdited
  <2> QED
    BY <2>1, <2>2, FineNone, DoesQuiet
<1>4. ASSUME NEW v \in {"accept", "reject", "defer", "skip"}, WVerdict(v) PROVE Quiet
  <2> DEFINE done == WJudges(ui.sheet, v)
             g == [id |-> WShown, verdict |-> v]
             s == WStep
             yes == ui.sheet.yes
             no == ui.sheet.no
             unsure == ui.sheet.unsure
             given == done.given
             then == Self \in ui.sheet.yes
             r == [Req(ui, IF ui.sheet.term = "faces" THEN "review" ELSE "merge", "stepper")
                    EXCEPT !.who = s.who, !.of = yes, !.no = no, !.unsure = unsure,
                           !.sugg = s, !.given = given, !.then = then]
  <2>1. SheetSound(done) /\ done.given = ui.sheet.given \cup {g}
    <3>1. done = Judged(ui.sheet, WShown, v)
      BY DEF WJudges, Judged
    <3>2. Judged(ui.sheet, WShown, v).given = ui.sheet.given \cup {g}
      BY DEF Judged, UiNear, UiSound, SheetSound, SheetFields
    <3>3. SheetSound(Judged(ui.sheet, WShown, v))
      BY JudgedSound DEF UiNear, UiSound
    <3> QED
      BY <3>1, <3>2, <3>3
  <2>2. CASE Does([ui EXCEPT !.sheet = [done EXCEPT !.step = ui.sheet.step + 1]], {})
    <3> HIDE DEF done
    <3>1. UiNear([ui EXCEPT !.sheet = [done EXCEPT !.step = ui.sheet.step + 1]])
      BY <2>1, EditedSound, UiEdited
    <3> QED
      BY <2>2, <3>1, FineNone, DoesQuiet
  <2>3. CASE NotNow(s) /\ ui' = Closed(ui)
    BY <2>3, ClosedSound DEF NotNow, Quiet
  <2>4. CASE Does([ui EXCEPT !.sheet = done], {r})
    <3>1. UiNear([ui EXCEPT !.sheet = done])
      <4> HIDE DEF done
      <4> QED
        BY <2>1, UiEdited
    <3>2. DOMAIN r = CallFields /\ r.of = yes /\ r.no = no /\ r.unsure = unsure /\ r.given = given
          /\ r.from = "stepper"
      <4> HIDE DEF done, s, yes, no, unsure, given, then
      <4> QED
        BY DEF Req, NoCall, CallFields
    <3>3. Sent(r) = Meant(ui.sheet.given)
      <4>1. Sent(r) = Said(ui.sheet)
        <5> HIDE DEF r
        <5> QED
          BY <3>2 DEF Sent, Said
      <4> QED
        BY <4>1 DEF UiNear, UiSound, SheetSound
    <3>4. r.given = ui.sheet.given \cup {g}
      BY <2>1, <3>2
    <3>5. SaysMost(r)
      <4> HIDE DEF r, g
      <4>1. Sent(r) \subseteq Meant(r.given) /\ Meant(r.given) \subseteq Sent(r) \cup {g}
        BY <3>3, <3>4 DEF Meant
      <4> QED
        BY <4>1 DEF SaysMost
    <3>6. client = "web"
      BY <1>4 DEF WVerdict, WIn, Web
    <3>7. CallSound("web", r)
      <4> HIDE DEF r, done
      <4> QED
        BY <3>2, <3>5, <3>6 DEF CallSound
    <3> HIDE DEF r, done
    <3> QED
      BY <2>4, <3>1, <3>7, FineOne, DoesQuiet
  <2> QED
    BY <1>4, <2>2, <2>3, <2>4 DEF WVerdict, WFinish
<1>5. ASSUME NEW c, WReviewed(c) PROVE Quiet
  <2>0. Spent(c)
    BY <1>5 DEF WReviewed, Arrived, Back, Failed, Spent, Wide
  <2>1. UiNear(Reviewless(c))
    BY ClosedSound DEF Reviewless
  <2> QED
    BY <1>5, <2>0, <2>1, InvalidateQuiet, WGoesQuiet, FineNone, EndsQuiet DEF WReviewed
<1> QED
  BY <1>1, <1>2, <1>3, <1>4, <1>5

LEMMA KeptNear ==
  ASSUME NEW u, UiNear(u), NEW cards
  PROVE  UiNear(Kept(u, cards))
<1> DEFINE s == IF u.sheet.sugg \in cards THEN u.sheet ELSE NoSheet
           v == [u EXCEPT !.sheet = s]
<1>1. SheetSound(s)
  BY NoSheetSound DEF UiNear, UiSound
<1>2. PICK q : Kept(u, cards) = [v EXCEPT !.queue = q]
  <2>1. PICK x : Kept(u, cards) = [u EXCEPT !.sheet = s, !.queue.chosen = x]
    BY DEF Kept
  <2>2. DOMAIN u = {"route", "hub", "person", "queue", "sheet"}
    BY DEF UiNear, UiSound
  <2> HIDE DEF s
  <2>3. [u EXCEPT !.sheet = s, !.queue.chosen = x] = [v EXCEPT !.queue = [u.queue EXCEPT !.chosen = x]]
    BY <2>2
  <2> HIDE DEF v
  <2> QED
    BY <2>1, <2>3
<1> HIDE DEF s
<1>3. UiNear(v)
  BY <1>1, UiEdited
<1> HIDE DEF v
<1>4. UiNear([v EXCEPT !.queue = q])
  BY <1>3, UiEdited
<1> QED
  BY <1>2, <1>4

LEMMA ChosenNear ==
  ASSUME NEW u, UiNear(u), NEW choice
  PROVE  UiNear(Chosen(u, choice))
BY UiEdited DEF Chosen

LEMMA WebQueueCalm ==
  ASSUME Sound, Web
  PROVE  /\ WQueueMore => Quiet
         /\ \A c : WQueueBack(c) => Quiet
         /\ \A s : WCreate(s) => Quiet
         /\ \A s : WPreview(s) => Quiet
         /\ \A c : WPhotos(c) => Quiet
         /\ \A s : WSkip(s) => Quiet
         /\ \A s : WPick(s) => Quiet
         /\ \A f : WSearch(f) => Quiet
         /\ WListMore => Quiet
         /\ \A c : WPicksBack(c) => Quiet
         /\ \A p : WSelect(p) => Quiet
         /\ WAssign => Quiet
         /\ \A c : WCardDone(c) => Quiet
<1> USE DEF Sound
<1>0. UiNear(ui) /\ CallsNear(calls)
  BY NearSelf
<1> USE <1>0
<1>1. Fine({NextPage(ui, "queue")}) /\ Fine({NextPage(ui, "picker")})
  BY QuerySound, FineOne DEF WebKeys
<1>2. ASSUME WQueueMore PROVE Quiet
  BY <1>1, <1>2, DoesQuiet DEF WQueueMore
<1>3. ASSUME NEW c, WQueueBack(c) PROVE Quiet
  <2>0. Spent(c)
    BY <1>3 DEF WQueueBack, Arrived, Back, Failed, Spent, Wide
  <2> DEFINE u == [ui EXCEPT !.queue.cards = IF calls[c].op = "fresh" THEN @ \o calls[c].ans.items ELSE calls[c].ans.items,
                             !.queue.total = calls[c].ans.total]
  <2>1. UiNear(u)
    BY DEF UiNear, UiSound
  <2>2. UiNear(Kept(u, CardsOf(u)))
    <3> HIDE DEF u
    <3> QED
      BY <2>1, KeptNear
  <2>3. Answered(c, IF calls[c].step = "failed" THEN ui ELSE IF At("review") THEN Kept(u, CardsOf(u)) ELSE u)
    BY <1>3 DEF WQueueBack
  <2> HIDE DEF u
  <2> QED
    BY <2>0, <2>1, <2>2, <2>3, AnsweredQuiet
<1>4. ASSUME NEW s, WCreate(s) PROVE Quiet
  <2> DEFINE r == [Req(ui, "create", "card") EXCEPT !.of = s.of, !.sugg = s]
  <2>1. Plain(r)
    BY ReqPlain DEF Plain, CallFields
  <2>2. UiNear([ui EXCEPT !.queue.busy = Key(s)])
    BY UiEdited
  <2>3. Does([ui EXCEPT !.queue.busy = Key(s)], {r})
    BY <1>4 DEF WCreate
  <2> HIDE DEF r
  <2> QED
    BY <2>1, <2>2, <2>3, PlainSound, FineOne, DoesQuiet
<1>5. ASSUME NEW s, WPreview(s) PROVE Quiet
  <2> DEFINE r == [Req(ui, "photos", "preview") EXCEPT !.visit = 0, !.of = s.of]
             u == [ui EXCEPT !.sheet = [NoSheet EXCEPT !.kind = "preview", !.sugg = s, !.photos = "loading"]]
  <2>1. Plain(r)
    BY ReqPlain DEF Plain, CallFields
  <2>2. UiNear(u)
    BY OpenedSound, UiEdited
  <2>3. Does(u, {r})
    BY <1>5 DEF WPreview
  <2> HIDE DEF r, u
  <2> QED
    BY <2>1, <2>2, <2>3, PlainSound, FineOne, DoesQuiet
<1>6. ASSUME NEW c, WPhotos(c) PROVE Quiet
  <2>0. Spent(c)
    BY <1>6 DEF WPhotos, Arrived, Back, Failed, Spent, Wide
  <2>1. \A x : UiNear([ui EXCEPT !.sheet.photos = x])
    BY EditedSound, UiEdited DEF UiNear, UiSound
  <2> QED
    BY <1>6, <2>0, <2>1, FineNone, EndsQuiet DEF WPhotos
<1>7. ASSUME NEW s, WSkip(s) PROVE Quiet
  BY <1>7, KeptNear DEF WSkip, NotNow, Quiet
<1>8. ASSUME NEW s, WPick(s) PROVE Quiet
  <2> DEFINE sheet == [(IF Sheet("none") THEN NoSheet ELSE ui.sheet) EXCEPT !.kind = "picker", !.sugg = s]
             u == [ui EXCEPT !.sheet = sheet]
             v == [u EXCEPT !.queue.picks = [NoPicks EXCEPT !.of = Choice(u).term]]
  <2>1. UiNear(u)
    <3>1. SheetSound(sheet)
      BY NoSheetSound, EditedSound DEF UiNear, UiSound
    <3> HIDE DEF sheet
    <3> QED
      BY <3>1, UiEdited
  <2>2. UiNear(v)
    <3> HIDE DEF u
    <3> QED
      BY <2>1, UiEdited
  <2>3. Does(u, {}) \/ Does(v, {})
    BY <1>8 DEF WPick
  <2> HIDE DEF u, v
  <2> QED
    BY <2>1, <2>2, <2>3, FineNone, DoesQuiet
<1>9. ASSUME NEW f, WSearch(f) PROVE Quiet
  <2> DEFINE u == Chosen(ui, [Choice(ui) EXCEPT !.term = f])
  <2>1. UiNear(u)
    BY ChosenNear
  <2>2. Does([u EXCEPT !.queue.picks.failed = FALSE], {})
    BY <1>9 DEF WSearch
  <2> HIDE DEF u
  <2>3. UiNear([u EXCEPT !.queue.picks.failed = FALSE])
    BY <2>1, UiEdited
  <2> QED
    BY <2>2, <2>3, FineNone, DoesQuiet
<1>10. ASSUME WListMore PROVE Quiet
  BY <1>1, <1>10, DoesQuiet DEF WListMore
<1>11. ASSUME NEW c, WPicksBack(c) PROVE Quiet
  <2>0. Spent(c)
    BY <1>11 DEF WPicksBack, Arrived, Back, Failed, Spent, Wide
  <2>1. UiNear([ui EXCEPT !.queue.picks = WPicks(c)])
    BY UiEdited
  <2> QED
    BY <1>11, <2>0, <2>1, AnsweredQuiet DEF WPicksBack
<1>12. ASSUME NEW p, WSelect(p) PROVE Quiet
  <2>1. UiNear(Chosen(ui, [Choice(ui) EXCEPT !.who = p]))
    BY ChosenNear
  <2> QED
    BY <1>12, <2>1, FineNone, DoesQuiet DEF WSelect
<1>13. ASSUME WAssign PROVE Quiet
  <2> DEFINE who == Choice(ui).who
             r == [Req(ui, "join", "card") EXCEPT !.who = who, !.of = ui.sheet.sugg.of, !.sugg = ui.sheet.sugg]
  <2>1. Plain(r)
    <3> HIDE DEF who
    <3> QED
      BY ReqPlain DEF Plain, CallFields
  <2>2. UiNear([ui EXCEPT !.queue.busy = Key(ui.sheet.sugg)])
    BY UiEdited
  <2>3. Does([ui EXCEPT !.queue.busy = Key(ui.sheet.sugg)], {r})
    BY <1>13 DEF WAssign
  <2> HIDE DEF r
  <2> QED
    BY <2>1, <2>2, <2>3, PlainSound, FineOne, DoesQuiet
<1>14. ASSUME NEW c, WCardDone(c) PROVE Quiet
  <2>0. Spent(c)
    BY <1>14 DEF WCardDone, Arrived, Back, Failed, Spent, Wide
  <2> DEFINE s == calls[c].sugg
             freed == IF Here(c) THEN [ui EXCEPT !.queue.busy = Nil] ELSE ui
             gone == [freed EXCEPT !.queue.done = @ \cup {s}]
             done == IF Here(c) THEN Kept(gone, WCards \ {s}) ELSE ui
  <2>1. UiNear(freed)
    BY UiEdited
  <2>2. UiNear(gone)
    <3> HIDE DEF freed
    <3> QED
      BY <2>1, UiEdited
  <2>3. UiNear(done)
    <3> HIDE DEF gone
    <3> QED
      BY <2>2, KeptNear
  <2>4. Invalidate(c, done, TRUE) \/ Ends(c, freed, {})
    BY <1>14 DEF WCardDone
  <2> HIDE DEF done, freed
  <2> QED
    BY <2>0, <2>1, <2>3, <2>4, InvalidateQuiet, FineNone, EndsQuiet
<1> QED
  BY <1>2, <1>3, <1>4, <1>5, <1>6, <1>7, <1>8, <1>9, <1>10, <1>11, <1>12, <1>13, <1>14

(* Every step of the web screens leaves the server alone, and the hub with
   what it waits for or with a window of the filter it turns to. *)
LEMMA WebCalm == ASSUME Sound, WebNext PROVE Web /\ (Quiet \/ Turns)
<1>1. Web
  BY DEF WebNext, WSetFilter, WSearch, WOpen, WPickTarget, WSelect, WSaveName, WOpenSheet, WRetry, WMore, WOpenReview,
         WLeave, WClose, WUnpick, WConfirmMerge, WConfirmDelete, WQueueMore, WListMore, WAssign, WAccept, WNotNow, WReview,
         WCreate, WPreview, WSkip, WPick, WVerdict, WWindowsBack, WSuggested, WPeopleBack, WGone, WReviewed, WQueueBack,
         WPhotos, WPicksBack, WCardDone, WOnHub, WOnPerson, WIn, WOnReview, Arrived
<1> QED
  BY <1>1, FilterTurns, WindowTurns, WebHubCalm, WebPersonCalm, WebReviewCalm, WebQueueCalm DEF WebNext

(* ------------------------------- every step ----------------------------- *)

(* Serving or losing a request changes nothing of what it says. *)
LEMMA StepSound ==
  ASSUME NEW w, CallsSound(w, calls), NEW c \in Slots, NEW step, NEW ans,
         calls' = [calls EXCEPT ![c].step = step, ![c].ans = ans]
  PROVE  CallsSound(w, calls') /\ \A e \in Slots \ {c} : calls'[e] = calls[e]
<1> DEFINE r == calls[c]
           t == [[r EXCEPT !.step = step] EXCEPT !.ans = ans]
<1>1. DOMAIN r = CallFields /\ CallSound(w, r)
  BY DEF CallsSound, CallSound
<1>2. /\ DOMAIN t = DOMAIN r /\ t.from = r.from /\ t.of = r.of /\ t.no = r.no /\ t.unsure = r.unsure
      /\ t.given = r.given /\ t.op = r.op
  BY <1>1 DEF CallFields
<1>3. DOMAIN calls' = Slots /\ calls'[c] = t /\ \A e \in Slots \ {c} : calls'[e] = calls[e]
  BY DEF CallsSound
<1> HIDE DEF r, t
<1>4. Sent(t) = Sent(r)
  BY <1>2 DEF Sent
<1>5. CallSound(w, t)
  BY <1>1, <1>2, <1>4 DEF CallSound, SaysAll, SaysMost, Wide
<1> QED
  BY <1>3, <1>5 DEF CallsSound

(* What the server applies keeps its verdicts on people there are; what was
   rejected stays so, or goes where its person went. *)
Follows(d, e, r) ==
  /\ DbSound(e) /\ Spares(d, e)
  /\ \A f : \A p \in d.live \ e.live : Rejected(d, f, p) /\ r.op = "merge" =>
       p \in r.of /\ Rejected(e, f, r.who)

LEMMA AppliedFollows ==
  ASSUME NEW d, DbSound(d), NEW r, ~Refused(d, r), r.op = "create" => Unused(d) # {}
  PROVE  Follows(d, Applied(d, r), r)
<1>1. CASE r.op = "rename"
  <2>1. Applied(d, r) = Renamed(d, r.who, r.name)
    BY <1>1 DEF Applied
  <2> QED
    BY <1>1, <2>1, RenamedSpares DEF Follows
<1>2. CASE r.op = "merge"
  <2>1. Applied(d, r) = Merged(d, r.of, r.who)
    BY <1>2 DEF Applied
  <2>2. r.of \in SUBSET d.live /\ r.who \in d.live \ r.of
    BY <1>2 DEF Refused
  <2> DEFINE e == Merged(d, r.of, r.who)
  <2>3. /\ DbSound(e) /\ Spares(d, e) /\ e.live = d.live \ r.of
        /\ \A f : \A p \in r.of : Rejected(d, f, p) => Rejected(e, f, r.who)
    BY <2>2, MergedFollows
  <2> HIDE DEF e
  <2> QED
    BY <2>1, <2>3 DEF Follows, e
<1>3. CASE r.op = "delete"
  <2>1. Applied(d, r) = Deleted(d, r.who)
    BY <1>3 DEF Applied
  <2> QED
    BY <1>3, <2>1, DeletedSpares DEF Follows
<1>4. CASE r.op = "create"
  <2>1. Applied(d, r) = Created(d, r.of)
    BY <1>4 DEF Applied
  <2> QED
    BY <1>4, <2>1, CreatedSpares DEF Follows
<1>5. CASE r.op = "join"
  <2>1. Applied(d, r) = [d EXCEPT !.home = Assigned(d, r.of, r.who)]
    BY <1>5 DEF Applied
  <2> QED
    BY <1>5, <2>1, JoinedSpares DEF Follows
<1>6. CASE r.op = "review"
  <2>1. Applied(d, r) = Reviewed(d, r.who, r.of, r.no, r.unsure)
    BY <1>6 DEF Applied
  <2>2. r.who \in d.live
    BY <1>6 DEF Refused
  <2> QED
    BY <1>6, <2>1, <2>2, ReviewedSpares DEF Follows
<1>7. CASE r.op \notin {"rename", "merge", "delete", "create", "join", "review"}
  <2>1. Applied(d, r) = d
    BY <1>7 DEF Applied
  <2> QED
    BY <1>7, <2>1 DEF Follows, Spares
<1> QED
  BY <1>1, <1>2, <1>3, <1>4, <1>5, <1>6, <1>7

(* A step keeps what is sound, and a rejection stays on its person or goes to
   whom they are merged into. *)
Following ==
  /\ Sound'
  /\ Spares(db, db')
  /\ \A f : \A p \in db.live \ db'.live : Rejected(db, f, p) => \A q \in Absorber(p) : Rejected(db', f, q)

LEMMA CalmFollows == ASSUME Sound, Calm PROVE Following
BY DEF Sound, Calm, Following, Spares

LEMMA ServedFollows == ASSUME Sound, NEW c \in Slots, Served(c) PROVE Following
<1> DEFINE r == calls[c]
<1>1. UiSound(ui') /\ client' = client
  BY DEF Served, Sound
<1>2. CASE Refused(db, r) \/ Malformed(r)
  <2>1. calls' = [calls EXCEPT ![c].step = "failed", ![c].ans = "404"] /\ db' = db
    BY <1>2 DEF Served
  <2>2. CallsSound(client, calls')
    BY <2>1, StepSound DEF Sound
  <2> QED
    BY <1>1, <2>1, <2>2, CalmFollows DEF Calm
<1>3. CASE ~(Refused(db, r) \/ Malformed(r))
  <2>1. calls' = [calls EXCEPT ![c].step = "back", ![c].ans = Answer(db, r)] /\ db' = Applied(db, r)
    BY <1>3 DEF Served
  <2>2. CallsSound(client, calls') /\ \A e \in Slots \ {c} : calls'[e] = calls[e]
    BY <2>1, StepSound DEF Sound
  <2>3. r.op = "create" => Unused(db) # {}
    BY DEF Served
  <2>4. Follows(db, db', r)
    BY <1>3, <2>1, <2>3, AppliedFollows DEF Sound
  <2>5. \A p : \A q \in Absorber(p) : r.op = "merge" /\ q = r.who
    <3> SUFFICES ASSUME NEW p, NEW q \in Absorber(p) PROVE r.op = "merge" /\ q = r.who
      OBVIOUS
    <3>1. PICK e \in Slots : /\ calls[e].op = "merge" /\ calls[e].step = "sent" /\ calls'[e].step = "back"
                             /\ q = calls[e].who
      BY DEF Absorber
    <3>2. e = c
      BY <2>2, <3>1
    <3> QED
      BY <3>1, <3>2
  <2> HIDE DEF r
  <2> QED
    BY <1>1, <2>2, <2>4, <2>5 DEF Following, Follows, Sound
<1> QED
  BY <1>2, <1>3

LEMMA DroppedFollows == ASSUME Sound, NEW c \in Slots, Dropped(c) PROVE Following
<1>1. CallsSound(client, calls')
  BY StepSound DEF Dropped, Sound
<1>2. Calm
  BY <1>1 DEF Dropped, Calm, Sound
<1> QED
  BY <1>2, CalmFollows

LEMMA ReclusterFollows == ASSUME Sound, Recluster PROVE Following
<1>1. DbSound(db') /\ Spares(db, db')
  BY ClusteredSpares DEF Recluster, Sound
<1>2. \A p : Absorber(p) = {}
  BY DEF Recluster, Absorber
<1> QED
  BY <1>1, <1>2 DEF Recluster, Following, Sound

(* What a step of the clients does. *)
LEMMA ClientSteps ==
  ASSUME Sound, MobileNext \/ WebNext
  PROVE  Calm /\ (Quiet \/ (Mobile /\ (Asks \/ Pages \/ \E c \in Slots : HubAnswer(c))) \/ (Web /\ Turns))
<1>1. CASE MobileNext
  <2>1. Mobile /\ MobileStep
    BY <1>1, MobileCalm
  <2>2. Quiet \/ Asks \/ Pages \/ (Calm /\ \E c \in Slots : HubAnswer(c))
    BY <2>1 DEF MobileStep
  <2>3. Calm
    BY <2>2, QuietCalm DEF Asks, Pages
  <2> QED
    BY <2>1, <2>2, <2>3
<1>2. CASE WebNext
  <2>1. Web /\ (Quiet \/ Turns)
    BY <1>2, WebCalm
  <2> QED
    BY <2>1, QuietCalm DEF Turns
<1> QED
  BY <1>1, <1>2

LEMMA NextFollows == ASSUME Sound, [Next]_vars PROVE Following
<1>1. CASE MobileNext
  BY <1>1, ClientSteps, CalmFollows
<1>2. CASE WebNext
  BY <1>2, ClientSteps, CalmFollows
<1>3. ASSUME NEW c \in Slots, Served(c) PROVE Following
  BY <1>3, ServedFollows
<1>4. ASSUME NEW c \in Slots, Dropped(c) PROVE Following
  BY <1>4, DroppedFollows
<1>5. CASE Recluster
  BY <1>5, ReclusterFollows
<1>6. CASE UNCHANGED vars
  BY <1>6, CalmFollows DEF vars, Calm, Sound
<1> QED
  BY <1>1, <1>2, <1>3, <1>4, <1>5, <1>6 DEF Next

LEMMA InitSound == ASSUME Init PROVE Sound
<1>0. client \in {"mobile", "web"}
  BY DEF Init
<1>1. DbSound(db)
  BY DatabasesAssumption DEF Init, DbSound, Database, Verdicts
<1>2. UiSound(NoUi)
  <2>1. NoUi.sheet = NoSheet /\ DOMAIN NoUi = {"route", "hub", "person", "queue", "sheet"}
    BY DEF NoUi
  <2>2. RouteSound(NoUi.route)
    BY DEF NoUi, RouteSound
  <2>3. DOMAIN NoUi.hub = HubFields
    BY DEF NoUi, NoHub, HubFields
  <2> QED
    BY <2>1, <2>2, <2>3, NoSheetSound DEF UiSound
<1>3. UiSound(ui)
  BY <1>2, HubChanged DEF Init
<1>4. CallsSound(client, calls)
  <2> DEFINE none == [c \in Slots |-> NoCall]
  <2>1. CallsSound(client, none)
    BY NoCallPlain, PlainSound DEF CallsSound
  <2>2. CASE client = "mobile"
    <3>1. calls = Issued(none, <<Window1(NoUi), Req(NoUi, "suggest", "hub")>>)
      BY <2>2 DEF Init
    <3> DEFINE q == Window1(NoUi)
               r == Req(NoUi, "suggest", "hub")
    <3>2. CallSound(client, q) /\ CallSound(client, r)
      BY <2>2, WindowSound
    <3> HIDE DEF none, q, r
    <3>3. \A i \in DOMAIN <<q, r>> : CallSound(client, <<q, r>>[i])
      BY <3>2
    <3> QED
      BY <2>1, <3>1, <3>3, IssuedSound DEF q, r
  <2>3. CASE client # "mobile"
    <3>1. calls = Issued(none, <<Query(NoUi, "hub")>>)
      BY <2>3 DEF Init
    <3>2. \A i \in DOMAIN <<Query(NoUi, "hub")>> : CallSound(client, <<Query(NoUi, "hub")>>[i])
      BY <1>0, <2>3, QuerySound DEF WebKeys
    <3> HIDE DEF none
    <3> QED
      BY <2>1, <3>1, <3>2, IssuedSound
  <2> QED
    BY <2>2, <2>3
<1> QED
  BY <1>0, <1>1, <1>3, <1>4 DEF Sound

(* -------------------------- the rows of the hub ------------------------- *)

(* On mobile no window is newer than the newest one asked for, and that one
   is of the filter that is lit; a page in flight or answered has each id
   once; and the hub shows its filter unless the newest is still in flight. *)
SlotFollows(h, r) ==
  /\ Wide(r) => r.seq \in Nat /\ r.seq <= h.seq /\ (r.seq = h.seq => r.filter = h.filter)
  /\ ~Beside(r) => r.op = "window" /\ r.page \in Nat \ {0} /\ (r.step = "back" => RowsOk(r.ans.items))
HubRows(h) == h.seq \in Nat /\ h.next \in Nat \ {0} /\ (h.rows # Nil => RowsOk(h.rows))
Newest(h, cs) == Settles(h) \/ \E c \in Slots : Wide(cs[c]) /\ cs[c].seq = h.seq
MobileHub(h, cs) == HubRows(h) /\ (\A c \in Slots : SlotFollows(h, cs[c])) /\ Newest(h, cs)
Hub == /\ client = "mobile" => MobileHub(ui.hub, calls)
       /\ client = "web" => HubWaits(ui.hub, calls)

LEMMA BesideFollows == ASSUME NEW h, NEW r, Beside(r) PROVE SlotFollows(h, r)
BY DEF SlotFollows, Beside, Wide

LEMMA WideBeside == ASSUME NEW r, Wide(r) PROVE ~Beside(r)
BY DEF Wide, Beside

LEMMA FollowsLike ==
  ASSUME NEW h, NEW k, SameHub(h, k)
  PROVE  /\ HubRows(h) => HubRows(k)
         /\ \A r : SlotFollows(h, r) => SlotFollows(k, r)
         /\ Settles(h) => Settles(k)
BY DEF SameHub, HubRows, SlotFollows, Settles

LEMMA QuietHub == ASSUME Sound, Hub, Quiet PROVE Hub'
<1>1. PICK h, k, ds : h = ui.hub /\ k = ui'.hub /\ ds = calls'
  OBVIOUS
<1>2. client' = client /\ (SameHub(h, k) \/ (client = "web" /\ Settles(k))) /\ \A c \in Slots : Carried(calls[c], ds[c])
  BY <1>1 DEF Quiet, UiNear, CallsNear
<1>3. ASSUME client = "mobile" PROVE MobileHub(k, ds)
  <2>1. SameHub(h, k) /\ MobileHub(h, calls)
    BY <1>1, <1>2, <1>3 DEF Hub
  <2>2. \A c \in Slots : ds[c] = calls[c] \/ (~Wide(calls[c]) /\ Beside(ds[c]))
    BY <1>2, <1>3 DEF Carried
  <2>3. HubRows(k) /\ \A c \in Slots : SlotFollows(k, ds[c])
    BY <2>1, <2>2, FollowsLike, BesideFollows DEF MobileHub
  <2>4. CASE Settles(h)
    BY <2>1, <2>3, <2>4, FollowsLike DEF MobileHub, Newest
  <2>5. CASE \E c \in Slots : Wide(calls[c]) /\ calls[c].seq = h.seq
    <3>1. PICK c \in Slots : Wide(calls[c]) /\ calls[c].seq = h.seq
      BY <2>5
    <3>2. Wide(ds[c]) /\ ds[c].seq = k.seq
      BY <2>1, <2>2, <3>1 DEF SameHub
    <3> QED
      BY <2>3, <3>2 DEF MobileHub, Newest
  <2> QED
    BY <2>1, <2>4, <2>5 DEF MobileHub, Newest
<1>4. ASSUME client = "web" PROVE HubWaits(k, ds)
  <2>1. HubWaits(h, calls)
    BY <1>1, <1>4 DEF Hub
  <2>2. CASE Settles(k)
    BY <2>2 DEF HubWaits
  <2>3. CASE ~Settles(k)
    <3>1. SameHub(h, k) /\ ~Settles(h)
      BY <1>2, <2>3, FollowsLike
    <3>2. PICK c \in Slots : Wide(calls[c]) /\ calls[c].filter = h.filter
      BY <2>1, <3>1 DEF HubWaits
    <3>3. Wide(ds[c]) /\ ds[c].filter = k.filter
      BY <1>1, <1>2, <1>4, <3>1, <3>2 DEF Carried, SameHub
    <3> QED
      BY <3>3 DEF HubWaits
  <2> QED
    BY <2>2, <2>3
<1> QED
  BY <1>1, <1>2, <1>3, <1>4 DEF Hub

LEMMA AsksHub == ASSUME Sound, Hub, Mobile, Asks PROVE Hub'
<1>1. PICK h, k, ds : h = ui.hub /\ k = ui'.hub /\ ds = calls'
  OBVIOUS
<1>2. /\ client = "mobile" /\ client' = client /\ MobileHub(h, calls) /\ AskedFrom(h, k)
      /\ \A c \in Slots : ds[c] = calls[c] \/ Beside(ds[c]) \/ Wanted(k, ds[c])
      /\ \E c \in Slots : Wanted(k, ds[c])
  BY <1>1 DEF Mobile, Hub, Asks, Calm
<1>3. k.seq = h.seq + 1 /\ h.seq \in Nat /\ HubRows(k)
  BY <1>2 DEF AskedFrom, MobileHub, HubRows
<1>4. ASSUME NEW r, Wanted(k, r) PROVE SlotFollows(k, r) /\ Wide(r) /\ r.seq = k.seq
  BY <1>3, <1>4 DEF Wanted, SlotFollows, Wide
<1>5. ASSUME NEW r, SlotFollows(h, r) PROVE SlotFollows(k, r)
  BY <1>3, <1>5 DEF SlotFollows
<1>6. \A c \in Slots : SlotFollows(k, ds[c])
  BY <1>2, <1>4, <1>5, BesideFollows DEF MobileHub
<1>7. Newest(k, ds)
  BY <1>2, <1>4 DEF Newest
<1> QED
  BY <1>1, <1>2, <1>3, <1>6, <1>7 DEF Hub, MobileHub

LEMMA PagesHub == ASSUME Sound, Hub, Mobile, Pages PROVE Hub'
<1>1. PICK h, k, ds : h = ui.hub /\ k = ui'.hub /\ ds = calls'
  OBVIOUS
<1>2. /\ client = "mobile" /\ client' = client /\ MobileHub(h, calls) /\ SameHub(h, k)
      /\ \A c \in Slots : Carried(calls[c], ds[c]) \/ (~Wide(calls[c]) /\ NextOf(h, ds[c]))
  BY <1>1 DEF Mobile, Hub, Pages, Calm, UiNear
<1>3. \A c \in Slots : ds[c] = calls[c] \/ (~Wide(calls[c]) /\ (Beside(ds[c]) \/ NextOf(h, ds[c])))
  BY <1>2 DEF Carried
<1>4. ASSUME NEW r, NextOf(h, r) PROVE SlotFollows(k, r)
  BY <1>2, <1>4 DEF NextOf, SlotFollows, Wide, MobileHub, HubRows
<1>5. HubRows(k) /\ \A c \in Slots : SlotFollows(k, ds[c])
  BY <1>2, <1>3, <1>4, FollowsLike, BesideFollows DEF MobileHub
<1>6. CASE Settles(h)
  BY <1>1, <1>2, <1>5, <1>6, FollowsLike DEF MobileHub, Newest, Hub
<1>7. CASE \E c \in Slots : Wide(calls[c]) /\ calls[c].seq = h.seq
  <2>1. PICK c \in Slots : Wide(calls[c]) /\ calls[c].seq = h.seq
    BY <1>7
  <2>2. Wide(ds[c]) /\ ds[c].seq = k.seq
    BY <1>2, <1>3, <2>1 DEF SameHub
  <2> QED
    BY <1>1, <1>2, <1>5, <2>2 DEF MobileHub, Newest, Hub
<1> QED
  BY <1>2, <1>6, <1>7 DEF MobileHub, Newest

(* An answered window, the newest or not, leaves the hub settled or waiting
   for another. *)
LEMMA AnswerHub ==
  ASSUME Sound, Hub, Mobile, NEW c \in Slots, NEW h, ui' = [ui EXCEPT !.hub = h] \/ (ui' = ui /\ h = ui.hub),
         calls' = Freed(c), UNCHANGED client, HubRows(h), h.seq = ui.hub.seq, h.filter = ui.hub.filter,
         Wide(calls[c]) /\ calls[c].seq = h.seq => Settles(h),
         Settles(ui.hub) => Settles(h)
  PROVE  Hub'
<1>1. PICK ds : ds = calls'
  OBVIOUS
<1>2. client = "mobile" /\ client' = client /\ MobileHub(ui.hub, calls) /\ ui'.hub = h
  BY DEF Mobile, Hub, Sound, UiSound
<1>3. \A e \in Slots : ds[e] = IF e = c THEN NoCall ELSE calls[e]
  BY <1>1 DEF Freed, Sound, CallsSound
<1>4. Beside(NoCall)
  BY NoCallPlain, PlainSound
<1>5. \A r : SlotFollows(ui.hub, r) => SlotFollows(h, r)
  BY DEF SlotFollows
<1>6. \A e \in Slots : SlotFollows(h, ds[e])
  BY <1>2, <1>3, <1>4, <1>5, BesideFollows DEF MobileHub
<1>7. Newest(h, ds)
  BY <1>2, <1>3 DEF MobileHub, Newest
<1> QED
  BY <1>1, <1>2, <1>6, <1>7 DEF Hub, MobileHub

LEMMA WindowHub == ASSUME Sound, Hub, NEW c \in Slots, MWindowBack(c) PROVE Hub'
<1>1. Mobile /\ client = "mobile" /\ MobileHub(ui.hub, calls) /\ DOMAIN ui.hub = HubFields
  BY DEF MWindowBack, Mobile, Hub, Sound, UiSound
<1>2. SlotFollows(ui.hub, calls[c]) /\ HubRows(ui.hub)
  BY <1>1 DEF MobileHub
<1>3. Wide(calls[c]) /\ ~Beside(calls[c])
  BY DEF MWindowBack, Back, Failed, Wide, Beside
<1>4. CASE Back(c, "window", "hub") /\ MStay(c, [ui EXCEPT !.hub = MWindow(c)])
  <2>1. PICK h : h = MWindow(c)
    OBVIOUS
  <2>2. CASE calls[c].seq # ui.hub.seq
    <3>1. h = ui.hub
      BY <2>1, <2>2 DEF MWindow
    <3> QED
      BY <1>1, <1>2, <1>4, <2>1, <2>2, <3>1, AnswerHub DEF MStay
  <2>3. CASE calls[c].seq = ui.hub.seq
    <3>1. PICK a, more : a = calls[c].ans /\ h = [ui.hub EXCEPT !.rows = a.items, !.of = calls[c].filter, !.next = 2, !.more = more, !.failed = FALSE]
      BY <2>1, <2>3 DEF MWindow
    <3>2. /\ h.rows = a.items /\ h.of = calls[c].filter /\ h.next = 2
          /\ h.seq = ui.hub.seq /\ h.filter = ui.hub.filter
      BY <1>1, <3>1 DEF HubFields
    <3>3. RowsOk(a.items) /\ calls[c].filter = ui.hub.filter
      BY <1>2, <1>3, <1>4, <2>3, <3>1 DEF SlotFollows, Back
    <3>4. HubRows(h) /\ Settles(h)
      BY <1>2, <3>2, <3>3 DEF HubRows, Settles
    <3> QED
      BY <1>1, <1>4, <2>1, <3>2, <3>4, AnswerHub DEF MStay
  <2> QED
    BY <2>2, <2>3
<1>5. CASE Failed(c, "window", "hub") /\ MStay(c, [ui EXCEPT !.hub = MWindowFailed(c)])
  <2>1. PICK h : h = MWindowFailed(c)
    OBVIOUS
  <2>2. CASE calls[c].seq # ui.hub.seq
    <3>1. h = ui.hub
      BY <2>1, <2>2 DEF MWindowFailed
    <3> QED
      BY <1>1, <1>2, <1>5, <2>1, <2>2, <3>1, AnswerHub DEF MStay
  <2>3. CASE calls[c].seq = ui.hub.seq
    <3>1. PICK x : h = [ui.hub EXCEPT !.failed = TRUE, !.error = x]
      BY <2>1, <2>3 DEF MWindowFailed
    <3>2. /\ h.failed /\ h.rows = ui.hub.rows /\ h.next = ui.hub.next
          /\ h.seq = ui.hub.seq /\ h.filter = ui.hub.filter
      BY <1>1, <3>1 DEF HubFields
    <3>3. HubRows(h) /\ Settles(h)
      BY <1>2, <3>2 DEF HubRows, Settles
    <3> QED
      BY <1>1, <1>5, <2>1, <3>2, <3>3, AnswerHub DEF MStay
  <2> QED
    BY <2>2, <2>3
<1> QED
  BY <1>4, <1>5 DEF MWindowBack

LEMMA MoreHub == ASSUME Sound, Hub, NEW c \in Slots, MMoreBack(c) PROVE Hub'
<1> DEFINE hub == [ui.hub EXCEPT !.loading = FALSE]
<1>1. Mobile /\ client = "mobile" /\ MobileHub(ui.hub, calls) /\ DOMAIN ui.hub = HubFields
  BY DEF MMoreBack, Mobile, Hub, Sound, UiSound
<1>2. SlotFollows(ui.hub, calls[c]) /\ HubRows(ui.hub)
  BY <1>1 DEF MobileHub
<1>3. ~Wide(calls[c]) /\ ~Beside(calls[c])
  BY DEF MMoreBack, Back, Failed, Wide, Beside
<1>4. DOMAIN hub = HubFields /\ SameHub(ui.hub, hub)
  BY <1>1 DEF SameHub, HubFields
<1>5. PICK a : a = calls[c].ans
  OBVIOUS
<1>6. \/ MStay(c, [ui EXCEPT !.hub = hub])
      \/ /\ Back(c, "window", "more")
         /\ MStay(c, [ui EXCEPT !.hub = [hub EXCEPT !.next = @ + 1, !.more = Len(a.items) < a.total,
                                          !.rows = IF @ = Nil THEN a.items ELSE @ \o Fresh(@, a.items)]])
  BY <1>5, Zenon DEF MMoreBack
<1> HIDE DEF hub
<1>7. CASE MStay(c, [ui EXCEPT !.hub = hub])
  <2>1. HubRows(hub) /\ (Settles(ui.hub) => Settles(hub)) /\ hub.seq = ui.hub.seq /\ hub.filter = ui.hub.filter
    BY <1>2, <1>4, FollowsLike DEF SameHub
  <2> QED
    BY <1>1, <1>3, <1>7, <2>1, AnswerHub DEF MStay
<1>8. CASE /\ Back(c, "window", "more")
           /\ MStay(c, [ui EXCEPT !.hub = [hub EXCEPT !.next = @ + 1, !.more = Len(a.items) < a.total,
                                            !.rows = IF @ = Nil THEN a.items ELSE @ \o Fresh(@, a.items)]])
  <2>1. PICK rows : rows = IF hub.rows = Nil THEN a.items ELSE hub.rows \o Fresh(hub.rows, a.items)
    OBVIOUS
  <2>2. PICK x : x = (Len(a.items) < a.total)
    OBVIOUS
  <2>3. PICK h : h = [hub EXCEPT !.next = hub.next + 1, !.more = x, !.rows = rows]
    OBVIOUS
  <2>4. MStay(c, [ui EXCEPT !.hub = h])
    BY <1>8, <2>1, <2>2, <2>3
  <2>5. RowsOk(a.items)
    BY <1>2, <1>3, <1>5, <1>8 DEF SlotFollows, Back
  <2>6. RowsOk(rows)
    BY <1>2, <1>4, <2>1, <2>5, FreshRows DEF HubRows, SameHub
  <2>7. /\ h.rows = rows /\ h.next = hub.next + 1 /\ h.seq = hub.seq /\ h.filter = hub.filter
        /\ h.of = hub.of /\ h.failed = hub.failed
    BY <1>4, <2>3 DEF HubFields
  <2>8. HubRows(h) /\ (Settles(ui.hub) => Settles(h)) /\ h.seq = ui.hub.seq /\ h.filter = ui.hub.filter
    BY <1>2, <1>4, <2>6, <2>7 DEF HubRows, SameHub, Settles
  <2> QED
    BY <1>1, <1>3, <2>4, <2>8, AnswerHub DEF MStay
<1> QED
  BY <1>6, <1>7, <1>8

LEMMA SeqMade == ASSUME NEW V, NEW n \in Nat, NEW t \in [1..n -> V] PROVE t \in Seq(V)
OBVIOUS

LEMMA RenamedRows ==
  ASSUME NEW rows, RowsOk(rows), NEW who, NEW name, NEW t,
         t = [i \in DOMAIN rows |-> IF rows[i].id = who THEN [rows[i] EXCEPT !.name = name] ELSE rows[i]]
  PROVE  RowsOk(t)
<1>1. \A i \in DOMAIN rows : DOMAIN t[i] = DOMAIN rows[i] /\ t[i].id = rows[i].id
  BY DEF RowsOk
<1>2. DOMAIN t = DOMAIN rows
  OBVIOUS
<1>3. Len(rows) \in Nat /\ DOMAIN rows = 1..Len(rows)
  BY DEF RowsOk
<1>4. t = [i \in 1..Len(rows) |-> t[i]]
  BY <1>3
<1>5. t \in Seq({t[i] : i \in DOMAIN t})
  <2>1. PICK n, V : n = Len(rows) /\ V = {t[i] : i \in DOMAIN t}
    OBVIOUS
  <2>2. t \in [1..n -> V] /\ n \in Nat
    BY <1>2, <1>3, <1>4, <2>1
  <2>3. t \in Seq(V)
    BY <2>2, SeqMade
  <2> QED
    BY <2>1, <2>3
<1> QED
  BY <1>1, <1>2, <1>5 DEF RowsOk

LEMMA RenamedHub == ASSUME Sound, Hub, NEW c \in Slots, MRenamed(c) PROVE Hub'
<1>1. Mobile /\ client = "mobile" /\ MobileHub(ui.hub, calls) /\ DOMAIN ui.hub = HubFields
  BY DEF MRenamed, Mobile, Hub, Sound, UiSound
<1>2. HubRows(ui.hub) /\ ~Wide(calls[c])
  BY <1>1 DEF MobileHub, MRenamed, Back, Failed, Wide
<1>3. PICK named : named = [i \in DOMAIN ui.hub.rows |->
             IF ui.hub.rows[i].id = calls[c].who THEN [ui.hub.rows[i] EXCEPT !.name = calls[c].name] ELSE ui.hub.rows[i]]
  OBVIOUS
<1>4. PICK rows : rows = IF ui.hub.rows = Nil THEN Nil ELSE named
  OBVIOUS
<1>5. PICK h : h = [ui.hub EXCEPT !.rows = rows]
  OBVIOUS
<1>6. MStay(c, [ui EXCEPT !.hub = h]) \/ MStay(c, ui)
  BY <1>3, <1>4, <1>5 DEF MRenamed, Sound, UiSound
<1>7. rows # Nil => RowsOk(rows)
  BY <1>2, <1>3, <1>4, RenamedRows DEF HubRows
<1>8. /\ h.rows = rows /\ h.next = ui.hub.next /\ h.seq = ui.hub.seq /\ h.filter = ui.hub.filter
      /\ h.of = ui.hub.of /\ h.failed = ui.hub.failed
  BY <1>1, <1>5 DEF HubFields
<1>9. HubRows(h) /\ (Settles(ui.hub) => Settles(h))
  BY <1>2, <1>7, <1>8 DEF HubRows, Settles
<1>10. CASE MStay(c, [ui EXCEPT !.hub = h])
  BY <1>1, <1>2, <1>8, <1>9, <1>10, AnswerHub DEF MStay
<1>11. CASE MStay(c, ui)
  BY <1>1, <1>2, <1>11, AnswerHub DEF MStay
<1> QED
  BY <1>6, <1>10, <1>11

(* Serving or losing a request leaves what the hub waits for. *)
LEMMA SteppedHub ==
  ASSUME Sound, Hub, NEW c \in Slots, NEW step, NEW ans, UNCHANGED <<client, ui>>,
         calls' = [calls EXCEPT ![c].step = step, ![c].ans = ans],
         calls[c].op = "window" /\ calls[c].page \in Nat \ {0} /\ step = "back" => RowsOk(ans.items)
  PROVE  Hub'
<1> DEFINE r == calls[c]
           t == [[r EXCEPT !.step = step] EXCEPT !.ans = ans]
<1>1. DOMAIN r = CallFields
  BY DEF Sound, CallsSound, CallSound
<1>2. /\ t.op = r.op /\ t.from = r.from /\ t.filter = r.filter /\ t.seq = r.seq /\ t.page = r.page
      /\ t.step = step /\ t.ans = ans
  BY <1>1 DEF CallFields
<1>3. PICK ds, s : ds = calls' /\ s = t
  OBVIOUS
<1>4. \A e \in Slots : ds[e] = IF e = c THEN s ELSE calls[e]
  BY <1>3 DEF Sound, CallsSound
<1>5. /\ s.op = calls[c].op /\ s.from = calls[c].from /\ s.filter = calls[c].filter /\ s.seq = calls[c].seq
      /\ s.page = calls[c].page /\ s.step = step /\ s.ans = ans
  BY <1>2, <1>3
<1> HIDE DEF r, t
<1>6. (Wide(s) <=> Wide(calls[c])) /\ (Beside(s) <=> Beside(calls[c]))
  BY <1>5 DEF Wide, Beside
<1>7. \A e \in Slots : /\ Wide(ds[e]) <=> Wide(calls[e])
                       /\ ds[e].seq = calls[e].seq /\ ds[e].filter = calls[e].filter
  BY <1>4, <1>5, <1>6
<1>8. ASSUME client = "mobile" PROVE MobileHub(ui.hub, ds)
  <2>1. MobileHub(ui.hub, calls)
    BY <1>8 DEF Hub
  <2>2. SlotFollows(ui.hub, s)
    BY <1>5, <1>6, <2>1 DEF MobileHub, SlotFollows
  <2>3. \A e \in Slots : SlotFollows(ui.hub, ds[e])
    BY <1>4, <2>1, <2>2 DEF MobileHub
  <2>4. Newest(ui.hub, ds)
    BY <1>7, <2>1 DEF MobileHub, Newest
  <2> QED
    BY <2>1, <2>3, <2>4 DEF MobileHub
<1>9. client = "web" => HubWaits(ui.hub, ds)
  BY <1>7 DEF Hub, HubWaits
<1> QED
  BY <1>3, <1>8, <1>9 DEF Hub

LEMMA ServedHub == ASSUME Sound, Hub, NEW c \in Slots, Served(c) PROVE Hub'
<1>1. UNCHANGED <<client, ui>>
  BY DEF Served
<1>2. CASE calls' = [calls EXCEPT ![c].step = "failed", ![c].ans = "404"]
  BY <1>1, <1>2, SteppedHub
<1>3. CASE calls' = [calls EXCEPT ![c].step = "back", ![c].ans = Answer(db, calls[c])]
  <2>1. ASSUME calls[c].op = "window", calls[c].page \in Nat \ {0} PROVE RowsOk(Answer(db, calls[c]).items)
    <3>1. Answer(db, calls[c]) = ListPage(db, calls[c].filter, calls[c].page)
      BY <2>1 DEF Answer
    <3>2. db.live \subseteq People
      BY DEF Sound, DbSound
    <3> QED
      BY <2>1, <3>1, <3>2, ListPageRows
  <2>2. PICK a : a = Answer(db, calls[c])
    OBVIOUS
  <2> QED
    BY <1>1, <1>3, <2>1, <2>2, SteppedHub
<1> QED
  BY <1>2, <1>3, Zenon DEF Served

LEMMA DroppedHub == ASSUME Sound, Hub, NEW c \in Slots, Dropped(c) PROVE Hub'
BY SteppedHub DEF Dropped

LEMMA SameHubStays == ASSUME Hub, UNCHANGED <<client, ui, calls>> PROVE Hub'
BY DEF Hub

LEMMA NextHub == ASSUME Sound, Hub, [Next]_vars PROVE Hub'
<1>1. CASE MobileNext \/ WebNext
  <2>1. Calm /\ (Quiet \/ (Mobile /\ (Asks \/ Pages \/ \E c \in Slots : HubAnswer(c))) \/ (Web /\ Turns))
    BY <1>1, ClientSteps
  <2>2. CASE Web /\ Turns
    BY <2>2 DEF Web, Turns, Calm, Hub
  <2>3. ASSUME NEW c \in Slots, HubAnswer(c) PROVE Hub'
    BY <2>3, WindowHub, MoreHub, RenamedHub DEF HubAnswer
  <2> QED
    BY <2>1, <2>2, <2>3, QuietHub, AsksHub, PagesHub
<1>2. ASSUME NEW c \in Slots, Served(c) PROVE Hub'
  BY <1>2, ServedHub
<1>3. ASSUME NEW c \in Slots, Dropped(c) PROVE Hub'
  BY <1>3, DroppedHub
<1>4. CASE Recluster
  BY <1>4, SameHubStays DEF Recluster
<1>5. CASE UNCHANGED vars
  BY <1>5, SameHubStays DEF vars
<1> QED
  BY <1>1, <1>2, <1>3, <1>4, <1>5 DEF Next

LEMMA InitHub == ASSUME Init PROVE Hub
<1>1. ASSUME client = "mobile" PROVE MobileHub(ui.hub, calls)
  <2> DEFINE none == [c \in Slots |-> NoCall]
             reqs == <<Window1(NoUi), Req(NoUi, "suggest", "hub")>>
  <2>1. ui = Asked(NoUi) /\ calls = Issued(none, reqs)
    BY <1>1 DEF Init
  <2>2. /\ ui.hub.seq = 1 /\ ui.hub.next = 2 /\ ui.hub.rows = Nil /\ ui.hub.of = "all" /\ ui.hub.filter = "all"
    BY <2>1 DEF Asked, NoUi, NoHub
  <2>3. HubRows(ui.hub) /\ Newest(ui.hub, calls)
    BY <2>2 DEF HubRows, Newest, Settles
  <2>4. PICK q, s : q = Window1(NoUi) /\ s = Req(NoUi, "suggest", "hub")
    OBVIOUS
  <2>5. SlotFollows(ui.hub, q)
    <3>1. q.op = "window" /\ q.from = "hub" /\ q.seq = 1 /\ q.page = 1 /\ q.filter = "all" /\ q.step = "sent"
      BY <2>4 DEF Window1, Req, NoCall, NoUi, NoHub
    <3> QED
      BY <2>2, <3>1 DEF SlotFollows
  <2>6. SlotFollows(ui.hub, s)
    BY <2>4, WindowSound, BesideFollows
  <2>7. PICK both : both = <<q, s>>
    OBVIOUS
  <2>8. \A i \in DOMAIN both : SlotFollows(ui.hub, both[i])
    BY <2>5, <2>6, <2>7
  <2>9. SlotFollows(ui.hub, NoCall)
    BY NoCallPlain, PlainSound, BesideFollows
  <2>10. PICK at : at = none
    OBVIOUS
  <2>11. \A c \in Slots : at[c] = NoCall
    BY <2>10
  <2>12. calls = Issued(at, both)
    BY <2>1, <2>4, <2>7, <2>10
  <2> HIDE DEF none, reqs
  <2>13. \A c \in Slots : SlotFollows(ui.hub, calls[c])
    BY <2>8, <2>9, <2>11, <2>12, IssuedCases
  <2> QED
    BY <2>3, <2>13 DEF MobileHub
<1>2. ASSUME client = "web" PROVE HubWaits(ui.hub, calls)
  BY <1>2 DEF Init, NoUi, NoHub, HubWaits, Settles
<1> QED
  BY <1>1, <1>2 DEF Hub

(* ------------------------------- the theorems --------------------------- *)

(* The server's verdicts are on people there are, the lists of an open review
   are the verdicts given, and a request of a finished review says them. *)
THEOREM PeopleSound == Spec => []Sound
<1>1. Sound /\ [Next]_vars => Sound'
  BY NextFollows DEF Following
<1> QED
  BY InitSound, <1>1, PTL DEF Spec

(* A finished review sends no verdict the user did not give; the mobile one
   sends all of them, the web one all but at most one. *)
THEOREM ReviewsKeepVerdicts == Spec => []VerdictsKept
<1>1. Sound => VerdictsKept
  <2> SUFFICES ASSUME Sound, NEW c \in Slots, calls[c].from = "stepper"
               PROVE  /\ Sent(calls[c]) \subseteq Meant(calls[c].given)
                      /\ client = "mobile" => Sent(calls[c]) = Meant(calls[c].given)
                      /\ client = "web" => Cardinality(Meant(calls[c].given) \ Sent(calls[c])) <= 1
    BY Zenon DEF VerdictsKept, Meant
  <2> DEFINE given == Meant(calls[c].given)
             sent == Sent(calls[c])
  <2>1. client = "mobile" => sent = given
    BY DEF Sound, CallsSound, CallSound, SaysAll
  <2>2. client = "web" => sent \subseteq given /\ \E x : given \subseteq sent \cup {x}
    BY DEF Sound, CallsSound, CallSound, SaysMost
  <2>3. ASSUME client = "web" PROVE Cardinality(given \ sent) <= 1
    <3> HIDE DEF given, sent
    <3>1. PICK x : given \subseteq sent \cup {x}
      BY <2>2, <2>3
    <3>2. \A T \in SUBSET {x} : Cardinality(T) <= 1
      <4>1. IsFiniteSet({x}) /\ Cardinality({x}) = 1
        BY FS_Singleton
      <4> SUFFICES ASSUME NEW T \in SUBSET {x} PROVE Cardinality(T) <= 1
        OBVIOUS
      <4>2. Cardinality(T) <= Cardinality({x})
        BY <4>1, FS_Subset
      <4> QED
        BY <4>1, <4>2
    <3> QED
      BY <3>1, <3>2
  <2>4. client \in {"mobile", "web"}
    BY DEF Sound
  <2> HIDE DEF given, sent
  <2> QED
    BY <2>1, <2>2, <2>3, <2>4 DEF given, sent
<1> QED
  BY <1>1, PeopleSound, PTL

(* A face rejected for a person is never again offered to them, nor to the
   person they are merged into. *)
THEOREM RejectionsFollow == Spec => RejectionFollows
<1> DEFINE A == \A f \in Faces, p \in People : Rejected(db, f, p) =>
                  \A q \in (IF p \in db'.live THEN {p} ELSE Absorber(p)) :
                    /\ Rejected(db', f, q)
                    /\ \A s \in MergeSuggestions(db') : s.who = q => f \notin s.of
<1>1. Sound /\ [Next]_vars => A
  <2> SUFFICES ASSUME Sound, [Next]_vars, NEW f \in Faces, NEW p \in People, Rejected(db, f, p),
                      NEW q \in (IF p \in db'.live THEN {p} ELSE Absorber(p))
               PROVE  /\ Rejected(db', f, q)
                      /\ \A s \in MergeSuggestions(db') : s.who = q => f \notin s.of
    OBVIOUS
  <2>1. Following
    BY NextFollows
  <2>2. p \in db.live
    BY DEF Rejected, Sound, DbSound
  <2>3. Rejected(db', f, q)
    BY <2>1, <2>2 DEF Following, Spares
  <2>4. DbSound(db')
    BY <2>1 DEF Following, Sound
  <2> QED
    BY <2>3, <2>4, NotOffered
<1> QED
  BY <1>1, PeopleSound, PTL DEF Spec, RejectionFollows

(* Once the hub's requests are answered its rows are those of the chip that
   is lit, however fast the chips were changed; and on mobile, where later
   pages are merged by id, nobody is listed twice. *)
THEOREM WindowFollows == Spec => []WindowOfFilter
<1>1. Sound /\ Hub /\ [Next]_vars => Sound' /\ Hub'
  BY NextFollows, NextHub DEF Following
<1>2. Sound /\ Hub => WindowOfFilter
  <2> SUFFICES ASSUME Sound, Hub PROVE WindowOfFilter
    OBVIOUS
  <2>1. client \in {"mobile", "web"}
    BY DEF Sound
  <2>2. \A c : HubWindow(c) <=> Wide(calls[c])
    BY DEF HubWindow, Wide
  <2>3. ui.hub.failed \/ ui.hub.of = ui.hub.filter \/ \E c \in Slots : HubWindow(c)
    BY <2>1, <2>2 DEF Hub, MobileHub, Newest, HubWaits, Settles
  <2>4. client = "mobile" /\ ui.hub.rows # Nil => RowsOk(ui.hub.rows)
    BY DEF Hub, MobileHub, HubRows
  <2> QED
    BY <2>3, <2>4 DEF WindowOfFilter, RowsOk
<1> QED
  BY InitSound, InitHub, <1>1, <1>2, PTL DEF Spec
=============================================================================
