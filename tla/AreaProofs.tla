------------------------------ MODULE AreaProofs ------------------------------
(***************************************************************************)
(* The areas of the library other than the vault: no upload and no import  *)
(* is left that nobody waits for, the web viewer keeps step with the       *)
(* history, and the cloud grids of the phone leave nothing out.  For any   *)
(* number of files, archives, photos, jobs, taps, promises and mishaps.    *)
(* Last, the Photos tab: pages, two lists merged into one, the invariant   *)
(* of its timeline, and what asking for pages does to it.                  *)
(***************************************************************************)
EXTENDS Library, FiniteSetTheorems, WellFoundedInduction, TLAPS

Distinct(s) == \A i, k \in DOMAIN s : s[i] = s[k] => i = k

(* --------------------------- lists that change --------------------------- *)

LEMMA LeastOf ==
  ASSUME NEW S \in SUBSET Nat, S # {}
  PROVE  \E n \in S : \A m \in S : n <= m
<1>1. PICK n \in S : \A m \in S : ~(<<m, n>> \in OpToRel(<, Nat))
  BY NatLessThanWellFounded, WFMin, Zenon
<1>2. \A m \in S : ~(m < n)
  BY <1>1, Zenon DEF OpToRel
<1>3. \A m \in S : m \in Nat /\ n \in Nat
  OBVIOUS
<1>4. \A m \in S : n <= m
  BY <1>2, <1>3
<1> QED BY <1>4

(* A finite set as a sequence: each element, and each once. *)
LEMMA AllListed ==
  ASSUME NEW S, IsFiniteSet(S)
  PROVE  /\ SetToSeq(S) \in Seq(S) /\ Distinct(SetToSeq(S)) /\ DOMAIN SetToSeq(S) = 1..Cardinality(S)
         /\ \A x \in S : \E k \in DOMAIN SetToSeq(S) : SetToSeq(S)[k] = x
<1> DEFINE n == Cardinality(S)
           s == SetToSeq(S)
<1>1. n \in Nat /\ ExistsBijection(1..n, S)
  BY FS_CardinalityType
<1>2. PICK f \in Bijection(1..n, S) : TRUE
  BY <1>1 DEF ExistsBijection
<1>3. f \in [1..n -> S] /\ IsInjective(f)
  BY <1>2 DEF Bijection, Injection
<1>4. s \in [1..n -> S] /\ IsInjective(s)
  BY <1>3, Zenon DEF SetToSeq
<1> HIDE DEF s
<1>5. s \in Seq(S) /\ DOMAIN s = 1..n
  BY <1>1, <1>4
<1>6. s \in Injection(1..n, S)
  BY <1>4 DEF Injection
<1>7. IsFiniteSet(1..n) /\ Cardinality(1..n) = n
  <2>1. 1 \in Int /\ n \in Int /\ (n # 0 => ~(1 > n))
    BY <1>1
  <2>2. IsFiniteSet(1..n) /\ Cardinality(1..n) = IF 1 > n THEN 0 ELSE n - 1 + 1
    BY <2>1, FS_Interval
  <2> QED BY <1>1, <2>1, <2>2
<1>8. s \in Surjection(1..n, S)
  BY <1>6, <1>7, FS_Injection
<1>9. \A x \in S : \E k \in 1..n : s[k] = x
  BY <1>8 DEF Surjection
<1>10. Distinct(s)
  BY <1>4 DEF Distinct, IsInjective
<1>11. s \in Seq(S) /\ Distinct(s) /\ DOMAIN s = 1..n /\ \A x \in S : \E k \in DOMAIN s : s[k] = x
  BY <1>5, <1>9, <1>10
<1> QED BY <1>11 DEF s

(* What is sifted comes from the places that were kept, in their order. *)
LEMMA SiftedPlaces ==
  ASSUME NEW S, NEW s \in Seq(S), NEW I \in SUBSET DOMAIN s
  PROVE  /\ Sifted(s, I) \in Seq(S)
         /\ \E f : /\ \A n \in DOMAIN Sifted(s, I) : f[n] \in I /\ Sifted(s, I)[n] = s[f[n]]
                   /\ \A n, m \in DOMAIN Sifted(s, I) : n < m => f[n] < f[m]
         /\ \A i \in I : \E n \in DOMAIN Sifted(s, I) : Sifted(s, I)[n] = s[i]
<1> DEFINE upto(i) == {k \in I : k <= i}
           c == Cardinality(I)
           rank == [i \in I |-> Cardinality(upto(i))]
<1>1. Len(s) \in Nat /\ DOMAIN s = 1..Len(s)
  OBVIOUS
<1>2. IsFiniteSet(1..Len(s)) /\ I \subseteq 1..Len(s)
  <2>1. 1 \in Int /\ Len(s) \in Int
    BY <1>1
  <2> QED BY <1>1, <2>1, FS_Interval
<1>3. IsFiniteSet(I) /\ c \in Nat
  BY <1>2, FS_Subset, FS_CardinalityType
<1>4. \A i \in I : IsFiniteSet(upto(i)) /\ rank[i] \in 1..c
  <2> SUFFICES ASSUME NEW i \in I PROVE IsFiniteSet(upto(i)) /\ Cardinality(upto(i)) \in 1..c
    OBVIOUS
  <2>1. upto(i) \subseteq I /\ i \in upto(i)
    BY <1>1
  <2>2. IsFiniteSet(upto(i)) /\ Cardinality(upto(i)) <= c
    BY <1>3, <2>1, FS_Subset
  <2>3. Cardinality(upto(i)) \in Nat /\ Cardinality(upto(i)) # 0
    BY <2>1, <2>2, FS_CardinalityType, FS_EmptySet
  <2> HIDE DEF upto, c
  <2> QED BY <1>3, <2>2, <2>3
<1>5. \A i, k \in I : i < k => rank[i] < rank[k]
  <2> SUFFICES ASSUME NEW i \in I, NEW k \in I, i < k PROVE Cardinality(upto(i)) < Cardinality(upto(k))
    OBVIOUS
  <2>1. upto(i) \subseteq upto(k) /\ k \in upto(k) /\ k \notin upto(i)
    BY <1>1
  <2>2. IsFiniteSet(upto(k)) /\ IsFiniteSet(upto(i))
    BY <1>4
  <2>3. Cardinality(upto(i)) <= Cardinality(upto(k)) /\ Cardinality(upto(i)) # Cardinality(upto(k))
    BY <2>1, <2>2, FS_Subset
  <2>4. Cardinality(upto(i)) \in Nat /\ Cardinality(upto(k)) \in Nat
    BY <2>2, FS_CardinalityType
  <2> HIDE DEF upto
  <2> QED BY <2>3, <2>4
<1>6. rank \in Injection(I, 1..c)
  <2>1. \A i, k \in I : rank[i] = rank[k] => i = k
    <3> SUFFICES ASSUME NEW i \in I, NEW k \in I, rank[i] = rank[k] PROVE i = k
      OBVIOUS
    <3>1. rank[i] \in 1..c /\ i \in Nat /\ k \in Nat
      <4> HIDE DEF rank, c, upto
      <4> QED BY <1>1, <1>4
    <3>2. rank[i] \in Nat
      <4> HIDE DEF rank, c
      <4> QED BY <1>3, <3>1
    <3>3. ~(rank[i] < rank[k]) /\ ~(rank[k] < rank[i])
      <4> HIDE DEF rank
      <4> QED BY <3>2
    <3>4. ~(i < k) /\ ~(k < i)
      <4> HIDE DEF rank
      <4> QED BY <1>5, <3>3
    <3> QED BY <3>1, <3>4
  <2>2. rank \in [I -> 1..c]
    BY <1>4
  <2> HIDE DEF rank
  <2> QED BY <2>1, <2>2 DEF Injection, IsInjective
<1>7. IsFiniteSet(1..c) /\ Cardinality(1..c) = c
  <2>1. 1 \in Int /\ c \in Int /\ (c # 0 => ~(1 > c))
    BY <1>3
  <2>2. IsFiniteSet(1..c) /\ Cardinality(1..c) = IF 1 > c THEN 0 ELSE c - 1 + 1
    BY <2>1, FS_Interval
  <2> QED BY <1>3, <2>1, <2>2
<1>8. rank \in Surjection(I, 1..c)
  BY <1>3, <1>6, <1>7, FS_Injection
<1>9. \A n \in 1..c : \E i \in I : Cardinality(upto(i)) = n
  BY <1>8 DEF Surjection
<1>10. \A n \in 1..c : Sifted(s, I)[n] = s[CHOOSE i \in I : Cardinality(upto(i)) = n]
  BY DEF Sifted
<1>11. DOMAIN Sifted(s, I) = 1..c
  BY DEF Sifted
<1>12. \A n \in 1..c : \E i \in I : Sifted(s, I)[n] = s[i]
  <2> HIDE DEF upto, c
  <2> QED BY <1>9, <1>10
<1>13. \A n \in 1..c : Sifted(s, I)[n] \in S
  <2> HIDE DEF c
  <2> QED BY <1>12
<1>14. Sifted(s, I) \in [1..c -> S]
  <2>1. Sifted(s, I) = [n \in 1..c |-> Sifted(s, I)[n]]
    BY DEF Sifted
  <2> HIDE DEF c
  <2> QED BY <2>1, <1>13
<1>15. Sifted(s, I) \in Seq(S)
  <2> HIDE DEF c
  <2> QED BY <1>3, <1>14
<1>16. \A i \in I : \E n \in 1..c : Sifted(s, I)[n] = s[i]
  <2> SUFFICES ASSUME NEW i \in I PROVE \E n \in 1..c : Sifted(s, I)[n] = s[i]
    OBVIOUS
  <2>1. rank[i] \in 1..c /\ rank[i] = Cardinality(upto(i))
    BY <1>4
  <2>2. \A k \in I : Cardinality(upto(k)) = rank[i] => k = i
    <3>1. \A k \in I : rank[k] = Cardinality(upto(k))
      OBVIOUS
    <3>2. \A k \in I : rank[k] = rank[i] => k = i
      BY <1>6 DEF Injection, IsInjective
    <3> HIDE DEF rank, upto
    <3> QED BY <3>1, <3>2
  <2> DEFINE r == rank[i]
  <2>3. (CHOOSE k \in I : Cardinality(upto(k)) = r) = i
    <3> HIDE DEF rank, upto
    <3> QED BY <2>1, <2>2
  <2>4. Sifted(s, I)[r] = s[i]
    <3> HIDE DEF rank, upto, c
    <3> QED BY <1>10, <2>1, <2>3
  <2> QED BY <2>1, <2>4
<1> DEFINE f == [n \in 1..c |-> CHOOSE i \in I : Cardinality(upto(i)) = n]
<1>17. \A n \in 1..c : f[n] \in I /\ Cardinality(upto(f[n])) = n
  <2> SUFFICES ASSUME NEW n \in 1..c PROVE f[n] \in I /\ Cardinality(upto(f[n])) = n
    OBVIOUS
  <2>1. f[n] = CHOOSE i \in I : Cardinality(upto(i)) = n
    OBVIOUS
  <2> HIDE DEF f, upto, c
  <2> QED BY <1>9, <2>1
<1>18. \A n \in 1..c : Sifted(s, I)[n] = s[f[n]]
  BY <1>10
<1>19. \A n, m \in 1..c : n < m => f[n] < f[m]
  <2> SUFFICES ASSUME NEW n \in 1..c, NEW m \in 1..c, n < m PROVE f[n] < f[m]
    OBVIOUS
  <2>1. f[n] \in I /\ f[m] \in I /\ f[n] \in Nat /\ f[m] \in Nat
    <3> HIDE DEF f, c, upto
    <3> QED BY <1>1, <1>17
  <2>2. \A i \in I : rank[i] = Cardinality(upto(i))
    OBVIOUS
  <2>3. rank[f[n]] = n /\ rank[f[m]] = m
    <3> HIDE DEF f, c, upto, rank
    <3> QED BY <1>17, <2>1, <2>2
  <2> HIDE DEF f, rank, upto
  <2>4. CASE f[m] < f[n]
    <3>1. m < n
      BY <1>5, <2>1, <2>3, <2>4
    <3> QED BY <1>3, <3>1
  <2>5. CASE f[m] = f[n]
    BY <1>3, <2>3, <2>5
  <2> QED BY <2>1, <2>4, <2>5
<1>20. \E g : (\A n \in 1..c : g[n] \in I /\ Sifted(s, I)[n] = s[g[n]]) /\ (\A n, m \in 1..c : n < m => g[n] < g[m])
  <2>1. (\A n \in 1..c : f[n] \in I /\ Sifted(s, I)[n] = s[f[n]]) /\ (\A n, m \in 1..c : n < m => f[n] < f[m])
    <3> HIDE DEF f, c, upto
    <3> QED BY <1>17, <1>18, <1>19
  <2> HIDE DEF f, c
  <2> QED BY <2>1, Zenon
<1> HIDE DEF f, c, rank
<1> QED BY <1>11, <1>15, <1>16, <1>20

LEMMA SiftedFrom ==
  ASSUME NEW S, NEW s \in Seq(S), NEW I \in SUBSET DOMAIN s
  PROVE  /\ Sifted(s, I) \in Seq(S)
         /\ \A n \in DOMAIN Sifted(s, I) : \E i \in I : Sifted(s, I)[n] = s[i]
         /\ \A i \in I : \E n \in DOMAIN Sifted(s, I) : Sifted(s, I)[n] = s[i]
<1> DEFINE t == Sifted(s, I)
<1>1. t \in Seq(S) /\ \A i \in I : \E n \in DOMAIN t : t[n] = s[i]
  BY SiftedPlaces
<1>2. PICK f : \A n \in DOMAIN t : f[n] \in I /\ t[n] = s[f[n]]
  BY SiftedPlaces
<1> HIDE DEF t
<1>3. t \in Seq(S) /\ (\A n \in DOMAIN t : \E i \in I : t[n] = s[i]) /\ \A i \in I : \E n \in DOMAIN t : t[n] = s[i]
  BY <1>1, <1>2
<1> QED BY <1>3 DEF t

LEMMA JoinedAs ==
  ASSUME NEW S, NEW s \in Seq(S), NEW t \in Seq(S)
  PROVE  /\ s \o t \in Seq(S)
         /\ \A k \in DOMAIN (s \o t) : \/ k \in DOMAIN s /\ (s \o t)[k] = s[k]
                                       \/ k \notin DOMAIN s /\ \E m \in DOMAIN t : (s \o t)[k] = t[m] /\ k = Len(s) + m
         /\ \A k \in DOMAIN s : k \in DOMAIN (s \o t) /\ (s \o t)[k] = s[k]
         /\ \A m \in DOMAIN t : Len(s) + m \in DOMAIN (s \o t) /\ (s \o t)[Len(s) + m] = t[m]
<1>1. s \o t \in Seq(S) /\ Len(s \o t) = Len(s) + Len(t) /\ Len(s) \in Nat /\ Len(t) \in Nat
  OBVIOUS
<1>2. DOMAIN (s \o t) = 1..(Len(s) + Len(t)) /\ DOMAIN s = 1..Len(s) /\ DOMAIN t = 1..Len(t)
  BY <1>1
<1>3. \A k \in 1..(Len(s) + Len(t)) : IF k <= Len(s) THEN (s \o t)[k] = s[k] ELSE (s \o t)[k] = t[k - Len(s)]
  OBVIOUS
<1>4. \A k \in 1..(Len(s) + Len(t)) : k > Len(s) => k - Len(s) \in DOMAIN t /\ k = Len(s) + (k - Len(s))
  BY <1>1, <1>2
<1> QED BY <1>1, <1>2, <1>3, <1>4

(* A list without one of its entries: the others, each at its place. *)
LEMMA RemovedFrom ==
  ASSUME NEW S, NEW js \in Seq(S), NEW i \in DOMAIN js
  PROVE  /\ RemoveAt(js, i) \in Seq(S)
         /\ \E f \in [DOMAIN RemoveAt(js, i) -> DOMAIN js \ {i}] :
              /\ \A k \in DOMAIN RemoveAt(js, i) : RemoveAt(js, i)[k] = js[f[k]]
              /\ \A k, l \in DOMAIN RemoveAt(js, i) : f[k] = f[l] => k = l
              /\ \A m \in DOMAIN js \ {i} : \E k \in DOMAIN RemoveAt(js, i) : f[k] = m
<1> DEFINE rest == RemoveAt(js, i)
           n == Len(js)
           f == [k \in 1..(n - 1) |-> IF k < i THEN k ELSE k + 1]
<1>1. n \in Nat /\ DOMAIN js = 1..n /\ i \in 1..n
  OBVIOUS
<1>2. rest \in Seq(S) /\ Len(rest) = n - 1
  BY <1>1 DEF RemoveAt
<1>3. DOMAIN rest = 1..(n - 1)
  BY <1>1, <1>2
<1>4. \A k \in 1..(n - 1) : rest[k] = js[f[k]]
  <2> DEFINE a == SubSeq(js, 1, i - 1)
             z == SubSeq(js, i + 1, n)
  <2>1. a \in Seq(S) /\ Len(a) = i - 1 /\ \A k \in 1..(i - 1) : a[k] = js[k]
    BY <1>1
  <2>2. z \in Seq(S) /\ Len(z) = n - i /\ \A k \in 1..(n - i) : z[k] = js[i + k]
    BY <1>1
  <2>3. rest = a \o z
    BY DEF RemoveAt
  <2> HIDE DEF a, z, rest
  <2>4. \A k \in 1..(n - 1) : k < i => rest[k] = js[k]
    BY <1>1, <2>1, <2>2, <2>3
  <2>5. \A k \in 1..(n - 1) : k >= i => rest[k] = js[k + 1]
    <3> SUFFICES ASSUME NEW k \in 1..(n - 1), k >= i PROVE rest[k] = js[k + 1]
      OBVIOUS
    <3>1. k - (i - 1) \in 1..(n - i) /\ i + (k - (i - 1)) = k + 1
      BY <1>1
    <3>2. rest[k] = z[k - (i - 1)]
      <4>1. DOMAIN z = 1..Len(z) /\ k - (i - 1) \in 1..(n - i)
        BY <2>2, <3>1
      <4>2. rest[Len(a) + (k - (i - 1))] = z[k - (i - 1)]
        <5>1. a \in Seq(S) /\ z \in Seq(S)
          BY <2>1, <2>2
        <5>2. \A m \in DOMAIN z : (a \o z)[Len(a) + m] = z[m]
          <6> HIDE DEF n, f
          <6>1. \A p \in Seq(S), q \in Seq(S) : \A m \in DOMAIN q : (p \o q)[Len(p) + m] = q[m]
            BY JoinedAs
          <6> QED BY <5>1, <6>1
        <5> QED BY <2>2, <2>3, <4>1, <5>2
      <4>3. Len(a) + (k - (i - 1)) = k
        BY <1>1, <2>1
      <4> QED BY <4>2, <4>3
    <3> QED BY <3>1, <3>2, <2>2
  <2> QED BY <1>1, <2>4, <2>5
<1> HIDE DEF rest
<1>5. f \in [DOMAIN rest -> DOMAIN js \ {i}] /\ \A k, l \in DOMAIN rest : f[k] = f[l] => k = l
  <2>1. \A k \in 1..(n - 1) : f[k] \in 1..n /\ f[k] # i
    BY <1>1
  <2>2. f \in [1..(n - 1) -> 1..n \ {i}]
    BY <2>1
  <2>3. \A k, l \in 1..(n - 1) : f[k] = f[l] => k = l
    BY <1>1
  <2> HIDE DEF f
  <2> QED BY <1>1, <1>3, <2>2, <2>3
<1>6. \A m \in DOMAIN js \ {i} : \E k \in DOMAIN rest : f[k] = m
  <2> SUFFICES ASSUME NEW m \in 1..n, m # i PROVE \E k \in 1..(n - 1) : f[k] = m
    BY <1>1, <1>3
  <2>1. CASE m < i
    BY <1>1, <2>1
  <2>2. CASE m > i
    <3>1. m - 1 \in 1..(n - 1) /\ f[m - 1] = m
      BY <1>1, <2>2
    <3> QED BY <3>1
  <2> QED BY <1>1, <2>1, <2>2
<1>7. \A k \in DOMAIN rest : rest[k] = js[f[k]]
  BY <1>3, <1>4
<1> HIDE DEF f
<1> QED BY <1>2, <1>5, <1>6, <1>7 DEF rest

LEMMA EntriesIn ==
  ASSUME NEW S, NEW s \in Seq(S)
  PROVE  Len(s) \in Nat /\ DOMAIN s = 1..Len(s) /\ \A n \in DOMAIN s : s[n] \in S
OBVIOUS

(* ------------------------- the queue of the web app ---------------------- *)

Request == [op : {"upload", "uploaded"}, live : BOOLEAN, file : Media, as : Accounts, done : BOOLEAN]
Queue == [tasks : Seq([id : Media, status : Finished \cup {"queued", "uploading"}]),
          user : Accounts \cup {Nil}, running : BOOLEAN, open : BOOLEAN, note : BOOLEAN]

(* Each request is of a file that says it is uploading, and the other way    *)
(* round; one at most has a processor that waits for it.                     *)
RequestsOk(u, js, st) ==
  /\ js \in Seq(Request)
  /\ \A i, k \in DOMAIN js : js[i].file = js[k].file => i = k
  /\ \A i, k \in DOMAIN js : js[i].live /\ js[k].live => i = k
  /\ \A i \in DOMAIN js : js[i].live => u.running
  /\ u.running => u.user # Nil /\ \E i \in DOMAIN js : js[i].live
  /\ \A i \in DOMAIN js : /\ \E n \in DOMAIN u.tasks : u.tasks[n].id = js[i].file /\ u.tasks[n].status = "uploading"
                          /\ js[i].op = "uploaded" => <<js[i].as, js[i].file>> \in st
TasksOk(u, js, st) ==
  /\ u \in Queue
  /\ \A n, m \in DOMAIN u.tasks : u.tasks[n].id = u.tasks[m].id => u.tasks[n].status = u.tasks[m].status
  /\ \A n \in DOMAIN u.tasks :
       /\ u.tasks[n].status = "uploading" => \E i \in DOMAIN js : js[i].file = u.tasks[n].id
       /\ u.tasks[n].status \in {"done", "duplicated"} => \E a \in Accounts : <<a, u.tasks[n].id>> \in st
UploadsOk(u, js, st) == RequestsOk(u, js, st) /\ TasksOk(u, js, st)
UploadInv == /\ UploadsOk(uploads, jobs, stored)
             /\ uploads.user # Nil /\ ~uploads.running => Statuses(uploads, {"queued"}) = {}

TaskStatus == Finished \cup {"queued", "uploading"}
QueueTask == [id : Media, status : TaskStatus]

LEMMA TasksIs ==
  ASSUME NEW u \in Queue
  PROVE  /\ u.tasks \in Seq(QueueTask) /\ Len(u.tasks) \in Nat /\ DOMAIN u.tasks = 1..Len(u.tasks)
         /\ \A n \in DOMAIN u.tasks : u.tasks[n] \in QueueTask
<1>1. PICK ts : ts = u.tasks
  OBVIOUS
<1>2. ts \in Seq(QueueTask)
  BY <1>1 DEF Queue, QueueTask, TaskStatus
<1>3. Len(ts) \in Nat /\ DOMAIN ts = 1..Len(ts) /\ \A n \in DOMAIN ts : ts[n] \in QueueTask
  BY <1>2, EntriesIn
<1> QED BY <1>1, <1>2, <1>3

LEMMA PatchedIs ==
  ASSUME NEW u \in Queue, NEW f, NEW s \in TaskStatus
  PROVE  /\ Patched(u, f, s) \in Queue
         /\ Patched(u, f, s).user = u.user /\ Patched(u, f, s).running = u.running
         /\ DOMAIN Patched(u, f, s).tasks = DOMAIN u.tasks
         /\ \A n \in DOMAIN u.tasks :
              /\ Patched(u, f, s).tasks[n].id = u.tasks[n].id
              /\ Patched(u, f, s).tasks[n].status = IF u.tasks[n].id = f THEN s ELSE u.tasks[n].status
<1> DEFINE ts == [n \in DOMAIN u.tasks |-> IF u.tasks[n].id = f THEN [u.tasks[n] EXCEPT !.status = s] ELSE u.tasks[n]]
<1>1. Patched(u, f, s) = [u EXCEPT !.tasks = ts]
  BY DEF Patched
<1>2. Len(u.tasks) \in Nat /\ DOMAIN u.tasks = 1..Len(u.tasks) /\ \A n \in DOMAIN u.tasks : u.tasks[n] \in QueueTask
  BY TasksIs
<1>3. \A n \in DOMAIN u.tasks :
        /\ ts[n] \in QueueTask /\ ts[n].id = u.tasks[n].id
        /\ ts[n].status = IF u.tasks[n].id = f THEN s ELSE u.tasks[n].status
  BY <1>2 DEF QueueTask
<1>4. ts \in [1..Len(u.tasks) -> QueueTask]
  <2>1. ts = [n \in 1..Len(u.tasks) |-> ts[n]]
    BY <1>2
  <2>2. \A n \in 1..Len(u.tasks) : ts[n] \in QueueTask
    BY <1>2, <1>3
  <2> HIDE DEF ts
  <2> QED BY <2>1, <2>2
<1>5. ts \in Seq(QueueTask)
  <2> HIDE DEF ts
  <2> QED BY <1>2, <1>4
<1>6. DOMAIN ts = DOMAIN u.tasks
  OBVIOUS
<1> HIDE DEF ts
<1>7. [u EXCEPT !.tasks = ts] \in Queue
  BY <1>5 DEF Queue, QueueTask, TaskStatus
<1>8. /\ [u EXCEPT !.tasks = ts].tasks = ts /\ [u EXCEPT !.tasks = ts].user = u.user
      /\ [u EXCEPT !.tasks = ts].running = u.running
  BY DEF Queue
<1> QED BY <1>1, <1>3, <1>6, <1>7, <1>8

(* The processor takes the next file, if it is free. *)
LEMMA NextIs ==
  ASSUME NEW u \in Queue, Statuses(u, {"queued"}) # {}
  PROVE  \E n \in DOMAIN u.tasks : u.tasks[n].status = "queued" /\ NextQueued(u) = u.tasks[n].id
<1> DEFINE Q == Statuses(u, {"queued"})
<1>1. Q \in SUBSET Nat
  BY DEF Statuses, Queue
<1>2. \E n \in Q : \A m \in Q : n <= m
  BY <1>1, LeastOf
<1> DEFINE n == CHOOSE k \in Q : \A m \in Q : k <= m
<1>3. n \in Q
  BY <1>2
<1>4. NextQueued(u) = u.tasks[n]. id
  BY DEF NextQueued
<1> HIDE DEF n
<1>5. n \in DOMAIN u.tasks /\ u.tasks[n].status = "queued"
  BY <1>3 DEF Statuses
<1> QED BY <1>4, <1>5

LEMMA ProcessedOk ==
  ASSUME NEW u, NEW js, NEW st, UploadsOk(u, js, st), Processed(u, js), stored' = st
  PROVE  UploadInv'
<1>0. u \in Queue /\ js \in Seq(Request)
  BY DEF UploadsOk, TasksOk, RequestsOk
<1>1. CASE u.user = Nil \/ u.running \/ Statuses(u, {"queued"}) = {}
  <2>1. uploads' = u /\ jobs' = js
    BY <1>1 DEF Processed
  <2> QED BY <1>1, <2>1 DEF UploadInv
<1>2. CASE ~(u.user = Nil \/ u.running \/ Statuses(u, {"queued"}) = {})
  <2> DEFINE f == NextQueued(u)
             v == Patched(u, f, "uploading")
  <2>1. PICK n0 \in DOMAIN u.tasks : u.tasks[n0].status = "queued" /\ f = u.tasks[n0].id
    BY <1>0, <1>2, NextIs
  <2>2. f \in Media /\ u.user \in Accounts /\ u.user # Nil /\ u.running = FALSE
    <3>1. u.tasks[n0] \in QueueTask
      BY <1>0, TasksIs
    <3> QED BY <1>0, <1>2, <2>1, <3>1 DEF Queue, QueueTask
  <2>3. PICK j : j = [op |-> "upload", live |-> TRUE, file |-> f, as |-> u.user, done |-> FALSE]
    OBVIOUS
  <2>4. uploads' = [v EXCEPT !.running = TRUE] /\ jobs' = Append(js, j)
    BY <1>2, <2>3 DEF Processed
  <2>5. /\ v \in Queue /\ v.user = u.user /\ DOMAIN v.tasks = DOMAIN u.tasks
        /\ \A n \in DOMAIN u.tasks : /\ v.tasks[n].id = u.tasks[n].id
                                     /\ v.tasks[n].status = IF u.tasks[n].id = f THEN "uploading" ELSE u.tasks[n].status
    BY <1>0, PatchedIs DEF TaskStatus
  <2> HIDE DEF v, f
  <2>6. /\ uploads' \in Queue /\ uploads'.user = u.user /\ uploads'.running /\ uploads'.tasks = v.tasks
    BY <2>4, <2>5 DEF Queue
  <2>7. /\ j \in Request /\ j.live /\ j.file = f /\ j.op = "upload"
    BY <2>2, <2>3 DEF Request
  <2>8. /\ jobs' \in Seq(Request) /\ DOMAIN jobs' = DOMAIN js \cup {Len(js) + 1} /\ Len(js) + 1 \notin DOMAIN js
        /\ jobs'[Len(js) + 1] = j /\ \A k \in DOMAIN js : jobs'[k] = js[k]
    <3>1. Len(js) \in Nat /\ DOMAIN js = 1..Len(js)
      BY <1>0
    <3>2. jobs' \in Seq(Request) /\ Len(jobs') = Len(js) + 1
      BY <1>0, <2>4, <2>7
    <3>3. jobs'[Len(js) + 1] = j /\ \A k \in 1..Len(js) : jobs'[k] = js[k]
      BY <1>0, <2>4
    <3>4. DOMAIN jobs' = 1..(Len(js) + 1)
      BY <3>2
    <3> QED BY <3>1, <3>2, <3>3, <3>4
  <2>9. \A k \in DOMAIN js : ~js[k].live /\ js[k].file # f
    <3> SUFFICES ASSUME NEW k \in DOMAIN js PROVE ~js[k].live /\ js[k].file # f
      OBVIOUS
    <3>1. PICK n \in DOMAIN u.tasks : u.tasks[n].id = js[k].file /\ u.tasks[n].status = "uploading"
      BY DEF UploadsOk, RequestsOk
    <3>2. u.tasks[n].id = u.tasks[n0].id => u.tasks[n].status = u.tasks[n0].status
      BY DEF UploadsOk, TasksOk
    <3>3. ~js[k].live
      BY <2>2 DEF UploadsOk, RequestsOk
    <3> QED BY <2>1, <3>1, <3>2, <3>3
  <2>10. RequestsOk(uploads', jobs', st)
    <3>1. \A i, k \in DOMAIN jobs' : jobs'[i].file = jobs'[k].file => i = k
      BY <2>7, <2>8, <2>9 DEF UploadsOk, RequestsOk
    <3>2. \A i, k \in DOMAIN jobs' : jobs'[i].live /\ jobs'[k].live => i = k
      BY <2>8, <2>9
    <3>3. \A i \in DOMAIN jobs' : \E n \in DOMAIN v.tasks : v.tasks[n].id = jobs'[i].file /\ v.tasks[n].status = "uploading"
      <4> SUFFICES ASSUME NEW i \in DOMAIN jobs'
                   PROVE  \E n \in DOMAIN v.tasks : v.tasks[n].id = jobs'[i].file /\ v.tasks[n].status = "uploading"
        OBVIOUS
      <4>1. CASE i \in DOMAIN js
        <5>1. PICK n \in DOMAIN u.tasks : u.tasks[n].id = js[i].file /\ u.tasks[n].status = "uploading"
          BY <4>1 DEF UploadsOk, RequestsOk
        <5> QED BY <2>5, <2>8, <4>1, <5>1
      <4>2. CASE i = Len(js) + 1
        <5>1. v.tasks[n0].id = f /\ v.tasks[n0].status = "uploading"
          BY <2>1, <2>5
        <5> QED BY <2>5, <2>7, <2>8, <4>2, <5>1
      <4> QED BY <2>8, <4>1, <4>2
    <3>4. \A i \in DOMAIN jobs' : jobs'[i].op = "uploaded" => <<jobs'[i].as, jobs'[i].file>> \in st
      BY <2>7, <2>8 DEF UploadsOk, RequestsOk
    <3> QED BY <2>2, <2>6, <2>7, <2>8, <3>1, <3>2, <3>3, <3>4 DEF RequestsOk
  <2>11. TasksOk(uploads', jobs', st)
    <3>1. \A n, m \in DOMAIN v.tasks : v.tasks[n].id = v.tasks[m].id => v.tasks[n].status = v.tasks[m].status
      BY <2>5 DEF UploadsOk, TasksOk
    <3>2. \A n \in DOMAIN v.tasks : v.tasks[n].status = "uploading" => \E i \in DOMAIN jobs' : jobs'[i].file = v.tasks[n].id
      BY <2>5, <2>7, <2>8 DEF UploadsOk, TasksOk
    <3>3. \A n \in DOMAIN v.tasks : v.tasks[n].status \in {"done", "duplicated"} => \E a \in Accounts : <<a, v.tasks[n].id>> \in st
      BY <2>5 DEF UploadsOk, TasksOk
    <3> QED BY <2>6, <3>1, <3>2, <3>3 DEF TasksOk
  <2> QED BY <2>6, <2>10, <2>11 DEF UploadInv, UploadsOk
<1> QED BY <1>1, <1>2

(* What is sent stays sent, whatever else the queue says. *)
LEMMA RequestsKept ==
  ASSUME NEW u, NEW js, NEW st, RequestsOk(u, js, st), NEW v, v.running = u.running, v.user = u.user,
         \A i \in DOMAIN js : \E n \in DOMAIN v.tasks : v.tasks[n].id = js[i].file /\ v.tasks[n].status = "uploading"
  PROVE  RequestsOk(v, js, st)
BY DEF RequestsOk

LEMMA ClearedOk ==
  ASSUME NEW u, NEW js, NEW st, UploadsOk(u, js, st), NEW b \in BOOLEAN,
         NEW kept, kept = Sifted(u.tasks, {n \in DOMAIN u.tasks : u.tasks[n].status \notin Finished})
  PROVE  UploadsOk([u EXCEPT !.note = b, !.tasks = kept], js, st)
<1> DEFINE I == {n \in DOMAIN u.tasks : u.tasks[n].status \notin Finished}
<1>1. u \in Queue /\ u.tasks \in Seq(QueueTask)
  BY TasksIs DEF UploadsOk, TasksOk
<1>2. PICK ts \in Seq(QueueTask) : ts = u.tasks
  BY <1>1
<1>3. PICK J : J = I
  OBVIOUS
<1>31. J \in SUBSET DOMAIN ts /\ \A n \in DOMAIN u.tasks : u.tasks[n].status = "uploading" => n \in J
  BY <1>2, <1>3 DEF Finished
<1>32. kept = Sifted(ts, J)
  BY <1>2, <1>3
<1> HIDE DEF I
<1>4. /\ Sifted(ts, J) \in Seq(QueueTask)
      /\ \A n \in DOMAIN Sifted(ts, J) : \E i \in J : Sifted(ts, J)[n] = ts[i]
      /\ \A i \in J : \E n \in DOMAIN Sifted(ts, J) : Sifted(ts, J)[n] = ts[i]
  BY <1>31, SiftedFrom
<1>41. /\ kept \in Seq(QueueTask)
       /\ \A n \in DOMAIN kept : \E i \in J : kept[n] = ts[i]
       /\ \A i \in J : \E n \in DOMAIN kept : kept[n] = ts[i]
  BY <1>32, <1>4
<1>5. PICK v : v = [u EXCEPT !.note = b, !.tasks = kept]
  OBVIOUS
<1>6. v \in Queue /\ v.tasks = kept /\ v.running = u.running /\ v.user = u.user
  BY <1>1, <1>41, <1>5 DEF Queue, QueueTask, TaskStatus
<1>8. \A i \in DOMAIN js : \E n \in DOMAIN kept : kept[n].id = js[i].file /\ kept[n].status = "uploading"
  <2> SUFFICES ASSUME NEW i \in DOMAIN js
               PROVE  \E n \in DOMAIN kept : kept[n].id = js[i].file /\ kept[n].status = "uploading"
    OBVIOUS
  <2>1. PICK m \in DOMAIN u.tasks : u.tasks[m].id = js[i].file /\ u.tasks[m].status = "uploading"
    BY DEF UploadsOk, RequestsOk
  <2>2. PICK n \in DOMAIN kept : kept[n] = ts[m]
    BY <1>31, <1>41, <2>1
  <2> QED BY <1>2, <2>1, <2>2
<1>9. RequestsOk(v, js, st)
  <2>1. RequestsOk(u, js, st)
    BY DEF UploadsOk
  <2>2. v.running = u.running /\ v.user = u.user /\ v.tasks = kept
    BY <1>6
  <2>3. \A i \in DOMAIN js : \E n \in DOMAIN v.tasks : v.tasks[n].id = js[i].file /\ v.tasks[n].status = "uploading"
    BY <1>8, <2>2, Zenon
  <2> QED BY <2>1, <2>2, <2>3, RequestsKept, Zenon
<1>10. \A n \in DOMAIN kept : \E i \in DOMAIN u.tasks : kept[n] = u.tasks[i]
  BY <1>2, <1>31, <1>41
<1>11. TasksOk(v, js, st)
  <2>1. \A n, m \in DOMAIN kept : kept[n].id = kept[m].id => kept[n].status = kept[m].status
    BY <1>10 DEF UploadsOk, TasksOk
  <2>2. \A n \in DOMAIN kept :
          /\ kept[n].status = "uploading" => \E i \in DOMAIN js : js[i].file = kept[n].id
          /\ kept[n].status \in {"done", "duplicated"} => \E a \in Accounts : <<a, kept[n].id>> \in st
    BY <1>10 DEF UploadsOk, TasksOk
  <2>3. v.tasks = kept /\ v \in Queue
    BY <1>6
  <2>4. /\ \A n, m \in DOMAIN v.tasks : v.tasks[n].id = v.tasks[m].id => v.tasks[n].status = v.tasks[m].status
        /\ \A n \in DOMAIN v.tasks :
             /\ v.tasks[n].status = "uploading" => \E i \in DOMAIN js : js[i].file = v.tasks[n].id
             /\ v.tasks[n].status \in {"done", "duplicated"} => \E a \in Accounts : <<a, v.tasks[n].id>> \in st
    BY <2>1, <2>2, <2>3
  <2> QED BY <2>3, <2>4, Zenon DEF TasksOk
<1> QED BY <1>5, <1>9, <1>11 DEF UploadsOk

LEMMA QueuedOk ==
  ASSUME NEW u, NEW js, NEW st, UploadsOk(u, js, st), NEW b \in BOOLEAN, NEW files, IsFiniteSet(files), files \subseteq Media,
         \A n \in DOMAIN u.tasks : u.tasks[n].id \notin files,
         NEW new, new = [n \in DOMAIN SetToSeq(files) |-> [id |-> SetToSeq(files)[n], status |-> "queued"]]
  PROVE  UploadsOk([u EXCEPT !.note = b, !.tasks = @ \o new], js, st)
<1>1. PICK fs : fs = SetToSeq(files)
  OBVIOUS
<1>2. fs \in Seq(files)
  BY <1>1, AllListed
<1>3. Len(fs) \in Nat /\ DOMAIN fs = 1..Len(fs) /\ \A n \in DOMAIN fs : fs[n] \in files
  BY <1>2, EntriesIn
<1>4. new = [n \in DOMAIN fs |-> [id |-> fs[n], status |-> "queued"]]
  BY <1>1
<1>5. DOMAIN new = 1..Len(fs) /\ \A n \in DOMAIN new : new[n].id \in files /\ new[n].status = "queued" /\ new[n] \in QueueTask
  BY <1>3, <1>4 DEF QueueTask, TaskStatus
<1>6. new \in Seq(QueueTask)
  <2>1. new \in [1..Len(fs) -> QueueTask]
    BY <1>3, <1>4, <1>5
  <2> QED BY <1>3, <2>1
<1>7. u \in Queue
  BY DEF UploadsOk, TasksOk
<1>8. PICK ts \in Seq(QueueTask) : ts = u.tasks
  BY <1>7, TasksIs
<1>9. PICK all : all = ts \o new
  OBVIOUS
<1>10. /\ all \in Seq(QueueTask)
       /\ \A n \in DOMAIN all : (n \in DOMAIN ts /\ all[n] = ts[n]) \/ (\E m \in DOMAIN new : all[n] = new[m])
       /\ \A n \in DOMAIN ts : n \in DOMAIN all /\ all[n] = ts[n]
  BY <1>6, <1>9, JoinedAs
<1>11. PICK v : v = [u EXCEPT !.note = b, !.tasks = @ \o new]
  OBVIOUS
<1>12. v \in Queue /\ v.tasks = all /\ v.running = u.running /\ v.user = u.user
  BY <1>7, <1>8, <1>9, <1>10, <1>11 DEF Queue, QueueTask, TaskStatus
<1>13. \A i \in DOMAIN js : \E n \in DOMAIN all : all[n].id = js[i].file /\ all[n].status = "uploading"
  <2> SUFFICES ASSUME NEW i \in DOMAIN js
               PROVE  \E n \in DOMAIN all : all[n].id = js[i].file /\ all[n].status = "uploading"
    OBVIOUS
  <2>1. PICK m \in DOMAIN u.tasks : u.tasks[m].id = js[i].file /\ u.tasks[m].status = "uploading"
    BY DEF UploadsOk, RequestsOk
  <2> QED BY <1>8, <1>10, <2>1
<1>14. RequestsOk(v, js, st)
  BY <1>12, <1>13 DEF UploadsOk, RequestsOk
<1>15. \A n \in DOMAIN all : \/ n \in DOMAIN u.tasks /\ all[n] = u.tasks[n]
                             \/ all[n].id \in files /\ all[n].status = "queued"
  BY <1>5, <1>8, <1>10
<1>16. TasksOk(v, js, st)
  <2>1. \A n, m \in DOMAIN all : all[n].id = all[m].id => all[n].status = all[m].status
    BY <1>15 DEF UploadsOk, TasksOk
  <2>2. \A n \in DOMAIN all :
          /\ all[n].status = "uploading" => \E i \in DOMAIN js : js[i].file = all[n].id
          /\ all[n].status \in {"done", "duplicated"} => \E a \in Accounts : <<a, all[n].id>> \in st
    BY <1>15 DEF UploadsOk, TasksOk
  <2> QED BY <1>12, <2>1, <2>2 DEF TasksOk
<1> QED BY <1>11, <1>14, <1>16 DEF UploadsOk

(* An answer: its file is settled, and its processor is free again. *)
LEMMA SettledOk ==
  ASSUME NEW u, NEW js, NEW st, UploadsOk(u, js, st), NEW i \in DOMAIN js, NEW s \in Finished,
         s = "error" \/ js[i].op = "uploaded"
  PROVE  UploadsOk(FreedBy(Patched(u, js[i].file, s), js[i].live), RemoveAt(js, i), st)
<1>1. u \in Queue /\ js \in Seq(Request)
  BY DEF UploadsOk, TasksOk, RequestsOk
<1>2. \A k \in DOMAIN js : js[k] \in Request
  BY <1>1, EntriesIn
<1>3. PICK f, live : f = js[i].file /\ live = js[i].live
  OBVIOUS
<1>4. PICK v : v = Patched(u, f, s)
  OBVIOUS
<1>5. /\ v \in Queue /\ v.user = u.user /\ v.running = u.running /\ DOMAIN v.tasks = DOMAIN u.tasks
      /\ \A n \in DOMAIN u.tasks : /\ v.tasks[n].id = u.tasks[n].id
                                   /\ v.tasks[n].status = IF u.tasks[n].id = f THEN s ELSE u.tasks[n].status
  BY <1>1, <1>4, PatchedIs DEF TaskStatus
<1>6. PICK w : w = FreedBy(v, live)
  OBVIOUS
<1>7. live \in BOOLEAN /\ u.running \in BOOLEAN
  BY <1>1, <1>2, <1>3 DEF Request, Queue
<1>8. /\ w \in Queue /\ w.user = u.user /\ w.tasks = v.tasks /\ w.running = (u.running /\ ~live)
  BY <1>5, <1>6, <1>7 DEF Queue, FreedBy
<1>9. PICK js2 : js2 = RemoveAt(js, i)
  OBVIOUS
<1>10. PICK g \in [DOMAIN js2 -> DOMAIN js \ {i}] :
          /\ js2 \in Seq(Request)
          /\ \A k \in DOMAIN js2 : js2[k] = js[g[k]]
          /\ \A k, l \in DOMAIN js2 : g[k] = g[l] => k = l
          /\ \A m \in DOMAIN js \ {i} : \E k \in DOMAIN js2 : g[k] = m
  BY <1>1, <1>9, RemovedFrom
<1>11. \A k \in DOMAIN js \ {i} : js[k].file # f
  BY <1>3 DEF UploadsOk, RequestsOk
<1>12. \A k \in DOMAIN js2 : g[k] \in DOMAIN js /\ g[k] # i
  BY <1>10
<1>13. RequestsOk(w, js2, st)
  <2>1. \A k, l \in DOMAIN js2 : js2[k].file = js2[l].file => k = l
    BY <1>10, <1>12 DEF UploadsOk, RequestsOk
  <2>2. \A k, l \in DOMAIN js2 : js2[k].live /\ js2[l].live => k = l
    BY <1>10, <1>12 DEF UploadsOk, RequestsOk
  <2>3. \A k \in DOMAIN js2 : js2[k].live => w.running
    BY <1>3, <1>8, <1>10, <1>12 DEF UploadsOk, RequestsOk
  <2>4. w.running => w.user # Nil /\ \E k \in DOMAIN js2 : js2[k].live
    <3> SUFFICES ASSUME w.running PROVE w.user # Nil /\ \E k \in DOMAIN js2 : js2[k].live
      OBVIOUS
    <3>1. u.running /\ ~live
      BY <1>8
    <3>2. PICK m \in DOMAIN js : js[m].live
      BY <3>1 DEF UploadsOk, RequestsOk
    <3>3. m # i
      BY <1>3, <3>1, <3>2
    <3>4. PICK k \in DOMAIN js2 : g[k] = m
      BY <1>10, <3>3
    <3>5. u.user # Nil
      BY <3>1 DEF UploadsOk, RequestsOk
    <3> QED BY <1>8, <1>10, <3>2, <3>4, <3>5
  <2>5. \A k \in DOMAIN js2 : \E n \in DOMAIN w.tasks : w.tasks[n].id = js2[k].file /\ w.tasks[n].status = "uploading"
    <3> SUFFICES ASSUME NEW k \in DOMAIN js2
                 PROVE  \E n \in DOMAIN w.tasks : w.tasks[n].id = js2[k].file /\ w.tasks[n].status = "uploading"
      OBVIOUS
    <3>1. PICK n \in DOMAIN u.tasks : u.tasks[n].id = js[g[k]].file /\ u.tasks[n].status = "uploading"
      BY <1>12 DEF UploadsOk, RequestsOk
    <3>2. js[g[k]].file # f
      BY <1>11, <1>12
    <3> QED BY <1>5, <1>8, <1>10, <3>1, <3>2
  <2>6. \A k \in DOMAIN js2 : js2[k].op = "uploaded" => <<js2[k].as, js2[k].file>> \in st
    BY <1>10, <1>12 DEF UploadsOk, RequestsOk
  <2> QED BY <1>10, <2>1, <2>2, <2>3, <2>4, <2>5, <2>6 DEF RequestsOk
<1>14. TasksOk(w, js2, st)
  <2>1. \A n, m \in DOMAIN w.tasks : w.tasks[n].id = w.tasks[m].id => w.tasks[n].status = w.tasks[m].status
    BY <1>5, <1>8 DEF UploadsOk, TasksOk
  <2>2. \A n \in DOMAIN w.tasks : w.tasks[n].status = "uploading" => \E k \in DOMAIN js2 : js2[k].file = w.tasks[n].id
    <3> SUFFICES ASSUME NEW n \in DOMAIN u.tasks, w.tasks[n].status = "uploading"
                 PROVE  \E k \in DOMAIN js2 : js2[k].file = w.tasks[n].id
      BY <1>5, <1>8
    <3>1. u.tasks[n].id # f /\ u.tasks[n].status = "uploading" /\ w.tasks[n].id = u.tasks[n].id
      BY <1>5, <1>8 DEF Finished
    <3>2. PICK m \in DOMAIN js : js[m].file = u.tasks[n].id
      BY <3>1 DEF UploadsOk, TasksOk
    <3>3. m # i
      BY <1>3, <3>1, <3>2
    <3> QED BY <1>10, <3>1, <3>2, <3>3
  <2>3. \A n \in DOMAIN w.tasks : w.tasks[n].status \in {"done", "duplicated"} => \E a \in Accounts : <<a, w.tasks[n].id>> \in st
    <3> SUFFICES ASSUME NEW n \in DOMAIN u.tasks, w.tasks[n].status \in {"done", "duplicated"}
                 PROVE  \E a \in Accounts : <<a, w.tasks[n].id>> \in st
      BY <1>5, <1>8
    <3>1. CASE u.tasks[n].id = f
      <4>1. w.tasks[n].id = f /\ s # "error"
        BY <1>5, <1>8, <3>1
      <4>2. <<js[i].as, f>> \in st
        BY <1>3, <4>1 DEF UploadsOk, RequestsOk
      <4>3. js[i].as \in Accounts
        BY <1>2 DEF Request
      <4> QED BY <4>1, <4>2, <4>3
    <3>2. CASE u.tasks[n].id # f
      BY <1>5, <1>8, <3>2 DEF UploadsOk, TasksOk
    <3> QED BY <3>1, <3>2
  <2> QED BY <1>8, <2>1, <2>2, <2>3 DEF TasksOk
<1> QED BY <1>3, <1>4, <1>6, <1>9, <1>13, <1>14 DEF UploadsOk

LEMMA QueueKept ==
  ASSUME NEW u, NEW js, NEW st, UploadsOk(u, js, st), NEW v \in Queue,
         v.tasks = u.tasks, v.user = u.user, v.running = u.running
  PROVE  UploadsOk(v, js, st)
BY DEF UploadsOk, RequestsOk, TasksOk

LEMMA UploadShownSafe == ASSUME UploadInv, ShowUpload \/ HideUpload PROVE UploadInv'
<1>1. uploads \in Queue
  BY DEF UploadInv, UploadsOk, TasksOk
<1>2. PICK b \in BOOLEAN : uploads' = [uploads EXCEPT !.open = b]
  BY DEF ShowUpload, HideUpload
<1>3. /\ uploads' \in Queue /\ uploads'.tasks = uploads.tasks /\ uploads'.user = uploads.user
      /\ uploads'.running = uploads.running
  BY <1>1, <1>2 DEF Queue
<1>4. jobs' = jobs /\ stored' = stored
  BY DEF ShowUpload, HideUpload
<1>5. UploadsOk(uploads', jobs, stored)
  BY <1>3, QueueKept DEF UploadInv
<1> QED BY <1>3, <1>4, <1>5 DEF UploadInv, Statuses

LEMMA EnqueueSafe == ASSUME UploadInv, NEW S \in SUBSET Files, Enqueue(S) PROVE UploadInv'
<1> DEFINE files == S \cap Media
           new == [n \in DOMAIN SetToSeq(files) |-> [id |-> SetToSeq(files)[n], status |-> "queued"]]
           v == [uploads EXCEPT !.note = S \ Media # {}, !.tasks = @ \o new]
<1>1. Processed(v, jobs) /\ stored' = stored /\ \A n \in DOMAIN uploads.tasks : uploads.tasks[n].id \notin S
  BY DEF Enqueue
<1>2. IsFiniteSet(files)
  BY UploadAssumption, FS_Subset
<1>3. UploadsOk(v, jobs, stored)
  <2>1. PICK nw : nw = new
    OBVIOUS
  <2>2. PICK fs : fs = files
    OBVIOUS
  <2>3. nw = [n \in DOMAIN SetToSeq(fs) |-> [id |-> SetToSeq(fs)[n], status |-> "queued"]]
    BY <2>1, <2>2
  <2>4. PICK b \in BOOLEAN : b = (S \ Media # {})
    OBVIOUS
  <2>5. IsFiniteSet(fs) /\ fs \subseteq Media /\ \A n \in DOMAIN uploads.tasks : uploads.tasks[n].id \notin fs
    BY <1>1, <1>2, <2>2
  <2>6. UploadsOk(uploads, jobs, stored)
    BY DEF UploadInv
  <2> HIDE DEF new, files
  <2>7. UploadsOk([uploads EXCEPT !.note = b, !.tasks = @ \o nw], jobs, stored)
    BY <2>3, <2>5, <2>6, QueuedOk
  <2> QED BY <2>1, <2>4, <2>7
<1> HIDE DEF v
<1> QED BY <1>1, <1>3, ProcessedOk

LEMMA ClearFinishedSafe == ASSUME UploadInv, ClearFinished PROVE UploadInv'
<1> DEFINE kept == Sifted(uploads.tasks, {n \in DOMAIN uploads.tasks : uploads.tasks[n].status \notin Finished})
           v == [uploads EXCEPT !.note = FALSE, !.tasks = kept]
<1>1. Processed(v, jobs) /\ stored' = stored
  BY DEF ClearFinished
<1>2. UploadsOk(uploads, jobs, stored)
  BY DEF UploadInv
<1>3. UploadsOk(v, jobs, stored)
  BY <1>2, ClearedOk
<1> HIDE DEF v
<1> QED BY <1>1, <1>3, ProcessedOk

LEMMA UploadStoredSafe == ASSUME UploadInv, NEW i \in DOMAIN jobs, UploadStored(i) PROVE UploadInv'
<1>1. UploadsOk(uploads, jobs, stored) /\ jobs \in Seq(Request) /\ uploads' = uploads
  BY DEF UploadInv, UploadsOk, RequestsOk, UploadStored
<1>2. jobs[i] \in Request
  BY <1>1, EntriesIn
<1>3. PICK j : j = [jobs[i] EXCEPT !.done = <<jobs[i].as, jobs[i].file>> \in stored, !.op = "uploaded"]
  OBVIOUS
<1>4. /\ j \in Request /\ j.op = "uploaded" /\ j.as = jobs[i].as /\ j.file = jobs[i].file /\ j.live = jobs[i].live
  <2> DEFINE known == <<jobs[i].as, jobs[i].file>> \in stored
  <2>0. known \in BOOLEAN
    OBVIOUS
  <2>1. PICK b \in BOOLEAN : b = known
    BY <2>0
  <2>2. PICK old \in Request : old = jobs[i]
    BY <1>2
  <2>3. j = [old EXCEPT !.done = b, !.op = "uploaded"]
    BY <1>3, <2>1, <2>2
  <2> HIDE DEF known
  <2>4. [old EXCEPT !.done = b] \in Request
    BY DEF Request
  <2> HIDE <2>1, <1>3
  <2> QED BY <2>2, <2>3, <2>4 DEF Request
<1>5. jobs' = [jobs EXCEPT ![i] = j] /\ stored' = stored \cup {<<j.as, j.file>>}
  BY <1>3, <1>4 DEF UploadStored, Becomes
<1>6. /\ jobs' \in Seq(Request) /\ DOMAIN jobs' = DOMAIN jobs /\ jobs'[i] = j
      /\ \A k \in DOMAIN jobs : k # i => jobs'[k] = jobs[k]
  BY <1>1, <1>4, <1>5
<1>7. \A k \in DOMAIN jobs : jobs'[k].file = jobs[k].file /\ jobs'[k].live = jobs[k].live
  BY <1>4, <1>6
<1>8. \A k \in DOMAIN jobs : jobs'[k].op = "uploaded" => <<jobs'[k].as, jobs'[k].file>> \in stored'
  BY <1>1, <1>5, <1>6 DEF UploadsOk, RequestsOk
<1>9. RequestsOk(uploads, jobs', stored')
  <2>1. \A k, l \in DOMAIN jobs' : jobs'[k].file = jobs'[l].file => k = l
    BY <1>1, <1>6, <1>7 DEF UploadsOk, RequestsOk
  <2>2. \A k, l \in DOMAIN jobs' : jobs'[k].live /\ jobs'[l].live => k = l
    BY <1>1, <1>6, <1>7 DEF UploadsOk, RequestsOk
  <2>3. \A k \in DOMAIN jobs' : jobs'[k].live => uploads.running
    BY <1>1, <1>6, <1>7 DEF UploadsOk, RequestsOk
  <2>4. uploads.running => uploads.user # Nil /\ \E k \in DOMAIN jobs' : jobs'[k].live
    <3>1. uploads.running => uploads.user # Nil /\ \E k \in DOMAIN jobs : jobs[k].live
      BY <1>1 DEF UploadsOk, RequestsOk
    <3> QED BY <1>6, <1>7, <3>1
  <2>5. \A k \in DOMAIN jobs' : \E n \in DOMAIN uploads.tasks : uploads.tasks[n].id = jobs'[k].file /\ uploads.tasks[n].status = "uploading"
    <3> SUFFICES ASSUME NEW k \in DOMAIN jobs
                 PROVE  \E n \in DOMAIN uploads.tasks : uploads.tasks[n].id = jobs'[k].file /\ uploads.tasks[n].status = "uploading"
      BY <1>6
    <3>1. PICK n \in DOMAIN uploads.tasks : uploads.tasks[n].id = jobs[k].file /\ uploads.tasks[n].status = "uploading"
      BY <1>1 DEF UploadsOk, RequestsOk
    <3> QED BY <1>7, <3>1
  <2> QED BY <1>6, <1>8, <2>1, <2>2, <2>3, <2>4, <2>5 DEF RequestsOk
<1>10. TasksOk(uploads, jobs', stored')
  BY <1>1, <1>5, <1>6, <1>7 DEF UploadsOk, TasksOk
<1> QED BY <1>1, <1>9, <1>10 DEF UploadInv, UploadsOk, Statuses

LEMMA UploadAnswersSafe == ASSUME UploadInv, NEW i \in DOMAIN jobs, UploadBack(i) \/ UploadFailed(i) PROVE UploadInv'
<1>1. UploadsOk(uploads, jobs, stored)
  BY DEF UploadInv
<1>2. PICK s \in Finished : /\ s = "error" \/ jobs[i].op = "uploaded"
                            /\ Processed(FreedBy(Patched(uploads, jobs[i].file, s), jobs[i].live), RemoveAt(jobs, i))
  <2>1. CASE UploadBack(i)
    BY <2>1 DEF UploadBack, At, Finished
  <2>2. CASE UploadFailed(i)
    BY <2>2 DEF UploadFailed, Finished
  <2> QED BY <2>1, <2>2
<1>3. UploadsOk(FreedBy(Patched(uploads, jobs[i].file, s), jobs[i].live), RemoveAt(jobs, i), stored)
  BY <1>1, <1>2, SettledOk
<1>4. stored' = stored
  BY DEF UploadBack, UploadFailed
<1> QED BY <1>2, <1>3, <1>4, ProcessedOk

LEMMA ShellGoneSafe == ASSUME UploadInv, ShellGone PROVE UploadInv'
<1>1. UploadsOk(uploads, jobs, stored) /\ jobs \in Seq(Request) /\ uploads \in Queue
  BY DEF UploadInv, UploadsOk, RequestsOk, TasksOk
<1>2. /\ uploads' = [uploads EXCEPT !.user = Nil, !.running = FALSE] /\ stored' = stored
      /\ jobs' = Orphaned(jobs, {"upload", "uploaded"})
  BY DEF ShellGone
<1>3. uploads' \in Queue /\ uploads'.user = Nil /\ uploads'.running = FALSE /\ uploads'.tasks = uploads.tasks
  BY <1>1, <1>2 DEF Queue
<1>4. Len(jobs) \in Nat /\ DOMAIN jobs = 1..Len(jobs) /\ \A k \in DOMAIN jobs : jobs[k] \in Request
  BY <1>1, EntriesIn
<1>5. \A k \in DOMAIN jobs : /\ [jobs[k] EXCEPT !.live = FALSE] \in Request /\ [jobs[k] EXCEPT !.live = FALSE].live = FALSE
                             /\ [jobs[k] EXCEPT !.live = FALSE].file = jobs[k].file
                             /\ [jobs[k] EXCEPT !.live = FALSE].op = jobs[k].op
                             /\ [jobs[k] EXCEPT !.live = FALSE].as = jobs[k].as
  BY <1>4 DEF Request
<1>6. /\ DOMAIN jobs' = DOMAIN jobs
      /\ \A k \in DOMAIN jobs : jobs'[k] = [jobs[k] EXCEPT !.live = FALSE]
  BY <1>2, <1>4 DEF Orphaned, Request
<1>7. jobs' \in Seq(Request)
  <2>1. jobs' = [k \in DOMAIN jobs |-> jobs'[k]]
    BY <1>2 DEF Orphaned
  <2>2. jobs' \in [1..Len(jobs) -> Request]
    BY <1>4, <1>5, <1>6, <2>1
  <2> QED BY <1>4, <2>2
<1>8. \A k \in DOMAIN jobs : /\ jobs'[k].live = FALSE /\ jobs'[k].file = jobs[k].file /\ jobs'[k].op = jobs[k].op
                             /\ jobs'[k].as = jobs[k].as
  BY <1>5, <1>6
<1>9. RequestsOk(uploads', jobs', stored)
  BY <1>1, <1>3, <1>6, <1>7, <1>8 DEF UploadsOk, RequestsOk
<1>10. TasksOk(uploads', jobs', stored)
  <2>1. \A n \in DOMAIN uploads.tasks : uploads.tasks[n].status = "uploading" => \E k \in DOMAIN jobs' : jobs'[k].file = uploads.tasks[n].id
    BY <1>1, <1>6, <1>8 DEF UploadsOk, TasksOk
  <2> QED BY <1>1, <1>3, <2>1 DEF UploadsOk, TasksOk
<1> QED BY <1>2, <1>3, <1>9, <1>10 DEF UploadInv, UploadsOk

LEMMA ShellBackSafe == ASSUME UploadInv, NEW a \in Accounts, ShellBack(a) PROVE UploadInv'
<1>1. UploadsOk(uploads, jobs, stored) /\ uploads \in Queue /\ uploads.user = Nil /\ stored' = stored
  BY DEF UploadInv, UploadsOk, TasksOk, ShellBack
<1>2. PICK v : v = [uploads EXCEPT !.user = a]
  OBVIOUS
<1>3. v \in Queue /\ v.tasks = uploads.tasks /\ v.running = uploads.running
  BY <1>1, <1>2 DEF Queue
<1>4. ~uploads.running
  BY <1>1 DEF UploadsOk, RequestsOk
<1>5. UploadsOk(v, jobs, stored)
  BY <1>1, <1>3, <1>4 DEF UploadsOk, RequestsOk, TasksOk
<1>6. Processed(v, jobs)
  BY <1>2 DEF ShellBack
<1> QED BY <1>1, <1>5, <1>6, ProcessedOk

LEMMA UploadBegins == ASSUME UploadInit PROVE UploadInv
<1>1. uploads = NoUploads /\ jobs = <<>>
  BY DEF UploadInit
<1>2. <<>> \in Seq(Request) /\ DOMAIN <<>> = {}
  OBVIOUS
<1>3. uploads \in Queue /\ uploads.user = Nil /\ uploads.running = FALSE /\ uploads.tasks = <<>>
  BY <1>1 DEF Queue, NoUploads
<1>4. RequestsOk(uploads, jobs, stored)
  BY <1>1, <1>2, <1>3 DEF RequestsOk
<1>5. TasksOk(uploads, jobs, stored)
  BY <1>1, <1>2, <1>3 DEF TasksOk
<1> QED BY <1>3, <1>4, <1>5 DEF UploadInv, UploadsOk

LEMMA UploadGoesOn == ASSUME UploadInv, UploadNext PROVE UploadInv'
<1>1. CASE ShowUpload \/ HideUpload
  BY <1>1, UploadShownSafe
<1>2. CASE ClearFinished
  BY <1>2, ClearFinishedSafe
<1>3. CASE ShellGone
  BY <1>3, ShellGoneSafe
<1>4. CASE \E S \in SUBSET Files : Enqueue(S)
  BY <1>4, EnqueueSafe
<1>5. CASE \E a \in Accounts : ShellBack(a)
  BY <1>5, ShellBackSafe
<1>6. CASE \E i \in DOMAIN jobs : UploadStored(i)
  BY <1>6, UploadStoredSafe
<1>7. CASE \E i \in DOMAIN jobs : UploadBack(i) \/ UploadFailed(i)
  BY <1>7, UploadAnswersSafe
<1> QED BY <1>1, <1>2, <1>3, <1>4, <1>5, <1>6, <1>7 DEF UploadNext

(* The invariant says that no file stalls and none is sent twice. *)
LEMMA UploadInvServes == ASSUME UploadInv PROVE UploadsServed
<1>1. UploadsOk(uploads, jobs, stored) /\ jobs \in Seq(Request)
  BY DEF UploadInv, UploadsOk, RequestsOk
<1>2. \A k \in DOMAIN jobs : jobs[k].op \in {"upload", "uploaded"}
  <2>1. \A k \in DOMAIN jobs : jobs[k] \in Request
    BY <1>1, EntriesIn
  <2> QED BY <2>1 DEF Request
<1>3. (uploads.user # Nil /\ Statuses(uploads, {"queued"}) # {}) =>
         \E i \in DOMAIN jobs : jobs[i].op \in {"upload", "uploaded"} /\ jobs[i].live
  BY <1>1, <1>2 DEF UploadInv, UploadsOk, RequestsOk
<1>4. ASSUME NEW n \in DOMAIN uploads.tasks
      PROVE  Cardinality(Sends(uploads.tasks[n].id)) = IF uploads.tasks[n].status = "uploading" THEN 1 ELSE 0
  <2> DEFINE sent == Sends(uploads.tasks[n].id)
  <2>1. \A k \in DOMAIN jobs : k \in sent <=> jobs[k].file = uploads.tasks[n].id
    BY <1>2 DEF Sends
  <2>2. sent \subseteq DOMAIN jobs
    BY DEF Sends
  <2> HIDE DEF sent
  <2>3. CASE uploads.tasks[n].status = "uploading"
    <3>1. PICK k \in DOMAIN jobs : jobs[k].file = uploads.tasks[n].id
      BY <1>1, <2>3 DEF UploadsOk, TasksOk
    <3>2. \A l \in DOMAIN jobs : jobs[l].file = uploads.tasks[n].id => l = k
      BY <1>1, <3>1 DEF UploadsOk, RequestsOk
    <3>3. sent = {k}
      BY <2>1, <2>2, <3>1, <3>2
    <3>4. Cardinality({k}) = 1
      BY FS_Singleton
    <3> QED BY <2>3, <3>3, <3>4 DEF sent
  <2>4. CASE uploads.tasks[n].status # "uploading"
    <3>1. \A k \in DOMAIN jobs : jobs[k].file # uploads.tasks[n].id
      <4> SUFFICES ASSUME NEW k \in DOMAIN jobs PROVE jobs[k].file # uploads.tasks[n].id
        OBVIOUS
      <4>1. PICK m \in DOMAIN uploads.tasks : uploads.tasks[m].id = jobs[k].file /\ uploads.tasks[m].status = "uploading"
        BY <1>1 DEF UploadsOk, RequestsOk
      <4>2. uploads.tasks[m].id = uploads.tasks[n].id => uploads.tasks[m].status = uploads.tasks[n].status
        BY <1>1 DEF UploadsOk, TasksOk
      <4> QED BY <2>4, <4>1, <4>2
    <3>2. sent = {}
      BY <2>1, <2>2, <3>1
    <3>3. Cardinality({}) = 0
      BY FS_EmptySet
    <3> QED BY <2>4, <3>2, <3>3 DEF sent
  <2> QED BY <2>3, <2>4
<1>5. \A n \in DOMAIN uploads.tasks :
         uploads.tasks[n].status \in {"done", "duplicated"} => \E a \in Accounts : <<a, uploads.tasks[n].id>> \in stored
  BY <1>1 DEF UploadsOk, TasksOk
<1> QED BY <1>3, <1>4, <1>5 DEF UploadsServed

(* --------------------------- the imports --------------------------------- *)

ZipStates == Running \cup {"none", "Done", "Failed"}
RowStates == {"waiting", "uploading", "receiving", "queued", "processing", "done", "failed", "canceled"}
Keys == Archives \cup ZipIds
PumpJobs == [op : {"pump"}, live : BOOLEAN, key : Keys, id : ZipIds,
             at : {"sent", "streaming", "accepted", "lost"}, cut : BOOLEAN]
SendJobs == [op : {"mzip"}, live : {TRUE}, token : Nat, id : ZipIds,
             at : {"begun", "sent", "streaming", "accepted", "lost"}, cut : BOOLEAN]
PollJobs == [op : {"poll"}, live : BOOLEAN, key : Keys, id : ZipIds]
TurnJobs == [op : {"mpoll"}, live : {TRUE}, token : Nat, id : ZipIds]
ListJobs == [op : {"list"}, live : BOOLEAN, at : {"asked", "read"}, seen : [ZipIds -> ZipStates]]
TapJobs == [op : {"pick", "cancel"}, live : {TRUE}]
ZipJobs == PumpJobs \cup SendJobs \cup PollJobs \cup TurnJobs \cup ListJobs \cup TapJobs
RowSet == [key : Keys, status : RowStates, id : ZipIds \cup {Nil}]
Panel == [open : BOOLEAN, rows : Seq(RowSet), pumping : BOOLEAN, stop : BOOLEAN]
Phone == [open : BOOLEAN, phase : {"idle", "uploading", "processing", "done", "error"},
          job : ZipStates \cup {Nil}, detached : BOOLEAN, token : Nat]

(* Each transfer has a job of its own on the server, that is as far as it is. *)
Transferring(j) == j.op \in {"pump", "mzip"}
Fit(z, j) == /\ j \in ZipJobs
             /\ Transferring(j) /\ j.at \in {"begun", "sent"} => z[j.id] = "none"
             /\ Transferring(j) /\ j.at = "streaming" => z[j.id] = "Uploading"
Own(js) == \A i, k \in DOMAIN js : Transferring(js[i]) /\ Transferring(js[k]) /\ js[i].id = js[k].id => i = k
ServerOk(z, js) == /\ z \in [ZipIds -> ZipStates] /\ js \in Seq(ZipJobs)
                   /\ \A k \in DOMAIN js : Fit(z, js[k])
                   /\ Own(js)

(* What a promise is awaited for: a row of the panel, or a run of the store. *)
Mark(j) == CASE j.op \in {"pump", "poll"} -> j.key [] j.op \in {"mzip", "mpoll"} -> j.token [] OTHER -> 0
Awaits(j, op, what) == j.live /\ j.op = op /\ Mark(j) = what
Awaited(js, op, what) == \E i \in DOMAIN js : Awaits(js[i], op, what)
RowOk(r, js, z) ==
  /\ r.status = "uploading" => Awaited(js, "pump", r.key)
  /\ r.status \in {"receiving", "queued", "processing"} => Awaited(js, "poll", r.key)
  /\ r.status = "done" => r.id \in ZipIds /\ z[r.id] = "Done"
PanelOk(p, js, z) == p \in Panel /\ \A n \in DOMAIN p.rows : RowOk(p.rows[n], js, z)
PhoneOk(p, js) ==
  /\ p \in Phone
  /\ p.phase = "uploading" => Awaited(js, "mzip", p.token) \/ Awaited(js, "cancel", 0)
  /\ p.phase = "processing" => Awaited(js, "mpoll", p.token)
ImportInv == ServerOk(zips, jobs) /\ PanelOk(panel, jobs, zips) /\ PhoneOk(zipper, jobs)

(* What one of the promises of an import is. *)
LEMMA ZipJobIs ==
  ASSUME NEW j \in ZipJobs
  PROVE  /\ j.op = "pump" => j \in PumpJobs
         /\ j.op = "mzip" => j \in SendJobs
         /\ j.op = "poll" => j \in PollJobs
         /\ j.op = "mpoll" => j \in TurnJobs
         /\ j.op = "list" => j \in ListJobs
         /\ j.op \in {"pick", "cancel"} => j \in TapJobs
         /\ j.live \in BOOLEAN
         /\ Transferring(j) => j.id \in ZipIds /\ j.cut \in BOOLEAN
BY DEF ZipJobs, PumpJobs, SendJobs, PollJobs, TurnJobs, ListJobs, TapJobs, Transferring

LEMMA ServerRemoved ==
  ASSUME NEW z, NEW js, ServerOk(z, js), NEW i \in DOMAIN js
  PROVE  /\ ServerOk(z, RemoveAt(js, i))
         /\ \A k \in DOMAIN RemoveAt(js, i) : \E m \in DOMAIN js \ {i} : RemoveAt(js, i)[k] = js[m]
         /\ \A m \in DOMAIN js \ {i} : \E k \in DOMAIN RemoveAt(js, i) : RemoveAt(js, i)[k] = js[m]
<1>1. PICK js2 : js2 = RemoveAt(js, i)
  OBVIOUS
<1>2. js \in Seq(ZipJobs)
  BY DEF ServerOk
<1>3. PICK g \in [DOMAIN js2 -> DOMAIN js \ {i}] :
          /\ js2 \in Seq(ZipJobs)
          /\ \A k \in DOMAIN js2 : js2[k] = js[g[k]]
          /\ \A k, l \in DOMAIN js2 : g[k] = g[l] => k = l
          /\ \A m \in DOMAIN js \ {i} : \E k \in DOMAIN js2 : g[k] = m
  BY <1>1, <1>2, RemovedFrom
<1>4. \A k \in DOMAIN js2 : g[k] \in DOMAIN js \ {i} /\ js2[k] = js[g[k]]
  BY <1>3
<1>5. \A k \in DOMAIN js2 : Fit(z, js2[k])
  BY <1>4 DEF ServerOk
<1>6. Own(js2)
  BY <1>3, <1>4 DEF ServerOk, Own
<1>7. ServerOk(z, js2)
  BY <1>3, <1>5, <1>6 DEF ServerOk
<1>8. \A m \in DOMAIN js \ {i} : \E k \in DOMAIN js2 : js2[k] = js[m]
  BY <1>3, <1>4
<1> QED BY <1>1, <1>4, <1>7, <1>8

LEMMA ServerAppended ==
  ASSUME NEW z, NEW js, ServerOk(z, js), NEW j, Fit(z, j),
         Transferring(j) => \A k \in DOMAIN js : Transferring(js[k]) => js[k].id # j.id
  PROVE  /\ ServerOk(z, Append(js, j))
         /\ DOMAIN Append(js, j) = DOMAIN js \cup {Len(js) + 1}
         /\ Append(js, j)[Len(js) + 1] = j /\ \A k \in DOMAIN js : Append(js, j)[k] = js[k]
<1>1. PICK js2 : js2 = Append(js, j)
  OBVIOUS
<1>2. js \in Seq(ZipJobs) /\ j \in ZipJobs
  BY DEF ServerOk, Fit
<1>3. Len(js) \in Nat /\ DOMAIN js = 1..Len(js)
  BY <1>2
<1>4. js2 \in Seq(ZipJobs) /\ Len(js2) = Len(js) + 1
  BY <1>1, <1>2
<1>5. js2[Len(js) + 1] = j /\ \A k \in 1..Len(js) : js2[k] = js[k]
  BY <1>1, <1>2
<1>6. DOMAIN js2 = 1..(Len(js) + 1)
  BY <1>3, <1>4
<1>7. DOMAIN js2 = DOMAIN js \cup {Len(js) + 1}
  BY <1>3, <1>6
<1>8. \A k \in DOMAIN js : js2[k] = js[k]
  BY <1>3, <1>5
<1>9. \A k \in DOMAIN js2 : Fit(z, js2[k])
  BY <1>5, <1>7, <1>8 DEF ServerOk
<1>10. Own(js2)
  BY <1>5, <1>7, <1>8 DEF ServerOk, Own
<1>11. ServerOk(z, js2)
  BY <1>4, <1>9, <1>10 DEF ServerOk
<1> QED BY <1>1, <1>5, <1>7, <1>8, <1>11

LEMMA ServerJoined ==
  ASSUME NEW z, NEW js, ServerOk(z, js), NEW t \in Seq(ZipJobs), \A m \in DOMAIN t : ~Transferring(t[m])
  PROVE  /\ ServerOk(z, js \o t)
         /\ \A op, what : Awaited(js, op, what) \/ Awaited(t, op, what) => Awaited(js \o t, op, what)
<1>1. PICK js2 : js2 = js \o t
  OBVIOUS
<1>2. js \in Seq(ZipJobs)
  BY DEF ServerOk
<1>3. /\ js2 \in Seq(ZipJobs)
      /\ \A k \in DOMAIN js2 : \/ k \in DOMAIN js /\ js2[k] = js[k]
                               \/ k \notin DOMAIN js /\ \E m \in DOMAIN t : js2[k] = t[m]
      /\ \A k \in DOMAIN js : k \in DOMAIN js2 /\ js2[k] = js[k]
      /\ \A m \in DOMAIN t : \E k \in DOMAIN js2 : js2[k] = t[m]
  <2>1. /\ js \o t \in Seq(ZipJobs)
        /\ \A k \in DOMAIN (js \o t) :
             \/ k \in DOMAIN js /\ (js \o t)[k] = js[k]
             \/ k \notin DOMAIN js /\ \E m \in DOMAIN t : (js \o t)[k] = t[m] /\ k = Len(js) + m
        /\ \A k \in DOMAIN js : k \in DOMAIN (js \o t) /\ (js \o t)[k] = js[k]
        /\ \A m \in DOMAIN t : Len(js) + m \in DOMAIN (js \o t) /\ (js \o t)[Len(js) + m] = t[m]
    BY <1>2, JoinedAs
  <2> HIDE <1>2
  <2> QED BY <1>1, <2>1, Zenon
<1>4. \A k \in DOMAIN js2 : js2[k] \in ZipJobs
  BY <1>3, EntriesIn
<1>5. \A k \in DOMAIN js2 : \/ k \in DOMAIN js /\ js2[k] = js[k]
                            \/ ~Transferring(js2[k])
  BY <1>3
<1>6. \A k \in DOMAIN js2 : Fit(z, js2[k])
  BY <1>4, <1>5 DEF ServerOk, Fit
<1>7. Own(js2)
  BY <1>5 DEF ServerOk, Own
<1>8. \A op, what : Awaited(js, op, what) \/ Awaited(t, op, what) => Awaited(js2, op, what)
  BY <1>3, Zenon DEF Awaited
<1> QED BY <1>1, <1>3, <1>6, <1>7, <1>8 DEF ServerOk

(* A promise goes on, and the server with it; nobody else is of that job. *)
LEMMA ServerBecomes ==
  ASSUME NEW z, NEW js, ServerOk(z, js), NEW i \in DOMAIN js, NEW j, NEW z2, Fit(z2, j),
         z2 \in [ZipIds -> ZipStates],
         \A y \in ZipIds : z2[y] # z[y] => Transferring(js[i]) /\ y = js[i].id,
         \/ ~Transferring(j)
         \/ Transferring(js[i]) /\ js[i].id = j.id
         \/ \A k \in DOMAIN js : Transferring(js[k]) => js[k].id # j.id,
         NEW js2, js2 = [js EXCEPT ![i] = j]
  PROVE  ServerOk(z2, js2)
<1>2. js \in Seq(ZipJobs) /\ j \in ZipJobs
  BY DEF ServerOk, Fit
<1>3. /\ js2 \in Seq(ZipJobs) /\ DOMAIN js2 = DOMAIN js /\ js2[i] = j
      /\ \A k \in DOMAIN js : k # i => js2[k] = js[k]
  BY <1>2
<1>4. \A k \in DOMAIN js : k # i => Fit(z2, js[k])
  <2> SUFFICES ASSUME NEW k \in DOMAIN js, k # i PROVE Fit(z2, js[k])
    OBVIOUS
  <2>1. Fit(z, js[k]) /\ js[k] \in ZipJobs
    BY DEF ServerOk, Fit
  <2>2. CASE Transferring(js[k])
    <3>1. js[k].id \in ZipIds
      BY <2>1, <2>2, ZipJobIs
    <3>2. z2[js[k].id] = z[js[k].id]
      BY <2>2, <3>1 DEF ServerOk, Own
    <3> QED BY <2>1, <3>2 DEF Fit
  <2>3. CASE ~Transferring(js[k])
    BY <2>1, <2>3 DEF Fit
  <2> QED BY <2>2, <2>3
<1>5. \A k \in DOMAIN js2 : Fit(z2, js2[k])
  BY <1>3, <1>4
<1>6. Own(js2)
  BY <1>3 DEF ServerOk, Own
<1>7. ServerOk(z2, js2)
  BY <1>3, <1>5, <1>6 DEF ServerOk
<1> QED BY <1>3, <1>7

LEMMA BecomesIs ==
  ASSUME NEW z, NEW js, ServerOk(z, js), NEW i \in DOMAIN js, NEW j
  PROVE  /\ DOMAIN [js EXCEPT ![i] = j] = DOMAIN js /\ [js EXCEPT ![i] = j][i] = j
         /\ \A k \in DOMAIN js : k # i => [js EXCEPT ![i] = j][k] = js[k]
<1>1. js \in Seq(ZipJobs)
  BY DEF ServerOk
<1> QED BY <1>1

(* The server goes on alone. *)
LEMMA ServerTurns ==
  ASSUME NEW z, NEW js, ServerOk(z, js), NEW z2 \in [ZipIds -> ZipStates],
         \A k \in DOMAIN js : Transferring(js[k]) /\ js[k].at \in {"begun", "sent", "streaming"} => z2[js[k].id] = z[js[k].id]
  PROVE  ServerOk(z2, js)
BY DEF ServerOk, Fit

(* Each promise stays what it is, but for its screen or what was asked of it. *)
LEMMA ServerMapped ==
  ASSUME NEW z, NEW js, ServerOk(z, js), NEW js2, DOMAIN js2 = DOMAIN js, js2 = [k \in DOMAIN js |-> js2[k]],
         \A k \in DOMAIN js : js2[k] = js[k] \/ /\ js2[k] \in ZipJobs /\ js2[k].op = js[k].op
                                                /\ Transferring(js[k]) => js2[k].id = js[k].id /\ js2[k].at = js[k].at
  PROVE  ServerOk(z, js2)
<1>1. Len(js) \in Nat /\ DOMAIN js = 1..Len(js) /\ \A k \in DOMAIN js : js[k] \in ZipJobs
  BY EntriesIn DEF ServerOk
<1>2. \A k \in 1..Len(js) : js2[k] \in ZipJobs
  BY <1>1
<1>3. js2 \in [1..Len(js) -> ZipJobs]
  BY <1>1, <1>2
<1>4. js2 \in Seq(ZipJobs)
  BY <1>1, <1>3
<1>5. \A k \in DOMAIN js : Fit(z, js2[k])
  BY <1>1, <1>2 DEF ServerOk, Fit, Transferring
<1>6. Own(js2)
  BY DEF ServerOk, Own, Transferring
<1> QED BY <1>4, <1>5, <1>6 DEF ServerOk

(* --------------------------- the panel and the store --------------------- *)

LEMMA PanelIs ==
  ASSUME NEW p \in Panel
  PROVE  /\ Len(p.rows) \in Nat /\ DOMAIN p.rows = 1..Len(p.rows) /\ p.rows \in Seq(RowSet)
         /\ \A n \in DOMAIN p.rows : p.rows[n] \in RowSet
<1>1. PICK rs : rs = p.rows
  OBVIOUS
<1>2. rs \in Seq(RowSet)
  BY <1>1 DEF Panel
<1> QED BY <1>1, <1>2, EntriesIn

(* Whoever is awaited is still awaited, and what is done stays done. *)
LEMMA PanelKept ==
  ASSUME NEW p, NEW js, NEW z, PanelOk(p, js, z), NEW js2, NEW z2,
         \A op \in {"pump", "poll"}, k \in Keys : Awaited(js, op, k) => Awaited(js2, op, k),
         \A y \in ZipIds : z[y] = "Done" => z2[y] = "Done"
  PROVE  PanelOk(p, js2, z2)
<1>1. p \in Panel /\ \A n \in DOMAIN p.rows : RowOk(p.rows[n], js, z)
  BY DEF PanelOk
<1>2. \A n \in DOMAIN p.rows : p.rows[n].key \in Keys
  BY <1>1, PanelIs DEF RowSet
<1>3. \A n \in DOMAIN p.rows : RowOk(p.rows[n], js2, z2)
  BY <1>1, <1>2 DEF RowOk
<1> QED BY <1>1, <1>3 DEF PanelOk

LEMMA RowedIs ==
  ASSUME NEW p \in Panel, NEW key, NEW s \in RowStates
  PROVE  /\ Rowed(p, key, s) \in Panel
         /\ Rowed(p, key, s).open = p.open /\ Rowed(p, key, s).stop = p.stop
         /\ DOMAIN Rowed(p, key, s).rows = DOMAIN p.rows
         /\ \A n \in DOMAIN p.rows :
              /\ p.rows[n].key # key => Rowed(p, key, s).rows[n] = p.rows[n]
              /\ p.rows[n].key = key => Rowed(p, key, s).rows[n].key = key /\ Rowed(p, key, s).rows[n].status = s
<1> DEFINE rs == [n \in DOMAIN p.rows |-> IF p.rows[n].key = key THEN [p.rows[n] EXCEPT !.status = s] ELSE p.rows[n]]
<1>1. Rowed(p, key, s) = [p EXCEPT !.rows = rs]
  BY DEF Rowed
<1>2. Len(p.rows) \in Nat /\ DOMAIN p.rows = 1..Len(p.rows) /\ \A n \in DOMAIN p.rows : p.rows[n] \in RowSet
  BY PanelIs
<1>3. \A n \in DOMAIN p.rows :
        /\ rs[n] \in RowSet
        /\ p.rows[n].key # key => rs[n] = p.rows[n]
        /\ p.rows[n].key = key => rs[n].key = key /\ rs[n].status = s
  BY <1>2 DEF RowSet
<1>4. rs \in [1..Len(p.rows) -> RowSet]
  <2>1. rs = [n \in 1..Len(p.rows) |-> rs[n]]
    BY <1>2
  <2>2. \A n \in 1..Len(p.rows) : rs[n] \in RowSet
    BY <1>2, <1>3
  <2> HIDE DEF rs
  <2> QED BY <2>1, <2>2
<1>5. rs \in Seq(RowSet)
  <2> HIDE DEF rs
  <2> QED BY <1>2, <1>4
<1>6. DOMAIN rs = DOMAIN p.rows
  OBVIOUS
<1> HIDE DEF rs
<1>7. [p EXCEPT !.rows = rs] \in Panel
  BY <1>5 DEF Panel
<1>8. /\ [p EXCEPT !.rows = rs].rows = rs /\ [p EXCEPT !.rows = rs].open = p.open
      /\ [p EXCEPT !.rows = rs].stop = p.stop
  BY DEF Panel
<1> QED BY <1>1, <1>3, <1>6, <1>7, <1>8

(* One row is said to be elsewhere. *)
LEMMA PanelRowed ==
  ASSUME NEW p, NEW js, NEW z, PanelOk(p, js, z), NEW js2, NEW z2, NEW key, NEW s \in RowStates,
         \A op \in {"pump", "poll"}, k \in Keys \ {key} : Awaited(js, op, k) => Awaited(js2, op, k),
         \A y \in ZipIds : z[y] = "Done" => z2[y] = "Done",
         s = "uploading" => Awaited(js2, "pump", key),
         s \in {"receiving", "queued", "processing"} => Awaited(js2, "poll", key),
         s # "done"
  PROVE  PanelOk(Rowed(p, key, s), js2, z2)
<1>1. p \in Panel /\ \A n \in DOMAIN p.rows : RowOk(p.rows[n], js, z)
  BY DEF PanelOk
<1>2. \A n \in DOMAIN p.rows : p.rows[n].key \in Keys
  BY <1>1, PanelIs DEF RowSet
<1>3. PICK v : v = Rowed(p, key, s)
  OBVIOUS
<1>4. /\ v \in Panel /\ DOMAIN v.rows = DOMAIN p.rows
      /\ \A n \in DOMAIN p.rows :
              /\ p.rows[n].key # key => v.rows[n] = p.rows[n]
              /\ p.rows[n].key = key => v.rows[n].key = key /\ v.rows[n].status = s
  BY <1>1, <1>3, RowedIs
<1>5. ASSUME NEW n \in DOMAIN v.rows PROVE RowOk(v.rows[n], js2, z2)
  <2>1. CASE p.rows[n].key = key
    BY <1>4, <2>1 DEF RowOk
  <2>2. CASE p.rows[n].key # key
    <3>1. v.rows[n] = p.rows[n] /\ RowOk(p.rows[n], js, z) /\ p.rows[n].key \in Keys \ {key}
      BY <1>1, <1>2, <1>4, <2>2
    <3> QED BY <3>1 DEF RowOk
  <2> QED BY <2>1, <2>2
<1> QED BY <1>3, <1>4, <1>5 DEF PanelOk

LEMMA PhoneKept ==
  ASSUME NEW p, NEW js, PhoneOk(p, js), NEW js2,
         \A op \in {"mzip", "mpoll"} : Awaited(js, op, p.token) => Awaited(js2, op, p.token),
         Awaited(js, "cancel", 0) => Awaited(js2, "cancel", 0)
  PROVE  PhoneOk(p, js2)
BY DEF PhoneOk

LEMMA AwaitedLeft ==
  ASSUME NEW z, NEW js, ServerOk(z, js), NEW i \in DOMAIN js, NEW op, NEW what,
         Awaited(js, op, what), ~Awaits(js[i], op, what)
  PROVE  Awaited(RemoveAt(js, i), op, what)
<1>1. PICK m \in DOMAIN js : Awaits(js[m], op, what)
  BY DEF Awaited
<1>2. m \in DOMAIN js \ {i}
  BY <1>1
<1>3. PICK k \in DOMAIN RemoveAt(js, i) : RemoveAt(js, i)[k] = js[m]
  BY <1>2, ServerRemoved
<1> QED BY <1>1, <1>3 DEF Awaited

(* Promises that stay, or stay awaited by whoever awaits them. *)
LEMMA AwaitedKept ==
  ASSUME NEW js, NEW js2, NEW op, NEW what, Awaited(js, op, what),
         \A k \in DOMAIN js : Awaits(js[k], op, what) => \E m \in DOMAIN js2 : Awaits(js2[m], op, what)
  PROVE  Awaited(js2, op, what)
BY DEF Awaited

LEMMA ImportNow ==
  ASSUME ImportInv
  PROVE  /\ ServerOk(zips, jobs) /\ PanelOk(panel, jobs, zips) /\ PhoneOk(zipper, jobs)
         /\ zips \in [ZipIds -> ZipStates] /\ jobs \in Seq(ZipJobs) /\ panel \in Panel /\ zipper \in Phone
         /\ \A k \in DOMAIN jobs : jobs[k] \in ZipJobs /\ Fit(zips, jobs[k])
BY DEF ImportInv, ServerOk, PanelOk, PhoneOk, Fit

(* -------------------------------- the server ----------------------------- *)

LEMMA ServesSafe ==
  ASSUME ImportInv, NEW i \in DOMAIN jobs, NEW s, NEW t, Serves(i, s, t), Transferring(jobs[i]),
         \/ s = "streaming" /\ t = "Uploading" /\ jobs[i].at = "sent"
         \/ s \in {"accepted", "lost"} /\ t \in {"Queued", "Failed"} /\ jobs[i].at = "streaming"
  PROVE  ImportInv'
<1> USE ImportNow
<1>1. PICK old \in ZipJobs : old = jobs[i]
  OBVIOUS
<1>2. PICK j : j = [old EXCEPT !.at = s]
  OBVIOUS
<1>3. /\ j \in ZipJobs /\ j.op = old.op /\ j.live = old.live /\ j.id = old.id /\ j.at = s /\ Mark(j) = Mark(old)
  <2>1. CASE old.op = "pump"
    <3>1. old \in PumpJobs
      BY <2>1, ZipJobIs
    <3>2. j \in PumpJobs /\ j.op = old.op /\ j.live = old.live /\ j.id = old.id /\ j.at = s /\ j.key = old.key
      BY <1>2, <3>1 DEF PumpJobs
    <3> QED BY <2>1, <3>2 DEF ZipJobs, Mark
  <2>2. CASE old.op = "mzip"
    <3>1. old \in SendJobs
      BY <2>2, ZipJobIs
    <3>2. j \in SendJobs /\ j.op = old.op /\ j.live = old.live /\ j.id = old.id /\ j.at = s /\ j.token = old.token
      BY <1>2, <3>1 DEF SendJobs
    <3> QED BY <2>2, <3>2 DEF ZipJobs, Mark
  <2> QED BY <1>1, <2>1, <2>2 DEF Transferring
<1>4. PICK z2 : z2 = [zips EXCEPT ![old.id] = t]
  OBVIOUS
<1>5. old.id \in ZipIds /\ zips[old.id] \in {"none", "Uploading"}
  BY <1>1, ZipJobIs DEF Fit
<1>6. /\ z2 \in [ZipIds -> ZipStates] /\ z2[old.id] = t /\ \A y \in ZipIds : y # old.id => z2[y] = zips[y]
  BY <1>4, <1>5 DEF ZipStates, Running
<1>7. Fit(z2, j)
  BY <1>3, <1>6 DEF Fit
<1>8. zips' = z2 /\ jobs' = [jobs EXCEPT ![i] = j] /\ panel' = panel /\ zipper' = zipper
  BY <1>1, <1>2, <1>4 DEF Serves, Becomes
<1>9. /\ ServerOk(z2, jobs') /\ DOMAIN jobs' = DOMAIN jobs /\ jobs'[i] = j
      /\ \A k \in DOMAIN jobs : k # i => jobs'[k] = jobs[k]
  <2>1. PICK js, z : js = jobs /\ z = zips
    OBVIOUS
  <2>2. PICK js2 : js2 = [js EXCEPT ![i] = j]
    OBVIOUS
  <2>3. Transferring(js[i]) /\ js[i].id = j.id /\ ServerOk(z, js) /\ z2 \in [ZipIds -> ZipStates] /\ i \in DOMAIN js
    BY <1>1, <1>3, <1>6, <2>1
  <2>4. \A y \in ZipIds : z2[y] # z[y] => Transferring(js[i]) /\ y = js[i].id
    BY <1>1, <1>6, <2>1, <2>3
  <2>5. ServerOk(z2, js2)
    <3> HIDE ImportNow
    <3> QED BY <1>7, <2>2, <2>3, <2>4, ServerBecomes
  <2>6. DOMAIN js2 = DOMAIN js /\ js2[i] = j /\ \A k \in DOMAIN js : k # i => js2[k] = js[k]
    BY <2>2, <2>3, BecomesIs
  <2> QED BY <1>8, <2>1, <2>2, <2>5, <2>6
<1>10. ASSUME NEW op, NEW what, Awaited(jobs, op, what) PROVE Awaited(jobs', op, what)
  <2>1. \A k \in DOMAIN jobs : Awaits(jobs[k], op, what) => Awaits(jobs'[k], op, what)
    BY <1>1, <1>3, <1>9 DEF Awaits
  <2> QED BY <1>9, <1>10, <2>1, AwaitedKept
<1>11. \A y \in ZipIds : zips[y] = "Done" => z2[y] = "Done"
  BY <1>5, <1>6
<1>12. PanelOk(panel, jobs', z2)
  BY <1>10, <1>11, PanelKept
<1>13. PhoneOk(zipper, jobs')
  BY <1>10, PhoneKept
<1> QED BY <1>8, <1>9, <1>12, <1>13 DEF ImportInv

LEMMA RequestSafe ==
  ASSUME ImportInv, NEW i \in DOMAIN jobs, ZipReceived(i) \/ ZipStaged(i) \/ ZipBroken(i) PROVE ImportInv'
<1>1. CASE ZipReceived(i)
  BY <1>1, ServesSafe DEF ZipReceived, Sending, Transferring
<1>2. CASE ZipStaged(i)
  BY <1>2, ServesSafe DEF ZipStaged, Sending, Transferring
<1>3. CASE ZipBroken(i)
  BY <1>3, ServesSafe DEF ZipBroken, Sending, Transferring
<1> QED BY <1>1, <1>2, <1>3

(* The job goes on without the screen that sent it. *)
LEMMA WorkerSafe ==
  ASSUME ImportInv, NEW z \in ZipIds, UNCHANGED <<panel, zipper, jobs>>,
         ZipStagedElsewhere(z) \/ ZipTaken(z) \/ ZipFinished(z) \/ ZipGivenUp(z)
  PROVE  ImportInv'
<1> USE ImportNow
<1>1. PICK s \in {"Queued", "Processing", "Done", "Failed"} : zips' = [zips EXCEPT ![z] = s]
  BY DEF ZipStagedElsewhere, ZipTaken, ZipFinished, ZipGivenUp
<1>2. zips' \in [ZipIds -> ZipStates] /\ \A y \in ZipIds : y # z => zips'[y] = zips[y]
  BY <1>1 DEF ZipStates, Running
<1>3. /\ zips[z] \in {"Uploading", "Queued", "Processing"}
      /\ zips[z] = "Uploading" => \A k \in DOMAIN jobs : Transferring(jobs[k]) => jobs[k].id # z
  BY DEF ZipStagedElsewhere, ZipTaken, ZipFinished, ZipGivenUp, Transferring
<1>4. \A k \in DOMAIN jobs : Transferring(jobs[k]) /\ jobs[k].at \in {"begun", "sent", "streaming"} => zips'[jobs[k].id] = zips[jobs[k].id]
  <2> SUFFICES ASSUME NEW k \in DOMAIN jobs, Transferring(jobs[k]), jobs[k].at \in {"begun", "sent", "streaming"}
               PROVE  zips'[jobs[k].id] = zips[jobs[k].id]
    OBVIOUS
  <2>1. jobs[k].id \in ZipIds
    BY ZipJobIs
  <2>2. zips[jobs[k].id] \in {"none", "Uploading"}
    BY DEF Fit
  <2> QED BY <1>2, <1>3, <2>1, <2>2
<1>5. ServerOk(zips', jobs)
  BY <1>2, <1>4, ServerTurns
<1>6. PanelOk(panel, jobs, zips')
  BY <1>2, <1>3, PanelKept
<1> QED BY <1>5, <1>6 DEF ImportInv

(* ------------------------------ what ends -------------------------------- *)

LEMMA EndsServer ==
  ASSUME ImportInv, NEW i \in DOMAIN jobs
  PROVE  /\ ServerOk(zips, RemoveAt(jobs, i))
         /\ \A op, what : Awaited(jobs, op, what) /\ ~Awaits(jobs[i], op, what) => Awaited(RemoveAt(jobs, i), op, what)
         /\ \A k \in DOMAIN RemoveAt(jobs, i) : \E m \in DOMAIN jobs \ {i} : RemoveAt(jobs, i)[k] = jobs[m]
<1>1. ServerOk(zips, jobs)
  BY DEF ImportInv
<1>2. \A op, what : Awaited(jobs, op, what) /\ ~Awaits(jobs[i], op, what) => Awaited(RemoveAt(jobs, i), op, what)
  BY <1>1, AwaitedLeft
<1> QED BY <1>1, <1>2, ServerRemoved

(* A transfer that ends leaves no job that receives nothing. *)
LEMMA DroppedServer ==
  ASSUME ImportInv, NEW i \in DOMAIN jobs, Transferring(jobs[i])
  PROVE  /\ ServerOk(Dropped(i), RemoveAt(jobs, i))
         /\ \A y \in ZipIds : zips[y] \in {"Done", "none"} => Dropped(i)[y] = zips[y]
<1> USE ImportNow
<1>1. PICK js : js = RemoveAt(jobs, i)
  OBVIOUS
<1>2. PICK z2 : z2 = Dropped(i)
  OBVIOUS
<1>3. /\ ServerOk(zips, js) /\ \A k \in DOMAIN js : \E m \in DOMAIN jobs \ {i} : js[k] = jobs[m]
  BY <1>1, EndsServer
<1>4. CASE jobs[i].at = "streaming"
  <2>1. z2 = [zips EXCEPT ![jobs[i].id] = "Failed"]
    BY <1>2, <1>4 DEF Dropped
  <2>2. jobs[i].id \in ZipIds /\ zips[jobs[i].id] = "Uploading"
    BY <1>4, ZipJobIs DEF Fit
  <2>3. z2 \in [ZipIds -> ZipStates] /\ \A y \in ZipIds : y # jobs[i].id => z2[y] = zips[y]
    BY <2>1, <2>2 DEF ZipStates
  <2>4. \A k \in DOMAIN js : Transferring(js[k]) => z2[js[k].id] = zips[js[k].id]
    <3> SUFFICES ASSUME NEW k \in DOMAIN js, Transferring(js[k]) PROVE z2[js[k].id] = zips[js[k].id]
      OBVIOUS
    <3>1. PICK m \in DOMAIN jobs \ {i} : js[k] = jobs[m]
      BY <1>3
    <3>2. jobs[m].id \in ZipIds
      BY <3>1, ZipJobIs
    <3>3. jobs[m].id # jobs[i].id
      BY <3>1 DEF ServerOk, Own
    <3> QED BY <2>3, <3>1, <3>2, <3>3
  <2>5. ServerOk(z2, js)
    BY <1>3, <2>3, <2>4, ServerTurns
  <2> QED BY <1>1, <1>2, <2>2, <2>3, <2>5
<1>5. CASE jobs[i].at # "streaming"
  BY <1>1, <1>3, <1>5 DEF Dropped
<1> QED BY <1>4, <1>5

(* -------------------------------- the panel ------------------------------ *)

LEMMA PanelSame ==
  ASSUME NEW p, NEW js, NEW z, PanelOk(p, js, z), NEW v \in Panel, v.rows = p.rows
  PROVE  PanelOk(v, js, z)
BY DEF PanelOk

LEMMA AwaitedAppended ==
  ASSUME NEW z, NEW js, ServerOk(z, js), NEW j \in ZipJobs
  PROVE  /\ \A op, what : Awaited(js, op, what) => Awaited(Append(js, j), op, what)
         /\ \A op, what : Awaits(j, op, what) => Awaited(Append(js, j), op, what)
<1>1. js \in Seq(ZipJobs) /\ Len(js) \in Nat /\ DOMAIN js = 1..Len(js)
  BY DEF ServerOk
<1>2. PICK js2 : js2 = Append(js, j)
  OBVIOUS
<1>3. DOMAIN js2 = 1..(Len(js) + 1) /\ js2[Len(js) + 1] = j /\ \A k \in 1..Len(js) : js2[k] = js[k]
  BY <1>1, <1>2
<1>4. \A k \in DOMAIN js : k \in DOMAIN js2 /\ js2[k] = js[k]
  BY <1>1, <1>3
<1>5. Len(js) + 1 \in DOMAIN js2
  BY <1>1, <1>3
<1>6. \A op, what : Awaited(js, op, what) => Awaited(js2, op, what)
  BY <1>4, Zenon DEF Awaited
<1>7. \A op, what : Awaits(j, op, what) => Awaited(js2, op, what)
  BY <1>3, <1>5, Zenon DEF Awaited
<1> QED BY <1>2, <1>6, <1>7

LEMMA NewZipIs ==
  ASSUME HasZip
  PROVE  NewZip \in ZipIds /\ zips[NewZip] = "none" /\ \A k \in DOMAIN jobs : Transferring(jobs[k]) => jobs[k].id # NewZip
<1> DEFINE free(z) == z \in ZipIds /\ zips[z] = "none" /\ \A k \in DOMAIN jobs : jobs[k].op \in {"pump", "mzip"} => jobs[k].id # z
<1>1. \E z : free(z)
  BY DEF HasZip
<1>2. NewZip = CHOOSE z : free(z)
  BY DEF NewZip
<1>3. free(CHOOSE z : free(z))
  <2> HIDE DEF free
  <2> QED BY <1>1
<1> QED BY <1>2, <1>3 DEF Transferring

LEMMA FirstWaits ==
  ASSUME NEW p \in Panel, Of(p, {"waiting"}) # {}
  PROVE  FirstOf(Of(p, {"waiting"})) \in DOMAIN p.rows /\ p.rows[FirstOf(Of(p, {"waiting"}))].key \in Keys
<1>1. PICK S : S = Of(p, {"waiting"})
  OBVIOUS
<1>2. S \subseteq DOMAIN p.rows
  BY <1>1 DEF Of
<1>3. S \in SUBSET Nat
  BY <1>2, PanelIs
<1>4. \E n \in S : \A m \in S : n <= m
  BY <1>1, <1>3, LeastOf
<1>5. FirstOf(S) \in S
  BY <1>4 DEF FirstOf
<1>6. \A n \in DOMAIN p.rows : p.rows[n].key \in Keys
  BY PanelIs DEF RowSet
<1> QED BY <1>1, <1>2, <1>5, <1>6

LEMMA PumpGoesOn ==
  ASSUME NEW p, NEW js, NEW z2, ServerOk(z2, js), PanelOk(p, js, z2), PhoneOk(zipper, js), PumpOn(p, js),
         \A k \in DOMAIN js : Transferring(js[k]) => \E m \in DOMAIN jobs : Transferring(jobs[m]) /\ jobs[m].id = js[k].id,
         \A y \in ZipIds : zips[y] = "none" => z2[y] = "none",
         zips' = z2, zipper' = zipper
  PROVE  ImportInv'
<1>0. p \in Panel
  BY DEF PanelOk
<1>1. CASE ~Pumps(p)
  <2>1. panel' = [p EXCEPT !.pumping = FALSE] /\ jobs' = js
    BY <1>1 DEF PumpOn
  <2>2. panel' \in Panel /\ panel'.rows = p.rows
    BY <1>0, <2>1 DEF Panel
  <2>3. PanelOk(panel', js, z2)
    BY <2>2, PanelSame
  <2> QED BY <2>1, <2>3 DEF ImportInv
<1>2. CASE Pumps(p)
  <2>1. PICK key : key = p.rows[FirstOf(Of(p, {"waiting"}))].key
    OBVIOUS
  <2>2. key \in Keys
    BY <1>0, <1>2, <2>1, FirstWaits DEF Pumps
  <2>3. PICK p2 : p2 = [p EXCEPT !.pumping = TRUE]
    OBVIOUS
  <2>4. p2 \in Panel /\ p2.rows = p.rows
    BY <1>0, <2>3 DEF Panel
  <2>5. PICK j : j = [op |-> "pump", live |-> TRUE, key |-> key, id |-> NewZip, at |-> "sent", cut |-> FALSE]
    OBVIOUS
  <2>6. HasZip /\ panel' = Rowed(p2, key, "uploading") /\ jobs' = Append(js, j)
    BY <1>2, <2>1, <2>3, <2>5 DEF PumpOn
  <2>7. NewZip \in ZipIds /\ z2[NewZip] = "none" /\ \A k \in DOMAIN js : Transferring(js[k]) => js[k].id # NewZip
    BY <2>6, NewZipIs
  <2>8. /\ j \in ZipJobs /\ j.op = "pump" /\ j.live /\ j.key = key /\ j.id = NewZip /\ j.at = "sent"
    <3>1. j \in PumpJobs
      BY <2>2, <2>5, <2>7 DEF PumpJobs
    <3> QED BY <2>5, <3>1 DEF ZipJobs
  <2>9. Fit(z2, j)
    BY <2>7, <2>8 DEF Fit
  <2>10. ServerOk(z2, jobs')
    <3>1. PICK js2 : js2 = Append(js, j)
      OBVIOUS
    <3>2. \A k \in DOMAIN js : Transferring(js[k]) => js[k].id # j.id
      BY <2>7, <2>8
    <3>3. ServerOk(z2, js2)
      BY <2>9, <3>1, <3>2, ServerAppended
    <3> QED BY <2>6, <3>1, <3>3
  <2>11. \A op, what : Awaited(js, op, what) => Awaited(jobs', op, what)
    BY <2>6, <2>8, AwaitedAppended
  <2>12. Awaited(jobs', "pump", key)
    <3>1. Awaits(j, "pump", key)
      BY <2>8 DEF Awaits, Mark
    <3> QED BY <2>6, <2>8, <3>1, AwaitedAppended
  <2>13. PanelOk(p2, js, z2)
    BY <2>4, PanelSame
  <2>14. PanelOk(panel', jobs', z2)
    <3>1. "uploading" \in RowStates
      BY DEF RowStates
    <3> QED BY <2>6, <2>11, <2>12, <2>13, <3>1, PanelRowed
  <2>15. PhoneOk(zipper, jobs')
    BY <2>11, PhoneKept
  <2> QED BY <2>10, <2>14, <2>15 DEF ImportInv
<1> QED BY <1>1, <1>2

LEMMA StartSafe == ASSUME ImportInv, Start PROVE ImportInv'
<1> USE ImportNow
<1>1. PICK p : p = [panel EXCEPT !.stop = FALSE]
  OBVIOUS
<1>2. PumpOn(p, jobs) /\ zips' = zips /\ zipper' = zipper
  BY <1>1 DEF Start
<1>3. p \in Panel /\ p.rows = panel.rows
  BY <1>1 DEF Panel
<1>4. PanelOk(p, jobs, zips)
  BY <1>3, PanelSame
<1> QED BY <1>2, <1>4, PumpGoesOn

LEMMA PanelNew ==
  ASSUME NEW b \in BOOLEAN, NEW js, NEW z
  PROVE  PanelOk([NoPanel EXCEPT !.open = b], js, z) /\ PanelOk(NoPanel, js, z)
<1>1. <<>> \in Seq(RowSet) /\ DOMAIN <<>> = {}
  OBVIOUS
<1>2. PICK none : none = <<>>
  OBVIOUS
<1>3. NoPanel = [open |-> FALSE, rows |-> none, pumping |-> FALSE, stop |-> FALSE]
  BY <1>2, Zenon DEF NoPanel
<1>4. none \in Seq(RowSet) /\ DOMAIN none = {}
  BY <1>1, <1>2
<1> HIDE <1>1, <1>2
<1>5. [NoPanel EXCEPT !.open = b] \in Panel /\ [NoPanel EXCEPT !.open = b].rows = none
  BY <1>3, <1>4 DEF Panel
<1>6. NoPanel \in Panel /\ NoPanel.rows = none
  BY <1>3, <1>4 DEF Panel
<1> QED BY <1>4, <1>5, <1>6 DEF PanelOk

LEMMA OpenPanelSafe == ASSUME ImportInv, OpenPanel PROVE ImportInv'
<1> USE ImportNow
<1>1. PICK j : j = [op |-> "list", live |-> TRUE, at |-> "asked", seen |-> zips]
  OBVIOUS
<1>2. j \in ZipJobs /\ j.op = "list"
  <2>1. j \in ListJobs
    BY <1>1 DEF ListJobs
  <2> QED BY <1>1, <2>1 DEF ZipJobs
<1>3. jobs' = jobs \o <<j>> /\ zips' = zips /\ zipper' = zipper /\ panel' = [NoPanel EXCEPT !.open = TRUE]
  BY <1>1 DEF OpenPanel, Begun
<1>4. /\ <<j>> \in Seq(ZipJobs) /\ DOMAIN <<j>> = {1} /\ <<j>>[1] = j
  BY <1>2
<1>5. \A m \in DOMAIN <<j>> : ~Transferring(<<j>>[m])
  BY <1>2, <1>4 DEF Transferring
<1>6. /\ ServerOk(zips, jobs \o <<j>>)
      /\ \A op, what : Awaited(jobs, op, what) => Awaited(jobs \o <<j>>, op, what)
  <2>1. PICK t \in Seq(ZipJobs) : t = <<j>>
    BY <1>4
  <2>2. \A m \in DOMAIN t : ~Transferring(t[m])
    BY <1>5, <2>1
  <2>3. ServerOk(zips, jobs \o t) /\ \A op, what : Awaited(jobs, op, what) => Awaited(jobs \o t, op, what)
    BY <2>2, ServerJoined
  <2> QED BY <2>1, <2>3
<1>7. \A op, what : Awaited(jobs, op, what) => Awaited(jobs', op, what)
  BY <1>3, <1>6
<1>8. PanelOk(panel', jobs', zips)
  BY <1>3, PanelNew
<1>9. PhoneOk(zipper, jobs')
  BY <1>7, PhoneKept
<1> QED BY <1>3, <1>6, <1>8, <1>9 DEF ImportInv

(* Of a listing nothing waits: it may begin, read, end as it likes. *)
LEMMA ListReadSafe == ASSUME ImportInv, NEW i \in DOMAIN jobs, ListRead(i) PROVE ImportInv'
<1> USE ImportNow
<1>1. PICK old \in ListJobs : old = jobs[i]
  BY ZipJobIs DEF ListRead, Step, At
<1>2. PICK j : j = [old EXCEPT !.at = "read", !.seen = zips]
  OBVIOUS
<1>3. j \in ListJobs /\ j.op = "list" /\ old.op = "list"
  <2>1. [old EXCEPT !.at = "read"] \in ListJobs
    BY DEF ListJobs
  <2> QED BY <1>2, <2>1 DEF ListJobs
<1>4. j \in ZipJobs /\ Fit(zips, j)
  BY <1>3 DEF ZipJobs, Fit, Transferring
<1>5. PICK js2 : js2 = [jobs EXCEPT ![i] = j]
  OBVIOUS
<1>6. jobs' = js2 /\ zips' = zips /\ panel' = panel /\ zipper' = zipper
  BY <1>1, <1>2, <1>5 DEF ListRead, Becomes, zipVars
<1>7. ServerOk(zips, js2)
  <2>1. ~Transferring(j)
    BY <1>3 DEF Transferring
  <2> QED BY <1>4, <1>5, <2>1, ServerBecomes
<1>8. DOMAIN js2 = DOMAIN jobs /\ \A k \in DOMAIN jobs : k # i => js2[k] = jobs[k]
  BY <1>5, BecomesIs
<1>9. ASSUME NEW op, op # "list", NEW what, Awaited(jobs, op, what) PROVE Awaited(js2, op, what)
  BY <1>1, <1>3, <1>8, <1>9 DEF Awaited, Awaits
<1>10. PanelOk(panel, js2, zips)
  BY <1>9, PanelKept
<1>11. PhoneOk(zipper, js2)
  BY <1>9, PhoneKept
<1> QED BY <1>6, <1>7, <1>10, <1>11 DEF ImportInv

LEMMA ListFailedSafe == ASSUME ImportInv, NEW i \in DOMAIN jobs, ListFailed(i) PROVE ImportInv'
<1> USE ImportNow
<1>1. jobs[i].op = "list" /\ jobs' = RemoveAt(jobs, i) /\ zips' = zips /\ panel' = panel /\ zipper' = zipper
  BY DEF ListFailed, At, Ends, zipVars
<1>2. ServerOk(zips, jobs')
  BY <1>1, EndsServer
<1>3. ASSUME NEW op, op # "list", NEW what, Awaited(jobs, op, what) PROVE Awaited(jobs', op, what)
  <2>1. ~Awaits(jobs[i], op, what)
    BY <1>1, <1>3 DEF Awaits
  <2> QED BY <1>1, <1>3, <2>1, EndsServer
<1>4. PanelOk(panel, jobs', zips)
  BY <1>3, PanelKept
<1>5. PhoneOk(zipper, jobs')
  BY <1>3, PhoneKept
<1> QED BY <1>1, <1>2, <1>4, <1>5 DEF ImportInv

(* Rows that nobody waits for come and go. *)
LEMMA RowsSafe ==
  ASSUME ImportInv, NEW rs \in Seq(RowSet), panel' = [panel EXCEPT !.rows = rs], UNCHANGED <<zips, zipper, jobs>>,
         \A n \in DOMAIN rs : rs[n].status = "waiting" \/ \E m \in DOMAIN panel.rows : rs[n] = panel.rows[m]
  PROVE  ImportInv'
<1> USE ImportNow
<1>1. panel' \in Panel /\ panel'.rows = rs
  BY DEF Panel
<1>2. \A n \in DOMAIN rs : RowOk(rs[n], jobs, zips)
  BY DEF PanelOk, RowOk
<1>3. PanelOk(panel', jobs, zips)
  BY <1>1, <1>2 DEF PanelOk
<1> QED BY <1>3 DEF ImportInv

LEMMA PickSafe == ASSUME ImportInv, NEW a \in Archives, Pick(a) PROVE ImportInv'
<1>1. PICK r : r = Row(a, "waiting", Nil)
  OBVIOUS
<1>2. r \in RowSet /\ r.status = "waiting"
  BY <1>1 DEF Row, RowSet, RowStates, Keys
<1>3. PICK old \in Seq(RowSet) : old = panel.rows
  BY ImportNow, PanelIs
<1>4. PICK rs : rs = Append(old, r)
  OBVIOUS
<1>5. rs \in Seq(RowSet) /\ \A n \in DOMAIN rs : rs[n] = r \/ \E m \in DOMAIN old : rs[n] = old[m]
  <2>1. Len(old) \in Nat /\ DOMAIN old = 1..Len(old)
    BY EntriesIn
  <2>2. rs \in Seq(RowSet) /\ DOMAIN rs = 1..(Len(old) + 1)
    BY <1>2, <1>4
  <2>3. rs[Len(old) + 1] = r /\ \A n \in 1..Len(old) : rs[n] = old[n]
    BY <1>4
  <2> QED BY <2>1, <2>2, <2>3
<1>6. panel' = [panel EXCEPT !.rows = rs] /\ UNCHANGED <<zips, zipper, jobs>>
  <2>1. panel' = [panel EXCEPT !.rows = Append(panel.rows, Row(a, "waiting", Nil))] /\ UNCHANGED <<zips, zipper, jobs>>
    BY DEF Pick
  <2> QED BY <1>1, <1>3, <1>4, <2>1
<1> QED BY <1>2, <1>3, <1>5, <1>6, RowsSafe

LEMMA RemoveItemSafe == ASSUME ImportInv, NEW a \in Archives, RemoveItem(a) PROVE ImportInv'
<1>1. PICK old \in Seq(RowSet) : old = panel.rows
  BY ImportNow, PanelIs
<1>2. PICK I : I = {n \in DOMAIN panel.rows : panel.rows[n].key # a}
  OBVIOUS
<1>3. I \in SUBSET DOMAIN old
  BY <1>1, <1>2
<1>4. PICK rs : rs = Sifted(old, I)
  OBVIOUS
<1>5. rs \in Seq(RowSet) /\ \A n \in DOMAIN rs : \E m \in I : rs[n] = old[m]
  BY <1>3, <1>4, SiftedFrom
<1>6. panel' = [panel EXCEPT !.rows = Sifted(panel.rows, {n \in DOMAIN panel.rows : panel.rows[n].key # a})]
      /\ UNCHANGED <<zips, zipper, jobs>>
  BY DEF RemoveItem
<1>7. panel' = [panel EXCEPT !.rows = rs]
  BY <1>1, <1>2, <1>4, <1>6
<1>8. \A n \in DOMAIN rs : \E m \in DOMAIN panel.rows : rs[n] = panel.rows[m]
  BY <1>1, <1>3, <1>5
<1> QED BY <1>5, <1>6, <1>7, <1>8, RowsSafe

LEMMA StopSafe == ASSUME ImportInv, Stop PROVE ImportInv'
<1> USE ImportNow
<1> DEFINE rs == [n \in DOMAIN panel.rows |-> IF panel.rows[n].status = "waiting" THEN [panel.rows[n] EXCEPT !.status = "canceled"]
                                              ELSE panel.rows[n]]
           cut(j) == IF j.op = "pump" /\ j.live THEN [j EXCEPT !.cut = TRUE] ELSE j
           js == [k \in DOMAIN jobs |-> cut(jobs[k])]
<1>1. /\ panel' = [panel EXCEPT !.stop = TRUE, !.rows = rs] /\ jobs' = js /\ zips' = zips /\ zipper' = zipper
  BY DEF Stop
<1>2. \A n \in DOMAIN panel.rows : /\ rs[n] \in RowSet
                                   /\ rs[n] = panel.rows[n] \/ rs[n].status = "canceled"
  BY PanelIs DEF RowSet, RowStates
<1>3. rs \in Seq(RowSet)
  <2>1. Len(panel.rows) \in Nat /\ DOMAIN panel.rows = 1..Len(panel.rows)
    BY PanelIs
  <2>2. rs = [n \in 1..Len(panel.rows) |-> rs[n]] /\ \A n \in 1..Len(panel.rows) : rs[n] \in RowSet
    BY <1>2, <2>1
  <2> HIDE DEF rs
  <2>3. rs \in [1..Len(panel.rows) -> RowSet]
    BY <2>2
  <2> QED BY <2>1, <2>3
<1>4. DOMAIN rs = DOMAIN panel.rows
  OBVIOUS
<1>5. ASSUME NEW j \in ZipJobs
      PROVE  \/ cut(j) = j
             \/ /\ cut(j) \in ZipJobs /\ cut(j).op = j.op
                /\ Transferring(j) => cut(j).id = j.id /\ cut(j).at = j.at
                /\ cut(j).live = j.live /\ Mark(cut(j)) = Mark(j)
  <2>1. CASE j.op = "pump" /\ j.live
    <3>1. j \in PumpJobs
      BY <2>1, ZipJobIs
    <3>2. cut(j) = [j EXCEPT !.cut = TRUE]
      BY <2>1
    <3>3. /\ [j EXCEPT !.cut = TRUE] \in PumpJobs /\ [j EXCEPT !.cut = TRUE].op = j.op /\ [j EXCEPT !.cut = TRUE].id = j.id
          /\ [j EXCEPT !.cut = TRUE].at = j.at /\ [j EXCEPT !.cut = TRUE].live = j.live /\ [j EXCEPT !.cut = TRUE].key = j.key
      BY <3>1 DEF PumpJobs
    <3> QED BY <2>1, <3>2, <3>3 DEF ZipJobs, Mark
  <2>2. CASE ~(j.op = "pump" /\ j.live)
    BY <2>2
  <2> QED BY <2>1, <2>2
<1>6. \A k \in DOMAIN jobs : js[k] = cut(jobs[k])
  OBVIOUS
<1>7. DOMAIN js = DOMAIN jobs /\ js = [k \in DOMAIN jobs |-> js[k]]
  OBVIOUS
<1> HIDE DEF rs, cut, js
<1>8. ServerOk(zips, js)
  BY <1>5, <1>6, <1>7, ServerMapped
<1>9. ASSUME NEW op, NEW what, Awaited(jobs, op, what) PROVE Awaited(js, op, what)
  BY <1>5, <1>6, <1>7, <1>9 DEF Awaited, Awaits
<1>10. panel' \in Panel /\ panel'.rows = rs
  BY <1>1, <1>3 DEF Panel
<1>11. PanelOk(panel, js, zips)
  BY <1>9, PanelKept
<1>12. PanelOk(panel', js, zips)
  BY <1>2, <1>4, <1>10, <1>11 DEF PanelOk, RowOk
<1>13. PhoneOk(zipper, js)
  BY <1>9, PhoneKept
<1> QED BY <1>1, <1>8, <1>12, <1>13 DEF ImportInv

LEMMA ClosePanelSafe == ASSUME ImportInv, ClosePanel PROVE ImportInv'
<1> USE ImportNow
<1> DEFINE left(j) == IF j.op \in {"pump", "poll", "list"} THEN [j EXCEPT !.live = FALSE] ELSE j
           js == [k \in DOMAIN jobs |-> left(jobs[k])]
<1>1. panel' = NoPanel /\ jobs' = js /\ zips' = zips /\ zipper' = zipper
  BY DEF ClosePanel, Orphaned
<1>2. ASSUME NEW j \in ZipJobs
      PROVE  \/ left(j) = j
             \/ /\ left(j) \in ZipJobs /\ left(j).op = j.op
                /\ Transferring(j) => left(j).id = j.id /\ left(j).at = j.at
                /\ j.op \in {"pump", "poll", "list"}
  <2> DEFINE j2 == [j EXCEPT !.live = FALSE]
  <2>1. CASE j.op = "pump"
    <3>1. j \in PumpJobs
      BY <2>1, ZipJobIs
    <3>2. j2 \in PumpJobs /\ j2.op = j.op /\ j2.id = j.id /\ j2.at = j.at
      BY <3>1 DEF PumpJobs
    <3> QED BY <2>1, <3>2 DEF ZipJobs
  <2>2. CASE j.op = "poll"
    <3>1. j \in PollJobs
      BY <2>2, ZipJobIs
    <3>2. j2 \in PollJobs /\ j2.op = j.op
      BY <3>1 DEF PollJobs
    <3> QED BY <2>2, <3>2 DEF ZipJobs, Transferring
  <2>3. CASE j.op = "list"
    <3>1. j \in ListJobs
      BY <2>3, ZipJobIs
    <3>2. j2 \in ListJobs /\ j2.op = j.op
      BY <3>1 DEF ListJobs
    <3> QED BY <2>3, <3>2 DEF ZipJobs, Transferring
  <2>4. CASE j.op \notin {"pump", "poll", "list"}
    BY <2>4
  <2> QED BY <2>1, <2>2, <2>3, <2>4
<1>3. \A k \in DOMAIN jobs : js[k] = left(jobs[k])
  OBVIOUS
<1>4. DOMAIN js = DOMAIN jobs /\ js = [k \in DOMAIN jobs |-> js[k]]
  OBVIOUS
<1> HIDE DEF left, js
<1>5. ServerOk(zips, js)
  BY <1>2, <1>3, <1>4, ServerMapped
<1>6. ASSUME NEW op, op \notin {"pump", "poll", "list"}, NEW what, Awaited(jobs, op, what) PROVE Awaited(js, op, what)
  BY <1>2, <1>3, <1>4, <1>6 DEF Awaited, Awaits
<1>7. PhoneOk(zipper, js)
  BY <1>6, PhoneKept
<1>9. PanelOk(NoPanel, js, zips)
  BY PanelNew
<1> QED BY <1>1, <1>5, <1>7, <1>9 DEF ImportInv

(* ------------------------------ the answers ------------------------------ *)

LEMMA ZipPollIs ==
  ASSUME NEW key \in Keys, NEW id \in ZipIds, NEW z
  PROVE  ZipPoll(key, id) \in ZipJobs /\ Fit(z, ZipPoll(key, id)) /\ ~Transferring(ZipPoll(key, id))
         /\ Awaits(ZipPoll(key, id), "poll", key)
<1>1. PICK j : j = ZipPoll(key, id)
  OBVIOUS
<1>2. j \in PollJobs /\ j.op = "poll" /\ j.live /\ j.key = key
  BY <1>1 DEF ZipPoll, PollJobs
<1> QED BY <1>1, <1>2 DEF ZipJobs, Fit, Transferring, Awaits, Mark

(* A promise of the panel ends; only its own row looked at it. *)
LEMMA PanelLeft ==
  ASSUME ImportInv, NEW i \in DOMAIN jobs, jobs[i].op \in {"pump", "poll", "list"}
  PROVE  /\ \A op, what : /\ Awaited(jobs, op, what)
                          /\ op \notin {"pump", "poll", "list"} \/ ~jobs[i].live \/ what # Mark(jobs[i])
                          => Awaited(RemoveAt(jobs, i), op, what)
         /\ PhoneOk(zipper, RemoveAt(jobs, i))
         /\ \A k \in DOMAIN RemoveAt(jobs, i) : Transferring(RemoveAt(jobs, i)[k]) =>
               \E m \in DOMAIN jobs : Transferring(jobs[m]) /\ jobs[m].id = RemoveAt(jobs, i)[k].id
<1> USE ImportNow
<1>1. PICK js : js = RemoveAt(jobs, i)
  OBVIOUS
<1>2. ASSUME NEW op, NEW what, Awaited(jobs, op, what),
             op \notin {"pump", "poll", "list"} \/ ~jobs[i].live \/ what # Mark(jobs[i])
      PROVE  Awaited(js, op, what)
  <2>1. ~Awaits(jobs[i], op, what)
    BY <1>2 DEF Awaits
  <2> QED BY <1>1, <1>2, <2>1, EndsServer
<1>3. PhoneOk(zipper, js)
  BY <1>2, PhoneKept
<1>4. \A k \in DOMAIN js : \E m \in DOMAIN jobs : js[k] = jobs[m]
  BY <1>1, EndsServer
<1>5. \A k \in DOMAIN js : Transferring(js[k]) => \E m \in DOMAIN jobs : Transferring(jobs[m]) /\ jobs[m].id = js[k].id
  BY <1>4
<1> QED BY <1>1, <1>2, <1>3, <1>5

LEMMA ZipAcceptedSafe == ASSUME ImportInv, NEW i \in DOMAIN jobs, ZipAccepted(i) PROVE ImportInv'
<1> USE ImportNow
<1>1. PICK old \in PumpJobs : old = jobs[i]
  BY ZipJobIs DEF ZipAccepted, Step, At
<1>2. old.op = "pump" /\ old.key \in Keys /\ old.id \in ZipIds /\ old.live \in BOOLEAN /\ Mark(old) = old.key
  BY DEF PumpJobs, Mark
<1>3. PICK js : js = RemoveAt(jobs, i)
  OBVIOUS
<1>4. zips' = zips /\ zipper' = zipper
  BY DEF ZipAccepted
<1>5. ServerOk(zips, js)
  BY <1>3, EndsServer
<1>6. ASSUME NEW op, NEW what, Awaited(jobs, op, what), op \notin {"pump", "poll", "list"} \/ ~old.live \/ what # old.key
      PROVE  Awaited(js, op, what)
  BY <1>1, <1>2, <1>3, <1>6, PanelLeft
<1>7. /\ PhoneOk(zipper, js)
      /\ \A k \in DOMAIN js : Transferring(js[k]) => \E m \in DOMAIN jobs : Transferring(jobs[m]) /\ jobs[m].id = js[k].id
  BY <1>1, <1>2, <1>3, PanelLeft
<1>8. CASE ~old.live
  <2>1. jobs' = js /\ panel' = panel
    BY <1>1, <1>3, <1>8 DEF ZipAccepted
  <2>2. PanelOk(panel, js, zips)
    BY <1>6, <1>8, PanelKept
  <2> QED BY <1>4, <1>5, <1>7, <2>1, <2>2 DEF ImportInv
<1>9. CASE old.live
  <2>1. PICK j : j = ZipPoll(old.key, old.id)
    OBVIOUS
  <2>2. j \in ZipJobs /\ Fit(zips, j) /\ ~Transferring(j) /\ Awaits(j, "poll", old.key)
    BY <1>2, <2>1, ZipPollIs
  <2>3. PICK js2 : js2 = Append(js, j)
    OBVIOUS
  <2>4. PICK p : p = Rowed(panel, old.key, "queued")
    OBVIOUS
  <2>5. PumpOn(p, js2)
    BY <1>1, <1>3, <1>9, <2>1, <2>3, <2>4 DEF ZipAccepted
  <2>6. /\ ServerOk(zips, js2) /\ DOMAIN js2 = DOMAIN js \cup {Len(js) + 1}
        /\ js2[Len(js) + 1] = j /\ \A k \in DOMAIN js : js2[k] = js[k]
    BY <1>5, <2>2, <2>3, ServerAppended
  <2>7. /\ \A op, what : Awaited(js, op, what) => Awaited(js2, op, what)
        /\ Awaited(js2, "poll", old.key)
    BY <1>5, <2>2, <2>3, AwaitedAppended
  <2>8. PanelOk(p, js2, zips)
    <3>1. "queued" \in RowStates
      BY DEF RowStates
    <3>2. \A op \in {"pump", "poll"}, k \in Keys \ {old.key} : Awaited(jobs, op, k) => Awaited(js2, op, k)
      BY <1>6, <2>7
    <3> QED BY <2>4, <2>7, <3>1, <3>2, PanelRowed
  <2>9. PhoneOk(zipper, js2)
    BY <1>7, <2>7, PhoneKept
  <2>10. \A k \in DOMAIN js2 : Transferring(js2[k]) => \E m \in DOMAIN jobs : Transferring(jobs[m]) /\ jobs[m].id = js2[k].id
    BY <1>7, <2>2, <2>6
  <2> QED BY <1>4, <2>5, <2>6, <2>8, <2>9, <2>10, PumpGoesOn
<1> QED BY <1>2, <1>8, <1>9

LEMMA ZipEndsSafe == ASSUME ImportInv, NEW i \in DOMAIN jobs, ZipRefused(i) \/ ZipCanceled(i) PROVE ImportInv'
<1> USE ImportNow
<1>1. PICK old \in PumpJobs : old = jobs[i]
  BY ZipJobIs DEF ZipRefused, ZipCanceled, At
<1>2. old.op = "pump" /\ old.key \in Keys /\ old.live \in BOOLEAN /\ Mark(old) = old.key
  BY DEF PumpJobs, Mark
<1>3. PICK js, z2 : js = RemoveAt(jobs, i) /\ z2 = Dropped(i)
  OBVIOUS
<1>4. zips' = z2 /\ zipper' = zipper
  BY <1>3 DEF ZipRefused, ZipCanceled
<1>5. ServerOk(z2, js) /\ \A y \in ZipIds : zips[y] \in {"Done", "none"} => z2[y] = zips[y]
  <2>1. Transferring(jobs[i])
    BY <1>1, <1>2 DEF Transferring
  <2> QED BY <1>3, <2>1, DroppedServer
<1>6. ASSUME NEW op, NEW what, Awaited(jobs, op, what), op \notin {"pump", "poll", "list"} \/ ~old.live \/ what # old.key
      PROVE  Awaited(js, op, what)
  BY <1>1, <1>2, <1>3, <1>6, PanelLeft
<1>7. /\ PhoneOk(zipper, js)
      /\ \A k \in DOMAIN js : Transferring(js[k]) => \E m \in DOMAIN jobs : Transferring(jobs[m]) /\ jobs[m].id = js[k].id
  BY <1>1, <1>2, <1>3, PanelLeft
<1>8. ASSUME NEW s \in {"failed", "canceled"} PROVE PanelOk(Rowed(panel, old.key, s), js, z2)
  <2>1. s \in RowStates
    BY DEF RowStates
  <2>2. \A op \in {"pump", "poll"}, k \in Keys \ {old.key} : Awaited(jobs, op, k) => Awaited(js, op, k)
    BY <1>6
  <2>3. \A y \in ZipIds : zips[y] = "Done" => z2[y] = "Done"
    BY <1>5
  <2> QED BY <2>1, <2>2, <2>3, PanelRowed
<1>9. CASE ~old.live
  <2>1. jobs' = js /\ panel' = panel
    BY <1>1, <1>3, <1>9 DEF ZipRefused, ZipCanceled, Ends
  <2>2. PanelOk(panel, js, z2)
    BY <1>5, <1>6, <1>9, PanelKept
  <2> QED BY <1>4, <1>5, <1>7, <2>1, <2>2 DEF ImportInv
<1>10. CASE old.live /\ ZipRefused(i)
  <2>1. PICK p : p = Rowed(panel, old.key, "failed")
    OBVIOUS
  <2>2. PumpOn(p, js)
    BY <1>1, <1>3, <1>10, <2>1 DEF ZipRefused
  <2>3. PanelOk(p, js, z2)
    BY <1>8, <2>1
  <2>4. \A y \in ZipIds : zips[y] = "none" => z2[y] = "none"
    BY <1>5
  <2> QED BY <1>4, <1>5, <1>7, <2>2, <2>3, <2>4, PumpGoesOn
<1>11. CASE old.live /\ ZipCanceled(i)
  <2>1. PICK p : p = Rowed(panel, old.key, "canceled")
    OBVIOUS
  <2>2. jobs' = js /\ panel' = [p EXCEPT !.pumping = FALSE]
    BY <1>1, <1>3, <1>11, <2>1 DEF ZipCanceled, Ends
  <2>3. PanelOk(p, js, z2)
    BY <1>8, <2>1
  <2>4. panel' \in Panel /\ panel'.rows = p.rows
    BY <2>2, <2>3 DEF PanelOk, Panel
  <2>5. PanelOk(panel', js, z2)
    BY <2>3, <2>4, PanelSame
  <2> QED BY <1>4, <1>5, <1>7, <2>2, <2>5 DEF ImportInv
<1> QED BY <1>2, <1>9, <1>10, <1>11

LEMMA PollFailedSafe == ASSUME ImportInv, NEW i \in DOMAIN jobs, PollFailed(i) PROVE ImportInv'
<1> USE ImportNow
<1>1. PICK old \in PollJobs : old = jobs[i]
  BY ZipJobIs DEF PollFailed, At
<1>2. old.op = "poll" /\ old.key \in Keys /\ old.live \in BOOLEAN /\ Mark(old) = old.key
  BY DEF PollJobs, Mark
<1>3. PICK js : js = RemoveAt(jobs, i)
  OBVIOUS
<1>4. zips' = zips /\ zipper' = zipper /\ jobs' = js
  BY <1>3 DEF PollFailed, Ends
<1>5. ServerOk(zips, js)
  BY <1>3, EndsServer
<1>6. ASSUME NEW op, NEW what, Awaited(jobs, op, what), op \notin {"pump", "poll", "list"} \/ ~old.live \/ what # old.key
      PROVE  Awaited(js, op, what)
  BY <1>1, <1>2, <1>3, <1>6, PanelLeft
<1>7. PhoneOk(zipper, js)
  BY <1>1, <1>2, <1>3, PanelLeft
<1>8. CASE ~old.live
  <2>1. panel' = panel
    BY <1>1, <1>8 DEF PollFailed
  <2>2. PanelOk(panel, js, zips)
    BY <1>6, <1>8, PanelKept
  <2> QED BY <1>4, <1>5, <1>7, <2>1, <2>2 DEF ImportInv
<1>9. CASE old.live
  <2>1. panel' = Rowed(panel, old.key, "failed")
    BY <1>1, <1>9 DEF PollFailed
  <2>2. "failed" \in RowStates
    BY DEF RowStates
  <2>3. \A op \in {"pump", "poll"}, k \in Keys \ {old.key} : Awaited(jobs, op, k) => Awaited(js, op, k)
    BY <1>6
  <2>4. PanelOk(panel', js, zips)
    BY <2>1, <2>2, <2>3, PanelRowed
  <2> QED BY <1>4, <1>5, <1>7, <2>4 DEF ImportInv
<1> QED BY <1>2, <1>8, <1>9

(* What the panel makes of the state of a job on the server. *)
LEMMA StatusIs ==
  ASSUME NEW s \in ZipStates
  PROVE  /\ StatusOf(s) \in {"receiving", "queued", "processing", "done", "failed"}
         /\ StatusOf(s) \in {"receiving", "queued", "processing"} <=> s \in Running
         /\ StatusOf(s) = "done" <=> s = "Done"
BY DEF StatusOf, ZipStates, Running

LEMMA PollBackSafe == ASSUME ImportInv, NEW i \in DOMAIN jobs, PollBack(i) PROVE ImportInv'
<1> USE ImportNow
<1>1. PICK old \in PollJobs : old = jobs[i]
  BY ZipJobIs DEF PollBack, At
<1>2. old.op = "poll" /\ old.key \in Keys /\ old.id \in ZipIds /\ old.live \in BOOLEAN /\ Mark(old) = old.key
  BY DEF PollJobs, Mark
<1>3. PICK s \in ZipStates : s = zips[old.id]
  BY <1>2
<1>4. PICK r : r = Row(old.key, StatusOf(s), old.id)
  OBVIOUS
<1>5. r \in RowSet /\ r.key = old.key /\ r.id = old.id /\ r.status = StatusOf(s)
  <2>1. StatusOf(s) \in RowStates
    BY StatusIs DEF RowStates
  <2> QED BY <1>2, <1>4, <2>1 DEF Row, RowSet
<1>6. zips' = zips /\ zipper' = zipper
  BY DEF PollBack
<1>7. /\ jobs' = IF old.live /\ s \in Running THEN jobs ELSE RemoveAt(jobs, i)
      /\ panel' = IF old.live THEN [panel EXCEPT !.rows = [n \in DOMAIN panel.rows |-> IF panel.rows[n].key = old.key
                                                                                      THEN r ELSE panel.rows[n]]]
                              ELSE panel
  BY <1>1, <1>3, <1>4 DEF PollBack, Ends
<1>8. ServerOk(zips, jobs')
  BY <1>7, EndsServer
<1>9. ASSUME NEW op, NEW what, Awaited(jobs, op, what),
             op \notin {"pump", "poll", "list"} \/ ~old.live \/ what # old.key
      PROVE  Awaited(jobs', op, what)
  BY <1>1, <1>2, <1>7, <1>9, PanelLeft
<1>10. PhoneOk(zipper, jobs')
  BY <1>9, PhoneKept
<1>11. CASE ~old.live
  <2>1. PanelOk(panel, jobs', zips)
    BY <1>9, <1>11, PanelKept
  <2> QED BY <1>6, <1>7, <1>8, <1>10, <1>11, <2>1 DEF ImportInv
<1>12. CASE old.live
  <2> DEFINE rs == [n \in DOMAIN panel.rows |-> IF panel.rows[n].key = old.key THEN r ELSE panel.rows[n]]
  <2>1. panel' = [panel EXCEPT !.rows = rs]
    BY <1>7, <1>12
  <2>2. Len(panel.rows) \in Nat /\ DOMAIN panel.rows = 1..Len(panel.rows) /\ \A n \in DOMAIN panel.rows : panel.rows[n] \in RowSet
    BY PanelIs
  <2>3. DOMAIN rs = DOMAIN panel.rows /\ \A n \in DOMAIN panel.rows : rs[n] = IF panel.rows[n].key = old.key THEN r ELSE panel.rows[n]
    OBVIOUS
  <2>4. rs = [n \in 1..Len(panel.rows) |-> rs[n]]
    BY <2>2
  <2> HIDE DEF rs
  <2>5. \A n \in 1..Len(panel.rows) : rs[n] \in RowSet
    BY <1>5, <2>2, <2>3
  <2>6. rs \in [1..Len(panel.rows) -> RowSet]
    BY <2>4, <2>5
  <2>7. rs \in Seq(RowSet)
    BY <2>2, <2>6
  <2>8. panel' \in Panel /\ panel'.rows = rs
    BY <2>1, <2>7 DEF Panel
  <2>9. RowOk(r, jobs', zips)
    <3>1. CASE s \in Running
      <4>1. jobs' = jobs
        BY <1>7, <1>12, <3>1
      <4>2. Awaits(old, "poll", old.key)
        BY <1>2, <1>12 DEF Awaits
      <4>3. Awaited(jobs, "poll", old.key)
        BY <1>1, <4>2 DEF Awaited
      <4>4. r.status \in {"receiving", "queued", "processing"}
        BY <1>5, <3>1, StatusIs
      <4> QED BY <1>5, <4>1, <4>3, <4>4 DEF RowOk
    <3>2. CASE s \notin Running
      <4>1. r.status \in {"done", "failed"} /\ (r.status = "done" => s = "Done")
        BY <1>5, <3>2, StatusIs
      <4> QED BY <1>2, <1>3, <1>5, <4>1 DEF RowOk
    <3> QED BY <3>1, <3>2
  <2>10. \A n \in DOMAIN rs : RowOk(rs[n], jobs', zips)
    <3> SUFFICES ASSUME NEW n \in DOMAIN panel.rows PROVE RowOk(rs[n], jobs', zips)
      BY <2>3
    <3>1. CASE panel.rows[n].key = old.key
      BY <2>3, <2>9, <3>1
    <3>2. CASE panel.rows[n].key # old.key
      <4>1. rs[n] = panel.rows[n] /\ RowOk(panel.rows[n], jobs, zips)
        BY <2>3, <3>2 DEF PanelOk
      <4> QED BY <1>9, <3>2, <4>1 DEF RowOk
    <3> QED BY <3>1, <3>2
  <2>11. PanelOk(panel', jobs', zips)
    BY <2>8, <2>10 DEF PanelOk
  <2> QED BY <1>6, <1>8, <1>10, <2>11 DEF ImportInv
<1> QED BY <1>2, <1>11, <1>12

(* The rows of a reload, and a poll for each of them. *)
LEMMA TrackedIs ==
  ASSUME NEW S, S \subseteq ZipIds, NEW z
  PROVE  LET polls == [n \in DOMAIN SetToSeq(S) |-> ZipPoll(SetToSeq(S)[n], SetToSeq(S)[n])] IN
         /\ polls \in Seq(ZipJobs)
         /\ \A n \in DOMAIN polls : ~Transferring(polls[n])
         /\ \A y \in S : \E n \in DOMAIN polls : Awaits(polls[n], "poll", y)
<1>1. IsFiniteSet(S)
  BY ZipAssumption, FS_Subset
<1>2. PICK t : t = SetToSeq(S)
  OBVIOUS
<1>3. /\ t \in Seq(S) /\ \A x \in S : \E k \in DOMAIN t : t[k] = x
  BY <1>1, <1>2, AllListed
<1>4. Len(t) \in Nat /\ DOMAIN t = 1..Len(t) /\ \A n \in DOMAIN t : t[n] \in S
  BY <1>3, EntriesIn
<1>5. PICK polls : polls = [n \in DOMAIN t |-> ZipPoll(t[n], t[n])]
  OBVIOUS
<1>6. DOMAIN polls = DOMAIN t /\ \A n \in DOMAIN t : polls[n] = ZipPoll(t[n], t[n])
  BY <1>5
<1>7. \A y \in S : y \in Keys /\ y \in ZipIds
  BY DEF Keys
<1>8. \A n \in DOMAIN t : polls[n] \in ZipJobs /\ ~Transferring(polls[n]) /\ Awaits(polls[n], "poll", t[n])
  BY <1>4, <1>6, <1>7, ZipPollIs
<1>9. polls \in [1..Len(t) -> ZipJobs]
  BY <1>4, <1>5, <1>8
<1>10. polls \in Seq(ZipJobs)
  BY <1>4, <1>9
<1>11. \A y \in S : \E n \in DOMAIN polls : Awaits(polls[n], "poll", y)
  BY <1>3, <1>6, <1>8
<1> QED BY <1>2, <1>5, <1>6, <1>8, <1>10, <1>11

LEMMA FoundIs ==
  ASSUME NEW seen \in [ZipIds -> ZipStates], NEW S, S \subseteq Followed(seen)
  PROVE  LET rows == [n \in DOMAIN SetToSeq(S) |-> Row(SetToSeq(S)[n], StatusOf(seen[SetToSeq(S)[n]]), SetToSeq(S)[n])] IN
         /\ rows \in Seq(RowSet)
         /\ \A n \in DOMAIN rows : rows[n].key \in S /\ rows[n].status \in {"receiving", "queued", "processing"}
<1>0. S \subseteq ZipIds /\ \A y \in S : seen[y] \in Running
  BY DEF Followed
<1>1. IsFiniteSet(S)
  BY <1>0, ZipAssumption, FS_Subset
<1>2. PICK t : t = SetToSeq(S)
  OBVIOUS
<1>3. t \in Seq(S)
  BY <1>1, <1>2, AllListed
<1>4. Len(t) \in Nat /\ DOMAIN t = 1..Len(t) /\ \A n \in DOMAIN t : t[n] \in S
  BY <1>3, EntriesIn
<1>5. PICK rows : rows = [n \in DOMAIN t |-> Row(t[n], StatusOf(seen[t[n]]), t[n])]
  OBVIOUS
<1>6. DOMAIN rows = DOMAIN t /\ \A n \in DOMAIN t : rows[n] = Row(t[n], StatusOf(seen[t[n]]), t[n])
  BY <1>5
<1>7. \A n \in DOMAIN t : rows[n] \in RowSet /\ rows[n].key = t[n] /\ rows[n].status \in {"receiving", "queued", "processing"}
  <2> SUFFICES ASSUME NEW n \in DOMAIN t
               PROVE  rows[n] \in RowSet /\ rows[n].key = t[n] /\ rows[n].status \in {"receiving", "queued", "processing"}
    OBVIOUS
  <2>1. PICK y \in S : y = t[n]
    BY <1>4
  <2>2. PICK s : s = StatusOf(seen[y])
    OBVIOUS
  <2>3. s \in {"receiving", "queued", "processing"}
    BY <1>0, <2>2, StatusIs
  <2>4. rows[n] = [key |-> y, status |-> s, id |-> y] /\ y \in ZipIds
    BY <1>0, <1>6, <2>1, <2>2 DEF Row
  <2>5. [key |-> y, status |-> s, id |-> y] \in RowSet
    BY <2>3, <2>4 DEF RowSet, RowStates, Keys
  <2> QED BY <2>1, <2>3, <2>4, <2>5
<1>8. rows \in [1..Len(t) -> RowSet]
  BY <1>4, <1>5, <1>7
<1>9. rows \in Seq(RowSet)
  BY <1>4, <1>8
<1> QED BY <1>2, <1>4, <1>5, <1>6, <1>7, <1>9

LEMMA ListBackSafe == ASSUME ImportInv, NEW i \in DOMAIN jobs, ListBack(i) PROVE ImportInv'
<1> USE ImportNow
<1>1. PICK old \in ListJobs : old = jobs[i]
  BY ZipJobIs DEF ListBack, Step, At
<1>2. old.op = "list" /\ old.live \in BOOLEAN /\ old.seen \in [ZipIds -> ZipStates]
  BY DEF ListJobs
<1>3. PICK js : js = RemoveAt(jobs, i)
  OBVIOUS
<1>4. zips' = zips /\ zipper' = zipper /\ ServerOk(zips, js)
  BY <1>3, EndsServer DEF ListBack
<1>5. ASSUME NEW op, op # "list", NEW what, Awaited(jobs, op, what) PROVE Awaited(js, op, what)
  <2>1. ~Awaits(jobs[i], op, what)
    BY <1>1, <1>2, <1>5 DEF Awaits
  <2> QED BY <1>3, <1>5, <2>1, EndsServer
<1>6. PanelOk(panel, js, zips)
  BY <1>5, PanelKept
<1>7. PhoneOk(zipper, js)
  BY <1>5, PhoneKept
<1>8. CASE ~old.live
  <2>1. jobs' = js /\ panel' = panel
    BY <1>1, <1>3, <1>8 DEF ListBack, Ends
  <2> QED BY <1>4, <1>6, <1>7, <2>1 DEF ImportInv
<1>9. CASE old.live
  <2> DEFINE S == Followed(old.seen)
             known == {panel.rows[n].key : n \in DOMAIN panel.rows} \cup {panel.rows[n].id : n \in DOMAIN panel.rows}
             F == {z \in ZipIds : old.seen[z] \in Running} \ known
  <2>1. PICK polls : polls = [n \in DOMAIN SetToSeq(S) |-> ZipPoll(SetToSeq(S)[n], SetToSeq(S)[n])]
    OBVIOUS
  <2>2. PICK found : found = [n \in DOMAIN SetToSeq(F) |-> Row(SetToSeq(F)[n], StatusOf(old.seen[SetToSeq(F)[n]]), SetToSeq(F)[n])]
    OBVIOUS
  <2>3. jobs' = js \o polls /\ panel' = [panel EXCEPT !.rows = @ \o found]
    BY <1>1, <1>3, <1>9, <2>1, <2>2, Zenon DEF ListBack, Leads
  <2>4. S \subseteq ZipIds /\ F \subseteq S
    BY DEF Followed
  <2> HIDE DEF S, F
  <2>5. /\ polls \in Seq(ZipJobs) /\ \A n \in DOMAIN polls : ~Transferring(polls[n])
        /\ \A y \in S : \E n \in DOMAIN polls : Awaits(polls[n], "poll", y)
    BY <2>1, <2>4, TrackedIs
  <2>6. /\ found \in Seq(RowSet)
        /\ \A n \in DOMAIN found : found[n].key \in F /\ found[n].status \in {"receiving", "queued", "processing"}
    BY <1>2, <2>2, <2>4, FoundIs DEF S
  <2>7. /\ ServerOk(zips, js \o polls)
        /\ \A op, what : Awaited(js, op, what) \/ Awaited(polls, op, what) => Awaited(js \o polls, op, what)
    <3>1. PICK t \in Seq(ZipJobs) : t = polls
      BY <2>5
    <3>2. \A m \in DOMAIN t : ~Transferring(t[m])
      BY <2>5, <3>1
    <3>3. ServerOk(zips, js)
      BY <1>4
    <3>4. /\ ServerOk(zips, js \o t)
          /\ \A op, what : Awaited(js, op, what) \/ Awaited(t, op, what) => Awaited(js \o t, op, what)
      BY <3>2, <3>3, ServerJoined
    <3> QED BY <3>1, <3>4
  <2>8. ASSUME NEW op, NEW what, Awaited(js, op, what) PROVE Awaited(jobs', op, what)
    BY <2>3, <2>7, <2>8
  <2>9. \A y \in S : Awaited(jobs', "poll", y)
    <3>1. \A y \in S : Awaited(polls, "poll", y)
      BY <2>5 DEF Awaited
    <3> QED BY <2>3, <2>7, <3>1
  <2>10. PICK rs \in Seq(RowSet) : rs = panel.rows
    BY PanelIs
  <2>11. PICK all : all = rs \o found
    OBVIOUS
  <2>12. all \in Seq(RowSet) /\ \A n \in DOMAIN all : (\E m \in DOMAIN rs : all[n] = rs[m]) \/ \E m \in DOMAIN found : all[n] = found[m]
    BY <2>6, <2>11, JoinedAs
  <2>13. panel' \in Panel /\ panel'.rows = all
    BY <2>3, <2>10, <2>11, <2>12 DEF Panel
  <2>14. PanelOk(panel, jobs', zips)
    BY <1>6, <2>8, PanelKept
  <2>15. \A m \in DOMAIN found : RowOk(found[m], jobs', zips)
    BY <2>4, <2>6, <2>9 DEF RowOk
  <2>16. \A m \in DOMAIN rs : RowOk(rs[m], jobs', zips)
    BY <2>10, <2>14 DEF PanelOk
  <2>17. \A n \in DOMAIN all : RowOk(all[n], jobs', zips)
    BY <2>12, <2>15, <2>16
  <2>18. PanelOk(panel', jobs', zips)
    BY <2>13, <2>17 DEF PanelOk
  <2>19. PhoneOk(zipper, jobs')
    BY <1>7, <2>8, PhoneKept
  <2> QED BY <1>4, <2>3, <2>7, <2>18, <2>19 DEF ImportInv
<1> QED BY <1>2, <1>8, <1>9

(* ------------------------------- the store ------------------------------- *)

(* A promise of the store ends; only its own run looked at it. *)
LEMMA StoreLeft ==
  ASSUME ImportInv, NEW i \in DOMAIN jobs, jobs[i].op \notin {"pump", "poll", "list"}, NEW z2,
         \A y \in ZipIds : zips[y] = "Done" => z2[y] = "Done"
  PROVE  /\ PanelOk(panel, RemoveAt(jobs, i), z2)
         /\ \A op, what : Awaited(jobs, op, what) /\ (op # jobs[i].op \/ what # Mark(jobs[i])) => Awaited(RemoveAt(jobs, i), op, what)
<1> USE ImportNow
<1>1. PICK js : js = RemoveAt(jobs, i)
  OBVIOUS
<1>2. ASSUME NEW op, NEW what, Awaited(jobs, op, what), op # jobs[i].op \/ what # Mark(jobs[i])
      PROVE  Awaited(js, op, what)
  <2>1. ~Awaits(jobs[i], op, what)
    BY <1>2 DEF Awaits
  <2> QED BY <1>1, <1>2, <2>1, EndsServer
<1>3. \A op \in {"pump", "poll"}, k \in Keys : Awaited(jobs, op, k) => Awaited(js, op, k)
  BY <1>2
<1>4. PanelOk(panel, js, z2)
  BY <1>3, PanelKept
<1> QED BY <1>1, <1>2, <1>4

(* The store says something else, and nothing is in flight that was not. *)
LEMMA StoreSays ==
  ASSUME ImportInv, UNCHANGED <<zips, panel, jobs>>, PhoneOk(zipper', jobs)
  PROVE  ImportInv'
BY DEF ImportInv

LEMMA StoreTapsSafe == ASSUME ImportInv, OpenImport \/ CloseImport \/ Reset PROVE ImportInv'
<1> USE ImportNow
<1>1. CASE OpenImport \/ CloseImport
  <2>1. PICK b \in BOOLEAN : zipper' = [zipper EXCEPT !.open = b]
    BY <1>1 DEF OpenImport, CloseImport
  <2>2. zipper' \in Phone /\ zipper'.phase = zipper.phase /\ zipper'.token = zipper.token
    BY <2>1 DEF Phone
  <2>3. PhoneOk(zipper', jobs)
    BY <2>2 DEF PhoneOk
  <2> QED BY <1>1, <2>3, StoreSays DEF OpenImport, CloseImport
<1>2. CASE Reset
  <2>1. PICK b \in BOOLEAN, n \in Nat : zipper' = [NoZipper EXCEPT !.token = n, !.open = b]
    <3>1. zipper.token + 1 \in Nat
      BY DEF Phone
    <3>2. (zipper.phase = "error") \in BOOLEAN
      OBVIOUS
    <3> QED BY <1>2, <3>1, <3>2 DEF Reset
  <2>2. zipper' \in Phone /\ zipper'.phase = "idle"
    BY <2>1 DEF Phone, NoZipper
  <2>3. PhoneOk(zipper', jobs)
    BY <2>2 DEF PhoneOk
  <2> QED BY <1>2, <2>3, StoreSays DEF Reset
<1> QED BY <1>1, <1>2

LEMMA ChooseZipSafe == ASSUME ImportInv, ChooseZip PROVE ImportInv'
<1> USE ImportNow
<1>1. PICK j : j = Job("pick")
  OBVIOUS
<1>2. j \in ZipJobs /\ j.op = "pick"
  <2>1. j \in TapJobs
    BY <1>1 DEF TapJobs, Job
  <2> QED BY <1>1, <2>1 DEF ZipJobs, Job
<1>3. jobs' = jobs \o <<j>> /\ zips' = zips /\ zipper' = zipper /\ panel' = panel
  BY <1>1 DEF ChooseZip, Begun, zipVars
<1>4. <<j>> \in Seq(ZipJobs) /\ DOMAIN <<j>> = {1} /\ <<j>>[1] = j
  BY <1>2
<1>5. PICK t \in Seq(ZipJobs) : t = <<j>>
  BY <1>4
<1>6. \A m \in DOMAIN t : ~Transferring(t[m])
  BY <1>2, <1>4, <1>5 DEF Transferring
<1>7. ServerOk(zips, jobs \o t) /\ \A op, what : Awaited(jobs, op, what) => Awaited(jobs \o t, op, what)
  BY <1>6, ServerJoined
<1>8. ServerOk(zips, jobs') /\ \A op, what : Awaited(jobs, op, what) => Awaited(jobs', op, what)
  BY <1>3, <1>5, <1>7
<1>9. PanelOk(panel, jobs', zips)
  BY <1>8, PanelKept
<1>10. PhoneOk(zipper, jobs')
  BY <1>8, PhoneKept
<1> QED BY <1>3, <1>8, <1>9, <1>10 DEF ImportInv

LEMMA PickEndsSafe ==
  ASSUME ImportInv, NEW i \in DOMAIN jobs, jobs[i].op = "pick", Ends(i), UNCHANGED zipVars
  PROVE  ImportInv'
<1> USE ImportNow
<1>1. jobs' = RemoveAt(jobs, i) /\ zips' = zips /\ zipper' = zipper /\ panel' = panel
  BY DEF Ends, zipVars
<1>2. /\ PanelOk(panel, jobs', zips)
      /\ \A op, what : Awaited(jobs, op, what) /\ op # "pick" => Awaited(jobs', op, what)
  BY <1>1, StoreLeft
<1>3. PhoneOk(zipper, jobs')
  BY <1>2, PhoneKept
<1>4. ServerOk(zips, jobs')
  BY <1>1, EndsServer
<1> QED BY <1>1, <1>2, <1>3, <1>4 DEF ImportInv

(* A promise of the store goes on as another of the same run, or of a run that begins. *)
LEMMA StoreTurns ==
  ASSUME ImportInv, NEW i \in DOMAIN jobs, jobs[i].op \notin {"pump", "poll", "list"}, NEW j, Fit(zips, j),
         \/ ~Transferring(j)
         \/ Transferring(jobs[i]) /\ jobs[i].id = j.id
         \/ \A k \in DOMAIN jobs : Transferring(jobs[k]) => jobs[k].id # j.id,
         NEW js, js = [jobs EXCEPT ![i] = j]
  PROVE  /\ ServerOk(zips, js) /\ PanelOk(panel, js, zips)
         /\ \A op, what : Awaits(j, op, what) => Awaited(js, op, what)
         /\ \A op, what : Awaited(jobs, op, what) /\ (op # jobs[i].op \/ what # Mark(jobs[i])) => Awaited(js, op, what)
<1> USE ImportNow
<1>1. ServerOk(zips, js)
  BY ServerBecomes
<1>2. DOMAIN js = DOMAIN jobs /\ js[i] = j /\ \A k \in DOMAIN jobs : k # i => js[k] = jobs[k]
  BY BecomesIs
<1>3. ASSUME NEW op, NEW what, Awaits(j, op, what) PROVE Awaited(js, op, what)
  BY <1>2, <1>3 DEF Awaited
<1>4. ASSUME NEW op, NEW what, Awaited(jobs, op, what), op # jobs[i].op \/ what # Mark(jobs[i])
      PROVE  Awaited(js, op, what)
  BY <1>2, <1>4 DEF Awaited, Awaits
<1>5. \A op \in {"pump", "poll"}, k \in Keys : Awaited(jobs, op, k) => Awaited(js, op, k)
  BY <1>4
<1>6. PanelOk(panel, js, zips)
  BY <1>5, PanelKept
<1> QED BY <1>1, <1>3, <1>4, <1>6

LEMMA StartedSafe == ASSUME ImportInv, NEW i \in DOMAIN jobs, Started(i) PROVE ImportInv'
<1> USE ImportNow
<1>1. jobs[i].op = "pick" /\ zips' = zips /\ panel' = panel
  BY DEF Started, At
<1>2. CASE zipper.phase \in Busy
  <2>1. Ends(i) /\ UNCHANGED zipVars
    BY <1>1, <1>2 DEF Started, zipVars
  <2> QED BY <1>1, <2>1, PickEndsSafe
<1>3. CASE zipper.phase \notin Busy
  <2>1. PICK n \in Nat : n = zipper.token + 1
    BY DEF Phone
  <2>2. PICK j : j = [op |-> "mzip", live |-> TRUE, token |-> n, id |-> NewZip, at |-> "begun", cut |-> FALSE]
    OBVIOUS
  <2>3. /\ HasZip /\ jobs' = [jobs EXCEPT ![i] = j]
        /\ zipper' = [zipper EXCEPT !.phase = "uploading", !.job = Nil, !.detached = FALSE, !.token = n]
    BY <1>3, <2>1, <2>2 DEF Started, Becomes
  <2>4. NewZip \in ZipIds /\ zips[NewZip] = "none" /\ \A k \in DOMAIN jobs : Transferring(jobs[k]) => jobs[k].id # NewZip
    BY <2>3, NewZipIs
  <2>5. j \in SendJobs /\ j.op = "mzip" /\ j.live /\ j.token = n /\ j.id = NewZip /\ j.at = "begun"
    BY <2>2, <2>4 DEF SendJobs
  <2>6. Fit(zips, j)
    BY <2>4, <2>5 DEF Fit, ZipJobs
  <2>7. PICK js : js = [jobs EXCEPT ![i] = j]
    OBVIOUS
  <2>8. \A k \in DOMAIN jobs : Transferring(jobs[k]) => jobs[k].id # j.id
    BY <2>4, <2>5
  <2>9. /\ ServerOk(zips, js) /\ PanelOk(panel, js, zips)
        /\ \A op, what : Awaits(j, op, what) => Awaited(js, op, what)
    BY <1>1, <2>6, <2>7, <2>8, StoreTurns
  <2>10. Awaits(j, "mzip", n)
    BY <2>5 DEF Awaits, Mark
  <2>11. zipper' \in Phone /\ zipper'.phase = "uploading" /\ zipper'.token = n
    BY <2>3 DEF Phone
  <2>12. PhoneOk(zipper', js)
    BY <2>9, <2>10, <2>11 DEF PhoneOk
  <2> QED BY <1>1, <2>3, <2>7, <2>9, <2>12 DEF ImportInv
<1> QED BY <1>2, <1>3

LEMMA TaskSafe == ASSUME ImportInv, NEW i \in DOMAIN jobs, TaskMade(i) \/ SentAgain(i) PROVE ImportInv'
<1> USE ImportNow
<1>1. jobs[i].op = "mzip" /\ jobs[i].at \in {"begun", "sent"} /\ UNCHANGED zipVars
  BY DEF TaskMade, SentAgain, Step, At
<1>2. PICK old \in SendJobs : old = jobs[i]
  BY <1>1, ZipJobIs
<1>3. PICK s \in {"begun", "sent"} : jobs' = [jobs EXCEPT ![i] = [old EXCEPT !.at = s]]
  BY <1>2 DEF TaskMade, SentAgain, Becomes
<1>4. PICK j : j = [old EXCEPT !.at = s]
  OBVIOUS
<1>5. j \in SendJobs /\ j.op = "mzip" /\ j.live /\ j.id = old.id /\ j.at = s /\ j.token = old.token
  BY <1>1, <1>2, <1>4 DEF SendJobs
<1>6. Transferring(jobs[i]) /\ jobs[i].id = j.id
  BY <1>1, <1>2, <1>5 DEF Transferring
<1>7. Fit(zips, j)
  <2>1. zips[old.id] = "none"
    BY <1>1, <1>2, <1>6 DEF Fit
  <2> QED BY <1>5, <2>1 DEF Fit, ZipJobs
<1>8. PICK js : js = [jobs EXCEPT ![i] = j]
  OBVIOUS
<1>9. /\ ServerOk(zips, js) /\ PanelOk(panel, js, zips)
      /\ \A op, what : Awaits(j, op, what) => Awaited(js, op, what)
      /\ \A op, what : Awaited(jobs, op, what) /\ (op # jobs[i].op \/ what # Mark(jobs[i])) => Awaited(js, op, what)
  BY <1>1, <1>6, <1>7, <1>8, StoreTurns
<1>10. ASSUME NEW op, NEW what, Awaited(jobs, op, what) PROVE Awaited(js, op, what)
  <2>1. Mark(jobs[i]) = Mark(j) /\ j.op = jobs[i].op
    BY <1>1, <1>2, <1>5 DEF Mark
  <2>2. CASE op = jobs[i].op /\ what = Mark(jobs[i])
    <3>1. Awaits(j, op, what)
      BY <1>5, <2>1, <2>2 DEF Awaits
    <3> QED BY <1>9, <3>1
  <2>3. CASE op # jobs[i].op \/ what # Mark(jobs[i])
    BY <1>9, <1>10, <2>3
  <2> QED BY <2>2, <2>3
<1>11. PhoneOk(zipper, js)
  BY <1>10, PhoneKept
<1> QED BY <1>1, <1>3, <1>4, <1>8, <1>9, <1>11 DEF ImportInv, zipVars

LEMMA SettledPhone ==
  ASSUME NEW p \in Phone, p.phase \notin {"uploading", "processing"}, NEW js
  PROVE  PhoneOk(p, js)
BY DEF PhoneOk

(* The answer of a run of the store that is over is of no interest. *)
LEMMA OthersKept ==
  ASSUME ImportInv, NEW js, NEW op, NEW n \in Nat, op \in {"mzip", "mpoll"}, n # zipper.token,
         \A o, what : Awaited(jobs, o, what) /\ (o # op \/ what # n) => Awaited(js, o, what)
  PROVE  PhoneOk(zipper, js)
BY ImportNow DEF PhoneOk

LEMMA ImportAcceptedSafe == ASSUME ImportInv, NEW i \in DOMAIN jobs, ImportAccepted(i) PROVE ImportInv'
<1> USE ImportNow
<1>1. jobs[i].op = "mzip" /\ zips' = zips /\ panel' = panel
  BY DEF ImportAccepted, Step, At
<1>2. PICK old \in SendJobs : old = jobs[i]
  BY <1>1, ZipJobIs
<1>3. old.token \in Nat /\ old.id \in ZipIds /\ Mark(old) = old.token /\ Transferring(old)
  BY <1>1, <1>2 DEF SendJobs, Mark, Transferring
<1>4. CASE old.token = zipper.token
  <2>1. PICK j : j = [op |-> "mpoll", live |-> TRUE, token |-> old.token, id |-> old.id]
    OBVIOUS
  <2>2. j \in TurnJobs /\ j.op = "mpoll" /\ j.live /\ j.token = old.token
    BY <1>3, <2>1 DEF TurnJobs
  <2>3. Fit(zips, j) /\ ~Transferring(j) /\ Awaits(j, "mpoll", old.token)
    BY <2>2 DEF Fit, ZipJobs, Transferring, Awaits, Mark
  <2>4. PICK js : js = [jobs EXCEPT ![i] = j]
    OBVIOUS
  <2>5. jobs' = js /\ zipper' = [zipper EXCEPT !.phase = "processing"]
    BY <1>2, <1>4, <2>1, <2>4 DEF ImportAccepted, Mine, Becomes
  <2>6. /\ ServerOk(zips, js) /\ PanelOk(panel, js, zips)
        /\ \A op, what : Awaits(j, op, what) => Awaited(js, op, what)
    BY <1>1, <2>3, <2>4, StoreTurns
  <2>7. zipper' \in Phone /\ zipper'.phase = "processing" /\ zipper'.token = zipper.token
    BY <2>5 DEF Phone
  <2>8. PhoneOk(zipper', js)
    BY <1>4, <2>3, <2>6, <2>7 DEF PhoneOk
  <2> QED BY <1>1, <2>5, <2>6, <2>8 DEF ImportInv
<1>5. CASE old.token # zipper.token
  <2>1. PICK js : js = RemoveAt(jobs, i)
    OBVIOUS
  <2>2. jobs' = js /\ zipper' = zipper
    BY <1>2, <1>5, <2>1 DEF ImportAccepted, Mine, Ends
  <2>3. /\ PanelOk(panel, js, zips)
        /\ \A op, what : Awaited(jobs, op, what) /\ (op # "mzip" \/ what # old.token) => Awaited(js, op, what)
    BY <1>1, <1>2, <1>3, <2>1, StoreLeft
  <2>4. PhoneOk(zipper, js)
    BY <1>3, <1>5, <2>3, OthersKept
  <2>5. ServerOk(zips, js)
    BY <2>1, EndsServer
  <2> QED BY <1>1, <2>2, <2>3, <2>4, <2>5 DEF ImportInv
<1> QED BY <1>4, <1>5

LEMMA ImportRefusedSafe == ASSUME ImportInv, NEW i \in DOMAIN jobs, ImportRefused(i) PROVE ImportInv'
<1> USE ImportNow
<1>1. jobs[i].op = "mzip" /\ panel' = panel
  BY DEF ImportRefused, At
<1>2. PICK old \in SendJobs : old = jobs[i]
  BY <1>1, ZipJobIs
<1>3. old.token \in Nat /\ Mark(old) = old.token /\ Transferring(jobs[i])
  BY <1>1, <1>2 DEF SendJobs, Mark, Transferring
<1>4. PICK js, z2 : js = RemoveAt(jobs, i) /\ z2 = Dropped(i)
  OBVIOUS
<1>5. jobs' = js /\ zips' = z2 /\ zipper' = IF old.token = zipper.token THEN [zipper EXCEPT !.phase = "error"] ELSE zipper
  BY <1>2, <1>4 DEF ImportRefused, Ends, Mine
<1>6. ServerOk(z2, js) /\ \A y \in ZipIds : zips[y] = "Done" => z2[y] = "Done"
  BY <1>3, <1>4, DroppedServer
<1>7. /\ PanelOk(panel, js, z2)
      /\ \A op, what : Awaited(jobs, op, what) /\ (op # "mzip" \/ what # old.token) => Awaited(js, op, what)
  BY <1>1, <1>2, <1>3, <1>4, <1>6, StoreLeft
<1>8. PhoneOk(zipper', js)
  <2>1. CASE old.token = zipper.token
    <3>1. zipper' \in Phone /\ zipper'.phase = "error"
      BY <1>5, <2>1 DEF Phone
    <3> QED BY <3>1, SettledPhone
  <2>2. CASE old.token # zipper.token
    BY <1>3, <1>5, <1>7, <2>2, OthersKept
  <2> QED BY <2>1, <2>2
<1> QED BY <1>1, <1>5, <1>6, <1>7, <1>8 DEF ImportInv

LEMMA ImportFollowSafe == ASSUME ImportInv, NEW i \in DOMAIN jobs, ImportPolled(i) \/ ImportLost(i) PROVE ImportInv'
<1> USE ImportNow
<1>1. jobs[i].op = "mpoll" /\ zips' = zips /\ panel' = panel
  BY DEF ImportPolled, ImportLost, At
<1>2. PICK old \in TurnJobs : old = jobs[i]
  BY <1>1, ZipJobIs
<1>3. old.token \in Nat /\ old.id \in ZipIds /\ Mark(old) = old.token
  BY <1>1, <1>2 DEF TurnJobs, Mark
<1>4. PICK js : js = RemoveAt(jobs, i)
  OBVIOUS
<1>5. PICK s \in ZipStates : s = zips[old.id]
  BY <1>3
<1>6. ServerOk(zips, js)
  BY <1>4, EndsServer
<1>7. /\ PanelOk(panel, js, zips)
      /\ \A op, what : Awaited(jobs, op, what) /\ (op # "mpoll" \/ what # old.token) => Awaited(js, op, what)
  BY <1>1, <1>2, <1>3, <1>4, StoreLeft
<1>8. CASE old.token # zipper.token
  <2>1. jobs' = js /\ zipper' = zipper
    BY <1>2, <1>4, <1>8 DEF ImportPolled, ImportLost, Ends, Mine
  <2>2. PhoneOk(zipper, js)
    BY <1>3, <1>7, <1>8, OthersKept
  <2> QED BY <1>1, <1>6, <1>7, <2>1, <2>2 DEF ImportInv
<1>9. CASE old.token = zipper.token /\ ImportPolled(i)
  <2>1. /\ zipper' = [zipper EXCEPT !.job = s, !.phase = IF s \in Running THEN @ ELSE "done"]
        /\ IF s \in Running THEN jobs' = jobs ELSE jobs' = js
    BY <1>2, <1>4, <1>5, <1>9 DEF ImportPolled, Ends, Mine
  <2>2. CASE s \in Running
    <3>1. zipper' = [zipper EXCEPT !.job = s, !.phase = zipper.phase]
      BY <2>1, <2>2
    <3>2. zipper' \in Phone /\ zipper'.phase = zipper.phase /\ zipper'.token = zipper.token
      BY <3>1 DEF Phone
    <3>3. PhoneOk(zipper', jobs)
      BY <3>2 DEF PhoneOk
    <3> QED BY <1>1, <2>1, <2>2, <3>3, StoreSays
  <2>3. CASE s \notin Running
    <3>1. zipper' = [zipper EXCEPT !.job = s, !.phase = "done"]
      BY <2>1, <2>3
    <3>2. zipper' \in Phone /\ zipper'.phase = "done"
      BY <3>1 DEF Phone
    <3>3. PhoneOk(zipper', js)
      BY <3>2, SettledPhone
    <3> QED BY <1>1, <1>6, <1>7, <2>1, <2>3, <3>3 DEF ImportInv
  <2> QED BY <2>2, <2>3
<1>10. CASE old.token = zipper.token /\ ImportLost(i)
  <2>1. jobs' = js /\ zipper' = [zipper EXCEPT !.phase = "error"]
    BY <1>2, <1>4, <1>10 DEF ImportLost, Ends, Mine
  <2>2. zipper' \in Phone /\ zipper'.phase = "error"
    BY <2>1 DEF Phone
  <2>3. PhoneOk(zipper', js)
    BY <2>2, SettledPhone
  <2> QED BY <1>1, <1>6, <1>7, <2>1, <2>3 DEF ImportInv
<1> QED BY <1>8, <1>9, <1>10

LEMMA CancelBackSafe == ASSUME ImportInv, NEW i \in DOMAIN jobs, CancelBack(i) PROVE ImportInv'
<1> USE ImportNow
<1>1. jobs[i].op = "cancel" /\ zips' = zips /\ panel' = panel /\ jobs' = RemoveAt(jobs, i)
      /\ zipper' = [zipper EXCEPT !.phase = "idle"]
  BY DEF CancelBack, At, Ends
<1>2. ServerOk(zips, jobs')
  BY <1>1, EndsServer
<1>3. PanelOk(panel, jobs', zips)
  BY <1>1, StoreLeft
<1>4. zipper' \in Phone /\ zipper'.phase = "idle"
  BY <1>1 DEF Phone
<1>5. PhoneOk(zipper', jobs')
  BY <1>4, SettledPhone
<1> QED BY <1>1, <1>2, <1>3, <1>5 DEF ImportInv

LEMMA CancelImportSafe == ASSUME ImportInv, CancelImport PROVE ImportInv'
<1> USE ImportNow
<1>1. PICK n \in Nat : n = zipper.token + 1
  BY DEF Phone
<1>2. zips' = zips /\ panel' = panel
  BY DEF CancelImport
<1>3. CASE zipper.phase # "uploading"
  <2>1. jobs' = jobs /\ zipper' = [zipper EXCEPT !.token = n, !.phase = "idle", !.detached = TRUE]
    BY <1>1, <1>3 DEF CancelImport
  <2>2. zipper' \in Phone /\ zipper'.phase = "idle"
    BY <2>1 DEF Phone
  <2>3. PhoneOk(zipper', jobs)
    BY <2>2, SettledPhone
  <2> QED BY <1>2, <2>1, <2>3, StoreSays
<1>4. CASE zipper.phase = "uploading"
  <2> DEFINE cut(j) == IF j.op = "mzip" /\ j.token = zipper.token /\ j.at # "begun" THEN [j EXCEPT !.cut = TRUE] ELSE j
             js == [k \in DOMAIN jobs |-> cut(jobs[k])]
  <2>1. PICK c : c = Job("cancel")
    OBVIOUS
  <2>2. jobs' = Append(js, c) /\ zipper' = [zipper EXCEPT !.token = n]
    BY <1>1, <1>4, <2>1 DEF CancelImport, Cut
  <2>3. c \in ZipJobs /\ Fit(zips, c) /\ ~Transferring(c) /\ Awaits(c, "cancel", 0)
    <3>1. c \in TapJobs /\ c.op = "cancel" /\ c.live
      BY <2>1 DEF TapJobs, Job
    <3> QED BY <3>1 DEF ZipJobs, Fit, Transferring, Awaits, Mark
  <2>4. ASSUME NEW j \in ZipJobs
        PROVE  \/ cut(j) = j
               \/ /\ cut(j) \in ZipJobs /\ cut(j).op = j.op
                  /\ Transferring(j) => cut(j).id = j.id /\ cut(j).at = j.at
                  /\ j.op = "mzip"
    <3>1. CASE j.op = "mzip" /\ j.token = zipper.token /\ j.at # "begun"
      <4>1. j \in SendJobs
        BY <3>1, ZipJobIs
      <4>2. cut(j) = [j EXCEPT !.cut = TRUE]
        BY <3>1
      <4>3. /\ [j EXCEPT !.cut = TRUE] \in SendJobs /\ [j EXCEPT !.cut = TRUE].op = j.op
            /\ [j EXCEPT !.cut = TRUE].id = j.id /\ [j EXCEPT !.cut = TRUE].at = j.at
        BY <4>1 DEF SendJobs
      <4> QED BY <3>1, <4>2, <4>3 DEF ZipJobs
    <3>2. CASE ~(j.op = "mzip" /\ j.token = zipper.token /\ j.at # "begun")
      BY <3>2
    <3> QED BY <3>1, <3>2
  <2>5. \A k \in DOMAIN jobs : js[k] = cut(jobs[k])
    OBVIOUS
  <2>6. DOMAIN js = DOMAIN jobs /\ js = [k \in DOMAIN jobs |-> js[k]]
    OBVIOUS
  <2> HIDE DEF cut, js
  <2>7. ServerOk(zips, js)
    BY <2>4, <2>5, <2>6, ServerMapped
  <2>8. ASSUME NEW op, op # "mzip", NEW what, Awaited(jobs, op, what) PROVE Awaited(js, op, what)
    BY <2>4, <2>5, <2>6, <2>8 DEF Awaited, Awaits
  <2>9. PanelOk(panel, js, zips)
    BY <2>8, PanelKept
  <2>10. PICK js2 : js2 = Append(js, c)
    OBVIOUS
  <2>11. ServerOk(zips, js2)
    BY <2>3, <2>7, <2>10, ServerAppended
  <2>12. Awaited(js2, "cancel", 0) /\ \A op, what : Awaited(js, op, what) => Awaited(js2, op, what)
    BY <2>3, <2>7, <2>10, AwaitedAppended
  <2>13. PanelOk(panel, js2, zips)
    BY <2>9, <2>12, PanelKept
  <2>14. zipper' \in Phone /\ zipper'.phase = "uploading"
    BY <1>4, <2>2 DEF Phone
  <2>15. PhoneOk(zipper', js2)
    BY <2>12, <2>14 DEF PhoneOk
  <2> QED BY <1>2, <2>2, <2>10, <2>11, <2>13, <2>15 DEF ImportInv
<1> QED BY <1>3, <1>4

LEMMA ImportBegins == ASSUME ZipInit PROVE ImportInv
<1>1. jobs = <<>> /\ panel = NoPanel /\ zipper = NoZipper
  BY DEF ZipInit
<1>2. zips \in [ZipIds -> ZipStates]
  <2>1. PICK y \in ZipIds \cup {Nil}, s \in {"none", "Uploading", "Queued", "Done"} : zips = [z \in ZipIds |-> IF z = y THEN s ELSE "none"]
    <3>1. CASE zips = [z \in ZipIds |-> "none"]
      <4>1. zips = [z \in ZipIds |-> IF z = Nil THEN "none" ELSE "none"]
        BY <3>1
      <4> QED BY <4>1
    <3>2. CASE zips # [z \in ZipIds |-> "none"]
      <4>1. PICK y \in ZipIds, s \in {"Uploading", "Queued", "Done"} : zips = [z \in ZipIds |-> IF z = y THEN s ELSE "none"]
        BY <3>2 DEF ZipInit
      <4> QED BY <4>1
    <3> QED BY <3>1, <3>2
  <2> QED BY <2>1 DEF ZipStates, Running
<1>3. <<>> \in Seq(ZipJobs) /\ DOMAIN <<>> = {}
  OBVIOUS
<1>4. ServerOk(zips, jobs)
  BY <1>1, <1>2, <1>3 DEF ServerOk, Own
<1>5. PanelOk(panel, jobs, zips)
  BY <1>1, PanelNew
<1>6. zipper \in Phone /\ zipper.phase = "idle"
  BY <1>1 DEF NoZipper, Phone
<1>7. PhoneOk(zipper, jobs)
  BY <1>6, SettledPhone
<1> QED BY <1>4, <1>5, <1>7 DEF ImportInv

LEMMA ImportGoesOn == ASSUME ImportInv, ZipNext PROVE ImportInv'
<1>1. CASE \E z \in ZipIds : /\ ZipStagedElsewhere(z) \/ ZipTaken(z) \/ ZipFinished(z) \/ ZipGivenUp(z)
                             /\ UNCHANGED <<panel, zipper, jobs>>
  BY <1>1, WorkerSafe
<1>2. CASE OpenPanel \/ ClosePanel \/ Start \/ Stop
  BY <1>2, OpenPanelSafe, ClosePanelSafe, StartSafe, StopSafe
<1>3. CASE \E a \in Archives : Pick(a) \/ RemoveItem(a)
  BY <1>3, PickSafe, RemoveItemSafe
<1>4. CASE OpenImport \/ CloseImport \/ ChooseZip \/ CancelImport \/ Reset
  BY <1>4, StoreTapsSafe, ChooseZipSafe, CancelImportSafe
<1>5. CASE \E i \in DOMAIN jobs : ZipReceived(i) \/ ZipStaged(i) \/ ZipBroken(i)
  BY <1>5, RequestSafe
<1>6. CASE \E i \in DOMAIN jobs : ListRead(i) \/ ListBack(i) \/ ListFailed(i)
  BY <1>6, ListReadSafe, ListBackSafe, ListFailedSafe
<1>7. CASE \E i \in DOMAIN jobs : ZipAccepted(i) \/ ZipRefused(i) \/ ZipCanceled(i)
  BY <1>7, ZipAcceptedSafe, ZipEndsSafe
<1>8. CASE \E i \in DOMAIN jobs : PollBack(i) \/ PollFailed(i)
  BY <1>8, PollBackSafe, PollFailedSafe
<1>9. CASE \E i \in DOMAIN jobs : Abandoned(i)
  BY <1>9, PickEndsSafe DEF Abandoned, At
<1>10. CASE \E i \in DOMAIN jobs : Started(i) \/ TaskMade(i) \/ SentAgain(i)
  BY <1>10, StartedSafe, TaskSafe
<1>11. CASE \E i \in DOMAIN jobs : ImportAccepted(i) \/ ImportRefused(i)
  BY <1>11, ImportAcceptedSafe, ImportRefusedSafe
<1>12. CASE \E i \in DOMAIN jobs : ImportPolled(i) \/ ImportLost(i) \/ CancelBack(i)
  BY <1>12, ImportFollowSafe, CancelBackSafe
<1> QED BY <1>1, <1>2, <1>3, <1>4, <1>5, <1>6, <1>7, <1>8, <1>9, <1>10, <1>11, <1>12, Zenon DEF ZipNext

(* The invariant says that no import hangs. *)
LEMMA ImportInvFollows == ASSUME ImportInv PROVE ImportsFollowed
<1> USE ImportNow
<1>1. \A k \in Keys : Awaited(jobs, "pump", k) => \E i \in DOMAIN jobs : jobs[i].op = "pump" /\ jobs[i].live /\ jobs[i].key = k
  BY DEF Awaited, Awaits, Mark
<1>2. \A k \in Keys : Awaited(jobs, "poll", k) => \E i \in DOMAIN jobs : jobs[i].op = "poll" /\ jobs[i].live /\ jobs[i].key = k
  BY DEF Awaited, Awaits, Mark
<1>3. Awaited(jobs, "mzip", zipper.token) => \E i \in DOMAIN jobs : jobs[i].op = "mzip" /\ jobs[i].live /\ jobs[i].token = zipper.token
  BY DEF Awaited, Awaits, Mark
<1>4. Awaited(jobs, "mpoll", zipper.token) => \E i \in DOMAIN jobs : jobs[i].op = "mpoll" /\ jobs[i].live /\ jobs[i].token = zipper.token
  BY DEF Awaited, Awaits, Mark
<1>5. Awaited(jobs, "cancel", 0) => \E i \in DOMAIN jobs : jobs[i].op = "cancel" /\ jobs[i].live
  BY DEF Awaited, Awaits
<1>6. ASSUME NEW n \in DOMAIN panel.rows
      PROVE  /\ panel.rows[n].status = "uploading" => Has("pump", LAMBDA j : j.key = panel.rows[n].key)
             /\ panel.rows[n].status \in {"receiving", "queued", "processing"} => Has("poll", LAMBDA j : j.key = panel.rows[n].key)
             /\ panel.rows[n].status = "done" => zips[panel.rows[n].id] = "Done"
  <2>1. RowOk(panel.rows[n], jobs, zips) /\ panel.rows[n].key \in Keys
    BY PanelIs DEF PanelOk, RowSet
  <2> QED BY <1>1, <1>2, <2>1 DEF RowOk, Has
<1>7. zipper.phase = "uploading" => Has("mzip", LAMBDA j : j.token = zipper.token) \/ Has("cancel", LAMBDA j : TRUE)
  BY <1>3, <1>5 DEF PhoneOk, Has
<1>8. zipper.phase = "processing" => Has("mpoll", LAMBDA j : j.token = zipper.token)
  BY <1>4 DEF PhoneOk, Has
<1> QED BY <1>6, <1>7, <1>8 DEF ImportsFollowed

(* ----------------------------- the library ------------------------------- *)

(* The area that is open keeps its promises; the others lie idle. *)
TransferInv ==
  /\ IF area = "web upload" THEN UploadInv ELSE uploads = NoUploads
  /\ IF area \in {"web import", "mobile import"} THEN ImportInv ELSE panel = NoPanel /\ zipper = NoZipper

LEMMA TransfersBegin == LibraryInit => TransferInv
<1> SUFFICES ASSUME LibraryInit PROVE TransferInv
  OBVIOUS
<1>1. CASE area = "web upload"
  <2>1. UploadInit /\ ZipIdle
    BY <1>1 DEF LibraryInit
  <2> QED BY <1>1, <2>1, UploadBegins DEF TransferInv, ZipIdle
<1>2. CASE area \in {"web import", "mobile import"}
  <2>1. ZipInit /\ UploadIdle
    BY <1>2 DEF LibraryInit
  <2> QED BY <1>2, <2>1, ImportBegins DEF TransferInv, UploadIdle
<1>3. CASE area \notin {"web upload", "web import", "mobile import"}
  BY <1>3 DEF LibraryInit, TransferInv, ZipIdle, UploadIdle
<1> QED BY <1>1, <1>2, <1>3

LEMMA TransfersGoOn == TransferInv /\ [LibraryNext]_libraryVars => TransferInv'
<1> SUFFICES ASSUME TransferInv, [LibraryNext]_libraryVars PROVE TransferInv'
  OBVIOUS
<1>1. CASE InUpload
  <2>1. area = "web upload" /\ area' = area /\ panel' = panel /\ zipper' = zipper
    BY <1>1 DEF InUpload, zipVars, LibraryNext, libraryVars, jobVars
  <2>2. UploadInv'
    BY <1>1, <2>1, UploadGoesOn DEF InUpload, TransferInv
  <2> QED BY <2>1, <2>2 DEF TransferInv
<1>2. CASE InImport
  <2>1. area \in {"web import", "mobile import"} /\ area' = area /\ uploads' = uploads
    BY <1>2 DEF InImport, uploadVars, LibraryNext, libraryVars, jobVars
  <2>2. ImportInv'
    BY <1>2, <2>1, ImportGoesOn DEF InImport, TransferInv
  <2> QED BY <2>1, <2>2 DEF TransferInv
<1>3. CASE InVault \/ InGallery \/ InFeed \/ InGrid
  <2>1. area \notin {"web upload", "web import", "mobile import"}
    BY <1>3 DEF InVault, InGallery, InFeed, InGrid
  <2>2. area' = area
    BY DEF LibraryNext, libraryVars, jobVars
  <2>3. panel' = panel /\ zipper' = zipper /\ uploads' = uploads
    BY <1>3 DEF InVault, InGallery, InFeed, InGrid, zipVars, uploadVars
  <2> QED BY <2>1, <2>2, <2>3 DEF TransferInv
<1>4. CASE UNCHANGED libraryVars
  <2>1. UNCHANGED <<area, jobs, zips, panel, zipper, uploads, stored>>
    BY <1>4 DEF libraryVars, jobVars, zipVars, uploadVars
  <2>2. UploadInv => UploadInv'
    BY <2>1 DEF UploadInv, Statuses
  <2>3. ImportInv => ImportInv'
    BY <2>1 DEF ImportInv
  <2> QED BY <2>1, <2>2, <2>3 DEF TransferInv
<1> QED BY <1>1, <1>2, <1>3, <1>4 DEF LibraryNext

(* Whatever is answered late, refused, stopped, left or reloaded, and for any
   number of files, archives, runs, taps and mishaps: a file waits in the
   queue of the web app only behind one that is being sent, none is sent
   twice at once, and every import that a list shows as going on is sent or
   followed by somebody (import-panel.tsx, the mobile import store, the
   processor of the upload queue). *)
THEOREM NothingHangs == LibrarySpec => []TransfersFollowed
<1>1. TransferInv => TransfersFollowed
  <2> SUFFICES ASSUME TransferInv PROVE TransfersFollowed
    OBVIOUS
  <2>1. UploadsServed
    <3>1. CASE area = "web upload"
      BY <3>1, UploadInvServes DEF TransferInv
    <3>2. CASE area # "web upload"
      <4>1. PICK none : none = <<>>
        OBVIOUS
      <4>2. uploads = [tasks |-> none, user |-> Nil, running |-> FALSE, open |-> FALSE, note |-> FALSE]
        BY <3>2, <4>1, Zenon DEF TransferInv, NoUploads
      <4>3. DOMAIN none = {}
        BY <4>1
      <4>4. DOMAIN uploads.tasks = {} /\ uploads.user = Nil
        BY <4>2, <4>3
      <4> QED BY <4>4 DEF UploadsServed
    <3> QED BY <3>1, <3>2
  <2>2. ImportsFollowed
    <3>1. CASE area \in {"web import", "mobile import"}
      BY <3>1, ImportInvFollows DEF TransferInv
    <3>2. CASE area \notin {"web import", "mobile import"}
      <4>1. PICK none : none = <<>>
        OBVIOUS
      <4>2. panel = [open |-> FALSE, rows |-> none, pumping |-> FALSE, stop |-> FALSE]
        BY <3>2, <4>1, Zenon DEF TransferInv, NoPanel
      <4>3. DOMAIN none = {}
        BY <4>1
      <4>4. DOMAIN panel.rows = {}
        BY <4>2, <4>3
      <4>5. zipper.phase = "idle"
        <5>1. zipper = NoZipper
          BY <3>2, Zenon DEF TransferInv
        <5> QED BY <5>1 DEF NoZipper
      <4> QED BY <4>4, <4>5 DEF ImportsFollowed
    <3> QED BY <3>1, <3>2
  <2> QED BY <2>1, <2>2 DEF TransfersFollowed
<1> QED BY <1>1, TransfersBegin, TransfersGoOn, PTL DEF LibrarySpec

(* -------------------------- the viewer of the web ------------------------ *)

HistoryEntry == [filter : Filters \cup {Nil, "all"}, viewer : BOOLEAN]
HasFields(w) == {"ids", "stuck", "stage"} \subseteq DOMAIN w

(* The viewer and its entry, and what a pop on its way allows: only the      *)
(* entry in front can be a viewer's, and an open viewer has it; one that has *)
(* closed leaves it to a pop, and an X that is spent waits for one.          *)
InTouch(ids, stuck, h, b, s) ==
  /\ h \in Seq(HistoryEntry) /\ h # <<>> /\ b \in Nat
  /\ s = {} =>
       /\ \A n \in DOMAIN h : n < Len(h) => ~h[n].viewer
       /\ ids # <<>> => h[Len(h)].viewer
       /\ ids = <<>> /\ h[Len(h)].viewer => b > 0
       /\ stuck => (ids # <<>> /\ b > 0)
ViewerInv == HasFields(web) /\ InTouch(web.ids, web.stuck, history, backs, strays)
(* A change of the gallery that leaves the viewer as it is. *)
SameViewer(w, v) == HasFields(w) /\ w.ids = v.ids /\ w.stuck = v.stuck

LEMMA FieldKept ==
  ASSUME NEW w, HasFields(w), NEW x, x \notin {"ids", "stuck"}, NEW e
  PROVE  SameViewer([w EXCEPT ![x] = e], w)
BY DEF HasFields, SameViewer

LEMMA SameThrough ==
  ASSUME NEW u, NEW v, NEW w, SameViewer(w, v), SameViewer(v, u)
  PROVE  SameViewer(w, u)
BY DEF SameViewer

LEMMA StaledSame == ASSUME NEW w, HasFields(w) PROVE SameViewer(Staled(w), w)
BY FieldKept DEF Staled

LEMMA UnselectedSame == ASSUME NEW w, HasFields(w) PROVE SameViewer(Unselected(w), w)
BY DEF Unselected, HasFields, SameViewer

LEMMA StagedSame == ASSUME NEW w, HasFields(w) PROVE SameViewer(Staged(w), w)
BY FieldKept DEF Staged

LEMMA ShutViewer ==
  ASSUME NEW w, HasFields(w)
  PROVE  HasFields(Shut(w)) /\ Shut(w).ids = <<>> /\ Shut(w).stuck = w.stuck
<1> DEFINE v == [w EXCEPT !.ids = <<>>, !.index = 1]
<1>1. HasFields(v) /\ v.ids = <<>> /\ v.stuck = w.stuck
  BY DEF HasFields
<1> HIDE DEF v
<1>2. SameViewer(Staged(v), v)
  BY <1>1, StagedSame
<1>3. Shut(w) = Staged(v)
  BY DEF Shut, v
<1> QED BY <1>1, <1>2, <1>3 DEF SameViewer

(* A change elsewhere keeps the viewer and its entry in touch. *)
LEMMA ElsewhereInTouch ==
  ASSUME ViewerInv, SameViewer(web', web), UNCHANGED <<history, backs, strays>>
  PROVE  ViewerInv'
BY DEF ViewerInv, SameViewer, HasFields, InTouch

(* What the gallery does of itself or when something comes back. *)
Aside == \/ FetchNextPage \/ TryAgain \/ TogglePalette \/ ClearSelection \/ AskDelete \/ CancelDelete
         \/ DeleteSelected \/ Download \/ AskViewDelete \/ CancelViewDelete \/ HandleDelete
         \/ Play \/ OpenFrames \/ SelectFrame \/ CloseFrames \/ ApplyKeyPhoto \/ Next_ \/ Previous
         \/ \E p \in ToSet(Shots) : ToggleSelect(p)
         \/ \E i \in DOMAIN jobs :
              \/ PagesBack(i) \/ PagesFailed(i) \/ (\E bad \in SUBSET ToSet(Shots) : DeletesBack(i, bad))
              \/ PhotoBack(i) \/ PhotoFailed(i) \/ DownloadBack(i) \/ EraseFailed(i) \/ EraseSettled(i)
              \/ FramesBack(i) \/ KeyBack(i)

LEMMA StageKept ==
  ASSUME ViewerInv, NEW s, StageTo(s)
  PROVE  ViewerInv'
<1>1. web' = [web EXCEPT !.stage = s] /\ UNCHANGED <<history, backs, strays>>
  BY DEF StageTo
<1>2. SameViewer(web', web)
  BY <1>1, FieldKept DEF ViewerInv
<1> QED BY <1>1, <1>2, ElsewhereInTouch

LEMMA FieldInTouch ==
  ASSUME ViewerInv, NEW x, x \notin {"ids", "stuck"}, NEW e, web' = [web EXCEPT ![x] = e], UNCHANGED <<history, backs, strays>>
  PROVE  ViewerInv'
BY FieldKept, ElsewhereInTouch DEF ViewerInv

LEMMA StillInTouch ==
  ASSUME ViewerInv, UNCHANGED webVars
  PROVE  ViewerInv'
BY DEF ViewerInv, HasFields, InTouch, webVars

LEMMA AsideInTouch ==
  ASSUME ViewerInv, Aside
  PROVE  ViewerInv'
<1> USE DEF Keeps
<1>1. CASE FetchNextPage \/ TryAgain
  BY <1>1, StillInTouch DEF FetchNextPage, TryAgain
<1>2. CASE TogglePalette
  BY <1>2, FieldInTouch DEF TogglePalette
<1>3. CASE ClearSelection \/ \E p \in ToSet(Shots) : ToggleSelect(p)
  <2>1. \E e : web' = [web EXCEPT !.selection = e] /\ UNCHANGED <<history, backs, strays>>
    BY <1>3, Zenon DEF ClearSelection, ToggleSelect
  <2> QED BY <2>1, FieldInTouch
<1>4. CASE AskDelete \/ CancelDelete
  BY <1>4, FieldInTouch DEF AskDelete, CancelDelete
<1>5. CASE DeleteSelected
  BY <1>5, FieldInTouch DEF DeleteSelected
<1>6. CASE Download \/ \E i \in DOMAIN jobs : DownloadBack(i)
  BY <1>6, FieldInTouch DEF Download, DownloadBack
<1>7. CASE AskViewDelete \/ CancelViewDelete
  BY <1>7, FieldInTouch DEF AskViewDelete, CancelViewDelete
<1>8. CASE HandleDelete \/ \E i \in DOMAIN jobs : EraseFailed(i) \/ EraseSettled(i)
  <2>1. \E e : web' = [web EXCEPT !.viewDeleting = e] /\ UNCHANGED <<history, backs, strays>>
    BY <1>8, Zenon DEF HandleDelete, EraseFailed, EraseSettled
  <2> QED BY <2>1, FieldInTouch
<1>9. CASE Play \/ OpenFrames \/ SelectFrame \/ CloseFrames \/ ApplyKeyPhoto
  <2>1. \E s : StageTo(s)
    BY <1>9, Zenon DEF Play, OpenFrames, SelectFrame, CloseFrames, ApplyKeyPhoto
  <2> QED BY <2>1, StageKept
<1>10. CASE Next_ \/ Previous
  <2>1. PICK n : Moves(n)
    BY <1>10, Zenon DEF Next_, Previous
  <2> DEFINE v == [web EXCEPT !.index = n]
  <2>2. web' = Staged(v) /\ UNCHANGED <<history, backs, strays>>
    BY <2>1, Zenon DEF Moves
  <2>3. SameViewer(v, web)
    BY FieldKept DEF ViewerInv
  <2> HIDE DEF v
  <2>4. SameViewer(Staged(v), v)
    BY <2>3, StagedSame DEF SameViewer
  <2> QED BY <2>2, <2>3, <2>4, SameThrough, ElsewhereInTouch
<1>11. CASE \E i \in DOMAIN jobs : PagesBack(i) \/ PagesFailed(i)
  <2>1. UNCHANGED <<history, backs, strays>> /\ (web' = web \/ \E e : web' = [web EXCEPT !.cache = e])
    BY <1>11, Zenon DEF PagesBack, PagesFailed
  <2> QED BY <2>1, FieldInTouch, ElsewhereInTouch DEF SameViewer, ViewerInv
<1>12. CASE \E i \in DOMAIN jobs, bad \in SUBSET ToSet(Shots) : DeletesBack(i, bad)
  <2> DEFINE v == IF Filter = Nil THEN web ELSE Unselected(web)
  <2>1. web' = Staled(v) /\ UNCHANGED <<history, backs, strays>>
    BY <1>12, Zenon DEF DeletesBack
  <2>2. SameViewer(v, web)
    BY UnselectedSame DEF ViewerInv, SameViewer
  <2> HIDE DEF v
  <2>3. SameViewer(Staled(v), v)
    BY <2>2, StaledSame DEF SameViewer
  <2> QED BY <2>1, <2>2, <2>3, SameThrough, ElsewhereInTouch
<1>13. CASE \E i \in DOMAIN jobs : PhotoBack(i) \/ PhotoFailed(i)
  <2>1. UNCHANGED webVars \/ \E e : web' = [web EXCEPT !.known = e] /\ UNCHANGED <<history, backs, strays>>
    BY <1>13, Zenon DEF PhotoBack, PhotoFailed
  <2> QED BY <2>1, FieldInTouch, StillInTouch
<1>14. CASE \E i \in DOMAIN jobs : FramesBack(i)
  <2>1. \E s : StageTo(s)
    BY <1>14, Zenon DEF FramesBack
  <2> QED BY <2>1, StageKept
<1>15. CASE \E i \in DOMAIN jobs : KeyBack(i)
  <2>1. /\ UNCHANGED <<history, backs, strays>>
        /\ \/ web' = web
           \/ \E e : web' = [web EXCEPT !.stage = e]
           \/ \E e : web' = Staled([web EXCEPT !.stage = e])
    BY <1>15, Zenon DEF KeyBack
  <2>2. ASSUME NEW e PROVE SameViewer([web EXCEPT !.stage = e], web) /\ SameViewer(Staled([web EXCEPT !.stage = e]), web)
    <3> DEFINE v == [web EXCEPT !.stage = e]
    <3>1. SameViewer(v, web)
      BY FieldKept DEF ViewerInv
    <3> HIDE DEF v
    <3>2. SameViewer(Staled(v), v)
      BY <3>1, StaledSame DEF SameViewer
    <3>3. SameViewer(Staled(v), web)
      BY <3>1, <3>2, SameThrough
    <3> USE DEF v
    <3> QED BY <3>1, <3>3
  <2>3. SameViewer(web', web)
    BY <2>1, <2>2 DEF SameViewer, ViewerInv
  <2> QED BY <2>1, <2>3, ElsewhereInTouch
<1> QED
  BY <1>1, <1>2, <1>3, <1>4, <1>5, <1>6, <1>7, <1>8, <1>9, <1>10, <1>11, <1>12, <1>13, <1>14, <1>15, Zenon DEF Aside

(* --------------------------- entries and pops ---------------------------- *)

LEMMA PushedHistory ==
  ASSUME NEW h \in Seq(HistoryEntry), NEW e \in HistoryEntry
  PROVE  /\ Append(h, e) \in Seq(HistoryEntry) /\ Append(h, e) # <<>>
         /\ Len(Append(h, e)) = Len(h) + 1 /\ Append(h, e)[Len(h) + 1] = e
         /\ \A n \in DOMAIN h : Append(h, e)[n] = h[n]
OBVIOUS

LEMMA FrontHistory ==
  ASSUME NEW h \in Seq(HistoryEntry), Len(h) > 1
  PROVE  /\ Front(h) \in Seq(HistoryEntry) /\ Front(h) # <<>> /\ Len(Front(h)) = Len(h) - 1
         /\ \A n \in DOMAIN Front(h) : n \in DOMAIN h /\ n < Len(h) /\ Front(h)[n] = h[n]
<1> DEFINE g == SubSeq(h, 1, Len(h) - 1)
<1>1. Len(h) \in Nat /\ Len(h) - 1 \in Nat /\ Len(h) - 1 > 0
  OBVIOUS
<1>2. Front(h) = g
  BY DEF Front
<1>3. g \in Seq(HistoryEntry) /\ Len(g) = Len(h) - 1 /\ DOMAIN g = 1..(Len(h) - 1)
  BY <1>1
<1>4. \A n \in 1..(Len(h) - 1) : n \in DOMAIN h /\ n < Len(h) /\ g[n] = h[n]
  BY <1>1
<1> HIDE DEF g
<1> QED BY <1>1, <1>2, <1>3, <1>4

(* An entry that is not a viewer's is pushed, while none is awaited. *)
LEMMA PushInTouch ==
  ASSUME ViewerInv, NEW f \in Filters \cup {Nil, "all"}, NEW ids, NEW stuck, ids = web.ids, stuck = web.stuck,
         NEW s, s = {} => strays = {} /\ backs = 0 /\ ids = <<>>
  PROVE  InTouch(ids, stuck, Pushed(f), backs, s)
<1> DEFINE e == [filter |-> f, viewer |-> FALSE]
           h == Pushed(f)
<1>1. e \in HistoryEntry /\ ~e.viewer
  BY DEF HistoryEntry
<1>2. history \in Seq(HistoryEntry) /\ history # <<>>
  BY DEF ViewerInv, InTouch
<1>3. /\ h \in Seq(HistoryEntry) /\ h # <<>> /\ Len(h) = Len(history) + 1 /\ h[Len(history) + 1] = e
      /\ \A n \in DOMAIN history : h[n] = history[n]
  BY <1>1, <1>2, PushedHistory DEF Pushed
<1> HIDE DEF e, h
<1>4. ASSUME s = {} PROVE \A n \in DOMAIN h : n < Len(h) => ~h[n].viewer
  <2> SUFFICES ASSUME NEW n \in DOMAIN h, n < Len(h) PROVE ~h[n].viewer
    OBVIOUS
  <2>1. n \in DOMAIN history /\ h[n] = history[n] /\ (n < Len(history) \/ n = Len(history))
    BY <1>2, <1>3
  <2> QED BY <1>4, <2>1 DEF ViewerInv, InTouch
<1>5. s = {} => (h[Len(h)] = e /\ ids = <<>> /\ ~stuck)
  BY <1>3 DEF ViewerInv, InTouch
<1> HIDE DEF h
<1>6. backs \in Nat
  BY DEF ViewerInv, InTouch
<1> QED BY <1>1, <1>3, <1>4, <1>5, <1>6 DEF InTouch, h

(* The same with the entry in front replaced. *)
LEMMA ReplaceInTouch ==
  ASSUME ViewerInv, NEW f \in Filters \cup {Nil, "all"}, NEW ids, NEW stuck, ids = web.ids, stuck = web.stuck,
         NEW s, s = {} => strays = {} /\ backs = 0 /\ ids = <<>>
  PROVE  InTouch(ids, stuck, [history EXCEPT ![Len(history)] = [filter |-> f, viewer |-> FALSE]], backs, s)
<1> DEFINE e == [filter |-> f, viewer |-> FALSE]
           h == [history EXCEPT ![Len(history)] = e]
<1>1. e \in HistoryEntry /\ ~e.viewer
  BY DEF HistoryEntry
<1>2. history \in Seq(HistoryEntry) /\ history # <<>>
  BY DEF ViewerInv, InTouch
<1> HIDE DEF e
<1>3. /\ h \in Seq(HistoryEntry) /\ h # <<>> /\ Len(h) = Len(history) /\ h[Len(history)] = e
      /\ \A n \in DOMAIN history : n < Len(history) => h[n] = history[n]
  BY <1>1, <1>2
<1>4. \A n \in DOMAIN h : n \in DOMAIN history
  OBVIOUS
<1> HIDE DEF h
<1>5. ASSUME s = {} PROVE \A n \in DOMAIN h : n < Len(h) => ~h[n].viewer
  BY <1>3, <1>4, <1>5 DEF ViewerInv, InTouch
<1>6. s = {} => (h[Len(h)] = e /\ ids = <<>> /\ ~stuck)
  BY <1>3 DEF ViewerInv, InTouch
<1>7. backs \in Nat
  BY DEF ViewerInv, InTouch
<1>8. InTouch(ids, stuck, h, backs, s)
  BY <1>1, <1>3, <1>5, <1>6, <1>7 DEF InTouch
<1> QED BY <1>8 DEF h, e

(* Where the address leads, the viewer stays as it was. *)
LEMMA ArrivesSame ==
  ASSUME NEW w, HasFields(w), NEW h, Arrives(w, h)
  PROVE  history' = h /\ SameViewer(web', w)
<1> DEFINE v == IF Top(h).filter = Nil THEN Unselected(w) ELSE w
<1>1. history' = h /\ web' = v
  BY DEF Arrives, Keeps
<1>2. SameViewer(v, w)
  BY UnselectedSame DEF SameViewer
<1> QED BY <1>1, <1>2

LEMMA AddressInTouch ==
  ASSUME ViewerInv, \/ \E f \in Filters : SetFilter(f) \/ Search(f)
                    \/ \E f \in {"all", Nil} : PaletteGo(f)
  PROVE  ViewerInv'
<1>1. HasFields(web)
  BY DEF ViewerInv
<1>2. CASE \E f \in Filters : SetFilter(f)
  <2>1. PICK f \in Filters : SetFilter(f)
    BY <1>2
  <2>2. history' = Pushed(f) /\ SameViewer(web', web)
    BY <1>1, <2>1, ArrivesSame DEF SetFilter
  <2>3. backs' = backs /\ (strays' = {} => strays = {} /\ ~(backs > 0)) /\ web.ids = <<>>
    BY <2>1 DEF SetFilter, Strays, Grid, Viewing
  <2>4. backs \in Nat
    BY DEF ViewerInv, InTouch
  <2>5. strays' = {} => strays = {} /\ backs = 0 /\ web.ids = <<>>
    BY <2>3, <2>4
  <2>6. InTouch(web.ids, web.stuck, Pushed(f), backs, strays')
    BY <2>5, PushInTouch
  <2> QED BY <2>2, <2>3, <2>6 DEF ViewerInv, SameViewer, HasFields
<1>3. CASE \E f \in Filters : Search(f)
  <2>1. PICK f \in Filters : Search(f)
    BY <1>3
  <2> DEFINE h == [history EXCEPT ![Len(history)] = [filter |-> f, viewer |-> FALSE]]
  <2>2. history' = h /\ SameViewer(web', web)
    BY <1>1, <2>1, ArrivesSame DEF Search
  <2>3. backs' = backs /\ (strays' = {} => strays = {} /\ ~(backs > 0)) /\ web.ids = <<>>
    BY <2>1 DEF Search, Strays, Viewing
  <2>4. backs \in Nat
    BY DEF ViewerInv, InTouch
  <2>5. strays' = {} => strays = {} /\ backs = 0 /\ web.ids = <<>>
    BY <2>3, <2>4
  <2>6. InTouch(web.ids, web.stuck, h, backs, strays')
    BY <2>5, ReplaceInTouch
  <2> QED BY <2>2, <2>3, <2>6 DEF ViewerInv, SameViewer, HasFields
<1>4. CASE \E f \in {"all", Nil} : PaletteGo(f)
  <2>1. PICK f \in {"all", Nil} : PaletteGo(f)
    BY <1>4
  <2> DEFINE v == [web EXCEPT !.palette = FALSE]
  <2>2. SameViewer(v, web)
    BY <1>1, FieldKept
  <2>3. Arrives(v, Pushed(f))
    BY <2>1 DEF PaletteGo
  <2> HIDE DEF v
  <2>4. history' = Pushed(f) /\ SameViewer(web', v)
    BY <2>2, <2>3, ArrivesSame DEF SameViewer
  <2>5. SameViewer(web', web)
    BY <2>2, <2>4, SameThrough
  <2>6. backs' = backs /\ (strays' = {} => strays = {} /\ ~(backs > 0) /\ web.ids = <<>>)
    BY <2>1 DEF PaletteGo, Strays, Viewing
  <2>7. backs \in Nat
    BY DEF ViewerInv, InTouch
  <2>8. strays' = {} => strays = {} /\ backs = 0 /\ web.ids = <<>>
    BY <2>6, <2>7
  <2>9. InTouch(web.ids, web.stuck, Pushed(f), backs, strays')
    BY <2>8, PushInTouch
  <2> QED BY <2>4, <2>5, <2>6, <2>9 DEF ViewerInv, SameViewer, HasFields
<1> QED BY <1>2, <1>3, <1>4

(* A photo of a gallery that shows some is opened: its entry is in front. *)
LEMMA OpenPhotoInTouch ==
  ASSUME ViewerInv, NEW n, OpenPhoto(n)
  PROVE  ViewerInv'
<1> DEFINE v == [web EXCEPT !.ids = Shown, !.index = n]
           e == [filter |-> Filter, viewer |-> TRUE]
<1>1. HasFields(v) /\ v.ids = Shown /\ v.stuck = web.stuck
  BY DEF HasFields, ViewerInv
<1>2. web' = Staged(v) /\ web.ids = <<>> /\ UNCHANGED <<backs, strays>> /\ n \in DOMAIN Shown
  BY DEF OpenPhoto, Keeps, Grid, Viewing
<1>3. history' = IF Top(history).viewer THEN history ELSE Append(history, e)
  BY DEF OpenPhoto
<1> HIDE DEF v
<1>4. SameViewer(Staged(v), v)
  BY <1>1, StagedSame
<1>5. HasFields(web') /\ web'.ids = Shown /\ web'.stuck = web.stuck
  BY <1>1, <1>2, <1>4 DEF SameViewer
<1>6. Shown # <<>>
  BY <1>2
<1>7. history \in Seq(HistoryEntry) /\ history # <<>> /\ backs \in Nat
  BY DEF ViewerInv, InTouch
<1>8. Len(history) \in DOMAIN history
  BY <1>7
<1>9. e \in HistoryEntry /\ e.viewer
  <2>1. Filter = history[Len(history)].filter
    BY DEF Filter, Top
  <2>2. history[Len(history)] \in HistoryEntry
    BY <1>7, <1>8
  <2>3. Filter \in Filters \cup {Nil, "all"}
    BY <2>1, <2>2 DEF HistoryEntry
  <2> QED BY <2>3 DEF HistoryEntry
<1> HIDE DEF e
<1>10. strays = {} => ~web.stuck
  BY <1>2 DEF ViewerInv, InTouch
<1>11. CASE Top(history).viewer
  <2>1. history' = history /\ history[Len(history)].viewer
    BY <1>3, <1>11 DEF Top
  <2>2. InTouch(Shown, web.stuck, history, backs, strays)
    BY <1>6, <1>7, <1>10, <2>1 DEF ViewerInv, InTouch
  <2> QED BY <1>2, <1>5, <2>1, <2>2 DEF ViewerInv
<1>12. CASE ~Top(history).viewer
  <2> DEFINE h == Append(history, e)
  <2>1. history' = h /\ ~history[Len(history)].viewer
    BY <1>3, <1>12 DEF Top
  <2>2. /\ h \in Seq(HistoryEntry) /\ h # <<>> /\ Len(h) = Len(history) + 1 /\ h[Len(history) + 1] = e
        /\ \A m \in DOMAIN history : h[m] = history[m]
    BY <1>7, <1>9, PushedHistory
  <2> HIDE DEF h
  <2>3. ASSUME strays = {} PROVE \A m \in DOMAIN h : m < Len(h) => ~h[m].viewer
    <3> SUFFICES ASSUME NEW m \in DOMAIN h, m < Len(h) PROVE ~h[m].viewer
      OBVIOUS
    <3>1. m \in DOMAIN history /\ h[m] = history[m] /\ (m < Len(history) \/ m = Len(history))
      BY <1>7, <2>2
    <3> QED BY <2>1, <2>3, <3>1 DEF ViewerInv, InTouch
  <2>4. InTouch(Shown, web.stuck, h, backs, strays)
    BY <1>6, <1>7, <1>9, <1>10, <2>2, <2>3 DEF InTouch
  <2> QED BY <1>2, <1>5, <2>1, <2>4 DEF ViewerInv
<1> QED BY <1>11, <1>12

(* The entry in front is popped: what closes by it had it, and what is left
   of the history has no viewer's entry. *)
LEMMA PoppedViewer ==
  ASSUME ViewerInv, Popped
  PROVE  /\ HasFields(web') /\ web'.ids = <<>> /\ history' = Front(history)
         /\ history' \in Seq(HistoryEntry) /\ history' # <<>>
         /\ strays = {} => ~web'.stuck /\ \A n \in DOMAIN history' : ~history'[n].viewer
<1> DEFINE v == Shut(web)
           w == IF Viewing THEN [v EXCEPT !.stuck = FALSE] ELSE web
<1>1. HasFields(web)
  BY DEF ViewerInv
<1>2. HasFields(v) /\ v.ids = <<>>
  BY <1>1, ShutViewer
<1>3. Arrives(w, Front(history)) /\ Len(history) > 1
  BY DEF Popped
<1> HIDE DEF v
<1>4. HasFields(w) /\ w.ids = <<>> /\ (strays = {} => ~w.stuck)
  <2>1. CASE Viewing
    BY <1>2, <2>1 DEF HasFields
  <2>2. CASE ~Viewing
    BY <1>1, <2>2 DEF Viewing, ViewerInv, InTouch
  <2> QED BY <2>1, <2>2
<1> HIDE DEF w
<1>5. history' = Front(history) /\ SameViewer(web', w)
  BY <1>3, <1>4, ArrivesSame
<1>6. history \in Seq(HistoryEntry)
  BY DEF ViewerInv, InTouch
<1>7. /\ history' \in Seq(HistoryEntry) /\ history' # <<>>
      /\ \A n \in DOMAIN history' : n \in DOMAIN history /\ n < Len(history) /\ history'[n] = history[n]
  BY <1>3, <1>5, <1>6, FrontHistory
<1>8. strays = {} => \A n \in DOMAIN history' : ~history'[n].viewer
  BY <1>7 DEF ViewerInv, InTouch
<1> QED BY <1>4, <1>5, <1>7, <1>8 DEF SameViewer

LEMMA BackInTouch ==
  ASSUME ViewerInv, PopState \/ PressBack
  PROVE  ViewerInv'
<1>1. Popped
  BY DEF PopState, PressBack
<1> DEFINE h == Front(history)
<1>2. /\ HasFields(web') /\ web'.ids = <<>> /\ history' = h /\ h \in Seq(HistoryEntry) /\ h # <<>>
      /\ strays = {} => ~web'.stuck /\ \A n \in DOMAIN h : ~h[n].viewer
  BY <1>1, PoppedViewer
<1> HIDE DEF h
<1>3. Len(h) \in DOMAIN h
  BY <1>2
<1>4. backs \in Nat
  BY DEF ViewerInv, InTouch
<1>5. backs' \in Nat /\ (strays' = {} => strays = {})
  <2>1. CASE PopState
    BY <1>4, <2>1 DEF PopState
  <2>2. CASE PressBack
    BY <1>4, <2>2 DEF PressBack, EntryPopped
  <2> QED BY <2>1, <2>2
<1>6. InTouch(web'.ids, web'.stuck, h, backs', strays')
  BY <1>2, <1>3, <1>5 DEF InTouch
<1> QED BY <1>2, <1>6 DEF ViewerInv

(* X goes back once; without its entry in front it only closes. *)
LEMMA HandleCloseInTouch ==
  ASSUME ViewerInv, HandleClose
  PROVE  ViewerInv'
<1>1. HasFields(web) /\ backs \in Nat /\ Viewing /\ history' = history
  BY DEF ViewerInv, InTouch, HandleClose, InView
<1>2. CASE Top(history).viewer
  <2>1. web' = [web EXCEPT !.stuck = TRUE] /\ backs' = backs + 1 /\ strays' = strays
    BY <1>2 DEF HandleClose
  <2>2. HasFields(web') /\ web'.ids = web.ids /\ web'.stuck
    BY <1>1, <2>1 DEF HasFields
  <2> QED BY <1>1, <2>1, <2>2 DEF ViewerInv, InTouch, Viewing
<1>3. CASE ~Top(history).viewer
  <2>1. web' = Shut(web) /\ UNCHANGED <<backs, strays>>
    BY <1>3 DEF HandleClose, EntryPopped, Keeps
  <2>2. HasFields(web')
    BY <1>1, <2>1, ShutViewer
  <2>3. strays # {}
    BY <1>1, <1>3 DEF ViewerInv, InTouch, Viewing, Top
  <2> QED BY <1>1, <2>1, <2>2, <2>3 DEF ViewerInv, InTouch
<1> QED BY <1>2, <1>3

(* A deletion that leaves nothing to show pops the entry that is in front. *)
LEMMA EraseBackInTouch ==
  ASSUME ViewerInv, NEW i, EraseBack(i)
  PROVE  ViewerInv'
<1> DEFINE u == RemoveCurrent(web)
           v == [u EXCEPT !.viewAsking = FALSE]
           w == Staled(v)
<1>1. HasFields(web) /\ backs \in Nat /\ history \in Seq(HistoryEntry) /\ history # <<>>
  BY DEF ViewerInv, InTouch
<1>2. HasFields(u) /\ u.stuck = web.stuck /\ (web.ids = <<>> => u.ids = <<>>)
  <2>1. CASE Len(web.ids) < 2
    <3>1. u = Shut(web)
      BY <2>1 DEF RemoveCurrent
    <3> QED BY <1>1, <3>1, ShutViewer
  <2>2. CASE ~(Len(web.ids) < 2)
    <3> DEFINE ids == RemoveAt(web.ids, web.index)
               x == [web EXCEPT !.ids = ids, !.index = IF @ > Len(ids) THEN Len(ids) ELSE @]
    <3>1. u = Staged(x)
      BY <2>2, Zenon DEF RemoveCurrent
    <3> HIDE DEF ids
    <3>2. HasFields(x) /\ x.stuck = web.stuck
      BY <1>1 DEF HasFields
    <3> HIDE DEF x
    <3>3. SameViewer(Staged(x), x)
      BY <3>2, StagedSame
    <3>4. web.ids # <<>>
      BY <2>2
    <3> QED BY <3>1, <3>2, <3>3, <3>4 DEF SameViewer
  <2> QED BY <2>1, <2>2
<1>3. web' = w /\ history' = history
  BY Zenon DEF EraseBack, Keeps
<1>4. IF Viewing /\ w.ids = <<>> THEN EntryPopped(history) ELSE UNCHANGED <<backs, strays>>
  BY Zenon DEF EraseBack
<1> HIDE DEF u
<1>5. SameViewer(v, u)
  BY <1>2, FieldKept
<1> HIDE DEF v
<1>6. SameViewer(w, v)
  BY <1>5, StaledSame DEF SameViewer
<1> HIDE DEF w
<1>7. HasFields(w) /\ w.ids = u.ids /\ w.stuck = web.stuck
  BY <1>2, <1>5, <1>6 DEF SameViewer
<1>8. CASE Viewing /\ w.ids = <<>>
  <2>1. CASE Top(history).viewer
    <3>1. backs' = backs + 1 /\ (strays' = {} => strays = {} /\ ~(backs > 0))
      BY <1>4, <1>8, <2>1 DEF EntryPopped
    <3>2. strays' = {} => strays = {} /\ ~web.stuck
      BY <1>1, <3>1 DEF ViewerInv, InTouch
    <3>3. backs' \in Nat /\ backs' > 0
      BY <1>1, <3>1
    <3>4. InTouch(w.ids, w.stuck, history, backs', strays')
      BY <1>1, <1>7, <1>8, <3>2, <3>3 DEF ViewerInv, InTouch
    <3> QED BY <1>3, <1>7, <3>4 DEF ViewerInv
  <2>2. CASE ~Top(history).viewer
    <3>1. UNCHANGED <<backs, strays>>
      BY <1>4, <1>8, <2>2 DEF EntryPopped
    <3>2. strays # {}
      BY <1>8, <2>2 DEF ViewerInv, InTouch, Viewing, Top
    <3> QED BY <1>1, <1>3, <1>7, <3>1, <3>2 DEF ViewerInv, InTouch
  <2> QED BY <2>1, <2>2
<1>9. CASE ~(Viewing /\ w.ids = <<>>)
  <2>1. UNCHANGED <<backs, strays>>
    BY <1>4, <1>9
  <2>2. (web.ids = <<>>) <=> (w.ids = <<>>)
    BY <1>2, <1>7, <1>9 DEF Viewing
  <2>3. InTouch(w.ids, w.stuck, history, backs, strays)
    BY <1>7, <2>2 DEF ViewerInv, InTouch
  <2> QED BY <1>3, <1>7, <2>1, <2>3 DEF ViewerInv
<1> QED BY <1>8, <1>9

LEMMA GalleryInTouch == ASSUME ViewerInv, WebNext PROVE ViewerInv'
<1>1. CASE Aside
  BY <1>1, AsideInTouch
<1>2. CASE \/ \E f \in Filters : SetFilter(f) \/ Search(f)
           \/ \E f \in {"all", Nil} : PaletteGo(f)
  BY <1>2, AddressInTouch
<1>3. CASE \E n \in DOMAIN Shots : OpenPhoto(n)
  BY <1>3, OpenPhotoInTouch
<1>4. CASE PopState \/ PressBack
  BY <1>4, BackInTouch
<1>5. CASE HandleClose
  BY <1>5, HandleCloseInTouch
<1>6. CASE \E i \in DOMAIN jobs : EraseBack(i)
  BY <1>6, EraseBackInTouch
<1> QED BY <1>1, <1>2, <1>3, <1>4, <1>5, <1>6, Zenon DEF WebNext, Aside

LEMMA GalleryBegins == WebInit => ViewerInv
<1> SUFFICES ASSUME WebInit PROVE ViewerInv
  OBVIOUS
<1> DEFINE a == [filter |-> Nil, viewer |-> FALSE]
           b == [filter |-> "all", viewer |-> FALSE]
<1>1. history = <<a, b>> /\ backs = 0 /\ web = NoWeb
  BY DEF WebInit
<1>2. PICK none : none = <<>>
  OBVIOUS
<1>3. HasFields(NoWeb) /\ NoWeb.ids = <<>> /\ ~NoWeb.stuck
  BY Zenon DEF NoWeb, HasFields
<1>4. a \in HistoryEntry /\ b \in HistoryEntry /\ ~a.viewer /\ ~b.viewer
  BY DEF HistoryEntry
<1> HIDE DEF a, b
<1>5. /\ history \in Seq(HistoryEntry) /\ history # <<>> /\ Len(history) = 2
      /\ \A n \in DOMAIN history : ~history[n].viewer
  BY <1>1, <1>4
<1>6. Len(history) \in DOMAIN history
  BY <1>5
<1> QED BY <1>1, <1>3, <1>5, <1>6 DEF ViewerInv, InTouch

LEMMA ViewerInvShows == ASSUME ViewerInv, strays = {}, backs = 0 PROVE (Viewing <=> Top(history).viewer) /\ (Viewing => ~web.stuck)
BY DEF ViewerInv, InTouch, Viewing, Top

(* However far the history and however many pops, deletions, answers and
   mishaps: while no pop is on its way and neither of the two known ways out
   of step was taken, the viewer is open exactly when its entry is in front of
   the history, and its X works (photo-viewer.tsx, its popstate and close
   handlers). *)
THEOREM ViewerKeepsStep == LibrarySpec => []ViewerInStep
<1> DEFINE Inv == WebView => ViewerInv
<1>1. LibraryInit => Inv
  BY GalleryBegins DEF LibraryInit, WebView
<1>2. Inv /\ [LibraryNext]_libraryVars => Inv'
  <2> SUFFICES ASSUME Inv, [LibraryNext]_libraryVars, WebView PROVE ViewerInv'
    BY DEF LibraryNext, libraryVars, jobVars, WebView
  <2>1. CASE InGallery
    BY <2>1, GalleryInTouch DEF InGallery
  <2>2. CASE UNCHANGED libraryVars
    BY <2>2, StillInTouch DEF libraryVars
  <2>3. ~(InVault \/ InImport \/ InUpload \/ InFeed \/ InGrid)
    BY DEF WebView, InVault, InImport, InUpload, InFeed, InGrid
  <2> QED BY <2>1, <2>2, <2>3 DEF LibraryNext
<1>3. Inv => ViewerInStep
  BY ViewerInvShows DEF ViewerInStep
<1> QED BY <1>1, <1>2, <1>3, PTL DEF LibrarySpec

(* ------------------------ the grids of the cloud ------------------------- *)

Through(order, S, t) == {u \in S : u = t \/ Ahead(order, u, t)}
Place(order, S, t) == Cardinality(Through(order, S, t))

(* The times of the photos of the grids and of the feed. *)
Dates == Instants \cup Times

LEMMA DatesCounted == Dates \subseteq Nat /\ IsFiniteSet(Dates)
<1>1. Instants \subseteq Nat /\ IsFiniteSet(Instants)
  BY GridAssumption DEF Instants
<1>2. Times \subseteq Nat /\ IsFiniteSet(Times)
  BY FeedAssumption
<1> QED BY <1>1, <1>2, FS_Union DEF Dates

(* Newest first or oldest first: a strict order of the photos. *)
LEMMA AheadOrders ==
  ASSUME NEW order
  PROVE  /\ \A t \in Dates : ~Ahead(order, t, t)
         /\ \A t, u \in Dates : t # u => Ahead(order, t, u) \/ Ahead(order, u, t)
         /\ \A t, u, v \in Dates : Ahead(order, t, u) /\ Ahead(order, u, v) => Ahead(order, t, v)
<1>1. \A t \in Dates : t \in Nat
  BY DatesCounted
<1> QED BY <1>1 DEF Ahead

LEMMA PlaceIs ==
  ASSUME NEW order, NEW S \in SUBSET Dates, NEW t \in S
  PROVE  /\ IsFiniteSet(S) /\ Cardinality(S) \in Nat
         /\ IsFiniteSet(Through(order, S, t)) /\ Place(order, S, t) \in 1..Cardinality(S)
<1>1. IsFiniteSet(S) /\ Cardinality(S) \in Nat
  BY DatesCounted, FS_Subset, FS_CardinalityType
<1>2. Through(order, S, t) \subseteq S /\ t \in Through(order, S, t)
  BY DEF Through
<1>3. IsFiniteSet(Through(order, S, t)) /\ Place(order, S, t) <= Cardinality(S)
  BY <1>1, <1>2, FS_Subset DEF Place
<1>4. Place(order, S, t) \in Nat /\ Place(order, S, t) # 0
  BY <1>2, <1>3, FS_CardinalityType, FS_EmptySet DEF Place
<1> QED BY <1>1, <1>3, <1>4

(* More photos move a photo to a later place. *)
LEMMA PlaceGrows ==
  ASSUME NEW order, NEW T \in SUBSET Dates, NEW S \in SUBSET T, NEW t \in S
  PROVE  Place(order, S, t) <= Place(order, T, t)
<1>1. Through(order, S, t) \subseteq Through(order, T, t)
  BY DEF Through
<1> QED BY <1>1, PlaceIs, FS_Subset DEF Place

LEMMA PlaceAhead ==
  ASSUME NEW order, NEW S \in SUBSET Dates, NEW t \in S, NEW u \in S, Ahead(order, t, u)
  PROVE  Place(order, S, t) < Place(order, S, u)
<1>1. Through(order, S, t) \subseteq Through(order, S, u)
  BY AheadOrders DEF Through
<1>2. u \in Through(order, S, u) /\ u \notin Through(order, S, t)
  BY AheadOrders DEF Through
<1>3. IsFiniteSet(Through(order, S, u)) /\ Place(order, S, t) \in Nat /\ Place(order, S, u) \in Nat
  BY PlaceIs
<1>4. Place(order, S, t) <= Place(order, S, u) /\ Place(order, S, t) # Place(order, S, u)
  BY <1>1, <1>2, <1>3, FS_Subset DEF Place
<1> QED BY <1>3, <1>4

LEMMA PlaceOrders ==
  ASSUME NEW order, NEW S \in SUBSET Dates, NEW t \in S, NEW u \in S
  PROVE  /\ Place(order, S, t) < Place(order, S, u) <=> Ahead(order, t, u)
         /\ Place(order, S, t) = Place(order, S, u) <=> t = u
<1>1. Place(order, S, t) \in Nat /\ Place(order, S, u) \in Nat
  BY PlaceIs
<1>2. t = u \/ Ahead(order, t, u) \/ Ahead(order, u, t)
  BY AheadOrders
<1> QED BY <1>1, <1>2, PlaceAhead, AheadOrders

(* The listing of a set: each photo at its place. *)
LEMMA ListingIs ==
  ASSUME NEW S \in SUBSET Dates, NEW order, NEW s, s = InOrder(S, order)
  PROVE  /\ s \in Seq(S) /\ Len(s) = Cardinality(S)
         /\ \A n \in DOMAIN s : Place(order, S, s[n]) = n
         /\ \A t \in S : Place(order, S, t) \in DOMAIN s /\ s[Place(order, S, t)] = t
<1> DEFINE c == Cardinality(S)
           place == [t \in S |-> Place(order, S, t)]
           before(t) == {u \in S : Ahead(order, u, t)}
<1>1. IsFiniteSet(S) /\ c \in Nat
  BY DatesCounted, FS_Subset, FS_CardinalityType
<1>2. \A t \in S : place[t] \in 1..c
  BY PlaceIs
<1>3. place \in Injection(S, 1..c)
  <2>1. \A t, u \in S : place[t] = place[u] => t = u
    BY PlaceOrders
  <2>2. place \in [S -> 1..c]
    BY <1>2
  <2> HIDE DEF place, c
  <2> QED BY <2>1, <2>2 DEF Injection, IsInjective
<1>4. IsFiniteSet(1..c) /\ Cardinality(1..c) = c
  <2>1. 1 \in Int /\ c \in Int /\ (c # 0 => ~(1 > c))
    BY <1>1
  <2>2. IsFiniteSet(1..c) /\ Cardinality(1..c) = IF 1 > c THEN 0 ELSE c - 1 + 1
    BY <2>1, FS_Interval
  <2> QED BY <1>1, <2>1, <2>2
<1>5. place \in Surjection(S, 1..c)
  <2> HIDE DEF place
  <2> QED BY <1>1, <1>3, <1>4, FS_Injection
<1>6. \A n \in 1..c : \E t \in S : Place(order, S, t) = n
  BY <1>5 DEF Surjection
<1>7. \A t \in S : Cardinality(before(t)) = Place(order, S, t) - 1
  <2> SUFFICES ASSUME NEW t \in S PROVE Cardinality(before(t)) = Place(order, S, t) - 1
    OBVIOUS
  <2>1. t \notin before(t) /\ Through(order, S, t) = before(t) \cup {t}
    BY AheadOrders DEF Through
  <2>2. before(t) \subseteq S
    OBVIOUS
  <2>3. IsFiniteSet(before(t))
    BY <1>1, <2>2, FS_Subset
  <2>4. Cardinality(before(t)) \in Nat /\ Place(order, S, t) = Cardinality(before(t)) + 1
    BY <2>1, <2>3, FS_AddElement, FS_CardinalityType DEF Place
  <2> HIDE DEF before
  <2> QED BY <2>4
<1>8. \A n \in 1..c : s[n] \in S /\ Place(order, S, s[n]) = n
  <2> SUFFICES ASSUME NEW n \in 1..c PROVE s[n] \in S /\ Place(order, S, s[n]) = n
    OBVIOUS
  <2>1. s[n] = CHOOSE t \in S : Cardinality(before(t)) = n - 1
    BY DEF InOrder
  <2>2. PICK t \in S : Place(order, S, t) = n
    BY <1>6
  <2>3. Cardinality(before(t)) = n - 1
    BY <1>7, <2>2
  <2> HIDE DEF before
  <2>4. s[n] \in S /\ Cardinality(before(s[n])) = n - 1
    BY <2>1, <2>3
  <2>5. Place(order, S, s[n]) - 1 = n - 1 /\ Place(order, S, s[n]) \in 1..c
    BY <1>7, <2>4, PlaceIs
  <2> HIDE DEF c
  <2> QED BY <1>1, <2>4, <2>5
<1>9. s = [n \in 1..c |-> s[n]]
  <2> DEFINE at(n) == CHOOSE t \in S : Cardinality(before(t)) = n - 1
  <2>1. s = [n \in 1..c |-> at(n)]
    BY Zenon DEF InOrder
  <2> HIDE DEF at, c
  <2> QED BY <2>1
<1>10. s \in [1..c -> S]
  <2> HIDE DEF c
  <2> QED BY <1>8, <1>9
<1>11. s \in Seq(S) /\ Len(s) = c /\ DOMAIN s = 1..c
  <2> HIDE DEF c
  <2> QED BY <1>1, <1>10
<1>12. \A t \in S : Place(order, S, t) \in 1..c /\ s[Place(order, S, t)] = t
  BY <1>8, PlaceIs, PlaceOrders
<1> QED BY <1>8, <1>11, <1>12

LEMMA PageProduct ==
  ASSUME NEW n \in Nat \ {0}
  PROVE  /\ (n - 1) * GridPage \in Nat /\ n * GridPage \in Nat
         /\ n * GridPage = (n - 1) * GridPage + GridPage /\ (n + 1) * GridPage = n * GridPage + GridPage
         /\ n * GridPage - GridPage = (n - 1) * GridPage
         /\ (n + 1) - 1 = n /\ 1 * GridPage = GridPage /\ (1 - 1) * GridPage = 0
<1>1. GridPage \in Nat /\ n - 1 \in Nat
  BY GridAssumption
<1>2. \A x, y \in Nat : x * y \in Nat
  OBVIOUS
<1>3. \A x, y \in Int : (x + 1) * y = x * y + y
  OBVIOUS
<1>4. n = (n - 1) + 1
  OBVIOUS
<1> QED BY <1>1, <1>2, <1>3, <1>4

(* The part of a listing between two places. *)
Sorted(order, s) == \A i, k \in DOMAIN s : i < k => Ahead(order, s[i], s[k])
Span(listing, a, z) == SubSeq(listing, a + 1, Min({z, Len(listing)}))
Spanned(order, S, s, a, z) ==
  /\ s \in Seq(S) /\ Sorted(order, s)
  /\ \A t \in ToSet(s) : t \in S /\ a < Place(order, S, t) /\ Place(order, S, t) <= z
  /\ \A t \in S : a < Place(order, S, t) /\ Place(order, S, t) <= z => t \in ToSet(s)
LEMMA SpanIs ==
  ASSUME NEW S \in SUBSET Dates, NEW order, NEW a \in Nat, NEW z \in Nat,
         NEW s, s = Span(InOrder(S, order), a, z)
  PROVE  Spanned(order, S, s, a, z)
<1> DEFINE all == InOrder(S, order)
           e == IF z < Len(all) THEN z ELSE Len(all)
<1>1. /\ all \in Seq(S) /\ Len(all) \in Nat /\ DOMAIN all = 1..Len(all)
      /\ \A m \in DOMAIN all : Place(order, S, all[m]) = m
      /\ \A t \in S : Place(order, S, t) \in DOMAIN all /\ all[Place(order, S, t)] = t
  <2>1. PICK l : l = InOrder(S, order)
    OBVIOUS
  <2>2. /\ l \in Seq(S)
        /\ \A m \in DOMAIN l : Place(order, S, l[m]) = m
        /\ \A t \in S : Place(order, S, t) \in DOMAIN l /\ l[Place(order, S, t)] = t
    BY <2>1, ListingIs
  <2>3. Len(l) \in Nat /\ DOMAIN l = 1..Len(l)
    BY <2>2
  <2>4. all = l
    BY <2>1
  <2> HIDE DEF all
  <2> QED BY <2>2, <2>3, <2>4
<1>2. a \in Nat /\ z \in Nat
  OBVIOUS
<1> HIDE DEF all
<1>3. Min({z, Len(all)}) = e
  <2>1. \A x, y \in Nat : Min({x, y}) = IF x < y THEN x ELSE y
    BY DEF Min
  <2> QED BY <1>1, <1>2, <2>1
<1>4. s = SubSeq(all, a + 1, e)
  BY <1>3 DEF Span, all
<1>5. e \in Nat /\ e <= Len(all) /\ e <= z /\ (\A m \in 1..Len(all) : m <= z => m <= e)
  BY <1>1, <1>2
<1> HIDE DEF e
<1>6. s \in Seq(S) /\ Len(s) = IF a + 1 <= e THEN e - a ELSE 0
  BY <1>1, <1>2, <1>4, <1>5
<1>7. \A k \in 1..(e - a) : s[k] = all[a + k]
  BY <1>1, <1>2, <1>4, <1>5
<1>8. \A k \in DOMAIN s : a + k \in DOMAIN all /\ s[k] = all[a + k] /\ k \in Nat /\ k >= 1 /\ a + k <= z
  <2> SUFFICES ASSUME NEW k \in DOMAIN s
               PROVE  a + k \in DOMAIN all /\ s[k] = all[a + k] /\ k \in Nat /\ k >= 1 /\ a + k <= z
    OBVIOUS
  <2>1. DOMAIN s = 1..Len(s) /\ Len(s) \in Nat
    BY <1>6
  <2>2. a + 1 <= e /\ Len(s) = e - a
    BY <1>2, <1>5, <1>6, <2>1
  <2>3. k \in 1..(e - a)
    BY <2>1, <2>2
  <2>4. k \in Nat /\ k >= 1 /\ a + k \in 1..Len(all) /\ a + k <= z
    BY <1>1, <1>2, <1>5, <2>3
  <2> QED BY <1>1, <1>7, <2>3, <2>4
<1>9. \A k \in DOMAIN s : s[k] \in S /\ Place(order, S, s[k]) = a + k
  BY <1>1, <1>8
<1>10. Sorted(order, s)
  <2> SUFFICES ASSUME NEW i \in DOMAIN s, NEW k \in DOMAIN s, i < k PROVE Ahead(order, s[i], s[k])
    BY DEF Sorted
  <2>1. Place(order, S, s[i]) < Place(order, S, s[k])
    BY <1>2, <1>8, <1>9
  <2> QED BY <1>9, <2>1, PlaceOrders
<1>11. \A t \in ToSet(s) : t \in S /\ a < Place(order, S, t) /\ Place(order, S, t) <= z
  <2> SUFFICES ASSUME NEW t \in ToSet(s) PROVE t \in S /\ a < Place(order, S, t) /\ Place(order, S, t) <= z
    OBVIOUS
  <2>1. PICK k \in DOMAIN s : s[k] = t
    BY DEF ToSet
  <2> QED BY <1>2, <1>8, <1>9, <2>1
<1>12. \A t \in S : a < Place(order, S, t) /\ Place(order, S, t) <= z => t \in ToSet(s)
  <2> SUFFICES ASSUME NEW t \in S, a < Place(order, S, t), Place(order, S, t) <= z PROVE t \in ToSet(s)
    OBVIOUS
  <2> DEFINE m == Place(order, S, t)
  <2>1. m \in 1..Len(all) /\ all[m] = t
    BY <1>1
  <2>2. m - a \in 1..(e - a) /\ m - a \in DOMAIN s /\ a + (m - a) = m
    <3> HIDE DEF m
    <3>1. m <= e /\ m \in Nat
      BY <1>5, <2>1 DEF m
    <3>2. m - a \in 1..(e - a) /\ a + (m - a) = m
      BY <1>2, <1>5, <3>1 DEF m
    <3>3. DOMAIN s = 1..(e - a)
      <4>1. a + 1 <= e
        BY <1>2, <1>5, <3>2
      <4>2. s \in Seq(S) /\ Len(s) = e - a
        BY <1>6, <4>1
      <4> QED BY <4>2
    <3> QED BY <3>2, <3>3
  <2>3. s[m - a] = t
    <3> HIDE DEF m
    <3> QED BY <1>7, <2>1, <2>2
  <2> HIDE DEF m
  <2> QED BY <2>2, <2>3 DEF ToSet
<1> QED BY <1>6, <1>10, <1>11, <1>12 DEF Spanned

(* A page of a listing. *)
LEMMA PageIs ==
  ASSUME NEW S \in SUBSET Dates, NEW order, NEW n \in Nat \ {0}, NEW s, s = GridSlice(InOrder(S, order), n)
  PROVE  /\ s \in Seq(S) /\ Sorted(order, s)
         /\ \A t \in ToSet(s) : t \in S /\ (n - 1) * GridPage < Place(order, S, t) /\ Place(order, S, t) <= n * GridPage
         /\ \A t \in S : (n - 1) * GridPage < Place(order, S, t) /\ Place(order, S, t) <= n * GridPage => t \in ToSet(s)
<1>1. PICK a \in Nat, z \in Nat : a = (n - 1) * GridPage /\ z = n * GridPage
  BY PageProduct
<1>2. s = Span(InOrder(S, order), a, z)
  BY <1>1 DEF GridSlice, Span
<1>3. Spanned(order, S, s, a, z)
  BY <1>2, SpanIs
<1>4. /\ s \in Seq(S) /\ Sorted(order, s)
      /\ \A t \in ToSet(s) : t \in S /\ a < Place(order, S, t) /\ Place(order, S, t) <= z
      /\ \A t \in S : a < Place(order, S, t) /\ Place(order, S, t) <= z => t \in ToSet(s)
  BY <1>3 DEF Spanned
<1> QED BY <1>1, <1>4

LEMMA SiftedSorted ==
  ASSUME NEW order, NEW s \in Seq(Dates), Sorted(order, s), NEW I \in SUBSET DOMAIN s
  PROVE  Sifted(s, I) \in Seq(Dates) /\ Sorted(order, Sifted(s, I))
<1> DEFINE t == Sifted(s, I)
<1>1. t \in Seq(Dates)
  BY SiftedPlaces
<1>2. PICK f : /\ \A n \in DOMAIN t : f[n] \in I /\ t[n] = s[f[n]]
               /\ \A n, m \in DOMAIN t : n < m => f[n] < f[m]
  BY SiftedPlaces
<1> HIDE DEF t
<1>3. Sorted(order, t)
  BY <1>2 DEF Sorted
<1> QED BY <1>1, <1>3 DEF t

LEMMA OneMore ==
  ASSUME NEW A, IsFiniteSet(A), NEW a
  PROVE  IsFiniteSet(A \cup {a}) /\ Cardinality(A \cup {a}) <= Cardinality(A) + 1 /\ Cardinality(A) \in Nat
<1>1. Cardinality(A) \in Nat
  BY FS_CardinalityType
<1>2. CASE a \in A
  <2>1. A \cup {a} = A
    BY <1>2
  <2>2. Cardinality(A) <= Cardinality(A) + 1
    BY <1>1
  <2> QED BY <1>1, <2>1, <2>2, Zenon
<1>3. CASE a \notin A
  <2>1. IsFiniteSet(A \cup {a}) /\ Cardinality(A \cup {a}) = Cardinality(A) + 1
    BY <1>3, FS_AddElement
  <2> QED BY <1>1, <2>1
<1> QED BY <1>2, <1>3

(* One photo more moves the others by at most one. *)
LEMMA PlaceOneMore ==
  ASSUME NEW order, NEW S \in SUBSET Dates, NEW a \in Dates, NEW T, T \subseteq S \cup {a}, NEW t \in S, t \in T
  PROVE  Place(order, T, t) <= Place(order, S, t) + 1
<1> DEFINE A == Through(order, S, t)
           B == Through(order, T, t)
<1>1. T \subseteq Dates /\ IsFiniteSet(A) /\ IsFiniteSet(B)
  BY PlaceIs
<1>2. B \subseteq A \cup {a}
  BY DEF Through
<1>3. IsFiniteSet(A \cup {a}) /\ Cardinality(A \cup {a}) <= Cardinality(A) + 1 /\ Cardinality(A) \in Nat
  <2>1. IsFiniteSet(A)
    BY <1>1
  <2> HIDE DEF A, B
  <2> QED BY <2>1, OneMore
<1> HIDE DEF A, B
<1>4. Cardinality(B) <= Cardinality(A \cup {a}) /\ Cardinality(B) \in Nat /\ Cardinality(A \cup {a}) \in Nat
  BY <1>1, <1>2, <1>3, FS_Subset, FS_CardinalityType
<1>5. Cardinality(B) <= Cardinality(A) + 1
  BY <1>3, <1>4
<1> QED BY <1>5 DEF A, B, Place

LEMMA ChipIs ==
  ASSUME NEW chip \in Chips, NEW S, NEW T, S \subseteq T
  PROVE  /\ ChipKeeps(S, chip) \subseteq S /\ ChipKeeps(S, chip) \subseteq ChipKeeps(T, chip)
         /\ \A a : T \subseteq S \cup {a} => ChipKeeps(T, chip) \subseteq ChipKeeps(S, chip) \cup {a}
<1>1. CASE chip = "All"
  BY <1>1 DEF ChipKeeps
<1>2. CASE chip = "Photo"
  BY <1>2 DEF ChipKeeps
<1>3. CASE chip = "Video"
  BY <1>3 DEF ChipKeeps
<1> QED BY <1>1, <1>2, <1>3 DEF Chips

(* A set and one that has at most one element more. *)
LEMMA AtMostOneMore ==
  ASSUME NEW S \in SUBSET Dates, NEW K \in SUBSET S
  PROVE  /\ Cardinality(S \ K) = 0 => K = S
         /\ Cardinality(S \ K) = 1 => \E a \in S : S \subseteq K \cup {a}
<1>1. IsFiniteSet(S \ K)
  BY DatesCounted, FS_Subset
<1>2. ASSUME Cardinality(S \ K) = 0 PROVE K = S
  <2>1. S \ K = {}
    BY <1>1, <1>2, FS_EmptySet
  <2> QED BY <2>1
<1>3. ASSUME Cardinality(S \ K) = 1 PROVE \E a \in S : S \subseteq K \cup {a}
  <2>1. PICK a : S \ K = {a}
    BY <1>1, <1>3, FS_Singleton
  <2> QED BY <2>1
<1> QED BY <1>2, <1>3

(* ------------------------- a window of the listing ----------------------- *)

(* The window shows its part of the listing in order, without videos or      *)
(* photos its chip leaves out, and misses nothing of what it knew: from the  *)
(* start the pages it counts, and else whatever comes before its last photo. *)
(* What it shows it counts, among what it knew and what it shows.            *)
Whole(items, page, known, anchor, chip, order, S) ==
  /\ items \in Seq(Dates) /\ page \in Nat \ {0} /\ known \subseteq S
  /\ Sorted(order, items)
  /\ ToSet(items) \subseteq ChipKeeps(S, chip)
  /\ items # <<>> =>
       \A t \in ChipKeeps(known, chip) : InRange(t, order, anchor) => t \in ToSet(items) \/ Ahead(order, Last(items), t)
  /\ anchor = Nil =>
       /\ \A t \in ChipKeeps(known, chip) : Place(order, ChipKeeps(S, chip), t) <= page * GridPage => t \in ToSet(items)
       /\ \A t \in ToSet(items) : Place(order, ChipKeeps(known, chip) \cup ToSet(items), t) <= page * GridPage

LEMMA LastIn ==
  ASSUME NEW T, NEW s \in Seq(T), s # <<>>
  PROVE  Last(s) \in ToSet(s) /\ Last(s) = s[Len(s)] /\ Len(s) \in DOMAIN s
<1>1. Len(s) \in DOMAIN s
  OBVIOUS
<1> QED BY <1>1 DEF Last, ToSet

LEMMA SortedLast ==
  ASSUME NEW order, NEW s \in Seq(Dates), s # <<>>, Sorted(order, s), NEW t \in ToSet(s)
  PROVE  t = Last(s) \/ Ahead(order, t, Last(s))
<1>1. PICK k \in DOMAIN s : s[k] = t
  BY DEF ToSet
<1>2. Len(s) \in DOMAIN s /\ Last(s) = s[Len(s)] /\ DOMAIN s = 1..Len(s) /\ Len(s) \in Nat
  BY LastIn
<1>3. CASE k = Len(s)
  BY <1>1, <1>2, <1>3
<1>4. CASE k < Len(s)
  BY <1>1, <1>2, <1>4 DEF Sorted
<1> QED BY <1>2, <1>3, <1>4

(* The first page starts the window over. *)
LEMMA RebasedWhole ==
  ASSUME NEW S \in SUBSET Dates, NEW chip \in Chips, NEW order, NEW month
  PROVE  Whole(GridSlice(Ranged(S, chip, order, month), 1), 1, S, month, chip, order, S)
<1> DEFINE P == {t \in ChipKeeps(S, chip) : InRange(t, order, month)}
           s == GridSlice(Ranged(S, chip, order, month), 1)
<1>1. P \subseteq ChipKeeps(S, chip) /\ ChipKeeps(S, chip) \subseteq S /\ P \in SUBSET Dates
  BY ChipIs
<1>2. s = GridSlice(InOrder(P, order), 1)
  BY DEF Ranged
<1>3. 1 \in Nat \ {0} /\ 1 * GridPage = GridPage /\ (1 - 1) * GridPage = 0 /\ GridPage \in Nat
  BY PageProduct, GridAssumption
<1>4. month = Nil => P = ChipKeeps(S, chip)
  BY DEF InRange
<1>5. \A t \in ChipKeeps(S, chip) : InRange(t, order, month) => t \in P
  OBVIOUS
<1> HIDE DEF P, s
<1>6. /\ s \in Seq(P) /\ Sorted(order, s)
      /\ \A t \in ToSet(s) : t \in P /\ Place(order, P, t) <= 1 * GridPage
      /\ \A t \in P : (1 - 1) * GridPage < Place(order, P, t) /\ Place(order, P, t) <= 1 * GridPage => t \in ToSet(s)
  BY <1>1, <1>2, <1>3, PageIs
<1>7. \A t \in P : Place(order, P, t) <= GridPage => t \in ToSet(s)
  BY <1>1, <1>3, <1>6, PlaceIs
<1>8. s \in Seq(Dates)
  BY <1>1, <1>6
<1>9. ASSUME s # <<>>, NEW t \in P, t \notin ToSet(s) PROVE Ahead(order, Last(s), t)
  <2>1. Last(s) \in ToSet(s)
    BY <1>8, <1>9, LastIn
  <2>2. Last(s) \in P /\ Place(order, P, Last(s)) <= GridPage
    BY <1>3, <1>6, <2>1
  <2>3. ~(Place(order, P, t) <= GridPage)
    BY <1>7, <1>9
  <2>4. Place(order, P, t) \in Nat /\ Place(order, P, Last(s)) \in Nat
    BY <1>1, <2>2, PlaceIs
  <2>5. Place(order, P, Last(s)) < Place(order, P, t)
    BY <1>3, <2>2, <2>3, <2>4
  <2> QED BY <1>1, <2>2, <2>5, PlaceOrders
<1>10. month = Nil => ChipKeeps(S, chip) \cup ToSet(s) = P
  BY <1>4, <1>6
<1>11. Whole(s, 1, S, month, chip, order, S)
  BY <1>1, <1>3, <1>4, <1>5, <1>6, <1>7, <1>8, <1>9, <1>10 DEF Whole
<1> QED BY <1>11 DEF s

(* Photos that arrive move the others to later places. *)
LEMMA ArrivesWhole ==
  ASSUME NEW S \in SUBSET Dates, NEW T \in SUBSET Dates, S \subseteq T, NEW chip \in Chips, NEW order,
         NEW items, NEW page, NEW known, NEW anchor, Whole(items, page, known, anchor, chip, order, S)
  PROVE  Whole(items, page, known, anchor, chip, order, T)
<1>1. ChipKeeps(S, chip) \subseteq ChipKeeps(T, chip) /\ ChipKeeps(T, chip) \subseteq T /\ known \subseteq T
  BY ChipIs DEF Whole
<1>2. ASSUME NEW t \in ChipKeeps(known, chip), anchor = Nil, Place(order, ChipKeeps(T, chip), t) <= page * GridPage
      PROVE t \in ToSet(items)
  <2>1. ChipKeeps(known, chip) \subseteq ChipKeeps(S, chip)
    BY ChipIs DEF Whole
  <2>2. Place(order, ChipKeeps(S, chip), t) <= Place(order, ChipKeeps(T, chip), t)
    BY <1>1, <2>1, PlaceGrows
  <2>3. Place(order, ChipKeeps(S, chip), t) \in Nat /\ Place(order, ChipKeeps(T, chip), t) \in Nat
    BY <1>1, <2>1, PlaceIs
  <2>4. page * GridPage \in Nat
    BY PageProduct DEF Whole
  <2>5. Place(order, ChipKeeps(S, chip), t) <= page * GridPage
    BY <1>2, <2>2, <2>3, <2>4
  <2> QED BY <1>2, <2>5 DEF Whole
<1> QED BY <1>1, <1>2 DEF Whole

(* What an answer adds: the photos of its page that the grid has not. *)
LEMMA UnlistedIs ==
  ASSUME NEW order, NEW ts \in Seq(Dates), Sorted(order, ts), NEW g, NEW new, new = Unlisted(g, ts)
  PROVE  /\ new \in Seq(Dates) /\ Sorted(order, new)
         /\ \A t : t \in ToSet(new) <=> t \in ToSet(ts) /\ t \notin ToSet(g.items)
<1> DEFINE I == {i \in DOMAIN ts : ts[i] \notin ToSet(g.items)}
<1>1. new = Sifted(ts, I) /\ I \in SUBSET DOMAIN ts
  BY DEF Unlisted
<1>2. \A i \in I : i \in DOMAIN ts /\ ts[i] \notin ToSet(g.items)
  OBVIOUS
<1>3. \A i \in DOMAIN ts : ts[i] \notin ToSet(g.items) => i \in I
  OBVIOUS
<1> HIDE DEF I
<1>4. new \in Seq(Dates) /\ Sorted(order, new)
  BY <1>1, SiftedSorted
<1>5. /\ \A n \in DOMAIN new : \E i \in I : new[n] = ts[i]
      /\ \A i \in I : \E n \in DOMAIN new : new[n] = ts[i]
  BY <1>1, SiftedFrom
<1>6. ASSUME NEW t \in ToSet(new) PROVE t \in ToSet(ts) /\ t \notin ToSet(g.items)
  <2>1. PICK n \in DOMAIN new : new[n] = t
    BY <1>6 DEF ToSet
  <2>2. PICK i \in I : t = ts[i]
    BY <1>5, <2>1
  <2> QED BY <1>2, <2>2 DEF ToSet
<1>7. ASSUME NEW t \in ToSet(ts), t \notin ToSet(g.items) PROVE t \in ToSet(new)
  <2>1. PICK i \in DOMAIN ts : ts[i] = t
    BY <1>7 DEF ToSet
  <2>2. i \in I
    BY <1>3, <1>7, <2>1
  <2>3. PICK n \in DOMAIN new : new[n] = t
    BY <1>5, <2>1, <2>2
  <2> QED BY <2>3 DEF ToSet
<1> QED BY <1>4, <1>6, <1>7

LEMMA JoinedSet ==
  ASSUME NEW T, NEW s \in Seq(T), NEW u \in Seq(T)
  PROVE  /\ \A x : x \in ToSet(s \o u) <=> x \in ToSet(s) \/ x \in ToSet(u)
         /\ s \o u \in Seq(T)
         /\ s \o u # <<>> => Last(s \o u) = IF u # <<>> THEN Last(u) ELSE Last(s)
         /\ u = <<>> => s \o u = s
<1> DEFINE w == s \o u
<1>1. w \in Seq(T) /\ Len(w) = Len(s) + Len(u) /\ Len(s) \in Nat /\ Len(u) \in Nat
  OBVIOUS
<1>2. /\ \A k \in DOMAIN w : (k \in DOMAIN s /\ w[k] = s[k]) \/ \E m \in DOMAIN u : w[k] = u[m]
      /\ \A k \in DOMAIN s : k \in DOMAIN w /\ w[k] = s[k]
      /\ \A m \in DOMAIN u : Len(s) + m \in DOMAIN w /\ w[Len(s) + m] = u[m]
  BY JoinedAs
<1>3. u = <<>> => w = s
  OBVIOUS
<1> HIDE DEF w
<1>4. \A x : x \in ToSet(w) <=> x \in ToSet(s) \/ x \in ToSet(u)
  BY <1>2 DEF ToSet
<1>5. ASSUME u # <<>> PROVE Last(w) = Last(u)
  <2>1. Len(u) \in DOMAIN u
    BY <1>1, <1>5
  <2> QED BY <1>1, <1>2, <2>1 DEF Last
<1> QED BY <1>1, <1>3, <1>4, <1>5 DEF w

LEMMA JoinedSorted ==
  ASSUME NEW order, NEW s \in Seq(Dates), NEW u \in Seq(Dates), Sorted(order, s), Sorted(order, u),
         \A x \in ToSet(s), y \in ToSet(u) : Ahead(order, x, y)
  PROVE  Sorted(order, s \o u)
<1> DEFINE w == s \o u
<1>1. Len(s) \in Nat /\ DOMAIN s = 1..Len(s) /\ Len(u) \in Nat /\ DOMAIN u = 1..Len(u) /\ DOMAIN w \subseteq Nat
  OBVIOUS
<1>2. \A k \in DOMAIN w : \/ k \in DOMAIN s /\ w[k] = s[k]
                          \/ k \notin DOMAIN s /\ \E m \in DOMAIN u : w[k] = u[m] /\ k = Len(s) + m
  BY JoinedAs
<1> HIDE DEF w
<1>3. ASSUME NEW i \in DOMAIN w, NEW k \in DOMAIN w, i < k PROVE Ahead(order, w[i], w[k])
  <2>1. CASE k \in DOMAIN s
    <3>1. i \in DOMAIN s
      BY <1>1, <1>2, <1>3, <2>1
    <3> QED BY <1>2, <1>3, <2>1, <3>1 DEF Sorted
  <2>2. CASE k \notin DOMAIN s
    <3>1. PICK m \in DOMAIN u : w[k] = u[m] /\ k = Len(s) + m
      BY <1>2, <2>2
    <3>2. CASE i \in DOMAIN s
      BY <1>2, <3>1, <3>2 DEF ToSet
    <3>3. CASE i \notin DOMAIN s
      <4>1. PICK l \in DOMAIN u : w[i] = u[l] /\ i = Len(s) + l
        BY <1>2, <3>3
      <4>2. l < m
        BY <1>1, <1>3, <3>1, <4>1
      <4> QED BY <3>1, <4>1, <4>2 DEF Sorted
    <3> QED BY <3>2, <3>3
  <2> QED BY <2>1, <2>2
<1> QED BY <1>3 DEF Sorted, w

(* The next page, or the last one again, is added to a window from the     *)
(* start: the one photo that arrived since is no reason to add others      *)
(* before the window's last.                                               *)
LEMMA ExtendedWhole ==
  ASSUME NEW S \in SUBSET Dates, NEW chip \in Chips, NEW order, NEW items, NEW page, NEW known, NEW g,
         g.items = items, Whole(items, page, known, Nil, chip, order, S),
         NEW n, n \in {page, page + 1},
         Cardinality(S \ known) = 0 \/ (Cardinality(S \ known) = 1 /\ n = page + 1),
         NEW new, new = Unlisted(g, GridSlice(Ranged(S, chip, order, Nil), n))
  PROVE  Whole(items \o new, n, known, Nil, chip, order, S)
<1> DEFINE P == ChipKeeps(S, chip)
           L == ChipKeeps(known, chip)
           slice == GridSlice(Ranged(S, chip, order, Nil), n)
           before == page * GridPage
           upto == n * GridPage
<1>1. /\ items \in Seq(Dates) /\ page \in Nat \ {0} /\ known \subseteq S /\ Sorted(order, items)
      /\ \A t \in ToSet(items) : t \in P
      /\ items # <<>> => \A t \in L : t \in ToSet(items) \/ Ahead(order, Last(items), t)
      /\ \A t \in L : Place(order, P, t) <= before => t \in ToSet(items)
      /\ \A t \in ToSet(items) : Place(order, L \cup ToSet(items), t) <= before
  <2>1. \A t : InRange(t, order, Nil)
    BY DEF InRange
  <2> QED BY <2>1 DEF Whole
<1>2. n \in Nat \ {0} /\ before \in Nat /\ upto \in Nat /\ GridPage \in Nat \ {0}
      /\ (n = page \/ (n = page + 1 /\ upto = before + GridPage /\ (n - 1) * GridPage = before)) /\ (n = page => upto = before)
  <2>1. n \in Nat \ {0} /\ n - 1 \in Nat
    BY <1>1
  <2>2. before \in Nat /\ upto \in Nat
    BY <1>1, <2>1, PageProduct
  <2>3. CASE n = page
    BY <2>1, <2>2, <2>3, GridAssumption
  <2>4. CASE n = page + 1
    <3>1. (page + 1) * GridPage = page * GridPage + GridPage /\ (page + 1) - 1 = page
      BY <1>1, PageProduct
    <3>2. n - 1 = page
      BY <2>4, <3>1
    <3> QED BY <2>1, <2>2, <2>4, <3>1, <3>2, GridAssumption
  <2> QED BY <2>3, <2>4
<1>3. L \subseteq P /\ P \in SUBSET Dates
  BY <1>1, ChipIs
<1>4. slice = GridSlice(InOrder(P, order), n)
  <2>1. {t \in P : InRange(t, order, Nil)} = P
    BY DEF InRange
  <2> QED BY <2>1 DEF Ranged
<1>5. /\ Cardinality(S \ known) = 0 => P = L
      /\ Cardinality(S \ known) = 1 => \E a \in S : P \subseteq L \cup {a}
  <2>1. known \in SUBSET S
    BY <1>1
  <2>2. Cardinality(S \ known) = 1 => \E a \in S : S \subseteq known \cup {a}
    BY <2>1, AtMostOneMore
  <2>3. \A a : S \subseteq known \cup {a} => P \subseteq L \cup {a}
    BY <2>1, ChipIs
  <2>4. Cardinality(S \ known) = 0 => known = S
    BY <2>1, AtMostOneMore
  <2> QED BY <2>2, <2>3, <2>4
<1> HIDE DEF P, L, slice, before, upto
<1>6. /\ slice \in Seq(P) /\ Sorted(order, slice)
      /\ \A t \in ToSet(slice) : t \in P /\ (n - 1) * GridPage < Place(order, P, t) /\ Place(order, P, t) <= upto
      /\ \A t \in P : (n - 1) * GridPage < Place(order, P, t) /\ Place(order, P, t) <= upto => t \in ToSet(slice)
  <2>1. n \in Nat \ {0} /\ P \in SUBSET Dates
    BY <1>2, <1>3
  <2>2. /\ slice \in Seq(P) /\ Sorted(order, slice)
        /\ \A t \in ToSet(slice) : t \in P /\ (n - 1) * GridPage < Place(order, P, t) /\ Place(order, P, t) <= n * GridPage
        /\ \A t \in P : (n - 1) * GridPage < Place(order, P, t) /\ Place(order, P, t) <= n * GridPage => t \in ToSet(slice)
    BY <1>4, <2>1, PageIs, Zenon
  <2> QED BY <2>2 DEF upto
<1>7. slice \in Seq(Dates)
  BY <1>3, <1>6
<1>8. /\ new \in Seq(Dates) /\ Sorted(order, new)
      /\ \A t : t \in ToSet(new) <=> t \in ToSet(slice) /\ t \notin ToSet(items)
  <2>1. new = Unlisted(g, slice) /\ Sorted(order, slice)
    BY <1>6 DEF slice
  <2>2. /\ new \in Seq(Dates) /\ Sorted(order, new)
        /\ \A t : t \in ToSet(new) <=> t \in ToSet(slice) /\ t \notin ToSet(g.items)
    BY <1>7, <2>1, UnlistedIs, Zenon
  <2> QED BY <2>2
<1>9. \A t \in P : Place(order, P, t) \in Nat
  BY <1>3, PlaceIs
<1>10. \A t \in L : Place(order, P, t) <= upto => t \in ToSet(items) \/ t \in ToSet(slice)
  <2> SUFFICES ASSUME NEW t \in L, Place(order, P, t) <= upto, t \notin ToSet(items) PROVE t \in ToSet(slice)
    OBVIOUS
  <2>1. t \in P /\ Place(order, P, t) \in Nat /\ ~(Place(order, P, t) <= before)
    BY <1>1, <1>3, <1>9
  <2>2. n # page
    BY <1>2, <2>1
  <2>3. (n - 1) * GridPage < Place(order, P, t)
    BY <1>2, <2>1, <2>2
  <2> QED BY <1>6, <2>1, <2>3
(* What is new comes after what is there. *)
<1>11. ASSUME NEW x \in ToSet(items), NEW y \in ToSet(new) PROVE Ahead(order, x, y)
  <2>1. items # <<>> /\ x \in P /\ y \in P /\ y \notin ToSet(items) /\ y \in ToSet(slice)
    <3>1. DOMAIN items # {}
      BY DEF ToSet
    <3>2. items # <<>>
      BY <3>1
    <3> QED BY <1>1, <1>6, <1>8, <3>2
  <2>2. CASE y \in L
    <3>1. Ahead(order, Last(items), y)
      BY <1>1, <2>1, <2>2
    <3>2. x = Last(items) \/ Ahead(order, x, Last(items))
      BY <1>1, <2>1, SortedLast
    <3>3. Last(items) \in Dates /\ x \in Dates /\ y \in Dates
      BY <1>1, <1>3, <2>1, LastIn
    <3> QED BY <3>1, <3>2, <3>3, AheadOrders
  <2>3. CASE y \notin L
    <3>1. P # L
      BY <2>1, <2>3
    <3>2. Cardinality(S \ known) = 1 /\ n = page + 1
      BY <1>5, <3>1
    <3>3. PICK a \in S : P \subseteq L \cup {a}
      BY <1>5, <3>2
    <3>4. y = a /\ x \in L
      BY <1>1, <2>1, <2>3, <3>3
    <3>5. ToSet(items) \subseteq L
      BY <1>1, <2>1, <3>3, <3>4
    <3>6. Place(order, L, x) <= before
      <4>1. L \cup ToSet(items) = L
        BY <3>5
      <4> QED BY <1>1, <4>1
    <3>7. Place(order, P, x) <= Place(order, L, x) + 1
      BY <1>3, <2>1, <3>3, <3>4, PlaceOneMore
    <3>8. before < Place(order, P, y) /\ Place(order, P, y) \in Nat /\ Place(order, P, x) \in Nat /\ Place(order, L, x) \in Nat
      <4>1. n # page
        BY <1>1, <3>2
      <4>2. (n - 1) * GridPage = before
        BY <1>2, <4>1
      <4>3. Place(order, L, x) \in Nat
        BY <1>3, <3>4, PlaceIs
      <4> QED BY <1>6, <1>9, <2>1, <4>2, <4>3
    <3>9. ~(Place(order, P, y) < Place(order, P, x)) /\ x # y
      BY <1>2, <2>1, <3>6, <3>7, <3>8
    <3>10. x \in Dates /\ y \in Dates
      BY <1>3, <2>1
    <3>11. ~Ahead(order, y, x)
      BY <1>3, <2>1, <3>9, PlaceOrders
    <3> QED BY <3>9, <3>10, <3>11, AheadOrders
  <2> QED BY <2>2, <2>3
<1>12. /\ \A t : t \in ToSet(items \o new) <=> t \in ToSet(items) \/ t \in ToSet(new)
       /\ items \o new \in Seq(Dates) /\ Sorted(order, items \o new)
       /\ items \o new # <<>> => Last(items \o new) = IF new # <<>> THEN Last(new) ELSE Last(items)
       /\ new = <<>> => items \o new = items
  BY <1>1, <1>8, <1>11, JoinedSet, JoinedSorted
<1> DEFINE all == items \o new
<1> HIDE DEF all
<1>13. \A t \in ToSet(all) : t \in P
  BY <1>1, <1>6, <1>8, <1>12 DEF all
<1>14. \A t \in L : Place(order, P, t) <= upto => t \in ToSet(all)
  BY <1>8, <1>10, <1>12 DEF all
<1>15. ASSUME all # <<>>, NEW t \in L, t \notin ToSet(all) PROVE Ahead(order, Last(all), t)
  <2>1. CASE new = <<>>
    BY <1>1, <1>12, <1>15, <2>1 DEF all
  <2>2. CASE new # <<>>
    <3>1. Last(all) = Last(new) /\ Last(new) \in ToSet(new)
      BY <1>8, <1>12, <1>15, <2>2, LastIn DEF all
    <3>2. Last(all) \in P /\ Place(order, P, Last(all)) <= upto
      BY <1>6, <1>8, <3>1
    <3>3. t \in P /\ ~(Place(order, P, t) <= upto)
      BY <1>3, <1>14, <1>15
    <3>4. Place(order, P, Last(all)) < Place(order, P, t)
      BY <1>2, <1>9, <3>2, <3>3
    <3> QED BY <1>3, <3>2, <3>3, <3>4, PlaceOrders
  <2> QED BY <2>1, <2>2
<1>16. ASSUME NEW t \in ToSet(all) PROVE Place(order, L \cup ToSet(all), t) <= upto
  <2>1. L \cup ToSet(all) \subseteq P /\ t \in P
    BY <1>3, <1>13
  <2>2. Place(order, L \cup ToSet(all), t) <= Place(order, P, t) /\ Place(order, L \cup ToSet(all), t) \in Nat
    BY <1>3, <1>16, <2>1, PlaceGrows, PlaceIs
  <2>3. CASE t \in ToSet(new)
    <3>1. Place(order, P, t) <= upto
      BY <1>6, <1>8, <2>3
    <3> QED BY <1>2, <1>9, <2>1, <2>2, <3>1
  <2>4. CASE t \in ToSet(items)
    <3> DEFINE M == L \cup ToSet(items)
    <3>1. Place(order, M, t) <= before
      BY <1>1, <2>4
    <3>2. M \subseteq P /\ t \in M /\ L \subseteq M
      BY <1>1, <1>3, <2>4
    <3> HIDE DEF M
    <3>3. Place(order, M, t) \in Nat /\ M \in SUBSET Dates
      BY <1>3, <3>2, PlaceIs
    <3>4. CASE P = L
      <4>1. P = M
        BY <3>2, <3>4
      <4>2. before <= upto
        BY <1>2
      <4> QED BY <1>2, <1>9, <2>1, <2>2, <3>1, <4>1, <4>2
    <3>5. CASE P # L
      <4>1. Cardinality(S \ known) = 1 /\ n = page + 1
        BY <1>5, <3>5
      <4>2. PICK a \in S : P \subseteq L \cup {a}
        BY <1>5, <4>1
      <4>3. P \subseteq M \cup {a}
        BY <3>2, <4>2
      <4>4. Place(order, P, t) <= Place(order, M, t) + 1
        BY <2>1, <3>2, <3>3, <4>3, PlaceOneMore
      <4>5. upto = before + GridPage
        BY <1>1, <1>2, <4>1
      <4> QED BY <1>2, <1>9, <2>1, <2>2, <3>1, <3>3, <4>4, <4>5
    <3> QED BY <3>4, <3>5
  <2> QED BY <1>12, <1>16, <2>3, <2>4 DEF all
<1>17. all \in Seq(Dates) /\ Sorted(order, all)
  BY <1>12 DEF all
<1>18. ToSet(all) \subseteq P
  BY <1>13
<1>19. Whole(all, n, known, Nil, chip, order, S)
  BY <1>1, <1>2, <1>14, <1>15, <1>16, <1>17, <1>18 DEF Whole, P, L, upto
<1> QED BY <1>19 DEF all

(* ------------------------ the requests of a grid ------------------------- *)

RailMonths == {MonthOf(t) : t \in Instants}
LoadJobs == [op : {"load"}, live : BOOLEAN, page : Nat \ {0}, chip : Chips, order : Orders, refresh : BOOLEAN]
FirstJobs == [op : {"first"}, live : BOOLEAN, chip : Chips, order : Orders]
BucketJobs == [op : {"buckets"}, live : BOOLEAN, chip : Chips]
JumpJobs == [op : {"jump"}, live : BOOLEAN, month : RailMonths, chip : Chips, order : Orders]
EraseJobs == [op : {"delete"}, live : BOOLEAN, photo : Dates, assets : Seq(Dates), index : Nat \ {0}]
GridJobs == LoadJobs \cup FirstJobs \cup BucketJobs \cup JumpJobs \cup EraseJobs
(* Its answer starts the window over. *)
Restarts(j) == j.live /\ (j.op = "first" \/ (j.op = "load" /\ j.page = 1))

LEMMA GridJobIs ==
  ASSUME NEW j \in GridJobs
  PROVE  /\ j.op = "load" => j \in LoadJobs
         /\ j.op = "first" => j \in FirstJobs
         /\ j.op = "buckets" => j \in BucketJobs
         /\ j.op = "jump" => j \in JumpJobs
         /\ j.op = "delete" => j \in EraseJobs
         /\ j.live \in BOOLEAN
BY DEF GridJobs, LoadJobs, FirstJobs, BucketJobs, JumpJobs, EraseJobs

LEMMA PageAskedIs ==
  ASSUME NEW g, g.chip \in Chips, g.order \in Orders, NEW n \in Nat \ {0}
  PROVE  /\ PageAsked(n, g) \in LoadJobs /\ PageAsked(n, g).live /\ PageAsked(n, g).page = n
         /\ PageAsked(n, g).chip = g.chip /\ PageAsked(n, g).order = g.order
BY DEF PageAsked, LoadJobs

LEMMA OthersAskedAre ==
  ASSUME NEW g, g.chip \in Chips, g.order \in Orders
  PROVE  /\ BucketsAsked(g) \in BucketJobs
         /\ EffectAsked(g) \in FirstJobs /\ EffectAsked(g).live
         /\ EffectAsked(g).chip = g.chip /\ EffectAsked(g).order = g.order
         /\ \A month \in RailMonths : JumpAsked(month, g) \in JumpJobs
BY DEF BucketsAsked, BucketJobs, EffectAsked, FirstJobs, JumpAsked, JumpJobs

Asked == [photo : Dates, assets : Seq(Dates), index : Nat \ {0}]
LEMMA RemovalAskedIs == ASSUME NEW a \in Asked PROVE RemovalAsked(a) \in EraseJobs
BY DEF RemovalAsked, Asked, EraseJobs

LEMMA ReloadsAre ==
  ASSUME NEW g, g.chip \in Chips, g.order \in Orders, NEW js, js = GridReloads(g)
  PROVE  /\ js \in Seq(GridJobs) /\ \A i \in DOMAIN js : js[i].op # "first"
         /\ Len(js) \in DOMAIN js /\ js[Len(js)] = PageAsked(1, g) /\ Restarts(PageAsked(1, g))
         /\ \A i \in DOMAIN js : i # Len(js) => js[i] \in BucketJobs
<1>1. PICK p : p = PageAsked(1, g)
  OBVIOUS
<1>2. PICK b : b = BucketsAsked(g)
  OBVIOUS
<1>3. 1 \in Nat \ {0}
  OBVIOUS
<1>4. p \in LoadJobs /\ p.live /\ p.page = 1
  BY <1>1, <1>3, PageAskedIs
<1>5. b \in BucketJobs
  BY <1>2, OthersAskedAre
<1>6. p \in GridJobs /\ b \in GridJobs /\ p.op = "load" /\ b.op = "buckets" /\ Restarts(p)
  BY <1>4, <1>5 DEF GridJobs, LoadJobs, BucketJobs, Restarts
<1>7. js = <<b, p>> \/ js = <<p>>
  BY <1>1, <1>2 DEF GridReloads
<1>8. CASE js = <<b, p>>
  BY <1>1, <1>5, <1>6, <1>8
<1>9. CASE js = <<p>>
  BY <1>1, <1>6, <1>9
<1> QED BY <1>7, <1>8, <1>9

(* What the requests of a grid say of its filter and of a new start. *)
FirstsFit(g, js) == \A i \in DOMAIN js : js[i].op = "first" /\ js[i].live => js[i].chip = g.chip /\ js[i].order = g.order

LEMMA StartsOverIs == ASSUME NEW js PROVE StartsOver(js) <=> \E i \in DOMAIN js : Restarts(js[i])
BY DEF StartsOver, Restarts

LEMMA GridJobsJoined ==
  ASSUME NEW js \in Seq(GridJobs), NEW new \in Seq(GridJobs), NEW g, FirstsFit(g, js), FirstsFit(g, new)
  PROVE  /\ js \o new \in Seq(GridJobs) /\ FirstsFit(g, js \o new)
         /\ StartsOver(js) \/ StartsOver(new) => StartsOver(js \o new)
<1> DEFINE all == js \o new
<1>1. all \in Seq(GridJobs)
  OBVIOUS
<1>2. /\ \A k \in DOMAIN all : (k \in DOMAIN js /\ all[k] = js[k]) \/ \E m \in DOMAIN new : all[k] = new[m]
      /\ \A k \in DOMAIN js : k \in DOMAIN all /\ all[k] = js[k]
      /\ \A m \in DOMAIN new : Len(js) + m \in DOMAIN all /\ all[Len(js) + m] = new[m]
  BY JoinedAs
<1> HIDE DEF all
<1>3. FirstsFit(g, all)
  BY <1>2 DEF FirstsFit
<1>4. StartsOver(js) \/ StartsOver(new) => StartsOver(all)
  BY <1>2, StartsOverIs
<1> QED BY <1>1, <1>3, <1>4 DEF all

LEMMA GridJobsLess ==
  ASSUME NEW js \in Seq(GridJobs), NEW i \in DOMAIN js, NEW g, FirstsFit(g, js)
  PROVE  /\ RemoveAt(js, i) \in Seq(GridJobs) /\ FirstsFit(g, RemoveAt(js, i))
         /\ StartsOver(js) => StartsOver(RemoveAt(js, i)) \/ Restarts(js[i])
<1> DEFINE rest == RemoveAt(js, i)
<1>1. rest \in Seq(GridJobs)
  BY RemovedFrom
<1>2. PICK f \in [DOMAIN rest -> DOMAIN js \ {i}] :
        /\ \A k \in DOMAIN rest : rest[k] = js[f[k]]
        /\ \A m \in DOMAIN js \ {i} : \E k \in DOMAIN rest : f[k] = m
  BY RemovedFrom
<1> HIDE DEF rest
<1>3. \A k \in DOMAIN rest : f[k] \in DOMAIN js /\ rest[k] = js[f[k]]
  BY <1>2
<1>4. \A m \in DOMAIN js : m = i \/ \E k \in DOMAIN rest : rest[k] = js[m]
  BY <1>2
<1>5. FirstsFit(g, rest)
  BY <1>3 DEF FirstsFit
<1>6. StartsOver(js) => StartsOver(rest) \/ Restarts(js[i])
  BY <1>4, StartsOverIs
<1> QED BY <1>1, <1>5, <1>6 DEF rest

(* A change of the filter gives the effect's request up: it fits any filter. *)
LEMMA FirstsGivenUp ==
  ASSUME NEW js \in Seq(GridJobs), NEW g
  PROVE  Orphaned(js, {"first"}) \in Seq(GridJobs) /\ FirstsFit(g, Orphaned(js, {"first"}))
<1> DEFINE left(j) == IF j.op \in {"first"} THEN [j EXCEPT !.live = FALSE] ELSE j
           js2 == [k \in DOMAIN js |-> left(js[k])]
<1>1. Orphaned(js, {"first"}) = js2
  BY DEF Orphaned
<1>2. ASSUME NEW j \in GridJobs PROVE left(j) \in GridJobs /\ (left(j).op = "first" => ~left(j).live)
  <2>1. CASE j.op = "first"
    <3>1. j \in FirstJobs
      BY <2>1, GridJobIs
    <3>2. [j EXCEPT !.live = FALSE] \in FirstJobs /\ ~[j EXCEPT !.live = FALSE].live
      BY <3>1 DEF FirstJobs
    <3> QED BY <2>1, <3>2 DEF GridJobs
  <2>2. CASE j.op # "first"
    BY <2>2
  <2> QED BY <2>1, <2>2
<1>3. Len(js) \in Nat /\ DOMAIN js = 1..Len(js) /\ \A k \in DOMAIN js : js[k] \in GridJobs
  BY EntriesIn
<1>4. DOMAIN js2 = DOMAIN js /\ \A k \in DOMAIN js : js2[k] = left(js[k])
  OBVIOUS
<1>5. js2 \in [1..Len(js) -> GridJobs]
  <2>1. \A k \in DOMAIN js : left(js[k]) \in GridJobs
    BY <1>2, <1>3
  <2> HIDE DEF left
  <2> QED BY <1>3, <2>1
<1> HIDE DEF left, js2
<1>6. js2 \in Seq(GridJobs)
  BY <1>3, <1>5
<1>7. FirstsFit(g, js2)
  BY <1>2, <1>3, <1>4 DEF FirstsFit
<1> QED BY <1>1, <1>6, <1>7

(* ----------------------- what holds in every state ----------------------- *)

GridFields == {"chip", "order", "status", "items", "page", "anchor", "known", "slips"}
GridKept(g) == /\ GridFields \subseteq DOMAIN g
               /\ g.chip \in Chips /\ g.order \in Orders /\ g.items \in Seq(Dates) /\ g.page \in Nat
SameWindow(g, h) == /\ GridFields \subseteq DOMAIN g
                    /\ g.chip = h.chip /\ g.order = h.order /\ g.status = h.status /\ g.items = h.items
                    /\ g.page = h.page /\ g.anchor = h.anchor /\ g.known = h.known /\ g.slips = h.slips
Window(g, S) == Whole(g.items, g.page, g.known, g.anchor, g.chip, g.order, S)

Viewings == [visible : BOOLEAN, closing : BOOLEAN, assets : Seq(Dates), index : Nat \ {0},
             asking : {Nil} \cup Asked, slipped : BOOLEAN]
ViewingOk(v, S) ==
  /\ v \in Viewings
  /\ v.assets # <<>> => v.index \in DOMAIN v.assets
  /\ v.visible /\ ~v.slipped => ToSet(v.assets) \subseteq S
  /\ v.visible /\ v.assets = <<>> => v.closing

(* A grid that is ready shows a whole window, unless a slip is noted, the    *)
(* viewer is over it or an answer on its way will start the window over.     *)
GridInv ==
  /\ stock \in SUBSET Dates /\ jobs \in Seq(GridJobs)
  /\ GridKept(grid) /\ FirstsFit(grid, jobs) /\ ViewingOk(viewing, stock)
  /\ (grid.status = "ready" /\ grid.slips = {} /\ ~viewing.visible /\ ~StartsOver(jobs)) => Window(grid, stock)

LEMMA FieldApart ==
  ASSUME NEW g, GridFields \subseteq DOMAIN g, NEW x, x \notin GridFields, NEW e
  PROVE  SameWindow([g EXCEPT ![x] = e], g)
BY DEF GridFields, SameWindow

LEMMA SameWindowItself == ASSUME NEW g, GridFields \subseteq DOMAIN g PROVE SameWindow(g, g)
BY DEF SameWindow

(* A step that leaves the window as it is, adds photos or none, and never    *)
(* takes a new start or the viewer away that kept the window from counting.  *)
LEMMA WindowStays ==
  ASSUME GridInv, SameWindow(grid', grid), stock' \in SUBSET Dates, stock \subseteq stock',
         jobs' \in Seq(GridJobs), FirstsFit(grid, jobs'), ViewingOk(viewing', stock'),
         ~viewing'.visible /\ ~StartsOver(jobs') => ~viewing.visible /\ ~StartsOver(jobs)
  PROVE  GridInv'
<1>1. GridKept(grid')
  BY DEF GridInv, GridKept, SameWindow
<1>2. FirstsFit(grid', jobs')
  BY DEF FirstsFit, SameWindow
<1>3. ASSUME grid'.status = "ready", grid'.slips = {}, ~viewing'.visible, ~StartsOver(jobs') PROVE Window(grid', stock')
  <2>1. Window(grid, stock)
    BY <1>3 DEF GridInv, SameWindow
  <2>2. grid.chip \in Chips /\ stock \in SUBSET Dates
    BY DEF GridInv, GridKept
  <2>3. Window(grid, stock')
    BY <2>1, <2>2, ArrivesWhole DEF Window
  <2> QED BY <2>3 DEF Window, SameWindow
<1>4. GridInv' <=> /\ stock' \in SUBSET Dates /\ jobs' \in Seq(GridJobs)
                   /\ GridKept(grid') /\ FirstsFit(grid', jobs') /\ ViewingOk(viewing', stock')
                   /\ (grid'.status = "ready" /\ grid'.slips = {} /\ ~viewing'.visible /\ ~StartsOver(jobs')) => Window(grid', stock')
  BY DEF GridInv, GridKept, FirstsFit, ViewingOk, StartsOver, Window
<1> QED BY <1>1, <1>2, <1>3, <1>4

LEMMA GridNow ==
  ASSUME GridInv
  PROVE  /\ stock \in SUBSET Dates /\ jobs \in Seq(GridJobs) /\ FirstsFit(grid, jobs)
         /\ GridFields \subseteq DOMAIN grid /\ grid.chip \in Chips /\ grid.order \in Orders
         /\ grid.items \in Seq(Dates) /\ grid.page \in Nat
         /\ viewing \in Viewings /\ ViewingOk(viewing, stock)
         /\ Len(jobs) \in Nat /\ \A i \in DOMAIN jobs : jobs[i] \in GridJobs
BY EntriesIn DEF GridInv, GridKept, ViewingOk

LEMMA NoFirsts == ASSUME NEW js, NEW g, \A i \in DOMAIN js : js[i].op # "first" PROVE FirstsFit(g, js)
BY DEF FirstsFit

(* Requests begin; what the viewer shows counts no less. *)
LEMMA BegunStays ==
  ASSUME GridInv, SameWindow(grid', grid), stock' = stock, NEW new \in Seq(GridJobs), \A i \in DOMAIN new : new[i].op # "first",
         jobs' = jobs \o new, ViewingOk(viewing', stock),
         (viewing.visible => viewing'.visible) \/ StartsOver(new)
  PROVE  GridInv'
<1>1. jobs' \in Seq(GridJobs) /\ FirstsFit(grid, jobs') /\ (StartsOver(jobs) \/ StartsOver(new) => StartsOver(jobs'))
  BY GridNow, NoFirsts, GridJobsJoined
<1>2. stock' \in SUBSET Dates /\ stock \subseteq stock' /\ ViewingOk(viewing', stock')
  BY GridNow
<1> QED BY <1>1, <1>2, WindowStays

LEMMA EndedStays ==
  ASSUME GridInv, SameWindow(grid', grid), stock' = stock, viewing' = viewing, NEW i \in DOMAIN jobs,
         jobs' = RemoveAt(jobs, i), ~Restarts(jobs[i])
  PROVE  GridInv'
<1>1. jobs' \in Seq(GridJobs) /\ FirstsFit(grid, jobs') /\ (StartsOver(jobs) => StartsOver(jobs'))
  BY GridNow, GridJobsLess
<1>2. stock' \in SUBSET Dates /\ stock \subseteq stock' /\ ViewingOk(viewing', stock') /\ viewing'.visible = viewing.visible
  BY GridNow
<1> QED BY <1>1, <1>2, WindowStays

(* The window is another one, and if it counts it is whole. *)
LEMMA WindowRenewed ==
  ASSUME GridInv, stock' = stock, viewing' = viewing, GridKept(grid'), jobs' \in Seq(GridJobs), FirstsFit(grid', jobs'),
         grid'.status = "ready" /\ grid'.slips = {} /\ ~viewing.visible /\ ~StartsOver(jobs') => Window(grid', stock)
  PROVE  GridInv'
<1>1. GridInv' <=> /\ stock' \in SUBSET Dates /\ jobs' \in Seq(GridJobs)
                   /\ GridKept(grid') /\ FirstsFit(grid', jobs') /\ ViewingOk(viewing', stock')
                   /\ (grid'.status = "ready" /\ grid'.slips = {} /\ ~viewing'.visible /\ ~StartsOver(jobs')) => Window(grid', stock')
  BY DEF GridInv, GridKept, FirstsFit, ViewingOk, StartsOver, Window
<1> QED BY <1>1, GridNow

LEMMA SliceIs ==
  ASSUME NEW S \in SUBSET Dates, NEW chip \in Chips, NEW order, NEW month, NEW n \in Nat \ {0},
         NEW s, s = GridSlice(Ranged(S, chip, order, month), n)
  PROVE  s \in Seq(Dates) /\ Sorted(order, s)
<1> DEFINE P == {t \in ChipKeeps(S, chip) : InRange(t, order, month)}
<1>1. P \in SUBSET Dates
  BY ChipIs
<1>2. s = GridSlice(InOrder(P, order), n)
  BY DEF Ranged
<1> HIDE DEF P
<1>3. s \in Seq(P) /\ Sorted(order, s)
  BY <1>1, <1>2, PageIs
<1> QED BY <1>1, <1>3

LEMMA RebasedIs ==
  ASSUME GridInv, NEW j, j.chip \in Chips, j.order \in Orders, NEW month, NEW w,
         w = Rebased(grid, j, Ranged(stock, j.chip, j.order, month), month)
  PROVE  /\ GridKept(w) /\ w.chip = grid.chip /\ w.order = grid.order
         /\ w.slips = {} /\ (j.op = "first" => AsksCurrent(j)) => Window(w, stock)
<1> DEFINE s == GridSlice(Ranged(stock, j.chip, j.order, month), 1)
<1>1. Whole(s, 1, stock, month, j.chip, j.order, stock)
  BY GridNow, RebasedWhole
<1>2. s \in Seq(Dates)
  BY <1>1 DEF Whole
<1>3. /\ GridFields \subseteq DOMAIN w /\ w.chip = grid.chip /\ w.order = grid.order
      /\ w.items = s /\ w.page = 1 /\ w.anchor = month /\ w.known = stock
      /\ w.slips = IF j.op = "first" \/ AsksCurrent(j) THEN {} ELSE {"late"}
  BY GridNow DEF Rebased, GridFields
<1> HIDE DEF s
<1>4. GridKept(w)
  BY <1>2, <1>3, GridNow DEF GridKept
<1>5. ASSUME w.slips = {}, j.op = "first" => AsksCurrent(j) PROVE Window(w, stock)
  <2>1. AsksCurrent(j)
    BY <1>3, <1>5
  <2>2. j.chip = w.chip /\ j.order = w.order
    BY <1>3, <2>1 DEF AsksCurrent
  <2> QED BY <1>1, <1>3, <2>2 DEF Window
<1> QED BY <1>3, <1>4, <1>5

LEMMA ExtendedIs ==
  ASSUME GridInv, NEW j, j.chip \in Chips, j.order \in Orders, j.page \in Nat \ {0}, NEW w,
         w = Extended(grid, j, Ranged(stock, j.chip, j.order, Nil))
  PROVE  /\ GridKept(w) /\ w.chip = grid.chip /\ w.order = grid.order
         /\ w.status = "ready" /\ w.slips = {} =>
              grid.status = "ready" /\ grid.slips = {} /\ (Window(grid, stock) => Window(w, stock))
<1>1. CASE grid.status # "ready"
  <2>1. w = grid
    BY <1>1 DEF Extended
  <2> QED BY <1>1, <2>1, GridNow DEF GridKept
<1>2. CASE grid.status = "ready"
  <2> DEFINE slice == GridSlice(Ranged(stock, j.chip, j.order, Nil), j.page)
             new == Unlisted(grid, slice)
  <2>1. slice \in Seq(Dates) /\ Sorted(j.order, slice)
    BY GridNow, SliceIs
  <2>2. new \in Seq(Dates)
    <3> HIDE DEF slice
    <3> QED BY <2>1, UnlistedIs
  <2>3. w = [grid EXCEPT !.items = @ \o new, !.page = j.page, !.total = TotalPages(Ranged(stock, j.chip, j.order, Nil)),
                         !.more = FALSE, !.slips = @ \cup SlipsOf(grid, j)]
    BY <1>2 DEF Extended
  <2> HIDE DEF new
  <2>4. /\ GridFields \subseteq DOMAIN w /\ w.chip = grid.chip /\ w.order = grid.order /\ w.status = grid.status
        /\ w.items = grid.items \o new /\ w.page = j.page /\ w.anchor = grid.anchor /\ w.known = grid.known
        /\ w.slips = grid.slips \cup SlipsOf(grid, j)
    BY <2>3, GridNow DEF GridFields
  <2>5. GridKept(w)
    BY <2>2, <2>4, GridNow DEF GridKept
  <2>6. ASSUME w.slips = {}, Window(grid, stock) PROVE Window(w, stock)
    <3>1. SlipsOf(grid, j) = {}
      BY <2>4, <2>6
    <3>2. AsksCurrent(j) /\ j.page \in {grid.page, grid.page + 1}
      BY <3>1, Zenon DEF SlipsOf
    <3>3. grid.anchor = Nil
      BY <3>1, Zenon DEF SlipsOf
    <3>4. Cardinality(stock \ grid.known) = 0 \/ (Cardinality(stock \ grid.known) = 1 /\ j.page = grid.page + 1)
      BY <3>1, Zenon DEF SlipsOf
    <3>5. j.chip = grid.chip /\ j.order = grid.order
      BY <3>2 DEF AsksCurrent
    <3>6. new = Unlisted(grid, GridSlice(Ranged(stock, grid.chip, grid.order, Nil), j.page))
      BY <3>5 DEF new
    <3>7. Whole(grid.items, grid.page, grid.known, Nil, grid.chip, grid.order, stock)
      BY <2>6, <3>3 DEF Window
    <3>8. Whole(grid.items \o new, j.page, grid.known, Nil, grid.chip, grid.order, stock)
      BY <3>2, <3>4, <3>6, <3>7, GridNow, ExtendedWhole
    <3> QED BY <2>4, <3>3, <3>8 DEF Window
  <2>7. w.slips = {} => grid.slips = {}
    BY <2>4
  <2> QED BY <1>2, <2>4, <2>5, <2>6, <2>7
<1> QED BY <1>1, <1>2

LEMMA UnspunSame ==
  ASSUME NEW g, GridFields \subseteq DOMAIN g, NEW j
  PROVE  SameWindow(Unspun(g, j), g)
<1>1. SameWindow([g EXCEPT !["refreshing"] = FALSE], g)
  BY FieldApart DEF GridFields
<1> QED BY <1>1, SameWindowItself DEF Unspun

LEMMA LoadBackSafe == ASSUME GridInv, NEW i \in DOMAIN jobs, LoadBack(i) PROVE GridInv'
<1> DEFINE j == jobs[i]
           listing == Ranged(stock, j.chip, j.order, Nil)
<1>1. PICK w : w = GridAnswered(grid, j)
  OBVIOUS
<1>2. /\ j.op = "load" /\ jobs' = RemoveAt(jobs, i) /\ stock' = stock /\ viewing' = viewing /\ grid' = Unspun(w, j)
  BY <1>1 DEF LoadBack, At, Ends
<1>3. j \in LoadJobs
  BY <1>2, GridNow, GridJobIs
<1>4. j.chip \in Chips /\ j.order \in Orders /\ j.page \in Nat \ {0}
  BY <1>3 DEF LoadJobs
<1>5. w = IF j.page = 1 THEN Rebased(grid, j, listing, Nil) ELSE Extended(grid, j, listing)
  BY <1>1 DEF GridAnswered
<1>6. jobs' \in Seq(GridJobs) /\ FirstsFit(grid, jobs') /\ (StartsOver(jobs) => StartsOver(jobs') \/ Restarts(j))
  BY <1>2, GridNow, GridJobsLess
<1> HIDE DEF j
<1>7. /\ GridKept(w) /\ w.chip = grid.chip /\ w.order = grid.order
      /\ w.status = "ready" /\ w.slips = {} /\ ~viewing.visible /\ ~StartsOver(jobs') => Window(w, stock)
  <2>1. CASE j.page = 1
    <3>1. w = Rebased(grid, j, Ranged(stock, j.chip, j.order, Nil), Nil) /\ j.op # "first"
      BY <1>2, <1>5, <2>1
    <3> QED BY <1>4, <3>1, RebasedIs
  <2>2. CASE j.page # 1
    <3>1. w = Extended(grid, j, Ranged(stock, j.chip, j.order, Nil))
      BY <1>5, <2>2
    <3>2. ~Restarts(j)
      BY <1>2, <2>2 DEF Restarts
    <3>3. /\ GridKept(w) /\ w.chip = grid.chip /\ w.order = grid.order
          /\ w.status = "ready" /\ w.slips = {} =>
               grid.status = "ready" /\ grid.slips = {} /\ (Window(grid, stock) => Window(w, stock))
      BY <1>4, <3>1, ExtendedIs
    <3> QED BY <1>6, <3>2, <3>3 DEF GridInv
  <2> QED BY <2>1, <2>2
<1>8. SameWindow(grid', w)
  BY <1>2, <1>7, UnspunSame DEF GridKept
<1>9. GridKept(grid') /\ FirstsFit(grid', jobs')
  BY <1>6, <1>7, <1>8 DEF GridKept, SameWindow, FirstsFit
<1>10. grid'.status = "ready" /\ grid'.slips = {} /\ ~viewing.visible /\ ~StartsOver(jobs') => Window(grid', stock)
  BY <1>7, <1>8 DEF SameWindow, Window
<1> QED BY <1>2, <1>6, <1>9, <1>10, WindowRenewed

(* A grid that is not ready shows nothing that could miss a photo. *)
LEMMA NotReadySafe ==
  ASSUME GridInv, stock' = stock, viewing' = viewing, NEW w, GridKept(w), w.status # "ready", SameWindow(grid', w),
         jobs' \in Seq(GridJobs), FirstsFit(w, jobs')
  PROVE  GridInv'
<1>1. GridKept(grid') /\ FirstsFit(grid', jobs') /\ grid'.status # "ready"
  BY DEF GridKept, SameWindow, FirstsFit
<1> QED BY <1>1, WindowRenewed

LEMMA StatusSet ==
  ASSUME GridInv, NEW s, NEW w, w = [grid EXCEPT !.status = s]
  PROVE  GridKept(w) /\ w.status = s /\ w.chip = grid.chip /\ w.order = grid.order
BY GridNow DEF GridKept, GridFields

LEMMA LoadFailedSafe == ASSUME GridInv, NEW i \in DOMAIN jobs, LoadFailed(i) PROVE GridInv'
<1>1. PICK w : w = [grid EXCEPT !.status = "error"]
  OBVIOUS
<1>2. jobs' = RemoveAt(jobs, i) /\ stock' = stock /\ viewing' = viewing /\ grid' = Unspun(w, jobs[i])
  BY <1>1 DEF LoadFailed, Ends
<1>3. GridKept(w) /\ w.status = "error" /\ w.chip = grid.chip /\ w.order = grid.order
  BY <1>1, StatusSet
<1>4. SameWindow(grid', w)
  BY <1>2, <1>3, UnspunSame DEF GridKept
<1>5. jobs' \in Seq(GridJobs) /\ FirstsFit(w, jobs')
  BY <1>2, <1>3, GridNow, GridJobsLess DEF FirstsFit
<1> QED BY <1>2, <1>3, <1>4, <1>5, NotReadySafe

LEMMA FirstPageBackSafe == ASSUME GridInv, NEW i \in DOMAIN jobs, NEW ok \in BOOLEAN, FirstPageBack(i, ok) PROVE GridInv'
<1> DEFINE j == jobs[i]
<1>1. j.op = "first" /\ jobs' = RemoveAt(jobs, i) /\ stock' = stock /\ viewing' = viewing
  BY DEF FirstPageBack, At, Ends
<1>2. grid' = IF ~j.live THEN grid
              ELSE IF ok THEN Rebased(grid, j, Ranged(stock, j.chip, j.order, Nil), Nil)
              ELSE [grid EXCEPT !.status = "error"]
  BY DEF FirstPageBack, Heeded
<1>3. j \in FirstJobs
  BY <1>1, GridNow, GridJobIs
<1>4. j.chip \in Chips /\ j.order \in Orders
  BY <1>3 DEF FirstJobs
<1>5. j.live => AsksCurrent(j)
  BY <1>1, GridNow DEF FirstsFit, AsksCurrent
<1>6. jobs' \in Seq(GridJobs) /\ FirstsFit(grid, jobs')
  BY <1>1, GridNow, GridJobsLess
<1>7. CASE ~j.live
  <2>1. grid' = grid
    BY <1>2, <1>7
  <2>2. SameWindow(grid', grid)
    BY <2>1, GridNow, SameWindowItself
  <2>3. ~Restarts(jobs[i])
    BY <1>7 DEF Restarts
  <2> QED BY <1>1, <2>2, <2>3, EndedStays
<1> HIDE DEF j
<1>8. CASE j.live /\ ok
  <2>1. grid' = Rebased(grid, j, Ranged(stock, j.chip, j.order, Nil), Nil)
    BY <1>2, <1>8
  <2>2. /\ GridKept(grid') /\ grid'.chip = grid.chip /\ grid'.order = grid.order
        /\ grid'.slips = {} => Window(grid', stock)
    BY <1>4, <1>5, <1>8, <2>1, RebasedIs
  <2>3. FirstsFit(grid', jobs')
    BY <1>6, <2>2 DEF FirstsFit
  <2> QED BY <1>1, <1>6, <2>2, <2>3, WindowRenewed
<1>9. CASE j.live /\ ~ok
  <2>1. grid' = [grid EXCEPT !.status = "error"]
    BY <1>2, <1>9
  <2>2. GridKept(grid') /\ grid'.status = "error" /\ grid'.chip = grid.chip /\ grid'.order = grid.order
    BY <2>1, StatusSet
  <2>3. FirstsFit(grid', jobs')
    BY <1>6, <2>2 DEF FirstsFit
  <2> QED BY <1>1, <1>6, <2>2, <2>3, WindowRenewed
<1> QED BY <1>7, <1>8, <1>9

LEMMA BucketsBackSafe == ASSUME GridInv, NEW i \in DOMAIN jobs, NEW ok \in BOOLEAN, BucketsBack(i, ok) PROVE GridInv'
<1>1. jobs[i].op = "buckets" /\ jobs' = RemoveAt(jobs, i) /\ stock' = stock /\ viewing' = viewing
  BY DEF BucketsBack, At, Ends
<1>2. PICK m : grid' = [grid EXCEPT !["months"] = m]
  BY DEF BucketsBack
<1>3. SameWindow(grid', grid)
  BY <1>2, GridNow, FieldApart DEF GridFields
<1>4. ~Restarts(jobs[i])
  BY <1>1 DEF Restarts
<1> QED BY <1>1, <1>3, <1>4, EndedStays

LEMMA PickChipSafe == ASSUME GridInv, NEW chip \in Chips, NEW order \in Orders, PickChip(chip, order) PROVE GridInv'
<1> DEFINE w == [grid EXCEPT !.chip = chip, !.order = order, !.status = "loading"]
<1>1. /\ grid' = w /\ stock' = stock /\ viewing' = viewing
      /\ jobs' = Orphaned(jobs, {"first"}) \o <<BucketsAsked(w), EffectAsked(w)>>
  BY DEF PickChip, GridHolds
<1>2. GridKept(w) /\ w.status = "loading" /\ w.chip = chip /\ w.order = order
  BY GridNow DEF GridKept, GridFields
<1> HIDE DEF w
<1>3. PICK b : b = BucketsAsked(w)
  OBVIOUS
<1>4. PICK f : f = EffectAsked(w)
  OBVIOUS
<1>5. b \in BucketJobs /\ f \in FirstJobs /\ f.chip = chip /\ f.order = order
  BY <1>2, <1>3, <1>4, OthersAskedAre
<1>6. b \in GridJobs /\ f \in GridJobs /\ b.op = "buckets"
  BY <1>5 DEF GridJobs, BucketJobs
<1>7. <<b, f>> \in Seq(GridJobs) /\ FirstsFit(w, <<b, f>>)
  BY <1>2, <1>5, <1>6 DEF FirstsFit
<1>8. PICK js : js = Orphaned(jobs, {"first"})
  OBVIOUS
<1>9. js \in Seq(GridJobs) /\ FirstsFit(w, js)
  BY <1>8, GridNow, FirstsGivenUp
<1>10. jobs' = js \o <<b, f>>
  BY <1>1, <1>3, <1>4, <1>8
<1>11. jobs' \in Seq(GridJobs) /\ FirstsFit(w, jobs')
  BY <1>7, <1>9, <1>10, GridJobsJoined
<1> QED BY <1>1, <1>2, <1>11, WindowRenewed

LEMMA PageOneAsked ==
  ASSUME GridInv, NEW new, new = <<PageAsked(1, grid)>>
  PROVE  new \in Seq(GridJobs) /\ (\A i \in DOMAIN new : new[i].op # "first") /\ StartsOver(new)
<1>1. 1 \in Nat \ {0}
  OBVIOUS
<1>2. PICK p : p = PageAsked(1, grid)
  OBVIOUS
<1>3. p \in LoadJobs /\ p.live /\ p.page = 1
  BY <1>1, <1>2, GridNow, PageAskedIs
<1>4. p \in GridJobs /\ p.op = "load" /\ Restarts(p)
  BY <1>3 DEF GridJobs, LoadJobs, Restarts
<1>5. new = <<p>>
  BY <1>2
<1>6. new \in Seq(GridJobs) /\ DOMAIN new = {1} /\ new[1] = p
  BY <1>4, <1>5
<1> QED BY <1>4, <1>6, StartsOverIs

(* A first page is asked for and the grid says that it loads. *)
LEMMA ReloadsSafe ==
  ASSUME GridInv, stock' = stock, viewing' = viewing, grid' = [grid EXCEPT !.status = "loading"],
         jobs' = jobs \o <<PageAsked(1, grid)>>
  PROVE  GridInv'
<1>1. PICK new : new = <<PageAsked(1, grid)>>
  OBVIOUS
<1>2. new \in Seq(GridJobs) /\ \A i \in DOMAIN new : new[i].op # "first"
  BY <1>1, PageOneAsked
<1>3. jobs' = jobs \o new
  BY <1>1
<1>4. jobs' \in Seq(GridJobs) /\ FirstsFit(grid, jobs')
  BY <1>2, <1>3, GridNow, NoFirsts, GridJobsJoined
<1>5. GridKept(grid') /\ grid'.status = "loading" /\ grid'.chip = grid.chip /\ grid'.order = grid.order
  BY StatusSet
<1>6. FirstsFit(grid', jobs')
  BY <1>4, <1>5 DEF FirstsFit
<1> QED BY <1>4, <1>5, <1>6, WindowRenewed

LEMMA TokenBumpedSafe == ASSUME GridInv, TokenBumped \/ RetryGrid PROVE GridInv'
<1>1. /\ stock' = stock /\ viewing' = viewing /\ grid' = [grid EXCEPT !.status = "loading"]
      /\ jobs' = jobs \o <<PageAsked(1, grid)>>
  BY DEF TokenBumped, RetryGrid, Begun
<1> QED BY <1>1, ReloadsSafe

LEMMA EndReachedSafe == ASSUME GridInv, EndReached PROVE GridInv'
<1>1. /\ stock' = stock /\ viewing' = viewing /\ grid' = [grid EXCEPT !["more"] = TRUE]
      /\ jobs' = jobs \o <<PageAsked(grid.page + 1, grid)>>
  BY DEF EndReached, Begun
<1>2. PICK p : p = PageAsked(grid.page + 1, grid)
  OBVIOUS
<1>3. grid.page + 1 \in Nat \ {0}
  BY GridNow
<1>4. p \in LoadJobs
  BY <1>2, <1>3, GridNow, PageAskedIs
<1>5. p \in GridJobs /\ p.op # "first"
  BY <1>4 DEF GridJobs, LoadJobs
<1>6. PICK new : new = <<p>>
  OBVIOUS
<1>7. new \in Seq(GridJobs) /\ \A i \in DOMAIN new : new[i].op # "first"
  BY <1>5, <1>6
<1>8. SameWindow(grid', grid)
  BY <1>1, GridNow, FieldApart DEF GridFields
<1>9. jobs' = jobs \o new
  BY <1>1, <1>2, <1>6
<1> QED BY <1>1, <1>7, <1>8, <1>9, GridNow, BegunStays

LEMMA PullDownSafe == ASSUME GridInv, PullDown PROVE GridInv'
<1>1. PICK js : js = GridReloads(grid)
  OBVIOUS
<1>2. PICK new : new = [js EXCEPT ![Len(js)].refresh = TRUE]
  OBVIOUS
<1>3. stock' = stock /\ viewing' = viewing /\ grid' = [grid EXCEPT !["refreshing"] = TRUE] /\ jobs' = jobs \o new
  BY <1>1, <1>2, Zenon DEF PullDown, Begun
<1>4. /\ js \in Seq(GridJobs) /\ \A i \in DOMAIN js : js[i].op # "first"
      /\ Len(js) \in DOMAIN js /\ js[Len(js)] = PageAsked(1, grid)
  BY <1>1, GridNow, ReloadsAre
<1>5. PICK p : p = js[Len(js)]
  OBVIOUS
<1>6. p \in LoadJobs /\ p.live /\ p.page = 1
  <2>1. 1 \in Nat \ {0}
    OBVIOUS
  <2> QED BY <1>4, <1>5, <2>1, GridNow, PageAskedIs
<1>7. PICK q : q = [p EXCEPT !.refresh = TRUE]
  OBVIOUS
<1>8. q \in LoadJobs /\ q.live /\ q.page = 1 /\ q.op = "load"
  BY <1>6, <1>7 DEF LoadJobs
<1>9. q \in GridJobs /\ Restarts(q)
  BY <1>8 DEF GridJobs, Restarts
<1>10. new = [js EXCEPT ![Len(js)] = q]
  BY <1>2, <1>5, <1>7
<1>11. new \in Seq(GridJobs) /\ DOMAIN new = DOMAIN js /\ \A i \in DOMAIN js : new[i] = IF i = Len(js) THEN q ELSE js[i]
  BY <1>4, <1>9, <1>10
<1>12. \A i \in DOMAIN new : new[i].op # "first"
  BY <1>4, <1>8, <1>11
<1>13. StartsOver(new)
  BY <1>4, <1>9, <1>11, StartsOverIs
<1>14. SameWindow(grid', grid)
  BY <1>3, GridNow, FieldApart DEF GridFields
<1> QED BY <1>3, <1>11, <1>12, <1>13, <1>14, GridNow, BegunStays

LEMMA JumpToSafe == ASSUME GridInv, NEW month \in RailMonths, JumpTo(month) PROVE GridInv'
<1>1. /\ UNCHANGED <<stock, grid, viewing>>
      /\ jobs' = jobs \o <<JumpAsked(month, grid)>> \/ jobs' = jobs \o <<PageAsked(1, grid)>>
  BY DEF JumpTo, Begun, gridVars
<1>2. SameWindow(grid', grid)
  BY <1>1, GridNow, SameWindowItself
<1>3. CASE jobs' = jobs \o <<JumpAsked(month, grid)>>
  <2>1. PICK p : p = JumpAsked(month, grid)
    OBVIOUS
  <2>2. p \in JumpJobs
    BY <2>1, GridNow, OthersAskedAre
  <2>3. p \in GridJobs /\ p.op # "first"
    BY <2>2 DEF GridJobs, JumpJobs
  <2>4. PICK new : new = <<p>>
    OBVIOUS
  <2>5. new \in Seq(GridJobs) /\ \A i \in DOMAIN new : new[i].op # "first"
    BY <2>3, <2>4
  <2>6. jobs' = jobs \o new
    BY <1>3, <2>1, <2>4
  <2> QED BY <1>1, <1>2, <2>5, <2>6, GridNow, BegunStays
<1>4. CASE jobs' = jobs \o <<PageAsked(1, grid)>>
  <2>1. PICK new : new = <<PageAsked(1, grid)>>
    OBVIOUS
  <2>2. new \in Seq(GridJobs) /\ \A i \in DOMAIN new : new[i].op # "first"
    BY <2>1, PageOneAsked
  <2>3. jobs' = jobs \o new
    BY <1>4, <2>1
  <2> QED BY <1>1, <1>2, <2>2, <2>3, GridNow, BegunStays
<1> QED BY <1>1, <1>3, <1>4

LEMMA JumpBackSafe == ASSUME GridInv, NEW i \in DOMAIN jobs, JumpBack(i) PROVE GridInv'
<1> DEFINE j == jobs[i]
           listing == Ranged(stock, j.chip, j.order, j.month)
<1>1. /\ j.op = "jump" /\ stock' = stock /\ viewing' = viewing
      /\ \/ jobs' = RemoveAt(jobs, i) \o <<PageAsked(1, j)>> /\ grid' = grid
         \/ jobs' = RemoveAt(jobs, i) /\ grid' = Rebased(grid, j, listing, j.month)
  BY DEF JumpBack, At, Leads, Ends
<1>2. j \in JumpJobs
  BY <1>1, GridNow, GridJobIs
<1>3. j.chip \in Chips /\ j.order \in Orders /\ ~Restarts(j)
  BY <1>1, <1>2 DEF JumpJobs, Restarts
<1>4. PICK js : js = RemoveAt(jobs, i)
  OBVIOUS
<1>5. js \in Seq(GridJobs) /\ FirstsFit(grid, js)
  BY <1>4, GridNow, GridJobsLess
<1>6. StartsOver(jobs) => StartsOver(js)
  BY <1>3, <1>4, GridNow, GridJobsLess
<1> HIDE DEF j
<1>7. CASE jobs' = js \o <<PageAsked(1, j)>> /\ grid' = grid
  <2>1. PICK p : p = PageAsked(1, j)
    OBVIOUS
  <2>2. 1 \in Nat \ {0}
    OBVIOUS
  <2>3. p \in LoadJobs
    BY <1>3, <2>1, <2>2, PageAskedIs
  <2>4. p \in GridJobs /\ p.op # "first"
    BY <2>3 DEF GridJobs, LoadJobs
  <2>5. PICK new : new = <<p>>
    OBVIOUS
  <2>6. new \in Seq(GridJobs) /\ \A k \in DOMAIN new : new[k].op # "first"
    BY <2>4, <2>5
  <2>7. jobs' = js \o new
    BY <1>7, <2>1, <2>5
  <2>8. jobs' \in Seq(GridJobs) /\ FirstsFit(grid, jobs') /\ (StartsOver(jobs) => StartsOver(jobs'))
    BY <1>5, <1>6, <2>6, <2>7, NoFirsts, GridJobsJoined
  <2>9. SameWindow(grid', grid)
    BY <1>7, GridNow, SameWindowItself
  <2>10. stock' \in SUBSET Dates /\ stock \subseteq stock' /\ ViewingOk(viewing', stock') /\ viewing'.visible = viewing.visible
    BY <1>1, GridNow
  <2> QED BY <2>8, <2>9, <2>10, WindowStays
<1>8. CASE jobs' = js /\ grid' = Rebased(grid, j, listing, j.month)
  <2>1. /\ GridKept(grid') /\ grid'.chip = grid.chip /\ grid'.order = grid.order
        /\ grid'.slips = {} => Window(grid', stock)
    <3>1. j.op # "first"
      BY <1>1
    <3> QED BY <1>3, <1>8, <3>1, RebasedIs
  <2>2. FirstsFit(grid', jobs')
    BY <1>5, <1>8, <2>1 DEF FirstsFit
  <2> QED BY <1>1, <1>5, <1>8, <2>1, <2>2, WindowRenewed
<1> QED BY <1>1, <1>4, <1>7, <1>8

LEMMA JumpFailedSafe == ASSUME GridInv, NEW i \in DOMAIN jobs, JumpFailed(i) PROVE GridInv'
<1>1. jobs[i].op = "jump" /\ jobs' = RemoveAt(jobs, i) /\ UNCHANGED <<stock, grid, viewing>>
  BY DEF JumpFailed, At, Ends, gridVars
<1>2. SameWindow(grid', grid)
  BY <1>1, GridNow, SameWindowItself
<1>3. ~Restarts(jobs[i])
  BY <1>1 DEF Restarts
<1> QED BY <1>1, <1>2, <1>3, EndedStays

(* --------------------- the viewer over a grid ---------------------------- *)

LEMMA ViewingGrows ==
  ASSUME NEW v, NEW S, NEW T, S \subseteq T, ViewingOk(v, S)
  PROVE  ViewingOk(v, T)
BY DEF ViewingOk

LEMMA PhotoArrivesSafe == ASSUME GridInv, NEW t \in Dates, PhotoArrives(t) PROVE GridInv'
<1>1. stock' = stock \cup {t} /\ grid' = grid /\ viewing' = viewing /\ jobs' = jobs
  BY DEF PhotoArrives
<1>2. stock \subseteq stock' /\ stock' \in SUBSET Dates
  BY <1>1, GridNow
<1>3. ViewingOk(viewing', stock')
  BY <1>1, <1>2, GridNow, ViewingGrows
<1>4. SameWindow(grid', grid)
  BY <1>1, GridNow, SameWindowItself
<1> QED BY <1>1, <1>2, <1>3, <1>4, GridNow, WindowStays

LEMMA PlayerSafe ==
  ASSUME GridInv, NEW e, grid' = [grid EXCEPT !["playing"] = e], stock' = stock, viewing' = viewing, jobs' = jobs
  PROVE  GridInv'
<1>1. SameWindow(grid', grid)
  BY GridNow, FieldApart DEF GridFields
<1> QED BY <1>1, GridNow, WindowStays

LEMMA OpenableIs ==
  ASSUME NEW g, g.items \in Seq(Dates)
  PROVE  Openable(g) \in Seq(Dates) /\ ToSet(Openable(g)) \subseteq ToSet(g.items)
<1>1. CASE g.of = "person"
  BY <1>1 DEF Openable
<1>2. CASE g.of # "person"
  <2> DEFINE I == {i \in DOMAIN g.items : g.items[i] \notin VideoTimes}
  <2>1. Openable(g) = Sifted(g.items, I) /\ I \in SUBSET DOMAIN g.items
    BY <1>2 DEF Openable
  <2> HIDE DEF I
  <2>2. PICK s : s = Sifted(g.items, I)
    OBVIOUS
  <2>3. s \in Seq(Dates) /\ \A n \in DOMAIN s : \E i \in I : s[n] = g.items[i]
    BY <2>1, <2>2, SiftedFrom
  <2>4. \A n \in DOMAIN s : \E i \in DOMAIN g.items : s[n] = g.items[i]
    BY <2>1, <2>3
  <2>5. ToSet(s) \subseteq ToSet(g.items)
    BY <2>4 DEF ToSet
  <2> QED BY <2>1, <2>2, <2>3, <2>5
<1> QED BY <1>1, <1>2

LEMMA OpenGridPhotoSafe == ASSUME GridInv, NEW t \in Dates, OpenGridPhoto(t) PROVE GridInv'
<1>1. stock' = stock /\ jobs' = jobs /\ grid.status = "ready" /\ ~viewing.visible
  BY DEF OpenGridPhoto, GridUsed, GridReady, Unobstructed
<1>2. CASE t \in ToSet(Openable(grid))
  <2>1. PICK o : o = Openable(grid)
    OBVIOUS
  <2>2. o \in Seq(Dates) /\ ToSet(o) \subseteq ToSet(grid.items) /\ t \in ToSet(o)
    BY <1>2, <2>1, GridNow, OpenableIs
  <2>3. PICK k : k = CHOOSE l \in DOMAIN o : o[l] = t
    OBVIOUS
  <2>4. k \in DOMAIN o /\ k \in Nat \ {0}
    <3>1. \E l \in DOMAIN o : o[l] = t
      BY <2>2 DEF ToSet
    <3>2. k \in DOMAIN o
      BY <2>3, <3>1
    <3> QED BY <2>2, <3>2
  <2>5. PICK e : e = (grid.slips # {} \/ StartsOver(jobs))
    OBVIOUS
  <2>6. viewing' = [NoViewing EXCEPT !.visible = TRUE, !.assets = o, !.index = k, !.slipped = e] /\ grid' = grid
    <3>1. /\ viewing' = [NoViewing EXCEPT !.visible = TRUE, !.assets = Openable(grid),
                                          !.index = CHOOSE l \in DOMAIN Openable(grid) : Openable(grid)[l] = t,
                                          !.slipped = grid.slips # {} \/ StartsOver(jobs)]
          /\ grid' = grid
      BY <1>2, Zenon DEF OpenGridPhoto
    <3> QED BY <2>1, <2>3, <2>5, <3>1, Zenon
  <2>7. PICK none : none = <<>>
    OBVIOUS
  <2>8. NoViewing = [visible |-> FALSE, closing |-> FALSE, assets |-> none, index |-> 1, asking |-> Nil, slipped |-> FALSE]
    BY <2>7 DEF NoViewing
  <2>9. viewing' = [visible |-> TRUE, closing |-> FALSE, assets |-> o, index |-> k, asking |-> Nil, slipped |-> e]
    BY <2>6, <2>8
  <2>10. e \in BOOLEAN /\ o # <<>>
    BY <2>4, <2>5
  <2>11. ~e => ToSet(o) \subseteq stock
    <3>1. ASSUME ~e PROVE Window(grid, stock)
      BY <1>1, <2>5, <3>1 DEF GridInv
    <3>2. ASSUME ~e PROVE ToSet(grid.items) \subseteq ChipKeeps(stock, grid.chip)
      BY <3>1, <3>2 DEF Window, Whole
    <3>3. ChipKeeps(stock, grid.chip) \subseteq stock
      BY GridNow, ChipIs
    <3> QED BY <2>2, <3>2, <3>3
  <2>12. ViewingOk(viewing', stock')
    <3>1. viewing' \in Viewings
      BY <2>2, <2>4, <2>9, <2>10 DEF Viewings
    <3> QED BY <1>1, <2>4, <2>9, <2>10, <2>11, <3>1 DEF ViewingOk
  <2>13. viewing'.visible
    BY <2>9
  <2>14. SameWindow(grid', grid)
    BY <2>6, GridNow, SameWindowItself
  <2> QED BY <1>1, <2>12, <2>13, <2>14, GridNow, WindowStays
<1>3. CASE t \notin ToSet(Openable(grid))
  <2>1. grid' = [grid EXCEPT !["playing"] = t] /\ viewing' = viewing
    BY <1>3 DEF OpenGridPhoto
  <2> QED BY <1>1, <2>1, PlayerSafe
<1> QED BY <1>2, <1>3

(* The viewer changes and the grid does not. *)
LEMMA ViewerSafe ==
  ASSUME GridInv, UNCHANGED <<stock, grid, jobs>>, ViewingOk(viewing', stock), viewing.visible => viewing'.visible
  PROVE  GridInv'
<1>1. SameWindow(grid', grid)
  BY GridNow, SameWindowItself
<1> QED BY <1>1, GridNow, WindowStays

LEMMA SwipeToSafe == ASSUME GridInv, NEW k \in DOMAIN viewing.assets, SwipeTo(k) PROVE GridInv'
<1>1. UNCHANGED <<stock, grid, jobs>> /\ viewing' = [viewing EXCEPT !.index = k]
  BY DEF SwipeTo
<1>2. viewing.assets \in Seq(Dates)
  BY GridNow DEF Viewings
<1>3. k \in Nat \ {0}
  BY <1>2
<1>4. /\ viewing' \in Viewings /\ viewing'.visible = viewing.visible /\ viewing'.slipped = viewing.slipped
      /\ viewing'.assets = viewing.assets /\ viewing'.index = k /\ viewing'.closing = viewing.closing
  BY <1>1, <1>3, GridNow DEF Viewings
<1>5. ViewingOk(viewing', stock)
  BY <1>4, GridNow DEF ViewingOk
<1> QED BY <1>1, <1>4, <1>5, ViewerSafe

LEMMA StampedIs ==
  ASSUME NEW v, NEW S, v \in Viewings, v.assets # <<>> => v.index \in DOMAIN v.assets,
         v.visible /\ ~v.slipped => ToSet(v.assets) \subseteq S
  PROVE  ViewingOk(Stamped(v), S) /\ Stamped(v).visible = v.visible
<1>1. Stamped(v) = [v EXCEPT !.closing = v.visible]
  BY DEF Stamped
<1>2. PICK w : w = Stamped(v)
  OBVIOUS
<1>3. /\ w \in Viewings /\ w.visible = v.visible /\ w.slipped = v.slipped
      /\ w.assets = v.assets /\ w.index = v.index /\ w.closing = v.visible
  BY <1>1, <1>2 DEF Viewings
<1>4. ViewingOk(w, S)
  BY <1>3 DEF ViewingOk
<1> QED BY <1>2, <1>3, <1>4

LEMMA RequestCloseSafe == ASSUME GridInv, RequestClose PROVE GridInv'
<1>1. PICK new : new = GridReloads(grid)
  OBVIOUS
<1>2. viewing' = Stamped(viewing) /\ stock' = stock /\ grid' = grid /\ jobs' = jobs \o new
  BY <1>1 DEF RequestClose, Begun
<1>3. ViewingOk(viewing', stock) /\ viewing'.visible = viewing.visible
  BY <1>2, GridNow, StampedIs DEF ViewingOk
<1>4. new \in Seq(GridJobs) /\ \A i \in DOMAIN new : new[i].op # "first"
  BY <1>1, GridNow, ReloadsAre
<1>5. SameWindow(grid', grid)
  BY <1>2, GridNow, SameWindowItself
<1> QED BY <1>2, <1>3, <1>4, <1>5, BegunStays

LEMMA FinishCloseSafe == ASSUME GridInv, FinishClose PROVE GridInv'
<1>1. PICK new : new = GridReloads(grid)
  OBVIOUS
<1>2. /\ viewing' = [viewing EXCEPT !.visible = FALSE, !.closing = FALSE]
      /\ stock' = stock /\ grid' = grid /\ jobs' = jobs \o new
  BY <1>1 DEF FinishClose, Begun
<1>3. /\ viewing' \in Viewings /\ ~viewing'.visible /\ viewing'.assets = viewing.assets /\ viewing'.index = viewing.index
  BY <1>2, GridNow DEF Viewings
<1>4. ViewingOk(viewing', stock)
  BY <1>3, GridNow DEF ViewingOk
<1>5. new \in Seq(GridJobs) /\ (\A i \in DOMAIN new : new[i].op # "first") /\ StartsOver(new)
  BY <1>1, GridNow, ReloadsAre, StartsOverIs
<1>6. SameWindow(grid', grid)
  BY <1>2, GridNow, SameWindowItself
<1> QED BY <1>2, <1>4, <1>5, <1>6, BegunStays

LEMMA AskRemovalSafe == ASSUME GridInv, AskRemoval PROVE GridInv'
<1>1. PICK a : a = [photo |-> viewing.assets[viewing.index], assets |-> viewing.assets, index |-> viewing.index]
  OBVIOUS
<1>2. UNCHANGED <<stock, grid, jobs>> /\ viewing' = [viewing EXCEPT !.asking = a] /\ viewing.assets # <<>>
  BY <1>1 DEF AskRemoval
<1>3. viewing.assets \in Seq(Dates) /\ viewing.index \in DOMAIN viewing.assets /\ viewing.index \in Nat \ {0}
  BY <1>2, GridNow DEF ViewingOk, Viewings
<1>4. a \in Asked
  BY <1>1, <1>3 DEF Asked
<1>5. /\ viewing' \in Viewings /\ viewing'.visible = viewing.visible /\ viewing'.slipped = viewing.slipped
      /\ viewing'.assets = viewing.assets /\ viewing'.index = viewing.index /\ viewing'.closing = viewing.closing
  BY <1>2, <1>4, GridNow DEF Viewings
<1>6. ViewingOk(viewing', stock)
  BY <1>5, GridNow DEF ViewingOk
<1> QED BY <1>2, <1>5, <1>6, ViewerSafe

LEMMA AnswerRemovalSafe == ASSUME GridInv, NEW ok \in BOOLEAN, AnswerRemoval(ok) PROVE GridInv'
<1>1. viewing' = [viewing EXCEPT !.asking = Nil] /\ stock' = stock /\ grid' = grid /\ viewing.asking # Nil
  BY DEF AnswerRemoval
<1>2. /\ viewing' \in Viewings /\ viewing'.visible = viewing.visible /\ viewing'.slipped = viewing.slipped
      /\ viewing'.assets = viewing.assets /\ viewing'.index = viewing.index /\ viewing'.closing = viewing.closing
  BY <1>1, GridNow DEF Viewings
<1>3. ViewingOk(viewing', stock)
  BY <1>2, GridNow DEF ViewingOk
<1>4. CASE jobs' = jobs
  BY <1>1, <1>2, <1>3, <1>4, ViewerSafe
<1>5. CASE jobs' = jobs \o <<RemovalAsked(viewing.asking)>>
  <2>1. PICK p : p = RemovalAsked(viewing.asking)
    OBVIOUS
  <2>2. viewing.asking \in Asked
    BY <1>1, GridNow DEF Viewings
  <2>3. p \in EraseJobs
    BY <2>1, <2>2, RemovalAskedIs
  <2>4. p \in GridJobs /\ p.op # "first"
    BY <2>3 DEF GridJobs, EraseJobs
  <2>5. PICK new : new = <<p>>
    OBVIOUS
  <2>6. new \in Seq(GridJobs) /\ \A i \in DOMAIN new : new[i].op # "first"
    BY <2>4, <2>5
  <2>7. jobs' = jobs \o new
    BY <1>5, <2>1, <2>5
  <2>8. SameWindow(grid', grid)
    BY <1>1, GridNow, SameWindowItself
  <2> QED BY <1>1, <1>2, <1>3, <2>6, <2>7, <2>8, BegunStays
<1> QED BY <1>4, <1>5 DEF AnswerRemoval, Begun

(* The list without the photo, with the place it was asked at or the last. *)
LEMMA TakenOutIs ==
  ASSUME NEW S, NEW v, ViewingOk(v, S), NEW j \in EraseJobs, NEW w, w = TakenOut(v, j)
  PROVE  /\ w \in Viewings /\ w.visible = v.visible /\ w.assets = LeftOf(j)
         /\ w.assets # <<>> => w.index \in DOMAIN w.assets
         /\ w.visible /\ ~w.slipped => ToSet(w.assets) \subseteq S \ {j.photo}
<1> DEFINE I == {i \in DOMAIN j.assets : j.assets[i] # j.photo}
<1>1. j.assets \in Seq(Dates) /\ j.index \in Nat \ {0}
  BY DEF EraseJobs
<1>2. LeftOf(j) = Sifted(j.assets, I) /\ I \in SUBSET DOMAIN j.assets
  BY DEF LeftOf
<1>3. \A i \in I : i \in DOMAIN j.assets /\ j.assets[i] # j.photo
  OBVIOUS
<1> HIDE DEF I
<1>4. PICK left : left = LeftOf(j)
  OBVIOUS
<1>5. left \in Seq(Dates) /\ \A n \in DOMAIN left : \E i \in I : left[n] = j.assets[i]
  BY <1>1, <1>2, <1>4, SiftedFrom
<1>6. ToSet(left) \subseteq ToSet(j.assets) \ {j.photo}
  BY <1>3, <1>5 DEF ToSet
<1>7. PICK k : k = IF left = <<>> THEN v.index ELSE Min({j.index, Len(left)})
  OBVIOUS
<1>8. k \in Nat \ {0} /\ (left # <<>> => k \in DOMAIN left)
  <2>1. CASE left = <<>>
    BY <1>7, <2>1 DEF ViewingOk, Viewings
  <2>2. CASE left # <<>>
    <3>1. Len(left) \in Nat \ {0} /\ DOMAIN left = 1..Len(left)
      BY <1>5, <2>2
    <3>2. \A x, y \in Nat : Min({x, y}) = IF x < y THEN x ELSE y
      BY DEF Min
    <3>3. k = IF j.index < Len(left) THEN j.index ELSE Len(left)
      BY <1>1, <1>7, <2>2, <3>1, <3>2
    <3> QED BY <1>1, <3>1, <3>3
  <2> QED BY <2>1, <2>2
<1>9. PICK e : e = (v.slipped \/ v.assets # j.assets)
  OBVIOUS
<1>10. w = [v EXCEPT !.assets = left, !.index = k, !.slipped = e]
  <2>1. w = [v EXCEPT !.assets = LeftOf(j), !.index = IF LeftOf(j) = <<>> THEN @ ELSE Min({j.index, Len(LeftOf(j))}),
                      !.slipped = @ \/ v.assets # j.assets]
    BY Zenon DEF TakenOut
  <2> QED BY <1>4, <1>7, <1>9, <2>1
<1>11. e \in BOOLEAN
  BY <1>9
<1>12. w \in Viewings /\ w.visible = v.visible /\ w.assets = left /\ w.index = k /\ w.slipped = e
  BY <1>5, <1>8, <1>10, <1>11 DEF ViewingOk, Viewings
<1>13. ASSUME w.visible, ~w.slipped PROVE ToSet(w.assets) \subseteq S \ {j.photo}
  <2>1. v.visible /\ ~v.slipped /\ v.assets = j.assets
    BY <1>9, <1>12, <1>13
  <2>2. ToSet(j.assets) \subseteq S
    BY <2>1 DEF ViewingOk
  <2> QED BY <1>6, <1>12, <2>2
<1> QED BY <1>4, <1>8, <1>12, <1>13

(* A photo goes: the viewer is over the grid, or the slip is noted. *)
LEMMA RemovedSafe ==
  ASSUME GridInv, NEW photo, NEW j, stock' = stock \ {photo}, grid' = Unseen(grid, j),
         jobs' \in Seq(GridJobs), FirstsFit(grid, jobs'), ViewingOk(viewing', stock'), viewing'.visible = viewing.visible
  PROVE  GridInv'
<1>1. CASE viewing.visible
  <2>1. grid' = grid
    BY <1>1 DEF Unseen
  <2>2. GridKept(grid') /\ FirstsFit(grid', jobs') /\ stock' \in SUBSET Dates
    BY <2>1, GridNow DEF GridKept
  <2>3. GridInv' <=> /\ stock' \in SUBSET Dates /\ jobs' \in Seq(GridJobs)
                     /\ GridKept(grid') /\ FirstsFit(grid', jobs') /\ ViewingOk(viewing', stock')
                     /\ (grid'.status = "ready" /\ grid'.slips = {} /\ ~viewing'.visible /\ ~StartsOver(jobs')) => Window(grid', stock')
    BY DEF GridInv, GridKept, FirstsFit, ViewingOk, StartsOver, Window
  <2> QED BY <1>1, <2>2, <2>3
<1>2. CASE ~viewing.visible
  <2>1. grid' = [grid EXCEPT !.slips = @ \cup {"overlap"}]
    BY <1>2 DEF Unseen
  <2>2. GridKept(grid') /\ grid'.slips = grid.slips \cup {"overlap"} /\ grid'.chip = grid.chip /\ grid'.order = grid.order
    BY <2>1, GridNow DEF GridKept, GridFields
  <2>3. FirstsFit(grid', jobs') /\ grid'.slips # {} /\ stock' \in SUBSET Dates
    BY <2>2, GridNow DEF FirstsFit
  <2>4. GridInv' <=> /\ stock' \in SUBSET Dates /\ jobs' \in Seq(GridJobs)
                     /\ GridKept(grid') /\ FirstsFit(grid', jobs') /\ ViewingOk(viewing', stock')
                     /\ (grid'.status = "ready" /\ grid'.slips = {} /\ ~viewing'.visible /\ ~StartsOver(jobs')) => Window(grid', stock')
    BY DEF GridInv, GridKept, FirstsFit, ViewingOk, StartsOver, Window
  <2> QED BY <2>2, <2>3, <2>4
<1> QED BY <1>1, <1>2

LEMMA RemovalDoneSafe == ASSUME GridInv, NEW i \in DOMAIN jobs, RemovalDone(i) PROVE GridInv'
<1> DEFINE j == jobs[i]
<1>1. PICK w : w = TakenOut(viewing, j)
  OBVIOUS
<1>2. /\ j.op = "delete" /\ stock' = stock \ {j.photo} /\ grid' = Unseen(grid, j)
      /\ \/ LeftOf(j) = <<>> /\ jobs' = RemoveAt(jobs, i) \o GridReloads(grid) /\ viewing' = Stamped(w)
         \/ LeftOf(j) # <<>> /\ jobs' = RemoveAt(jobs, i) /\ viewing' = w
  BY <1>1 DEF RemovalDone, At, Leads, Ends
<1>3. j \in EraseJobs
  BY <1>2, GridNow, GridJobIs
<1>4. RemoveAt(jobs, i) \in Seq(GridJobs) /\ FirstsFit(grid, RemoveAt(jobs, i))
  BY GridNow, GridJobsLess
<1> HIDE DEF j
<1>5. /\ w \in Viewings /\ w.visible = viewing.visible /\ w.assets = LeftOf(j)
      /\ w.assets # <<>> => w.index \in DOMAIN w.assets
      /\ w.visible /\ ~w.slipped => ToSet(w.assets) \subseteq stock'
  <2>1. ViewingOk(viewing, stock)
    BY GridNow
  <2>2. /\ w \in Viewings /\ w.visible = viewing.visible /\ w.assets = LeftOf(j)
        /\ w.assets # <<>> => w.index \in DOMAIN w.assets
        /\ w.visible /\ ~w.slipped => ToSet(w.assets) \subseteq stock \ {j.photo}
    BY <1>1, <1>3, <2>1, TakenOutIs
  <2> QED BY <1>2, <2>2
<1>6. CASE LeftOf(j) = <<>> /\ jobs' = RemoveAt(jobs, i) \o GridReloads(grid) /\ viewing' = Stamped(w)
  <2>1. ViewingOk(viewing', stock') /\ viewing'.visible = viewing.visible
    BY <1>5, <1>6, StampedIs
  <2>2. PICK new : new = GridReloads(grid)
    OBVIOUS
  <2>3. new \in Seq(GridJobs) /\ FirstsFit(grid, new)
    BY <2>2, GridNow, ReloadsAre, NoFirsts
  <2>4. jobs' \in Seq(GridJobs) /\ FirstsFit(grid, jobs')
    BY <1>4, <1>6, <2>2, <2>3, GridJobsJoined
  <2> QED BY <1>2, <2>1, <2>4, RemovedSafe
<1>7. CASE LeftOf(j) # <<>> /\ jobs' = RemoveAt(jobs, i) /\ viewing' = w
  <2>1. ViewingOk(viewing', stock') /\ viewing'.visible = viewing.visible
    BY <1>5, <1>7 DEF ViewingOk
  <2> QED BY <1>2, <1>4, <1>7, <2>1, RemovedSafe
<1> QED BY <1>2, <1>6, <1>7

LEMMA RemovalFailedSafe == ASSUME GridInv, NEW i \in DOMAIN jobs, NEW lost \in BOOLEAN, RemovalFailed(i, lost) PROVE GridInv'
<1>1. jobs[i].op = "delete" /\ jobs' = RemoveAt(jobs, i)
  BY DEF RemovalFailed, At, Ends
<1>2. jobs' \in Seq(GridJobs) /\ FirstsFit(grid, jobs')
  BY <1>1, GridNow, GridJobsLess
<1>3. CASE lost
  <2>1. /\ stock' = stock \ {jobs[i].photo} /\ grid' = Unseen(grid, jobs[i])
        /\ viewing' = [viewing EXCEPT !.slipped = TRUE]
    BY <1>3 DEF RemovalFailed
  <2>2. /\ viewing' \in Viewings /\ viewing'.visible = viewing.visible /\ viewing'.slipped
        /\ viewing'.assets = viewing.assets /\ viewing'.index = viewing.index /\ viewing'.closing = viewing.closing
    BY <2>1, GridNow DEF Viewings
  <2>3. ViewingOk(viewing', stock')
    BY <2>2, GridNow DEF ViewingOk
  <2> QED BY <1>2, <2>1, <2>2, <2>3, RemovedSafe
<1>4. CASE ~lost
  <2>1. UNCHANGED <<stock, grid, viewing>>
    BY <1>4 DEF RemovalFailed, gridVars
  <2>2. SameWindow(grid', grid)
    BY <2>1, GridNow, SameWindowItself
  <2>3. ~Restarts(jobs[i])
    BY <1>1 DEF Restarts
  <2> QED BY <1>1, <2>1, <2>2, <2>3, EndedStays
<1> QED BY <1>3, <1>4

(* ------------------------- every step of a grid -------------------------- *)

LEMMA GridGoesOn == ASSUME GridInv, GridNext PROVE GridInv'
<1>1. CASE TokenBumped \/ EndReached \/ PullDown \/ RetryGrid
  BY <1>1, TokenBumpedSafe, EndReachedSafe, PullDownSafe
<1>2. CASE ClosePlayer
  <2>1. grid' = [grid EXCEPT !["playing"] = Nil] /\ stock' = stock /\ viewing' = viewing /\ jobs' = jobs
    BY <1>2 DEF ClosePlayer
  <2> QED BY <2>1, PlayerSafe
<1>3. CASE RequestClose \/ FinishClose \/ AskRemoval
  BY <1>3, RequestCloseSafe, FinishCloseSafe, AskRemovalSafe
<1>4. CASE \E chip \in Chips, order \in Orders : PickChip(chip, order)
  BY <1>4, PickChipSafe
<1>5. CASE \E month \in {MonthOf(t) : t \in Instants} : JumpTo(month)
  BY <1>5, JumpToSafe DEF RailMonths
<1>6. CASE \E t \in Instants : PhotoArrives(t) \/ OpenGridPhoto(t)
  <2>1. \A t \in Instants : t \in Dates
    BY DEF Dates
  <2> QED BY <1>6, <2>1, PhotoArrivesSafe, OpenGridPhotoSafe
<1>7. CASE \E k \in DOMAIN viewing.assets : SwipeTo(k)
  BY <1>7, SwipeToSafe
<1>8. CASE \E ok \in BOOLEAN : AnswerRemoval(ok)
  BY <1>8, AnswerRemovalSafe
<1>9. CASE \E i \in DOMAIN jobs : LoadBack(i) \/ LoadFailed(i) \/ JumpBack(i) \/ JumpFailed(i) \/ RemovalDone(i)
  BY <1>9, LoadBackSafe, LoadFailedSafe, JumpBackSafe, JumpFailedSafe, RemovalDoneSafe
<1>10. CASE \E i \in DOMAIN jobs, ok \in BOOLEAN : FirstPageBack(i, ok) \/ BucketsBack(i, ok) \/ RemovalFailed(i, ok)
  BY <1>10, FirstPageBackSafe, BucketsBackSafe, RemovalFailedSafe
<1> QED BY <1>1, <1>2, <1>3, <1>4, <1>5, <1>6, <1>7, <1>8, <1>9, <1>10, Zenon DEF GridNext

LEMMA GridBegins == ASSUME GridInit PROVE GridInv
<1>1. stock \in SUBSET Dates /\ viewing = NoViewing
  BY DEF GridInit, Dates, Instants
<1>2. PICK none : none = <<>>
  OBVIOUS
<1>3. none \in Seq(Dates) /\ DOMAIN none = {}
  BY <1>2
<1>4. NoViewing = [visible |-> FALSE, closing |-> FALSE, assets |-> none, index |-> 1, asking |-> Nil, slipped |-> FALSE]
  BY <1>2 DEF NoViewing
<1>5. ViewingOk(viewing, stock)
  BY <1>1, <1>2, <1>3, <1>4 DEF ViewingOk, Viewings
<1>6. "All" \in Chips /\ "desc" \in Orders /\ 0 \in Nat
  BY DEF Chips, Orders
<1>7. NoGrid = [of |-> "gallery", chip |-> "All", order |-> "desc", status |-> "loading", items |-> none, page |-> 0,
                total |-> 0, more |-> FALSE, months |-> Nil, anchor |-> Nil, refreshing |-> FALSE, playing |-> Nil,
                known |-> {}, slips |-> {}]
  BY <1>2 DEF NoGrid
<1>8. NoGrid.chip = "All" /\ NoGrid.order = "desc" /\ NoGrid.status = "loading" /\ NoGrid.items = none /\ NoGrid.page = 0
      /\ GridFields \subseteq DOMAIN NoGrid
  BY <1>7 DEF GridFields
<1>9. GridKept(NoGrid)
  BY <1>3, <1>6, <1>8 DEF GridKept
<1>10. CASE grid = NoGrid /\ jobs = <<BucketsAsked(NoGrid), EffectAsked(NoGrid)>>
  <2>1. PICK b, f : b = BucketsAsked(NoGrid) /\ f = EffectAsked(NoGrid)
    OBVIOUS
  <2>2. b \in BucketJobs /\ f \in FirstJobs /\ f.chip = NoGrid.chip /\ f.order = NoGrid.order
    BY <1>6, <1>8, <2>1, OthersAskedAre
  <2>3. b \in GridJobs /\ f \in GridJobs /\ b.op = "buckets"
    BY <2>2 DEF GridJobs, BucketJobs
  <2>4. jobs = <<b, f>>
    BY <1>10, <2>1
  <2>5. jobs \in Seq(GridJobs) /\ FirstsFit(grid, jobs)
    BY <1>10, <2>2, <2>3, <2>4 DEF FirstsFit
  <2>6. GridKept(grid) /\ grid.status # "ready"
    BY <1>8, <1>9, <1>10
  <2> QED BY <1>1, <1>5, <2>5, <2>6 DEF GridInv
<1>11. CASE grid = [NoGrid EXCEPT !.of = "person"] /\ jobs = <<PageAsked(1, NoGrid)>>
  <2>1. grid = [NoGrid EXCEPT !["of"] = "person"]
    BY <1>11
  <2>2. SameWindow(grid, NoGrid)
    BY <1>8, <2>1, FieldApart DEF GridFields
  <2>3. GridKept(grid) /\ grid.status # "ready"
    BY <1>8, <1>9, <2>2 DEF GridKept, SameWindow
  <2>4. 1 \in Nat \ {0}
    OBVIOUS
  <2>5. PICK p : p = PageAsked(1, NoGrid)
    OBVIOUS
  <2>6. p \in LoadJobs
    BY <1>6, <1>8, <2>4, <2>5, PageAskedIs
  <2>7. p \in GridJobs /\ p.op # "first"
    BY <2>6 DEF GridJobs, LoadJobs
  <2>8. jobs = <<p>>
    BY <1>11, <2>5
  <2>9. jobs \in Seq(GridJobs) /\ FirstsFit(grid, jobs)
    BY <2>7, <2>8 DEF FirstsFit
  <2> QED BY <1>1, <1>5, <2>3, <2>9 DEF GridInv
<1> QED BY <1>10, <1>11 DEF GridInit

LEMMA GridInvShows == ASSUME GridInv PROVE GridFollows
<1>1. ASSUME grid.status = "ready", grid.slips = {}, ~viewing.visible, ~StartsOver(jobs)
      PROVE  /\ \A i, k \in DOMAIN grid.items : i < k => Ahead(grid.order, grid.items[i], grid.items[k])
             /\ ToSet(grid.items) \subseteq ChipKeeps(stock, grid.chip)
             /\ grid.items # <<>> =>
                  \A t \in ToSet(Ranged(grid.known \cap stock, grid.chip, grid.order, grid.anchor)) :
                    t \in ToSet(grid.items) \/ Ahead(grid.order, Last(grid.items), t)
  <2>1. Window(grid, stock)
    BY <1>1 DEF GridInv
  <2> DEFINE K == grid.known \cap stock
             P == {t \in ChipKeeps(K, grid.chip) : InRange(t, grid.order, grid.anchor)}
  <2>2. K = grid.known /\ K \in SUBSET Dates
    BY <2>1, GridNow DEF Window, Whole
  <2>3. P \in SUBSET Dates
    BY <2>2, GridNow, ChipIs
  <2>4. PICK s : s = Ranged(K, grid.chip, grid.order, grid.anchor)
    OBVIOUS
  <2>5. s = InOrder(P, grid.order)
    BY <2>4 DEF Ranged
  <2>6. \A t \in P : t \in ChipKeeps(grid.known, grid.chip) /\ InRange(t, grid.order, grid.anchor)
    BY <2>2
  <2> HIDE DEF K, P
  <2>7. s \in Seq(P)
    BY <2>3, <2>5, ListingIs
  <2>8. \A t \in ToSet(s) : t \in P
    BY <2>7 DEF ToSet
  <2>9. grid.items # <<>> => \A t \in ToSet(s) : t \in ToSet(grid.items) \/ Ahead(grid.order, Last(grid.items), t)
    BY <2>1, <2>6, <2>8 DEF Window, Whole
  <2>10. grid.items # <<>> =>
           \A t \in ToSet(Ranged(grid.known \cap stock, grid.chip, grid.order, grid.anchor)) :
             t \in ToSet(grid.items) \/ Ahead(grid.order, Last(grid.items), t)
    BY <2>4, <2>9 DEF K
  <2>11. Sorted(grid.order, grid.items) /\ ToSet(grid.items) \subseteq ChipKeeps(stock, grid.chip)
    BY <2>1 DEF Window, Whole
  <2> QED BY <2>10, <2>11 DEF Sorted
<1>2. ASSUME viewing.visible, ~viewing.slipped
      PROVE  ToSet(viewing.assets) \subseteq stock /\ (viewing.index \in DOMAIN viewing.assets \/ viewing.closing)
  BY <1>2, GridNow DEF ViewingOk
<1> QED BY <1>1, <1>2, Zenon DEF GridFollows

(* For any number of photos, videos, arrivals, taps, requests in flight and
   mishaps, and however late each is answered: unless one of the known slips
   is noted, a grid of the phone shows its filter's listing from the start (or
   from where it jumped), in order and with nothing left out, and the viewer
   over it stands on a photo that exists (load, jumpToMonth and onEndReached
   of CloudGallery, removeCurrentFromList of the viewer). *)
THEOREM GridShows == LibrarySpec => []GridFollows
<1> DEFINE Inv == IF GridView THEN GridInv ELSE viewing = NoViewing
<1>1. LibraryInit => Inv
  BY GridBegins DEF LibraryInit, GridView, GridIdle
<1>2. Inv /\ [LibraryNext]_libraryVars => Inv'
  <2> SUFFICES ASSUME Inv, [LibraryNext]_libraryVars PROVE Inv'
    OBVIOUS
  <2>1. area' = area /\ (GridView' <=> GridView)
    BY DEF LibraryNext, libraryVars, jobVars, GridView
  <2>2. CASE GridView
    <3>1. GridInv
      BY <2>2
    <3>2. CASE InGrid
      BY <2>1, <2>2, <3>1, <3>2, GridGoesOn DEF InGrid
    <3>3. CASE UNCHANGED libraryVars
      <4>1. UNCHANGED <<stock, grid, viewing, jobs>>
        BY <3>3 DEF libraryVars, jobVars, gridVars
      <4>2. GridInv'
        BY <3>1, <4>1 DEF GridInv, GridKept, FirstsFit, ViewingOk, StartsOver, Window
      <4> QED BY <2>1, <2>2, <4>2
    <3>4. ~(InVault \/ InImport \/ InUpload \/ InGallery \/ InFeed)
      BY <2>2 DEF GridView, InVault, InImport, InUpload, InGallery, InFeed
    <3> QED BY <3>2, <3>3, <3>4 DEF LibraryNext
  <2>3. CASE ~GridView
    <3>1. viewing = NoViewing /\ ~InGrid
      BY <2>3 DEF GridView, InGrid
    <3>2. viewing' = viewing
      BY <3>1 DEF LibraryNext, libraryVars, gridVars, InVault, InImport, InUpload, InGallery, InFeed
    <3> QED BY <2>1, <2>3, <3>1, <3>2
  <2> QED BY <2>2, <2>3
<1>3. Inv => GridFollows
  <2>1. CASE GridView
    BY <2>1, GridInvShows
  <2>2. CASE ~GridView
    BY <2>2 DEF GridFollows
  <2> QED BY <2>1, <2>2
<1> QED BY <1>1, <1>2, <1>3, PTL DEF LibrarySpec

(* ----------------------- two lists merged into one ----------------------- *)

Corners(ds, cs) == (1..Len(ds) + 1) \X (1..Len(cs) + 1)
FromFirst(ds, cs, order, at) == at[2] > Len(cs) \/ (at[1] <= Len(ds) /\ ~Ahead(order, cs[at[2]], ds[at[1]]))
Foremost(ds, cs, order, at) == IF FromFirst(ds, cs, order, at) THEN ds[at[1]] ELSE cs[at[2]]
Onward(ds, cs, order, at) == IF FromFirst(ds, cs, order, at) THEN <<at[1] + 1, at[2]>> ELSE <<at[1], at[2] + 1>>
ZipEnds(ds, cs, order, bound, at) ==
  (at[1] > Len(ds) /\ at[2] > Len(cs)) \/ Ahead(order, bound, Foremost(ds, cs, order, at))
ZipStep(g, ds, cs, order, bound, at) ==
  IF ZipEnds(ds, cs, order, bound, at) THEN <<>>
  ELSE <<Foremost(ds, cs, order, at)>> \o g[Onward(ds, cs, order, at)]
IsZip(g, ds, cs, order, bound) == g = [at \in Corners(ds, cs) |-> ZipStep(g, ds, cs, order, bound, at)]
ZipLeft(ds, cs, at) == (Len(ds) + 1 - at[1]) + (Len(cs) + 1 - at[2])

LEMMA OnwardIs ==
  ASSUME NEW ds \in Seq(Dates), NEW cs \in Seq(Dates), NEW order, NEW at \in Corners(ds, cs)
  PROVE  /\ ZipLeft(ds, cs, at) \in Nat
         /\ ~(at[1] > Len(ds) /\ at[2] > Len(cs)) =>
              /\ Onward(ds, cs, order, at) \in Corners(ds, cs)
              /\ ZipLeft(ds, cs, Onward(ds, cs, order, at)) = ZipLeft(ds, cs, at) - 1
              /\ IF FromFirst(ds, cs, order, at) THEN at[1] \in DOMAIN ds ELSE at[2] \in DOMAIN cs
<1>1. Len(ds) \in Nat /\ Len(cs) \in Nat /\ DOMAIN ds = 1..Len(ds) /\ DOMAIN cs = 1..Len(cs)
  OBVIOUS
<1>2. PICK d \in 1..Len(ds) + 1, c \in 1..Len(cs) + 1 : at = <<d, c>>
  BY DEF Corners
<1>3. at[1] = d /\ at[2] = c
  BY <1>2
<1>4. ZipLeft(ds, cs, at) \in Nat
  BY <1>1, <1>3 DEF ZipLeft
<1>5. CASE FromFirst(ds, cs, order, at) /\ ~(d > Len(ds) /\ c > Len(cs))
  <2>1. d <= Len(ds)
    BY <1>3, <1>5 DEF FromFirst
  <2>2. Onward(ds, cs, order, at) = <<d + 1, c>>
    BY <1>3, <1>5 DEF Onward
  <2>3. <<d + 1, c>> \in Corners(ds, cs) /\ ZipLeft(ds, cs, <<d + 1, c>>) = ZipLeft(ds, cs, at) - 1
    BY <1>1, <1>3, <2>1 DEF Corners, ZipLeft
  <2> QED BY <1>1, <1>3, <1>4, <1>5, <2>1, <2>2, <2>3
<1>6. CASE ~FromFirst(ds, cs, order, at)
  <2>1. c <= Len(cs)
    BY <1>1, <1>3, <1>6 DEF FromFirst
  <2>2. Onward(ds, cs, order, at) = <<d, c + 1>>
    BY <1>3, <1>6 DEF Onward
  <2>3. <<d, c + 1>> \in Corners(ds, cs) /\ ZipLeft(ds, cs, <<d, c + 1>>) = ZipLeft(ds, cs, at) - 1
    BY <1>1, <1>3, <2>1 DEF Corners, ZipLeft
  <2> QED BY <1>1, <1>3, <1>4, <1>6, <2>1, <2>2, <2>3
<1> QED BY <1>3, <1>4, <1>5, <1>6

(* The merge is there: what is left of the two lists gets shorter. *)
LEMMA ZipExists ==
  ASSUME NEW ds \in Seq(Dates), NEW cs \in Seq(Dates), NEW order, NEW bound
  PROVE  \E g : IsZip(g, ds, cs, order, bound)
<1> DEFINE W == Corners(ds, cs)
           go(g, at) == ZipStep(g, ds, cs, order, bound, at)
           left(at) == ZipLeft(ds, cs, at)
           Upto(n) == \E g : g = [at \in W |-> g[at]] /\ \A at \in W : left(at) < n => g[at] = go(g, at)
           Bad == {n \in Nat : ~Upto(n)}
<1>1. \A at \in W : left(at) \in Nat
  BY OnwardIs
<1>2. \A g, h, at : at \in W /\ (~ZipEnds(ds, cs, order, bound, at) => g[Onward(ds, cs, order, at)] = h[Onward(ds, cs, order, at)])
                      => go(g, at) = go(h, at)
  BY DEF ZipStep
<1>3. \A at \in W : ~ZipEnds(ds, cs, order, bound, at) =>
         Onward(ds, cs, order, at) \in W /\ left(Onward(ds, cs, order, at)) = left(at) - 1
  BY OnwardIs DEF ZipEnds
<1>4. Upto(0)
  <2> DEFINE g == [at \in W |-> <<>>]
  <2>1. g = [at \in W |-> g[at]]
    OBVIOUS
  <2>2. \A at \in W : ~(left(at) < 0)
    <3> HIDE DEF left, W
    <3> QED BY <1>1
  <2> HIDE DEF g, W, left, go
  <2> QED BY <2>1, <2>2
<1>5. ASSUME NEW n \in Nat, Upto(n) PROVE Upto(n + 1)
  <2>1. PICK g : g = [at \in W |-> g[at]] /\ \A at \in W : left(at) < n => g[at] = go(g, at)
    BY <1>5
  <2> DEFINE h == [at \in W |-> go(g, at)]
  <2>2. \A at \in W : h[at] = go(g, at)
    BY Zenon
  <2>3. h = [at \in W |-> h[at]]
    BY Zenon
  <2> HIDE DEF h, W, go, left
  <2>4. ASSUME NEW at \in W, left(at) < n + 1 PROVE h[at] = go(h, at)
    <3>1. ~ZipEnds(ds, cs, order, bound, at) => g[Onward(ds, cs, order, at)] = h[Onward(ds, cs, order, at)]
      <4>1. SUFFICES ASSUME ~ZipEnds(ds, cs, order, bound, at)
                     PROVE  g[Onward(ds, cs, order, at)] = h[Onward(ds, cs, order, at)]
        OBVIOUS
      <4>2. PICK u \in W : u = Onward(ds, cs, order, at) /\ left(u) = left(at) - 1
        BY <1>3, <4>1
      <4>3. left(u) < n
        BY <1>1, <2>4, <4>2
      <4> QED BY <2>1, <2>2, <4>2, <4>3
    <3>2. go(g, at) = go(h, at)
      BY <1>2, <3>1, Zenon
    <3> QED BY <2>2, <3>2
  <2> QED BY <2>3, <2>4
<1> HIDE DEF Upto
<1>6. Bad = {}
  <2>1. SUFFICES ASSUME Bad # {} PROVE FALSE
    OBVIOUS
  <2>2. PICK n \in Bad : \A m \in Bad : n <= m
    BY <2>1, LeastOf
  <2>3. n \in Nat /\ ~Upto(n) /\ n # 0
    BY <1>4, <2>2
  <2>4. n - 1 \in Nat /\ (n - 1) + 1 = n /\ n - 1 \notin Bad
    BY <2>2, <2>3
  <2> QED BY <1>5, <2>3, <2>4
<1>7. Len(ds) \in Nat /\ Len(cs) \in Nat
  OBVIOUS
<1>8. Upto(Len(ds) + Len(cs) + 1)
  BY <1>6, <1>7
<1>9. PICK g : g = [at \in W |-> g[at]] /\ \A at \in W : left(at) < Len(ds) + Len(cs) + 1 => g[at] = go(g, at)
  BY <1>8 DEF Upto
<1>10. \A at \in W : left(at) < Len(ds) + Len(cs) + 1
  <2> SUFFICES ASSUME NEW at \in W PROVE left(at) < Len(ds) + Len(cs) + 1
    OBVIOUS
  <2>1. at[1] \in 1..Len(ds) + 1 /\ at[2] \in 1..Len(cs) + 1
    BY DEF Corners
  <2> QED BY <1>7, <2>1 DEF ZipLeft
<1>11. g = [at \in W |-> go(g, at)]
  <2> HIDE DEF go, left, W
  <2>1. \A at \in W : g[at] = go(g, at)
    BY <1>9, <1>10
  <2> QED BY <1>9, <2>1, Zenon
<1> QED BY <1>11 DEF IsZip

(* What is left of a list from a place on. *)
ItemsFrom(s, k) == {s[m] : m \in {i \in DOMAIN s : i >= k}}
Remaining(ds, cs, at) == ItemsFrom(ds, at[1]) \cup ItemsFrom(cs, at[2])

LEMMA FromIs ==
  ASSUME NEW order, NEW s \in Seq(Dates), Sorted(order, s), NEW k \in 1..Len(s) + 1
  PROVE  /\ ItemsFrom(s, k) \subseteq Dates
         /\ k > Len(s) => ItemsFrom(s, k) = {}
         /\ k = 1 => ItemsFrom(s, k) = ToSet(s)
         /\ k <= Len(s) => /\ k \in DOMAIN s /\ k + 1 \in 1..Len(s) + 1
                           /\ s[k] \in Dates /\ ItemsFrom(s, k) = {s[k]} \cup ItemsFrom(s, k + 1)
                           /\ \A t \in ItemsFrom(s, k + 1) : Ahead(order, s[k], t)
<1>1. Len(s) \in Nat /\ DOMAIN s = 1..Len(s) /\ \A n \in DOMAIN s : s[n] \in Dates
  BY EntriesIn
<1>2. ItemsFrom(s, k) \subseteq Dates
  BY <1>1 DEF ItemsFrom
<1>3. k > Len(s) => ItemsFrom(s, k) = {}
  BY <1>1 DEF ItemsFrom
<1>4. k = 1 => ItemsFrom(s, k) = ToSet(s)
  <2>1. \A i \in DOMAIN s : i >= 1
    BY <1>1
  <2>2. k = 1 => {i \in DOMAIN s : i >= k} = DOMAIN s
    BY <2>1
  <2> QED BY <2>2 DEF ItemsFrom, ToSet
<1>5. ASSUME k <= Len(s)
      PROVE  /\ k \in DOMAIN s /\ k + 1 \in 1..Len(s) + 1
             /\ s[k] \in Dates /\ ItemsFrom(s, k) = {s[k]} \cup ItemsFrom(s, k + 1)
             /\ \A t \in ItemsFrom(s, k + 1) : Ahead(order, s[k], t)
  <2>1. k \in DOMAIN s /\ k + 1 \in 1..Len(s) + 1
    BY <1>1, <1>5
  <2>2. \A i \in DOMAIN s : i >= k <=> i = k \/ i >= k + 1
    BY <1>1
  <2>3. ItemsFrom(s, k) = {s[k]} \cup ItemsFrom(s, k + 1)
    BY <2>1, <2>2 DEF ItemsFrom
  <2>4. \A m \in DOMAIN s : m >= k + 1 => Ahead(order, s[k], s[m])
    BY <1>1, <2>1 DEF Sorted
  <2>5. \A t \in ItemsFrom(s, k + 1) : Ahead(order, s[k], t)
    BY <2>4 DEF ItemsFrom
  <2> QED BY <1>1, <2>1, <2>3, <2>5
<1> QED BY <1>2, <1>3, <1>4, <1>5

(* The foremost of what is left is ahead of the rest. *)
LEMMA ForemostIs ==
  ASSUME NEW order, NEW ds \in Seq(Dates), NEW cs \in Seq(Dates), Sorted(order, ds), Sorted(order, cs),
         ToSet(ds) \cap ToSet(cs) = {}, NEW at \in Corners(ds, cs), ~(at[1] > Len(ds) /\ at[2] > Len(cs)),
         NEW p, p = Foremost(ds, cs, order, at), NEW next, next = Onward(ds, cs, order, at)
  PROVE  /\ p \in Dates /\ Remaining(ds, cs, at) = {p} \cup Remaining(ds, cs, next)
         /\ \A t \in Remaining(ds, cs, next) : t \in Dates /\ Ahead(order, p, t)
<1>1. PICK d \in 1..Len(ds) + 1, c \in 1..Len(cs) + 1 : at = <<d, c>>
  BY DEF Corners
<1>2. at[1] = d /\ at[2] = c /\ Len(ds) \in Nat /\ Len(cs) \in Nat
  BY <1>1
<1>3. ItemsFrom(ds, d) \subseteq Dates /\ ItemsFrom(cs, c) \subseteq Dates /\ (c > Len(cs) => ItemsFrom(cs, c) = {}) /\ (d > Len(ds) => ItemsFrom(ds, d) = {})
  BY FromIs
<1>4. \A t \in ItemsFrom(ds, d) : t \in ToSet(ds)
  BY DEF ItemsFrom, ToSet
<1>5. \A t \in ItemsFrom(cs, c) : t \in ToSet(cs)
  BY DEF ItemsFrom, ToSet
<1>6. CASE FromFirst(ds, cs, order, at)
  <2>1. d <= Len(ds) /\ (c <= Len(cs) => ~Ahead(order, cs[c], ds[d]))
    BY <1>2, <1>6 DEF FromFirst
  <2>2. p = ds[d] /\ next = <<d + 1, c>>
    BY <1>2, <1>6 DEF Foremost, Onward
  <2>3. /\ d \in DOMAIN ds /\ d + 1 \in 1..Len(ds) + 1 /\ p \in Dates /\ ItemsFrom(ds, d) = {p} \cup ItemsFrom(ds, d + 1)
        /\ \A t \in ItemsFrom(ds, d + 1) : Ahead(order, p, t)
    BY <2>1, <2>2, FromIs
  <2>4. Remaining(ds, cs, at) = ItemsFrom(ds, d) \cup ItemsFrom(cs, c) /\ Remaining(ds, cs, next) = ItemsFrom(ds, d + 1) \cup ItemsFrom(cs, c)
    BY <1>2, <2>2 DEF Remaining
  <2>5. \A t \in ItemsFrom(cs, c) : Ahead(order, p, t)
    <3>1. CASE c > Len(cs)
      BY <1>3, <3>1
    <3>2. CASE c <= Len(cs)
      <4>1. cs[c] \in Dates /\ ItemsFrom(cs, c) = {cs[c]} \cup ItemsFrom(cs, c + 1) /\ \A t \in ItemsFrom(cs, c + 1) : Ahead(order, cs[c], t)
        BY <3>2, FromIs
      <4>2. p # cs[c]
        BY <1>4, <1>5, <2>3, <4>1
      <4>3. Ahead(order, p, cs[c])
        BY <2>1, <2>2, <2>3, <3>2, <4>1, <4>2, AheadOrders
      <4>4. \A t \in ItemsFrom(cs, c + 1) : t \in Dates
        BY <1>3, <4>1
      <4> QED BY <2>3, <4>1, <4>3, <4>4, AheadOrders
    <3> QED BY <1>2, <3>1, <3>2
  <2> QED BY <1>3, <2>3, <2>4, <2>5
<1>7. CASE ~FromFirst(ds, cs, order, at)
  <2>1. c <= Len(cs) /\ (d <= Len(ds) => Ahead(order, cs[c], ds[d]))
    BY <1>2, <1>7 DEF FromFirst
  <2>2. p = cs[c] /\ next = <<d, c + 1>>
    BY <1>2, <1>7 DEF Foremost, Onward
  <2>3. /\ c \in DOMAIN cs /\ c + 1 \in 1..Len(cs) + 1 /\ p \in Dates /\ ItemsFrom(cs, c) = {p} \cup ItemsFrom(cs, c + 1)
        /\ \A t \in ItemsFrom(cs, c + 1) : Ahead(order, p, t)
    BY <2>1, <2>2, FromIs
  <2>4. Remaining(ds, cs, at) = ItemsFrom(ds, d) \cup ItemsFrom(cs, c) /\ Remaining(ds, cs, next) = ItemsFrom(ds, d) \cup ItemsFrom(cs, c + 1)
    BY <1>2, <2>2 DEF Remaining
  <2>5. \A t \in ItemsFrom(ds, d) : Ahead(order, p, t)
    <3>1. CASE d > Len(ds)
      BY <1>3, <3>1
    <3>2. CASE d <= Len(ds)
      <4>1. ds[d] \in Dates /\ ItemsFrom(ds, d) = {ds[d]} \cup ItemsFrom(ds, d + 1) /\ \A t \in ItemsFrom(ds, d + 1) : Ahead(order, ds[d], t)
        BY <3>2, FromIs
      <4>2. Ahead(order, p, ds[d])
        BY <2>1, <2>2, <3>2
      <4>3. \A t \in ItemsFrom(ds, d + 1) : t \in Dates
        BY <1>3, <4>1
      <4> QED BY <2>3, <4>1, <4>2, <4>3, AheadOrders
    <3> QED BY <1>2, <3>1, <3>2
  <2> QED BY <1>3, <2>3, <2>4, <2>5
<1> QED BY <1>6, <1>7

LEMMA LedSorted ==
  ASSUME NEW order, NEW p \in Dates, NEW s \in Seq(Dates), Sorted(order, s), \A t \in ToSet(s) : Ahead(order, p, t)
  PROVE  /\ <<p>> \o s \in Seq(Dates) /\ Sorted(order, <<p>> \o s)
         /\ \A t : t \in ToSet(<<p>> \o s) <=> t = p \/ t \in ToSet(s)
<1>1. PICK one : one = <<p>>
  OBVIOUS
<1>2. one \in Seq(Dates) /\ DOMAIN one = {1} /\ one[1] = p
  BY <1>1
<1>3. Sorted(order, one) /\ \A t : t \in ToSet(one) <=> t = p
  BY <1>2 DEF Sorted, ToSet
<1>4. one \o s \in Seq(Dates) /\ \A t : t \in ToSet(one \o s) <=> t \in ToSet(one) \/ t \in ToSet(s)
  BY <1>2, JoinedSet
<1>5. Sorted(order, one \o s)
  BY <1>2, <1>3, JoinedSorted
<1> QED BY <1>1, <1>3, <1>4, <1>5

(* Two lists in order make one in order, of all that is within the bound. *)
LEMMA ZippedIs ==
  ASSUME NEW order, NEW ds \in Seq(Dates), NEW cs \in Seq(Dates), Sorted(order, ds), Sorted(order, cs),
         ToSet(ds) \cap ToSet(cs) = {}, NEW bound \in Nat, NEW z, z = Zipped(ds, cs, order, bound)
  PROVE  /\ z \in Seq(Dates) /\ Sorted(order, z)
         /\ \A t : t \in ToSet(z) <=> t \in ToSet(ds) \cup ToSet(cs) /\ ~Ahead(order, bound, t)
<1> DEFINE W == Corners(ds, cs)
           left(at) == ZipLeft(ds, cs, at)
           all(at) == Remaining(ds, cs, at)
           Ok(s, at) == /\ s \in Seq(Dates) /\ Sorted(order, s)
                        /\ \A t : t \in ToSet(s) <=> t \in all(at) /\ ~Ahead(order, bound, t)
<1>1. PICK zip : zip = CHOOSE g : g = [at \in W |-> ZipStep(g, ds, cs, order, bound, at)]
  OBVIOUS
<1>2. z = zip[<<1, 1>>]
  BY <1>1, Zenon DEF Zipped, Corners, ZipStep, ZipEnds, Onward, Foremost, FromFirst
<1>3. zip = [at \in W |-> ZipStep(zip, ds, cs, order, bound, at)]
  <2>1. \E g : IsZip(g, ds, cs, order, bound)
    BY ZipExists
  <2> QED BY <1>1, <2>1, Zenon DEF IsZip
<1>4. \A at \in W : zip[at] = ZipStep(zip, ds, cs, order, bound, at)
  BY <1>3, Zenon
<1>5. \A t \in Dates, u \in Dates : ~Ahead(order, t, u) \/ ~Ahead(order, bound, t) \/ Ahead(order, bound, u)
  <2>1. \A t \in Dates : t \in Nat
    BY DatesCounted
  <2> QED BY <2>1 DEF Ahead
<1>6. ASSUME NEW at \in W,
             \A u \in W : left(u) = left(at) - 1 => Ok(zip[u], u)
      PROVE  Ok(zip[at], at)
  <2>1. zip[at] = ZipStep(zip, ds, cs, order, bound, at)
    BY <1>4
  <2>2. CASE at[1] > Len(ds) /\ at[2] > Len(cs)
    <3>1. zip[at] = <<>>
      BY <2>1, <2>2 DEF ZipStep, ZipEnds
    <3>2. at[1] \in 1..Len(ds) + 1 /\ at[2] \in 1..Len(cs) + 1
      BY DEF Corners
    <3>3. all(at) = {}
      BY <2>2, <3>2, FromIs DEF Remaining
    <3> HIDE DEF all
    <3>4. <<>> \in Seq(Dates) /\ ToSet(<<>>) = {} /\ Sorted(order, <<>>)
      BY DEF ToSet, Sorted
    <3> QED BY <3>1, <3>3, <3>4
  <2>3. CASE ~(at[1] > Len(ds) /\ at[2] > Len(cs))
    <3>1. PICK p, next : p = Foremost(ds, cs, order, at) /\ next = Onward(ds, cs, order, at)
      OBVIOUS
    <3>2. /\ p \in Dates /\ all(at) = {p} \cup all(next)
          /\ \A t \in all(next) : t \in Dates /\ Ahead(order, p, t)
      BY <2>3, <3>1, ForemostIs
    <3>3. CASE Ahead(order, bound, p)
      <4>1. zip[at] = <<>>
        BY <2>1, <3>1, <3>3 DEF ZipStep, ZipEnds
      <4> HIDE DEF all
      <4>2. \A t \in all(at) : Ahead(order, bound, t)
        BY <1>5, <3>2, <3>3
      <4>3. <<>> \in Seq(Dates) /\ ToSet(<<>>) = {} /\ Sorted(order, <<>>)
        BY DEF ToSet, Sorted
      <4> QED BY <4>1, <4>2, <4>3
    <3>4. CASE ~Ahead(order, bound, p)
      <4>1. PICK rest : rest = zip[next]
        OBVIOUS
      <4>2. zip[at] = <<p>> \o rest
        BY <2>1, <2>3, <3>1, <3>4, <4>1 DEF ZipStep, ZipEnds
      <4>3. next \in W /\ left(next) = left(at) - 1
        BY <2>3, <3>1, OnwardIs
      <4>4. Ok(rest, next)
        BY <1>6, <4>1, <4>3
      <4> HIDE DEF all, W, left
      <4>5. \A t \in ToSet(rest) : Ahead(order, p, t)
        BY <3>2, <4>4
      <4>6. /\ <<p>> \o rest \in Seq(Dates) /\ Sorted(order, <<p>> \o rest)
            /\ \A t : t \in ToSet(<<p>> \o rest) <=> t = p \/ t \in ToSet(rest)
        BY <3>2, <4>4, <4>5, LedSorted
      <4>7. \A t : t \in ToSet(zip[at]) <=> t \in all(at) /\ ~Ahead(order, bound, t)
        BY <3>2, <3>4, <4>2, <4>4, <4>6
      <4> QED BY <4>2, <4>6, <4>7
    <3> QED BY <3>3, <3>4
  <2> QED BY <2>2, <2>3
<1> DEFINE Bad == {n \in Nat : \E at \in W : left(at) = n /\ ~Ok(zip[at], at)}
<1>7. \A at \in W : left(at) \in Nat
  BY OnwardIs
<1> HIDE DEF Ok, left, W
<1>8. Bad = {}
  <2>1. SUFFICES ASSUME Bad # {} PROVE FALSE
    OBVIOUS
  <2>2. PICK n \in Bad : \A m \in Bad : n <= m
    BY <2>1, LeastOf
  <2>3. PICK at \in W : left(at) = n /\ ~Ok(zip[at], at)
    BY <2>2
  <2>4. n \in Nat
    BY <2>2
  <2>5. ASSUME NEW u \in W, left(u) = left(at) - 1 PROVE Ok(zip[u], u)
    <3>1. left(u) \in Nat /\ ~(n <= left(u))
      BY <1>7, <2>3, <2>4, <2>5
    <3> QED BY <2>2, <3>1
  <2> QED BY <1>6, <2>3, <2>5
<1>9. <<1, 1>> \in W /\ all(<<1, 1>>) = ToSet(ds) \cup ToSet(cs)
  <2>1. Len(ds) \in Nat /\ Len(cs) \in Nat
    OBVIOUS
  <2>2. 1 \in 1..Len(ds) + 1 /\ 1 \in 1..Len(cs) + 1
    BY <2>1
  <2>3. ItemsFrom(ds, 1) = ToSet(ds) /\ ItemsFrom(cs, 1) = ToSet(cs)
    BY <2>2, FromIs
  <2> QED BY <2>2, <2>3 DEF Remaining, W, Corners
<1>10. Ok(z, <<1, 1>>)
  BY <1>2, <1>7, <1>8, <1>9
<1> QED BY <1>9, <1>10 DEF Ok

(* ------------------------- pages of the two sources ---------------------- *)

(* A list without some of its photos. *)
LEMMA ExceptIs ==
  ASSUME NEW order, NEW ps \in Seq(Dates), Sorted(order, ps), NEW S, NEW q, q = Except(ps, S)
  PROVE  /\ q \in Seq(Dates) /\ Sorted(order, q)
         /\ \A t : t \in ToSet(q) <=> t \in ToSet(ps) /\ t \notin S
<1> DEFINE I == {i \in DOMAIN ps : ps[i] \notin S}
<1>2. q = Sifted(ps, I) /\ I \in SUBSET DOMAIN ps
  BY DEF Except
<1>3. \A i \in I : i \in DOMAIN ps /\ ps[i] \notin S
  OBVIOUS
<1>4. \A i \in DOMAIN ps : ps[i] \notin S => i \in I
  OBVIOUS
<1> HIDE DEF I
<1>5. q \in Seq(Dates) /\ Sorted(order, q)
  BY <1>2, SiftedSorted
<1>6. /\ \A n \in DOMAIN q : \E i \in I : q[n] = ps[i]
      /\ \A i \in I : \E n \in DOMAIN q : q[n] = ps[i]
  BY <1>2, SiftedFrom
<1>7. ASSUME NEW t \in ToSet(q) PROVE t \in ToSet(ps) /\ t \notin S
  <2>1. PICK n \in DOMAIN q : q[n] = t
    BY <1>7 DEF ToSet
  <2>2. PICK i \in I : t = ps[i]
    BY <1>6, <2>1
  <2> QED BY <1>3, <2>2 DEF ToSet
<1>8. ASSUME NEW t \in ToSet(ps), t \notin S PROVE t \in ToSet(q)
  <2>1. PICK i \in DOMAIN ps : ps[i] = t
    BY <1>8 DEF ToSet
  <2>2. i \in I
    BY <1>4, <1>8, <2>1
  <2>3. PICK n \in DOMAIN q : q[n] = t
    BY <1>6, <2>1, <2>2
  <2> QED BY <2>3 DEF ToSet
<1> QED BY <1>5, <1>7, <1>8

(* Whatever order a list is in, it stays a list of what it was of. *)
LEMMA ExceptTyped ==
  ASSUME NEW T, NEW ps \in Seq(T), NEW S
  PROVE  Except(ps, S) \in Seq(T)
<1>1. {i \in DOMAIN ps : ps[i] \notin S} \in SUBSET DOMAIN ps
  OBVIOUS
<1> QED BY <1>1, SiftedPlaces DEF Except

LEMMA AddsTyped ==
  ASSUME NEW T, NEW ps \in Seq(T), NEW qs \in Seq(T)
  PROVE  Adds(ps, qs) \in Seq(T)
<1>1. PICK new \in Seq(T) : new = Except(qs, ToSet(ps))
  BY ExceptTyped
<1>2. ps \o new \in Seq(T)
  BY JoinedAs
<1> QED BY <1>1, <1>2 DEF Adds

(* The photos a list holds of a listing are those of its first places, but  *)
(* for what is left out of it.                                              *)
Held(order, S, items, skip, n) ==
  /\ Sorted(order, items) /\ ToSet(items) \subseteq S
  /\ \A t \in ToSet(items) : Place(order, S, t) <= n
  /\ \A t \in S : Place(order, S, t) <= n => t \in ToSet(items) \/ t \in skip
(* The photos of a page are those of its places. *)
Paged(order, S, items, skip, a, z) ==
  /\ Sorted(order, items) /\ ToSet(items) \subseteq S
  /\ \A t \in ToSet(items) : a < Place(order, S, t) /\ Place(order, S, t) <= z
  /\ \A t \in S : a < Place(order, S, t) /\ Place(order, S, t) <= z => t \in ToSet(items) \/ t \in skip

LEMMA NothingHeld ==
  ASSUME NEW order, NEW S \in SUBSET Dates, NEW skip
  PROVE  Held(order, S, <<>>, skip, 0)
<1>1. ToSet(<<>>) = {} /\ Sorted(order, <<>>)
  BY DEF ToSet, Sorted
<1>2. \A t \in S : Place(order, S, t) \in Nat /\ Place(order, S, t) >= 1
  BY PlaceIs
<1>3. \A t \in S : ~(Place(order, S, t) <= 0)
  BY <1>2
<1> QED BY <1>1, <1>3 DEF Held

LEMMA FirstHeld ==
  ASSUME NEW order, NEW S \in SUBSET Dates, NEW items, NEW skip, NEW z, Paged(order, S, items, skip, 0, z)
  PROVE  Held(order, S, items, skip, z)
<1>1. \A t \in S : Place(order, S, t) \in Nat /\ Place(order, S, t) >= 1
  BY PlaceIs
<1>2. \A t \in S : 0 < Place(order, S, t)
  BY <1>1
<1> QED BY <1>2 DEF Held, Paged

LEMMA AddsHeld ==
  ASSUME NEW order, NEW S \in SUBSET Dates, NEW items \in Seq(Dates), NEW page \in Seq(Dates), NEW skip, NEW skip2, NEW both,
         NEW a \in Nat, NEW z \in Nat, a <= z, Held(order, S, items, skip, a), Paged(order, S, page, skip2, a, z),
         skip \subseteq both, skip2 \subseteq both
  PROVE  Held(order, S, Adds(items, page), both, z)
<1>1. PICK new : new = Except(page, ToSet(items))
  OBVIOUS
<1>2. /\ new \in Seq(Dates) /\ Sorted(order, new)
      /\ \A t : t \in ToSet(new) <=> t \in ToSet(page) /\ t \notin ToSet(items)
  BY <1>1, ExceptIs DEF Paged
<1>3. PICK w : w = items \o new
  OBVIOUS
<1>4. w = Adds(items, page)
  BY <1>1, <1>3 DEF Adds
<1>5. \A t : t \in ToSet(w) <=> t \in ToSet(items) \/ t \in ToSet(page)
  BY <1>2, <1>3, JoinedSet
<1>6. \A t \in S : Place(order, S, t) \in Nat
  BY PlaceIs
<1>7. \A t \in ToSet(items), u \in ToSet(new) : Ahead(order, t, u)
  <2> SUFFICES ASSUME NEW t \in ToSet(items), NEW u \in ToSet(new) PROVE Ahead(order, t, u)
    OBVIOUS
  <2>1. t \in S /\ u \in S /\ Place(order, S, t) <= a /\ a < Place(order, S, u)
    BY <1>2 DEF Held, Paged
  <2>2. Place(order, S, t) < Place(order, S, u)
    BY <1>6, <2>1
  <2> QED BY <2>1, <2>2, PlaceOrders
<1>8. Sorted(order, w)
  BY <1>2, <1>3, <1>7, JoinedSorted DEF Held
<1>9. ASSUME NEW t \in ToSet(w) PROVE t \in S /\ Place(order, S, t) <= z
  <2>1. CASE t \in ToSet(items)
    <3>1. t \in S /\ Place(order, S, t) <= a
      BY <2>1 DEF Held
    <3> QED BY <1>6, <3>1
  <2>2. CASE t \in ToSet(page)
    BY <2>2 DEF Paged
  <2> QED BY <1>5, <1>9, <2>1, <2>2
<1>10. ASSUME NEW t \in S, Place(order, S, t) <= z PROVE t \in ToSet(w) \/ t \in both
  <2>1. CASE Place(order, S, t) <= a
    BY <1>5, <2>1 DEF Held
  <2>2. CASE ~(Place(order, S, t) <= a)
    <3>1. a < Place(order, S, t)
      BY <1>6, <2>2
    <3> QED BY <1>5, <1>10, <3>1 DEF Paged
  <2> QED BY <2>1, <2>2
<1>11. Held(order, S, w, both, z)
  BY <1>8, <1>9, <1>10 DEF Held
<1> QED BY <1>4, <1>11

(* Whatever is not behind the last of a list is in it or left out. *)
LEMMA HeldComplete ==
  ASSUME NEW order, NEW S \in SUBSET Dates, NEW items \in Seq(Dates), NEW skip, NEW n \in Nat, Held(order, S, items, skip, n),
         NEW t \in S, (items # <<>> /\ ~Ahead(order, Last(items), t)) \/ n >= Cardinality(S)
  PROVE  t \in ToSet(items) \/ t \in skip
<1>1. Place(order, S, t) \in Nat /\ Place(order, S, t) <= Cardinality(S) /\ Cardinality(S) \in Nat
  BY PlaceIs
<1>2. CASE n >= Cardinality(S)
  <2>1. Place(order, S, t) <= n
    BY <1>1, <1>2
  <2> QED BY <2>1 DEF Held
<1>3. CASE items # <<>> /\ ~Ahead(order, Last(items), t)
  <2>1. Last(items) \in ToSet(items)
    BY <1>3, LastIn
  <2>2. Last(items) \in S /\ Place(order, S, Last(items)) <= n
    BY <2>1 DEF Held
  <2>3. Place(order, S, Last(items)) \in Nat /\ ~(Place(order, S, Last(items)) < Place(order, S, t))
    BY <1>3, <2>2, PlaceIs, PlaceOrders
  <2>4. Place(order, S, t) <= n
    BY <1>1, <2>2, <2>3
  <2> QED BY <2>4 DEF Held
<1> QED BY <1>2, <1>3

LEMMA LimitProduct ==
  ASSUME NEW n \in Nat \ {0}
  PROVE  /\ (n - 1) * PageLimit \in Nat /\ n * PageLimit \in Nat /\ (n - 1) * PageLimit <= n * PageLimit
         /\ n <= n * PageLimit /\ (n + 1) - 1 = n /\ (1 - 1) * PageLimit = 0 /\ 0 * PageLimit = 0
<1>1. PageLimit \in Nat /\ PageLimit >= 1 /\ n - 1 \in Nat /\ n = (n - 1) + 1
  BY FeedAssumption
<1>2. \A x, y \in Nat : x * y \in Nat
  OBVIOUS
<1>3. \A x, y \in Int : (x + 1) * y = x * y + y
  OBVIOUS
<1>4. (n - 1) * PageLimit \in Nat /\ n * PageLimit \in Nat /\ n * PageLimit = (n - 1) * PageLimit + PageLimit
  BY <1>1, <1>2, <1>3
<1>5. n <= n * PageLimit
  <2>1. PICK c \in Nat : PageLimit = c + 1
    <3>1. PageLimit - 1 \in Nat /\ PageLimit = (PageLimit - 1) + 1
      BY <1>1
    <3> QED BY <3>1
  <2>2. n * (c + 1) = n * c + n /\ n * c \in Nat
    BY <1>2
  <2> QED BY <2>1, <2>2
<1>6. 0 * PageLimit = 0 /\ 1 - 1 = 0
  BY <1>1
<1> QED BY <1>1, <1>4, <1>5, <1>6

LEMMA LesserOf ==
  ASSUME NEW x \in Nat, NEW y \in Nat
  PROVE  Min({x, y}) = IF x < y THEN x ELSE y
BY DEF Min

LEMMA CountOf ==
  ASSUME NEW order, NEW S \in SUBSET Dates, NEW l, l = InOrder(S, order)
  PROVE  l \in Seq(S) /\ Len(l) = Cardinality(S) /\ Cardinality(S) \in Nat
<1>1. l \in Seq(S) /\ Len(l) = Cardinality(S)
  BY ListingIs
<1>2. Len(l) \in Nat
  BY <1>1
<1> QED BY <1>1, <1>2

(* The span of a listing between two places is the page of those places. *)
LEMMA SpanPaged ==
  ASSUME NEW order, NEW S \in SUBSET Dates, NEW a \in Nat, NEW z \in Nat
  PROVE  Span(InOrder(S, order), a, z) \in Seq(S) /\ Paged(order, S, Span(InOrder(S, order), a, z), {}, a, z)
<1>1. PICK s : s = Span(InOrder(S, order), a, z)
  OBVIOUS
<1>2. Spanned(order, S, s, a, z)
  BY <1>1, SpanIs
<1>3. s \in Seq(S) /\ Paged(order, S, s, {}, a, z)
  BY <1>2, Zenon DEF Paged, Spanned
<1> QED BY <1>1, <1>3

LEMMA DoneIs ==
  ASSUME NEW c \in Nat, NEW z \in Nat, NEW s, NEW p, p = [items |-> s, done |-> z >= c]
  PROVE  p.items = s /\ p.done \in BOOLEAN /\ (p.done <=> c <= z)
<1>1. p.done <=> z >= c
  OBVIOUS
<1>2. p.items = s /\ p.done \in BOOLEAN
  OBVIOUS
<1>3. z >= c <=> c <= z
  OBVIOUS
<1> QED BY <1>1, <1>2, <1>3

LEMMA CursorIs ==
  ASSUME NEW c \in Nat, NEW z \in Nat, NEW h, NEW r, NEW p,
         p = [items |-> h, cut |-> r, done |-> z >= c, cursor |-> IF z >= c THEN Nil ELSE z]
  PROVE  p.items = h /\ p.cut = r /\ p.done \in BOOLEAN /\ (p.done <=> c <= z) /\ p.cursor = IF p.done THEN Nil ELSE z
<1>1. p.done <=> z >= c
  OBVIOUS
<1>2. p.items = h /\ p.cut = r /\ p.done \in BOOLEAN
  OBVIOUS
<1>3. z >= c <=> c <= z
  OBVIOUS
<1>4. p.cursor = IF z >= c THEN Nil ELSE z
  OBVIOUS
<1>5. p.cursor = IF p.done THEN Nil ELSE z
  BY <1>1, <1>4, Zenon
<1> QED BY <1>1, <1>2, <1>3, <1>5

(* A page of the cloud. *)
LEMMA CloudPageIs ==
  ASSUME NEW order, NEW S \in SUBSET Dates, NEW n \in Nat \ {0}, NEW page, page = CloudPaged(InOrder(S, order), n)
  PROVE  /\ page.items \in Seq(S) /\ page.done \in BOOLEAN
         /\ Paged(order, S, page.items, {}, (n - 1) * PageLimit, n * PageLimit)
         /\ page.done <=> Cardinality(S) <= n * PageLimit
<1>1. PICK l : l = InOrder(S, order)
  OBVIOUS
<1>2. Len(l) = Cardinality(S) /\ Cardinality(S) \in Nat
  BY <1>1, CountOf, Zenon
<1>3. PICK a \in Nat, z \in Nat : a = (n - 1) * PageLimit /\ z = n * PageLimit
  BY LimitProduct
<1>4. PICK s : s = Span(InOrder(S, order), a, z)
  OBVIOUS
<1>5. page = [items |-> s, done |-> z >= Len(l)]
  BY <1>1, <1>3, <1>4, Zenon DEF CloudPaged, Span
<1>6. s \in Seq(S) /\ Paged(order, S, s, {}, a, z)
  BY <1>4, SpanPaged
<1>7. PICK c \in Nat : c = Cardinality(S)
  BY <1>2
<1>8. page = [items |-> s, done |-> z >= c]
  BY <1>2, <1>5, <1>7, Zenon
<1>9. page.items = s /\ page.done \in BOOLEAN /\ (page.done <=> c <= z)
  BY <1>7, <1>8, DoneIs
<1> QED BY <1>3, <1>6, <1>7, <1>9

(* What a page keeps of what it got, and what is cut off. *)
KeptOf(s, n) == SubSeq(s, 1, Min({n, Len(s)}))
RestOf(s, n) == SubSeq(s, n + 1, Len(s))

Shorter(s, n) == IF n < Len(s) THEN n ELSE Len(s)
LEMMA ShorterIs ==
  ASSUME NEW s, Len(s) \in Nat, NEW n \in Nat
  PROVE  /\ Shorter(s, n) \in Nat /\ Shorter(s, n) <= Len(s)
         /\ n >= Len(s) => Shorter(s, n) = Len(s)
         /\ n < Len(s) => Shorter(s, n) = n
BY DEF Shorter

LEMMA KeptIs ==
  ASSUME NEW s \in Seq(Dates), NEW n \in Nat
  PROVE  /\ KeptOf(s, n) \in Seq(Dates) /\ DOMAIN KeptOf(s, n) = 1..Shorter(s, n)
         /\ \A k \in 1..Shorter(s, n) : KeptOf(s, n)[k] = s[k]
<1>1. Len(s) \in Nat
  OBVIOUS
<1>2. PICK e \in Nat : e = Shorter(s, n)
  <2>1. Shorter(s, n) \in Nat
    BY <1>1 DEF Shorter
  <2> QED BY <2>1
<1>3. Min({n, Len(s)}) = e
  BY <1>1, <1>2, LesserOf DEF Shorter
<1>4. e <= Len(s)
  BY <1>1, <1>2 DEF Shorter
<1>5. KeptOf(s, n) = SubSeq(s, 1, e)
  BY <1>3 DEF KeptOf
<1>6. SubSeq(s, 1, e) \in Seq(Dates) /\ DOMAIN SubSeq(s, 1, e) = 1..e /\ \A k \in 1..e : SubSeq(s, 1, e)[k] = s[k]
  BY <1>1, <1>4
<1> QED BY <1>2, <1>5, <1>6

LEMMA RestIs ==
  ASSUME NEW s \in Seq(Dates), NEW n \in Nat
  PROVE  /\ n >= Len(s) => DOMAIN RestOf(s, n) = {}
         /\ n < Len(s) => DOMAIN RestOf(s, n) = 1..(Len(s) - n) /\ \A k \in 1..(Len(s) - n) : RestOf(s, n)[k] = s[n + k]
<1>1. Len(s) \in Nat
  OBVIOUS
<1> QED BY <1>1 DEF RestOf

LEMMA CutIs ==
  ASSUME NEW order, NEW s \in Seq(Dates), Sorted(order, s), NEW n \in Nat, NEW h, h = KeptOf(s, n), NEW r, r = RestOf(s, n)
  PROVE  /\ h \in Seq(Dates) /\ Sorted(order, h)
         /\ \A t \in ToSet(h) : t \in ToSet(s)
         /\ \A t \in ToSet(r) : t \in ToSet(s)
         /\ \A t \in ToSet(s) : t \in ToSet(h) \/ t \in ToSet(r)
<1>1. Len(s) \in Nat /\ DOMAIN s = 1..Len(s)
  OBVIOUS
<1>2. PICK e \in Nat : /\ e = Shorter(s, n) /\ e <= Len(s)
                       /\ n >= Len(s) => e = Len(s)
                       /\ n < Len(s) => e = n
  <2>1. /\ Shorter(s, n) \in Nat /\ Shorter(s, n) <= Len(s)
        /\ n >= Len(s) => Shorter(s, n) = Len(s)
        /\ n < Len(s) => Shorter(s, n) = n
    BY <1>1, ShorterIs, Zenon
  <2> QED BY <2>1
<1>3. h \in Seq(Dates) /\ DOMAIN h = 1..e /\ \A k \in 1..e : h[k] = s[k]
  BY <1>2, KeptIs
<1>k. \A k \in DOMAIN h : k \in DOMAIN s /\ h[k] = s[k]
  <2>1. \A k \in 1..e : k \in 1..Len(s)
    BY <1>1, <1>2
  <2> QED BY <1>1, <1>3, <2>1, Zenon
<1>4. Sorted(order, h)
  BY <1>k, Zenon DEF Sorted
<1>5. \A t \in ToSet(h) : t \in ToSet(s)
  BY <1>k, Zenon DEF ToSet
<1>6. CASE n >= Len(s)
  <2>1. e = Len(s)
    BY <1>2, <1>6
  <2>2. \A k \in DOMAIN s : k \in DOMAIN h /\ h[k] = s[k]
    BY <1>1, <1>3, <2>1, Zenon
  <2>3. \A t \in ToSet(s) : t \in ToSet(h)
    BY <2>2, Zenon DEF ToSet
  <2>4. DOMAIN r = {}
    BY <1>6, RestIs
  <2>5. ToSet(r) = {}
    BY <2>4, Zenon DEF ToSet
  <2> QED BY <1>3, <1>4, <1>5, <2>3, <2>5
<1>7. CASE n < Len(s)
  <2>1. e = n
    BY <1>2, <1>7
  <2>2. DOMAIN r = 1..(Len(s) - n) /\ \A k \in 1..(Len(s) - n) : r[k] = s[n + k]
    BY <1>7, RestIs
  <2>3. \A k \in DOMAIN r : n + k \in DOMAIN s /\ r[k] = s[n + k]
    <3>1. \A k \in 1..(Len(s) - n) : n + k \in 1..Len(s)
      BY <1>1, <1>7
    <3> QED BY <1>1, <2>2, <3>1
  <2>4. \A t \in ToSet(r) : t \in ToSet(s)
    BY <2>3, Zenon DEF ToSet
  <2>5. ASSUME NEW k \in DOMAIN s PROVE s[k] \in ToSet(h) \/ s[k] \in ToSet(r)
    <3>1. CASE k <= n
      <4>1. k \in 1..e
        BY <1>1, <2>1, <3>1
      <4>2. k \in DOMAIN h /\ h[k] = s[k]
        BY <1>3, <4>1, Zenon
      <4> QED BY <4>2, Zenon DEF ToSet
    <3>2. CASE k > n
      <4>1. k - n \in 1..(Len(s) - n) /\ n + (k - n) = k
        BY <1>1, <1>7, <3>2
      <4>2. k - n \in DOMAIN r /\ r[k - n] = s[k]
        BY <2>2, <4>1
      <4> QED BY <4>2, Zenon DEF ToSet
    <3> QED BY <1>1, <3>1, <3>2
  <2>6. \A t \in ToSet(s) : t \in ToSet(h) \/ t \in ToSet(r)
    BY <2>5, Zenon DEF ToSet
  <2> QED BY <1>3, <1>4, <1>5, <2>4, <2>6
<1>8. n >= Len(s) \/ n < Len(s)
  BY <1>1
<1> QED BY <1>6, <1>7, <1>8

Hidden(cut) == PairedVideos \cup cut

(* A page of the phone: the cursor is past what it kept and what it cut. *)
LEMMA DevicePageIs ==
  ASSUME NEW order, NEW S \in SUBSET Dates, NEW from \in Nat, NEW page, page = DevicePaged(InOrder(S, order), from)
  PROVE  /\ page.items \in Seq(S) /\ page.cut \subseteq S /\ page.done \in BOOLEAN
         /\ \E z \in Nat : /\ from < z /\ Paged(order, S, page.items, Hidden(page.cut), from, z)
                           /\ page.done <=> Cardinality(S) <= z
                           /\ page.cursor = IF page.done THEN Nil ELSE z
<1>1. PICK l : l = InOrder(S, order)
  OBVIOUS
<1>2. Len(l) = Cardinality(S) /\ Cardinality(S) \in Nat
  BY <1>1, CountOf, Zenon
<1> DEFINE enough(n) == from + n * PageLimit >= Len(l) \/ Len(Chunk(l, from, n)) >= PageLimit
           tries == {n \in 1 .. Len(l) + 1 : enough(n)}
<1>3. Len(l) + 1 \in tries /\ tries \subseteq Nat
  <2>1. Len(l) + 1 \in Nat \ {0} /\ Len(l) + 1 \in 1 .. Len(l) + 1
    BY <1>2
  <2>2. Len(l) + 1 <= (Len(l) + 1) * PageLimit /\ (Len(l) + 1) * PageLimit \in Nat
    BY <2>1, LimitProduct
  <2>3. from + (Len(l) + 1) * PageLimit >= Len(l)
    BY <1>2, <2>2
  <2> QED BY <1>2, <2>1, <2>3
<1>4. PICK k \in tries : k = Min(tries)
  <2>1. PICK n \in tries : \A m \in tries : n <= m
    BY <1>3, LeastOf
  <2> HIDE DEF tries
  <2>2. Min(tries) \in tries
    BY <2>1, Zenon DEF Min
  <2> QED BY <2>2
<1>5. k \in Nat \ {0}
  BY <1>2
<1>6. PICK z \in Nat : z = from + k * PageLimit /\ from < z
  <2>1. k * PageLimit \in Nat /\ k <= k * PageLimit
    BY <1>5, LimitProduct
  <2>2. from + k * PageLimit \in Nat /\ from < from + k * PageLimit
    BY <1>5, <2>1
  <2> QED BY <2>2
<1>7. PICK s : s = Span(InOrder(S, order), from, z)
  OBVIOUS
<1>8. PICK got : got = Except(s, PairedVideos)
  OBVIOUS
<1>9. got = Chunk(l, from, k)
  BY <1>1, <1>6, <1>7, <1>8, Zenon DEF Chunk, Span
<1>10. PICK h, r : h = KeptOf(got, PageLimit) /\ r = RestOf(got, PageLimit)
  OBVIOUS
<1>11. page = [items |-> h, cut |-> ToSet(r), done |-> z >= Len(l), cursor |-> IF z >= Len(l) THEN Nil ELSE z]
  BY <1>1, <1>4, <1>6, <1>9, <1>10, Zenon DEF DevicePaged, KeptOf, RestOf
<1> HIDE DEF tries, enough
<1>12. s \in Seq(S) /\ Paged(order, S, s, {}, from, z)
  BY <1>7, SpanPaged
<1>13. s \in Seq(Dates)
  BY <1>12
<1>14. /\ got \in Seq(Dates) /\ Sorted(order, got)
       /\ \A t : t \in ToSet(got) <=> t \in ToSet(s) /\ t \notin PairedVideos
  BY <1>8, <1>12, <1>13, ExceptIs DEF Paged
<1>15. /\ h \in Seq(Dates) /\ Sorted(order, h)
       /\ \A t \in ToSet(h) : t \in ToSet(got)
       /\ \A t \in ToSet(r) : t \in ToSet(got)
       /\ \A t \in ToSet(got) : t \in ToSet(h) \/ t \in ToSet(r)
  <2>1. PageLimit \in Nat
    BY FeedAssumption
  <2> QED BY <1>10, <1>14, <2>1, CutIs, Zenon
<1>16. PICK c \in Nat : c = Cardinality(S)
  BY <1>2
<1>d. page = [items |-> h, cut |-> ToSet(r), done |-> z >= c, cursor |-> IF z >= c THEN Nil ELSE z]
  BY <1>2, <1>11, <1>16, Zenon
<1>e. /\ page.items = h /\ page.cut = ToSet(r) /\ page.done \in BOOLEAN /\ (page.done <=> c <= z)
      /\ page.cursor = IF page.done THEN Nil ELSE z
  BY <1>16, <1>d, CursorIs
<1>17. \A t \in ToSet(h) : t \in S
  BY <1>12, <1>14, <1>15, Zenon DEF Paged
<1>18. h \in Seq(S)
  <2>1. Len(h) \in Nat /\ DOMAIN h = 1..Len(h) /\ h \in [1..Len(h) -> Dates]
    BY <1>15
  <2>2. \A n \in 1..Len(h) : h[n] \in S
    BY <1>17, <2>1 DEF ToSet
  <2>3. h \in [1..Len(h) -> S]
    BY <2>1, <2>2
  <2> QED BY <2>1, <2>3
<1>19. ToSet(r) \subseteq S
  BY <1>12, <1>14, <1>15, Zenon DEF Paged
<1>20. Paged(order, S, h, Hidden(ToSet(r)), from, z)
  BY <1>12, <1>14, <1>15, <1>17 DEF Paged, Hidden
<1> QED BY <1>6, <1>16, <1>18, <1>19, <1>20, <1>e

(* -------------------------- what is in flight ---------------------------- *)

Flying(js, o) == {j \in ToSet(js) : j.op = o}
AtMostOne(js, o) == \A i, k \in DOMAIN js : js[i].op = o /\ js[k].op = o => i = k

LEMMA UnderIs == ASSUME NEW js, NEW o PROVE Under(js, o) <=> Flying(js, o) # {}
BY DEF Under, Flying, ToSet

(* One that is in flight comes back. *)
Leaves(J, js, i, ks) ==
  /\ ks \in Seq(J) /\ js[i] \in J /\ js[i] \in Flying(js, js[i].op)
  /\ \A o : Flying(ks, o) \subseteq Flying(js, o) /\ (AtMostOne(js, o) => AtMostOne(ks, o))
  /\ \A o : o # js[i].op => Flying(ks, o) = Flying(js, o)
  /\ AtMostOne(js, js[i].op) => Flying(ks, js[i].op) = {}
LEMMA FlyingLess ==
  ASSUME NEW J, NEW js \in Seq(J), NEW i \in DOMAIN js, NEW ks, ks = RemoveAt(js, i)
  PROVE  Leaves(J, js, i, ks)
<1>1. ks \in Seq(J) /\ \E f \in [DOMAIN ks -> DOMAIN js \ {i}] :
             /\ \A k \in DOMAIN ks : ks[k] = js[f[k]]
             /\ \A k, l \in DOMAIN ks : f[k] = f[l] => k = l
             /\ \A m \in DOMAIN js \ {i} : \E k \in DOMAIN ks : f[k] = m
  BY RemovedFrom
<1>2. PICK f \in [DOMAIN ks -> DOMAIN js \ {i}] :
             /\ \A k \in DOMAIN ks : ks[k] = js[f[k]]
             /\ \A k, l \in DOMAIN ks : f[k] = f[l] => k = l
             /\ \A m \in DOMAIN js \ {i} : \E k \in DOMAIN ks : f[k] = m
  BY <1>1
<1>3. js[i] \in J /\ js[i] \in Flying(js, js[i].op)
  BY EntriesIn DEF Flying, ToSet
<1>4. \A o : Flying(ks, o) \subseteq Flying(js, o)
  BY <1>2 DEF Flying, ToSet
<1>5. \A o : AtMostOne(js, o) => AtMostOne(ks, o)
  BY <1>2 DEF AtMostOne
<1>6. ASSUME NEW o, o # js[i].op PROVE Flying(ks, o) = Flying(js, o)
  <2>1. \A j \in Flying(js, o) : j \in Flying(ks, o)
    BY <1>2, <1>6 DEF Flying, ToSet
  <2> QED BY <1>4, <2>1
<1>7. ASSUME AtMostOne(js, js[i].op) PROVE Flying(ks, js[i].op) = {}
  BY <1>2, <1>7 DEF Flying, ToSet, AtMostOne
<1> QED BY <1>1, <1>3, <1>4, <1>5, <1>6, <1>7 DEF Leaves

(* One more is in flight. *)
Joins(J, js, j, ks) ==
  /\ ks \in Seq(J)
  /\ \A o : o # j.op => Flying(ks, o) = Flying(js, o) /\ (AtMostOne(js, o) => AtMostOne(ks, o))
  /\ Flying(ks, j.op) = Flying(js, j.op) \cup {j}
  /\ Flying(js, j.op) = {} => AtMostOne(ks, j.op)
LEMMA FlyingMore ==
  ASSUME NEW J, NEW js \in Seq(J), NEW j \in J, NEW ks, ks = Append(js, j)
  PROVE  Joins(J, js, j, ks)
<1>1. ks \in Seq(J) /\ Len(js) \in Nat /\ DOMAIN js = 1..Len(js) /\ DOMAIN ks = 1..Len(js) + 1
  OBVIOUS
<1>2. \A k \in DOMAIN ks : IF k \in DOMAIN js THEN ks[k] = js[k] ELSE k = Len(js) + 1 /\ ks[k] = j
  BY <1>1
<1>3. DOMAIN js \subseteq DOMAIN ks /\ Len(js) + 1 \in DOMAIN ks /\ Len(js) + 1 \notin DOMAIN js
  BY <1>1
<1> HIDE <1>1
<1>4. \A x : x \in ToSet(ks) <=> x \in ToSet(js) \/ x = j
  BY <1>2, <1>3 DEF ToSet
<1>5. \A o : o # j.op => Flying(ks, o) = Flying(js, o)
  BY <1>4 DEF Flying
<1>6. Flying(ks, j.op) = Flying(js, j.op) \cup {j}
  BY <1>4 DEF Flying
<1>7. ASSUME NEW o, o # j.op, AtMostOne(js, o) PROVE AtMostOne(ks, o)
  BY <1>2, <1>7 DEF AtMostOne
<1>8. ASSUME Flying(js, j.op) = {} PROVE AtMostOne(ks, j.op)
  <2>1. \A k \in DOMAIN js : js[k].op # j.op
    BY <1>8 DEF Flying, ToSet
  <2> QED BY <1>2, <2>1 DEF AtMostOne
<1> QED BY <1>1, <1>5, <1>6, <1>7, <1>8 DEF Joins

(* All of a kind are superseded. *)
Superseded(J, js, x, ks) ==
  /\ ks \in Seq(J) /\ Flying(ks, x) = {}
  /\ \A o : AtMostOne(js, o) => AtMostOne(ks, o)
  /\ \A o : o # x => Flying(ks, o) = Flying(js, o)
LEMMA FlyingWithout ==
  ASSUME NEW J, NEW js \in Seq(J), NEW x, NEW ks, ks = Without(js, x)
  PROVE  Superseded(J, js, x, ks)
<1> DEFINE I == {i \in DOMAIN js : js[i].op # x}
<1>1. ks = Sifted(js, I) /\ I \in SUBSET DOMAIN js
  BY DEF Without
<1>2. \A i \in DOMAIN js : i \in I <=> js[i].op # x
  OBVIOUS
<1> HIDE DEF I
<1>3. ks \in Seq(J) /\ \A i \in I : \E n \in DOMAIN ks : ks[n] = js[i]
  BY <1>1, SiftedPlaces
<1>4. PICK f : /\ \A n \in DOMAIN ks : f[n] \in I /\ ks[n] = js[f[n]]
               /\ \A n, m \in DOMAIN ks : n < m => f[n] < f[m]
  <2>1. \E f : /\ \A n \in DOMAIN Sifted(js, I) : f[n] \in I /\ Sifted(js, I)[n] = js[f[n]]
               /\ \A n, m \in DOMAIN Sifted(js, I) : n < m => f[n] < f[m]
    BY <1>1, SiftedPlaces, Zenon
  <2> QED BY <1>1, <2>1, Zenon
<1>5. Flying(ks, x) = {}
  <2>1. \A n \in DOMAIN ks : ks[n].op # x
    BY <1>1, <1>2, <1>4
  <2> QED BY <2>1, Zenon DEF Flying, ToSet
<1>6. \A n, m \in DOMAIN ks : f[n] = f[m] => n = m
  <2> SUFFICES ASSUME NEW n \in DOMAIN ks, NEW m \in DOMAIN ks, f[n] = f[m] PROVE n = m
    OBVIOUS
  <2>1. n \in Nat /\ m \in Nat /\ f[n] \in Nat
    BY <1>1, <1>3, <1>4, EntriesIn
  <2>2. ~(f[n] < f[m]) /\ ~(f[m] < f[n])
    BY <2>1
  <2>3. ~(n < m) /\ ~(m < n)
    BY <1>4, <2>2
  <2> QED BY <2>1, <2>3
<1>7. \A o : AtMostOne(js, o) => AtMostOne(ks, o)
  BY <1>1, <1>4, <1>6 DEF AtMostOne
<1>8. \A j : j \in ToSet(ks) <=> j \in ToSet(js) /\ j.op # x
  BY <1>1, <1>2, <1>3, <1>4 DEF ToSet
<1>9. \A o : o # x => Flying(ks, o) = Flying(js, o)
  BY <1>8 DEF Flying
<1> QED BY <1>3, <1>5, <1>7, <1>9 DEF Superseded

(* Some are marked, each in its place. *)
Marked(js, x, ks) ==
  /\ \A o : AtMostOne(js, o) => AtMostOne(ks, o)
  /\ \A o : o # x => Flying(ks, o) = Flying(js, o)
  /\ \A j \in Flying(ks, x) : \E i \in DOMAIN js : js[i].op = x /\ j = ks[i]
  /\ \A o : Flying(js, o) = {} => Flying(ks, o) = {}
LEMMA FlyingMarked ==
  ASSUME NEW J, NEW js \in Seq(J), NEW x, NEW ks \in Seq(J), DOMAIN ks = DOMAIN js,
         \A i \in DOMAIN js : ks[i].op = js[i].op /\ (js[i].op # x => ks[i] = js[i])
  PROVE  Marked(js, x, ks)
<1>1. \A o : AtMostOne(js, o) => AtMostOne(ks, o)
  BY DEF AtMostOne
<1>2. \A o : o # x => Flying(ks, o) = Flying(js, o)
  <2> SUFFICES ASSUME NEW o, o # x PROVE Flying(ks, o) = Flying(js, o)
    OBVIOUS
  <2>1. \A j : j \in Flying(ks, o) => j \in Flying(js, o)
    BY DEF Flying, ToSet
  <2>2. \A j : j \in Flying(js, o) => j \in Flying(ks, o)
    BY DEF Flying, ToSet
  <2> QED BY <2>1, <2>2
<1>3. \A j \in Flying(ks, x) : \E i \in DOMAIN js : js[i].op = x /\ j = ks[i]
  BY DEF Flying, ToSet
<1>4. \A o : Flying(js, o) = {} => Flying(ks, o) = {}
  BY DEF Flying, ToSet
<1> QED BY <1>1, <1>2, <1>3, <1>4 DEF Marked

(* ---------------------------- what the tab holds ------------------------- *)

Anchors == MonthEnds \cup {Nil}
Grants == {"unknown", "granted", "denied"}
Players == {"none", "loading", "ready", "error"}
FeedSlips == {"window", "reload", "failed", "newer"}
DeviceStates == [items : Seq(PhoneTimes), cursor : Nat \cup {Nil}, ended : BOOLEAN, loading : BOOLEAN,
                 before : Anchors, cut : SUBSET PhoneTimes]
CloudStates == [items : Seq(CloudTimes), page : Nat, done : BOOLEAN, loading : BOOLEAN, before : Anchors]
NewerStates == [cloud : Seq(CloudTimes), page : Nat, cloudDone : BOOLEAN,
                device : Seq(PhoneTimes), cursor : Nat \cup {Nil}, deviceDone : BOOLEAN, cut : SUBSET PhoneTimes]
Feeds == [permission : Grants, anchor : Anchors, device : DeviceStates, cloud : CloudStates, newer : NewerStates,
          cloudBusy : BOOLEAN, months : BOOLEAN, snapshot : Seq(CloudTimes), removed : SUBSET PhoneTimes,
          changed : BOOLEAN, viewing : BOOLEAN, deleted : BOOLEAN, video : Players, slips : SUBSET FeedSlips]
Pools == [device : SUBSET PhoneTimes, cloud : SUBSET CloudTimes, clock : Nat]

PermissionJobs == [op : {"permission"}, live : BOOLEAN, before : Anchors]
DeviceJobs == [op : {"firstPage"}, live : BOOLEAN, before : Anchors]
MoreJobs == [op : {"nextPage"}, live : BOOLEAN, before : Anchors, from : Nat, crossed : BOOLEAN]
PageJobs == [op : {"cloudPage"}, live : BOOLEAN, page : Nat \ {0}, before : Anchors]
ReloadJobs == {j \in [op : {"reload"}, live : BOOLEAN, page : Nat \ {0}, upto : Nat \ {0}, before : Anchors,
                      items : Seq(CloudTimes)] : j.page <= j.upto}
TakeJobs == [op : {"removal"}, live : BOOLEAN, photo : PhoneTimes, how : {"lock", "delete"}]
PlainJobs == [op : {"months", "newer", "video"}, live : BOOLEAN]
FeedJobs == PermissionJobs \cup DeviceJobs \cup MoreJobs \cup PageJobs \cup ReloadJobs \cup TakeJobs \cup PlainJobs

LEMMA FeedJobIs ==
  ASSUME NEW j \in FeedJobs
  PROVE  /\ j.op = "permission" => j \in PermissionJobs
         /\ j.op = "firstPage" => j \in DeviceJobs
         /\ j.op = "nextPage" => j \in MoreJobs
         /\ j.op = "cloudPage" => j \in PageJobs
         /\ j.op = "reload" => j \in ReloadJobs
         /\ j.op = "removal" => j \in TakeJobs
         /\ j.live \in BOOLEAN
BY DEF FeedJobs, PermissionJobs, DeviceJobs, MoreJobs, PageJobs, ReloadJobs, TakeJobs, PlainJobs

LEMMA PhotosCounted ==
  /\ PhoneTimes \subseteq Dates /\ CloudTimes \subseteq Dates /\ Dates \subseteq Nat
  /\ Nil \notin Nat /\ Nil \in Anchors /\ PhoneTimes \cap (CloudTimes \ Synced) = {}
  /\ \A a \in Anchors : a # Nil => a \in Nat /\ a \notin PhoneTimes /\ a \notin CloudTimes
<1>1. PhoneTimes \subseteq Dates /\ CloudTimes \subseteq Dates
  BY DEF Dates, Times
<1>2. MonthEnds \subseteq Nat /\ MonthEnds \cap Times = {}
  BY FeedAssumption
<1>3. \A a \in Anchors : a # Nil => a \in Nat /\ a \notin Times
  BY <1>2 DEF Anchors
<1> QED BY <1>1, <1>3, DatesCounted, FeedAssumption DEF Times, Anchors

LEMMA PhotosListed ==
  /\ \A s \in Seq(PhoneTimes) : s \in Seq(Dates)
  /\ \A s \in Seq(CloudTimes) : s \in Seq(Dates)
<1>1. \A S : S \subseteq Dates => \A s \in Seq(S) : s \in Seq(Dates)
  OBVIOUS
<1> QED BY <1>1, PhotosCounted, Zenon

LEMMA SeqWider ==
  ASSUME NEW T, NEW S \in SUBSET T, NEW s \in Seq(S)
  PROVE  s \in Seq(T) /\ ToSet(s) \subseteq S
<1>1. s \in Seq(T)
  OBVIOUS
<1>2. \A k \in DOMAIN s : s[k] \in S
  BY EntriesIn
<1> QED BY <1>1, <1>2 DEF ToSet

LEMMA WithinIs ==
  ASSUME NEW T \in SUBSET Dates, NEW S \in SUBSET T, NEW before
  PROVE  Within(S, before) \subseteq S /\ Within(S, before) \in SUBSET Dates
BY DEF Within

(* --------------------------- the inductive invariant --------------------- *)

Cursor(c) == IF c = Nil THEN 0 ELSE c
(* Without the permission, nothing of the phone was read or is asked for. *)
Ungranted(f, js) ==
  f.permission # "granted" =>
    /\ ~f.changed /\ f.device.items = <<>> /\ f.device.cursor = Nil /\ ~f.device.ended
    /\ Flying(js, "firstPage") = {} /\ Flying(js, "nextPage") = {} /\ Flying(js, "removal") = {}
(* Unless a first page is to come, the tab holds the phone's photos as far as *)
(* its cursor, and a page on its way is the one from there.                   *)
DeviceFits(f, mores, D) ==
  /\ Held("desc", Within(D, f.anchor), f.device.items, Hidden(f.device.cut),
          IF f.device.ended THEN Cardinality(Within(D, f.anchor)) ELSE Cursor(f.device.cursor))
  /\ \A j \in mores : j.live /\ ~j.crossed => j.before = f.anchor /\ j.from = f.device.cursor /\ ~f.device.ended
DeviceOk(f, firsts, mores, D) ==
  (f.device.before = f.anchor /\ "window" \notin f.slips /\ ~f.changed /\ firsts = {}) => DeviceFits(f, mores, D)
(* A page of the cloud on its way is the first or the next of this window. *)
PagesOk(f, pages) ==
  /\ \A j \in pages : /\ f.cloudBusy /\ j.before = f.anchor
                      /\ j.page = 1 \/ (j.page = f.cloud.page + 1 /\ f.cloud.before = f.anchor)
  /\ (\A j \in pages : j.page # 1) => f.cloud.before = f.anchor
(* A reload has what its pages hold, and so has the window. *)
ReloadsFit(reloads, C) ==
  \A j \in reloads : Held("desc", Within(C, j.before), j.items, {}, (j.page - 1) * PageLimit)
CloudFits(f, C) ==
  /\ Held("desc", Within(C, f.anchor), f.cloud.items, {}, f.cloud.page * PageLimit)
  /\ f.cloud.done => Cardinality(Within(C, f.anchor)) <= f.cloud.page * PageLimit
CloudOk(f, reloads, C) ==
  ~f.deleted => /\ ReloadsFit(reloads, C)
                /\ ("failed" \notin f.slips /\ reloads = {} /\ f.cloud.before = f.anchor) => CloudFits(f, C)
(* The newer side of a window, from its end on upwards. *)
Above(S, a) == {p \in S : p > a}
NewerCloud(n, S) ==
  /\ Sorted("asc", n.cloud)
  /\ IF n.cloudDone THEN S \subseteq ToSet(n.cloud) ELSE Held("asc", S, n.cloud, {}, n.page * PageLimit)
NewerDevice(n, S) ==
  /\ Sorted("asc", n.device)
  /\ IF n.deviceDone
     THEN \A t \in S : \/ t \in ToSet(n.device) \cup Hidden(n.cut)
                       \/ t \in CameraTimes /\ \A u \in ToSet(n.device) : u < t
     ELSE Held("asc", S, n.device, Hidden(n.cut), Cursor(n.cursor)) /\ Cursor(n.cursor) <= Cardinality(S)
NewerFits(n, a, p) ==
  /\ \A q \in ToSet(n.cloud) \cup ToSet(n.device) : q > a
  /\ \A q \in ToSet(n.device) \cap CameraTimes : q <= p.clock
  /\ NewerCloud(n, Above(p.cloud, a)) /\ NewerDevice(n, Above(p.device, a))
NewerOk(f, p) == (f.anchor # Nil /\ "newer" \notin f.slips) => NewerFits(f.newer, f.anchor, p)
(* What is hidden is gone, and the camera took nothing after the last time. *)
ClockOk(f, removals, p) ==
  /\ f.removed \cap p.device = {}
  /\ \A q \in (f.removed \cup p.device \cup {j.photo : j \in removals}) \cap CameraTimes : q <= p.clock

FeedTyped(f, js, p) == f \in Feeds /\ js \in Seq(FeedJobs) /\ p \in Pools
WindowOk(f, js, p) ==
  /\ Ungranted(f, js) /\ AtMostOne(js, "nextPage")
  /\ DeviceOk(f, Flying(js, "firstPage"), Flying(js, "nextPage"), p.device)
  /\ "reload" \notin f.slips => CloudOk(f, Flying(js, "reload"), p.cloud)
  /\ NewerOk(f, p) /\ ClockOk(f, Flying(js, "removal"), p)
AskedOk(f, js) == "reload" \notin f.slips => AtMostOne(js, "cloudPage") /\ PagesOk(f, Flying(js, "cloudPage"))
FeedSound(f, js, p) == FeedTyped(f, js, p) /\ WindowOk(f, js, p)
FeedOk(f, js, p) == FeedSound(f, js, p) /\ AskedOk(f, js)

(* Two states of the tab that hold the same photos, and the same on its way. *)
FeedAlike(f, g) ==
  /\ g.permission = f.permission /\ g.anchor = f.anchor /\ g.newer = f.newer /\ g.removed = f.removed
  /\ g.changed = f.changed /\ g.deleted = f.deleted /\ g.slips = f.slips
  /\ g.device.items = f.device.items /\ g.device.cursor = f.device.cursor /\ g.device.ended = f.device.ended
  /\ g.device.before = f.device.before /\ g.device.cut = f.device.cut
  /\ g.cloud.items = f.cloud.items /\ g.cloud.page = f.cloud.page /\ g.cloud.done = f.cloud.done
  /\ g.cloud.before = f.cloud.before
FlyingAlike(js, ks, o) == Flying(ks, o) = Flying(js, o) /\ (AtMostOne(js, o) => AtMostOne(ks, o))

LEMMA SoundAlike ==
  ASSUME NEW f, NEW g \in Feeds, NEW js, NEW ks \in Seq(FeedJobs), NEW p, FeedSound(f, js, p), FeedAlike(f, g),
         \A o \in {"firstPage", "nextPage", "reload", "removal"} : FlyingAlike(js, ks, o)
  PROVE  FeedSound(g, ks, p)
<1>1. /\ Flying(ks, "firstPage") = Flying(js, "firstPage") /\ Flying(ks, "nextPage") = Flying(js, "nextPage")
      /\ Flying(ks, "reload") = Flying(js, "reload") /\ Flying(ks, "removal") = Flying(js, "removal")
      /\ AtMostOne(ks, "nextPage")
  BY DEF FlyingAlike, FeedSound, WindowOk
<1>2. Ungranted(g, ks)
  BY <1>1, Zenon DEF FeedSound, WindowOk, Ungranted, FeedAlike
<1>3. DeviceOk(g, Flying(ks, "firstPage"), Flying(ks, "nextPage"), p.device)
  BY <1>1 DEF FeedSound, WindowOk, DeviceOk, DeviceFits, FeedAlike
<1>4. "reload" \notin g.slips => CloudOk(g, Flying(ks, "reload"), p.cloud)
  BY <1>1, Zenon DEF FeedSound, WindowOk, CloudOk, CloudFits, FeedAlike
<1>5. NewerOk(g, p) /\ ClockOk(g, Flying(ks, "removal"), p)
  BY <1>1, Zenon DEF FeedSound, WindowOk, NewerOk, ClockOk, FeedAlike
<1> QED BY <1>1, <1>2, <1>3, <1>4, <1>5 DEF FeedSound, FeedTyped, WindowOk

LEMMA OkAlike ==
  ASSUME NEW f, NEW g \in Feeds, NEW js, NEW ks \in Seq(FeedJobs), NEW p, FeedOk(f, js, p), FeedAlike(f, g),
         g.cloudBusy = f.cloudBusy,
         \A o \in {"firstPage", "nextPage", "reload", "removal"} : FlyingAlike(js, ks, o),
         FlyingAlike(js, ks, "cloudPage")
  PROVE  FeedOk(g, ks, p)
<1>1. FeedSound(g, ks, p)
  BY SoundAlike DEF FeedOk
<1>2. AskedOk(g, ks)
  BY Zenon DEF FeedOk, AskedOk, PagesOk, FeedAlike, FlyingAlike
<1> QED BY <1>1, <1>2 DEF FeedOk

(* --------------------- asking for pages keeps it ------------------------- *)

LEMMA FeedIs ==
  ASSUME NEW f \in Feeds
  PROVE  /\ f.permission \in Grants /\ f.anchor \in Anchors /\ f.device \in DeviceStates /\ f.cloud \in CloudStates
         /\ f.newer \in NewerStates /\ f.cloudBusy \in BOOLEAN /\ f.months \in BOOLEAN
         /\ f.snapshot \in Seq(CloudTimes) /\ f.removed \in SUBSET PhoneTimes /\ f.changed \in BOOLEAN
         /\ f.viewing \in BOOLEAN /\ f.deleted \in BOOLEAN /\ f.video \in Players /\ f.slips \in SUBSET FeedSlips
BY DEF Feeds

LEMMA SpunFeed ==
  ASSUME NEW f \in Feeds, NEW g, g = [f EXCEPT !.cloudBusy = TRUE, !.cloud.loading = TRUE]
  PROVE  g \in Feeds /\ FeedAlike(f, g) /\ g.cloudBusy
<1>1. g.cloud \in CloudStates /\ g.cloud.items = f.cloud.items /\ g.cloud.page = f.cloud.page
      /\ g.cloud.done = f.cloud.done /\ g.cloud.before = f.cloud.before
  BY DEF Feeds, CloudStates
<1>2. g \in Feeds
  BY <1>1 DEF Feeds
<1>3. /\ g.permission = f.permission /\ g.anchor = f.anchor /\ g.newer = f.newer /\ g.removed = f.removed
      /\ g.changed = f.changed /\ g.deleted = f.deleted /\ g.slips = f.slips /\ g.device = f.device /\ g.cloudBusy
  BY DEF Feeds
<1> QED BY <1>1, <1>2, <1>3 DEF FeedAlike

LEMMA WaitingFeed ==
  ASSUME NEW f \in Feeds, NEW g, g = [f EXCEPT !.device.loading = TRUE]
  PROVE  g \in Feeds /\ FeedAlike(f, g) /\ g.cloudBusy = f.cloudBusy
<1>1. g.device \in DeviceStates /\ g.device.items = f.device.items /\ g.device.cursor = f.device.cursor
      /\ g.device.ended = f.device.ended /\ g.device.before = f.device.before /\ g.device.cut = f.device.cut
  BY DEF Feeds, DeviceStates
<1>2. g \in Feeds
  BY <1>1 DEF Feeds
<1>3. /\ g.permission = f.permission /\ g.anchor = f.anchor /\ g.newer = f.newer /\ g.removed = f.removed
      /\ g.changed = f.changed /\ g.deleted = f.deleted /\ g.slips = f.slips /\ g.cloud = f.cloud
      /\ g.cloudBusy = f.cloudBusy
  BY DEF Feeds
<1> QED BY <1>1, <1>2, <1>3 DEF FeedAlike

LEMMA CloudAskedOk ==
  ASSUME NEW f, NEW js, NEW p, NEW n \in Nat \ {0}, FeedSound(f, js, p),
         n = 1 \/ (AskedOk(f, js) /\ n = f.cloud.page + 1),
         NEW r, r = CloudAsked(f, js, n)
  PROVE  FeedOk(r.f, r.js, p) /\ FeedAlike(f, r.f)
<1>1. f \in Feeds /\ js \in Seq(FeedJobs)
  BY DEF FeedSound, FeedTyped
<1>2. CASE n > 1 /\ f.cloudBusy
  <2>1. r.f = f /\ r.js = js
    BY <1>2 DEF CloudAsked
  <2>2. AskedOk(f, js)
    BY <1>2
  <2> QED BY <2>1, <2>2 DEF FeedOk, FeedAlike
<1>3. CASE ~(n > 1 /\ f.cloudBusy)
  <2>1. PICK g : g = [f EXCEPT !.cloudBusy = TRUE, !.cloud.loading = TRUE]
    OBVIOUS
  <2>2. PICK j : j = [op |-> "cloudPage", live |-> TRUE, page |-> n, before |-> f.anchor]
    OBVIOUS
  <2>3. PICK rest : rest = IF n = 1 THEN Without(js, "cloudPage") ELSE js
    OBVIOUS
  <2>4. PICK ks : ks = Append(rest, j)
    OBVIOUS
  <2>5. r.f = g /\ r.js = ks
    BY <1>3, <2>1, <2>2, <2>3, <2>4 DEF CloudAsked
  <2>6. g \in Feeds /\ FeedAlike(f, g) /\ g.cloudBusy
    BY <1>1, <2>1, SpunFeed
  <2>7. f.anchor \in Anchors
    BY <1>1, FeedIs
  <2>8. j \in PageJobs /\ j \in FeedJobs /\ j.op = "cloudPage" /\ j.page = n /\ j.before = f.anchor
    BY <2>2, <2>7 DEF PageJobs, FeedJobs
  <2>9. /\ rest \in Seq(FeedJobs)
        /\ \A o : AtMostOne(js, o) => AtMostOne(rest, o)
        /\ \A o : o # "cloudPage" => Flying(rest, o) = Flying(js, o)
        /\ n = 1 => Flying(rest, "cloudPage") = {}
        /\ n # 1 => rest = js
    <3>1. CASE n = 1
      <4>1. rest = Without(js, "cloudPage")
        BY <2>3, <3>1
      <4>2. Superseded(FeedJobs, js, "cloudPage", rest)
        BY <1>1, <4>1, FlyingWithout
      <4> QED BY <3>1, <4>2 DEF Superseded
    <3>2. CASE n # 1
      BY <1>1, <2>3, <3>2
    <3> QED BY <3>1, <3>2
  <2>10. /\ ks \in Seq(FeedJobs) /\ Flying(ks, "cloudPage") = Flying(rest, "cloudPage") \cup {j}
         /\ \A o : o # "cloudPage" => Flying(ks, o) = Flying(rest, o) /\ (AtMostOne(rest, o) => AtMostOne(ks, o))
         /\ Flying(rest, "cloudPage") = {} => AtMostOne(ks, "cloudPage")
    <3>1. Joins(FeedJobs, rest, j, ks)
      BY <2>4, <2>8, <2>9, FlyingMore
    <3> QED BY <2>8, <3>1, Zenon DEF Joins
  <2>11. \A o \in {"firstPage", "nextPage", "reload", "removal"} : FlyingAlike(js, ks, o)
    BY <2>9, <2>10 DEF FlyingAlike
  <2>12. FeedSound(g, ks, p)
    BY <2>6, <2>10, <2>11, SoundAlike
  <2>13. AskedOk(g, ks)
    <3> SUFFICES ASSUME "reload" \notin g.slips
                 PROVE  AtMostOne(ks, "cloudPage") /\ PagesOk(g, Flying(ks, "cloudPage"))
      BY DEF AskedOk
    <3>1. CASE n = 1
      <4>1. Flying(ks, "cloudPage") = {j} /\ AtMostOne(ks, "cloudPage")
        BY <2>9, <2>10, <3>1
      <4> QED BY <2>6, <2>8, <3>1, <4>1 DEF PagesOk, FeedAlike
    <3>2. CASE n # 1
      <4>1. ~f.cloudBusy /\ n = f.cloud.page + 1 /\ PagesOk(f, Flying(js, "cloudPage"))
        BY <1>3, <2>6, <3>2 DEF AskedOk, FeedAlike
      <4>2. Flying(rest, "cloudPage") = {} /\ f.cloud.before = f.anchor
        BY <2>9, <3>2, <4>1 DEF PagesOk
      <4>3. Flying(ks, "cloudPage") = {j} /\ AtMostOne(ks, "cloudPage")
        BY <2>10, <4>2
      <4> QED BY <2>6, <2>8, <4>1, <4>2, <4>3 DEF PagesOk, FeedAlike
    <3> QED BY <3>1, <3>2
  <2> QED BY <2>5, <2>6, <2>12, <2>13 DEF FeedOk
<1> QED BY <1>2, <1>3

(* The phone's next page, from its cursor. *)
LEMMA DeviceAskedOk ==
  ASSUME NEW f, NEW js, NEW p, FeedOk(f, js, p), f.permission = "granted", NEW r, r = DeviceAsked(f, js)
  PROVE  FeedOk(r.f, r.js, p) /\ r.f = f
<1>1. f \in Feeds /\ js \in Seq(FeedJobs)
  BY DEF FeedOk, FeedSound, FeedTyped
<1>2. CASE Under(js, "nextPage") \/ f.device.ended \/ f.device.cursor = Nil
  BY <1>2 DEF DeviceAsked
<1>3. CASE ~(Under(js, "nextPage") \/ f.device.ended \/ f.device.cursor = Nil)
  <2>1. PICK j : j = [op |-> "nextPage", live |-> TRUE, before |-> f.anchor, from |-> f.device.cursor,
                      crossed |-> f.anchor # f.device.before]
    OBVIOUS
  <2>2. PICK ks : ks = Append(js, j)
    OBVIOUS
  <2>3. r.f = f /\ r.js = ks
    BY <1>3, <2>1, <2>2 DEF DeviceAsked
  <2>4. f.anchor \in Anchors /\ f.device \in DeviceStates
    BY <1>1, FeedIs
  <2>5. f.device.cursor \in Nat
    BY <1>3, <2>4 DEF DeviceStates
  <2>6. j \in MoreJobs /\ j \in FeedJobs /\ j.op = "nextPage" /\ j.before = f.anchor /\ j.from = f.device.cursor
    BY <2>1, <2>4, <2>5 DEF MoreJobs, FeedJobs
  <2>7. Flying(js, "nextPage") = {} /\ ~f.device.ended
    BY <1>3, UnderIs
  <2>8. /\ ks \in Seq(FeedJobs) /\ Flying(ks, "nextPage") = {j} /\ AtMostOne(ks, "nextPage")
        /\ \A o : o # "nextPage" => Flying(ks, o) = Flying(js, o) /\ (AtMostOne(js, o) => AtMostOne(ks, o))
    <3>1. Joins(FeedJobs, js, j, ks)
      BY <1>1, <2>2, <2>6, FlyingMore
    <3>2. {} \cup {j} = {j}
      OBVIOUS
    <3> QED BY <2>6, <2>7, <3>1, <3>2, Zenon DEF Joins
  <2>9. /\ Flying(ks, "firstPage") = Flying(js, "firstPage") /\ Flying(ks, "reload") = Flying(js, "reload")
        /\ Flying(ks, "removal") = Flying(js, "removal") /\ Flying(ks, "cloudPage") = Flying(js, "cloudPage")
        /\ AtMostOne(js, "cloudPage") => AtMostOne(ks, "cloudPage")
    BY <2>8
  <2>10. DeviceOk(f, Flying(ks, "firstPage"), Flying(ks, "nextPage"), p.device)
    BY <2>6, <2>7, <2>8, <2>9 DEF FeedOk, FeedSound, WindowOk, DeviceOk, DeviceFits
  <2>11. Ungranted(f, ks)
    BY DEF Ungranted
  <2>12. WindowOk(f, ks, p)
    BY <2>8, <2>9, <2>10, <2>11 DEF FeedOk, FeedSound, WindowOk
  <2>13. AskedOk(f, ks)
    BY <2>9 DEF FeedOk, AskedOk
  <2> QED BY <2>3, <2>8, <2>12, <2>13 DEF FeedOk, FeedSound, FeedTyped
<1> QED BY <1>2, <1>3

LEMMA MoreOk ==
  ASSUME NEW f, NEW js, NEW p, FeedOk(f, js, p), f.permission = "granted", NEW r, r = More(f, js)
  PROVE  FeedOk(r.f, r.js, p) /\ FeedAlike(f, r.f)
<1>1. FeedSound(f, js, p) /\ AskedOk(f, js) /\ FeedAlike(f, f)
  BY DEF FeedOk, FeedAlike
<1>2. f.cloud.page + 1 \in Nat \ {0}
  <2>1. f.cloud.page \in Nat
    BY <1>1, FeedIs DEF FeedSound, FeedTyped, CloudStates
  <2> QED BY <2>1
<1>3. CASE r = CloudAsked(f, js, f.cloud.page + 1)
  BY <1>1, <1>2, <1>3, CloudAskedOk, Zenon
<1>4. CASE r = DeviceAsked(f, js)
  BY <1>1, <1>4, DeviceAskedOk
<1>5. CASE r = [f |-> f, js |-> js]
  BY <1>1, <1>5
<1> QED BY <1>3, <1>4, <1>5 DEF More

(* What the effects ask for. *)
LEMMA FilledOk ==
  ASSUME NEW f, NEW js, NEW p, FeedOk(f, js, p), NEW r, r = Filled(f, js)
  PROVE  FeedOk(r.f, r.js, p)
<1> DEFINE short == /\ f.permission = "granted" /\ ~f.device.loading /\ ~f.cloud.loading /\ ~Under(js, "nextPage")
                    /\ Blocker(f) # Nil /\ Len(Merged(f)) < MinShown
<1>1. PICK one : one = IF short THEN More(f, js) ELSE [f |-> f, js |-> js]
  OBVIOUS
<1>2. FeedOk(one.f, one.js, p) /\ FeedAlike(f, one.f)
  <2>1. CASE short
    <3>1. one = More(f, js) /\ f.permission = "granted"
      BY <1>1, <2>1
    <3> HIDE DEF short
    <3> QED BY <3>1, MoreOk
  <2>2. CASE ~short
    <3>1. one = [f |-> f, js |-> js]
      BY <1>1, <2>2
    <3> QED BY <3>1 DEF FeedAlike
  <2> QED BY <2>1, <2>2
<1>3. r = one \/ r = CloudAsked(one.f, one.js, f.cloud.page + 1)
  BY <1>1, Zenon DEF Filled
<1> HIDE DEF short
<1>4. CASE r = CloudAsked(one.f, one.js, f.cloud.page + 1)
  <2>1. f.cloud.page \in Nat
    BY FeedIs DEF FeedOk, FeedSound, FeedTyped, CloudStates
  <2>2. PICK n \in Nat \ {0} : n = f.cloud.page + 1 /\ n = one.f.cloud.page + 1
    BY <1>2, <2>1 DEF FeedAlike
  <2>3. FeedSound(one.f, one.js, p) /\ AskedOk(one.f, one.js)
    BY <1>2 DEF FeedOk
  <2>4. r = CloudAsked(one.f, one.js, n)
    BY <1>4, <2>2
  <2> QED BY <2>2, <2>3, <2>4, CloudAskedOk, Zenon
<1> QED BY <1>2, <1>3, <1>4

LEMMA DeadJob ==
  ASSUME NEW j \in FeedJobs, NEW k, k = [j EXCEPT !.live = FALSE]
  PROVE  k \in FeedJobs /\ k.op = j.op /\ ~k.live
<1>1. CASE j \in PermissionJobs
  BY <1>1 DEF FeedJobs, PermissionJobs
<1>2. CASE j \in DeviceJobs
  BY <1>2 DEF FeedJobs, DeviceJobs
<1>3. CASE j \in MoreJobs
  BY <1>3 DEF FeedJobs, MoreJobs
<1>4. CASE j \in PageJobs
  BY <1>4 DEF FeedJobs, PageJobs
<1>5. CASE j \in ReloadJobs
  <2>1. k \in ReloadJobs /\ k.op = j.op /\ ~k.live
    BY <1>5 DEF ReloadJobs
  <2> QED BY <2>1 DEF FeedJobs
<1>6. CASE j \in TakeJobs
  BY <1>6 DEF FeedJobs, TakeJobs
<1>7. CASE j \in PlainJobs
  BY <1>7 DEF FeedJobs, PlainJobs
<1> QED BY <1>1, <1>2, <1>3, <1>4, <1>5, <1>6, <1>7 DEF FeedJobs

LEMMA EntriesMake ==
  ASSUME NEW S, NEW n \in Nat, NEW s \in [1..n -> S]
  PROVE  s \in Seq(S)
OBVIOUS

(* Nobody waits for those of a kind any longer. *)
LEMMA FlyingOrphaned ==
  ASSUME NEW js \in Seq(FeedJobs), NEW x, NEW ks, ks = Orphaned(js, {x})
  PROVE  ks \in Seq(FeedJobs) /\ Marked(js, x, ks)
<1> DEFINE mark(i) == IF js[i].op \in {x} THEN [js[i] EXCEPT !.live = FALSE] ELSE js[i]
<1>1. Len(js) \in Nat /\ DOMAIN js = 1..Len(js) /\ \A i \in DOMAIN js : js[i] \in FeedJobs
  BY EntriesIn
<1>2. ks = [i \in DOMAIN js |-> mark(i)]
  BY Zenon DEF Orphaned
<1>3. \A i \in DOMAIN js : mark(i) \in FeedJobs /\ mark(i).op = js[i].op /\ (js[i].op # x => mark(i) = js[i])
  <2> SUFFICES ASSUME NEW i \in DOMAIN js
               PROVE  mark(i) \in FeedJobs /\ mark(i).op = js[i].op /\ (js[i].op # x => mark(i) = js[i])
    OBVIOUS
  <2>1. CASE js[i].op = x
    <3>1. mark(i) = [js[i] EXCEPT !.live = FALSE]
      BY <2>1
    <3> HIDE DEF mark
    <3>2. js[i] \in FeedJobs
      BY <1>1
    <3>3. mark(i) \in FeedJobs /\ mark(i).op = js[i].op
      BY <3>1, <3>2, DeadJob, Zenon
    <3> QED BY <2>1, <3>3
  <2>2. CASE js[i].op # x
    <3>1. mark(i) = js[i]
      BY <2>2
    <3> HIDE DEF mark
    <3> QED BY <1>1, <3>1
  <2> QED BY <2>1, <2>2
<1> HIDE DEF mark
<1>4. \A i \in DOMAIN js : ks[i] \in FeedJobs /\ ks[i].op = js[i].op /\ (js[i].op # x => ks[i] = js[i])
  BY <1>2, <1>3, Zenon
<1>5. DOMAIN ks = DOMAIN js
  BY <1>2
<1>6. ks \in Seq(FeedJobs)
  <2>1. ks \in [1..Len(js) -> FeedJobs]
    BY <1>1, <1>2, <1>3
  <2> QED BY <1>1, <2>1, EntriesMake, Zenon
<1>7. Marked(js, x, ks)
  BY <1>4, <1>5, <1>6, FlyingMarked
<1> QED BY <1>6, <1>7

LEMMA FlyingCrossed ==
  ASSUME NEW js \in Seq(FeedJobs), NEW ks, ks = Crossed(js)
  PROVE  ks \in Seq(FeedJobs) /\ Marked(js, "nextPage", ks) /\ \A j \in Flying(ks, "nextPage") : j.crossed
<1> DEFINE mark(i) == IF js[i].op = "nextPage" THEN [js[i] EXCEPT !.crossed = TRUE] ELSE js[i]
<1>1. Len(js) \in Nat /\ DOMAIN js = 1..Len(js) /\ \A i \in DOMAIN js : js[i] \in FeedJobs
  BY EntriesIn
<1>2. ks = [i \in DOMAIN js |-> mark(i)]
  BY Zenon DEF Crossed
<1>3. \A i \in DOMAIN js : /\ mark(i) \in FeedJobs /\ mark(i).op = js[i].op /\ (js[i].op # "nextPage" => mark(i) = js[i])
                           /\ js[i].op = "nextPage" => mark(i).crossed
  <2> SUFFICES ASSUME NEW i \in DOMAIN js
               PROVE  /\ mark(i) \in FeedJobs /\ mark(i).op = js[i].op /\ (js[i].op # "nextPage" => mark(i) = js[i])
                      /\ js[i].op = "nextPage" => mark(i).crossed
    OBVIOUS
  <2>1. CASE js[i].op = "nextPage"
    <3>1. mark(i) = [js[i] EXCEPT !.crossed = TRUE]
      BY <2>1
    <3>2. js[i] \in MoreJobs
      BY <1>1, <2>1, FeedJobIs
    <3> HIDE DEF mark
    <3>3. mark(i) \in MoreJobs /\ mark(i).crossed
      BY <3>1, <3>2 DEF MoreJobs
    <3>4. mark(i).op = "nextPage" /\ mark(i) \in FeedJobs
      BY <3>3 DEF MoreJobs, FeedJobs
    <3> QED BY <2>1, <3>3, <3>4
  <2>2. CASE js[i].op # "nextPage"
    <3>1. mark(i) = js[i]
      BY <2>2
    <3> HIDE DEF mark
    <3> QED BY <1>1, <2>2, <3>1
  <2> QED BY <2>1, <2>2
<1> HIDE DEF mark
<1>4. \A i \in DOMAIN js : /\ ks[i] \in FeedJobs /\ ks[i].op = js[i].op /\ (js[i].op # "nextPage" => ks[i] = js[i])
                           /\ js[i].op = "nextPage" => ks[i].crossed
  BY <1>2, <1>3, Zenon
<1>5. DOMAIN ks = DOMAIN js
  BY <1>2
<1>6. ks \in Seq(FeedJobs)
  <2>1. ks \in [1..Len(js) -> FeedJobs]
    BY <1>1, <1>2, <1>3
  <2> QED BY <1>1, <2>1
<1>7. Marked(js, "nextPage", ks)
  BY <1>4, <1>5, <1>6, FlyingMarked
<1>8. \A j \in Flying(ks, "nextPage") : j.crossed
  BY <1>4, <1>7, Zenon DEF Marked
<1> QED BY <1>6, <1>7, <1>8

(* What else holds when a first page is asked for. *)
OthersOk(f, js, p) ==
  /\ AtMostOne(js, "nextPage")
  /\ "reload" \notin f.slips => CloudOk(f, Flying(js, "reload"), p.cloud)
  /\ NewerOk(f, p) /\ ClockOk(f, Flying(js, "removal"), p)

LEMMA FirstAskedOk ==
  ASSUME NEW f, NEW js, NEW p, FeedTyped(f, js, p), OthersOk(f, js, p), f.permission = "granted", NEW before \in Anchors,
         NEW r, r = FirstAsked(f, js, before)
  PROVE  /\ FeedSound(r.f, r.js, p) /\ FeedAlike(f, r.f) /\ r.f.cloudBusy = f.cloudBusy
         /\ AskedOk(f, js) => AskedOk(r.f, r.js)
<1>1. f \in Feeds /\ js \in Seq(FeedJobs)
  BY DEF FeedTyped
<1>2. PICK g : g = [f EXCEPT !.device.loading = TRUE]
  OBVIOUS
<1>3. PICK js1 : js1 = Without(js, "firstPage")
  OBVIOUS
<1>4. PICK js2 : js2 = Orphaned(js1, {"nextPage"})
  OBVIOUS
<1>5. PICK j : j = [op |-> "firstPage", live |-> TRUE, before |-> before]
  OBVIOUS
<1>6. PICK ks : ks = Append(js2, j)
  OBVIOUS
<1>7. r.f = g /\ r.js = ks
  BY <1>2, <1>3, <1>4, <1>5, <1>6 DEF FirstAsked
<1>8. g \in Feeds /\ FeedAlike(f, g) /\ g.cloudBusy = f.cloudBusy
  BY <1>1, <1>2, WaitingFeed
<1>9. Superseded(FeedJobs, js, "firstPage", js1)
  BY <1>1, <1>3, FlyingWithout
<1>10. js2 \in Seq(FeedJobs) /\ Marked(js1, "nextPage", js2)
  BY <1>4, <1>9, FlyingOrphaned DEF Superseded
<1>11. j \in FeedJobs /\ j.op = "firstPage"
  BY <1>5 DEF FeedJobs, DeviceJobs
<1>12. Joins(FeedJobs, js2, j, ks)
  BY <1>6, <1>10, <1>11, FlyingMore
<1>13. /\ ks \in Seq(FeedJobs) /\ j \in Flying(ks, "firstPage")
       /\ \A o : o # "firstPage" /\ AtMostOne(js, o) => AtMostOne(ks, o)
       /\ \A o : o # "firstPage" /\ o # "nextPage" => Flying(ks, o) = Flying(js, o)
  <2>1. j \in Flying(ks, "firstPage")
    BY <1>11, <1>12 DEF Joins
  <2>2. ASSUME NEW o, o # "firstPage" PROVE Flying(ks, o) = Flying(js2, o) /\ (AtMostOne(js2, o) => AtMostOne(ks, o))
    BY <1>11, <1>12, <2>2, Zenon DEF Joins
  <2>3. \A o : AtMostOne(js, o) => AtMostOne(js2, o)
    BY <1>9, <1>10, Zenon DEF Superseded, Marked
  <2>4. \A o : o # "firstPage" /\ o # "nextPage" => Flying(js2, o) = Flying(js, o)
    BY <1>9, <1>10, Zenon DEF Superseded, Marked
  <2> QED BY <1>12, <2>1, <2>2, <2>3, <2>4, Zenon DEF Joins
<1>14. /\ Flying(ks, "reload") = Flying(js, "reload") /\ Flying(ks, "removal") = Flying(js, "removal")
       /\ Flying(ks, "cloudPage") = Flying(js, "cloudPage") /\ Flying(ks, "firstPage") # {}
       /\ AtMostOne(ks, "nextPage") /\ (AtMostOne(js, "cloudPage") => AtMostOne(ks, "cloudPage"))
  BY <1>13 DEF OthersOk
<1>15. Ungranted(g, ks)
  <2>1. g.permission = "granted"
    BY <1>8, Zenon DEF FeedAlike
  <2> QED BY <2>1, Zenon DEF Ungranted
<1>16. DeviceOk(g, Flying(ks, "firstPage"), Flying(ks, "nextPage"), p.device)
  BY <1>14 DEF DeviceOk
<1>17. "reload" \notin g.slips => CloudOk(g, Flying(ks, "reload"), p.cloud)
  BY <1>8, <1>14, Zenon DEF OthersOk, CloudOk, CloudFits, FeedAlike
<1>18. NewerOk(g, p) /\ ClockOk(g, Flying(ks, "removal"), p)
  BY <1>8, <1>14, Zenon DEF OthersOk, NewerOk, ClockOk, FeedAlike
<1>19. FeedSound(g, ks, p)
  BY <1>8, <1>13, <1>14, <1>15, <1>16, <1>17, <1>18 DEF FeedSound, FeedTyped, WindowOk
<1>20. AskedOk(f, js) => AskedOk(g, ks)
  BY <1>8, <1>14, Zenon DEF AskedOk, PagesOk, FeedAlike
<1> QED BY <1>7, <1>8, <1>19, <1>20

(* ----------------------- what else is in flight -------------------------- *)

(* Nothing of the two sources starts, ends or is lost. *)
Loads == {"firstPage", "nextPage", "cloudPage", "reload", "removal"}
KeepsLoads(js, ks) == ks \in Seq(FeedJobs) /\ \A o \in Loads : FlyingAlike(js, ks, o)

LEMMA QuietSame == ASSUME NEW js \in Seq(FeedJobs) PROVE KeepsLoads(js, js)
BY DEF KeepsLoads, FlyingAlike

LEMMA QuietTwice ==
  ASSUME NEW js, NEW ks, NEW ls, KeepsLoads(js, ks), KeepsLoads(ks, ls)
  PROVE  KeepsLoads(js, ls)
BY Zenon DEF KeepsLoads, FlyingAlike

LEMMA QuietLess ==
  ASSUME NEW js \in Seq(FeedJobs), NEW i \in DOMAIN js, js[i].op \notin Loads, NEW ks, ks = RemoveAt(js, i)
  PROVE  KeepsLoads(js, ks)
<1>1. Leaves(FeedJobs, js, i, ks)
  BY FlyingLess
<1>2. \A o \in Loads : o # js[i].op
  OBVIOUS
<1> QED BY <1>1, <1>2, Zenon DEF Leaves, KeepsLoads, FlyingAlike

LEMMA QuietMore ==
  ASSUME NEW js \in Seq(FeedJobs), NEW j \in FeedJobs, j.op \notin Loads, NEW ks, ks = Append(js, j)
  PROVE  KeepsLoads(js, ks)
<1>1. Joins(FeedJobs, js, j, ks)
  BY FlyingMore
<1>2. \A o \in Loads : o # j.op
  OBVIOUS
<1> QED BY <1>1, <1>2, Zenon DEF Joins, KeepsLoads, FlyingAlike

LEMMA QuietWithout ==
  ASSUME NEW js \in Seq(FeedJobs), NEW x, x \notin Loads, NEW ks, ks = Without(js, x)
  PROVE  KeepsLoads(js, ks)
<1>1. Superseded(FeedJobs, js, x, ks)
  BY FlyingWithout
<1>2. \A o \in Loads : o # x
  OBVIOUS
<1> QED BY <1>1, <1>2, Zenon DEF Superseded, KeepsLoads, FlyingAlike

LEMMA QuietOrphaned ==
  ASSUME NEW js \in Seq(FeedJobs), NEW x, x \notin Loads, NEW ks, ks = Orphaned(js, {x})
  PROVE  KeepsLoads(js, ks)
<1>1. ks \in Seq(FeedJobs) /\ Marked(js, x, ks)
  BY FlyingOrphaned
<1>2. \A o \in Loads : o # x
  OBVIOUS
<1> QED BY <1>1, <1>2, Zenon DEF Marked, KeepsLoads, FlyingAlike

LEMMA QuietSound ==
  ASSUME NEW f, NEW g \in Feeds, NEW js, NEW ks, NEW p, FeedSound(f, js, p), FeedAlike(f, g), KeepsLoads(js, ks)
  PROVE  FeedSound(g, ks, p)
<1>1. ks \in Seq(FeedJobs) /\ \A o \in {"firstPage", "nextPage", "reload", "removal"} : FlyingAlike(js, ks, o)
  BY DEF KeepsLoads, Loads
<1> QED BY <1>1, SoundAlike

LEMMA QuietOk ==
  ASSUME NEW f, NEW g \in Feeds, NEW js, NEW ks, NEW p, FeedOk(f, js, p), FeedAlike(f, g), g.cloudBusy = f.cloudBusy,
         KeepsLoads(js, ks)
  PROVE  FeedOk(g, ks, p)
<1>1. /\ ks \in Seq(FeedJobs) /\ \A o \in {"firstPage", "nextPage", "reload", "removal"} : FlyingAlike(js, ks, o)
      /\ FlyingAlike(js, ks, "cloudPage")
  BY DEF KeepsLoads, Loads
<1> QED BY <1>1, OkAlike

LEMMA SameFeed == ASSUME NEW f PROVE FeedAlike(f, f)
BY DEF FeedAlike

LEMMA OkTyped ==
  ASSUME NEW f, NEW js, NEW p, FeedOk(f, js, p)
  PROVE  /\ f \in Feeds /\ js \in Seq(FeedJobs) /\ p \in Pools /\ FeedSound(f, js, p) /\ WindowOk(f, js, p)
         /\ OthersOk(f, js, p) /\ AskedOk(f, js) /\ FeedTyped(f, js, p)
BY DEF FeedOk, FeedSound, FeedTyped, WindowOk, OthersOk

(* What one step of the tab hands to the effects. *)
LEMMA EffectsOk ==
  ASSUME NEW f, NEW js, FeedOk(f, js, pool'), Effects(f, js)
  PROVE  FeedOk(feed, jobs, pool)'
<1>1. PICK r : r = Filled(f, js)
  OBVIOUS
<1>2. feed' = r.f /\ jobs' = r.js
  BY <1>1, Zenon DEF Effects
<1>3. FeedOk(r.f, r.js, pool')
  BY <1>1, FilledOk
<1>4. FeedOk(feed', jobs', pool')
  BY <1>2, <1>3
<1> QED BY <1>4

(* A job that neither source waits for, or a page that does not count. *)
LEMMA LessOk ==
  ASSUME NEW f, NEW js, NEW p, FeedOk(f, js, p), NEW i \in DOMAIN js, js[i].op \notin {"firstPage", "reload", "cloudPage"},
         NEW ks, ks = RemoveAt(js, i)
  PROVE  FeedOk(f, ks, p)
<1>1. f \in Feeds /\ js \in Seq(FeedJobs) /\ p \in Pools /\ WindowOk(f, js, p) /\ AskedOk(f, js)
  BY OkTyped
<1>2. Leaves(FeedJobs, js, i, ks)
  BY <1>1, FlyingLess
<1>3. /\ ks \in Seq(FeedJobs) /\ Flying(ks, "firstPage") = Flying(js, "firstPage")
      /\ Flying(ks, "reload") = Flying(js, "reload") /\ Flying(ks, "cloudPage") = Flying(js, "cloudPage")
      /\ Flying(ks, "nextPage") \subseteq Flying(js, "nextPage") /\ Flying(ks, "removal") \subseteq Flying(js, "removal")
      /\ (AtMostOne(js, "nextPage") => AtMostOne(ks, "nextPage"))
      /\ (AtMostOne(js, "cloudPage") => AtMostOne(ks, "cloudPage"))
  BY <1>2 DEF Leaves
<1>4. Ungranted(f, ks)
  BY <1>1, <1>3 DEF WindowOk, Ungranted
<1>5. DeviceOk(f, Flying(ks, "firstPage"), Flying(ks, "nextPage"), p.device)
  BY <1>1, <1>3 DEF WindowOk, DeviceOk, DeviceFits
<1>6. ClockOk(f, Flying(ks, "removal"), p)
  BY <1>1, <1>3 DEF WindowOk, ClockOk
<1>7. WindowOk(f, ks, p)
  BY <1>1, <1>3, <1>4, <1>5, <1>6 DEF WindowOk
<1>8. AskedOk(f, ks)
  BY <1>1, <1>3 DEF AskedOk
<1> QED BY <1>1, <1>3, <1>7, <1>8 DEF FeedOk, FeedSound, FeedTyped
=============================================================================
