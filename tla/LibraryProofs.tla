---------------------------- MODULE LibraryProofs ----------------------------
(***************************************************************************)
(* No photo is lost between the library of the device, the vault and the   *)
(* encrypted mode, and locking leaves nothing decrypted, for any number of *)
(* photos, vault ids, PINs, taps, promises and mishaps.  Then the Photos   *)
(* tab: however late the pages of its two sources answer, its timeline is  *)
(* in order and leaves nothing out between two photos.                     *)
(***************************************************************************)
EXTENDS AreaProofs

(* ------------------------------ the invariant --------------------------- *)

Tasks == {"import", "export", "vgrid", "play", "enable", "disable", "previews"}
TaskFields == {"op", "live", "at", "todo", "all", "bad", "key", "id", "from"}

(* A photo on its way out of the library, and how often it was saved before. *)
Moving(j) == j.op = "import" /\ j.at = "deleting"
Hiding(j) == j.op = "enable" /\ j.at = "deleting"
First(j) == Head(j.todo)
Age(j) == First(j)[2]
(* A migration that runs; two of them are a slip. *)
Migrates(j) == j.op = "enable" \/ (j.op = "disable" /\ j.at # "check")

(* What a promise in flight remembers, and what it knows of the device. *)
Shape(j) ==
  /\ "op" \in DOMAIN j
  /\ j.op \in Tasks => DOMAIN j = TaskFields /\ j.bad \in Nat
  /\ (j.op = "export" /\ j.at = "saving") => First(j) \in VaultIds
  /\ (j.op = "enable" /\ j.at # "setup") => /\ j.todo \in Seq(Assets)
                                            /\ j.at # "item" => j.todo # <<>>
                                            /\ j.at = "thumb" => j.key \in Nat \ {0}
  /\ (j.op = "disable" /\ j.at # "check") => /\ j.todo \in Seq(Assets)
                                             /\ j.at # "item" => j.todo # <<>>
Knows(j, d) ==
  /\ Shape(j)
  /\ Moving(j) => /\ First(j) \in Assets /\ Age(j) <= d.saves[First(j)[1]]
                  /\ j.id \in VaultIds /\ d.vault[j.id].of = First(j)[1]
(* What a migration knows when it is the only one. *)
KnowsAlone(j, d) ==
  /\ (j.op = "enable" /\ j.at # "setup") =>
       /\ Distinct(j.todo)
       /\ IF j.at = "deleting"
          THEN d.mode[First(j)].row /\ \A k \in 2..Len(j.todo) : ~d.mode[j.todo[k]].row
          ELSE \A k \in 1..Len(j.todo) : ~d.mode[j.todo[k]].row
       /\ j.at = "thumb" => j.key = d.mkey
  /\ (j.op = "disable" /\ j.at # "check" /\ j.bad = 0) =>
       \A x \in Assets : d.mode[x].row => \E k \in 1..Len(j.todo) : j.todo[k] = x

RowOf(d, v, p) == d.vault[v].row /\ d.vault[v].of = p
CopyOf(d, x, p) == d.mode[x].row /\ x[1] = p
Somewhere(d, p) == \/ \E a \in d.media : a[1] = p
                   \/ \E v \in VaultIds : RowOf(d, v, p)
                   \/ \E x \in Assets : CopyOf(d, x, p)
(* What is on its way and may be rolled back counts as old as its original. *)
Outlives(d, js, p, n) ==
  \/ \E a \in d.media : a[1] = p /\ n < a[2]
  \/ \E v \in VaultIds : RowOf(d, v, p) /\ \A k \in DOMAIN js : Moving(js[k]) /\ js[k].id = v => n < Age(js[k])
  \/ \E x \in Assets : CopyOf(d, x, p) /\ \A k \in DOMAIN js : Hiding(js[k]) /\ First(js[k]) = x => n < x[2]

EntrySet == [row : BOOLEAN, file : {"none", "whole"}, key : Nat,
             plain : {"none", "partial", "whole"}, of : Photos \cup {Nil}]
CopySet == [row : BOOLEAN, file : {"none", "whole"}, key : Nat,
            plain : {"none", "partial", "whole"}, thumb : BOOLEAN, small : BOOLEAN,
            stuck : SUBSET {"full", "thumb"}]
OnDisk(d) ==
  /\ DOMAIN d = {"media", "saves", "legacy", "vault", "mode", "vkey", "mkey", "last", "lock", "bio"}
  /\ d.media \in SUBSET Assets /\ d.saves \in [Photos -> 0..MaxSaves]
  /\ d.vault \in [VaultIds -> EntrySet] /\ d.mode \in [Assets -> CopySet]
  /\ d.vkey \in Nat /\ d.mkey \in Nat /\ d.last \in Nat
DiskOk(d) ==
  /\ OnDisk(d)
  /\ \A a \in d.media : a[2] <= d.saves[a[1]]
  /\ \A v \in VaultIds : /\ d.vault[v].row => d.vault[v].file = "whole" /\ d.vault[v].key # 0
                         /\ d.vault[v].row \/ d.vault[v].plain # "none" => d.vault[v].of # Nil
  /\ \A x \in Assets : IF d.mode[x].row THEN d.mode[x].file = "whole" /\ d.mode[x].key # 0
                       ELSE d.mode[x] = NoCopy
AppOk(a) ==
  /\ DOMAIN a = DOMAIN NoApp /\ DOMAIN a.mode = DOMAIN NoMode
  /\ a.vkey \in Nat /\ a.mkey \in Nat
JobsOk(js, d) ==
  /\ js \in Seq(ToSet(js))
  /\ \A k \in DOMAIN js : Knows(js[k], d)
  /\ \A i, k \in DOMAIN js : Moving(js[i]) /\ Moving(js[k]) /\ js[i].id = js[k].id => i = k
Alone(js, a, d) ==
  /\ \A i, k \in DOMAIN js : Migrates(js[i]) /\ Migrates(js[k]) => i = k
  /\ \A k \in DOMAIN js : Migrates(js[k]) => a.mode.migrating
  /\ \A k \in DOMAIN js : KnowsAlone(js[k], d)
KeysKept(d, a) ==
  /\ a.vkey \in {0, d.vkey}
  /\ \A v \in VaultIds : d.vault[v].row => d.vault[v].key = d.vkey
  /\ \A x \in Assets : d.mode[x].row => d.mode[x].key = d.mkey
HomesKept(d, js, er) ==
  /\ \A p \in Photos \ er : Somewhere(d, p)
  /\ \A k \in DOMAIN js : Moving(js[k]) =>
       \/ First(js[k])[1] \in er
       \/ RowOf(d, js[k].id, First(js[k])[1])
       \/ Outlives(d, js, First(js[k])[1], Age(js[k]))
Clean(d) == \A x \in Assets : /\ d.mode[x].plain # "none" => "full" \in d.mode[x].stuck
                              /\ d.mode[x].small => "thumb" \in d.mode[x].stuck

Slipped(ss) == slips \cap ss # {}
VaultInv ==
  /\ DiskOk(disk) /\ AppOk(app) /\ JobsOk(jobs, disk)
  /\ slips \subseteq {"rekeyed", "partial", "crossed", "crash"}
  /\ app.mkey \in {0, disk.mkey}
  /\ "crossed" \notin slips => Alone(jobs, app, disk)
  /\ ~Slipped({"rekeyed", "partial", "crossed"}) => KeysKept(disk, app) /\ HomesKept(disk, jobs, erased)
  /\ (app.mkey = 0 /\ ~Slipped({"crash", "crossed"})) => Clean(disk)
VaultSafe == area = "vault" => VaultInv

(* --------------------------- promises in flight -------------------------- *)

(* The same promise, its screen there or gone. *)
Alike(j2, j) ==
  /\ "op" \in DOMAIN j2 /\ j2.op = j.op
  /\ j.op \in Tasks => /\ DOMAIN j2 = TaskFields
                       /\ j2.at = j.at /\ j2.todo = j.todo /\ j2.bad = j.bad /\ j2.key = j.key /\ j2.id = j.id
(* A promise that has taken nothing yet. *)
Fresh(j) == Shape(j) /\ ~Moving(j) /\ ~Hiding(j)
(* Each promise of js2 is one of js at D, no two the same, or a fresh one,
   which migrates only if "also". *)
From(js2, js, D, also) ==
  /\ js2 \in Seq(ToSet(js2))
  /\ D \subseteq DOMAIN js
  /\ \E f \in [DOMAIN js2 -> Nat] :
       /\ \A k \in DOMAIN js2 : \/ f[k] \in D /\ Alike(js2[k], js[f[k]])
                                \/ f[k] = 0 /\ Fresh(js2[k]) /\ (Migrates(js2[k]) => also)
       /\ \A k, l \in DOMAIN js2 : f[k] = f[l] /\ f[k] # 0 => k = l

LEMMA OwnSeq == ASSUME NEW S, NEW s \in Seq(S) PROVE s \in Seq(ToSet(s))
<1>1. s \in [1..Len(s) -> ToSet(s)]
  BY DEF ToSet
<1> QED BY <1>1

LEMMA AlikeSelf == ASSUME NEW j, Shape(j) PROVE Alike(j, j)
BY DEF Alike, Shape

LEMMA AlikeTrans == ASSUME NEW j, NEW k, NEW l, Alike(j, k), Alike(k, l) PROVE Alike(j, l)
BY DEF Alike

(* What is alike knows the same. *)
LEMMA AlikeKnows ==
  ASSUME NEW j2, NEW j, Alike(j2, j), Shape(j)
  PROVE  /\ Shape(j2) /\ (Moving(j2) <=> Moving(j)) /\ (Hiding(j2) <=> Hiding(j)) /\ (Migrates(j2) <=> Migrates(j))
         /\ j.op \in Tasks => First(j2) = First(j) /\ Age(j2) = Age(j) /\ j2.id = j.id
         /\ \A d : KnowsAlone(j, d) => KnowsAlone(j2, d)
<1>1. CASE j.op \in Tasks
  BY <1>1 DEF Alike, Shape, Moving, Hiding, Migrates, First, Age, KnowsAlone
<1>2. CASE j.op \notin Tasks
  BY <1>2 DEF Alike, Shape, Moving, Hiding, Migrates, KnowsAlone, Tasks
<1> QED BY <1>1, <1>2

LEMMA FromSelf ==
  ASSUME NEW js, js \in Seq(ToSet(js)), \A k \in DOMAIN js : Shape(js[k]), NEW D, D = DOMAIN js, NEW b
  PROVE  From(js, js, D, b)
<1> DEFINE f == [k \in DOMAIN js |-> k]
<1>1. DOMAIN js = 1..Len(js) /\ Len(js) \in Nat
  OBVIOUS
<1>2. f \in [DOMAIN js -> Nat]
  BY <1>1
<1>3. \A k \in DOMAIN js : f[k] \in DOMAIN js /\ Alike(js[k], js[f[k]])
  BY AlikeSelf
<1>4. \A k, l \in DOMAIN js : f[k] = f[l] /\ f[k] # 0 => k = l
  OBVIOUS
<1> HIDE DEF f
<1> QED BY <1>2, <1>3, <1>4 DEF From

LEMMA FromAppend ==
  ASSUME NEW js2, NEW js, NEW D, NEW b, From(js2, js, D, b), NEW S, NEW new \in Seq(S),
         \A k \in DOMAIN new : Fresh(new[k]) /\ (Migrates(new[k]) => b)
  PROVE  From(js2 \o new, js, D, b)
<1> DEFINE n == Len(js2)
           both == js2 \o new
<1>1. PICK f \in [DOMAIN js2 -> Nat] :
        /\ \A k \in DOMAIN js2 : \/ f[k] \in D /\ Alike(js2[k], js[f[k]])
                                 \/ f[k] = 0 /\ Fresh(js2[k]) /\ (Migrates(js2[k]) => b)
        /\ \A k, l \in DOMAIN js2 : f[k] = f[l] /\ f[k] # 0 => k = l
  BY DEF From
<1>2. js2 \in Seq(ToSet(js2)) /\ D \subseteq DOMAIN js
  BY DEF From
<1>3. both \in Seq(ToSet(js2) \cup S)
  BY <1>2
<1>4. both \in Seq(ToSet(both))
  BY <1>3, OwnSeq
<1>5. n \in Nat /\ DOMAIN js2 = 1..n /\ DOMAIN both = 1..(n + Len(new)) /\ Len(new) \in Nat /\ DOMAIN new = 1..Len(new)
  BY <1>2, <1>3
<1>6. \A k \in DOMAIN both : IF k \in DOMAIN js2 THEN both[k] = js2[k]
                             ELSE k - n \in DOMAIN new /\ both[k] = new[k - n]
  BY <1>2, <1>5
<1> DEFINE g == [k \in DOMAIN both |-> IF k \in DOMAIN js2 THEN f[k] ELSE 0]
<1>7. g \in [DOMAIN both -> Nat]
  OBVIOUS
<1> HIDE DEF both
<1>8. \A k \in DOMAIN both : \/ g[k] \in D /\ Alike(both[k], js[g[k]])
                             \/ g[k] = 0 /\ Fresh(both[k]) /\ (Migrates(both[k]) => b)
  BY <1>1, <1>6
<1>9. \A k, l \in DOMAIN both : g[k] = g[l] /\ g[k] # 0 => k = l
  BY <1>1
<1> HIDE DEF g
<1>10. From(both, js, D, b)
  BY <1>2, <1>4, <1>7, <1>8, <1>9 DEF From
<1> QED BY <1>10 DEF both

LEMMA FromRemove ==
  ASSUME NEW js, js \in Seq(ToSet(js)), \A k \in DOMAIN js : Shape(js[k]), NEW i \in DOMAIN js, NEW b
  PROVE  From(RemoveAt(js, i), js, DOMAIN js \ {i}, b)
<1> DEFINE rest == RemoveAt(js, i)
           n == Len(js)
           f == [k \in 1..(n - 1) |-> IF k < i THEN k ELSE k + 1]
<1>1. n \in Nat /\ DOMAIN js = 1..n /\ i \in 1..n
  OBVIOUS
<1>2. rest \in Seq(ToSet(js)) /\ Len(rest) = n - 1
  BY <1>1 DEF RemoveAt
<1>3. DOMAIN rest = 1..(n - 1)
  BY <1>1, <1>2
<1>4. \A k \in 1..(n - 1) : rest[k] = js[f[k]]
  <2> DEFINE a == SubSeq(js, 1, i - 1)
             z == SubSeq(js, i + 1, n)
  <2>1. a \in Seq(ToSet(js)) /\ Len(a) = i - 1 /\ \A k \in 1..(i - 1) : a[k] = js[k]
    BY <1>1
  <2>2. z \in Seq(ToSet(js)) /\ Len(z) = n - i /\ \A k \in 1..(n - i) : z[k] = js[i + k]
    BY <1>1
  <2>3. rest = a \o z
    BY DEF RemoveAt
  <2> HIDE DEF a, z, rest
  <2>4. \A k \in 1..(n - 1) : k < i => rest[k] = js[k]
    BY <1>1, <2>1, <2>2, <2>3
  <2>5. \A k \in 1..(n - 1) : k >= i => rest[k] = js[k + 1]
    <3> SUFFICES ASSUME NEW k \in 1..(n - 1), k >= i PROVE rest[k] = js[k + 1]
      OBVIOUS
    <3>1. k - (i - 1) \in 1..(n - i) /\ i + (k - (i - 1)) = k + 1
      BY <1>1
    <3>2. rest[k] = z[k - (i - 1)]
      BY <1>1, <2>1, <2>2, <2>3
    <3> QED BY <3>1, <3>2, <2>2
  <2> QED BY <1>1, <2>4, <2>5
<1>5. rest \in Seq(ToSet(rest))
  BY <1>2, OwnSeq
<1> HIDE DEF rest
<1>6. f \in [DOMAIN rest -> Nat]
  BY <1>1, <1>3
<1>7. \A k \in DOMAIN rest : f[k] \in DOMAIN js \ {i} /\ Alike(rest[k], js[f[k]])
  <2>1. \A k \in DOMAIN rest : f[k] \in DOMAIN js \ {i} /\ rest[k] = js[f[k]]
    BY <1>1, <1>3, <1>4
  <2> HIDE DEF f
  <2> QED BY <2>1, AlikeSelf
<1>8. \A k, l \in DOMAIN rest : f[k] = f[l] /\ f[k] # 0 => k = l
  BY <1>1, <1>3
<1> HIDE DEF f
<1>9. From(rest, js, DOMAIN js \ {i}, b)
  BY <1>5, <1>6, <1>7, <1>8 DEF From
<1> QED BY <1>9 DEF rest

(* A promise that goes on to something fresh is a new one. *)
LEMMA FromBecomes ==
  ASSUME NEW js, js \in Seq(ToSet(js)), \A k \in DOMAIN js : Shape(js[k]), NEW i \in DOMAIN js,
         NEW j, Fresh(j), NEW b, Migrates(j) => b
  PROVE  From([js EXCEPT ![i] = j], js, DOMAIN js \ {i}, b)
<1> DEFINE js2 == [js EXCEPT ![i] = j]
           f == [k \in DOMAIN js |-> IF k = i THEN 0 ELSE k]
<1>1. DOMAIN js = 1..Len(js) /\ Len(js) \in Nat
  OBVIOUS
<1>2. js2 \in Seq(ToSet(js) \cup {j}) /\ DOMAIN js2 = DOMAIN js
  OBVIOUS
<1>3. js2 \in Seq(ToSet(js2))
  BY <1>2, OwnSeq
<1>4. f \in [DOMAIN js2 -> Nat]
  BY <1>1, <1>2
<1>5. \A k \in DOMAIN js2 : \/ f[k] \in DOMAIN js \ {i} /\ Alike(js2[k], js[f[k]])
                            \/ f[k] = 0 /\ Fresh(js2[k]) /\ (Migrates(js2[k]) => b)
  BY <1>2, AlikeSelf
<1>6. \A k, l \in DOMAIN js2 : f[k] = f[l] /\ f[k] # 0 => k = l
  BY <1>2
<1> HIDE DEF f, js2
<1>7. From(js2, js, DOMAIN js \ {i}, b)
  BY <1>3, <1>4, <1>5, <1>6 DEF From
<1> QED BY <1>7 DEF js2

LEMMA FromOrphaned ==
  ASSUME NEW js2, NEW js, NEW D, NEW b, From(js2, js, D, b), \A k \in DOMAIN js : Shape(js[k]), NEW ops
  PROVE  From(Orphaned(js2, ops), js, D, b)
<1> DEFINE js3 == Orphaned(js2, ops)
<1>1. PICK f \in [DOMAIN js2 -> Nat] :
        /\ \A k \in DOMAIN js2 : \/ f[k] \in D /\ Alike(js2[k], js[f[k]])
                                 \/ f[k] = 0 /\ Fresh(js2[k]) /\ (Migrates(js2[k]) => b)
        /\ \A k, l \in DOMAIN js2 : f[k] = f[l] /\ f[k] # 0 => k = l
  BY DEF From
<1>2. js2 \in Seq(ToSet(js2)) /\ D \subseteq DOMAIN js
  BY DEF From
<1>3. DOMAIN js3 = DOMAIN js2 /\ DOMAIN js2 = 1..Len(js2) /\ Len(js2) \in Nat
  BY <1>2 DEF Orphaned
<1>4. js3 \in Seq(ToSet(js3))
  <2>1. js3 \in [1..Len(js2) -> ToSet(js3)]
    BY <1>3 DEF Orphaned, ToSet
  <2> QED BY <2>1, <1>3
<1>5. \A k \in DOMAIN js2 : Shape(js2[k])
  BY <1>1, <1>2, AlikeKnows DEF Fresh
<1>6. \A k \in DOMAIN js2 : js3[k] = js2[k] \/ js3[k] = [js2[k] EXCEPT !.live = FALSE]
  BY DEF Orphaned
<1>7. \A k \in DOMAIN js2 : Alike(js3[k], js2[k])
  BY <1>5, <1>6 DEF Alike, Shape, TaskFields
<1>8. \A k \in DOMAIN js2 : \/ f[k] \in D /\ Alike(js3[k], js[f[k]])
                            \/ f[k] = 0 /\ Fresh(js3[k]) /\ (Migrates(js3[k]) => b)
  <2> SUFFICES ASSUME NEW k \in DOMAIN js2
               PROVE  \/ f[k] \in D /\ Alike(js3[k], js[f[k]])
                      \/ f[k] = 0 /\ Fresh(js3[k]) /\ (Migrates(js3[k]) => b)
    OBVIOUS
  <2> HIDE DEF js3
  <2>1. ASSUME f[k] \in D, Alike(js2[k], js[f[k]]) PROVE Alike(js3[k], js[f[k]])
    BY <2>1, <1>7, AlikeTrans
  <2>2. ASSUME f[k] = 0, Fresh(js2[k]), Migrates(js2[k]) => b PROVE Fresh(js3[k]) /\ (Migrates(js3[k]) => b)
    BY <2>2, <1>7, AlikeKnows DEF Fresh
  <2> QED BY <1>1, <2>1, <2>2
<1> HIDE DEF js3
<1>9. From(js3, js, D, b)
  BY <1>1, <1>2, <1>3, <1>4, <1>8 DEF From
<1> QED BY <1>9 DEF js3

(* ------------------------ what a step leaves as it is -------------------- *)

(* Ids once used stay used, and saves are counted up. *)
Grows(d, d2) ==
  /\ \A p \in Photos : d.saves[p] <= d2.saves[p]
  /\ \A v \in VaultIds : d.vault[v].of # Nil => d2.vault[v].of = d.vault[v].of
(* Every photo is where it was, in the same files under the same keys. *)
Still(d, d2) ==
  /\ OnDisk(d2)
  /\ d2.media = d.media /\ d2.saves = d.saves /\ d2.vkey = d.vkey /\ d2.mkey = d.mkey
  /\ \A v \in VaultIds : /\ d2.vault[v].row = d.vault[v].row /\ d2.vault[v].of = d.vault[v].of
                         /\ d2.vault[v].file = d.vault[v].file /\ d2.vault[v].key = d.vault[v].key
                         /\ d2.vault[v].plain # "none" => d.vault[v].row \/ d.vault[v].plain # "none"
  /\ \A x \in Assets : /\ d2.mode[x].row = d.mode[x].row
                       /\ d2.mode[x].file = d.mode[x].file /\ d2.mode[x].key = d.mode[x].key
                       /\ ~d.mode[x].row => d2.mode[x] = d.mode[x]

LEMMA GrowsAsset ==
  ASSUME NEW d, NEW d2, Grows(d, d2), NEW a \in Assets, a[2] <= d.saves[a[1]],
         OnDisk(d), OnDisk(d2)
  PROVE  a[2] <= d2.saves[a[1]]
<1>1. a[1] \in Photos /\ a[2] \in Nat
  BY DEF Assets
<1>2. d.saves[a[1]] \in Int /\ d2.saves[a[1]] \in Int
  BY <1>1, VaultAssumption DEF OnDisk
<1>3. d.saves[a[1]] <= d2.saves[a[1]]
  BY <1>1 DEF Grows
<1> QED BY <1>1, <1>2, <1>3

LEMMA KnowsGrows ==
  ASSUME NEW j, NEW d, NEW d2, Knows(j, d), Grows(d, d2), OnDisk(d), OnDisk(d2)
  PROVE  Knows(j, d2)
<1> SUFFICES ASSUME Moving(j)
             PROVE  Age(j) <= d2.saves[First(j)[1]] /\ d2.vault[j.id].of = First(j)[1]
  BY DEF Knows
<1>1. /\ First(j) \in Assets /\ First(j)[2] <= d.saves[First(j)[1]]
      /\ j.id \in VaultIds /\ d.vault[j.id].of = First(j)[1]
  BY DEF Knows, Age
<1>2. First(j)[1] \in Photos /\ First(j)[1] # Nil
  BY <1>1, VaultAssumption DEF Assets
<1>3. First(j)[2] <= d2.saves[First(j)[1]]
  BY <1>1, GrowsAsset
<1>4. d2.vault[j.id].of = First(j)[1]
  BY <1>1, <1>2 DEF Grows
<1> QED BY <1>3, <1>4 DEF Age

LEMMA JobsKept ==
  ASSUME NEW js, NEW d, NEW d2, NEW js2, NEW D, NEW b, JobsOk(js, d), From(js2, js, D, b), Grows(d, d2),
         OnDisk(d), OnDisk(d2)
  PROVE  JobsOk(js2, d2)
<1>1. PICK f \in [DOMAIN js2 -> Nat] :
        /\ \A k \in DOMAIN js2 : \/ f[k] \in D /\ Alike(js2[k], js[f[k]])
                                 \/ f[k] = 0 /\ Fresh(js2[k]) /\ (Migrates(js2[k]) => b)
        /\ \A k, l \in DOMAIN js2 : f[k] = f[l] /\ f[k] # 0 => k = l
  BY DEF From
<1>2. js2 \in Seq(ToSet(js2)) /\ D \subseteq DOMAIN js
  BY DEF From
<1>3. \A k \in DOMAIN js : Knows(js[k], d2) /\ Shape(js[k])
  BY KnowsGrows DEF JobsOk, Knows
<1>4. \A k \in DOMAIN js2 : Shape(js2[k])
  BY <1>1, <1>2, <1>3, AlikeKnows DEF Fresh
<1>5. \A k \in DOMAIN js2 : Moving(js2[k]) =>
        /\ f[k] \in D /\ f[k] \in DOMAIN js /\ Alike(js2[k], js[f[k]]) /\ Moving(js[f[k]])
        /\ First(js2[k]) = First(js[f[k]]) /\ Age(js2[k]) = Age(js[f[k]]) /\ js2[k].id = js[f[k]].id
  <2> SUFFICES ASSUME NEW k \in DOMAIN js2, Moving(js2[k])
               PROVE  /\ f[k] \in D /\ f[k] \in DOMAIN js /\ Alike(js2[k], js[f[k]]) /\ Moving(js[f[k]])
                      /\ First(js2[k]) = First(js[f[k]]) /\ Age(js2[k]) = Age(js[f[k]]) /\ js2[k].id = js[f[k]].id
    OBVIOUS
  <2>1. f[k] \in D /\ f[k] \in DOMAIN js /\ Alike(js2[k], js[f[k]])
    BY <1>1, <1>2 DEF Fresh
  <2>2. Moving(js[f[k]])
    BY <2>1, <1>3, AlikeKnows
  <2>3. js[f[k]].op \in Tasks
    BY <2>2 DEF Moving, Tasks
  <2> QED BY <2>1, <2>2, <2>3, <1>3, AlikeKnows
<1>6. \A k \in DOMAIN js2 : Knows(js2[k], d2)
  BY <1>3, <1>4, <1>5 DEF Knows
<1>7. \A k, l \in DOMAIN js2 : Moving(js2[k]) /\ Moving(js2[l]) /\ js2[k].id = js2[l].id => k = l
  <2> SUFFICES ASSUME NEW k \in DOMAIN js2, NEW l \in DOMAIN js2, Moving(js2[k]), Moving(js2[l]), js2[k].id = js2[l].id
               PROVE  k = l
    OBVIOUS
  <2>1. f[k] = f[l]
    BY <1>5 DEF JobsOk
  <2>2. f[k] # 0
    BY <1>5, <1>2 DEF JobsOk
  <2> QED BY <2>1, <2>2, <1>1
<1> QED BY <1>2, <1>6, <1>7 DEF JobsOk

LEMMA AloneKept ==
  ASSUME NEW js, NEW d, NEW a, NEW js2, NEW d2, NEW a2, NEW D, JobsOk(js, d), Alone(js, a, d),
         From(js2, js, D, FALSE), \A x \in Assets : d2.mode[x].row = d.mode[x].row, d2.mkey = d.mkey,
         \A k \in D : Migrates(js[k]) => a2.mode.migrating
  PROVE  Alone(js2, a2, d2)
<1>1. PICK f \in [DOMAIN js2 -> Nat] :
        /\ \A k \in DOMAIN js2 : \/ f[k] \in D /\ Alike(js2[k], js[f[k]])
                                 \/ f[k] = 0 /\ Fresh(js2[k]) /\ (Migrates(js2[k]) => FALSE)
        /\ \A k, l \in DOMAIN js2 : f[k] = f[l] /\ f[k] # 0 => k = l
  BY DEF From
<1>2. js2 \in Seq(ToSet(js2)) /\ D \subseteq DOMAIN js
  BY DEF From
<1>3. \A k \in DOMAIN js : Shape(js[k])
  BY DEF JobsOk, Knows
<1>4. \A k \in DOMAIN js2 : Migrates(js2[k]) =>
        f[k] \in D /\ f[k] \in DOMAIN js /\ Alike(js2[k], js[f[k]]) /\ Migrates(js[f[k]])
  BY <1>1, <1>2, <1>3, AlikeKnows
<1>5. \A k, l \in DOMAIN js2 : Migrates(js2[k]) /\ Migrates(js2[l]) => k = l
  <2> SUFFICES ASSUME NEW k \in DOMAIN js2, NEW l \in DOMAIN js2, Migrates(js2[k]), Migrates(js2[l]) PROVE k = l
    OBVIOUS
  <2>1. f[k] = f[l]
    BY <1>4 DEF Alone
  <2>2. f[k] # 0
    <3>1. DOMAIN js = 1..Len(js) /\ Len(js) \in Nat
      BY DEF JobsOk
    <3> QED BY <1>4, <3>1
  <2> QED BY <2>1, <2>2, <1>1
<1>6. \A k \in DOMAIN js2 : KnowsAlone(js2[k], d)
  <2> SUFFICES ASSUME NEW k \in DOMAIN js2 PROVE KnowsAlone(js2[k], d)
    OBVIOUS
  <2>1. CASE Migrates(js2[k])
    BY <2>1, <1>3, <1>4, AlikeKnows DEF Alone
  <2>2. CASE ~Migrates(js2[k])
    BY <2>2 DEF Migrates, KnowsAlone
  <2> QED BY <2>1, <2>2
<1>7. \A k \in DOMAIN js2 : KnowsAlone(js2[k], d2)
  <2> SUFFICES ASSUME NEW k \in DOMAIN js2 PROVE KnowsAlone(js2[k], d2)
    OBVIOUS
  <2>0. Shape(js2[k])
    BY <1>1, <1>2, <1>3, AlikeKnows DEF Fresh
  <2>1. ASSUME js2[k].op = "enable", js2[k].at # "setup"
        PROVE  /\ Distinct(js2[k].todo)
               /\ IF js2[k].at = "deleting"
                  THEN d2.mode[First(js2[k])].row /\ \A l \in 2..Len(js2[k].todo) : ~d2.mode[js2[k].todo[l]].row
                  ELSE \A l \in 1..Len(js2[k].todo) : ~d2.mode[js2[k].todo[l]].row
               /\ js2[k].at = "thumb" => js2[k].key = d2.mkey
    <3>1. js2[k].todo \in Seq(Assets) /\ (js2[k].at = "deleting" => js2[k].todo # <<>>)
      BY <2>0, <2>1 DEF Shape
    <3>2. \A l \in 1..Len(js2[k].todo) : js2[k].todo[l] \in Assets
      BY <3>1
    <3>3. js2[k].at = "deleting" => First(js2[k]) \in Assets
      BY <3>1 DEF First
    <3> QED BY <1>6, <2>1, <3>1, <3>2, <3>3 DEF KnowsAlone
  <2>2. ASSUME js2[k].op = "disable", js2[k].at # "check", js2[k].bad = 0
        PROVE  \A x \in Assets : d2.mode[x].row => \E l \in 1..Len(js2[k].todo) : js2[k].todo[l] = x
    BY <1>6, <2>2 DEF KnowsAlone
  <2> QED BY <2>1, <2>2 DEF KnowsAlone
<1>8. \A k \in DOMAIN js2 : Migrates(js2[k]) => a2.mode.migrating
  BY <1>4
<1> QED BY <1>5, <1>7, <1>8 DEF Alone

(* A migration that goes on is still alone. *)
LEMMA AloneTurn ==
  ASSUME NEW js, NEW d, NEW a, NEW d2, NEW a2, Alone(js, a, d), NEW i \in DOMAIN js, Migrates(js[i]),
         NEW j, KnowsAlone(j, d2), a.mode.migrating => a2.mode.migrating
  PROVE  Alone([js EXCEPT ![i] = j], a2, d2)
<1>1. a2.mode.migrating
  BY DEF Alone
<1>2. \A k \in DOMAIN js : k # i => ~Migrates(js[k]) /\ [js EXCEPT ![i] = j][k] = js[k]
  BY DEF Alone
<1>3. [js EXCEPT ![i] = j][i] = j /\ DOMAIN [js EXCEPT ![i] = j] = DOMAIN js
  OBVIOUS
<1>4. \A k \in DOMAIN js : k # i => KnowsAlone(js[k], d2)
  BY <1>2 DEF KnowsAlone, Migrates
<1> QED BY <1>1, <1>2, <1>3, <1>4 DEF Alone

(* --------------------------- where the photos are ------------------------ *)

LEMMA OutlivesLess ==
  ASSUME NEW d, NEW js, NEW p, NEW n \in Int, NEW m \in Int, Outlives(d, js, p, n), m <= n,
         \A a \in d.media : a[2] \in Int, \A x \in Assets : x[2] \in Int,
         \A k \in DOMAIN js : Moving(js[k]) => Age(js[k]) \in Int
  PROVE  Outlives(d, js, p, m)
<1>1. CASE \E a \in d.media : a[1] = p /\ n < a[2]
  <2>1. PICK a \in d.media : a[1] = p /\ n < a[2]
    BY <1>1
  <2>2. m < a[2]
    BY <2>1
  <2> QED BY <2>1, <2>2 DEF Outlives
<1>2. CASE \E v \in VaultIds : RowOf(d, v, p) /\ \A k \in DOMAIN js : Moving(js[k]) /\ js[k].id = v => n < Age(js[k])
  <2>1. PICK v \in VaultIds : RowOf(d, v, p) /\ \A k \in DOMAIN js : Moving(js[k]) /\ js[k].id = v => n < Age(js[k])
    BY <1>2
  <2>2. \A k \in DOMAIN js : Moving(js[k]) /\ js[k].id = v => m < Age(js[k])
    BY <2>1
  <2> QED BY <2>1, <2>2 DEF Outlives
<1>3. CASE \E x \in Assets : CopyOf(d, x, p) /\ \A k \in DOMAIN js : Hiding(js[k]) /\ First(js[k]) = x => n < x[2]
  <2>1. PICK x \in Assets : CopyOf(d, x, p) /\ \A k \in DOMAIN js : Hiding(js[k]) /\ First(js[k]) = x => n < x[2]
    BY <1>3
  <2>2. \A k \in DOMAIN js : Hiding(js[k]) /\ First(js[k]) = x => m < x[2]
    BY <2>1
  <2> QED BY <2>1, <2>2 DEF Outlives
<1> QED BY <1>1, <1>2, <1>3 DEF Outlives

(* What is on its way in js2 is on its way in js. *)
Fewer(js2, js) ==
  /\ \A k \in DOMAIN js2 : Moving(js2[k]) =>
       \E l \in DOMAIN js : /\ Moving(js[l]) /\ First(js[l]) = First(js2[k]) /\ Age(js[l]) = Age(js2[k])
                            /\ js[l].id = js2[k].id
  /\ \A k \in DOMAIN js2 : Hiding(js2[k]) => \E l \in DOMAIN js : Hiding(js[l]) /\ First(js[l]) = First(js2[k])

LEMMA FromFewer ==
  ASSUME NEW js, NEW js2, NEW D, NEW b, From(js2, js, D, b), \A k \in DOMAIN js : Shape(js[k])
  PROVE  Fewer(js2, js)
<1>1. PICK f \in [DOMAIN js2 -> Nat] :
        /\ \A k \in DOMAIN js2 : \/ f[k] \in D /\ Alike(js2[k], js[f[k]])
                                 \/ f[k] = 0 /\ Fresh(js2[k]) /\ (Migrates(js2[k]) => b)
        /\ \A k, l \in DOMAIN js2 : f[k] = f[l] /\ f[k] # 0 => k = l
  BY DEF From
<1>2. D \subseteq DOMAIN js
  BY DEF From
<1>3. ASSUME NEW k \in DOMAIN js2, Moving(js2[k])
      PROVE  \E l \in DOMAIN js : /\ Moving(js[l]) /\ First(js[l]) = First(js2[k]) /\ Age(js[l]) = Age(js2[k])
                                  /\ js[l].id = js2[k].id
  <2>1. f[k] \in DOMAIN js /\ Alike(js2[k], js[f[k]]) /\ Shape(js[f[k]])
    BY <1>1, <1>2, <1>3 DEF Fresh
  <2>2. Moving(js[f[k]])
    BY <2>1, <1>3, AlikeKnows
  <2>3. js[f[k]].op \in Tasks
    BY <2>2 DEF Moving, Tasks
  <2> QED BY <2>1, <2>2, <2>3, AlikeKnows
<1>4. ASSUME NEW k \in DOMAIN js2, Hiding(js2[k])
      PROVE  \E l \in DOMAIN js : Hiding(js[l]) /\ First(js[l]) = First(js2[k])
  <2>1. f[k] \in DOMAIN js /\ Alike(js2[k], js[f[k]]) /\ Shape(js[f[k]])
    BY <1>1, <1>2, <1>4 DEF Fresh
  <2>2. Hiding(js[f[k]])
    BY <2>1, <1>4, AlikeKnows
  <2>3. js[f[k]].op \in Tasks
    BY <2>2 DEF Hiding, Tasks
  <2> QED BY <2>1, <2>2, <2>3, AlikeKnows
<1> QED BY <1>3, <1>4 DEF Fewer

(* Photos stay at home when only the user takes them out, and nothing more
   is on its way. *)
LEMMA HomesSame ==
  ASSUME NEW d, NEW js, NEW er, NEW d2, NEW js2, NEW er2, HomesKept(d, js, er), Fewer(js2, js), er \subseteq er2,
         \A a \in d.media : a \in d2.media \/ a[1] \in er2,
         \A v \in VaultIds : \/ d.vault[v].row => d2.vault[v].row /\ d2.vault[v].of = d.vault[v].of
                             \/ d.vault[v].of \in er2,
         \A x \in Assets : d.mode[x].row => d2.mode[x].row,
         \A k \in DOMAIN js : Moving(js[k]) => js[k].id \in VaultIds
  PROVE  HomesKept(d2, js2, er2)
<1>1. \A p : Somewhere(d, p) /\ p \notin er2 => Somewhere(d2, p)
  BY DEF Somewhere, RowOf, CopyOf
<1>2. ASSUME NEW p, p \notin er2, NEW n, Outlives(d, js, p, n) PROVE Outlives(d2, js2, p, n)
  <2>1. CASE \E a \in d.media : a[1] = p /\ n < a[2]
    BY <1>2, <2>1 DEF Outlives
  <2>2. CASE \E v \in VaultIds : RowOf(d, v, p) /\ \A k \in DOMAIN js : Moving(js[k]) /\ js[k].id = v => n < Age(js[k])
    <3>1. PICK v \in VaultIds : RowOf(d, v, p) /\ \A k \in DOMAIN js : Moving(js[k]) /\ js[k].id = v => n < Age(js[k])
      BY <2>2
    <3>2. \A k \in DOMAIN js2 : Moving(js2[k]) /\ js2[k].id = v => n < Age(js2[k])
      BY <3>1 DEF Fewer
    <3>3. RowOf(d2, v, p)
      BY <1>2, <3>1 DEF RowOf
    <3> QED BY <3>2, <3>3 DEF Outlives
  <2>3. CASE \E x \in Assets : CopyOf(d, x, p) /\ \A k \in DOMAIN js : Hiding(js[k]) /\ First(js[k]) = x => n < x[2]
    <3>1. PICK x \in Assets : CopyOf(d, x, p) /\ \A k \in DOMAIN js : Hiding(js[k]) /\ First(js[k]) = x => n < x[2]
      BY <2>3
    <3>2. \A k \in DOMAIN js2 : Hiding(js2[k]) /\ First(js2[k]) = x => n < x[2]
      BY <3>1 DEF Fewer
    <3>3. CopyOf(d2, x, p)
      BY <3>1 DEF CopyOf
    <3> QED BY <3>2, <3>3 DEF Outlives
  <2> QED BY <1>2, <2>1, <2>2, <2>3 DEF Outlives
<1>3. ASSUME NEW k \in DOMAIN js2, Moving(js2[k])
      PROVE  \/ First(js2[k])[1] \in er2
             \/ RowOf(d2, js2[k].id, First(js2[k])[1])
             \/ Outlives(d2, js2, First(js2[k])[1], Age(js2[k]))
  <2>1. PICK l \in DOMAIN js : /\ Moving(js[l]) /\ First(js[l]) = First(js2[k]) /\ Age(js[l]) = Age(js2[k])
                               /\ js[l].id = js2[k].id
    BY <1>3 DEF Fewer
  <2>2. \/ First(js2[k])[1] \in er
        \/ RowOf(d, js2[k].id, First(js2[k])[1])
        \/ Outlives(d, js, First(js2[k])[1], Age(js2[k]))
    BY <2>1 DEF HomesKept
  <2>3. js2[k].id \in VaultIds
    BY <2>1
  <2> QED BY <1>2, <2>2, <2>3 DEF RowOf
<1> QED BY <1>1, <1>3 DEF HomesKept

(* The whole invariant, but for a change of homes. *)
LEMMA DiskStill ==
  ASSUME NEW d, NEW d2, DiskOk(d), Still(d, d2)
  PROVE  DiskOk(d2) /\ Grows(d, d2)
<1>1. \A p \in Photos : d.saves[p] \in Int
  BY VaultAssumption DEF DiskOk, OnDisk
<1>2. Grows(d, d2)
  BY <1>1 DEF Still, Grows
<1>3. \A v \in VaultIds : /\ d2.vault[v].row => d2.vault[v].file = "whole" /\ d2.vault[v].key # 0
                          /\ d2.vault[v].row \/ d2.vault[v].plain # "none" => d2.vault[v].of # Nil
  BY DEF Still, DiskOk
<1>4. \A x \in Assets : IF d2.mode[x].row THEN d2.mode[x].file = "whole" /\ d2.mode[x].key # 0
                        ELSE d2.mode[x] = NoCopy
  BY DEF Still, DiskOk
<1>5. \A a \in d2.media : a[2] <= d2.saves[a[1]]
  BY DEF Still, DiskOk
<1>6. OnDisk(d2)
  BY DEF Still
<1> QED BY <1>2, <1>3, <1>4, <1>5, <1>6 DEF DiskOk

LEMMA GrowsSelf == ASSUME NEW d, OnDisk(d) PROVE Grows(d, d)
<1>1. \A p \in Photos : d.saves[p] \in Int
  BY VaultAssumption DEF OnDisk
<1> QED BY <1>1 DEF Grows

(* What a step owes that begins and ends promises, but no migration. *)
LEMMA VaultMoves ==
  ASSUME VaultInv, NEW D, From(jobs', jobs, D, FALSE), DiskOk(disk)', Grows(disk, disk'),
         disk'.mkey = disk.mkey, \A x \in Assets : disk'.mode[x].row = disk.mode[x].row,
         AppOk(app)', app'.mkey \in {0, disk.mkey},
         "crossed" \notin slips => \A k \in D : Migrates(jobs[k]) => app'.mode.migrating,
         slips \subseteq slips', slips' \subseteq {"rekeyed", "partial", "crossed", "crash"},
         (~Slipped({"rekeyed", "partial", "crossed"}) => KeysKept(disk, app) /\ HomesKept(disk, jobs, erased))',
         (app'.mkey = 0 /\ ~Slipped({"crash", "crossed"})') => Clean(disk)'
  PROVE  VaultInv'
<1>1. OnDisk(disk) /\ OnDisk(disk')
  BY DEF VaultInv, DiskOk
<1>2. JobsOk(jobs, disk)'
  BY <1>1, JobsKept DEF VaultInv
<1>3. ("crossed" \notin slips => Alone(jobs, app, disk))'
  <2> SUFFICES ASSUME "crossed" \notin slips' PROVE Alone(jobs', app', disk')
    OBVIOUS
  <2>1. Alone(jobs, app, disk) /\ JobsOk(jobs, disk)
    BY DEF VaultInv
  <2> QED BY <2>1, AloneKept
<1> QED BY <1>2, <1>3 DEF VaultInv

(* And one that leaves every photo at home. *)
LEMMA Quiet ==
  ASSUME VaultInv, NEW D, From(jobs', jobs, D, FALSE), Still(disk, disk'),
         AppOk(app)', app'.vkey \in {app.vkey, disk.vkey}, app'.mkey \in {0, disk.mkey},
         "crossed" \notin slips => \A k \in D : Migrates(jobs[k]) => app'.mode.migrating,
         slips \subseteq slips', slips' \subseteq {"rekeyed", "partial", "crossed", "crash"}, erased \subseteq erased',
         (app'.mkey = 0 /\ ~Slipped({"crash", "crossed"})') => Clean(disk)'
  PROVE  VaultInv'
<1>1. DiskOk(disk)' /\ Grows(disk, disk')
  BY DiskStill DEF VaultInv
<1>2. (~Slipped({"rekeyed", "partial", "crossed"}) => KeysKept(disk, app) /\ HomesKept(disk, jobs, erased))'
  <2> SUFFICES ASSUME ~Slipped({"rekeyed", "partial", "crossed"})'
               PROVE  KeysKept(disk', app') /\ HomesKept(disk', jobs', erased')
    OBVIOUS
  <2>1. KeysKept(disk, app) /\ HomesKept(disk, jobs, erased)
    BY DEF VaultInv, Slipped
  <2>2. KeysKept(disk', app')
    BY <2>1 DEF KeysKept, Still
  <2>3. \A k \in DOMAIN jobs : Shape(jobs[k]) /\ (Moving(jobs[k]) => jobs[k].id \in VaultIds)
    BY DEF VaultInv, JobsOk, Knows
  <2>4. Fewer(jobs', jobs)
    BY <2>3, FromFewer
  <2>5. HomesKept(disk', jobs', erased')
    <3>1. \A v \in VaultIds : disk'.vault[v].row = disk.vault[v].row /\ disk'.vault[v].of = disk.vault[v].of
      BY DEF Still
    <3>2. \A x \in Assets : disk'.mode[x].row = disk.mode[x].row
      BY DEF Still
    <3>3. disk'.media = disk.media
      BY DEF Still
    <3> QED BY <2>1, <2>3, <2>4, <3>1, <3>2, <3>3, HomesSame
  <2> QED BY <2>2, <2>5
<1>3. disk'.mkey = disk.mkey /\ \A x \in Assets : disk'.mode[x].row = disk.mode[x].row
  BY DEF Still
<1> QED BY <1>1, <1>2, <1>3, VaultMoves

LEMMA ShapeAll == ASSUME VaultInv PROVE jobs \in Seq(ToSet(jobs)) /\ \A k \in DOMAIN jobs : Shape(jobs[k])
BY DEF VaultInv, JobsOk, Knows

LEMMA StillSelf == ASSUME VaultInv PROVE Still(disk, disk)
BY DEF VaultInv, DiskOk, Still

LEMMA CleanNow == ASSUME VaultInv PROVE (app.mkey = 0 /\ ~Slipped({"crash", "crossed"})) => Clean(disk)
BY DEF VaultInv

(* ------------------------------ the screens ------------------------------ *)

LEMMA FreshTask == ASSUME NEW o, NEW s, o \notin {"enable", "disable"} PROVE Fresh(Task(o, s))
BY DEF Fresh, Shape, Moving, Hiding, Task, TaskFields

LEMMA FreshAsk == ASSUME NEW o, o \notin Tasks, NEW x PROVE Fresh(Ask(o, x))
BY DEF Fresh, Shape, Moving, Hiding, Ask, Tasks

LEMMA FreshJob == ASSUME NEW o, o \notin Tasks PROVE Fresh(Job(o))
BY DEF Fresh, Shape, Moving, Hiding, Job, Tasks

LEMMA FreshGrid == ASSUME NEW d, NEW x PROVE Fresh(GridJob(d, x)) /\ ~Migrates(GridJob(d, x))
BY DEF Fresh, Shape, Moving, Hiding, Migrates, Task, GridJob, TaskFields, Tasks

LEMMA SettlesOnto ==
  ASSUME NEW a, NEW d, NEW js, NEW base, NEW D, NEW b, From(js, base, D, b), \A k \in DOMAIN base : Shape(base[k]),
         Settles(a, d, js), AppOk(a)
  PROVE  /\ From(jobs', base, D, b) /\ disk' = d
         /\ AppOk(app)' /\ app'.vkey = a.vkey /\ app'.mkey = a.mkey /\ app'.mode = a.mode
<1> DEFINE kept == IF app.mode.unlocked /\ ~a.mode.unlocked THEN Orphaned(js, {"previews"}) ELSE js
<1>1. From(kept, base, D, b)
  BY FromOrphaned
<1>2. PICK r, q : r = Reloads(a, d) /\ q = Previews(a, d)
  OBVIOUS
<1>3. r = <<>> \/ r = <<GridJob(d, Nil)>>
  BY <1>2 DEF Reloads
<1>4. \E s : q = <<>> \/ q = <<Task("previews", s)>>
  BY <1>2 DEF Previews
<1>5. PICK s : q = <<>> \/ q = <<Task("previews", s)>>
  BY <1>4
<1>6. PICK g, t : g = GridJob(d, Nil) /\ t = Task("previews", s)
  OBVIOUS
<1>7. Fresh(g) /\ ~Migrates(g) /\ Fresh(t) /\ ~Migrates(t)
  BY <1>6, FreshGrid, FreshTask DEF Migrates, Task
<1>8. r \in Seq({g, t}) /\ q \in Seq({g, t})
  <2>1. <<>> \in Seq({g, t}) /\ <<g>> \in Seq({g, t}) /\ <<t>> \in Seq({g, t})
    OBVIOUS
  <2>2. (r = <<>> \/ r = <<g>>) /\ (q = <<>> \/ q = <<t>>)
    BY <1>3, <1>5, <1>6
  <2> QED BY <2>1, <2>2
<1>9. r \o q \in Seq({g, t})
  BY <1>8
<1>10. \A k \in DOMAIN (r \o q) : Fresh((r \o q)[k]) /\ (Migrates((r \o q)[k]) => b)
  BY <1>7, <1>9
<1>11. jobs' = kept \o (r \o q)
  BY <1>2 DEF Settles
<1>12. From(jobs', base, D, b)
  <2> HIDE DEF kept
  <2> QED BY <1>1, <1>9, <1>10, <1>11, FromAppend
<1>13. disk' = d /\ (app' = a \/ app' = [a EXCEPT !.folder.loading = TRUE])
  BY DEF Settles
<1>14. AppOk(app') /\ app'.vkey = a.vkey /\ app'.mkey = a.mkey /\ app'.mode = a.mode
  BY <1>13 DEF AppOk, NoApp
<1> QED BY <1>12, <1>13, <1>14

LEMMA SettlesFrom ==
  ASSUME NEW a, NEW d, NEW js, NEW D, NEW b, From(js, jobs, D, b), Settles(a, d, js), VaultInv, AppOk(a)
  PROVE  /\ From(jobs', jobs, D, b) /\ disk' = d
         /\ AppOk(app)' /\ app'.vkey = a.vkey /\ app'.mkey = a.mkey /\ app'.mode = a.mode
BY ShapeAll, SettlesOnto

(* The keys and the migration are as they were. *)
Tame(a) == AppOk(a) /\ a.vkey = app.vkey /\ a.mkey = app.mkey /\ a.mode.migrating = app.mode.migrating

LEMMA TameSelf == ASSUME VaultInv PROVE Tame(app)
BY DEF VaultInv, Tame

LEMMA AppNow == ASSUME VaultInv PROVE AppOk(app) /\ app.mkey \in {0, disk.mkey}
BY DEF VaultInv

LEMMA SlipsNow == ASSUME VaultInv PROVE slips \subseteq {"rekeyed", "partial", "crossed", "crash"}
BY DEF VaultInv

LEMMA RunsNow ==
  ASSUME VaultInv, NEW D, NEW js, NEW b, From(js, jobs, D, b), "crossed" \notin slips
  PROVE  \A k \in D : Migrates(jobs[k]) => app.mode.migrating
BY DEF VaultInv, Alone, From

(* A screen that changes, with promises begun, ended and orphaned. *)
LEMMA Screens ==
  ASSUME VaultInv, NEW a, Tame(a), NEW d, Still(disk, d), d.mode = disk.mode,
         NEW js, NEW D, From(js, jobs, D, FALSE),
         Settles(a, d, js), slips' = slips, erased' = erased
  PROVE  VaultInv'
<1>1. /\ From(jobs', jobs, D, FALSE) /\ disk' = d
      /\ AppOk(app)' /\ app'.vkey = a.vkey /\ app'.mkey = a.mkey /\ app'.mode = a.mode
  BY SettlesFrom DEF Tame
<1>2. app'.vkey = app.vkey /\ app'.mkey = app.mkey /\ app'.mode.migrating = app.mode.migrating
  BY <1>1 DEF Tame
<1>3. (app'.mkey = 0 /\ ~Slipped({"crash", "crossed"})') => Clean(disk)'
  BY <1>1, <1>2, CleanNow DEF Clean, Slipped
<1>4. "crossed" \notin slips => \A k \in D : Migrates(jobs[k]) => app'.mode.migrating
  BY <1>2, RunsNow
<1>5. app'.mkey \in {0, disk.mkey} /\ app'.vkey \in {app.vkey, disk.vkey}
  BY <1>2, AppNow
<1>6. Still(disk, disk')
  BY <1>1
<1> QED BY <1>1, <1>3, <1>4, <1>5, <1>6, Quiet, SlipsNow

LEMMA FromNow == ASSUME VaultInv PROVE From(jobs, jobs, DOMAIN jobs, FALSE)
BY ShapeAll, FromSelf

LEMMA FromEnded == ASSUME VaultInv, NEW i \in DOMAIN jobs PROVE From(RemoveAt(jobs, i), jobs, DOMAIN jobs \ {i}, FALSE)
BY ShapeAll, FromRemove

LEMMA FromOne ==
  ASSUME NEW js, NEW D, From(js, jobs, D, FALSE), NEW j, Fresh(j), ~Migrates(j)
  PROVE  From(js \o <<j>>, jobs, D, FALSE)
<1>1. <<j>> \in Seq({j}) /\ \A k \in DOMAIN <<j>> : <<j>>[k] = j
  OBVIOUS
<1> QED BY <1>1, FromAppend

LEMMA ShowsSafe == ASSUME VaultInv, NEW a, Tame(a), Shows(a) PROVE VaultInv'
BY FromNow, StillSelf, Screens DEF Shows

LEMMA ShowsOneSafe ==
  ASSUME VaultInv, NEW a, Tame(a), NEW j, Fresh(j), ~Migrates(j), ShowsWith(a, <<j>>)
  PROVE  VaultInv'
<1>1. From(jobs \o <<j>>, jobs, DOMAIN jobs, FALSE)
  BY FromNow, FromOne
<1> QED BY <1>1, StillSelf, Screens DEF ShowsWith

LEMMA FindsSafe == ASSUME VaultInv, NEW i \in DOMAIN jobs, NEW a, Tame(a), Finds(i, a) PROVE VaultInv'
<1>1. From(RemoveAt(jobs, i), jobs, DOMAIN jobs \ {i}, FALSE)
  BY FromEnded
<1> QED BY <1>1, StillSelf, Screens DEF Finds

LEMMA FromUnmounted ==
  ASSUME VaultInv, NEW js, NEW D, From(js, jobs, D, FALSE) PROVE From(Unmounted(js), jobs, D, FALSE)
BY ShapeAll, FromOrphaned DEF Unmounted

LEMMA TameGone == ASSUME VaultInv PROVE Tame(Gone(app))
BY AppNow DEF Gone, Tame, AppOk, NoApp

LEMMA ClosesSafe ==
  ASSUME VaultInv, Settles(Gone(app), disk, Unmounted(jobs)), UNCHANGED <<slips, erased>> PROVE VaultInv'
BY TameGone, FromNow, FromUnmounted, StillSelf, Screens

LEMMA FolderTaps ==
  ASSUME VaultInv,
         \/ OpenLocked \/ StartSetup \/ (\E p \in Pins : EnterPin(p)) \/ ErasePin
         \/ (\E b \in BOOLEAN : ChooseBiometric(b)) \/ TryBiometric \/ SwitchGate \/ CloseLocked \/ RunMigration
  PROVE  VaultInv'
<1>1. CASE OpenLocked
  <2>1. PICK j : j = Job("config")
    OBVIOUS
  <2>2. Fresh(j) /\ ~Migrates(j)
    BY <2>1, FreshJob DEF Tasks, Migrates, Job
  <2>3. Tame([app EXCEPT !.screen = "locked", !.folder = [NoFolder EXCEPT !.stage = "loading"]])
    BY AppNow DEF Tame, AppOk, NoApp
  <2> QED BY <1>1, <2>1, <2>2, <2>3, ShowsOneSafe DEF OpenLocked
<1>2. CASE StartSetup
  <2>1. Tame([app EXCEPT !.folder.stage = "setup-pin", !.folder.first = Nil, !.folder.entered = FALSE])
    BY AppNow DEF Tame, AppOk, NoApp
  <2> QED BY <1>2, <2>1, ShowsSafe DEF StartSetup
<1>3. ASSUME NEW p \in Pins, EnterPin(p) PROVE VaultInv'
  <2>1. PICK j : j = Ask("pin", [stage |-> app.folder.stage, pin |-> p, first |-> app.folder.first])
    OBVIOUS
  <2>2. Fresh(j) /\ ~Migrates(j)
    BY <2>1, FreshAsk DEF Tasks, Migrates, Ask
  <2>3. Tame([app EXCEPT !.folder.entered = TRUE])
    BY AppNow DEF Tame, AppOk, NoApp
  <2> QED BY <1>3, <2>1, <2>2, <2>3, ShowsOneSafe DEF EnterPin
<1>4. CASE ErasePin
  <2>1. Tame([app EXCEPT !.folder.entered = FALSE])
    BY AppNow DEF Tame, AppOk, NoApp
  <2> QED BY <1>4, <2>1, ShowsSafe DEF ErasePin
<1>5. ASSUME NEW b \in BOOLEAN, ChooseBiometric(b) PROVE VaultInv'
  <2>1. PICK j : j = SetupJob(app.folder.first, b)
    OBVIOUS
  <2>2. Fresh(j) /\ ~Migrates(j)
    BY <2>1, FreshAsk DEF Tasks, Migrates, SetupJob, Ask
  <2> QED BY <1>5, <2>1, <2>2, TameSelf, ShowsOneSafe DEF ChooseBiometric
<1>6. CASE TryBiometric
  <2>1. PICK j : j = Job("bio")
    OBVIOUS
  <2>2. Fresh(j) /\ ~Migrates(j)
    BY <2>1, FreshJob DEF Tasks, Migrates, Job
  <2> QED BY <1>6, <2>1, <2>2, TameSelf, ShowsOneSafe DEF TryBiometric
<1>7. CASE SwitchGate
  <2>1. Tame([app EXCEPT !.folder.stage = "gate-pin"]) /\ Tame([app EXCEPT !.folder.stage = "gate"])
    BY AppNow DEF Tame, AppOk, NoApp
  <2> QED BY <1>7, <2>1, ShowsSafe DEF SwitchGate
<1>8. CASE CloseLocked
  BY <1>8, ClosesSafe DEF CloseLocked
<1>9. CASE RunMigration
  <2>1. Tame([app EXCEPT !.dialog = Dialog("migrate", {}, {}, TRUE)])
    BY AppNow DEF Tame, AppOk, NoApp
  <2> QED BY <1>9, <2>1, ShowsSafe DEF RunMigration
<1> QED BY <1>1, <1>2, <1>3, <1>4, <1>5, <1>6, <1>7, <1>8, <1>9

(* Hiding a photo or showing it again touches no file. *)
LEMMA StillLegacy ==
  ASSUME VaultInv, NEW S
  PROVE  LET d == [disk EXCEPT !.legacy = S] IN Still(disk, d) /\ d.mode = disk.mode
<1>1. OnDisk(disk)
  BY DEF VaultInv, DiskOk
<1>2. OnDisk([disk EXCEPT !.legacy = S])
  BY <1>1 DEF OnDisk
<1> QED BY <1>1, <1>2 DEF Still, OnDisk

LEMMA TameFolder ==
  ASSUME VaultInv, NEW a, Tame(a), NEW ids, NEW photos, NEW d
  PROVE  Tame(Delisted(a, ids, photos)) /\ Tame(Refreshed(a, d))
BY DEF Tame, AppOk, NoApp, Delisted, Refreshed

LEMMA LockedTaps ==
  ASSUME VaultInv,
         \/ \E s \in Picks : LockedDelete(s) \/ LockedUnlock(s)
         \/ \E v \in VaultIds : PlayVideo(v)
         \/ \E s \in SUBSET disk.media : GalleryMove(s) \/ GalleryRemove(s)
  PROVE  VaultInv'
<1>1. ASSUME NEW s, LockedDelete(s) PROVE VaultInv'
  <2>1. Tame([app EXCEPT !.dialog = Dialog("delete", s[1], s[2], TRUE)])
    BY AppNow DEF Tame, AppOk, NoApp
  <2> QED BY <1>1, <2>1, ShowsSafe DEF LockedDelete
<1>2. ASSUME NEW s, LockedUnlock(s) PROVE VaultInv'
  <2> DEFINE d == [disk EXCEPT !.legacy = @ \ s[2]]
             a == IF s[2] = {} THEN app ELSE Refreshed(app, d)
             j == [Task("export", SetToSeq(s[1])) EXCEPT !.id = s[2]]
  <2>2. Still(disk, d) /\ d.mode = disk.mode
    BY StillLegacy
  <2>3. Tame(a)
    BY TameSelf, TameFolder
  <2>4. Fresh(j) /\ ~Migrates(j)
    BY DEF Fresh, Shape, Moving, Hiding, Migrates, Task, TaskFields, Tasks
  <2>5. IF s[1] = {} THEN Settles(Delisted(a, {}, s[2]), d, jobs) ELSE Settles(a, d, jobs \o <<j>>)
    BY <1>2 DEF LockedUnlock
  <2>6. slips' = slips /\ erased' = erased
    BY <1>2 DEF LockedUnlock
  <2> HIDE DEF d, a, j
  <2>7. From(jobs \o <<j>>, jobs, DOMAIN jobs, FALSE)
    BY <2>4, FromNow, FromOne
  <2>8. Tame(Delisted(a, {}, s[2]))
    BY <2>3, TameFolder
  <2> QED BY <2>2, <2>3, <2>5, <2>6, <2>7, <2>8, FromNow, Screens
<1>3. ASSUME NEW v, PlayVideo(v) PROVE VaultInv'
  <2>1. PICK j : j = Task("play", <<v>>)
    OBVIOUS
  <2>2. Fresh(j) /\ ~Migrates(j)
    BY <2>1, FreshTask DEF Migrates, Task
  <2> QED BY <1>3, <2>1, <2>2, TameSelf, ShowsOneSafe DEF PlayVideo
<1>4. ASSUME NEW s, GalleryMove(s) PROVE VaultInv'
  <2>1. PICK j : j = Ask("ask", s)
    OBVIOUS
  <2>2. Fresh(j) /\ ~Migrates(j)
    BY <2>1, FreshAsk DEF Tasks, Migrates, Ask
  <2> QED BY <1>4, <2>1, <2>2, TameSelf, ShowsOneSafe DEF GalleryMove
<1>5. ASSUME NEW s, GalleryRemove(s) PROVE VaultInv'
  <2>1. PICK j : j = Removal(s)
    OBVIOUS
  <2>2. Fresh(j) /\ ~Migrates(j)
    BY <2>1, FreshAsk DEF Tasks, Migrates, Ask, Removal
  <2> QED BY <1>5, <2>1, <2>2, TameSelf, ShowsOneSafe DEF GalleryRemove
<1> QED BY <1>1, <1>2, <1>3, <1>4, <1>5

LEMMA ModeTaps ==
  ASSUME VaultInv, OpenMode \/ CloseMode \/ \E r \in BOOLEAN : UnlockMode(r) \/ DisableMode(r)
  PROVE  VaultInv'
<1>1. CASE OpenMode
  <2>1. PICK j : j = Job("refresh")
    OBVIOUS
  <2>2. Fresh(j) /\ ~Migrates(j)
    BY <2>1, FreshJob DEF Tasks, Migrates, Job
  <2>3. Tame([app EXCEPT !.screen = "mode", !.busy = FALSE, !.grid = {}])
    BY AppNow DEF Tame, AppOk, NoApp
  <2> QED BY <1>1, <2>1, <2>2, <2>3, ShowsOneSafe DEF OpenMode
<1>2. CASE CloseMode
  BY <1>2, ClosesSafe DEF CloseMode
<1>3. ASSUME NEW r \in BOOLEAN, UnlockMode(r) PROVE VaultInv'
  <2>1. PICK j : j = Ask("unlock", r)
    OBVIOUS
  <2>2. Fresh(j) /\ ~Migrates(j)
    BY <2>1, FreshAsk DEF Tasks, Migrates, Ask
  <2>3. Tame([app EXCEPT !.busy = TRUE])
    BY AppNow DEF Tame, AppOk, NoApp
  <2> QED BY <1>3, <2>1, <2>2, <2>3, ShowsOneSafe DEF UnlockMode
<1>4. ASSUME NEW r \in BOOLEAN, DisableMode(r) PROVE VaultInv'
  <2>1. Tame([app EXCEPT !.dialog = Dialog("disable", {}, {}, r)])
    BY AppNow DEF Tame, AppOk, NoApp
  <2> QED BY <1>4, <2>1, ShowsSafe DEF DisableMode
<1> QED BY <1>1, <1>2, <1>3, <1>4

LEMMA Answers ==
  ASSUME VaultInv, NEW i \in DOMAIN jobs,
         \/ ConfigBack(i) \/ BioBack(i) \/ ExportOver(i) \/ GridOver(i) \/ AskBack(i) \/ RefreshBack(i) \/ PreviewsOver(i)
  PROVE  VaultInv'
<1>1. CASE ConfigBack(i)
  <2>1. PICK a : Finds(i, IF ~jobs[i].live THEN app ELSE a) /\ Tame(a)
    <3>1. PICK lock \in {disk.lock, Nil} :
            Finds(i, IF ~jobs[i].live THEN app ELSE
              [app EXCEPT !.folder.config = FolderConfig(lock),
                          !.folder.stage = CASE ~FolderConfig(lock).on -> "setup-intro"
                                             [] FolderConfig(lock).on /\ FolderConfig(lock).bio /\ disk.bio -> "gate"
                                             [] OTHER -> "gate-pin"])
      BY <1>1 DEF ConfigBack
    <3>2. PICK s : s = CASE ~FolderConfig(lock).on -> "setup-intro"
                         [] FolderConfig(lock).on /\ FolderConfig(lock).bio /\ disk.bio -> "gate"
                         [] OTHER -> "gate-pin"
      OBVIOUS
    <3>3. Tame([app EXCEPT !.folder.config = FolderConfig(lock), !.folder.stage = s])
      BY AppNow DEF Tame, AppOk, NoApp
    <3> QED BY <3>1, <3>2, <3>3
  <2> QED BY <2>1, TameSelf, FindsSafe
<1>2. CASE BioBack(i)
  <2>1. Tame([app EXCEPT !.unlocked = TRUE, !.folder.stage = "unlocked"]) /\ Tame([app EXCEPT !.unlocked = TRUE])
    BY AppNow DEF Tame, AppOk, NoApp
  <2>2. PICK a : Finds(i, a) /\ Tame(a)
    BY <1>2, <2>1, TameSelf DEF BioBack, Lives
  <2> QED BY <2>2, FindsSafe
<1>3. CASE ExportOver(i)
  <2>1. Tame(Delisted(app, jobs[i].all, jobs[i].id))
    BY TameSelf, TameFolder
  <2> QED BY <1>3, <2>1, TameSelf, FindsSafe DEF ExportOver, Lives
<1>4. CASE GridOver(i)
  <2>1. Tame([app EXCEPT !.folder.items = jobs[i].all, !.folder.legacy = jobs[i].id,
                         !.folder.loading = FALSE, !.folder.migrating = @ /\ jobs[i].from # "migrate"])
    BY AppNow DEF Tame, AppOk, NoApp
  <2> QED BY <1>4, <2>1, TameSelf, FindsSafe DEF GridOver, Lives
<1>5. CASE AskBack(i)
  <2>1. Tame([app EXCEPT !.dialog = Dialog("move", {}, jobs[i].arg, TRUE)])
    BY AppNow DEF Tame, AppOk, NoApp
  <2> QED BY <1>5, <2>1, TameSelf, FindsSafe DEF AskBack
<1>6. CASE RefreshBack(i)
  <2>1. PICK key \in {disk.mkey, 0} :
          Finds(i, [app EXCEPT !.mode.enabled = key # 0, !.mode.unlocked = key # 0 /\ app.mkey # 0])
    BY <1>6 DEF RefreshBack
  <2>2. Tame([app EXCEPT !.mode.enabled = key # 0, !.mode.unlocked = key # 0 /\ app.mkey # 0])
    BY AppNow DEF Tame, AppOk, NoApp, NoMode
  <2> QED BY <2>1, <2>2, FindsSafe
<1>7. CASE PreviewsOver(i)
  <2>1. Tame([app EXCEPT !.grid = jobs[i].all])
    BY AppNow DEF Tame, AppOk, NoApp
  <2> QED BY <1>7, <2>1, TameSelf, FindsSafe DEF PreviewsOver, Lives
<1> QED BY <1>1, <1>2, <1>3, <1>4, <1>5, <1>6, <1>7

LEMMA ImportOverSafe == ASSUME VaultInv, NEW i \in DOMAIN jobs, ImportOver(i) PROVE VaultInv'
<1> DEFINE reload == [GridJob(disk, "migrate") EXCEPT !.live = jobs[i].live]
           r == Refreshed(app, disk)
<1>1. Fresh(reload) /\ ~Migrates(reload)
  BY DEF Fresh, Shape, Moving, Hiding, Migrates, Task, GridJob, TaskFields, Tasks
<1>2. Tame(r) /\ Tame([r EXCEPT !.folder.loading = TRUE])
  BY AppNow DEF Tame, AppOk, NoApp, Refreshed
<1>3. /\ slips' = slips /\ erased' = erased
      /\ IF jobs[i].from = "migrate"
         THEN Settles(Lives(i, [r EXCEPT !.folder.loading = TRUE], r), disk, RemoveAt(jobs, i) \o <<reload>>)
         ELSE Settles(app, disk, RemoveAt(jobs, i))
  BY DEF ImportOver
<1> HIDE DEF reload, r
<1>4. Tame(Lives(i, [r EXCEPT !.folder.loading = TRUE], r))
  BY <1>2 DEF Lives
<1>5. From(RemoveAt(jobs, i) \o <<reload>>, jobs, DOMAIN jobs \ {i}, FALSE)
  BY <1>1, FromEnded, FromOne
<1> QED BY <1>3, <1>4, <1>5, FromEnded, StillSelf, TameSelf, Screens

LEMMA StillLock ==
  ASSUME VaultInv, NEW lock
  PROVE  LET d == [disk EXCEPT !.lock = lock] IN Still(disk, d) /\ d.mode = disk.mode
<1>1. OnDisk(disk)
  BY DEF VaultInv, DiskOk
<1>2. OnDisk([disk EXCEPT !.lock = lock])
  BY <1>1 DEF OnDisk
<1> QED BY <1>1, <1>2 DEF Still, OnDisk

LEMMA SetupWrittenSafe == ASSUME VaultInv, NEW i \in DOMAIN jobs, SetupWritten(i) PROVE VaultInv'
<1> DEFINE lock == [pin |-> jobs[i].arg.pin, bio |-> jobs[i].arg.bio]
           a == [app EXCEPT !.unlocked = TRUE]
           b == [a EXCEPT !.folder.config = FolderConfig(lock), !.folder.stage = "unlocked"]
           d == [disk EXCEPT !.lock = lock]
<1>1. Tame(a) /\ Tame(b)
  BY AppNow DEF Tame, AppOk, NoApp
<1>2. Still(disk, d) /\ d.mode = disk.mode
  BY StillLock
<1>3. Settles(Lives(i, b, a), d, RemoveAt(jobs, i)) /\ slips' = slips /\ erased' = erased
  BY DEF SetupWritten
<1> HIDE DEF a, b, d
<1>4. Tame(Lives(i, b, a))
  BY <1>1 DEF Lives
<1> QED BY <1>2, <1>3, <1>4, FromEnded, Screens

LEMMA PinTimerSafe == ASSUME VaultInv, NEW i \in DOMAIN jobs, PinTimer(i) PROVE VaultInv'
<1> DEFINE j == jobs[i].arg
           clear == [app EXCEPT !.folder.entered = FALSE]
           right == disk.lock.pin = j.pin
           a == IF right THEN [app EXCEPT !.unlocked = TRUE] ELSE app
           a1 == [clear EXCEPT !.folder.first = j.pin, !.folder.stage = "setup-confirm"]
           a2 == [clear EXCEPT !.folder.first = Nil, !.folder.stage = "setup-pin"]
           a3 == [app EXCEPT !.folder.first = j.pin, !.folder.stage = "setup-biometric"]
           a4 == [a EXCEPT !.folder.entered = FALSE, !.folder.stage = IF right THEN "unlocked" ELSE @]
           setup == SetupJob(j.pin, FALSE)
<1>1. Tame(a1) /\ Tame(a2) /\ Tame(a3) /\ Tame(a) /\ Tame(a4)
  BY AppNow DEF Tame, AppOk, NoApp
<1>2. /\ slips' = slips /\ erased' = erased
      /\ \/ Settles(Lives(i, a1, app), disk, RemoveAt(jobs, i))
         \/ Settles(Lives(i, a2, app), disk, RemoveAt(jobs, i))
         \/ Settles(Lives(i, a3, app), disk, RemoveAt(jobs, i))
         \/ Settles(app, disk, RemoveAt(jobs, i) \o <<setup>>)
         \/ Settles(Lives(i, a4, a), disk, RemoveAt(jobs, i))
  BY DEF PinTimer
<1>3. Fresh(setup) /\ ~Migrates(setup)
  BY FreshAsk DEF Tasks, Migrates, SetupJob, Ask
<1> HIDE DEF a, a1, a2, a3, a4, setup
<1>4. /\ Tame(Lives(i, a1, app)) /\ Tame(Lives(i, a2, app)) /\ Tame(Lives(i, a3, app)) /\ Tame(Lives(i, a4, a))
      /\ Tame(app)
  BY <1>1, TameSelf DEF Lives
<1>5. From(RemoveAt(jobs, i), jobs, DOMAIN jobs \ {i}, FALSE)
  BY FromEnded
<1>6. From(RemoveAt(jobs, i) \o <<setup>>, jobs, DOMAIN jobs \ {i}, FALSE)
  BY <1>3, <1>5, FromOne
<1>7. ASSUME NEW b, Tame(b), Settles(b, disk, RemoveAt(jobs, i)) PROVE VaultInv'
  BY <1>2, <1>5, <1>7, StillSelf, Screens
<1>8. ASSUME Settles(app, disk, RemoveAt(jobs, i) \o <<setup>>) PROVE VaultInv'
  BY <1>2, <1>4, <1>6, <1>8, StillSelf, Screens
<1> QED BY <1>2, <1>4, <1>7, <1>8

(* ------------------------- what the user deletes ------------------------- *)

LEMMA RemoveBackSafe == ASSUME VaultInv, NEW i \in DOMAIN jobs, RemoveBack(i) PROVE VaultInv'
<1> DEFINE gone == jobs[i].arg
           d == [disk EXCEPT !.media = @ \ gone, !.legacy = @ \ gone]
           a == Delisted(Refreshed(app, d), {}, gone)
<1>1. CASE Finds(i, app)
  BY <1>1, TameSelf, FindsSafe
<1>2. CASE /\ erased' = erased \cup {x[1] : x \in gone} /\ slips' = slips
           /\ Settles(a, d, RemoveAt(jobs, i))
  <2>1. Tame(a)
    BY TameSelf, TameFolder
  <2>2. OnDisk(disk) /\ DOMAIN disk = DOMAIN d
    BY DEF VaultInv, DiskOk
  <2>3. /\ d.media = disk.media \ gone /\ d.saves = disk.saves /\ d.vault = disk.vault /\ d.mode = disk.mode
        /\ d.vkey = disk.vkey /\ d.mkey = disk.mkey /\ d.last = disk.last
    BY <2>2 DEF OnDisk
  <2> HIDE DEF d, a
  <2>4. /\ From(jobs', jobs, DOMAIN jobs \ {i}, FALSE) /\ disk' = d
        /\ AppOk(app)' /\ app'.vkey = a.vkey /\ app'.mkey = a.mkey /\ app'.mode = a.mode
    BY <1>2, <2>1, FromEnded, SettlesFrom DEF Tame
  <2>5. app'.vkey = app.vkey /\ app'.mkey = app.mkey /\ app'.mode.migrating = app.mode.migrating
    BY <2>1, <2>4 DEF Tame
  <2>6. OnDisk(d)
    BY <2>2, <2>3 DEF OnDisk
  <2>7. DiskOk(d)
    BY <2>3, <2>6 DEF VaultInv, DiskOk
  <2>8. Grows(disk, d)
    BY <2>2, <2>3, VaultAssumption DEF OnDisk, Grows
  <2>9. ASSUME ~Slipped({"rekeyed", "partial", "crossed"})' PROVE KeysKept(disk', app') /\ HomesKept(disk', jobs', erased')
    <3>1. KeysKept(disk, app) /\ HomesKept(disk, jobs, erased)
      BY <1>2, <2>9 DEF VaultInv, Slipped
    <3>2. KeysKept(disk', app')
      BY <2>3, <2>4, <2>5, <3>1 DEF KeysKept
    <3>3. \A k \in DOMAIN jobs : Shape(jobs[k]) /\ (Moving(jobs[k]) => jobs[k].id \in VaultIds)
      BY DEF VaultInv, JobsOk, Knows
    <3>4. Fewer(jobs', jobs)
      BY <2>4, <3>3, FromFewer
    <3>5. \A x \in disk.media : x \in d.media \/ x[1] \in erased'
      BY <1>2, <2>3
    <3>6. erased \subseteq erased'
      BY <1>2
    <3>7. HomesKept(d, jobs', erased')
      BY <2>3, <3>1, <3>3, <3>4, <3>5, <3>6, HomesSame
    <3> QED BY <2>4, <3>2, <3>7
  <2>10. (app'.mkey = 0 /\ ~Slipped({"crash", "crossed"})') => Clean(disk)'
    BY <1>2, <2>3, <2>4, <2>5, CleanNow DEF Clean, Slipped
  <2>11. "crossed" \notin slips => \A k \in DOMAIN jobs \ {i} : Migrates(jobs[k]) => app'.mode.migrating
    BY <2>4, <2>5, RunsNow
  <2>12. app'.mkey \in {0, disk.mkey}
    BY <2>5, AppNow
  <2> QED BY <1>2, <2>3, <2>4, <2>7, <2>8, <2>9, <2>10, <2>11, <2>12, SlipsNow, VaultMoves
<1> QED BY <1>1, <1>2 DEF RemoveBack

LEMMA SpentIs ==
  ASSUME NEW e \in EntrySet, NEW q \in {"none", "partial", "whole"}
  PROVE  LET z == [Spent(e) EXCEPT !.plain = q] IN
         /\ Spent(e) \in EntrySet /\ z \in EntrySet
         /\ Spent(e).of = e.of /\ ~Spent(e).row /\ Spent(e).plain = "none"
         /\ z.of = e.of /\ ~z.row /\ z.plain = q
<1>1. NoEntry \in EntrySet /\ ~NoEntry.row /\ NoEntry.plain = "none"
  BY DEF NoEntry, EntrySet
<1>2. PICK n : n = NoEntry
  OBVIOUS
<1>3. PICK s : s = [n EXCEPT !.of = e.of]
  OBVIOUS
<1>4. s \in EntrySet /\ s.of = e.of /\ ~s.row /\ s.plain = "none"
  BY <1>1, <1>2, <1>3 DEF EntrySet
<1>5. [s EXCEPT !.plain = q] \in EntrySet /\ [s EXCEPT !.plain = q].of = e.of /\ ~[s EXCEPT !.plain = q].row
      /\ [s EXCEPT !.plain = q].plain = q
  BY <1>4 DEF EntrySet
<1> QED BY <1>2, <1>3, <1>4, <1>5 DEF Spent

LEMMA ErasedVault ==
  ASSUME VaultInv, NEW ids
  PROVE  LET d == VaultErased(disk, ids) IN
         /\ DiskOk(d) /\ Grows(disk, d)
         /\ d.media = disk.media /\ d.mode = disk.mode /\ d.vkey = disk.vkey /\ d.mkey = disk.mkey
         /\ \A v \in VaultIds : /\ d.vault[v].of = disk.vault[v].of
                                /\ d.vault[v].row => disk.vault[v].row /\ d.vault[v].key = disk.vault[v].key
                                /\ v \notin ids => d.vault[v] = disk.vault[v]
<1> DEFINE d == VaultErased(disk, ids)
<1>1. OnDisk(disk) /\ DiskOk(disk)
  BY DEF VaultInv, DiskOk
<1>2. /\ d.media = disk.media /\ d.saves = disk.saves /\ d.mode = disk.mode /\ d.vkey = disk.vkey
      /\ d.mkey = disk.mkey /\ d.last = disk.last /\ DOMAIN d = DOMAIN disk
      /\ d.vault = [v \in VaultIds |-> IF v \in ids THEN [Spent(disk.vault[v]) EXCEPT !.plain = disk.vault[v].plain]
                                       ELSE disk.vault[v]]
  BY <1>1 DEF VaultErased, OnDisk
<1> HIDE DEF d
<1>3. ASSUME NEW v \in VaultIds
      PROVE  /\ d.vault[v].of = disk.vault[v].of /\ d.vault[v].plain = disk.vault[v].plain
             /\ d.vault[v].row => disk.vault[v].row /\ d.vault[v].key = disk.vault[v].key /\ d.vault[v].file = disk.vault[v].file
             /\ v \notin ids => d.vault[v] = disk.vault[v]
             /\ d.vault[v] \in EntrySet
  <2>1. disk.vault[v] \in EntrySet /\ disk.vault[v].plain \in {"none", "partial", "whole"}
    BY <1>1 DEF OnDisk, EntrySet
  <2>2. CASE v \in ids
    <3>1. d.vault[v] = [Spent(disk.vault[v]) EXCEPT !.plain = disk.vault[v].plain]
      BY <1>2, <2>2
    <3>2. PICK e \in EntrySet : e = disk.vault[v]
      BY <2>1
    <3>3. PICK q \in {"none", "partial", "whole"} : q = e.plain
      BY <2>1, <3>2
    <3>4. PICK z : z = [Spent(e) EXCEPT !.plain = q]
      OBVIOUS
    <3>5. z \in EntrySet /\ z.of = e.of /\ ~z.row /\ z.plain = q
      BY <3>4, SpentIs
    <3> QED BY <2>2, <3>1, <3>2, <3>3, <3>4, <3>5
  <2>3. CASE v \notin ids
    <3>1. d.vault[v] = disk.vault[v]
      BY <1>2, <2>3
    <3> QED BY <2>1, <2>3, <3>1
  <2> QED BY <2>2, <2>3
<1>4. OnDisk(d)
  <2>1. d.vault \in [VaultIds -> EntrySet]
    BY <1>2, <1>3
  <2> QED BY <1>1, <1>2, <2>1 DEF OnDisk
<1>5. DiskOk(d)
  BY <1>1, <1>2, <1>3, <1>4 DEF DiskOk
<1>6. Grows(disk, d)
  BY <1>1, <1>2, <1>3, VaultAssumption DEF OnDisk, Grows
<1> QED BY <1>2, <1>3, <1>5, <1>6 DEF d

LEMMA ConfirmSafe == ASSUME VaultInv, NEW ok, Confirm(ok) PROVE VaultInv'
<1> DEFINE q == app.dialog
           a == [app EXCEPT !.dialog = Nil]
           m == [Task("import", SetToSeq(disk.legacy \cap disk.media)) EXCEPT !.from = "migrate"]
           t == Task("import", SetToSeq(q.photos))
           c == [Task("disable", <<>>) EXCEPT !.at = "check", !.id = q.right]
           d == VaultErased(disk, q.ids)
           rest == IF q.photos = {} THEN <<>> ELSE <<Removal(q.photos)>>
<1>1. Tame(a) /\ Tame([a EXCEPT !.folder.migrating = TRUE]) /\ Tame([a EXCEPT !.busy = TRUE])
  BY AppNow DEF Tame, AppOk, NoApp
<1>2. Fresh(m) /\ ~Migrates(m) /\ Fresh(t) /\ ~Migrates(t) /\ Fresh(c) /\ ~Migrates(c)
  BY DEF Fresh, Shape, Moving, Hiding, Migrates, Task, TaskFields, Tasks
<1>3. \/ Shows(a) \/ ShowsWith([a EXCEPT !.folder.migrating = TRUE], <<m>>)
      \/ ShowsWith(a, <<t>>) \/ ShowsWith([a EXCEPT !.busy = TRUE], <<c>>)
      \/ /\ Settles(Delisted(a, q.ids, {}), d, jobs \o rest) /\ slips' = slips
         /\ erased' = erased \cup {disk.vault[v].of : v \in q.ids}
  BY DEF Confirm
<1>4. ASSUME Settles(Delisted(a, q.ids, {}), d, jobs \o rest), slips' = slips,
             erased' = erased \cup {disk.vault[v].of : v \in q.ids}
      PROVE  VaultInv'
  <2> DEFINE b == Delisted(a, q.ids, {})
  <2>1. Tame(b)
    BY <1>1, TameFolder
  <2>2. PICK r : r = Removal(q.photos)
    OBVIOUS
  <2>3. Fresh(r) /\ ~Migrates(r)
    BY <2>2, FreshAsk DEF Tasks, Migrates, Ask, Removal
  <2>4. rest = <<>> \/ rest = <<r>>
    BY <2>2
  <2>5. From(jobs \o rest, jobs, DOMAIN jobs, FALSE)
    <3>1. CASE rest = <<>>
      <4>1. <<>> \in Seq({r}) /\ \A k \in DOMAIN <<>> : FALSE
        OBVIOUS
      <4> HIDE DEF rest
      <4> QED BY <3>1, <4>1, FromNow, FromAppend
    <3>2. CASE rest = <<r>>
      <4> HIDE DEF rest
      <4> QED BY <2>3, <3>2, FromNow, FromOne
    <3> QED BY <2>4, <3>1, <3>2
  <2>6. /\ DiskOk(d) /\ Grows(disk, d)
        /\ d.media = disk.media /\ d.mode = disk.mode /\ d.vkey = disk.vkey /\ d.mkey = disk.mkey
        /\ \A v \in VaultIds : /\ d.vault[v].of = disk.vault[v].of
                               /\ d.vault[v].row => disk.vault[v].row /\ d.vault[v].key = disk.vault[v].key
                               /\ v \notin q.ids => d.vault[v] = disk.vault[v]
    BY ErasedVault
  <2> HIDE DEF b, d, rest
  <2>7. /\ From(jobs', jobs, DOMAIN jobs, FALSE) /\ disk' = d
        /\ AppOk(app)' /\ app'.vkey = b.vkey /\ app'.mkey = b.mkey /\ app'.mode = b.mode
    BY <1>4, <2>1, <2>5, SettlesFrom DEF Tame, b
  <2>8. app'.vkey = app.vkey /\ app'.mkey = app.mkey /\ app'.mode.migrating = app.mode.migrating
    BY <2>1, <2>7 DEF Tame
  <2>9. ASSUME ~Slipped({"rekeyed", "partial", "crossed"})' PROVE KeysKept(disk', app') /\ HomesKept(disk', jobs', erased')
    <3>1. KeysKept(disk, app) /\ HomesKept(disk, jobs, erased)
      BY <1>4, <2>9 DEF VaultInv, Slipped
    <3>2. KeysKept(disk', app')
      BY <2>6, <2>7, <2>8, <3>1 DEF KeysKept
    <3>3. \A k \in DOMAIN jobs : Shape(jobs[k]) /\ (Moving(jobs[k]) => jobs[k].id \in VaultIds)
      BY DEF VaultInv, JobsOk, Knows
    <3>4. Fewer(jobs', jobs)
      BY <2>7, <3>3, FromFewer
    <3>5. \A v \in VaultIds : \/ disk.vault[v].row => d.vault[v].row /\ d.vault[v].of = disk.vault[v].of
                              \/ disk.vault[v].of \in erased'
      BY <1>4, <2>6
    <3>6. erased \subseteq erased'
      BY <1>4
    <3>7. HomesKept(d, jobs', erased')
      BY <2>6, <3>1, <3>3, <3>4, <3>5, <3>6, HomesSame
    <3> QED BY <2>7, <3>2, <3>7
  <2>10. (app'.mkey = 0 /\ ~Slipped({"crash", "crossed"})') => Clean(disk)'
    BY <1>4, <2>6, <2>7, <2>8, CleanNow DEF Clean, Slipped
  <2>11. "crossed" \notin slips => \A k \in DOMAIN jobs : Migrates(jobs[k]) => app'.mode.migrating
    BY <2>7, <2>8, RunsNow
  <2>12. app'.mkey \in {0, disk.mkey}
    BY <2>8, AppNow
  <2> QED BY <1>4, <2>6, <2>7, <2>9, <2>10, <2>11, <2>12, SlipsNow, VaultMoves
<1> HIDE DEF a, m, t, c, d, rest
<1> QED BY <1>1, <1>2, <1>3, <1>4, ShowsSafe, ShowsOneSafe

(* --------------------------- locks and crashes --------------------------- *)

LEMMA OpenedIs ==
  ASSUME NEW S, S = EntrySet \/ S = CopySet, NEW e \in S, NEW k
  PROVE  LET o == Opened(e, k) IN
         /\ o \in S /\ o.row = e.row /\ o.file = e.file /\ o.key = e.key
         /\ o.plain # "none" => e.file # "none" \/ e.plain # "none"
         /\ S = EntrySet => o.of = e.of
         /\ S = CopySet => o.thumb = e.thumb /\ o.small = e.small
         /\ e.file = "none" => o = e
<1>1. PICK r \in {"whole", "partial"} : r = IF e.file = "whole" /\ e.key = k THEN "whole" ELSE "partial"
  OBVIOUS
<1>2. PICK o : o = IF e.plain # "none" \/ e.file = "none" THEN e ELSE [e EXCEPT !.plain = r]
  OBVIOUS
<1>3. Opened(e, k) = o
  BY <1>1, <1>2 DEF Opened
<1>4. CASE S = EntrySet
  BY <1>2, <1>3, <1>4 DEF EntrySet, CopySet
<1>5. CASE S = CopySet
  BY <1>2, <1>3, <1>5 DEF EntrySet, CopySet
<1> QED BY <1>4, <1>5

(* Replacing one ciphertext's record on the device. *)
LEMMA ModeAt ==
  ASSUME OnDisk(disk), NEW x, NEW e, x \in Assets => e \in CopySet
  PROVE  LET d == [disk EXCEPT !.mode[x] = e] IN
         /\ OnDisk(d) /\ d.media = disk.media /\ d.saves = disk.saves /\ d.vault = disk.vault
         /\ d.vkey = disk.vkey /\ d.mkey = disk.mkey /\ d.last = disk.last
         /\ x \in Assets => d.mode[x] = e
         /\ \A y \in Assets : y # x => d.mode[y] = disk.mode[y]
<1>1. PICK d : d = [disk EXCEPT !.mode[x] = e]
  OBVIOUS
<1>2. /\ DOMAIN d = DOMAIN disk /\ d.media = disk.media /\ d.saves = disk.saves /\ d.vault = disk.vault
      /\ d.vkey = disk.vkey /\ d.mkey = disk.mkey /\ d.last = disk.last
      /\ d.mode = [disk.mode EXCEPT ![x] = e]
  BY <1>1 DEF OnDisk
<1>3. d.mode \in [Assets -> CopySet]
  <2>1. disk.mode \in [Assets -> CopySet]
    BY DEF OnDisk
  <2> QED BY <1>2, <2>1
<1>4. OnDisk(d)
  BY <1>2, <1>3 DEF OnDisk
<1>5. disk.mode \in [Assets -> CopySet]
  BY DEF OnDisk
<1>6. /\ x \in Assets => d.mode[x] = e
      /\ \A y \in Assets : y # x => d.mode[y] = disk.mode[y]
  BY <1>2, <1>5
<1> QED BY <1>1, <1>2, <1>4, <1>6, Zenon

LEMMA VaultAt ==
  ASSUME OnDisk(disk), NEW v \in VaultIds, NEW e \in EntrySet
  PROVE  LET d == [disk EXCEPT !.vault[v] = e] IN
         /\ OnDisk(d) /\ d.media = disk.media /\ d.saves = disk.saves /\ d.mode = disk.mode
         /\ d.vkey = disk.vkey /\ d.mkey = disk.mkey /\ d.last = disk.last
         /\ d.vault[v] = e /\ \A w \in VaultIds : w # v => d.vault[w] = disk.vault[w]
<1>1. PICK d : d = [disk EXCEPT !.vault[v] = e]
  OBVIOUS
<1>2. /\ DOMAIN d = DOMAIN disk /\ d.media = disk.media /\ d.saves = disk.saves /\ d.mode = disk.mode
      /\ d.vkey = disk.vkey /\ d.mkey = disk.mkey /\ d.last = disk.last
      /\ d.vault = [disk.vault EXCEPT ![v] = e]
  BY <1>1 DEF OnDisk
<1>3. disk.vault \in [VaultIds -> EntrySet]
  BY DEF OnDisk
<1>4. d.vault \in [VaultIds -> EntrySet] /\ d.vault[v] = e /\ \A w \in VaultIds : w # v => d.vault[w] = disk.vault[w]
  BY <1>2, <1>3
<1>5. OnDisk(d)
  BY <1>2, <1>4 DEF OnDisk
<1> QED BY <1>1, <1>2, <1>4, <1>5

(* Decrypting into the session cache moves no photo. *)
LEMMA StillVault ==
  ASSUME VaultInv, NEW v \in VaultIds, NEW e \in EntrySet,
         e.row = disk.vault[v].row /\ e.of = disk.vault[v].of /\ e.file = disk.vault[v].file /\ e.key = disk.vault[v].key,
         e.plain # "none" => disk.vault[v].row \/ disk.vault[v].plain # "none"
  PROVE  LET d == [disk EXCEPT !.vault[v] = e] IN Still(disk, d) /\ d.mode = disk.mode
<1>1. OnDisk(disk)
  BY DEF VaultInv, DiskOk
<1>2. PICK d : d = [disk EXCEPT !.vault[v] = e]
  OBVIOUS
<1>3. /\ OnDisk(d) /\ d.media = disk.media /\ d.saves = disk.saves /\ d.mode = disk.mode
      /\ d.vkey = disk.vkey /\ d.mkey = disk.mkey
      /\ d.vault[v] = e /\ \A w \in VaultIds : w # v => d.vault[w] = disk.vault[w]
  BY <1>1, <1>2, VaultAt
<1>4. Still(disk, d)
  BY <1>3 DEF Still
<1> QED BY <1>2, <1>3, <1>4

LEMMA StillCopy ==
  ASSUME VaultInv, NEW x,
         NEW e, x \in Assets => /\ e \in CopySet /\ (disk.mode[x].row \/ e = disk.mode[x])
                                /\ e.row = disk.mode[x].row /\ e.file = disk.mode[x].file /\ e.key = disk.mode[x].key
  PROVE  Still(disk, [disk EXCEPT !.mode[x] = e])
<1>1. OnDisk(disk)
  BY DEF VaultInv, DiskOk
<1>2. PICK d : d = [disk EXCEPT !.mode[x] = e]
  OBVIOUS
<1>3. /\ OnDisk(d) /\ d.media = disk.media /\ d.saves = disk.saves /\ d.vault = disk.vault
      /\ d.vkey = disk.vkey /\ d.mkey = disk.mkey
      /\ x \in Assets => d.mode[x] = e
      /\ \A y \in Assets : y # x => d.mode[y] = disk.mode[y]
  BY <1>1, <1>2, ModeAt
<1>4. Still(disk, d)
  BY <1>3 DEF Still
<1> QED BY <1>2, <1>4

LEMMA CopyOpened ==
  ASSUME VaultInv, NEW x, NEW k
  PROVE  Still(disk, [disk EXCEPT !.mode[x] = Opened(@, k)])
<1>1. PICK e : e = Opened(disk.mode[x], k)
  OBVIOUS
<1>2. ASSUME x \in Assets
      PROVE  /\ e \in CopySet /\ (disk.mode[x].row \/ e = disk.mode[x])
             /\ e.row = disk.mode[x].row /\ e.file = disk.mode[x].file /\ e.key = disk.mode[x].key
  <2>1. disk.mode[x] \in CopySet
    BY <1>2 DEF VaultInv, DiskOk, OnDisk
  <2>2. disk.mode[x].row \/ disk.mode[x].file = "none"
    BY <1>2 DEF VaultInv, DiskOk, NoCopy
  <2>3. PICK y \in CopySet : y = disk.mode[x]
    BY <2>1
  <2> QED BY <1>1, <2>2, <2>3, OpenedIs
<1>3. [disk EXCEPT !.mode[x] = Opened(@, k)] = [disk EXCEPT !.mode[x] = e]
  BY <1>1
<1> QED BY <1>2, <1>3, StillCopy

LEMMA CopyPurgedIs ==
  ASSUME NEW e \in CopySet, NEW H \in SUBSET {"full", "thumb"}
  PROVE  /\ CopyPurged(e, H) \in CopySet
         /\ CopyPurged(e, H).row = e.row /\ CopyPurged(e, H).file = e.file /\ CopyPurged(e, H).key = e.key
         /\ CopyPurged(e, H).plain # "none" => "full" \in CopyPurged(e, H).stuck
         /\ CopyPurged(e, H).small => "thumb" \in CopyPurged(e, H).stuck
         /\ e.plain = "none" /\ ~e.small /\ e.stuck = {} /\ H = {} => CopyPurged(e, H) = e
<1>1. PICK P : P = IF "full" \in H THEN e.plain ELSE "none"
  OBVIOUS
<1>2. PICK S : S = ("thumb" \in H)
  OBVIOUS
<1>3. PICK r : r = [e EXCEPT !.plain = P, !.small = S, !.stuck = H]
  OBVIOUS
<1>4. CopyPurged(e, H) = r
  BY <1>1, <1>2, <1>3 DEF CopyPurged
<1>5. P \in {"none", "partial", "whole"} /\ S \in BOOLEAN
  BY <1>1, <1>2 DEF CopySet
<1>6. /\ r \in CopySet /\ r.row = e.row /\ r.file = e.file /\ r.key = e.key
      /\ r.plain = P /\ r.small = S /\ r.stuck = H
  BY <1>3, <1>5 DEF CopySet
<1>7. (P # "none" => "full" \in H) /\ (S => "thumb" \in H)
  BY <1>1, <1>2
<1>8. H = {} => P = "none" /\ ~S
  BY <1>1, <1>2
<1>9. ASSUME e.plain = "none", ~e.small, e.stuck = {}, H = {}
      PROVE  r = e
  <2>1. r = [e EXCEPT !.plain = "none", !.small = FALSE, !.stuck = {}]
    <3>1. P = "none" /\ H = {}
      BY <1>8, <1>9
    <3>2. S = FALSE
      BY <1>5, <1>8, <1>9
    <3> QED BY <1>3, <3>1, <3>2, Zenon
  <2>2. e.small = FALSE
    BY <1>9 DEF CopySet
  <2>3. [e EXCEPT !.plain = "none"] = e
    BY <1>9 DEF CopySet
  <2>4. [e EXCEPT !.small = FALSE] = e
    BY <2>2 DEF CopySet
  <2>5. [e EXCEPT !.stuck = {}] = e
    BY <1>9 DEF CopySet
  <2> QED BY <2>1, <2>3, <2>4, <2>5
<1> QED BY <1>4, <1>6, <1>7, <1>8, <1>9

LEMMA StillPurged ==
  ASSUME VaultInv, NEW L \in SUBSET Decrypted(disk), NEW V \in SUBSET DecryptedEntries(disk)
  PROVE  /\ Still(disk, CopiesPurged(disk, L)) /\ Clean(CopiesPurged(disk, L))
         /\ Still(disk, PlainsPurged(CopiesPurged(disk, L), V)) /\ Clean(PlainsPurged(CopiesPurged(disk, L), V))
<1>1. OnDisk(disk)
  BY DEF VaultInv, DiskOk
<1>2. PICK c : c = CopiesPurged(disk, L)
  OBVIOUS
<1>3. PICK d : d = PlainsPurged(c, V)
  OBVIOUS
<1> DEFINE held(x) == {f \in {"full", "thumb"} : <<x, f>> \in L}
<1>4. /\ DOMAIN c = DOMAIN disk /\ c.media = disk.media /\ c.saves = disk.saves /\ c.vault = disk.vault
      /\ c.vkey = disk.vkey /\ c.mkey = disk.mkey /\ c.last = disk.last
      /\ c.mode = [x \in Assets |-> CopyPurged(disk.mode[x], held(x))]
  <2>1. PICK M : M = [x \in Assets |-> CopyPurged(disk.mode[x], held(x))]
    OBVIOUS
  <2>2. c = [disk EXCEPT !.mode = M]
    BY <1>2, <2>1 DEF CopiesPurged
  <2> HIDE DEF held
  <2> QED BY <1>1, <2>1, <2>2 DEF OnDisk
<1>5. /\ DOMAIN d = DOMAIN disk /\ d.media = disk.media /\ d.saves = disk.saves /\ d.mode = c.mode
      /\ d.vkey = disk.vkey /\ d.mkey = disk.mkey /\ d.last = disk.last
      /\ d.vault = [v \in VaultIds |-> IF v \in V THEN disk.vault[v] ELSE [disk.vault[v] EXCEPT !.plain = "none"]]
  BY <1>1, <1>3, <1>4 DEF PlainsPurged, OnDisk
<1>6. ASSUME NEW x \in Assets
      PROVE  /\ c.mode[x] \in CopySet /\ c.mode[x].row = disk.mode[x].row
             /\ c.mode[x].file = disk.mode[x].file /\ c.mode[x].key = disk.mode[x].key
             /\ c.mode[x].plain # "none" => "full" \in c.mode[x].stuck
             /\ c.mode[x].small => "thumb" \in c.mode[x].stuck
             /\ ~disk.mode[x].row => c.mode[x] = disk.mode[x]
  <2>1. PICK e \in CopySet : e = disk.mode[x]
    BY <1>1 DEF OnDisk
  <2>2. PICK H \in SUBSET {"full", "thumb"} : H = held(x)
    OBVIOUS
  <2>3. c.mode[x] = CopyPurged(e, H)
    BY <1>4, <2>1, <2>2
  <2>4. ~e.row => e.plain = "none" /\ ~e.small /\ e.stuck = {}
    BY <2>1 DEF VaultInv, DiskOk, NoCopy
  <2>5. ~e.row => H = {}
    BY <2>1, <2>2, <2>4 DEF Decrypted
  <2>6. PICK q : q = CopyPurged(e, H)
    OBVIOUS
  <2>7. /\ q \in CopySet /\ q.row = e.row /\ q.file = e.file /\ q.key = e.key
        /\ q.plain # "none" => "full" \in q.stuck
        /\ q.small => "thumb" \in q.stuck
    BY <2>6, CopyPurgedIs
  <2>8. ~e.row => q = e
    BY <2>4, <2>5, <2>6, CopyPurgedIs
  <2>9. c.mode[x] = q /\ disk.mode[x] = e
    BY <2>1, <2>3, <2>6
  <2> QED BY <2>7, <2>8, <2>9
<1>7. ASSUME NEW v \in VaultIds
      PROVE  /\ d.vault[v] \in EntrySet /\ d.vault[v].row = disk.vault[v].row /\ d.vault[v].of = disk.vault[v].of
             /\ d.vault[v].file = disk.vault[v].file /\ d.vault[v].key = disk.vault[v].key
             /\ d.vault[v].plain # "none" => disk.vault[v].plain # "none"
  <2>1. PICK e \in EntrySet : e = disk.vault[v]
    BY <1>1 DEF OnDisk
  <2>2. d.vault[v] = e \/ d.vault[v] = [e EXCEPT !.plain = "none"]
    BY <1>5, <2>1
  <2> QED BY <2>1, <2>2 DEF EntrySet
<1>8. OnDisk(c)
  BY <1>1, <1>4, <1>6 DEF OnDisk
<1>9. OnDisk(d)
  BY <1>1, <1>4, <1>5, <1>6, <1>7 DEF OnDisk
<1>10. Still(disk, c) /\ Clean(c)
  BY <1>4, <1>6, <1>8 DEF Still, Clean
<1>11. Still(disk, d) /\ Clean(d)
  BY <1>5, <1>6, <1>7, <1>9 DEF Still, Clean
<1> QED BY <1>2, <1>3, <1>10, <1>11

(* A screen that changes and learns or forgets the key of the encrypted mode. *)
LEMMA Keyed ==
  ASSUME VaultInv, NEW a, AppOk(a), a.vkey = app.vkey, a.mkey \in {0, disk.mkey},
         NEW d, Still(disk, d), NEW js, NEW D, From(js, jobs, D, FALSE),
         "crossed" \notin slips => \A k \in D : Migrates(jobs[k]) => a.mode.migrating,
         a.mkey = 0 /\ ~Slipped({"crash", "crossed"}) => Clean(d),
         Settles(a, d, js), slips' = slips, erased' = erased
  PROVE  VaultInv'
<1>1. /\ From(jobs', jobs, D, FALSE) /\ disk' = d
      /\ AppOk(app)' /\ app'.vkey = a.vkey /\ app'.mkey = a.mkey /\ app'.mode = a.mode
  BY SettlesFrom
<1>2. (app'.mkey = 0 /\ ~Slipped({"crash", "crossed"})') => Clean(disk)'
  BY <1>1 DEF Clean, Slipped
<1>3. "crossed" \notin slips => \A k \in D : Migrates(jobs[k]) => app'.mode.migrating
  BY <1>1
<1>4. app'.mkey \in {0, disk.mkey} /\ app'.vkey \in {app.vkey, disk.vkey}
  BY <1>1
<1>5. Still(disk, disk')
  BY <1>1
<1> QED BY <1>1, <1>2, <1>3, <1>4, <1>5, Quiet, SlipsNow

LEMMA LockSafe ==
  ASSUME VaultInv, NEW L \in SUBSET Decrypted(disk), NEW V \in SUBSET DecryptedEntries(disk),
         LockMode(L) \/ Background(L, V)
  PROVE  VaultInv'
<1> DEFINE a == LockedMode(app)
           b == [a EXCEPT !.unlocked = FALSE]
<1>1. /\ AppOk(a) /\ a.vkey = app.vkey /\ a.mkey = 0 /\ a.mode.migrating = app.mode.migrating
      /\ AppOk(b) /\ b.vkey = app.vkey /\ b.mkey = 0 /\ b.mode.migrating = app.mode.migrating
  BY AppNow DEF LockedMode, AppOk, NoApp, NoMode
<1>2. /\ slips' = slips /\ erased' = erased
      /\ \/ Settles(a, CopiesPurged(disk, L), jobs)
         \/ Settles(b, PlainsPurged(CopiesPurged(disk, L), V), jobs)
  BY DEF LockMode, Background, Locked
<1> HIDE DEF a, b
<1>3. "crossed" \notin slips => \A k \in DOMAIN jobs : Migrates(jobs[k]) => app.mode.migrating
  BY FromNow, RunsNow
<1>4. PICK c, d : c = CopiesPurged(disk, L) /\ d = PlainsPurged(CopiesPurged(disk, L), V)
  OBVIOUS
<1>5. Still(disk, c) /\ Clean(c) /\ Still(disk, d) /\ Clean(d)
  BY <1>4, StillPurged
<1>6. ASSUME Settles(a, c, jobs) PROVE VaultInv'
  BY <1>1, <1>2, <1>3, <1>5, <1>6, FromNow, Keyed
<1>7. ASSUME Settles(b, d, jobs) PROVE VaultInv'
  BY <1>1, <1>2, <1>3, <1>5, <1>7, FromNow, Keyed
<1> QED BY <1>2, <1>4, <1>6, <1>7

LEMMA OpenOriginalSafe == ASSUME VaultInv, NEW p \in Assets, OpenOriginal(p) PROVE VaultInv'
<1>1. PICK d : d = [disk EXCEPT !.mode[p] = Opened(@, app.mkey)]
  OBVIOUS
<1>2. app.mkey # 0 /\ Settles(app, d, jobs) /\ slips' = slips /\ erased' = erased
  BY <1>1 DEF OpenOriginal
<1>3. Still(disk, d)
  BY <1>1, CopyOpened
<1>4. "crossed" \notin slips => \A k \in DOMAIN jobs : Migrates(jobs[k]) => app.mode.migrating
  BY FromNow, RunsNow
<1> QED BY <1>2, <1>3, <1>4, AppNow, FromNow, Keyed

LEMMA UnlockBackSafe == ASSUME VaultInv, NEW i \in DOMAIN jobs, UnlockBack(i) PROVE VaultInv'
<1>1. PICK key \in {disk.mkey, 0} :
        LET ok == key # 0 /\ jobs[i].arg IN
        Finds(i, Unbusy(i, [app EXCEPT !.mkey = IF ok THEN key ELSE @, !.mode.unlocked = ok, !.mode.error = ~ok]))
  BY DEF UnlockBack
<1>2. PICK ok : ok = (key # 0 /\ jobs[i].arg)
  OBVIOUS
<1>3. PICK a : a = Unbusy(i, [app EXCEPT !.mkey = IF ok THEN key ELSE @, !.mode.unlocked = ok, !.mode.error = ~ok])
  OBVIOUS
<1>4. disk.mkey \in Nat
  BY DEF VaultInv, DiskOk, OnDisk
<1>5. /\ AppOk(a) /\ a.vkey = app.vkey /\ a.mode.migrating = app.mode.migrating
      /\ a.mkey = IF ok THEN key ELSE app.mkey
  <2>1. PICK m, e, b : /\ m = (IF ok THEN key ELSE app.mkey) /\ e = ~ok
                       /\ b = [app EXCEPT !.mkey = m, !.mode.unlocked = ok, !.mode.error = e]
    OBVIOUS
  <2>2. /\ DOMAIN b = DOMAIN NoApp /\ DOMAIN b.mode = DOMAIN NoMode /\ b.vkey = app.vkey
        /\ b.mode.migrating = app.mode.migrating /\ b.mkey = m
    BY <2>1, AppNow DEF AppOk, NoApp, NoMode
  <2>3. a = Unbusy(i, b)
    BY <1>3, <2>1
  <2>4. m \in Nat /\ app.vkey \in Nat
    BY <1>4, <2>1, AppNow DEF AppOk
  <2>5. DOMAIN a = DOMAIN b /\ a.mode = b.mode /\ a.vkey = b.vkey /\ a.mkey = b.mkey
    BY <2>2, <2>3 DEF Unbusy, NoApp
  <2> QED BY <2>1, <2>2, <2>4, <2>5 DEF AppOk
<1>6. a.mkey \in {0, disk.mkey} /\ (a.mkey = 0 => app.mkey = 0)
  BY <1>2, <1>5, AppNow
<1>7. Settles(a, disk, RemoveAt(jobs, i)) /\ slips' = slips /\ erased' = erased
  BY <1>1, <1>2, <1>3 DEF Finds
<1>8. "crossed" \notin slips => \A k \in DOMAIN jobs \ {i} : Migrates(jobs[k]) => a.mode.migrating
  BY <1>5, FromEnded, RunsNow
<1>9. a.mkey = 0 /\ ~Slipped({"crash", "crossed"}) => Clean(disk)
  BY <1>6, CleanNow
<1> QED BY <1>5, <1>6, <1>7, <1>8, <1>9, StillSelf, FromEnded, Keyed

(* --------------------- migrations that begin and end --------------------- *)

LEMMA OnlyMigrates ==
  ASSUME VaultInv, NEW i \in DOMAIN jobs, Migrates(jobs[i]), "crossed" \notin slips
  PROVE  \A k \in DOMAIN jobs \ {i} : ~Migrates(jobs[k])
BY DEF VaultInv, Alone

LEMMA EnableEnds ==
  ASSUME VaultInv, NEW i \in DOMAIN jobs, EnableFailed(i) \/ EnableOver(i) PROVE VaultInv'
<1> DEFINE a1 == Unbusy(i, [app EXCEPT !.mode.migrating = FALSE, !.mode.error = TRUE])
           a2 == Unbusy(i, [Gone(app) EXCEPT !.mode = [enabled |-> TRUE, unlocked |-> TRUE, migrating |-> FALSE,
                                                        error |-> jobs[i].bad > 0]])
<1>1. jobs[i].op = "enable"
  BY DEF EnableFailed, EnableOver, Step, Over, At
<1>2. "crossed" \notin slips => \A k \in DOMAIN jobs \ {i} : ~Migrates(jobs[k])
  BY <1>1, OnlyMigrates DEF Migrates
<1>3. /\ slips' = slips /\ erased' = erased
      /\ \/ Settles(a1, disk, RemoveAt(jobs, i))
         \/ Settles(a2, disk, Unmounted(RemoveAt(jobs, i)))
  BY DEF EnableFailed, EnableOver, Finds
<1>4. /\ AppOk(a1) /\ a1.vkey = app.vkey /\ a1.mkey = app.mkey
      /\ AppOk(a2) /\ a2.vkey = app.vkey /\ a2.mkey = app.mkey
  BY AppNow DEF Unbusy, Gone, AppOk, NoApp, NoMode
<1>5. /\ From(RemoveAt(jobs, i), jobs, DOMAIN jobs \ {i}, FALSE)
      /\ From(Unmounted(RemoveAt(jobs, i)), jobs, DOMAIN jobs \ {i}, FALSE)
  BY FromEnded, FromUnmounted
<1> HIDE DEF a1, a2
<1>6. ASSUME NEW a, AppOk(a), a.vkey = app.vkey, a.mkey = app.mkey,
             NEW js, From(js, jobs, DOMAIN jobs \ {i}, FALSE), Settles(a, disk, js)
      PROVE  VaultInv'
  <2>1. a.mkey \in {0, disk.mkey} /\ (a.mkey = 0 /\ ~Slipped({"crash", "crossed"}) => Clean(disk))
    BY <1>6, AppNow, CleanNow
  <2>2. "crossed" \notin slips => \A k \in DOMAIN jobs \ {i} : Migrates(jobs[k]) => a.mode.migrating
    BY <1>2
  <2> QED BY <1>3, <1>6, <2>1, <2>2, StillSelf, Keyed
<1> QED BY <1>3, <1>4, <1>5, <1>6

(* A migration that begins: one of js is new, and alone. *)
LEMMA Begins ==
  ASSUME VaultInv, NEW js, NEW D, From(js, jobs, D, TRUE), NEW a, AppOk(a), a.vkey = app.vkey,
         a.mkey \in {0, disk.mkey}, a.mkey = 0 => app.mkey = 0, Settles(a, disk, js),
         slips \subseteq slips', slips' \subseteq {"rekeyed", "partial", "crossed", "crash"}, erased' = erased,
         "crossed" \notin slips' => Alone(js, a, disk)
  PROVE  VaultInv'
<1>1. \A k \in DOMAIN js : Shape(js[k])
  BY JobsKept, GrowsSelf DEF JobsOk, Knows, VaultInv, DiskOk
<1>2. js \in Seq(ToSet(js))
  BY DEF From
<1>3. From(js, js, DOMAIN js, FALSE)
  BY <1>1, <1>2, FromSelf
<1>4. /\ From(jobs', js, DOMAIN js, FALSE) /\ disk' = disk
      /\ AppOk(app)' /\ app'.vkey = a.vkey /\ app'.mkey = a.mkey /\ app'.mode = a.mode
  BY <1>1, <1>3, SettlesOnto
<1>5. From(jobs', jobs, D, TRUE)
  BY SettlesFrom
<1>6. DiskOk(disk)' /\ OnDisk(disk)
  BY <1>4 DEF VaultInv, DiskOk
<1>7. JobsOk(jobs, disk)' /\ JobsOk(js, disk)
  BY <1>4, <1>5, <1>6, GrowsSelf, JobsKept DEF VaultInv
<1>8. ("crossed" \notin slips => Alone(jobs, app, disk))'
  <2> SUFFICES ASSUME "crossed" \notin slips' PROVE Alone(jobs', app', disk')
    OBVIOUS
  <2>1. Alone(js, a, disk)
    OBVIOUS
  <2>2. \A k \in DOMAIN js : Migrates(js[k]) => app'.mode.migrating
    BY <1>4, <2>1 DEF Alone
  <2> QED BY <1>4, <1>7, <2>1, <2>2, AloneKept
<1>9. (~Slipped({"rekeyed", "partial", "crossed"}) => KeysKept(disk, app) /\ HomesKept(disk, jobs, erased))'
  <2> SUFFICES ASSUME ~Slipped({"rekeyed", "partial", "crossed"})'
               PROVE  KeysKept(disk', app') /\ HomesKept(disk', jobs', erased')
    OBVIOUS
  <2>1. KeysKept(disk, app) /\ HomesKept(disk, jobs, erased)
    BY DEF VaultInv, Slipped
  <2>2. KeysKept(disk', app')
    BY <1>4, <2>1 DEF KeysKept
  <2>3. \A k \in DOMAIN jobs : Shape(jobs[k]) /\ (Moving(jobs[k]) => jobs[k].id \in VaultIds)
    BY DEF VaultInv, JobsOk, Knows
  <2>4. Fewer(jobs', jobs)
    BY <1>5, <2>3, FromFewer
  <2>5. HomesKept(disk, jobs', erased')
    BY <2>1, <2>3, <2>4, HomesSame
  <2> QED BY <1>4, <2>2, <2>5
<1>10. app'.mkey \in {0, disk'.mkey}
  BY <1>4
<1>11. ((app.mkey = 0 /\ ~Slipped({"crash", "crossed"})) => Clean(disk))'
  BY <1>4, CleanNow DEF Clean, Slipped
<1> QED BY <1>4, <1>6, <1>7, <1>8, <1>9, <1>10, <1>11 DEF VaultInv

LEMMA FiniteAssets == ASSUME NEW S \in SUBSET Assets PROVE IsFiniteSet(S)
<1>1. IsFiniteSet(0..MaxSaves)
  BY VaultAssumption, FS_Interval
<1>2. IsFiniteSet(Photos)
  BY VaultAssumption
<1>3. IsFiniteSet(Photos \X (0..MaxSaves))
  BY <1>1, <1>2, FS_Product
<1>4. IsFiniteSet(Assets)
  BY <1>3 DEF Assets
<1> QED BY <1>4, FS_Subset

(* A finite set as a sequence: each element, and each once. *)
LEMMA SetListed ==
  ASSUME NEW S \in SUBSET Assets
  PROVE  /\ SetToSeq(S) \in Seq(Assets) /\ Distinct(SetToSeq(S))
         /\ \A k \in 1..Len(SetToSeq(S)) : SetToSeq(S)[k] \in S
         /\ \A x \in S : \E k \in 1..Len(SetToSeq(S)) : SetToSeq(S)[k] = x
<1> DEFINE n == Cardinality(S)
           s == SetToSeq(S)
<1>0. IsFiniteSet(S)
  BY FiniteAssets
<1>1. n \in Nat /\ ExistsBijection(1..n, S)
  BY <1>0, FS_CardinalityType
<1>2. PICK f \in Bijection(1..n, S) : TRUE
  BY <1>1 DEF ExistsBijection
<1>3. f \in [1..n -> S] /\ IsInjective(f)
  BY <1>2 DEF Bijection, Injection
<1>4. s \in [1..n -> S] /\ IsInjective(s)
  BY <1>3, Zenon DEF SetToSeq
<1> HIDE DEF s
<1>5. s \in Seq(S) /\ Len(s) = n /\ DOMAIN s = 1..n
  BY <1>1, <1>4
<1>6. s \in Injection(1..n, S)
  BY <1>4 DEF Injection
<1>7. IsFiniteSet(1..n) /\ Cardinality(1..n) = n
  <2>1. 1 \in Int /\ n \in Int /\ (n # 0 => ~(1 > n))
    BY <1>1
  <2>2. IsFiniteSet(1..n) /\ Cardinality(1..n) = IF 1 > n THEN 0 ELSE n - 1 + 1
    BY <2>1, FS_Interval
  <2> QED BY <1>1, <2>1, <2>2
<1>8. s \in Surjection(1..n, S)
  BY <1>0, <1>6, <1>7, FS_Injection
<1>9. \A x \in S : \E k \in 1..n : s[k] = x
  BY <1>8 DEF Surjection
<1>10. s \in Seq(Assets)
  BY <1>5
<1>11. Distinct(s)
  BY <1>4 DEF Distinct, IsInjective
<1>12. \A k \in 1..n : s[k] \in S
  BY <1>4
<1>13. s \in Seq(Assets) /\ Distinct(s) /\ (\A k \in 1..Len(s) : s[k] \in S) /\ \A x \in S : \E k \in 1..Len(s) : s[k] = x
  BY <1>5, <1>9, <1>10, <1>11, <1>12
<1> QED BY <1>13 DEF s

LEMMA EnableModeSafe == ASSUME VaultInv, EnableMode PROVE VaultInv'
<1> DEFINE a == [app EXCEPT !.busy = TRUE, !.mode.migrating = TRUE, !.mode.error = FALSE]
           j == [Task("enable", <<>>) EXCEPT !.at = "setup"]
           js == jobs \o <<j>>
<1>1. Fresh(j) /\ Migrates(j) /\ j.op = "enable" /\ j.at = "setup"
  BY DEF Fresh, Shape, Moving, Hiding, Migrates, Task, TaskFields, Tasks
<1>2. /\ AppOk(a) /\ a.vkey = app.vkey /\ a.mkey = app.mkey /\ a.mode.migrating
  BY AppNow DEF AppOk, NoApp, NoMode
<1>3. ~app.mode.migrating
  BY DEF EnableMode, InMode, ModeShown
<1>4. Settles(a, disk, js) /\ slips' = slips /\ erased' = erased
  BY DEF EnableMode, ShowsWith
<1> HIDE DEF a, j
<1>5. From(jobs, jobs, DOMAIN jobs, TRUE)
  BY ShapeAll, FromSelf
<1>6. From(js, jobs, DOMAIN jobs, TRUE)
  <2>1. <<j>> \in Seq({j}) /\ \A k \in DOMAIN <<j>> : <<j>>[k] = j
    OBVIOUS
  <2> QED BY <1>1, <1>5, <2>1, FromAppend
<1>7. "crossed" \notin slips => Alone(js, a, disk)
  <2> SUFFICES ASSUME "crossed" \notin slips PROVE Alone(js, a, disk)
    OBVIOUS
  <2>1. jobs \in Seq(ToSet(jobs)) /\ \A k \in DOMAIN jobs : ~Migrates(jobs[k])
    BY <1>3 DEF VaultInv, Alone, JobsOk
  <2>2. \A k \in DOMAIN js : IF k \in DOMAIN jobs THEN js[k] = jobs[k] ELSE k = Len(jobs) + 1 /\ js[k] = j
    BY <2>1
  <2>3. \A k \in DOMAIN jobs : KnowsAlone(jobs[k], disk)
    BY <2>1 DEF Migrates, KnowsAlone
  <2>4. KnowsAlone(j, disk)
    BY <1>1 DEF KnowsAlone
  <2> HIDE DEF js
  <2> QED BY <1>2, <2>1, <2>2, <2>3, <2>4 DEF Alone
<1> HIDE DEF js
<1> QED BY <1>2, <1>4, <1>6, <1>7, AppNow, SlipsNow, Begins

LEMMA DisableCheckedSafe == ASSUME VaultInv, NEW i \in DOMAIN jobs, DisableChecked(i) PROVE VaultInv'
<1> DEFINE a == [app EXCEPT !.mkey = disk.mkey, !.mode.migrating = TRUE, !.mode.error = FALSE]
           j == [jobs[i] EXCEPT !.at = "item", !.todo = SetToSeq(Copies)]
           js == [jobs EXCEPT ![i] = j]
           b == Unbusy(i, [app EXCEPT !.mode.error = TRUE])
<1>1. /\ erased' = erased /\ jobs[i].op = "disable" /\ jobs[i].at = "check"
      /\ \/ /\ disk.mkey # 0 /\ slips' = (IF app.mode.migrating THEN slips \cup {"crossed"} ELSE slips)
            /\ Settles(a, disk, js)
         \/ Settles(b, disk, RemoveAt(jobs, i)) /\ slips' = slips
  BY DEF DisableChecked, Step, At
<1>2. disk.mkey \in Nat /\ OnDisk(disk)
  BY DEF VaultInv, DiskOk, OnDisk
<1>3. /\ AppOk(a) /\ a.vkey = app.vkey /\ a.mkey = disk.mkey /\ a.mode.migrating
  BY <1>2, AppNow DEF AppOk, NoApp, NoMode
<1>4. Tame(b)
  BY AppNow DEF Unbusy, Tame, AppOk, NoApp, NoMode
<1>5. ASSUME Settles(b, disk, RemoveAt(jobs, i)), slips' = slips PROVE VaultInv'
  <2> HIDE DEF b
  <2> QED BY <1>1, <1>4, <1>5, StillSelf, FromEnded, Screens
<1>6. Copies \in SUBSET Assets
  BY DEF Copies
<1>7. Shape(jobs[i]) /\ jobs \in Seq(ToSet(jobs))
  BY ShapeAll
<1>8. DOMAIN jobs[i] = TaskFields /\ jobs[i].bad \in Nat
  BY <1>1, <1>7 DEF Shape, Tasks
<1>9. /\ DOMAIN j = TaskFields /\ j.op = "disable" /\ j.at = "item" /\ j.bad = jobs[i].bad
      /\ j.todo = SetToSeq(Copies)
  BY <1>1, <1>8 DEF TaskFields
<1>15. PICK C \in SUBSET Assets : C = Copies
  BY <1>6
<1>16. j.todo \in Seq(Assets) /\ \A x \in C : \E k \in 1..Len(j.todo) : j.todo[k] = x
  BY <1>9, <1>15, SetListed
<1> HIDE DEF a, b, j
<1>10. Fresh(j)
  BY <1>8, <1>9, <1>16 DEF Fresh, Shape, Moving, Hiding, TaskFields
<1>11. From(js, jobs, DOMAIN jobs \ {i}, TRUE)
  BY <1>10, ShapeAll, FromBecomes
<1>12. KnowsAlone(j, disk)
  BY <1>9, <1>15, <1>16 DEF KnowsAlone, Copies
<1>13. ASSUME "crossed" \notin slips, ~app.mode.migrating PROVE Alone(js, a, disk)
  <2>1. \A k \in DOMAIN jobs : ~Migrates(jobs[k])
    BY <1>13 DEF VaultInv, Alone
  <2>2. DOMAIN js = DOMAIN jobs /\ js[i] = j /\ \A k \in DOMAIN jobs : k # i => js[k] = jobs[k]
    BY <1>7
  <2>3. \A k \in DOMAIN jobs : KnowsAlone(jobs[k], disk)
    BY <2>1 DEF Migrates, KnowsAlone
  <2> HIDE DEF js
  <2> QED BY <1>3, <1>12, <2>1, <2>2, <2>3 DEF Alone
<1>14. ASSUME disk.mkey # 0, slips' = (IF app.mode.migrating THEN slips \cup {"crossed"} ELSE slips),
              Settles(a, disk, js)
       PROVE  VaultInv'
  <2>1. "crossed" \notin slips' => Alone(js, a, disk)
    BY <1>13, <1>14
  <2>2. slips \subseteq slips' /\ slips' \subseteq {"rekeyed", "partial", "crossed", "crash"}
    BY <1>14, SlipsNow
  <2> HIDE DEF js
  <2> QED BY <1>1, <1>3, <1>11, <1>14, <2>1, <2>2, Begins
<1> QED BY <1>1, <1>5, <1>14

LEMMA CrashSafe == ASSUME VaultInv, Crash PROVE VaultInv'
<1>1. /\ app' = Refreshed(NoApp, disk) /\ jobs' = <<>> /\ disk' = disk /\ erased' = erased
      /\ slips' = slips \cup {"crash"}
  BY DEF Crash
<1>2. AppOk(app)' /\ app'.vkey = 0 /\ app'.mkey = 0
  BY <1>1 DEF AppOk, Refreshed, NoApp, NoMode
<1>3. DiskOk(disk)' /\ OnDisk(disk)
  BY <1>1 DEF VaultInv, DiskOk
<1>4. <<>> \in Seq(ToSet(<<>>)) /\ DOMAIN <<>> = {}
  OBVIOUS
<1>5. JobsOk(jobs, disk)' /\ Alone(jobs, app, disk)'
  BY <1>1, <1>4 DEF JobsOk, Alone
<1>6. (~Slipped({"rekeyed", "partial", "crossed"}) => KeysKept(disk, app) /\ HomesKept(disk, jobs, erased))'
  <2> SUFFICES ASSUME ~Slipped({"rekeyed", "partial", "crossed"})'
               PROVE  KeysKept(disk', app') /\ HomesKept(disk', jobs', erased')
    OBVIOUS
  <2>1. KeysKept(disk, app) /\ HomesKept(disk, jobs, erased)
    BY <1>1 DEF VaultInv, Slipped
  <2> QED BY <1>1, <1>2, <1>4, <2>1 DEF KeysKept, HomesKept
<1>7. Slipped({"crash", "crossed"})' /\ slips' \subseteq {"rekeyed", "partial", "crossed", "crash"}
  BY <1>1, SlipsNow DEF Slipped
<1> QED BY <1>2, <1>3, <1>5, <1>6, <1>7 DEF VaultInv

(* The key is destroyed once nothing is encrypted with it. *)
LEMMA DisableOverSafe == ASSUME VaultInv, NEW i \in DOMAIN jobs, DisableOver(i) PROVE VaultInv'
<1> DEFINE a == [app EXCEPT !.mode.migrating = FALSE]
           b == Unbusy(i, [Gone(a) EXCEPT !.mkey = 0, !.mode.enabled = FALSE, !.mode.unlocked = FALSE])
           c == Unbusy(i, [a EXCEPT !.mode.error = TRUE])
           d == [disk EXCEPT !.mkey = 0]
           js == Unmounted(RemoveAt(jobs, i))
           D == DOMAIN jobs \ {i}
<1>1. /\ slips' = slips /\ erased' = erased
      /\ jobs[i].op = "disable" /\ jobs[i].at = "item" /\ jobs[i].todo = <<>>
      /\ \/ jobs[i].bad = 0 /\ Settles(b, d, js)
         \/ Settles(c, disk, RemoveAt(jobs, i))
  BY DEF DisableOver, Over, At, Destroys
<1>2. /\ AppOk(b) /\ b.vkey = app.vkey /\ b.mkey = 0
      /\ AppOk(c) /\ c.vkey = app.vkey /\ c.mkey = app.mkey
  BY AppNow DEF Unbusy, Gone, AppOk, NoApp, NoMode
<1>3. "crossed" \notin slips => \A k \in D : ~Migrates(jobs[k])
  BY <1>1, OnlyMigrates DEF Migrates
<1>4. From(js, jobs, D, FALSE) /\ From(RemoveAt(jobs, i), jobs, D, FALSE)
  BY FromEnded, FromUnmounted
<1>5. OnDisk(disk) /\ DiskOk(disk)
  BY DEF VaultInv, DiskOk
<1>6. /\ DOMAIN d = DOMAIN disk /\ d.media = disk.media /\ d.saves = disk.saves /\ d.vault = disk.vault
      /\ d.mode = disk.mode /\ d.vkey = disk.vkey /\ d.mkey = 0 /\ d.last = disk.last
  BY <1>5 DEF OnDisk
<1> HIDE DEF a, b, c, d, js
<1>7. ASSUME Settles(c, disk, RemoveAt(jobs, i)) PROVE VaultInv'
  <2>1. c.mkey \in {0, disk.mkey} /\ (c.mkey = 0 /\ ~Slipped({"crash", "crossed"}) => Clean(disk))
    BY <1>2, AppNow, CleanNow
  <2>2. "crossed" \notin slips => \A k \in D : Migrates(jobs[k]) => c.mode.migrating
    BY <1>3
  <2> QED BY <1>1, <1>2, <1>4, <1>7, <2>1, <2>2, StillSelf, Keyed
<1>8. ASSUME jobs[i].bad = 0, Settles(b, d, js) PROVE VaultInv'
  <2>1. /\ From(jobs', jobs, D, FALSE) /\ disk' = d
        /\ AppOk(app)' /\ app'.vkey = b.vkey /\ app'.mkey = b.mkey /\ app'.mode = b.mode
    BY <1>2, <1>4, <1>8, SettlesFrom
  <2>2. "crossed" \notin slips => \A x \in Assets : ~disk.mode[x].row
    <3>1. \A k \in 1..Len(<<>>) : FALSE
      OBVIOUS
    <3> QED BY <1>1, <1>8, <3>1 DEF VaultInv, Alone, KnowsAlone
  <2>3. OnDisk(d) /\ DiskOk(d) /\ Grows(disk, d)
    BY <1>5, <1>6, GrowsSelf DEF OnDisk, DiskOk, Grows
  <2>4. JobsOk(jobs, disk)'
    BY <1>5, <2>1, <2>3, JobsKept DEF VaultInv
  <2>5. ("crossed" \notin slips => Alone(jobs, app, disk))'
    <3> SUFFICES ASSUME "crossed" \notin slips PROVE Alone(jobs', app', disk')
      BY <1>1
    <3>1. \A k \in DOMAIN jobs' : ~Migrates(jobs'[k])
      BY <1>3, <2>1, ShapeAll, AlikeKnows DEF From
    <3> QED BY <3>1 DEF Alone, KnowsAlone, Migrates
  <2>6. (~Slipped({"rekeyed", "partial", "crossed"}) => KeysKept(disk, app) /\ HomesKept(disk, jobs, erased))'
    <3> SUFFICES ASSUME ~Slipped({"rekeyed", "partial", "crossed"})
                 PROVE  KeysKept(disk', app') /\ HomesKept(disk', jobs', erased')
      BY <1>1 DEF Slipped
    <3>1. KeysKept(disk, app) /\ HomesKept(disk, jobs, erased) /\ "crossed" \notin slips
      BY DEF VaultInv, Slipped
    <3>2. KeysKept(disk', app')
      BY <1>2, <1>6, <2>1, <2>2, <3>1 DEF KeysKept
    <3>3. \A k \in DOMAIN jobs : Shape(jobs[k]) /\ (Moving(jobs[k]) => jobs[k].id \in VaultIds)
      BY DEF VaultInv, JobsOk, Knows
    <3>4. Fewer(jobs', jobs)
      BY <2>1, <3>3, FromFewer
    <3>5. HomesKept(d, jobs', erased)
      BY <1>6, <3>1, <3>3, <3>4, HomesSame
    <3> QED BY <1>1, <2>1, <3>2, <3>5
  <2>7. ((app.mkey = 0 /\ ~Slipped({"crash", "crossed"})) => Clean(disk))'
    <3> SUFFICES ASSUME ~Slipped({"crash", "crossed"}) PROVE Clean(d)
      BY <1>1, <2>1 DEF Slipped
    <3>1. \A x \in Assets : disk.mode[x] = NoCopy
      BY <1>5, <2>2 DEF DiskOk, Slipped
    <3> QED BY <1>6, <3>1 DEF Clean, NoCopy
  <2>8. app'.mkey \in {0, disk'.mkey}
    BY <1>2, <2>1
  <2> QED BY <1>1, <2>1, <2>3, <2>4, <2>5, <2>6, <2>7, <2>8, SlipsNow DEF VaultInv
<1> QED BY <1>1, <1>7, <1>8

(* -------------------------- one item of a promise ------------------------ *)

LEMMA TailOf ==
  ASSUME NEW s \in Seq(Assets), s # <<>>
  PROVE  /\ Tail(s) \in Seq(Assets) /\ Len(Tail(s)) = Len(s) - 1 /\ Len(s) \in Nat /\ Len(s) > 0
         /\ Head(s) = s[1] /\ Head(s) \in Assets
         /\ \A k \in 1..Len(Tail(s)) : k + 1 \in 2..Len(s) /\ k + 1 \in 1..Len(s) /\ Tail(s)[k] = s[k + 1]
         /\ Distinct(s) => Distinct(Tail(s)) /\ \A k \in 1..Len(Tail(s)) : Tail(s)[k] # Head(s)
         /\ \A k \in 1..Len(s) : s[k] = Head(s) \/ \E l \in 1..Len(Tail(s)) : Tail(s)[l] = s[k]
<1> DEFINE n == Len(s)
           t == Tail(s)
<1>1. n \in Nat /\ n > 0 /\ DOMAIN s = 1..n
  OBVIOUS
<1>2. t \in Seq(Assets) /\ Len(t) = n - 1 /\ DOMAIN t = 1..(n - 1) /\ \A k \in 1..(n - 1) : t[k] = s[k + 1]
  OBVIOUS
<1>3. Head(s) = s[1] /\ s[1] \in Assets
  OBVIOUS
<1> HIDE DEF n, t
<1>4. \A k \in 1..(n - 1) : k + 1 \in 2..n /\ k + 1 \in 1..n
  BY <1>1
<1>5. ASSUME Distinct(s) PROVE Distinct(t) /\ \A k \in 1..(n - 1) : t[k] # Head(s)
  <2>1. ASSUME NEW k \in DOMAIN t, NEW l \in DOMAIN t, t[k] = t[l] PROVE k = l
    <3>1. k + 1 \in DOMAIN s /\ l + 1 \in DOMAIN s /\ s[k + 1] = s[l + 1]
      BY <1>1, <1>2, <1>4, <2>1
    <3>2. k + 1 = l + 1
      BY <3>1, <1>5 DEF Distinct
    <3> QED BY <1>1, <1>2, <3>2
  <2>2. ASSUME NEW k \in 1..(n - 1), t[k] = Head(s) PROVE FALSE
    <3>1. k + 1 \in DOMAIN s /\ 1 \in DOMAIN s /\ s[k + 1] = s[1]
      BY <1>1, <1>2, <1>3, <1>4, <2>2
    <3>2. k + 1 = 1
      BY <3>1, <1>5 DEF Distinct
    <3> QED BY <3>2
  <2> QED BY <2>1, <2>2 DEF Distinct
<1>6. ASSUME NEW k \in 1..n PROVE s[k] = Head(s) \/ \E l \in 1..(n - 1) : t[l] = s[k]
  <2>1. CASE k = 1
    BY <2>1, <1>3
  <2>2. CASE k # 1
    <3>1. k - 1 \in 1..(n - 1) /\ (k - 1) + 1 = k
      BY <1>1, <2>2
    <3>2. t[k - 1] = s[k]
      BY <1>2, <3>1
    <3> QED BY <3>1, <3>2
  <2> QED BY <2>1, <2>2
<1> QED BY <1>1, <1>2, <1>3, <1>4, <1>5, <1>6 DEF n, t

(* A promise done with its item is at the next one. *)
LEMMA NextItem ==
  ASSUME NEW j, Shape(j), j.op \in Tasks
  PROVE  /\ DOMAIN Passed(j) = TaskFields /\ Passed(j).op = j.op /\ Passed(j).at = "item"
         /\ Passed(j).todo = Tail(j.todo) /\ Passed(j).bad = j.bad /\ Passed(j).key = j.key
         /\ DOMAIN FailedOne(j) = TaskFields /\ FailedOne(j).op = j.op /\ FailedOne(j).at = "item"
         /\ FailedOne(j).todo = Tail(j.todo) /\ FailedOne(j).bad = j.bad + 1 /\ FailedOne(j).key = j.key
         /\ j.bad \in Nat
<1>1. DOMAIN j = TaskFields /\ j.bad \in Nat
  BY DEF Shape
<1>2. PICK p : p = Passed(j)
  OBVIOUS
<1>3. p = [j EXCEPT !.todo = Tail(j.todo), !.at = "item"]
  BY <1>2 DEF Passed
<1>4. /\ DOMAIN p = TaskFields /\ p.op = j.op /\ p.at = "item"
      /\ p.todo = Tail(j.todo) /\ p.bad = j.bad /\ p.key = j.key
  BY <1>1, <1>3 DEF TaskFields
<1>5. FailedOne(j) = [p EXCEPT !.bad = p.bad + 1]
  BY <1>2 DEF FailedOne
<1>6. /\ DOMAIN FailedOne(j) = TaskFields /\ FailedOne(j).op = j.op /\ FailedOne(j).at = "item"
      /\ FailedOne(j).todo = Tail(j.todo) /\ FailedOne(j).bad = j.bad + 1 /\ FailedOne(j).key = j.key
  BY <1>4, <1>5 DEF TaskFields
<1> QED BY <1>1, <1>2, <1>4, <1>6

LEMMA FreshItem ==
  ASSUME NEW j, Shape(j), j.op \in {"import", "export", "vgrid", "previews"}
  PROVE  Fresh(Passed(j)) /\ ~Migrates(Passed(j)) /\ Fresh(FailedOne(j)) /\ ~Migrates(FailedOne(j))
<1>1. PICK p, q : p = Passed(j) /\ q = FailedOne(j)
  OBVIOUS
<1>2. /\ DOMAIN p = TaskFields /\ p.op = j.op /\ p.at = "item" /\ p.bad \in Nat
      /\ DOMAIN q = TaskFields /\ q.op = j.op /\ q.at = "item" /\ q.bad \in Nat
  BY <1>1, NextItem DEF Tasks
<1> QED BY <1>1, <1>2 DEF Fresh, Shape, Moving, Hiding, Migrates, TaskFields

LEMMA MigrationItem ==
  ASSUME NEW j, Shape(j), Migrates(j), j.op = "enable" => j.at # "setup", j.todo # <<>>
  PROVE  /\ Fresh(Passed(j)) /\ Fresh(FailedOne(j)) /\ j.todo \in Seq(Assets) /\ Head(j.todo) \in Assets
<1>1. PICK p, q : p = Passed(j) /\ q = FailedOne(j)
  OBVIOUS
<1>2. j.todo \in Seq(Assets) /\ j.op \in {"enable", "disable"}
  BY DEF Shape, Migrates
<1>3. Tail(j.todo) \in Seq(Assets) /\ Head(j.todo) \in Assets
  BY <1>2, TailOf
<1>4. /\ DOMAIN p = TaskFields /\ p.op = j.op /\ p.at = "item" /\ p.bad \in Nat /\ p.todo = Tail(j.todo)
      /\ DOMAIN q = TaskFields /\ q.op = j.op /\ q.at = "item" /\ q.bad \in Nat /\ q.todo = Tail(j.todo)
  BY <1>1, <1>2, NextItem DEF Tasks
<1> QED BY <1>1, <1>2, <1>3, <1>4 DEF Fresh, Shape, Moving, Hiding, Migrates, TaskFields

(* A promise that goes on while every photo stays at home. *)
LEMMA Goes ==
  ASSUME VaultInv, NEW i \in DOMAIN jobs, NEW j, Fresh(j), jobs' = [jobs EXCEPT ![i] = j], Still(disk, disk'),
         "crossed" \notin slips /\ Migrates(j) => Migrates(jobs[i]) /\ KnowsAlone(j, disk'),
         app' = app, slips' = slips, erased' = erased, app.mkey = 0 => disk'.mode = disk.mode
  PROVE  VaultInv'
<1>1. DiskOk(disk)' /\ Grows(disk, disk') /\ OnDisk(disk) /\ OnDisk(disk')
  BY DiskStill DEF VaultInv, DiskOk
<1>2. From(jobs', jobs, DOMAIN jobs \ {i}, TRUE)
  BY ShapeAll, FromBecomes
<1>3. JobsOk(jobs, disk)'
  BY <1>1, <1>2, JobsKept DEF VaultInv
<1>4. ("crossed" \notin slips => Alone(jobs, app, disk))'
  <2> SUFFICES ASSUME "crossed" \notin slips PROVE Alone(jobs', app', disk')
    OBVIOUS
  <2>1. Alone(jobs, app, disk) /\ JobsOk(jobs, disk)
    BY DEF VaultInv
  <2>2. CASE Migrates(j)
    <3>1. Migrates(jobs[i]) /\ KnowsAlone(j, disk')
      BY <2>2
    <3>2. Alone([jobs EXCEPT ![i] = j], app, disk')
      BY <2>1, <3>1, AloneTurn
    <3> QED BY <3>2 DEF Alone
  <2>3. CASE ~Migrates(j)
    <3>1. From(jobs', jobs, DOMAIN jobs \ {i}, FALSE)
      BY <2>3, ShapeAll, FromBecomes
    <3>2. \A k \in DOMAIN jobs \ {i} : Migrates(jobs[k]) => app'.mode.migrating
      BY <2>1 DEF Alone
    <3>3. disk'.mkey = disk.mkey /\ \A x \in Assets : disk'.mode[x].row = disk.mode[x].row
      BY DEF Still
    <3> QED BY <2>1, <3>1, <3>2, <3>3, AloneKept
  <2> QED BY <2>2, <2>3
<1>5. (~Slipped({"rekeyed", "partial", "crossed"}) => KeysKept(disk, app) /\ HomesKept(disk, jobs, erased))'
  <2> SUFFICES ASSUME ~Slipped({"rekeyed", "partial", "crossed"})
               PROVE  KeysKept(disk', app) /\ HomesKept(disk', jobs', erased)
    BY DEF Slipped
  <2>1. KeysKept(disk, app) /\ HomesKept(disk, jobs, erased)
    BY DEF VaultInv
  <2>2. KeysKept(disk', app)
    BY <2>1 DEF KeysKept, Still
  <2>3. \A k \in DOMAIN jobs : Shape(jobs[k]) /\ (Moving(jobs[k]) => jobs[k].id \in VaultIds)
    BY DEF VaultInv, JobsOk, Knows
  <2>4. Fewer(jobs', jobs)
    BY <1>2, <2>3, FromFewer
  <2>5. \A v \in VaultIds : disk'.vault[v].row = disk.vault[v].row /\ disk'.vault[v].of = disk.vault[v].of
    BY DEF Still
  <2>6. disk'.media = disk.media /\ \A x \in Assets : disk'.mode[x].row = disk.mode[x].row
    BY DEF Still
  <2>7. HomesKept(disk', jobs', erased)
    BY <2>1, <2>3, <2>4, <2>5, <2>6, HomesSame
  <2> QED BY <2>2, <2>7
<1>6. app'.mkey \in {0, disk'.mkey} /\ AppOk(app)' /\ slips' \subseteq {"rekeyed", "partial", "crossed", "crash"}
  BY AppNow, SlipsNow DEF Still
<1>7. ((app.mkey = 0 /\ ~Slipped({"crash", "crossed"})) => Clean(disk))'
  BY CleanNow DEF Clean, Slipped
<1> QED BY <1>1, <1>3, <1>4, <1>5, <1>6, <1>7 DEF VaultInv

(* A promise that ends without a screen. *)
LEMMA EndsSafe ==
  ASSUME VaultInv, NEW i \in DOMAIN jobs, Ends(i), Still(disk, disk'), disk'.mode = disk.mode,
         app' = app, slips' = slips, erased' = erased
  PROVE  VaultInv'
<1>1. From(jobs', jobs, DOMAIN jobs \ {i}, FALSE)
  BY FromEnded DEF Ends
<1>2. "crossed" \notin slips => \A k \in DOMAIN jobs \ {i} : Migrates(jobs[k]) => app'.mode.migrating
  BY <1>1, RunsNow
<1>3. ((app.mkey = 0 /\ ~Slipped({"crash", "crossed"})) => Clean(disk))'
  BY CleanNow DEF Clean, Slipped
<1>4. AppOk(app)' /\ app'.mkey \in {0, disk.mkey}
  BY AppNow
<1> QED BY <1>1, <1>2, <1>3, <1>4, SlipsNow, Quiet

LEMMA KeyReadSafe == ASSUME VaultInv, NEW i \in DOMAIN jobs, KeyRead(i) PROVE VaultInv'
<1>1. disk' = disk /\ slips' = slips /\ erased' = erased
  BY DEF KeyRead
<1>2. CASE app' = [app EXCEPT !.vkey = disk.vkey] /\ jobs' = jobs
  <2>1. disk.vkey \in Nat
    BY DEF VaultInv, DiskOk, OnDisk
  <2>2. AppOk(app)' /\ app'.vkey = disk.vkey /\ app'.mkey = app.mkey /\ app'.mode = app.mode
    BY <1>2, <2>1, AppNow DEF AppOk, NoApp
  <2>3. From(jobs', jobs, DOMAIN jobs, FALSE)
    BY <1>2, FromNow
  <2>4. "crossed" \notin slips => \A k \in DOMAIN jobs : Migrates(jobs[k]) => app'.mode.migrating
    BY <2>2, <2>3, RunsNow
  <2>5. ((app.mkey = 0 /\ ~Slipped({"crash", "crossed"})) => Clean(disk))'
    BY <1>1, <2>2, CleanNow DEF Clean, Slipped
  <2>6. app'.mkey \in {0, disk.mkey} /\ Still(disk, disk')
    BY <1>1, <2>2, AppNow, StillSelf
  <2> QED BY <1>1, <2>2, <2>3, <2>4, <2>5, <2>6, SlipsNow, Quiet
<1>3. CASE jobs' = [jobs EXCEPT ![i] = [jobs[i] EXCEPT !.at = "mint"]] /\ app' = app
  <2>1. PICK j : j = [jobs[i] EXCEPT !.at = "mint"]
    OBVIOUS
  <2>2. jobs[i].op \in VaultOps /\ Shape(jobs[i])
    BY ShapeAll DEF KeyRead, NeedsKey, Doing, At
  <2>3. Fresh(j) /\ ~Migrates(j)
    BY <2>1, <2>2 DEF Fresh, Shape, Moving, Hiding, Migrates, VaultOps, Tasks, TaskFields
  <2>4. Still(disk, disk')
    BY <1>1, StillSelf
  <2> QED BY <1>1, <1>3, <2>1, <2>3, <2>4, Goes
<1> QED BY <1>2, <1>3 DEF KeyRead, Becomes

LEMMA KeyMintedSafe == ASSUME VaultInv, NEW i \in DOMAIN jobs, KeyMinted(i) PROVE VaultInv'
<1>1. /\ jobs[i].op \in VaultOps /\ jobs[i].at = "mint" /\ erased' = erased
      /\ disk' = [disk EXCEPT !.vkey = disk.vkey + 1]
      /\ app' = [app EXCEPT !.vkey = disk.vkey + 1]
      /\ slips' = (IF disk.vkey # 0 THEN slips \cup {"rekeyed"} ELSE slips)
      /\ jobs' = [jobs EXCEPT ![i] = [jobs[i] EXCEPT !.at = "item"]]
  BY DEF KeyMinted, Becomes
<1>2. OnDisk(disk) /\ DiskOk(disk) /\ disk.vkey \in Nat
  BY DEF VaultInv, DiskOk, OnDisk
<1>3. /\ DOMAIN disk' = DOMAIN disk /\ disk'.media = disk.media /\ disk'.saves = disk.saves /\ disk'.vault = disk.vault
      /\ disk'.mode = disk.mode /\ disk'.vkey = disk.vkey + 1 /\ disk'.mkey = disk.mkey /\ disk'.last = disk.last
  BY <1>1, <1>2 DEF OnDisk
<1>4. DiskOk(disk)' /\ Grows(disk, disk')
  BY <1>2, <1>3, GrowsSelf DEF OnDisk, DiskOk, Grows
<1>5. AppOk(app)' /\ app'.vkey = disk.vkey + 1 /\ app'.mkey = app.mkey /\ app'.mode = app.mode
  BY <1>1, <1>2, AppNow DEF AppOk, NoApp
<1>6. PICK j : j = [jobs[i] EXCEPT !.at = "item"]
  OBVIOUS
<1>7. Shape(jobs[i])
  BY ShapeAll
<1>8. Fresh(j) /\ ~Migrates(j)
  BY <1>1, <1>6, <1>7 DEF Fresh, Shape, Moving, Hiding, Migrates, VaultOps, Tasks, TaskFields
<1>9. From(jobs', jobs, DOMAIN jobs \ {i}, FALSE)
  BY <1>1, <1>6, <1>8, ShapeAll, FromBecomes
<1>10. "crossed" \notin slips => \A k \in DOMAIN jobs \ {i} : Migrates(jobs[k]) => app'.mode.migrating
  BY <1>5, <1>9, RunsNow
<1>11. ((app.mkey = 0 /\ ~Slipped({"crash", "crossed"})) => Clean(disk))'
  BY <1>1, <1>3, <1>5, CleanNow DEF Clean, Slipped
<1>12. slips \subseteq slips' /\ slips' \subseteq {"rekeyed", "partial", "crossed", "crash"}
  BY <1>1, SlipsNow
<1>13. (~Slipped({"rekeyed", "partial", "crossed"}) => KeysKept(disk, app) /\ HomesKept(disk, jobs, erased))'
  <2> SUFFICES ASSUME ~Slipped({"rekeyed", "partial", "crossed"})'
               PROVE  KeysKept(disk', app') /\ HomesKept(disk', jobs', erased')
    OBVIOUS
  <2>1. KeysKept(disk, app) /\ HomesKept(disk, jobs, erased) /\ disk.vkey = 0
    BY <1>1, <1>12 DEF VaultInv, Slipped
  <2>2. \A v \in VaultIds : ~disk.vault[v].row
    BY <1>2, <2>1 DEF KeysKept, DiskOk
  <2>3. KeysKept(disk', app')
    BY <1>3, <1>5, <2>1, <2>2 DEF KeysKept
  <2>4. \A k \in DOMAIN jobs : Shape(jobs[k]) /\ (Moving(jobs[k]) => jobs[k].id \in VaultIds)
    BY DEF VaultInv, JobsOk, Knows
  <2>5. Fewer(jobs', jobs)
    BY <1>9, <2>4, FromFewer
  <2>6. HomesKept(disk', jobs', erased)
    BY <1>3, <2>1, <2>4, <2>5, HomesSame
  <2> QED BY <1>1, <2>3, <2>6
<1>14. app'.mkey \in {0, disk.mkey}
  BY <1>5, AppNow
<1> QED BY <1>3, <1>4, <1>5, <1>9, <1>10, <1>11, <1>12, <1>13, <1>14, VaultMoves

(* A vault entry is decrypted, or its decryption cut short. *)
LEMMA VaultOpened ==
  ASSUME VaultInv, NEW v \in Rows, NEW k
  PROVE  /\ LET d == [disk EXCEPT !.vault[v] = Opened(@, k)] IN Still(disk, d) /\ d.mode = disk.mode
         /\ LET d == [disk EXCEPT !.vault[v].plain = "partial"] IN Still(disk, d) /\ d.mode = disk.mode
         /\ v \in VaultIds
<1>1. PICK e \in EntrySet : e = disk.vault[v]
  BY DEF VaultInv, DiskOk, OnDisk, Rows
<1>2. v \in VaultIds /\ disk.vault[v].row
  BY DEF Rows
<1>3. PICK o, c : o = Opened(e, k) /\ c = [e EXCEPT !.plain = "partial"]
  OBVIOUS
<1>4. o \in EntrySet /\ o.row = e.row /\ o.of = e.of /\ o.file = e.file /\ o.key = e.key
  BY <1>3, OpenedIs
<1>5. c \in EntrySet /\ c.row = e.row /\ c.of = e.of /\ c.file = e.file /\ c.key = e.key
  BY <1>3 DEF EntrySet
<1>6. PICK d, f : d = [disk EXCEPT !.vault[v] = o] /\ f = [disk EXCEPT !.vault[v] = c]
  OBVIOUS
<1>7. d = [disk EXCEPT !.vault[v] = Opened(@, k)] /\ f = [disk EXCEPT !.vault[v].plain = "partial"]
  BY <1>1, <1>3, <1>6
<1>8. Still(disk, d) /\ d.mode = disk.mode /\ Still(disk, f) /\ f.mode = disk.mode
  BY <1>1, <1>2, <1>4, <1>5, <1>6, StillVault
<1> QED BY <1>2, <1>7, <1>8

LEMMA ItemsSafe ==
  ASSUME VaultInv, NEW i \in DOMAIN jobs,
         \/ ImportFailed(i) \/ ExportUnsaved(i) \/ VaultCut(i) \/ GridItem(i)
  PROVE  VaultInv'
<1> DEFINE v == Item(i)
           p == Passed(jobs[i])
           q == FailedOne(jobs[i])
<1>1. /\ app' = app /\ slips' = slips /\ erased' = erased
      /\ jobs' = [jobs EXCEPT ![i] = p] \/ jobs' = [jobs EXCEPT ![i] = q]
  BY DEF ImportFailed, ExportUnsaved, VaultCut, GridItem, Becomes, vaultVars
<1>2. Shape(jobs[i]) /\ jobs[i].op \in {"import", "export", "vgrid", "play"}
  BY ShapeAll DEF ImportFailed, ExportUnsaved, VaultCut, GridItem, Doing, Step, At
<1>3. Still(disk, disk') /\ disk'.mode = disk.mode
  <2>1. CASE disk' = disk
    BY <2>1, StillSelf
  <2>2. ASSUME v \in Rows, disk' = [disk EXCEPT !.vault[v] = Opened(@, app.vkey)]
        PROVE  Still(disk, disk') /\ disk'.mode = disk.mode
    BY <2>2, VaultOpened
  <2>3. ASSUME v \in Rows, disk' = [disk EXCEPT !.vault[v].plain = "partial"] PROVE Still(disk, disk') /\ disk'.mode = disk.mode
    BY <2>3, VaultOpened
  <2> QED BY <2>1, <2>2, <2>3 DEF ImportFailed, ExportUnsaved, VaultCut, GridItem, vaultVars
<1>4. Fresh(p) /\ ~Migrates(p) /\ Fresh(q) /\ ~Migrates(q)
  <2>1. PICK a, b : a = p /\ b = q
    OBVIOUS
  <2>2. /\ DOMAIN a = TaskFields /\ a.op = jobs[i].op /\ a.at = "item" /\ a.bad \in Nat
        /\ DOMAIN b = TaskFields /\ b.op = jobs[i].op /\ b.at = "item" /\ b.bad \in Nat
    BY <1>2, <2>1, NextItem DEF Tasks
  <2> QED BY <1>2, <2>1, <2>2 DEF Fresh, Shape, Moving, Hiding, Migrates, TaskFields
<1> HIDE DEF p, q
<1> QED BY <1>1, <1>3, <1>4, Goes

LEMMA ExportOpenedSafe == ASSUME VaultInv, NEW i \in DOMAIN jobs, ExportOpened(i) PROVE VaultInv'
<1> DEFINE v == Item(i)
           s == [jobs[i] EXCEPT !.at = "saving"]
           q == FailedOne(jobs[i])
<1>1. /\ app' = app /\ slips' = slips /\ erased' = erased /\ jobs[i].op = "export"
      /\ \/ v \in Rows /\ jobs' = [jobs EXCEPT ![i] = s]
         \/ jobs' = [jobs EXCEPT ![i] = q]
      /\ \/ disk' = disk
         \/ v \in Rows /\ disk' = [disk EXCEPT !.vault[v] = Opened(@, app.vkey)]
  BY DEF ExportOpened, Becomes, Doing, At
<1>2. Shape(jobs[i])
  BY ShapeAll
<1>3. Still(disk, disk') /\ disk'.mode = disk.mode
  <2>1. CASE disk' = disk
    BY <2>1, StillSelf
  <2>2. ASSUME v \in Rows, disk' = [disk EXCEPT !.vault[v] = Opened(@, app.vkey)]
        PROVE  Still(disk, disk') /\ disk'.mode = disk.mode
    BY <2>2, VaultOpened
  <2> QED BY <1>1, <2>1, <2>2
<1>4. Fresh(q) /\ ~Migrates(q)
  BY <1>1, <1>2, FreshItem
<1>5. v \in Rows => Fresh(s) /\ ~Migrates(s)
  <2>1. v \in Rows => v \in VaultIds
    BY DEF Rows
  <2>2. DOMAIN jobs[i] = TaskFields /\ jobs[i].bad \in Nat
    BY <1>1, <1>2 DEF Shape, Tasks
  <2>3. DOMAIN s = TaskFields /\ s.op = "export" /\ s.at = "saving" /\ s.bad = jobs[i].bad /\ s.todo = jobs[i].todo
    BY <1>1, <2>2 DEF TaskFields
  <2> HIDE DEF s
  <2> QED BY <2>1, <2>2, <2>3 DEF Fresh, Shape, Moving, Hiding, Migrates, First, Item, TaskFields
<1> HIDE DEF q, s
<1> QED BY <1>1, <1>3, <1>4, <1>5, Goes

LEMMA PlaySafe == ASSUME VaultInv, NEW i \in DOMAIN jobs, Played(i) \/ PlayFailed(i) PROVE VaultInv'
<1> DEFINE v == Item(i)
<1>1. /\ app' = app /\ slips' = slips /\ erased' = erased /\ Ends(i)
      /\ \/ disk' = disk
         \/ v \in Rows /\ disk' = [disk EXCEPT !.vault[v] = Opened(@, app.vkey)]
  BY DEF Played, PlayFailed, vaultVars
<1>2. Still(disk, disk') /\ disk'.mode = disk.mode
  <2>1. CASE disk' = disk
    BY <2>1, StillSelf
  <2>2. ASSUME v \in Rows, disk' = [disk EXCEPT !.vault[v] = Opened(@, app.vkey)]
        PROVE  Still(disk, disk') /\ disk'.mode = disk.mode
    BY <2>2, VaultOpened
  <2> QED BY <1>1, <2>1, <2>2
<1> QED BY <1>1, <1>2, EndsSafe

(* ----------------------------- the migrations ---------------------------- *)

(* A migration that skips its item still knows the rest. *)
LEMMA SkipKnows ==
  ASSUME NEW j, NEW d, Shape(j), Migrates(j), j.op = "enable" => j.at \in {"item", "thumb"}, j.todo # <<>>, KnowsAlone(j, d)
  PROVE  KnowsAlone(FailedOne(j), d) /\ (j.op = "enable" => KnowsAlone(Passed(j), d))
<1>1. PICK p, q : p = Passed(j) /\ q = FailedOne(j)
  OBVIOUS
<1>2. j.op \in {"enable", "disable"}
  BY DEF Migrates
<1>3. /\ p.op = j.op /\ p.at = "item" /\ p.todo = Tail(j.todo) /\ p.bad = j.bad
      /\ q.op = j.op /\ q.at = "item" /\ q.todo = Tail(j.todo) /\ q.bad = j.bad + 1 /\ j.bad \in Nat
  BY <1>1, <1>2, NextItem DEF Tasks
<1>4. CASE j.op = "enable"
  <2>1. j.todo \in Seq(Assets) /\ Distinct(j.todo) /\ \A k \in 1..Len(j.todo) : ~d.mode[j.todo[k]].row
    BY <1>4 DEF Shape, KnowsAlone
  <2>2. Distinct(Tail(j.todo)) /\ \A k \in 1..Len(Tail(j.todo)) : ~d.mode[Tail(j.todo)[k]].row
    BY <2>1, TailOf
  <2> QED BY <1>1, <1>3, <1>4, <2>2 DEF KnowsAlone
<1>5. CASE j.op = "disable"
  <2>1. q.bad # 0
    BY <1>3
  <2> QED BY <1>1, <1>3, <1>5, <2>1 DEF KnowsAlone
<1> QED BY <1>2, <1>4, <1>5

LEMMA EncryptSafe == ASSUME VaultInv, NEW i \in DOMAIN jobs, EncryptTaken(i) \/ EncryptFailed(i) PROVE VaultInv'
<1> DEFINE t == [jobs[i] EXCEPT !.at = "thumb", !.key = app.mkey]
           q == FailedOne(jobs[i])
<1>1. /\ app' = app /\ slips' = slips /\ erased' = erased /\ disk' = disk
      /\ jobs[i].op = "enable" /\ jobs[i].at \in {"item", "thumb"}
      /\ \/ jobs' = [jobs EXCEPT ![i] = q]
         \/ app.mkey # 0 /\ jobs[i].at = "item" /\ jobs' = [jobs EXCEPT ![i] = t]
  BY DEF EncryptTaken, EncryptFailed, Becomes, Doing, Step, At, vaultVars
<1>2. jobs[i].todo # <<>> /\ Shape(jobs[i])
  BY ShapeAll DEF EncryptTaken, EncryptFailed, Doing, Step, At, Shape
<1>3. Migrates(jobs[i])
  BY <1>1 DEF Migrates
<1>4. Still(disk, disk')
  BY <1>1, StillSelf
<1>5. "crossed" \notin slips => KnowsAlone(jobs[i], disk)
  BY DEF VaultInv, Alone
<1>6. Fresh(q)
  BY <1>1, <1>2, <1>3, MigrationItem
<1>7. "crossed" \notin slips => KnowsAlone(q, disk')
  BY <1>1, <1>2, <1>3, <1>5, SkipKnows
<1>8. DOMAIN jobs[i] = TaskFields /\ jobs[i].bad \in Nat /\ jobs[i].todo \in Seq(Assets)
  BY <1>1, <1>2 DEF Shape, Tasks
<1>9. /\ DOMAIN t = TaskFields /\ t.op = "enable" /\ t.at = "thumb" /\ t.bad = jobs[i].bad
      /\ t.todo = jobs[i].todo /\ t.key = app.mkey
  BY <1>1, <1>8 DEF TaskFields
<1> HIDE DEF q, t
<1>10. app.mkey # 0 => Fresh(t)
  <2>1. app.mkey \in Nat
    BY AppNow DEF AppOk
  <2> QED BY <1>2, <1>8, <1>9, <2>1 DEF Fresh, Shape, Moving, Hiding, TaskFields
<1>11. "crossed" \notin slips /\ app.mkey # 0 /\ jobs[i].at = "item" => KnowsAlone(t, disk')
  <2> SUFFICES ASSUME "crossed" \notin slips, app.mkey # 0, jobs[i].at = "item" PROVE KnowsAlone(t, disk)
    BY <1>1
  <2>1. app.mkey = disk.mkey
    BY AppNow
  <2>2. Distinct(jobs[i].todo) /\ \A k \in 1..Len(jobs[i].todo) : ~disk.mode[jobs[i].todo[k]].row
    BY <1>1, <1>5 DEF KnowsAlone
  <2> QED BY <1>9, <2>1, <2>2 DEF KnowsAlone
<1> QED BY <1>1, <1>3, <1>4, <1>6, <1>7, <1>10, <1>11, Goes

LEMMA RestoreSafe ==
  ASSUME VaultInv, NEW i \in DOMAIN jobs, RestoreOpened(i) \/ RestoreCut(i) \/ RestoreUnsaved(i) PROVE VaultInv'
<1> DEFINE x == Item(i)
           s == [jobs[i] EXCEPT !.at = "saving"]
           q == FailedOne(jobs[i])
<1>1. /\ app' = app /\ slips' = slips /\ erased' = erased
      /\ jobs[i].op = "disable" /\ jobs[i].at \in {"item", "saving"}
      /\ jobs' = [jobs EXCEPT ![i] = q] \/ jobs' = [jobs EXCEPT ![i] = s]
      /\ \/ disk' = disk
         \/ app.mkey # 0 /\ disk' = [disk EXCEPT !.mode[x] = Opened(@, app.mkey)]
         \/ app.mkey # 0 /\ disk.mode[x].file # "none" /\ disk' = [disk EXCEPT !.mode[x].plain = "partial"]
  BY DEF RestoreOpened, RestoreCut, RestoreUnsaved, Becomes, Doing, Step, At, vaultVars
<1>2. jobs[i].todo # <<>> /\ Shape(jobs[i])
  BY ShapeAll DEF RestoreOpened, RestoreCut, RestoreUnsaved, Doing, Step, At, Shape
<1>3. Migrates(jobs[i])
  BY <1>1 DEF Migrates
<1>4. Still(disk, disk') /\ (app.mkey = 0 => disk'.mode = disk.mode)
  <2>1. CASE disk' = disk
    BY <2>1, StillSelf
  <2>2. ASSUME app.mkey # 0, disk' = [disk EXCEPT !.mode[x] = Opened(@, app.mkey)] PROVE Still(disk, disk')
    BY <2>2, CopyOpened
  <2>3. ASSUME app.mkey # 0, disk.mode[x].file # "none", disk' = [disk EXCEPT !.mode[x].plain = "partial"]
        PROVE  Still(disk, disk')
    <3>1. PICK e : e = [disk.mode[x] EXCEPT !.plain = "partial"]
      OBVIOUS
    <3>2. ASSUME x \in Assets
          PROVE  /\ e \in CopySet /\ (disk.mode[x].row \/ e = disk.mode[x])
                 /\ e.row = disk.mode[x].row /\ e.file = disk.mode[x].file /\ e.key = disk.mode[x].key
      <4>1. PICK c \in CopySet : c = disk.mode[x]
        BY <3>2 DEF VaultInv, DiskOk, OnDisk
      <4>2. disk.mode[x].row
        BY <2>3, <3>2 DEF VaultInv, DiskOk, NoCopy
      <4> QED BY <3>1, <4>1, <4>2 DEF CopySet
    <3>3. disk' = [disk EXCEPT !.mode[x] = e]
      BY <2>3, <3>1
    <3> QED BY <3>2, <3>3, StillCopy
  <2> QED BY <1>1, <2>1, <2>2, <2>3
<1>5. "crossed" \notin slips => KnowsAlone(jobs[i], disk)
  BY DEF VaultInv, Alone
<1>6. "crossed" \notin slips => KnowsAlone(jobs[i], disk')
  <2>1. \A y \in Assets : disk'.mode[y].row = disk.mode[y].row
    BY <1>4 DEF Still
  <2> QED BY <1>1, <1>5, <2>1 DEF KnowsAlone
<1>7. Fresh(q)
  BY <1>1, <1>2, <1>3, MigrationItem
<1>8. "crossed" \notin slips => KnowsAlone(q, disk')
  BY <1>1, <1>2, <1>3, <1>6, SkipKnows
<1>9. DOMAIN jobs[i] = TaskFields /\ jobs[i].bad \in Nat /\ jobs[i].todo \in Seq(Assets)
  BY <1>1, <1>2 DEF Shape, Tasks
<1>10. /\ DOMAIN s = TaskFields /\ s.op = "disable" /\ s.at = "saving" /\ s.bad = jobs[i].bad
       /\ s.todo = jobs[i].todo
  BY <1>1, <1>9 DEF TaskFields
<1> HIDE DEF q, s
<1>11. Fresh(s)
  BY <1>2, <1>9, <1>10 DEF Fresh, Shape, Moving, Hiding, TaskFields
<1>12. "crossed" \notin slips => KnowsAlone(s, disk')
  BY <1>1, <1>6, <1>10 DEF KnowsAlone
<1> QED BY <1>1, <1>3, <1>4, <1>7, <1>8, <1>11, <1>12, Goes

LEMMA PreviewSafe == ASSUME VaultInv, NEW i \in DOMAIN jobs, PreviewItem(i) PROVE VaultInv'
<1> DEFINE x == Item(i)
           p == Passed(jobs[i])
<1>1. /\ app' = app /\ slips' = slips /\ erased' = erased /\ jobs[i].op = "previews"
      /\ jobs' = [jobs EXCEPT ![i] = p]
      /\ \/ disk' = disk
         \/ disk.mode[x].thumb /\ app.mkey = disk.mode[x].key /\ disk' = [disk EXCEPT !.mode[x].small = TRUE]
  BY DEF PreviewItem, Becomes, Doing, At
<1>2. Fresh(p) /\ ~Migrates(p)
  BY <1>1, ShapeAll, FreshItem
<1>3. Still(disk, disk') /\ (app.mkey = 0 => disk'.mode = disk.mode)
  <2>1. CASE disk' = disk
    BY <2>1, StillSelf
  <2>2. ASSUME disk.mode[x].thumb, app.mkey = disk.mode[x].key, disk' = [disk EXCEPT !.mode[x].small = TRUE]
        PROVE  Still(disk, disk') /\ (app.mkey = 0 => disk'.mode = disk.mode)
    <3>1. PICK e : e = [disk.mode[x] EXCEPT !.small = TRUE]
      OBVIOUS
    <3>2. x \in Assets => disk.mode[x].row
      BY <2>2 DEF VaultInv, DiskOk, NoCopy
    <3>3. ASSUME x \in Assets
          PROVE  /\ e \in CopySet /\ (disk.mode[x].row \/ e = disk.mode[x])
                 /\ e.row = disk.mode[x].row /\ e.file = disk.mode[x].file /\ e.key = disk.mode[x].key
      <4>1. PICK c \in CopySet : c = disk.mode[x]
        BY <3>3 DEF VaultInv, DiskOk, OnDisk
      <4> QED BY <3>1, <3>2, <3>3, <4>1 DEF CopySet
    <3>4. disk' = [disk EXCEPT !.mode[x] = e]
      BY <2>2, <3>1
    <3>5. Still(disk, disk')
      BY <3>3, <3>4, StillCopy
    <3>6. x \in Assets => app.mkey # 0
      BY <2>2, <3>2 DEF VaultInv, DiskOk
    <3>7. x \notin Assets => disk'.mode = disk.mode
      <4>1. OnDisk(disk)
        BY DEF VaultInv, DiskOk
      <4>2. disk'.mode = [disk.mode EXCEPT ![x] = e] /\ disk.mode \in [Assets -> CopySet]
        BY <3>4, <4>1 DEF OnDisk
      <4> QED BY <4>2
    <3> QED BY <3>5, <3>6, <3>7
  <2> QED BY <1>1, <2>1, <2>2
<1> HIDE DEF p
<1> QED BY <1>1, <1>2, <1>3, Goes

LEMMA SetUpSafe == ASSUME VaultInv, NEW i \in DOMAIN jobs, SetUp(i) PROVE VaultInv'
<1> DEFINE n == disk.last + 1
           s == SetToSeq(disk.media \ (Films \cup Copies))
           j == [jobs[i] EXCEPT !.at = "item", !.todo = s]
<1>1. /\ jobs[i].op = "enable" /\ jobs[i].at = "setup" /\ erased' = erased
      /\ disk' = [disk EXCEPT !.mkey = n, !.last = n]
      /\ app' = [app EXCEPT !.mkey = n]
      /\ slips' = (IF Copies # {} THEN slips \cup {"rekeyed"} ELSE slips)
      /\ jobs' = [jobs EXCEPT ![i] = j]
  BY DEF SetUp, Becomes, Step, At
<1>2. OnDisk(disk) /\ DiskOk(disk) /\ n \in Nat \ {0}
  BY DEF VaultInv, DiskOk, OnDisk
<1> HIDE DEF n
<1>3. /\ DOMAIN disk' = DOMAIN disk /\ disk'.media = disk.media /\ disk'.saves = disk.saves /\ disk'.vault = disk.vault
      /\ disk'.mode = disk.mode /\ disk'.vkey = disk.vkey /\ disk'.mkey = n /\ disk'.last = n
  BY <1>1, <1>2 DEF OnDisk
<1>4. DiskOk(disk)' /\ Grows(disk, disk') /\ OnDisk(disk')
  BY <1>2, <1>3, GrowsSelf DEF OnDisk, DiskOk, Grows
<1>5. AppOk(app)' /\ app'.vkey = app.vkey /\ app'.mkey = n /\ app'.mode = app.mode
  BY <1>1, <1>2, AppNow DEF AppOk, NoApp
<1>6. Shape(jobs[i]) /\ Migrates(jobs[i]) /\ DOMAIN jobs[i] = TaskFields /\ jobs[i].bad \in Nat
  BY <1>1, ShapeAll DEF Shape, Migrates, Tasks
<1>7. PICK M \in SUBSET Assets : M = disk.media \ (Films \cup Copies)
  BY <1>2 DEF OnDisk
<1>8. s \in Seq(Assets) /\ Distinct(s) /\ \A k \in 1..Len(s) : s[k] \in M
  BY <1>7, SetListed
<1>9. \A x \in M : x \in Assets /\ ~disk.mode[x].row
  BY <1>7 DEF Copies
<1> HIDE DEF s
<1>10. /\ DOMAIN j = TaskFields /\ j.op = "enable" /\ j.at = "item" /\ j.bad = jobs[i].bad /\ j.todo = s
  BY <1>1, <1>6 DEF TaskFields
<1> HIDE DEF j
<1>11. Fresh(j)
  BY <1>6, <1>8, <1>10 DEF Fresh, Shape, Moving, Hiding, TaskFields
<1>12. KnowsAlone(j, disk')
  BY <1>3, <1>8, <1>9, <1>10 DEF KnowsAlone
<1>13. From(jobs', jobs, DOMAIN jobs \ {i}, TRUE)
  BY <1>1, <1>11, ShapeAll, FromBecomes
<1>14. JobsOk(jobs, disk)'
  BY <1>2, <1>4, <1>13, JobsKept DEF VaultInv
<1>15. ("crossed" \notin slips => Alone(jobs, app, disk))'
  <2> SUFFICES ASSUME "crossed" \notin slips' PROVE Alone(jobs', app', disk')
    OBVIOUS
  <2>1. Alone(jobs, app, disk)
    BY <1>1 DEF VaultInv
  <2>2. Alone([jobs EXCEPT ![i] = j], app', disk')
    BY <1>5, <1>6, <1>12, <2>1, AloneTurn
  <2> QED BY <1>1, <2>2
<1>16. (~Slipped({"rekeyed", "partial", "crossed"}) => KeysKept(disk, app) /\ HomesKept(disk, jobs, erased))'
  <2> SUFFICES ASSUME ~Slipped({"rekeyed", "partial", "crossed"})'
               PROVE  KeysKept(disk', app') /\ HomesKept(disk', jobs', erased')
    OBVIOUS
  <2>1. KeysKept(disk, app) /\ HomesKept(disk, jobs, erased) /\ Copies = {}
    BY <1>1 DEF VaultInv, Slipped
  <2>2. KeysKept(disk', app')
    BY <1>3, <1>5, <2>1 DEF KeysKept, Copies
  <2>3. \A k \in DOMAIN jobs : Shape(jobs[k]) /\ (Moving(jobs[k]) => jobs[k].id \in VaultIds)
    BY DEF VaultInv, JobsOk, Knows
  <2>4. Fewer(jobs', jobs)
    BY <1>13, <2>3, FromFewer
  <2>5. HomesKept(disk', jobs', erased)
    BY <1>3, <2>1, <2>3, <2>4, HomesSame
  <2> QED BY <1>1, <2>2, <2>5
<1>17. app'.mkey # 0 /\ app'.mkey = disk'.mkey /\ slips' \subseteq {"rekeyed", "partial", "crossed", "crash"}
  BY <1>1, <1>2, <1>3, <1>5, SlipsNow
<1> QED BY <1>4, <1>5, <1>14, <1>15, <1>16, <1>17 DEF VaultInv

(* --------------------------- photos change homes ------------------------- *)

(* One promise goes on, with all it owes. *)
LEMMA Turns ==
  ASSUME VaultInv, NEW i \in DOMAIN jobs, NEW j, Knows(j, disk'), jobs' = [jobs EXCEPT ![i] = j],
         Moving(j) => \A k \in DOMAIN jobs : k # i /\ Moving(jobs[k]) => jobs[k].id # j.id,
         DiskOk(disk)', Grows(disk, disk'), disk'.mkey = disk.mkey,
         IF Migrates(j) THEN Migrates(jobs[i]) /\ ("crossed" \notin slips => KnowsAlone(j, disk'))
         ELSE disk'.mode = disk.mode,
         app' = app, slips \subseteq slips', slips' \subseteq {"rekeyed", "partial", "crossed", "crash"},
         (~Slipped({"rekeyed", "partial", "crossed"}) => KeysKept(disk, app) /\ HomesKept(disk, jobs, erased))',
         Clean(disk) => Clean(disk')
  PROVE  VaultInv'
<1>1. OnDisk(disk) /\ OnDisk(disk')
  BY DEF VaultInv, DiskOk
<1>2. jobs \in Seq(ToSet(jobs)) /\ \A k \in DOMAIN jobs : Knows(jobs[k], disk)
  BY DEF VaultInv, JobsOk
<1>3. jobs' \in Seq(ToSet(jobs) \cup {j}) /\ DOMAIN jobs' = DOMAIN jobs
  BY <1>2
<1>4. jobs' \in Seq(ToSet(jobs'))
  BY <1>3, OwnSeq
<1>5. jobs'[i] = j /\ \A k \in DOMAIN jobs : k # i => jobs'[k] = jobs[k]
  BY <1>2
<1>6. \A k \in DOMAIN jobs : Knows(jobs[k], disk')
  BY <1>1, <1>2, KnowsGrows
<1>7. \A k \in DOMAIN jobs' : Knows(jobs'[k], disk')
  BY <1>3, <1>5, <1>6
<1>8. \A k, l \in DOMAIN jobs' : Moving(jobs'[k]) /\ Moving(jobs'[l]) /\ jobs'[k].id = jobs'[l].id => k = l
  BY <1>3, <1>5 DEF VaultInv, JobsOk
<1>9. JobsOk(jobs, disk)'
  BY <1>4, <1>7, <1>8 DEF JobsOk
<1>10. ("crossed" \notin slips => Alone(jobs, app, disk))'
  <2> SUFFICES ASSUME "crossed" \notin slips' PROVE Alone(jobs', app, disk')
    OBVIOUS
  <2>1. Alone(jobs, app, disk)
    BY DEF VaultInv
  <2>2. CASE Migrates(j)
    BY <2>1, <2>2, AloneTurn
  <2>3. CASE ~Migrates(j)
    <3>1. \A k \in DOMAIN jobs' : KnowsAlone(jobs'[k], disk')
      BY <1>3, <1>5, <2>1, <2>3 DEF Alone, KnowsAlone, Migrates
    <3> QED BY <1>3, <1>5, <2>1, <2>3, <3>1 DEF Alone
  <2> QED BY <2>2, <2>3
<1>11. ((app.mkey = 0 /\ ~Slipped({"crash", "crossed"})) => Clean(disk))'
  BY CleanNow DEF Slipped
<1>12. app'.mkey \in {0, disk'.mkey} /\ AppOk(app)'
  BY AppNow
<1> QED BY <1>9, <1>10, <1>11, <1>12 DEF VaultInv

(* A photo outlives what it did, if each home it leaves has a successor and
   nothing sets out from those it keeps. *)
LEMMA OutlivesStays ==
  ASSUME NEW d, NEW js, NEW d2, NEW js2, NEW p, NEW n, Outlives(d, js, p, n),
         \A a \in d.media : a[1] = p /\ n < a[2] => a \in d2.media \/ Outlives(d2, js2, p, n),
         \A v \in VaultIds :
           RowOf(d, v, p) /\ (\A k \in DOMAIN js : (Moving(js[k]) /\ js[k].id = v) => n < Age(js[k])) =>
             RowOf(d2, v, p) \/ Outlives(d2, js2, p, n),
         \A x \in Assets :
           CopyOf(d, x, p) /\ (\A k \in DOMAIN js : (Hiding(js[k]) /\ First(js[k]) = x) => n < x[2]) =>
             CopyOf(d2, x, p) \/ Outlives(d2, js2, p, n),
         \A k \in DOMAIN js2 : Moving(js2[k]) => (k \in DOMAIN js /\ js2[k] = js[k]) \/ ~RowOf(d, js2[k].id, p),
         \A k \in DOMAIN js2 : Hiding(js2[k]) => (k \in DOMAIN js /\ js2[k] = js[k]) \/ ~CopyOf(d, First(js2[k]), p)
  PROVE  Outlives(d2, js2, p, n)
<1>1. CASE \E a \in d.media : a[1] = p /\ n < a[2]
  BY <1>1 DEF Outlives
<1>2. CASE \E v \in VaultIds : RowOf(d, v, p) /\ \A k \in DOMAIN js : Moving(js[k]) /\ js[k].id = v => n < Age(js[k])
  <2>1. PICK v \in VaultIds : RowOf(d, v, p) /\ \A k \in DOMAIN js : Moving(js[k]) /\ js[k].id = v => n < Age(js[k])
    BY <1>2
  <2>2. \A k \in DOMAIN js2 : Moving(js2[k]) /\ js2[k].id = v => n < Age(js2[k])
    BY <2>1
  <2>3. RowOf(d2, v, p) \/ Outlives(d2, js2, p, n)
    BY <2>1
  <2> QED BY <2>2, <2>3 DEF Outlives
<1>3. CASE \E x \in Assets : CopyOf(d, x, p) /\ \A k \in DOMAIN js : Hiding(js[k]) /\ First(js[k]) = x => n < x[2]
  <2>1. PICK x \in Assets : CopyOf(d, x, p) /\ \A k \in DOMAIN js : Hiding(js[k]) /\ First(js[k]) = x => n < x[2]
    BY <1>3
  <2>2. \A k \in DOMAIN js2 : Hiding(js2[k]) /\ First(js2[k]) = x => n < x[2]
    BY <2>1
  <2>3. CopyOf(d2, x, p) \/ Outlives(d2, js2, p, n)
    BY <2>1
  <2> QED BY <2>2, <2>3 DEF Outlives
<1> QED BY <1>1, <1>2, <1>3 DEF Outlives

(* The homes that a turn of promise i must leave. *)
LEMMA HomesTurn ==
  ASSUME NEW d, NEW js, NEW er, NEW d2, HomesKept(d, js, er), NEW i \in DOMAIN js, NEW j,
         \A p \in Photos \ er : Somewhere(d, p) => Somewhere(d2, p),
         Moving(j) => RowOf(d2, j.id, First(j)[1]),
         \A k \in DOMAIN js :
           k # i /\ Moving(js[k]) /\ First(js[k])[1] \notin er =>
             LET p == First(js[k])[1]
                 js2 == [js EXCEPT ![i] = j] IN
             /\ RowOf(d, js[k].id, p) => RowOf(d2, js[k].id, p) \/ Outlives(d2, js2, p, Age(js[k]))
             /\ Outlives(d, js, p, Age(js[k])) => Outlives(d2, js2, p, Age(js[k]))
  PROVE  HomesKept(d2, [js EXCEPT ![i] = j], er)
<1> DEFINE js2 == [js EXCEPT ![i] = j]
<1>1. DOMAIN js2 = DOMAIN js /\ js2[i] = j /\ \A k \in DOMAIN js : k # i => js2[k] = js[k]
  OBVIOUS
<1>2. ASSUME NEW k \in DOMAIN js, Moving(js2[k])
      PROVE  \/ First(js2[k])[1] \in er
             \/ RowOf(d2, js2[k].id, First(js2[k])[1])
             \/ Outlives(d2, js2, First(js2[k])[1], Age(js2[k]))
  <2> HIDE DEF js2
  <2>1. CASE k = i
    BY <1>1, <1>2, <2>1
  <2>2. CASE k # i
    <3>1. js2[k] = js[k]
      BY <1>1, <2>2
    <3>2. \/ First(js[k])[1] \in er
          \/ RowOf(d, js[k].id, First(js[k])[1])
          \/ Outlives(d, js, First(js[k])[1], Age(js[k]))
      BY <1>2, <3>1 DEF HomesKept
    <3> QED BY <1>2, <2>2, <3>1, <3>2 DEF js2
  <2> QED BY <2>1, <2>2
<1>3. \A p \in Photos \ er : Somewhere(d2, p)
  BY DEF HomesKept
<1> HIDE DEF js2
<1>4. HomesKept(d2, js2, er)
  BY <1>1, <1>2, <1>3 DEF HomesKept
<1> QED BY <1>4 DEF js2

(* What a promise on its way out of the library knows. *)
LEMMA MovingNow ==
  ASSUME VaultInv, NEW k \in DOMAIN jobs, Moving(jobs[k])
  PROVE  /\ First(jobs[k]) \in Assets /\ First(jobs[k])[1] \in Photos /\ First(jobs[k])[1] # Nil
         /\ Age(jobs[k]) = First(jobs[k])[2] /\ Age(jobs[k]) \in Nat /\ Age(jobs[k]) <= disk.saves[First(jobs[k])[1]]
         /\ jobs[k].id \in VaultIds /\ disk.vault[jobs[k].id].of = First(jobs[k])[1]
         /\ \A l \in DOMAIN jobs : Moving(jobs[l]) /\ jobs[l].id = jobs[k].id => l = k
<1>1. Knows(jobs[k], disk)
  BY DEF VaultInv, JobsOk
<1>2. /\ First(jobs[k]) \in Assets /\ Age(jobs[k]) <= disk.saves[First(jobs[k])[1]]
      /\ jobs[k].id \in VaultIds /\ disk.vault[jobs[k].id].of = First(jobs[k])[1]
  BY <1>1 DEF Knows
<1>3. First(jobs[k])[1] \in Photos /\ First(jobs[k])[2] \in Nat
  BY <1>2 DEF Assets
<1>4. \A l \in DOMAIN jobs : Moving(jobs[l]) /\ jobs[l].id = jobs[k].id => l = k
  BY DEF VaultInv, JobsOk
<1> QED BY <1>2, <1>3, <1>4, VaultAssumption DEF Age

(* A photo that outlives is somewhere. *)
LEMMA OutlivesIs == ASSUME NEW d, NEW js, NEW p, NEW n, Outlives(d, js, p, n) PROVE Somewhere(d, p)
BY DEF Outlives, Somewhere

(* One entry, or one copy, is written anew. *)
Kindred(d) ==
  /\ DOMAIN d = DOMAIN disk /\ d.vkey = disk.vkey /\ d.mkey = disk.mkey /\ d.last = disk.last
  /\ d.media \in SUBSET Assets /\ d.saves \in [Photos -> 0..MaxSaves]
  /\ \A p \in Photos : disk.saves[p] <= d.saves[p]
  /\ \A a \in d.media : a[2] <= d.saves[a[1]]
EntryFits(d, v, e) ==
  /\ Kindred(d) /\ v \in VaultIds /\ e \in EntrySet
  /\ d.vault = [disk.vault EXCEPT ![v] = e] /\ d.mode = disk.mode
  /\ disk.vault[v].of # Nil => e.of = disk.vault[v].of
  /\ e.row => e.file = "whole" /\ e.key # 0
  /\ e.row \/ e.plain # "none" => e.of # Nil
CopyFits(d, x, c) ==
  /\ Kindred(d) /\ x \in Assets /\ c \in CopySet
  /\ d.mode = [disk.mode EXCEPT ![x] = c] /\ d.vault = disk.vault
  /\ IF c.row THEN c.file = "whole" /\ c.key # 0 ELSE c = NoCopy

LEMMA EntryWritten ==
  ASSUME VaultInv, NEW v, NEW e, NEW d, EntryFits(d, v, e)
  PROVE  /\ DiskOk(d) /\ Grows(disk, d)
         /\ d.vault[v] = e /\ \A w \in VaultIds : w # v => d.vault[w] = disk.vault[w]
<1>1. OnDisk(disk) /\ DiskOk(disk)
  BY DEF VaultInv, DiskOk
<1>3. d.vault \in [VaultIds -> EntrySet] /\ d.vault[v] = e /\ \A w \in VaultIds : w # v => d.vault[w] = disk.vault[w]
  BY <1>1 DEF OnDisk, EntryFits
<1>4. OnDisk(d)
  BY <1>1, <1>3 DEF OnDisk, EntryFits, Kindred
<1>5. DiskOk(d)
  BY <1>1, <1>3, <1>4 DEF DiskOk, EntryFits, Kindred
<1>6. Grows(disk, d)
  BY <1>3 DEF Grows, EntryFits, Kindred
<1> QED BY <1>3, <1>5, <1>6

LEMMA CopyWritten ==
  ASSUME VaultInv, NEW x, NEW c, NEW d, CopyFits(d, x, c)
  PROVE  /\ DiskOk(d) /\ Grows(disk, d)
         /\ d.mode[x] = c /\ \A y \in Assets : y # x => d.mode[y] = disk.mode[y]
<1>1. OnDisk(disk) /\ DiskOk(disk)
  BY DEF VaultInv, DiskOk
<1>3. d.mode \in [Assets -> CopySet] /\ d.mode[x] = c /\ \A y \in Assets : y # x => d.mode[y] = disk.mode[y]
  BY <1>1 DEF OnDisk, CopyFits
<1>4. OnDisk(d)
  BY <1>1, <1>3 DEF OnDisk, CopyFits, Kindred
<1>5. DiskOk(d)
  BY <1>1, <1>3, <1>4 DEF DiskOk, CopyFits, Kindred
<1>6. Grows(disk, d)
  BY <1>3 DEF Grows, CopyFits, Kindred
<1> QED BY <1>3, <1>5, <1>6

LEMMA SavesNow ==
  ASSUME VaultInv
  PROVE  /\ disk.saves \in [Photos -> 0..MaxSaves] /\ (\A p \in Photos : disk.saves[p] <= disk.saves[p])
         /\ disk.media \in SUBSET Assets /\ \A a \in disk.media : a[2] <= disk.saves[a[1]]
<1>1. disk.saves \in [Photos -> 0..MaxSaves] /\ disk.media \in SUBSET Assets
  BY DEF VaultInv, DiskOk, OnDisk
<1>2. \A p \in Photos : disk.saves[p] \in Int
  BY <1>1, VaultAssumption
<1>3. \A a \in disk.media : a[2] <= disk.saves[a[1]]
  BY DEF VaultInv, DiskOk
<1> QED BY <1>1, <1>2, <1>3

LEMMA ImportStoredSafe == ASSUME VaultInv, NEW i \in DOMAIN jobs, ImportStored(i) PROVE VaultInv'
<1> DEFINE a == Item(i)
<1>1. PICK v \in VaultIds : /\ disk.vault[v].of = Nil
                            /\ v = CHOOSE w \in VaultIds : disk.vault[w].of = Nil
  BY DEF ImportStored
<1>2. PICK e : e = [NoEntry EXCEPT !.of = Item(i)[1], !.row = TRUE, !.file = "whole", !.key = app.vkey]
  OBVIOUS
<1>3. PICK j : j = [jobs[i] EXCEPT !.at = "deleting", !.id = v]
  OBVIOUS
<1>4. /\ jobs[i].op = "import" /\ app.vkey # 0 /\ a \in disk.media
      /\ disk' = [disk EXCEPT !.vault[v] = e] /\ jobs' = [jobs EXCEPT ![i] = j]
      /\ app' = app /\ slips' = slips /\ erased' = erased
  BY <1>1, <1>2, <1>3 DEF ImportStored, Becomes, Doing, At
<1>5. a \in Assets /\ a[1] \in Photos /\ a[1] # Nil /\ a[2] \in Nat /\ a[2] <= disk.saves[a[1]]
  BY <1>4, SavesNow, VaultAssumption DEF Assets
<1>6. app.vkey \in Nat
  BY AppNow DEF AppOk
<1>7. /\ e \in EntrySet /\ e.row /\ e.file = "whole" /\ e.key = app.vkey /\ e.of = a[1] /\ e.plain = "none"
  BY <1>2, <1>5, <1>6 DEF NoEntry, EntrySet
<1>8. ~disk.vault[v].row
  BY <1>1 DEF VaultInv, DiskOk
<1>9. /\ DOMAIN disk' = DOMAIN disk /\ disk'.vault = [disk.vault EXCEPT ![v] = e] /\ disk'.media = disk.media
      /\ disk'.saves = disk.saves /\ disk'.mode = disk.mode /\ disk'.vkey = disk.vkey /\ disk'.mkey = disk.mkey
      /\ disk'.last = disk.last
  <2>1. OnDisk(disk)
    BY DEF VaultInv, DiskOk
  <2> QED BY <1>4, <2>1 DEF OnDisk
<1>10. /\ DiskOk(disk)' /\ Grows(disk, disk')
       /\ disk'.vault[v] = e /\ \A w \in VaultIds : w # v => disk'.vault[w] = disk.vault[w]
  <2>1. Kindred(disk')
    BY <1>9, SavesNow DEF Kindred
  <2>2. EntryFits(disk', v, e)
    BY <1>1, <1>4, <1>5, <1>7, <1>9, <2>1 DEF EntryFits
  <2> QED BY <2>2, EntryWritten
<1>11. Shape(jobs[i]) /\ DOMAIN jobs[i] = TaskFields /\ jobs[i].bad \in Nat
  BY <1>4, ShapeAll DEF Shape, Tasks
<1>12. /\ DOMAIN j = TaskFields /\ j.op = "import" /\ j.at = "deleting" /\ j.id = v /\ j.bad = jobs[i].bad
       /\ First(j) = a /\ Age(j) = a[2]
  BY <1>3, <1>4, <1>11 DEF TaskFields, First, Age, Item
<1>13. Knows(j, disk') /\ Moving(j) /\ ~Hiding(j) /\ ~Migrates(j)
  BY <1>5, <1>7, <1>9, <1>10, <1>11, <1>12 DEF Knows, Shape, Moving, Hiding, Migrates
<1>14. \A k \in DOMAIN jobs : k # i /\ Moving(jobs[k]) => jobs[k].id # j.id
  BY <1>1, <1>12, MovingNow
<1>15. (~Slipped({"rekeyed", "partial", "crossed"}) => KeysKept(disk, app) /\ HomesKept(disk, jobs, erased))'
  <2> SUFFICES ASSUME ~Slipped({"rekeyed", "partial", "crossed"})
               PROVE  KeysKept(disk', app) /\ HomesKept(disk', jobs', erased)
    BY <1>4 DEF Slipped
  <2>1. KeysKept(disk, app) /\ HomesKept(disk, jobs, erased)
    BY DEF VaultInv
  <2>2. app.vkey = disk.vkey
    BY <1>4, <2>1 DEF KeysKept
  <2>3. KeysKept(disk', app)
    BY <1>7, <1>9, <1>10, <2>1, <2>2 DEF KeysKept
  <2>4. \A p : \A w \in VaultIds : RowOf(disk, w, p) => RowOf(disk', w, p) /\ w # v
    BY <1>8, <1>9, <1>10 DEF RowOf
  <2>5. \A p : Somewhere(disk, p) => Somewhere(disk', p)
    BY <1>9, <1>10, <2>4 DEF Somewhere, CopyOf
  <2>6. jobs'[i] = j /\ DOMAIN jobs' = DOMAIN jobs /\ \A k \in DOMAIN jobs : k # i => jobs'[k] = jobs[k]
    BY <1>4, ShapeAll
  <2>7. \A p, n : Outlives(disk, jobs, p, n) => Outlives(disk', jobs', p, n)
    <3> SUFFICES ASSUME NEW p, NEW n, Outlives(disk, jobs, p, n) PROVE Outlives(disk', jobs', p, n)
      OBVIOUS
    <3>1. \A k \in DOMAIN jobs' : Moving(jobs'[k]) => (k \in DOMAIN jobs /\ jobs'[k] = jobs[k]) \/ ~RowOf(disk, jobs'[k].id, p)
      BY <1>8, <1>12, <2>6 DEF RowOf
    <3>2. \A k \in DOMAIN jobs' : Hiding(jobs'[k]) => k \in DOMAIN jobs /\ jobs'[k] = jobs[k]
      BY <1>13, <2>6
    <3>3. \A x \in Assets : CopyOf(disk, x, p) => CopyOf(disk', x, p)
      BY <1>9, <1>10 DEF CopyOf
    <3> QED BY <1>9, <1>10, <2>4, <3>1, <3>2, <3>3, OutlivesStays
  <2>8. RowOf(disk', j.id, First(j)[1])
    BY <1>7, <1>9, <1>10, <1>12 DEF RowOf
  <2>9. \A k \in DOMAIN jobs : Moving(jobs[k]) => jobs[k].id \in VaultIds
    BY MovingNow
  <2>10. HomesKept(disk', jobs', erased)
    BY <1>4, <2>1, <2>4, <2>5, <2>7, <2>8, <2>9, HomesTurn
  <2> QED BY <2>3, <2>10
<1>16. Clean(disk) => Clean(disk')
  BY <1>9, <1>10 DEF Clean
<1> QED BY <1>4, <1>9, <1>10, <1>13, <1>14, <1>15, <1>16, SlipsNow, Turns

(* A photo deleted from the library lives on in the vault. *)
LEMMA ImportDeletedSafe ==
  ASSUME VaultInv, NEW i \in DOMAIN jobs, NEW ok \in BOOLEAN, NEW gone \in BOOLEAN, ImportDeleted(i, ok, gone)
  PROVE  VaultInv'
<1>1. PICK a, w, j : /\ a = Item(i) /\ w = jobs[i].id
                     /\ j = IF Kept(ok, a, Left(a, gone)) THEN Passed(jobs[i]) ELSE FailedOne(jobs[i])
  OBVIOUS
<1>2. /\ jobs[i].op = "import" /\ jobs[i].at = "deleting" /\ (ok => gone)
      /\ app' = app /\ slips' = slips /\ erased' = erased /\ jobs' = [jobs EXCEPT ![i] = j]
  BY <1>1 DEF ImportDeleted, Deletion, Becomes, Step, At
<1>3. Moving(jobs[i]) /\ First(jobs[i]) = a /\ jobs[i].id = w /\ OnDisk(disk)
  BY <1>1, <1>2 DEF Moving, First, Item, VaultInv, DiskOk
<1>4. /\ a \in Assets /\ a[1] \in Photos /\ a[1] # Nil /\ Age(jobs[i]) = a[2] /\ a[2] \in Nat
      /\ w \in VaultIds /\ disk.vault[w].of = a[1]
      /\ \A l \in DOMAIN jobs : Moving(jobs[l]) /\ jobs[l].id = w => l = i
  <2>1. /\ First(jobs[i]) \in Assets /\ First(jobs[i])[1] \in Photos /\ First(jobs[i])[1] # Nil
        /\ Age(jobs[i]) = First(jobs[i])[2] /\ Age(jobs[i]) \in Nat
        /\ jobs[i].id \in VaultIds /\ disk.vault[jobs[i].id].of = First(jobs[i])[1]
        /\ \A l \in DOMAIN jobs : Moving(jobs[l]) /\ jobs[l].id = jobs[i].id => l = i
    BY <1>3, MovingNow
  <2> QED BY <1>3, <2>1
<1>5. Fresh(j) /\ ~Migrates(j)
  <2>1. j = Passed(jobs[i]) \/ j = FailedOne(jobs[i])
    BY <1>1
  <2>2. /\ Fresh(Passed(jobs[i])) /\ ~Migrates(Passed(jobs[i]))
        /\ Fresh(FailedOne(jobs[i])) /\ ~Migrates(FailedOne(jobs[i]))
    BY <1>2, ShapeAll, FreshItem
  <2> QED BY <2>1, <2>2
<1>6. Knows(j, disk') /\ ~Moving(j) /\ ~Hiding(j)
  BY <1>5 DEF Fresh, Knows
<1>7. jobs'[i] = j /\ DOMAIN jobs' = DOMAIN jobs /\ \A k \in DOMAIN jobs : k # i => jobs'[k] = jobs[k]
  BY <1>2, ShapeAll
<1>8. ASSUME Kept(ok, a, Left(a, gone)) PROVE VaultInv'
  <2>1. disk' = [disk EXCEPT !.media = Left(a, gone), !.legacy = disk.legacy \ {a}]
    BY <1>1, <1>3, <1>8 DEF ImportDeleted, OnDisk
  <2>2. Left(a, gone) = disk.media \ {a}
    BY <1>2, <1>8 DEF Kept, Left
  <2>3. /\ DOMAIN disk' = DOMAIN disk /\ disk'.media = disk.media \ {a} /\ disk'.saves = disk.saves
        /\ disk'.vault = disk.vault /\ disk'.mode = disk.mode /\ disk'.vkey = disk.vkey /\ disk'.mkey = disk.mkey
        /\ disk'.last = disk.last
    BY <1>3, <2>1, <2>2 DEF OnDisk
  <2>4. DiskOk(disk)' /\ Grows(disk, disk')
    <3>1. DiskOk(disk)
      BY DEF VaultInv
    <3> QED BY <1>3, <2>3, <3>1, GrowsSelf DEF OnDisk, DiskOk, Grows
  <2>5. (~Slipped({"rekeyed", "partial", "crossed"}) => KeysKept(disk, app) /\ HomesKept(disk, jobs, erased))'
    <3> SUFFICES ASSUME ~Slipped({"rekeyed", "partial", "crossed"})
                 PROVE  KeysKept(disk', app) /\ HomesKept(disk', jobs', erased)
      BY <1>2 DEF Slipped
    <3>1. KeysKept(disk, app) /\ HomesKept(disk, jobs, erased)
      BY DEF VaultInv
    <3>2. KeysKept(disk', app)
      BY <2>3, <3>1 DEF KeysKept
    <3>3. \A p : \A v \in VaultIds : RowOf(disk, v, p) => RowOf(disk', v, p)
      BY <2>3 DEF RowOf
    <3>4. \A p : \A x \in Assets : CopyOf(disk, x, p) => CopyOf(disk', x, p)
      BY <2>3 DEF CopyOf
    <3>5. \A k \in DOMAIN jobs' : Moving(jobs'[k]) => k \in DOMAIN jobs /\ jobs'[k] = jobs[k]
      BY <1>6, <1>7
    <3>6. \A k \in DOMAIN jobs' : Hiding(jobs'[k]) => k \in DOMAIN jobs /\ jobs'[k] = jobs[k]
      BY <1>6, <1>7
    <3>7. a[1] \notin erased => RowOf(disk, w, a[1]) \/ Outlives(disk, jobs, a[1], a[2])
      BY <1>3, <1>4, <3>1 DEF HomesKept
    <3>8. ASSUME Outlives(disk, jobs, a[1], a[2]) PROVE Outlives(disk', jobs', a[1], a[2])
      <4>1. \A b \in disk.media : b[1] = a[1] /\ a[2] < b[2] => b \in disk'.media
        BY <1>4, <2>3
      <4> QED BY <3>3, <3>4, <3>5, <3>6, <3>8, <4>1, OutlivesStays
    <3>9. ASSUME a[1] \notin erased, NEW n \in Int, n < a[2] PROVE Outlives(disk', jobs', a[1], n)
      <4>1. CASE RowOf(disk, w, a[1])
        <5>1. \A k \in DOMAIN jobs' : ~(Moving(jobs'[k]) /\ jobs'[k].id = w)
          BY <1>4, <1>6, <1>7
        <5> QED BY <1>4, <3>3, <4>1, <5>1 DEF Outlives
      <4>2. CASE Outlives(disk, jobs, a[1], a[2])
        <5>1. Outlives(disk', jobs', a[1], a[2])
          BY <3>8, <4>2
        <5>2. \A b \in disk'.media : b[2] \in Int
          BY <2>3, SavesNow DEF Assets
        <5>3. \A x \in Assets : x[2] \in Int
          BY DEF Assets
        <5>4. \A k \in DOMAIN jobs' : Moving(jobs'[k]) => Age(jobs'[k]) \in Int
          BY <3>5, MovingNow
        <5>5. a[2] \in Int /\ n <= a[2]
          BY <1>4, <3>9
        <5> QED BY <5>1, <5>2, <5>3, <5>4, <5>5, OutlivesLess
      <4> QED BY <3>7, <3>9, <4>1, <4>2
    <3>10. \A p \in Photos \ erased : Somewhere(disk, p) => Somewhere(disk', p)
      <4> SUFFICES ASSUME NEW p \in Photos \ erased, Somewhere(disk, p) PROVE Somewhere(disk', p)
        OBVIOUS
      <4>1. CASE \E b \in disk.media : b[1] = p
        <5>1. PICK b \in disk.media : b[1] = p
          BY <4>1
        <5>2. CASE b = a
          <6>1. RowOf(disk', w, a[1]) \/ Outlives(disk', jobs', a[1], a[2])
            BY <1>4, <3>3, <3>7, <3>8, <5>1, <5>2
          <6> QED BY <1>4, <5>1, <5>2, <6>1, OutlivesIs DEF Somewhere
        <5>3. CASE b # a
          BY <2>3, <5>1, <5>3 DEF Somewhere
        <5> QED BY <5>2, <5>3
      <4>2. CASE ~\E b \in disk.media : b[1] = p
        BY <3>3, <3>4, <4>2 DEF Somewhere
      <4> QED BY <4>1, <4>2
    <3>11. ASSUME NEW p, p \notin erased, NEW n \in Int, Outlives(disk, jobs, p, n) PROVE Outlives(disk', jobs', p, n)
      <4>1. \A b \in disk.media : b[1] = p /\ n < b[2] => b \in disk'.media \/ Outlives(disk', jobs', p, n)
        BY <2>3, <3>9, <3>11
      <4> QED BY <3>3, <3>4, <3>5, <3>6, <3>11, <4>1, OutlivesStays
    <3>12. \A k \in DOMAIN jobs : Moving(jobs[k]) => jobs[k].id \in VaultIds /\ Age(jobs[k]) \in Int
      BY MovingNow
    <3>13. HomesKept(disk', jobs', erased)
      BY <1>2, <1>6, <3>1, <3>3, <3>10, <3>11, <3>12, HomesTurn
    <3> QED BY <3>2, <3>13
  <2>6. Clean(disk) => Clean(disk')
    BY <2>3 DEF Clean
  <2> QED BY <1>2, <1>5, <1>6, <2>3, <2>4, <2>5, <2>6, SlipsNow, Turns
<1>9. ASSUME ~Kept(ok, a, Left(a, gone)) PROVE VaultInv'
  <2>1. PICK e : e = Spent(disk.vault[w])
    OBVIOUS
  <2>2. e \in EntrySet /\ ~e.row /\ e.plain = "none" /\ e.of = a[1]
    BY <1>4, <2>1 DEF Spent, NoEntry, EntrySet
  <2>3. a \in disk.media /\ Left(a, gone) = disk.media
    BY <1>9 DEF Kept, Left
  <2>4. disk' = [disk EXCEPT !.media = Left(a, gone), !.vault[w] = e]
    BY <1>1, <1>3, <1>9, <2>1 DEF ImportDeleted, OnDisk
  <2>5. /\ DOMAIN disk' = DOMAIN disk /\ disk'.vault = [disk.vault EXCEPT ![w] = e] /\ disk'.media = disk.media
        /\ disk'.saves = disk.saves /\ disk'.mode = disk.mode /\ disk'.vkey = disk.vkey /\ disk'.mkey = disk.mkey
        /\ disk'.last = disk.last
    BY <1>3, <2>3, <2>4 DEF OnDisk
  <2>6. /\ DiskOk(disk)' /\ Grows(disk, disk')
        /\ disk'.vault[w] = e /\ \A v \in VaultIds : v # w => disk'.vault[v] = disk.vault[v]
    <3>1. Kindred(disk')
      BY <2>5, SavesNow DEF Kindred
    <3>2. EntryFits(disk', w, e)
      BY <1>4, <2>2, <2>5, <3>1 DEF EntryFits
    <3> QED BY <3>2, EntryWritten
  <2>7. (~Slipped({"rekeyed", "partial", "crossed"}) => KeysKept(disk, app) /\ HomesKept(disk, jobs, erased))'
    <3> SUFFICES ASSUME ~Slipped({"rekeyed", "partial", "crossed"})
                 PROVE  KeysKept(disk', app) /\ HomesKept(disk', jobs', erased)
      BY <1>2 DEF Slipped
    <3>1. KeysKept(disk, app) /\ HomesKept(disk, jobs, erased)
      BY DEF VaultInv
    <3>2. KeysKept(disk', app)
      BY <2>2, <2>5, <2>6, <3>1 DEF KeysKept
    <3>3. \A p : \A v \in VaultIds : RowOf(disk, v, p) => RowOf(disk', v, p) \/ (v = w /\ p = a[1])
      BY <1>4, <2>6 DEF RowOf
    <3>4. \A p : \A x \in Assets : CopyOf(disk, x, p) => CopyOf(disk', x, p)
      BY <2>5 DEF CopyOf
    <3>5. \A k \in DOMAIN jobs' : Moving(jobs'[k]) => k \in DOMAIN jobs /\ jobs'[k] = jobs[k]
      BY <1>6, <1>7
    <3>6. \A k \in DOMAIN jobs' : Hiding(jobs'[k]) => k \in DOMAIN jobs /\ jobs'[k] = jobs[k]
      BY <1>6, <1>7
    <3>7. \A p : Somewhere(disk, p) => Somewhere(disk', p)
      BY <2>3, <2>5, <3>3, <3>4 DEF Somewhere
    <3>8. ASSUME NEW p, NEW n, Outlives(disk, jobs, p, n) PROVE Outlives(disk', jobs', p, n)
      <4>1. ASSUME NEW v \in VaultIds, RowOf(disk, v, p),
                   \A k \in DOMAIN jobs : (Moving(jobs[k]) /\ jobs[k].id = v) => n < Age(jobs[k])
            PROVE  RowOf(disk', v, p) \/ Outlives(disk', jobs', p, n)
        <5>1. CASE v = w /\ p = a[1]
          <6>1. n < a[2]
            BY <1>3, <1>4, <4>1, <5>1
          <6> QED BY <2>3, <2>5, <5>1, <6>1 DEF Outlives
        <5> QED BY <3>3, <4>1, <5>1
      <4> QED BY <2>5, <3>4, <3>5, <3>6, <3>8, <4>1, OutlivesStays
    <3>9. \A k \in DOMAIN jobs : Moving(jobs[k]) => jobs[k].id \in VaultIds /\ (k # i => jobs[k].id # w)
      BY <1>4, MovingNow
    <3>10. HomesKept(disk', jobs', erased)
      BY <1>2, <1>6, <3>1, <3>3, <3>7, <3>8, <3>9, HomesTurn
    <3> QED BY <3>2, <3>10
  <2>8. Clean(disk) => Clean(disk')
    BY <2>5 DEF Clean
  <2> QED BY <1>2, <1>5, <1>6, <2>5, <2>6, <2>7, <2>8, SlipsNow, Turns
<1> QED BY <1>8, <1>9

(* What saving a photo back leaves in the library. *)
LEMMA SavedIs ==
  ASSUME VaultInv, NEW e, NEW p \in Photos, Free(p), NEW d, d = SavedBack(e, p)
  PROVE  /\ DOMAIN d = DOMAIN disk /\ d.vault = disk.vault /\ d.mode = disk.mode /\ d.legacy = disk.legacy
         /\ d.vkey = disk.vkey /\ d.mkey = disk.mkey /\ d.last = disk.last
         /\ d.media \in SUBSET Assets /\ d.saves \in [Photos -> 0..MaxSaves]
         /\ \A q \in Photos : disk.saves[q] <= d.saves[q]
         /\ \A a \in d.media : a[2] <= d.saves[a[1]]
         /\ disk.media \subseteq d.media
         /\ disk.saves[p] \in Nat
         /\ e.plain = "whole" => <<p, disk.saves[p] + 1>> \in d.media
<1>1. OnDisk(disk)
  BY DEF VaultInv, DiskOk
<1>2. disk.saves \in [Photos -> 0..MaxSaves] /\ disk.saves[p] \in Nat /\ disk.saves[p] < MaxSaves /\ MaxSaves \in Nat
  BY <1>1, VaultAssumption DEF OnDisk, Free
<1>3. PICK n : n = disk.saves[p] + 1
  OBVIOUS
<1>4. n \in 0..MaxSaves /\ disk.saves[p] <= n /\ n \in Nat
  BY <1>2, <1>3
<1>5. /\ DOMAIN d = DOMAIN disk /\ d.vault = disk.vault /\ d.mode = disk.mode /\ d.legacy = disk.legacy
      /\ d.vkey = disk.vkey /\ d.mkey = disk.mkey /\ d.last = disk.last
      /\ d.media = (IF e.plain = "whole" THEN disk.media \cup {<<p, n>>} ELSE disk.media)
      /\ d.saves = [disk.saves EXCEPT ![p] = n]
  BY <1>1, <1>3 DEF OnDisk, SavedBack
<1>6. <<p, n>> \in Assets /\ <<p, n>>[1] = p /\ <<p, n>>[2] = n
  BY <1>4 DEF Assets
<1>7. d.media \in SUBSET Assets /\ disk.media \subseteq d.media
  BY <1>5, <1>6, SavesNow
<1>8. d.saves \in [Photos -> 0..MaxSaves] /\ d.saves[p] = n /\ \A q \in Photos : q # p => d.saves[q] = disk.saves[q]
  BY <1>2, <1>4, <1>5
<1>9. \A q \in Photos : disk.saves[q] <= d.saves[q]
  BY <1>3, <1>4, <1>8, SavesNow
<1>10. \A a \in d.media : a[2] <= d.saves[a[1]]
  <2> SUFFICES ASSUME NEW a \in d.media PROVE a[2] <= d.saves[a[1]]
    OBVIOUS
  <2>1. CASE a = <<p, n>>
    BY <1>4, <1>6, <1>8, <2>1
  <2>2. CASE a \in disk.media
    <3>1. a[1] \in Photos /\ a[2] \in Nat /\ a[2] <= disk.saves[a[1]]
      BY <2>2, SavesNow DEF Assets
    <3>2. disk.saves[a[1]] <= d.saves[a[1]] /\ disk.saves[a[1]] \in Nat /\ d.saves[a[1]] \in Nat
      BY <1>2, <1>8, <1>9, <3>1
    <3> QED BY <3>1, <3>2
  <2> QED BY <1>5, <2>1, <2>2
<1>11. e.plain = "whole" => <<p, disk.saves[p] + 1>> \in d.media
  BY <1>3, <1>5
<1> QED BY <1>2, <1>5, <1>7, <1>8, <1>9, <1>10, <1>11

(* A photo of the vault is saved back before its entry goes. *)
LEMMA ExportSavedSafe == ASSUME VaultInv, NEW i \in DOMAIN jobs, ExportSaved(i) PROVE VaultInv'
<1>1. PICK v, p, e, j, c : /\ v = Item(i) /\ e = disk.vault[v] /\ p = e.of /\ j = Passed(jobs[i])
                           /\ c = Spent(disk.vault[v])
  OBVIOUS
<1>2. /\ jobs[i].op = "export" /\ jobs[i].at = "saving" /\ e.plain # "none" /\ Free(p)
      /\ app' = app /\ erased' = erased /\ jobs' = [jobs EXCEPT ![i] = j]
      /\ slips' = (IF e.plain = "partial" THEN slips \cup {"partial"} ELSE slips)
  BY <1>1 DEF ExportSaved, Becomes, Step, At
<1>3. v \in VaultIds
  BY <1>1, <1>2, ShapeAll DEF Shape, First, Item
<1>4. e \in EntrySet /\ p \in Photos /\ OnDisk(disk)
  <2>1. e \in EntrySet /\ OnDisk(disk)
    BY <1>1, <1>3 DEF VaultInv, DiskOk, OnDisk
  <2>2. p # Nil
    BY <1>1, <1>2, <1>3 DEF VaultInv, DiskOk
  <2> QED BY <1>1, <2>1, <2>2 DEF EntrySet
<1>5. PICK s : s = SavedBack(e, p)
  OBVIOUS
<1>6. /\ DOMAIN s = DOMAIN disk /\ s.vault = disk.vault /\ s.mode = disk.mode /\ s.legacy = disk.legacy
      /\ s.vkey = disk.vkey /\ s.mkey = disk.mkey /\ s.last = disk.last
      /\ s.media \in SUBSET Assets /\ s.saves \in [Photos -> 0..MaxSaves]
      /\ \A q \in Photos : disk.saves[q] <= s.saves[q]
      /\ \A a \in s.media : a[2] <= s.saves[a[1]]
      /\ disk.media \subseteq s.media
      /\ disk.saves[p] \in Nat
      /\ e.plain = "whole" => <<p, disk.saves[p] + 1>> \in s.media
  BY <1>2, <1>4, <1>5, SavedIs
<1>7. disk' = [s EXCEPT !.vault[v] = c]
  <2>1. disk' = [SavedBack(e, p) EXCEPT !.vault[v] = Spent(@)]
    BY <1>1 DEF ExportSaved
  <2>2. disk' = [s EXCEPT !.vault[v] = Spent(s.vault[v])]
    BY <1>5, <2>1
  <2> QED BY <1>1, <1>6, <2>2
<1>8. /\ DOMAIN disk' = DOMAIN disk /\ disk'.vault = [disk.vault EXCEPT ![v] = c] /\ disk'.media = s.media
      /\ disk'.saves = s.saves /\ disk'.mode = disk.mode /\ disk'.vkey = disk.vkey /\ disk'.mkey = disk.mkey
      /\ disk'.last = disk.last
  BY <1>4, <1>6, <1>7 DEF OnDisk
<1>9. c \in EntrySet /\ ~c.row /\ c.plain = "none" /\ c.of = p
  BY <1>1, <1>4 DEF Spent, NoEntry, EntrySet
<1>10. /\ DiskOk(disk)' /\ Grows(disk, disk')
       /\ disk'.vault[v] = c /\ \A w \in VaultIds : w # v => disk'.vault[w] = disk.vault[w]
  <2>1. Kindred(disk')
    BY <1>6, <1>8 DEF Kindred
  <2>2. EntryFits(disk', v, c)
    BY <1>1, <1>3, <1>4, <1>8, <1>9, <2>1 DEF EntryFits
  <2> QED BY <2>2, EntryWritten
<1>11. Fresh(j) /\ ~Migrates(j)
  BY <1>1, <1>2, ShapeAll, FreshItem
<1>12. Knows(j, disk') /\ ~Moving(j) /\ ~Hiding(j)
  BY <1>11 DEF Fresh, Knows
<1>13. jobs'[i] = j /\ DOMAIN jobs' = DOMAIN jobs /\ \A k \in DOMAIN jobs : k # i => jobs'[k] = jobs[k]
  BY <1>2, ShapeAll
<1>14. (~Slipped({"rekeyed", "partial", "crossed"}) => KeysKept(disk, app) /\ HomesKept(disk, jobs, erased))'
  <2> SUFFICES ASSUME ~Slipped({"rekeyed", "partial", "crossed"})'
               PROVE  KeysKept(disk', app) /\ HomesKept(disk', jobs', erased)
    BY <1>2
  <2>1. KeysKept(disk, app) /\ HomesKept(disk, jobs, erased) /\ e.plain = "whole"
    BY <1>2, <1>4 DEF VaultInv, Slipped, EntrySet
  <2>2. PICK b : b = <<p, disk.saves[p] + 1>>
    OBVIOUS
  <2>3. b \in disk'.media /\ b[1] = p /\ b[2] = disk.saves[p] + 1 /\ disk.saves[p] \in Nat
    BY <1>6, <1>8, <2>1, <2>2
  <2>4. KeysKept(disk', app)
    BY <1>8, <1>9, <1>10, <2>1 DEF KeysKept
  <2>5. \A q : \A w \in VaultIds : RowOf(disk, w, q) => RowOf(disk', w, q) \/ q = p
    BY <1>1, <1>10 DEF RowOf
  <2>6. \A q : \A x \in Assets : CopyOf(disk, x, q) => CopyOf(disk', x, q)
    BY <1>8 DEF CopyOf
  <2>7. \A k \in DOMAIN jobs' : Moving(jobs'[k]) => k \in DOMAIN jobs /\ jobs'[k] = jobs[k]
    BY <1>12, <1>13
  <2>8. \A k \in DOMAIN jobs' : Hiding(jobs'[k]) => k \in DOMAIN jobs /\ jobs'[k] = jobs[k]
    BY <1>12, <1>13
  <2>9. \A q : Somewhere(disk, q) => Somewhere(disk', q)
    BY <1>6, <1>8, <2>3, <2>5, <2>6 DEF Somewhere
  <2>10. ASSUME NEW n \in Nat, n <= disk.saves[p] PROVE Outlives(disk', jobs', p, n)
    <3>1. n < b[2]
      BY <2>3, <2>10
    <3> QED BY <2>3, <3>1 DEF Outlives
  <2>11. ASSUME NEW q, NEW n \in Nat, q = p => n <= disk.saves[p], Outlives(disk, jobs, q, n)
         PROVE  Outlives(disk', jobs', q, n)
    <3>1. \A a \in disk.media : a \in disk'.media
      BY <1>6, <1>8
    <3>2. \A w \in VaultIds : RowOf(disk, w, q) => RowOf(disk', w, q) \/ Outlives(disk', jobs', q, n)
      BY <2>5, <2>10, <2>11
    <3> QED BY <2>6, <2>7, <2>8, <2>11, <3>1, <3>2, OutlivesStays
  <2>12. \A k \in DOMAIN jobs : Moving(jobs[k]) =>
           /\ jobs[k].id \in VaultIds /\ Age(jobs[k]) \in Nat
           /\ First(jobs[k])[1] = p => Age(jobs[k]) <= disk.saves[p]
    BY MovingNow
  <2>13. ASSUME NEW k \in DOMAIN jobs, k # i, Moving(jobs[k])
         PROVE  LET q == First(jobs[k])[1] IN
                /\ RowOf(disk, jobs[k].id, q) => RowOf(disk', jobs[k].id, q) \/ Outlives(disk', jobs', q, Age(jobs[k]))
                /\ Outlives(disk, jobs, q, Age(jobs[k])) => Outlives(disk', jobs', q, Age(jobs[k]))
    <3>1. PICK q, n : q = First(jobs[k])[1] /\ n = Age(jobs[k])
      OBVIOUS
    <3>2. jobs[k].id \in VaultIds /\ n \in Nat /\ (q = p => n <= disk.saves[p])
      BY <2>12, <2>13, <3>1
    <3>3. Outlives(disk, jobs, q, n) => Outlives(disk', jobs', q, n)
      BY <2>11, <3>2
    <3>4. RowOf(disk, jobs[k].id, q) => RowOf(disk', jobs[k].id, q) \/ Outlives(disk', jobs', q, n)
      BY <2>5, <2>10, <3>2
    <3> QED BY <3>1, <3>3, <3>4
  <2>14. HomesKept(disk', jobs', erased)
    BY <1>2, <1>12, <2>1, <2>9, <2>13, HomesTurn
  <2> QED BY <2>4, <2>14
<1>15. Clean(disk) => Clean(disk')
  BY <1>8 DEF Clean
<1>16. slips \subseteq slips' /\ slips' \subseteq {"rekeyed", "partial", "crossed", "crash"}
  BY <1>2, SlipsNow
<1> QED BY <1>2, <1>8, <1>10, <1>11, <1>12, <1>14, <1>15, <1>16, Turns

(* A photo of the encrypted mode is saved back before its copy goes. *)
LEMMA RestoreSavedSafe == ASSUME VaultInv, NEW i \in DOMAIN jobs, RestoreSaved(i) PROVE VaultInv'
<1>1. PICK x, p, e, j : x = Item(i) /\ e = disk.mode[x] /\ p = x[1] /\ j = Passed(jobs[i])
  OBVIOUS
<1>2. /\ jobs[i].op = "disable" /\ jobs[i].at = "saving" /\ e.plain # "none" /\ Free(p)
      /\ app' = app /\ erased' = erased /\ jobs' = [jobs EXCEPT ![i] = j]
      /\ slips' = (IF e.plain = "partial" THEN slips \cup {"partial"} ELSE slips)
  BY <1>1 DEF RestoreSaved, Becomes, Step, At
<1>3. jobs[i].todo \in Seq(Assets) /\ jobs[i].todo # <<>> /\ Shape(jobs[i]) /\ Migrates(jobs[i]) /\ x = Head(jobs[i].todo)
  BY <1>1, <1>2, ShapeAll DEF Shape, Migrates, Item
<1>4. x \in Assets /\ p \in Photos /\ x[2] \in Nat /\ e \in CopySet /\ OnDisk(disk)
  <2>1. x \in Assets /\ OnDisk(disk)
    BY <1>3, TailOf DEF VaultInv, DiskOk
  <2> QED BY <1>1, <2>1 DEF Assets, OnDisk
<1>5. PICK s : s = SavedBack(e, p)
  OBVIOUS
<1>6. /\ DOMAIN s = DOMAIN disk /\ s.vault = disk.vault /\ s.mode = disk.mode /\ s.legacy = disk.legacy
      /\ s.vkey = disk.vkey /\ s.mkey = disk.mkey /\ s.last = disk.last
      /\ s.media \in SUBSET Assets /\ s.saves \in [Photos -> 0..MaxSaves]
      /\ \A q \in Photos : disk.saves[q] <= s.saves[q]
      /\ \A a \in s.media : a[2] <= s.saves[a[1]]
      /\ disk.media \subseteq s.media
      /\ disk.saves[p] \in Nat
      /\ e.plain = "whole" => <<p, disk.saves[p] + 1>> \in s.media
  BY <1>2, <1>4, <1>5, SavedIs
<1>7. disk' = [s EXCEPT !.mode[x] = NoCopy]
  BY <1>1, <1>5 DEF RestoreSaved
<1>8. /\ DOMAIN disk' = DOMAIN disk /\ disk'.mode = [disk.mode EXCEPT ![x] = NoCopy] /\ disk'.media = s.media
      /\ disk'.saves = s.saves /\ disk'.vault = disk.vault /\ disk'.vkey = disk.vkey /\ disk'.mkey = disk.mkey
      /\ disk'.last = disk.last
  BY <1>4, <1>6, <1>7 DEF OnDisk
<1>9. NoCopy \in CopySet /\ ~NoCopy.row /\ NoCopy.plain = "none" /\ ~NoCopy.small
  BY DEF NoCopy, CopySet
<1>10. /\ DiskOk(disk)' /\ Grows(disk, disk')
       /\ disk'.mode[x] = NoCopy /\ \A y \in Assets : y # x => disk'.mode[y] = disk.mode[y]
  <2>1. Kindred(disk')
    BY <1>6, <1>8 DEF Kindred
  <2>2. CopyFits(disk', x, NoCopy)
    BY <1>4, <1>8, <1>9, <2>1 DEF CopyFits
  <2> QED BY <2>2, CopyWritten
<1>11. Fresh(j)
  BY <1>1, <1>2, <1>3, MigrationItem
<1>12. Knows(j, disk') /\ ~Moving(j) /\ ~Hiding(j)
  BY <1>11 DEF Fresh, Knows
<1>13. jobs'[i] = j /\ DOMAIN jobs' = DOMAIN jobs /\ \A k \in DOMAIN jobs : k # i => jobs'[k] = jobs[k]
  BY <1>2, ShapeAll
<1>14. "crossed" \notin slips => KnowsAlone(j, disk')
  <2> SUFFICES ASSUME "crossed" \notin slips PROVE KnowsAlone(j, disk')
    OBVIOUS
  <2>1. KnowsAlone(jobs[i], disk)
    BY DEF VaultInv, Alone
  <2>2. j.op = "disable" /\ j.at = "item" /\ j.todo = Tail(jobs[i].todo) /\ j.bad = jobs[i].bad
    BY <1>1, <1>2, <1>3, NextItem DEF Tasks
  <2>3. ASSUME j.bad = 0, NEW y \in Assets, disk'.mode[y].row PROVE \E k \in 1..Len(j.todo) : j.todo[k] = y
    <3>1. y # x /\ disk.mode[y].row
      BY <1>9, <1>10, <2>3
    <3>2. PICK k \in 1..Len(jobs[i].todo) : jobs[i].todo[k] = y
      BY <1>2, <2>1, <2>2, <2>3, <3>1 DEF KnowsAlone
    <3> QED BY <1>3, <2>2, <3>1, <3>2, TailOf
  <2> QED BY <2>2, <2>3 DEF KnowsAlone
<1>15. (~Slipped({"rekeyed", "partial", "crossed"}) => KeysKept(disk, app) /\ HomesKept(disk, jobs, erased))'
  <2> SUFFICES ASSUME ~Slipped({"rekeyed", "partial", "crossed"})'
               PROVE  KeysKept(disk', app) /\ HomesKept(disk', jobs', erased)
    BY <1>2
  <2>1. KeysKept(disk, app) /\ HomesKept(disk, jobs, erased) /\ e.plain = "whole"
    BY <1>2, <1>4 DEF VaultInv, Slipped, CopySet
  <2>2. PICK b : b = <<p, disk.saves[p] + 1>>
    OBVIOUS
  <2>3. b \in disk'.media /\ b[1] = p /\ b[2] = disk.saves[p] + 1 /\ disk.saves[p] \in Nat
    BY <1>6, <1>8, <2>1, <2>2
  <2>4. KeysKept(disk', app)
    BY <1>8, <1>9, <1>10, <2>1 DEF KeysKept
  <2>5. \A q : \A y \in Assets : CopyOf(disk, y, q) => CopyOf(disk', y, q) \/ q = p
    BY <1>1, <1>10 DEF CopyOf
  <2>6. \A q : \A w \in VaultIds : RowOf(disk, w, q) => RowOf(disk', w, q)
    BY <1>8 DEF RowOf
  <2>7. \A k \in DOMAIN jobs' : Moving(jobs'[k]) => k \in DOMAIN jobs /\ jobs'[k] = jobs[k]
    BY <1>12, <1>13
  <2>8. \A k \in DOMAIN jobs' : Hiding(jobs'[k]) => k \in DOMAIN jobs /\ jobs'[k] = jobs[k]
    BY <1>12, <1>13
  <2>9. \A q : Somewhere(disk, q) => Somewhere(disk', q)
    BY <1>6, <1>8, <2>3, <2>5, <2>6 DEF Somewhere
  <2>10. ASSUME NEW n \in Nat, n <= disk.saves[p] PROVE Outlives(disk', jobs', p, n)
    <3>1. n < b[2]
      BY <2>3, <2>10
    <3> QED BY <2>3, <3>1 DEF Outlives
  <2>11. ASSUME NEW q, NEW n \in Nat, q = p => n <= disk.saves[p], Outlives(disk, jobs, q, n)
         PROVE  Outlives(disk', jobs', q, n)
    <3>1. \A a \in disk.media : a \in disk'.media
      BY <1>6, <1>8
    <3>2. \A y \in Assets : CopyOf(disk, y, q) => CopyOf(disk', y, q) \/ Outlives(disk', jobs', q, n)
      BY <2>5, <2>10, <2>11
    <3> QED BY <2>6, <2>7, <2>8, <2>11, <3>1, <3>2, OutlivesStays
  <2>13. ASSUME NEW k \in DOMAIN jobs, k # i, Moving(jobs[k])
         PROVE  LET q == First(jobs[k])[1] IN
                /\ RowOf(disk, jobs[k].id, q) => RowOf(disk', jobs[k].id, q) \/ Outlives(disk', jobs', q, Age(jobs[k]))
                /\ Outlives(disk, jobs, q, Age(jobs[k])) => Outlives(disk', jobs', q, Age(jobs[k]))
    <3>1. PICK q, n : q = First(jobs[k])[1] /\ n = Age(jobs[k])
      OBVIOUS
    <3>2. jobs[k].id \in VaultIds /\ n \in Nat /\ (q = p => n <= disk.saves[p])
      BY <2>13, <3>1, MovingNow
    <3>3. Outlives(disk, jobs, q, n) => Outlives(disk', jobs', q, n)
      BY <2>11, <3>2
    <3>4. RowOf(disk, jobs[k].id, q) => RowOf(disk', jobs[k].id, q)
      BY <2>6, <3>2
    <3> QED BY <3>1, <3>3, <3>4
  <2>14. HomesKept(disk', jobs', erased)
    BY <1>2, <1>12, <2>1, <2>9, <2>13, HomesTurn
  <2> QED BY <2>4, <2>14
<1>16. Clean(disk) => Clean(disk')
  BY <1>9, <1>10 DEF Clean
<1>17. slips \subseteq slips' /\ slips' \subseteq {"rekeyed", "partial", "crossed", "crash"}
  BY <1>2, SlipsNow
<1>18. Migrates(j)
  BY <1>1, <1>2, <1>3, NextItem DEF Tasks, Migrates
<1> QED BY <1>2, <1>3, <1>8, <1>10, <1>12, <1>14, <1>15, <1>16, <1>17, <1>18, Turns

(* A photo is encrypted, still beside its original. *)
LEMMA EncryptStoredSafe == ASSUME VaultInv, NEW i \in DOMAIN jobs, EncryptStored(i) PROVE VaultInv'
<1>1. PICK thumb \in BOOLEAN :
        disk' = [disk EXCEPT !.mode[Item(i)] = [@ EXCEPT !.row = TRUE, !.file = "whole", !.key = jobs[i].key,
                                                         !.thumb = thumb]]
  BY DEF EncryptStored
<1>2. PICK x, c, j : /\ x = Item(i) /\ j = [jobs[i] EXCEPT !.at = "deleting"]
                     /\ c = [disk.mode[x] EXCEPT !.row = TRUE, !.file = "whole", !.key = jobs[i].key, !.thumb = thumb]
  OBVIOUS
<1>3. /\ jobs[i].op = "enable" /\ jobs[i].at = "thumb" /\ x \in disk.media
      /\ disk' = [disk EXCEPT !.mode[x] = c] /\ jobs' = [jobs EXCEPT ![i] = j]
      /\ app' = app /\ slips' = slips /\ erased' = erased
  BY <1>1, <1>2 DEF EncryptStored, Becomes, Step, At
<1>4. /\ Shape(jobs[i]) /\ Migrates(jobs[i]) /\ DOMAIN jobs[i] = TaskFields /\ jobs[i].bad \in Nat
      /\ jobs[i].todo \in Seq(Assets) /\ jobs[i].todo # <<>> /\ jobs[i].key \in Nat \ {0} /\ x = Head(jobs[i].todo)
  BY <1>2, <1>3, ShapeAll DEF Shape, Migrates, Item, Tasks
<1>5. x \in Assets /\ OnDisk(disk)
  BY <1>4, TailOf DEF VaultInv, DiskOk
<1>6. /\ c \in CopySet /\ c.row /\ c.file = "whole" /\ c.key = jobs[i].key
      /\ c.plain = disk.mode[x].plain /\ c.small = disk.mode[x].small /\ c.stuck = disk.mode[x].stuck
  <2>1. disk.mode[x] \in CopySet
    BY <1>5 DEF OnDisk
  <2> QED BY <1>2, <1>4, <2>1 DEF CopySet
<1>7. /\ DOMAIN disk' = DOMAIN disk /\ disk'.mode = [disk.mode EXCEPT ![x] = c] /\ disk'.media = disk.media
      /\ disk'.saves = disk.saves /\ disk'.vault = disk.vault /\ disk'.vkey = disk.vkey /\ disk'.mkey = disk.mkey
      /\ disk'.last = disk.last
  BY <1>3, <1>5 DEF OnDisk
<1>8. /\ DiskOk(disk)' /\ Grows(disk, disk')
      /\ disk'.mode[x] = c /\ \A y \in Assets : y # x => disk'.mode[y] = disk.mode[y]
  <2>1. Kindred(disk')
    BY <1>7, SavesNow DEF Kindred
  <2>2. CopyFits(disk', x, c)
    BY <1>4, <1>5, <1>6, <1>7, <2>1 DEF CopyFits
  <2> QED BY <2>2, CopyWritten
<1>9. /\ DOMAIN j = TaskFields /\ j.op = "enable" /\ j.at = "deleting" /\ j.bad = jobs[i].bad /\ j.todo = jobs[i].todo
  BY <1>2, <1>3, <1>4 DEF TaskFields
<1>10. Knows(j, disk') /\ ~Moving(j) /\ Migrates(j) /\ First(j) = x
  BY <1>4, <1>9 DEF Knows, Shape, Moving, Migrates, First
<1>11. "crossed" \notin slips =>
         /\ ~disk.mode[x].row /\ jobs[i].key = disk.mkey /\ Distinct(jobs[i].todo)
         /\ \A k \in 1..Len(jobs[i].todo) : ~disk.mode[jobs[i].todo[k]].row
  <2> SUFFICES ASSUME "crossed" \notin slips
               PROVE  /\ ~disk.mode[x].row /\ jobs[i].key = disk.mkey /\ Distinct(jobs[i].todo)
                      /\ \A k \in 1..Len(jobs[i].todo) : ~disk.mode[jobs[i].todo[k]].row
    OBVIOUS
  <2>1. KnowsAlone(jobs[i], disk)
    BY DEF VaultInv, Alone
  <2>2. /\ jobs[i].key = disk.mkey /\ Distinct(jobs[i].todo)
        /\ \A k \in 1..Len(jobs[i].todo) : ~disk.mode[jobs[i].todo[k]].row
    BY <1>3, <2>1 DEF KnowsAlone
  <2>3. x = jobs[i].todo[1] /\ 1 \in 1..Len(jobs[i].todo)
    BY <1>4, TailOf
  <2> QED BY <2>2, <2>3
<1>12. "crossed" \notin slips => KnowsAlone(j, disk')
  <2> SUFFICES ASSUME "crossed" \notin slips PROVE KnowsAlone(j, disk')
    OBVIOUS
  <2>1. PICK t : t = jobs[i].todo
    OBVIOUS
  <2>2. t \in Seq(Assets) /\ Distinct(t) /\ t # <<>> /\ t[1] = x /\ j.todo = t /\ Len(t) \in Nat /\ Len(t) > 0
    BY <1>4, <1>9, <1>11, <2>1, TailOf
  <2>3. ASSUME NEW k \in 2..Len(t) PROVE ~disk'.mode[t[k]].row
    <3>1. k \in 1..Len(t) /\ k \in DOMAIN t /\ 1 \in DOMAIN t /\ k # 1
      BY <2>2, <2>3
    <3>2. t[k] # x /\ t[k] \in Assets
      BY <2>2, <3>1 DEF Distinct
    <3>3. ~disk.mode[t[k]].row
      BY <1>11, <2>1, <3>1
    <3> QED BY <1>8, <3>2, <3>3
  <2>4. disk'.mode[First(j)].row
    BY <1>6, <1>8, <1>10
  <2> QED BY <1>9, <2>2, <2>3, <2>4 DEF KnowsAlone
<1>13. jobs'[i] = j /\ DOMAIN jobs' = DOMAIN jobs /\ \A k \in DOMAIN jobs : k # i => jobs'[k] = jobs[k]
  BY <1>3, ShapeAll
<1>14. (~Slipped({"rekeyed", "partial", "crossed"}) => KeysKept(disk, app) /\ HomesKept(disk, jobs, erased))'
  <2> SUFFICES ASSUME ~Slipped({"rekeyed", "partial", "crossed"})
               PROVE  KeysKept(disk', app) /\ HomesKept(disk', jobs', erased)
    BY <1>3 DEF Slipped
  <2>1. KeysKept(disk, app) /\ HomesKept(disk, jobs, erased) /\ "crossed" \notin slips
    BY DEF VaultInv, Slipped
  <2>2. ~disk.mode[x].row /\ c.key = disk.mkey
    BY <1>6, <1>11, <2>1
  <2>3. KeysKept(disk', app)
    BY <1>7, <1>8, <2>1, <2>2 DEF KeysKept
  <2>4. \A q : \A w \in VaultIds : RowOf(disk, w, q) => RowOf(disk', w, q)
    BY <1>7 DEF RowOf
  <2>5. \A q : \A y \in Assets : CopyOf(disk, y, q) => CopyOf(disk', y, q) /\ y # x
    BY <1>8, <2>2 DEF CopyOf
  <2>6. \A q : Somewhere(disk, q) => Somewhere(disk', q)
    BY <1>7, <2>4, <2>5 DEF Somewhere
  <2>7. ASSUME NEW q, NEW n, Outlives(disk, jobs, q, n) PROVE Outlives(disk', jobs', q, n)
    <3>1. \A k \in DOMAIN jobs' : Moving(jobs'[k]) => k \in DOMAIN jobs /\ jobs'[k] = jobs[k]
      BY <1>10, <1>13
    <3>2. \A k \in DOMAIN jobs' :
            Hiding(jobs'[k]) => (k \in DOMAIN jobs /\ jobs'[k] = jobs[k]) \/ ~CopyOf(disk, First(jobs'[k]), q)
      BY <1>10, <1>13, <2>2 DEF CopyOf
    <3> QED BY <1>7, <2>4, <2>5, <2>7, <3>1, <3>2, OutlivesStays
  <2>8. \A k \in DOMAIN jobs : Moving(jobs[k]) => jobs[k].id \in VaultIds
    BY MovingNow
  <2>9. HomesKept(disk', jobs', erased)
    BY <1>3, <1>10, <2>1, <2>4, <2>6, <2>7, <2>8, HomesTurn
  <2> QED BY <2>3, <2>9
<1>15. Clean(disk) => Clean(disk')
  BY <1>6, <1>8 DEF Clean
<1> QED BY <1>3, <1>4, <1>7, <1>8, <1>10, <1>12, <1>14, <1>15, SlipsNow, Turns

(* An encrypted photo is deleted from the library, or its copy rolled back. *)
LEMMA EncryptDeletedSafe ==
  ASSUME VaultInv, NEW i \in DOMAIN jobs, NEW ok \in BOOLEAN, NEW gone \in BOOLEAN, EncryptDeleted(i, ok, gone)
  PROVE  VaultInv'
<1>1. PICK a, j : /\ a = Item(i)
                  /\ j = IF Kept(ok, a, Left(a, gone)) THEN Passed(jobs[i]) ELSE FailedOne(jobs[i])
  OBVIOUS
<1>2. /\ jobs[i].op = "enable" /\ jobs[i].at = "deleting" /\ (ok => gone)
      /\ app' = app /\ slips' = slips /\ erased' = erased /\ jobs' = [jobs EXCEPT ![i] = j]
  BY <1>1 DEF EncryptDeleted, Deletion, Becomes, Step, At
<1>3. /\ Shape(jobs[i]) /\ Migrates(jobs[i]) /\ Hiding(jobs[i]) /\ First(jobs[i]) = a
      /\ jobs[i].todo \in Seq(Assets) /\ jobs[i].todo # <<>> /\ a = Head(jobs[i].todo)
  BY <1>1, <1>2, ShapeAll DEF Shape, Migrates, Hiding, First, Item
<1>4. a \in Assets /\ a[1] \in Photos /\ a[2] \in Nat /\ OnDisk(disk)
  <2>1. a \in Assets /\ OnDisk(disk)
    BY <1>3, TailOf DEF VaultInv, DiskOk
  <2> QED BY <2>1 DEF Assets
<1>5. Fresh(j) /\ j.op = "enable" /\ j.at = "item" /\ j.todo = Tail(jobs[i].todo)
  <2>1. j = Passed(jobs[i]) \/ j = FailedOne(jobs[i])
    BY <1>1
  <2>2. Fresh(Passed(jobs[i])) /\ Fresh(FailedOne(jobs[i]))
    BY <1>2, <1>3, MigrationItem
  <2>3. /\ Passed(jobs[i]).op = "enable" /\ Passed(jobs[i]).at = "item" /\ Passed(jobs[i]).todo = Tail(jobs[i].todo)
        /\ FailedOne(jobs[i]).op = "enable" /\ FailedOne(jobs[i]).at = "item"
        /\ FailedOne(jobs[i]).todo = Tail(jobs[i].todo)
    BY <1>2, <1>3, NextItem DEF Tasks
  <2> QED BY <2>1, <2>2, <2>3
<1>6. Knows(j, disk') /\ ~Moving(j) /\ ~Hiding(j) /\ Migrates(j)
  BY <1>5 DEF Fresh, Knows, Migrates
<1>7. jobs'[i] = j /\ DOMAIN jobs' = DOMAIN jobs /\ \A k \in DOMAIN jobs : k # i => jobs'[k] = jobs[k]
  BY <1>2, ShapeAll
<1>8. "crossed" \notin slips => /\ disk.mode[a].row
                               /\ Distinct(Tail(jobs[i].todo))
                               /\ \A k \in 1..Len(Tail(jobs[i].todo)) : ~disk.mode[Tail(jobs[i].todo)[k]].row
  <2> SUFFICES ASSUME "crossed" \notin slips
               PROVE  /\ disk.mode[a].row
                      /\ Distinct(Tail(jobs[i].todo))
                      /\ \A k \in 1..Len(Tail(jobs[i].todo)) : ~disk.mode[Tail(jobs[i].todo)[k]].row
    OBVIOUS
  <2>1. KnowsAlone(jobs[i], disk)
    BY DEF VaultInv, Alone
  <2>2. /\ disk.mode[a].row /\ Distinct(jobs[i].todo)
        /\ \A k \in 2..Len(jobs[i].todo) : ~disk.mode[jobs[i].todo[k]].row
    BY <1>2, <1>3, <2>1 DEF KnowsAlone
  <2> QED BY <1>3, <2>2, TailOf
<1>9. "crossed" \notin slips => \A k \in DOMAIN jobs' : ~Hiding(jobs'[k])
  BY <1>3, <1>6, <1>7 DEF VaultInv, Alone, Hiding, Migrates
<1>10. ASSUME Kept(ok, a, Left(a, gone)) PROVE VaultInv'
  <2>1. disk' = [disk EXCEPT !.media = Left(a, gone)]
    BY <1>1, <1>10 DEF EncryptDeleted
  <2>2. Left(a, gone) = disk.media \ {a}
    BY <1>2, <1>10 DEF Kept, Left
  <2>3. /\ DOMAIN disk' = DOMAIN disk /\ disk'.media = disk.media \ {a} /\ disk'.saves = disk.saves
        /\ disk'.vault = disk.vault /\ disk'.mode = disk.mode /\ disk'.vkey = disk.vkey /\ disk'.mkey = disk.mkey
        /\ disk'.last = disk.last
    BY <1>4, <2>1, <2>2 DEF OnDisk
  <2>4. DiskOk(disk)' /\ Grows(disk, disk')
    <3>1. DiskOk(disk)
      BY DEF VaultInv
    <3> QED BY <1>4, <2>3, <3>1, GrowsSelf DEF OnDisk, DiskOk, Grows
  <2>5. "crossed" \notin slips => KnowsAlone(j, disk')
    BY <1>5, <1>8, <2>3 DEF KnowsAlone
  <2>6. (~Slipped({"rekeyed", "partial", "crossed"}) => KeysKept(disk, app) /\ HomesKept(disk, jobs, erased))'
    <3> SUFFICES ASSUME ~Slipped({"rekeyed", "partial", "crossed"})
                 PROVE  KeysKept(disk', app) /\ HomesKept(disk', jobs', erased)
      BY <1>2 DEF Slipped
    <3>1. KeysKept(disk, app) /\ HomesKept(disk, jobs, erased) /\ "crossed" \notin slips
      BY DEF VaultInv, Slipped
    <3>2. KeysKept(disk', app)
      BY <2>3, <3>1 DEF KeysKept
    <3>3. \A p : \A v \in VaultIds : RowOf(disk, v, p) => RowOf(disk', v, p)
      BY <2>3 DEF RowOf
    <3>4. \A p : \A x \in Assets : CopyOf(disk, x, p) => CopyOf(disk', x, p)
      BY <2>3 DEF CopyOf
    <3>5. CopyOf(disk', a, a[1])
      BY <1>8, <2>3, <3>1 DEF CopyOf
    <3>6. \A k \in DOMAIN jobs' : Moving(jobs'[k]) => k \in DOMAIN jobs /\ jobs'[k] = jobs[k]
      BY <1>6, <1>7
    <3>7. \A k \in DOMAIN jobs' : ~Hiding(jobs'[k])
      BY <1>9, <3>1
    <3>8. \A p : Somewhere(disk, p) => Somewhere(disk', p)
      <4>1. \A p : p = a[1] => Somewhere(disk', p)
        BY <1>4, <3>5 DEF Somewhere
      <4>2. \A p : p # a[1] /\ Somewhere(disk, p) => Somewhere(disk', p)
        BY <2>3, <3>3, <3>4 DEF Somewhere
      <4> QED BY <4>1, <4>2
    <3>9. \A n : Outlives(disk', jobs', a[1], n)
      BY <1>4, <3>5, <3>7 DEF Outlives
    <3>10. ASSUME NEW p, NEW n, Outlives(disk, jobs, p, n) PROVE Outlives(disk', jobs', p, n)
      <4>1. \A b \in disk.media : b[1] = p /\ n < b[2] => b \in disk'.media \/ Outlives(disk', jobs', p, n)
        BY <2>3, <3>9
      <4> QED BY <3>3, <3>4, <3>6, <3>7, <3>10, <4>1, OutlivesStays
    <3>11. \A k \in DOMAIN jobs : Moving(jobs[k]) => jobs[k].id \in VaultIds
      BY MovingNow
    <3>12. HomesKept(disk', jobs', erased)
      BY <1>2, <1>6, <3>1, <3>3, <3>8, <3>10, <3>11, HomesTurn
    <3> QED BY <3>2, <3>12
  <2>7. Clean(disk) => Clean(disk')
    BY <2>3 DEF Clean
  <2> QED BY <1>2, <1>3, <1>6, <2>3, <2>4, <2>5, <2>6, <2>7, SlipsNow, Turns
<1>11. ASSUME ~Kept(ok, a, Left(a, gone)) PROVE VaultInv'
  <2>1. a \in disk.media /\ Left(a, gone) = disk.media
    BY <1>11 DEF Kept, Left
  <2>2. disk' = [disk EXCEPT !.media = Left(a, gone), !.mode[a] = NoCopy]
    BY <1>1, <1>4, <1>11 DEF EncryptDeleted, OnDisk
  <2>3. /\ DOMAIN disk' = DOMAIN disk /\ disk'.mode = [disk.mode EXCEPT ![a] = NoCopy] /\ disk'.media = disk.media
        /\ disk'.saves = disk.saves /\ disk'.vault = disk.vault /\ disk'.vkey = disk.vkey /\ disk'.mkey = disk.mkey
        /\ disk'.last = disk.last
    BY <1>4, <2>1, <2>2 DEF OnDisk
  <2>4. NoCopy \in CopySet /\ ~NoCopy.row /\ NoCopy.plain = "none" /\ ~NoCopy.small
    BY DEF NoCopy, CopySet
  <2>5. /\ DiskOk(disk)' /\ Grows(disk, disk')
        /\ disk'.mode[a] = NoCopy /\ \A x \in Assets : x # a => disk'.mode[x] = disk.mode[x]
    <3>1. Kindred(disk')
      BY <2>3, SavesNow DEF Kindred
    <3>2. CopyFits(disk', a, NoCopy)
      BY <1>4, <2>3, <2>4, <3>1 DEF CopyFits
    <3> QED BY <3>2, CopyWritten
  <2>6. \A x \in Assets : disk'.mode[x].row => disk.mode[x].row /\ x # a
    BY <2>4, <2>5
  <2>7. "crossed" \notin slips => KnowsAlone(j, disk')
    <3> SUFFICES ASSUME "crossed" \notin slips PROVE KnowsAlone(j, disk')
      OBVIOUS
    <3>1. \A k \in 1..Len(j.todo) : j.todo[k] \in Assets
      BY <1>3, <1>5, TailOf
    <3>2. Distinct(j.todo) /\ \A k \in 1..Len(j.todo) : ~disk'.mode[j.todo[k]].row
      BY <1>5, <1>8, <2>6, <3>1
    <3> QED BY <1>5, <3>2 DEF KnowsAlone
  <2>8. (~Slipped({"rekeyed", "partial", "crossed"}) => KeysKept(disk, app) /\ HomesKept(disk, jobs, erased))'
    <3> SUFFICES ASSUME ~Slipped({"rekeyed", "partial", "crossed"})
                 PROVE  KeysKept(disk', app) /\ HomesKept(disk', jobs', erased)
      BY <1>2 DEF Slipped
    <3>1. KeysKept(disk, app) /\ HomesKept(disk, jobs, erased)
      BY DEF VaultInv
    <3>2. KeysKept(disk', app)
      BY <2>3, <2>5, <2>6, <3>1 DEF KeysKept
    <3>3. \A p : \A v \in VaultIds : RowOf(disk, v, p) => RowOf(disk', v, p)
      BY <2>3 DEF RowOf
    <3>4. \A p : \A x \in Assets : CopyOf(disk, x, p) => CopyOf(disk', x, p) \/ (x = a /\ p = a[1])
      BY <2>5 DEF CopyOf
    <3>5. \A k \in DOMAIN jobs' : Moving(jobs'[k]) => k \in DOMAIN jobs /\ jobs'[k] = jobs[k]
      BY <1>6, <1>7
    <3>6. \A k \in DOMAIN jobs' : Hiding(jobs'[k]) => k \in DOMAIN jobs /\ jobs'[k] = jobs[k]
      BY <1>6, <1>7
    <3>7. \A p : Somewhere(disk, p) => Somewhere(disk', p)
      BY <2>1, <2>3, <3>3, <3>4 DEF Somewhere
    <3>8. ASSUME NEW p, NEW n, Outlives(disk, jobs, p, n) PROVE Outlives(disk', jobs', p, n)
      <4>1. ASSUME NEW x \in Assets, CopyOf(disk, x, p),
                   \A k \in DOMAIN jobs : (Hiding(jobs[k]) /\ First(jobs[k]) = x) => n < x[2]
            PROVE  CopyOf(disk', x, p) \/ Outlives(disk', jobs', p, n)
        <5>1. CASE x = a /\ p = a[1]
          <6>1. n < a[2]
            BY <1>3, <4>1, <5>1
          <6> QED BY <2>1, <2>3, <5>1, <6>1 DEF Outlives
        <5> QED BY <3>4, <4>1, <5>1
      <4> QED BY <2>3, <3>3, <3>5, <3>6, <3>8, <4>1, OutlivesStays
    <3>9. \A k \in DOMAIN jobs : Moving(jobs[k]) => jobs[k].id \in VaultIds
      BY MovingNow
    <3>10. HomesKept(disk', jobs', erased)
      BY <1>2, <1>6, <3>1, <3>3, <3>7, <3>8, <3>9, HomesTurn
    <3> QED BY <3>2, <3>10
  <2>9. Clean(disk) => Clean(disk')
    BY <2>4, <2>5 DEF Clean
  <2> QED BY <1>2, <1>3, <1>6, <2>3, <2>5, <2>7, <2>8, <2>9, SlipsNow, Turns
<1> QED BY <1>10, <1>11

(* --------------------------- the whole specification --------------------- *)

LEMMA VaultBegins == ASSUME VaultInit PROVE VaultInv
<1>1. /\ disk \in VaultDisks /\ app = [NoApp EXCEPT !.stamp = Cardinality(disk.legacy)]
      /\ slips = {} /\ erased = {} /\ jobs = <<>>
  BY DEF VaultInit, Refreshed
<1>2. /\ disk \in Disk
      /\ \A a \in disk.media : a[2] <= disk.saves[a[1]]
      /\ \A v \in VaultIds : Filed(disk.vault[v], disk.vkey) /\ (disk.vault[v].row => disk.vault[v].of # Nil)
      /\ \A a \in Assets : /\ Filed(disk.mode[a], disk.mkey)
                           /\ IF disk.mode[a].row THEN ~disk.mode[a].small /\ disk.mode[a].stuck = {}
                                                 ELSE disk.mode[a] = NoCopy
      /\ \A p \in Photos : \/ \E a \in disk.media : a[1] = p
                           \/ \E v \in VaultIds : disk.vault[v].row /\ disk.vault[v].of = p
                           \/ \E a \in Assets : disk.mode[a].row /\ a[1] = p
  BY <1>1, DisksAssumption
<1>3. OnDisk(disk)
  BY <1>2 DEF Disk, OnDisk, EntrySet, CopySet
<1>4. DiskOk(disk)
  BY <1>2, <1>3 DEF DiskOk, Filed
<1>5. AppOk(app) /\ app.mkey = 0 /\ app.vkey = 0
  BY <1>1 DEF AppOk, NoApp, NoMode
<1>6. <<>> \in Seq(ToSet(<<>>)) /\ DOMAIN <<>> = {}
  OBVIOUS
<1>7. JobsOk(jobs, disk) /\ Alone(jobs, app, disk)
  BY <1>1, <1>6 DEF JobsOk, Alone
<1>8. KeysKept(disk, app)
  BY <1>2, <1>5 DEF KeysKept, Filed
<1>9. HomesKept(disk, jobs, erased)
  BY <1>1, <1>2, <1>6 DEF HomesKept, Somewhere, RowOf, CopyOf
<1>10. Clean(disk)
  BY <1>2 DEF Clean, Filed, NoCopy
<1> QED BY <1>1, <1>4, <1>5, <1>7, <1>8, <1>9, <1>10 DEF VaultInv, Slipped

LEMMA StepsSafe == ASSUME VaultInv, VaultSteps PROVE VaultInv'
<1>1. PICK i \in DOMAIN jobs :
        \/ KeyRead(i) \/ KeyMinted(i)
        \/ ImportStored(i) \/ ImportFailed(i) \/ \E ok, gone \in BOOLEAN : ImportDeleted(i, ok, gone)
        \/ ExportOpened(i) \/ ExportSaved(i) \/ ExportUnsaved(i) \/ VaultCut(i)
        \/ GridItem(i) \/ Played(i) \/ PlayFailed(i)
        \/ SetUp(i) \/ EncryptTaken(i) \/ EncryptStored(i) \/ EncryptFailed(i)
        \/ \E ok, gone \in BOOLEAN : EncryptDeleted(i, ok, gone)
        \/ RestoreOpened(i) \/ RestoreCut(i) \/ RestoreSaved(i) \/ RestoreUnsaved(i)
        \/ PreviewItem(i)
  BY DEF VaultSteps
<1>2. CASE KeyRead(i)
  BY <1>2, KeyReadSafe
<1>3. CASE KeyMinted(i)
  BY <1>3, KeyMintedSafe
<1>4. CASE ImportStored(i)
  BY <1>4, ImportStoredSafe
<1>5. CASE \E ok, gone \in BOOLEAN : ImportDeleted(i, ok, gone)
  BY <1>5, ImportDeletedSafe
<1>6. CASE ImportFailed(i) \/ ExportUnsaved(i) \/ VaultCut(i) \/ GridItem(i)
  BY <1>6, ItemsSafe
<1>7. CASE ExportOpened(i)
  BY <1>7, ExportOpenedSafe
<1>8. CASE ExportSaved(i)
  BY <1>8, ExportSavedSafe
<1>9. CASE Played(i) \/ PlayFailed(i)
  BY <1>9, PlaySafe
<1>10. CASE SetUp(i)
  BY <1>10, SetUpSafe
<1>11. CASE EncryptTaken(i) \/ EncryptFailed(i)
  BY <1>11, EncryptSafe
<1>12. CASE EncryptStored(i)
  BY <1>12, EncryptStoredSafe
<1>13. CASE \E ok, gone \in BOOLEAN : EncryptDeleted(i, ok, gone)
  BY <1>13, EncryptDeletedSafe
<1>14. CASE RestoreOpened(i) \/ RestoreCut(i) \/ RestoreUnsaved(i)
  BY <1>14, RestoreSafe
<1>15. CASE RestoreSaved(i)
  BY <1>15, RestoreSavedSafe
<1>16. CASE PreviewItem(i)
  BY <1>16, PreviewSafe
<1> QED BY <1>1, <1>2, <1>3, <1>4, <1>5, <1>6, <1>7, <1>8, <1>9, <1>10, <1>11, <1>12, <1>13, <1>14, <1>15, <1>16

LEMMA AnswersSafe == ASSUME VaultInv, VaultAnswers PROVE VaultInv'
<1>1. PICK i \in DOMAIN jobs :
        \/ ConfigBack(i) \/ PinTimer(i) \/ SetupWritten(i) \/ BioBack(i)
        \/ ExportOver(i) \/ GridOver(i) \/ ImportOver(i) \/ RemoveBack(i) \/ AskBack(i)
        \/ RefreshBack(i) \/ EnableFailed(i) \/ EnableOver(i) \/ UnlockBack(i)
        \/ DisableChecked(i) \/ DisableOver(i) \/ PreviewsOver(i)
  BY DEF VaultAnswers
<1>2. CASE ConfigBack(i) \/ BioBack(i) \/ ExportOver(i) \/ GridOver(i) \/ AskBack(i) \/ RefreshBack(i) \/ PreviewsOver(i)
  BY <1>2, Answers
<1>3. CASE PinTimer(i)
  BY <1>3, PinTimerSafe
<1>4. CASE SetupWritten(i)
  BY <1>4, SetupWrittenSafe
<1>5. CASE ImportOver(i)
  BY <1>5, ImportOverSafe
<1>6. CASE RemoveBack(i)
  BY <1>6, RemoveBackSafe
<1>7. CASE EnableFailed(i) \/ EnableOver(i)
  BY <1>7, EnableEnds
<1>8. CASE UnlockBack(i)
  BY <1>8, UnlockBackSafe
<1>9. CASE DisableChecked(i)
  BY <1>9, DisableCheckedSafe
<1>10. CASE DisableOver(i)
  BY <1>10, DisableOverSafe
<1> QED BY <1>1, <1>2, <1>3, <1>4, <1>5, <1>6, <1>7, <1>8, <1>9, <1>10

LEMMA TapsSafe == ASSUME VaultInv, VaultScreenNext PROVE VaultInv'
<1>1. CASE \/ OpenLocked \/ StartSetup \/ (\E p \in Pins : EnterPin(p)) \/ ErasePin
           \/ (\E b \in BOOLEAN : ChooseBiometric(b)) \/ TryBiometric \/ SwitchGate \/ CloseLocked \/ RunMigration
  BY <1>1, FolderTaps
<1>2. CASE \/ \E s \in Picks : LockedDelete(s) \/ LockedUnlock(s)
           \/ \E v \in VaultIds : PlayVideo(v)
           \/ \E s \in SUBSET disk.media : GalleryMove(s) \/ GalleryRemove(s)
  BY <1>2, LockedTaps
<1>3. CASE \E ok \in BOOLEAN : Confirm(ok)
  BY <1>3, ConfirmSafe
<1>4. CASE OpenMode \/ CloseMode \/ \E r \in BOOLEAN : UnlockMode(r) \/ DisableMode(r)
  BY <1>4, ModeTaps
<1>5. CASE EnableMode
  BY <1>5, EnableModeSafe
<1>6. CASE \E left \in SUBSET Decrypted(disk) :
             LockMode(left) \/ \E entries \in SUBSET DecryptedEntries(disk) : Background(left, entries)
  BY <1>6, LockSafe
<1>7. CASE \E x \in Assets : OpenOriginal(x)
  BY <1>7, OpenOriginalSafe
<1>8. CASE Crash
  BY <1>8, CrashSafe
<1> QED BY <1>1, <1>2, <1>3, <1>4, <1>5, <1>6, <1>7, <1>8 DEF VaultScreenNext

(* The vault is in order, and lies idle while the user is elsewhere. *)
LibraryInv == VaultSafe /\ (area # "vault" => Clean(disk))

LEMMA LibraryBegins == LibraryInit => LibraryInv
<1>1. ASSUME VaultInit, area = "vault" PROVE LibraryInv
  BY <1>1, VaultBegins DEF LibraryInv, VaultSafe
<1>2. ASSUME VaultIdle, area # "vault" PROVE LibraryInv
  <2>1. disk.mode = [x \in Assets |-> NoCopy]
    BY <1>2 DEF VaultIdle
  <2> QED BY <1>2, <2>1 DEF LibraryInv, VaultSafe, Clean, NoCopy
<1> QED BY <1>1, <1>2 DEF LibraryInit

LEMMA LibraryGoesOn == LibraryInv /\ [LibraryNext]_libraryVars => LibraryInv'
<1> SUFFICES ASSUME LibraryInv, [LibraryNext]_libraryVars PROVE LibraryInv'
  OBVIOUS
<1>1. ASSUME InVault, UNCHANGED area PROVE LibraryInv'
  <2>1. VaultInv /\ area = "vault" /\ (VaultSteps \/ VaultScreenNext \/ VaultAnswers)
    BY <1>1 DEF InVault, VaultNext, LibraryInv, VaultSafe
  <2>2. VaultInv'
    BY <2>1, StepsSafe, TapsSafe, AnswersSafe
  <2> QED BY <1>1, <2>1, <2>2 DEF LibraryInv, VaultSafe
<1>2. ASSUME UNCHANGED vaultVars, UNCHANGED area, area # "vault" PROVE LibraryInv'
  BY <1>2 DEF LibraryInv, VaultSafe, vaultVars
<1>3. ASSUME InImport \/ InUpload \/ InGallery \/ InFeed \/ InGrid PROVE UNCHANGED vaultVars /\ area # "vault"
  BY <1>3 DEF InImport, InUpload, InGallery, InFeed, InGrid
<1>4. ASSUME UNCHANGED libraryVars PROVE LibraryInv'
  <2>1. UNCHANGED <<area, jobs, disk, app, slips, erased>>
    BY <1>4 DEF libraryVars, jobVars, vaultVars
  <2> QED BY <2>1 DEF LibraryInv, VaultSafe, VaultInv, Slipped
<1> QED BY <1>1, <1>2, <1>3, <1>4 DEF LibraryNext

(* Whatever the user does, the system refuses and the app forgets, the vault
   and the encrypted mode keep this invariant: rows have their files and keys,
   promises in flight know where their photo is, and every photo has a home
   that outlives what is still to be deleted. *)
THEOREM LibraryInvariant == LibrarySpec => []LibraryInv
<1>1. LibraryInv /\ [LibraryNext]_libraryVars => LibraryInv'
  BY LibraryGoesOn
<1> QED BY <1>1, LibraryBegins, PTL DEF LibrarySpec

(* A photo the user did not delete is in the library of the device, or
   encrypted under the key that is stored, through every move to the Locked
   Folder and back, every migration of the encrypted mode, refused or cut off
   wherever it may be (hidden-vault.ts, encrypted-mode.ts). *)
THEOREM PhotosKept == LibrarySpec => []NothingLost
<1>1. LibraryInv => NothingLost
  <2> SUFFICES ASSUME LibraryInv, area = "vault", slips \cap {"rekeyed", "partial", "crossed"} = {},
                      NEW p \in Photos \ erased
               PROVE  InLibrary(p) \/ InVaultOf(p) \/ InCopyOf(p)
    BY DEF NothingLost
  <2>1. VaultInv /\ ~Slipped({"rekeyed", "partial", "crossed"})
    BY DEF LibraryInv, VaultSafe, Slipped
  <2>2. DiskOk(disk) /\ KeysKept(disk, app) /\ Somewhere(disk, p)
    BY <2>1 DEF VaultInv, HomesKept
  <2>3. CASE \E a \in disk.media : a[1] = p
    BY <2>3 DEF InLibrary
  <2>4. CASE \E v \in VaultIds : RowOf(disk, v, p)
    BY <2>2, <2>4 DEF InVaultOf, Rows, RowOf, DiskOk, KeysKept
  <2>5. CASE \E x \in Assets : CopyOf(disk, x, p)
    BY <2>2, <2>5 DEF InCopyOf, Copies, CopyOf, DiskOk, KeysKept
  <2> QED BY <2>2, <2>3, <2>4, <2>5 DEF Somewhere
<1> QED BY <1>1, LibraryInvariant, PTL

(* Once the encrypted mode is locked, nothing decrypted with its key is on
   the device but the files the last lock could not delete, short of a crash
   or of two migrations at once: whatever was running when it locked writes
   none afterwards (lockEncryptedMode and the session caches it purges). *)
THEOREM PlaintextGone == LibrarySpec => []ModePlaintextGone
<1>1. LibraryInv => ModePlaintextGone
  BY DEF LibraryInv, VaultSafe, VaultInv, ModePlaintextGone, Clean, Slipped
<1> QED BY <1>1, LibraryInvariant, PTL

(* ------------- the Photos tab: steps that leave the photos alone --------- *)

LEMMA PlainJob ==
  ASSUME NEW o \in {"months", "newer", "video"}
  PROVE  Job(o) \in FeedJobs /\ Job(o).op = o /\ Job(o).op \notin Loads
BY DEF Job, FeedJobs, PlainJobs, Loads

LEMMA Appended ==
  ASSUME NEW js \in Seq(FeedJobs), NEW j \in FeedJobs
  PROVE  js \o <<j>> = Append(js, j)
OBVIOUS

(* A flag that no page depends on. *)
LEMMA MonthsAlike ==
  ASSUME NEW f \in Feeds, NEW b \in BOOLEAN, NEW g, g = [f EXCEPT !.months = b]
  PROVE  g \in Feeds /\ FeedAlike(f, g) /\ g.cloudBusy = f.cloudBusy
BY DEF Feeds, FeedAlike

LEMMA ViewingAlike ==
  ASSUME NEW f \in Feeds, NEW b \in BOOLEAN, NEW g, g = [f EXCEPT !.viewing = b]
  PROVE  g \in Feeds /\ FeedAlike(f, g) /\ g.cloudBusy = f.cloudBusy
BY DEF Feeds, FeedAlike

LEMMA VideoAlike ==
  ASSUME NEW f \in Feeds, NEW v \in Players, NEW g, g = [f EXCEPT !.video = v]
  PROVE  g \in Feeds /\ FeedAlike(f, g) /\ g.cloudBusy = f.cloudBusy
BY DEF Feeds, FeedAlike

LEMMA MonthsOk ==
  ASSUME FeedOk(feed, jobs, pool), NEW i \in DOMAIN jobs, MonthsBack(i) \/ MonthsFailed(i)
  PROVE  FeedOk(feed, jobs, pool)'
<1>1. feed \in Feeds /\ jobs \in Seq(FeedJobs)
  BY OkTyped
<1>2. jobs[i].op = "months" /\ jobs' = RemoveAt(jobs, i) /\ pool' = pool
  BY DEF MonthsBack, MonthsFailed, At, Ends, feedVars
<1>3. KeepsLoads(jobs, jobs')
  BY <1>1, <1>2, QuietLess DEF Loads
<1>4. feed' \in Feeds /\ FeedAlike(feed, feed') /\ feed'.cloudBusy = feed.cloudBusy
  <2>1. CASE MonthsBack(i)
    <3>1. feed' = [feed EXCEPT !.months = TRUE]
      BY <2>1 DEF MonthsBack
    <3> QED BY <1>1, <3>1, MonthsAlike
  <2>2. CASE MonthsFailed(i)
    <3>1. feed' = feed
      BY <2>2 DEF MonthsFailed, feedVars
    <3> QED BY <1>1, <3>1, SameFeed
  <2> QED BY <2>1, <2>2
<1>5. FeedOk(feed', jobs', pool)
  BY <1>3, <1>4, QuietOk
<1> QED BY <1>2, <1>5

LEMMA VideoOk ==
  ASSUME FeedOk(feed, jobs, pool), NEW i \in DOMAIN jobs, NEW ok \in BOOLEAN, VideoBack(i, ok)
  PROVE  FeedOk(feed, jobs, pool)'
<1>1. feed \in Feeds /\ jobs \in Seq(FeedJobs)
  BY OkTyped
<1>2. jobs[i].op = "video" /\ jobs' = RemoveAt(jobs, i) /\ pool' = pool
  BY DEF VideoBack, At, Ends
<1>3. KeepsLoads(jobs, jobs')
  BY <1>1, <1>2, QuietLess DEF Loads
<1>4. feed' \in Feeds /\ FeedAlike(feed, feed') /\ feed'.cloudBusy = feed.cloudBusy
  <2>1. PICK v \in Players : v = IF ok THEN "ready" ELSE "error"
    BY DEF Players
  <2>2. feed' = feed \/ feed' = [feed EXCEPT !.video = v]
    BY <2>1, Zenon DEF VideoBack
  <2>3. CASE feed' = feed
    BY <1>1, <2>3, SameFeed
  <2>4. CASE feed' = [feed EXCEPT !.video = v]
    BY <1>1, <2>4, VideoAlike
  <2> QED BY <2>2, <2>3, <2>4
<1>5. FeedOk(feed', jobs', pool)
  BY <1>3, <1>4, QuietOk
<1> QED BY <1>2, <1>5

LEMMA CloseVideoOk ==
  ASSUME FeedOk(feed, jobs, pool), CloseVideo
  PROVE  FeedOk(feed, jobs, pool)'
<1>1. feed \in Feeds /\ jobs \in Seq(FeedJobs)
  BY OkTyped
<1>2. jobs' = Orphaned(jobs, {"video"}) /\ pool' = pool /\ feed' = [feed EXCEPT !.video = "none"]
  BY DEF CloseVideo, Holds
<1>3. KeepsLoads(jobs, jobs')
  BY <1>1, <1>2, QuietOrphaned DEF Loads
<1>4. feed' \in Feeds /\ FeedAlike(feed, feed') /\ feed'.cloudBusy = feed.cloudBusy
  <2>1. PICK v \in Players : v = "none"
    BY DEF Players
  <2>2. feed' = [feed EXCEPT !.video = v]
    BY <1>2, <2>1
  <2> QED BY <1>1, <2>2, VideoAlike
<1>5. FeedOk(feed', jobs', pool)
  BY <1>3, <1>4, QuietOk
<1> QED BY <1>2, <1>5

LEMMA PlayOk ==
  ASSUME FeedOk(feed, jobs, pool), NEW p, PlayCloudVideo(p)
  PROVE  FeedOk(feed, jobs, pool)'
<1>1. feed \in Feeds /\ jobs \in Seq(FeedJobs)
  BY OkTyped
<1>2. jobs' = Append(jobs, Job("video")) /\ pool' = pool /\ feed' = [feed EXCEPT !.video = "loading"]
  BY DEF PlayCloudVideo, Holds
<1>3. KeepsLoads(jobs, jobs')
  BY <1>1, <1>2, QuietMore, PlainJob
<1>4. feed' \in Feeds /\ FeedAlike(feed, feed') /\ feed'.cloudBusy = feed.cloudBusy
  <2>1. PICK v \in Players : v = "loading"
    BY DEF Players
  <2>2. feed' = [feed EXCEPT !.video = v]
    BY <1>2, <2>1
  <2> QED BY <1>1, <2>2, VideoAlike
<1>5. FeedOk(feed', jobs', pool)
  BY <1>3, <1>4, QuietOk
<1> QED BY <1>2, <1>5

LEMMA OpenViewerOk ==
  ASSUME FeedOk(feed, jobs, pool), OpenViewer
  PROVE  FeedOk(feed, jobs, pool)'
<1>1. feed \in Feeds /\ jobs \in Seq(FeedJobs)
  BY OkTyped
<1>2. jobs' = jobs /\ pool' = pool /\ feed' = [feed EXCEPT !.viewing = TRUE]
  BY DEF OpenViewer
<1>3. KeepsLoads(jobs, jobs')
  BY <1>1, <1>2, QuietSame
<1>4. feed' \in Feeds /\ FeedAlike(feed, feed') /\ feed'.cloudBusy = feed.cloudBusy
  BY <1>1, <1>2, ViewingAlike
<1>5. FeedOk(feed', jobs', pool)
  BY <1>3, <1>4, QuietOk
<1> QED BY <1>2, <1>5

LEMMA LoadNewerOk ==
  ASSUME FeedOk(feed, jobs, pool), LoadNewer
  PROVE  FeedOk(feed, jobs, pool)'
<1>1. feed \in Feeds /\ jobs \in Seq(FeedJobs)
  BY OkTyped
<1>2. jobs' = jobs \o <<Job("newer")>> /\ pool' = pool /\ feed' = feed
  BY DEF LoadNewer, Begun, feedVars
<1>3. Job("newer") \in FeedJobs /\ Job("newer").op \notin Loads
  BY PlainJob
<1>4. jobs' = Append(jobs, Job("newer"))
  BY <1>1, <1>2, <1>3, Appended
<1>5. KeepsLoads(jobs, jobs')
  BY <1>1, <1>3, <1>4, QuietMore
<1>6. FeedOk(feed, jobs', pool)
  BY <1>1, <1>5, SameFeed, QuietOk
<1> QED BY <1>2, <1>6

LEMMA GridGranted == FeedGrid => feed.permission = "granted" /\ feed.device.before = feed.anchor /\ feed.cloud.before = feed.anchor
BY DEF FeedGrid, TimelineShown, Jumping

LEMMA LoadMoreOk ==
  ASSUME FeedOk(feed, jobs, pool), LoadMore
  PROVE  FeedOk(feed, jobs, pool)'
<1>1. PICK r : r = More(feed, jobs)
  OBVIOUS
<1>2. feed' = r.f /\ jobs' = r.js /\ pool' = pool /\ feed.permission = "granted"
  BY <1>1, GridGranted DEF LoadMore, Holds
<1>3. FeedOk(r.f, r.js, pool)
  BY <1>1, <1>2, MoreOk
<1>4. FeedOk(feed', jobs', pool')
  BY <1>2, <1>3
<1> QED BY <1>4

LEMMA RemovePhotosOk ==
  ASSUME FeedOk(feed, jobs, pool), NEW x, NEW how \in {"lock", "delete"}, RemovePhotos(x, how)
  PROVE  FeedOk(feed, jobs, pool)'
<1>1. feed \in Feeds /\ jobs \in Seq(FeedJobs) /\ pool \in Pools /\ WindowOk(feed, jobs, pool) /\ AskedOk(feed, jobs)
  BY OkTyped
<1>2. PICK j : j = [op |-> "removal", live |-> TRUE, photo |-> x, how |-> how]
  OBVIOUS
<1>3. jobs' = jobs \o <<j>> /\ pool' = pool /\ feed' = feed /\ feed.permission = "granted" /\ x \in pool.device
  BY <1>2, GridGranted DEF RemovePhotos, Begun, feedVars
<1>4. x \in PhoneTimes
  BY <1>1, <1>3 DEF Pools
<1>5. j \in FeedJobs /\ j.op = "removal" /\ j.photo = x
  BY <1>2, <1>4 DEF FeedJobs, TakeJobs
<1>6. Joins(FeedJobs, jobs, j, jobs')
  BY <1>1, <1>3, <1>5, Appended, FlyingMore
<1>7. /\ jobs' \in Seq(FeedJobs) /\ Flying(jobs', "firstPage") = Flying(jobs, "firstPage")
      /\ Flying(jobs', "nextPage") = Flying(jobs, "nextPage") /\ Flying(jobs', "reload") = Flying(jobs, "reload")
      /\ Flying(jobs', "cloudPage") = Flying(jobs, "cloudPage") /\ Flying(jobs', "removal") = Flying(jobs, "removal") \cup {j}
      /\ (AtMostOne(jobs, "nextPage") => AtMostOne(jobs', "nextPage"))
      /\ (AtMostOne(jobs, "cloudPage") => AtMostOne(jobs', "cloudPage"))
  BY <1>5, <1>6, Zenon DEF Joins
<1>8. Ungranted(feed, jobs')
  BY <1>3 DEF Ungranted
<1>9. ClockOk(feed, Flying(jobs', "removal"), pool)
  BY <1>1, <1>3, <1>5, <1>7 DEF WindowOk, ClockOk
<1>10. WindowOk(feed, jobs', pool)
  BY <1>1, <1>7, <1>8, <1>9 DEF WindowOk
<1>11. AskedOk(feed, jobs')
  BY <1>1, <1>7 DEF AskedOk
<1>12. FeedOk(feed, jobs', pool)
  BY <1>1, <1>7, <1>10, <1>11 DEF FeedOk, FeedSound, FeedTyped
<1> QED BY <1>3, <1>12

(* ---------------------- asking for the phone anew ------------------------ *)

LEMMA ChangeHeard ==
  ASSUME NEW f \in Feeds, NEW g, g = [f EXCEPT !.changed = FALSE]
  PROVE  /\ g \in Feeds /\ g.permission = f.permission /\ g.anchor = f.anchor /\ g.newer = f.newer /\ g.removed = f.removed
         /\ g.deleted = f.deleted /\ g.slips = f.slips /\ g.cloud = f.cloud /\ g.cloudBusy = f.cloudBusy
BY DEF Feeds

LEMMA Granted ==
  ASSUME NEW f \in Feeds, NEW g, g = [f EXCEPT !.permission = "granted"]
  PROVE  /\ g \in Feeds /\ g.permission = "granted" /\ g.anchor = f.anchor /\ g.newer = f.newer /\ g.removed = f.removed
         /\ g.deleted = f.deleted /\ g.slips = f.slips /\ g.cloud = f.cloud /\ g.cloudBusy = f.cloudBusy
BY DEF Feeds, Grants

LEMMA OthersAlike ==
  ASSUME NEW f, NEW g \in Feeds, NEW js, NEW p, FeedOk(f, js, p), g.anchor = f.anchor, g.newer = f.newer,
         g.removed = f.removed, g.deleted = f.deleted, g.slips = f.slips, g.cloud = f.cloud, g.cloudBusy = f.cloudBusy
  PROVE  FeedTyped(g, js, p) /\ OthersOk(g, js, p) /\ AskedOk(g, js)
<1>1. FeedTyped(f, js, p) /\ OthersOk(f, js, p) /\ AskedOk(f, js)
  BY OkTyped
<1>2. FeedTyped(g, js, p)
  BY <1>1 DEF FeedTyped
<1>3. OthersOk(g, js, p)
  BY <1>1, Zenon DEF OthersOk, CloudOk, CloudFits, NewerOk, ClockOk
<1>4. AskedOk(g, js)
  BY <1>1, Zenon DEF AskedOk, PagesOk
<1> QED BY <1>2, <1>3, <1>4

LEMMA LibraryChangedOk ==
  ASSUME FeedOk(feed, jobs, pool), LibraryChanged
  PROVE  FeedOk(feed, jobs, pool)'
<1>1. feed \in Feeds /\ WindowOk(feed, jobs, pool)
  BY OkTyped
<1>2. PICK g : g = [feed EXCEPT !.changed = FALSE]
  OBVIOUS
<1>3. PICK r : r = FirstAsked(g, jobs, feed.anchor)
  OBVIOUS
<1>4. pool' = pool /\ feed.changed /\ Effects(r.f, r.js)
  BY <1>2, <1>3, Zenon DEF LibraryChanged
<1>5. g.permission = "granted"
  BY <1>1, <1>2, <1>4, ChangeHeard DEF WindowOk, Ungranted
<1>6. FeedTyped(g, jobs, pool) /\ OthersOk(g, jobs, pool) /\ AskedOk(g, jobs)
  BY <1>1, <1>2, ChangeHeard, OthersAlike
<1>7. feed.anchor \in Anchors
  BY <1>1, FeedIs
<1>8. FeedOk(r.f, r.js, pool)
  BY <1>3, <1>5, <1>6, <1>7, FirstAskedOk DEF FeedOk
<1> QED BY <1>4, <1>8, EffectsOk

LEMMA AskPermissionOk ==
  ASSUME FeedOk(feed, jobs, pool), AskPermission
  PROVE  FeedOk(feed, jobs, pool)'
<1>1. feed \in Feeds
  BY OkTyped
<1>2. PICK g : g = [feed EXCEPT !.permission = "granted"]
  OBVIOUS
<1>3. PICK r : r = FirstAsked(g, jobs, feed.anchor)
  OBVIOUS
<1>4. pool' = pool /\ Effects(r.f, r.js)
  BY <1>2, <1>3, Zenon DEF AskPermission
<1>5. FeedTyped(g, jobs, pool) /\ OthersOk(g, jobs, pool) /\ AskedOk(g, jobs) /\ g.permission = "granted"
  BY <1>1, <1>2, Granted, OthersAlike
<1>6. feed.anchor \in Anchors
  BY <1>1, FeedIs
<1>7. FeedOk(r.f, r.js, pool)
  BY <1>3, <1>5, <1>6, FirstAskedOk DEF FeedOk
<1> QED BY <1>4, <1>7, EffectsOk

LEMMA PermissionBackOk ==
  ASSUME FeedOk(feed, jobs, pool), NEW i \in DOMAIN jobs, NEW granted \in BOOLEAN, PermissionBack(i, granted)
  PROVE  FeedOk(feed, jobs, pool)'
<1>1. feed \in Feeds /\ jobs \in Seq(FeedJobs)
  BY OkTyped
<1>2. PICK ks : ks = RemoveAt(jobs, i)
  OBVIOUS
<1>3. jobs[i].op = "permission" /\ pool' = pool
  BY DEF PermissionBack, At
<1>4. FeedOk(feed, ks, pool)
  BY <1>2, <1>3, LessOk
<1>5. CASE granted
  <2>1. PICK g : g = [feed EXCEPT !.permission = "granted"]
    OBVIOUS
  <2>2. PICK r : r = FirstAsked(g, ks, jobs[i].before)
    OBVIOUS
  <2>3. Effects(r.f, r.js)
    BY <1>2, <1>5, <2>1, <2>2, Zenon DEF PermissionBack
  <2>4. FeedTyped(g, ks, pool) /\ OthersOk(g, ks, pool) /\ AskedOk(g, ks) /\ g.permission = "granted"
    BY <1>1, <1>4, <2>1, Granted, OthersAlike
  <2>5. jobs[i] \in PermissionJobs
    BY <1>1, <1>3, EntriesIn, FeedJobIs
  <2>6. jobs[i].before \in Anchors
    BY <2>5 DEF PermissionJobs
  <2>7. FeedOk(r.f, r.js, pool)
    BY <2>2, <2>4, <2>6, FirstAskedOk DEF FeedOk
  <2> QED BY <1>3, <2>3, <2>7, EffectsOk
<1>6. CASE ~granted
  <2>1. PICK g : g = [feed EXCEPT !.permission = "denied", !.device.loading = FALSE]
    OBVIOUS
  <2>2. Effects(g, ks) /\ feed.permission # "granted"
    BY <1>2, <1>6, <2>1, Zenon DEF PermissionBack
  <2>3. g.device \in DeviceStates /\ g.device.items = feed.device.items /\ g.device.cursor = feed.device.cursor
        /\ g.device.ended = feed.device.ended /\ g.device.before = feed.device.before /\ g.device.cut = feed.device.cut
    BY <1>1, <2>1 DEF Feeds, DeviceStates
  <2>4. g \in Feeds
    BY <1>1, <2>1, <2>3 DEF Feeds, Grants
  <2>5. /\ g.permission # "granted" /\ g.anchor = feed.anchor /\ g.newer = feed.newer /\ g.removed = feed.removed
        /\ g.deleted = feed.deleted /\ g.slips = feed.slips /\ g.cloud = feed.cloud /\ g.cloudBusy = feed.cloudBusy
        /\ g.changed = feed.changed
    BY <1>1, <2>1 DEF Feeds
  <2>6. FeedTyped(g, ks, pool) /\ OthersOk(g, ks, pool) /\ AskedOk(g, ks)
    BY <1>4, <2>4, <2>5, OthersAlike
  <2>7. WindowOk(feed, ks, pool)
    BY <1>4, OkTyped
  <2>8. Ungranted(g, ks)
    BY <2>2, <2>3, <2>5, <2>7, Zenon DEF WindowOk, Ungranted
  <2>9. DeviceOk(g, Flying(ks, "firstPage"), Flying(ks, "nextPage"), pool.device)
    BY <2>3, <2>5, <2>7, Zenon DEF WindowOk, DeviceOk, DeviceFits
  <2>10. FeedOk(g, ks, pool)
    BY <2>6, <2>8, <2>9 DEF FeedOk, FeedSound, WindowOk, OthersOk
  <2> QED BY <1>3, <2>2, <2>10, EffectsOk
<1> QED BY <1>5, <1>6

LEMMA RefreshOk ==
  ASSUME FeedOk(feed, jobs, pool), Refresh
  PROVE  FeedOk(feed, jobs, pool)'
<1>1. feed \in Feeds /\ jobs \in Seq(FeedJobs) /\ OthersOk(feed, jobs, pool) /\ FeedTyped(feed, jobs, pool)
  BY OkTyped
<1>2. PICK g : g = [feed EXCEPT !.removed = {}]
  OBVIOUS
<1>3. PICK r : r = FirstAsked(g, jobs, feed.anchor)
  OBVIOUS
<1>4. PICK js1 : js1 = Without(r.js, "months")
  OBVIOUS
<1>5. PICK js2 : js2 = Append(js1, Job("months"))
  OBVIOUS
<1>6. PICK s : s = CloudAsked(r.f, js2, 1)
  OBVIOUS
<1>7. pool' = pool /\ Effects(s.f, s.js) /\ feed.permission = "granted"
  BY <1>2, <1>3, <1>4, <1>5, <1>6, GridGranted, Zenon DEF Refresh
<1>8. /\ g \in Feeds /\ g.permission = feed.permission /\ g.anchor = feed.anchor /\ g.newer = feed.newer /\ g.removed = {}
      /\ g.deleted = feed.deleted /\ g.slips = feed.slips /\ g.cloud = feed.cloud /\ g.cloudBusy = feed.cloudBusy
  BY <1>1, <1>2 DEF Feeds
<1>9. FeedTyped(g, jobs, pool)
  BY <1>1, <1>8 DEF FeedTyped
<1>10. OthersOk(g, jobs, pool)
  <2>1. "reload" \notin g.slips => CloudOk(g, Flying(jobs, "reload"), pool.cloud)
    BY <1>1, <1>8, Zenon DEF OthersOk, CloudOk, CloudFits
  <2>2. NewerOk(g, pool)
    BY <1>1, <1>8, Zenon DEF OthersOk, NewerOk
  <2>3. ClockOk(g, Flying(jobs, "removal"), pool)
    BY <1>1, <1>8 DEF OthersOk, ClockOk
  <2> QED BY <1>1, <2>1, <2>2, <2>3 DEF OthersOk
<1>11. feed.anchor \in Anchors
  BY <1>1, FeedIs
<1>12. FeedSound(r.f, r.js, pool)
  BY <1>3, <1>7, <1>8, <1>9, <1>10, <1>11, FirstAskedOk
<1>13. r.f \in Feeds /\ r.js \in Seq(FeedJobs)
  BY <1>12 DEF FeedSound, FeedTyped
<1>14. KeepsLoads(r.js, js1)
  BY <1>4, <1>13, QuietWithout DEF Loads
<1>15. js1 \in Seq(FeedJobs)
  BY <1>14 DEF KeepsLoads
<1>16. KeepsLoads(js1, js2)
  BY <1>5, <1>15, PlainJob, QuietMore
<1>17. KeepsLoads(r.js, js2)
  BY <1>14, <1>16, QuietTwice
<1>18. FeedSound(r.f, js2, pool)
  BY <1>12, <1>13, <1>17, SameFeed, QuietSound
<1>19. FeedOk(s.f, s.js, pool)
  BY <1>6, <1>18, CloudAskedOk
<1> QED BY <1>7, <1>19, EffectsOk

(* Jumping: neither window is of the new month yet. *)
LEMMA JumpOk ==
  ASSUME FeedOk(feed, jobs, pool), NEW m \in MonthEnds \cup {Nil}, JumpToMonth(m)
  PROVE  FeedOk(feed, jobs, pool)'
<1>1. /\ feed \in Feeds /\ jobs \in Seq(FeedJobs) /\ pool \in Pools /\ WindowOk(feed, jobs, pool)
      /\ FeedTyped(feed, jobs, pool)
  BY OkTyped
<1>2. PICK g : g = [feed EXCEPT !.anchor = m, !.newer = NoNewer, !.changed = FALSE, !.slips = @ \ {"newer"}]
  OBVIOUS
<1>3. PICK js1 : js1 = Without(jobs, "newer")
  OBVIOUS
<1>4. PICK js2 : js2 = Append(js1, PermissionAsked(g))
  OBVIOUS
<1>5. PICK r : r = CloudAsked(g, js2, 1)
  OBVIOUS
<1>6. /\ pool' = pool /\ Effects(r.f, r.js) /\ feed.permission = "granted" /\ m # feed.anchor
      /\ feed.device.before # m /\ feed.cloud.before # m
  BY <1>2, <1>3, <1>4, <1>5, GridGranted, Zenon DEF JumpToMonth
<1>7. NoNewer \in NewerStates /\ NoNewer.cloud = <<>> /\ NoNewer.page = 0 /\ ~NoNewer.cloudDone
      /\ NoNewer.device = <<>> /\ NoNewer.cursor = Nil /\ ~NoNewer.deviceDone /\ NoNewer.cut = {}
  BY DEF NoNewer, NewerStates
<1> HIDE DEF NoNewer
<1>8. /\ g \in Feeds /\ g.permission = "granted" /\ g.anchor = m /\ g.newer = NoNewer /\ g.removed = feed.removed
      /\ g.deleted = feed.deleted /\ g.slips = feed.slips \ {"newer"} /\ g.cloud = feed.cloud
      /\ g.device = feed.device /\ m \in Anchors
  BY <1>1, <1>2, <1>6, <1>7 DEF Feeds, Anchors
<1>9. KeepsLoads(jobs, js1)
  BY <1>1, <1>3, QuietWithout DEF Loads
<1>10. js1 \in Seq(FeedJobs) /\ PermissionAsked(g) \in FeedJobs /\ PermissionAsked(g).op \notin Loads
  <2>1. js1 \in Seq(FeedJobs)
    BY <1>9 DEF KeepsLoads
  <2>2. PermissionAsked(g) \in FeedJobs /\ PermissionAsked(g).op \notin Loads
    BY <1>8 DEF PermissionAsked, FeedJobs, PermissionJobs, Loads
  <2> QED BY <2>1, <2>2
<1>11. KeepsLoads(js1, js2)
  BY <1>4, <1>10, QuietMore
<1>12. KeepsLoads(jobs, js2)
  BY <1>9, <1>11, QuietTwice
<1>13. /\ js2 \in Seq(FeedJobs) /\ Flying(js2, "firstPage") = Flying(jobs, "firstPage")
       /\ Flying(js2, "nextPage") = Flying(jobs, "nextPage") /\ Flying(js2, "reload") = Flying(jobs, "reload")
       /\ Flying(js2, "removal") = Flying(jobs, "removal")
       /\ (AtMostOne(jobs, "nextPage") => AtMostOne(js2, "nextPage"))
  BY <1>12 DEF KeepsLoads, FlyingAlike, Loads
<1>14. Ungranted(g, js2)
  BY <1>8 DEF Ungranted
<1>15. DeviceOk(g, Flying(js2, "firstPage"), Flying(js2, "nextPage"), pool.device)
  BY <1>6, <1>8 DEF DeviceOk
<1>16. "reload" \notin g.slips => CloudOk(g, Flying(js2, "reload"), pool.cloud)
  BY <1>1, <1>6, <1>8, <1>13 DEF WindowOk, CloudOk
<1>17. NewerOk(g, pool)
  <2> SUFFICES ASSUME m # Nil PROVE NewerFits(NoNewer, m, pool)
    BY <1>8 DEF NewerOk
  <2>1. /\ Above(pool.cloud, m) \in SUBSET Dates /\ Above(pool.device, m) \in SUBSET Dates
        /\ Cardinality(Above(pool.device, m)) \in Nat
    <3>1. Above(pool.cloud, m) \in SUBSET Dates /\ Above(pool.device, m) \in SUBSET Dates
      BY <1>1, PhotosCounted DEF Above, Pools
    <3> QED BY <3>1, CountOf
  <2>2. ToSet(<<>>) = {} /\ Sorted("asc", <<>>)
    BY DEF ToSet, Sorted
  <2>3. 0 * PageLimit = 0 /\ Cursor(Nil) = 0
    BY FeedAssumption DEF Cursor
  <2>4. NewerCloud(NoNewer, Above(pool.cloud, m))
    BY <1>7, <2>1, <2>2, <2>3, NothingHeld DEF NewerCloud
  <2>5. NewerDevice(NoNewer, Above(pool.device, m))
    BY <1>7, <2>1, <2>2, <2>3, NothingHeld DEF NewerDevice
  <2> QED BY <1>7, <2>2, <2>4, <2>5 DEF NewerFits
<1>18. ClockOk(g, Flying(js2, "removal"), pool)
  BY <1>1, <1>8, <1>13, Zenon DEF WindowOk, ClockOk
<1>19. FeedSound(g, js2, pool)
  BY <1>1, <1>8, <1>13, <1>14, <1>15, <1>16, <1>17, <1>18 DEF FeedSound, FeedTyped, WindowOk
<1>20. FeedOk(r.f, r.js, pool)
  BY <1>5, <1>19, CloudAskedOk
<1> QED BY <1>6, <1>20, EffectsOk

(* ----------------------- photos come and are removed --------------------- *)

(* What a loss that shifts the newer pages leaves of the tab. *)
MarkedAs(f, side, g) ==
  /\ g \in Feeds /\ g.permission = f.permission /\ g.anchor = f.anchor /\ g.newer = f.newer
  /\ g.removed = f.removed /\ g.changed = f.changed /\ g.deleted = f.deleted /\ g.device = f.device
  /\ g.cloud = f.cloud /\ g.cloudBusy = f.cloudBusy
  /\ g.slips \ {"newer"} = f.slips \ {"newer"} /\ f.slips \subseteq g.slips
  /\ (g.anchor # Nil /\ "newer" \notin g.slips => side)

LEMMA MarkedFeed ==
  ASSUME NEW f \in Feeds, NEW side \in BOOLEAN, NEW g, g = Shifted(f, side)
  PROVE  MarkedAs(f, side, g)
<1>1. CASE f.anchor # Nil /\ ~side
  BY <1>1 DEF Shifted, Feeds, FeedSlips, MarkedAs
<1>2. CASE ~(f.anchor # Nil /\ ~side)
  BY <1>2 DEF Shifted, MarkedAs
<1> QED BY <1>1, <1>2

LEMMA NotLost ==
  ASSUME NEW S, NEW T, S \ {"newer"} = T \ {"newer"}
  PROVE  /\ "reload" \in S <=> "reload" \in T
         /\ "failed" \in S <=> "failed" \in T
         /\ "window" \in S <=> "window" \in T
OBVIOUS

LEMMA RemovalBackOk ==
  ASSUME FeedOk(feed, jobs, pool), NEW i \in DOMAIN jobs, NEW ok \in BOOLEAN, RemovalBack(i, ok)
  PROVE  FeedOk(feed, jobs, pool)'
<1>1. /\ feed \in Feeds /\ jobs \in Seq(FeedJobs) /\ pool \in Pools /\ WindowOk(feed, jobs, pool)
      /\ AskedOk(feed, jobs)
  BY OkTyped
<1>2. PICK ks : ks = RemoveAt(jobs, i)
  OBVIOUS
<1>3. jobs[i].op = "removal" /\ jobs' = ks
  BY <1>2 DEF RemovalBack, At, Ends
<1>4. FeedOk(feed, ks, pool)
  BY <1>2, <1>3, LessOk
<1>5. CASE ~ok
  <2>1. feed' = feed /\ pool' = pool
    BY <1>5 DEF RemovalBack, feedVars
  <2> QED BY <1>3, <1>4, <2>1
<1>6. CASE ok
  <2>1. PICK x : x = jobs[i].photo
    OBVIOUS
  <2>2. PICK gone : gone = IF jobs[i].how = "lock" THEN feed.removed \cup {x} ELSE {}
    OBVIOUS
  <2>3. PICK h : h = [feed EXCEPT !.removed = gone, !.changed = TRUE]
    OBVIOUS
  <2>4. pool' = [pool EXCEPT !.device = @ \ {x}] /\ feed' = Shifted(h, feed.newer.deviceDone)
    BY <1>6, <2>1, <2>2, <2>3, Zenon DEF RemovalBack
  <2>5. Leaves(FeedJobs, jobs, i, ks)
    BY <1>1, <1>2, FlyingLess
  <2>6. jobs[i] \in TakeJobs /\ jobs[i] \in Flying(jobs, "removal")
    BY <1>3, <2>5, FeedJobIs DEF Leaves
  <2>7. x \in PhoneTimes
    BY <2>1, <2>6 DEF TakeJobs
  <2>8. gone \subseteq feed.removed \cup {x} /\ gone \in SUBSET PhoneTimes
    BY <1>1, <2>2, <2>7, FeedIs
  <2>9. /\ h \in Feeds /\ h.permission = feed.permission /\ h.anchor = feed.anchor /\ h.newer = feed.newer
        /\ h.removed = gone /\ h.changed /\ h.deleted = feed.deleted /\ h.device = feed.device
        /\ h.cloud = feed.cloud /\ h.cloudBusy = feed.cloudBusy /\ h.slips = feed.slips
    BY <1>1, <2>3, <2>8 DEF Feeds
  <2>10. feed.newer.deviceDone \in BOOLEAN
    BY <1>1, FeedIs DEF NewerStates
  <2>11. PICK g : g = feed'
    OBVIOUS
  <2>12. /\ g \in Feeds /\ g.permission = feed.permission /\ g.anchor = feed.anchor /\ g.newer = feed.newer
         /\ g.removed = gone /\ g.changed /\ g.deleted = feed.deleted /\ g.device = feed.device
         /\ g.cloud = feed.cloud /\ g.cloudBusy = feed.cloudBusy
         /\ g.slips \ {"newer"} = feed.slips \ {"newer"} /\ feed.slips \subseteq g.slips
         /\ (g.anchor # Nil /\ "newer" \notin g.slips => feed.newer.deviceDone)
    <3>1. MarkedAs(h, feed.newer.deviceDone, g)
      BY <2>4, <2>9, <2>10, <2>11, MarkedFeed
    <3> QED BY <2>9, <3>1 DEF MarkedAs
  <2>13. /\ "reload" \in g.slips <=> "reload" \in feed.slips
         /\ "failed" \in g.slips <=> "failed" \in feed.slips
    BY <2>12, NotLost
  <2>14. PICK q : q = pool'
    OBVIOUS
  <2>15. q \in Pools /\ q.device = pool.device \ {x} /\ q.cloud = pool.cloud /\ q.clock = pool.clock
    BY <1>1, <2>4, <2>14 DEF Pools
  <2>16. WindowOk(feed, ks, pool) /\ AskedOk(feed, ks) /\ ks \in Seq(FeedJobs)
    BY <1>4, OkTyped
  <2>17. Ungranted(g, ks)
    <3>1. feed.permission = "granted"
      BY <1>1, <2>6 DEF WindowOk, Ungranted
    <3> QED BY <2>12, <3>1 DEF Ungranted
  <2>18. DeviceOk(g, Flying(ks, "firstPage"), Flying(ks, "nextPage"), q.device)
    BY <2>12 DEF DeviceOk
  <2>19. "reload" \notin g.slips => CloudOk(g, Flying(ks, "reload"), q.cloud)
    BY <2>12, <2>13, <2>15, <2>16, Zenon DEF WindowOk, CloudOk, CloudFits
  <2>20. NewerOk(g, q)
    <3> SUFFICES ASSUME g.anchor # Nil, "newer" \notin g.slips PROVE NewerFits(g.newer, g.anchor, q)
      BY DEF NewerOk
    <3>1. g.newer.deviceDone /\ NewerFits(g.newer, g.anchor, pool)
      BY <2>12, <2>16 DEF WindowOk, NewerOk
    <3>2. Above(q.device, g.anchor) \subseteq Above(pool.device, g.anchor)
      BY <2>15 DEF Above
    <3>3. NewerDevice(g.newer, Above(q.device, g.anchor))
      BY <3>1, <3>2 DEF NewerFits, NewerDevice
    <3> QED BY <2>15, <3>1, <3>3 DEF NewerFits
  <2>21. ClockOk(g, Flying(ks, "removal"), q)
    <3>1. ClockOk(feed, Flying(jobs, "removal"), pool)
      BY <1>1 DEF WindowOk
    <3>2. x \in {j.photo : j \in Flying(jobs, "removal")}
      BY <2>1, <2>6
    <3>3. Flying(ks, "removal") \subseteq Flying(jobs, "removal")
      BY <2>5 DEF Leaves
    <3>4. g.removed \cap q.device = {}
      BY <2>8, <2>12, <2>15, <3>1 DEF ClockOk
    <3>5. g.removed \cup q.device \cup {j.photo : j \in Flying(ks, "removal")}
            \subseteq feed.removed \cup pool.device \cup {j.photo : j \in Flying(jobs, "removal")}
      BY <2>8, <2>12, <2>15, <3>2, <3>3
    <3> QED BY <2>15, <3>1, <3>4, <3>5 DEF ClockOk
  <2>22. AskedOk(g, ks)
    BY <2>12, <2>13, <2>16, Zenon DEF AskedOk, PagesOk
  <2>23. FeedOk(g, ks, q)
    BY <2>12, <2>15, <2>16, <2>17, <2>18, <2>19, <2>20, <2>21, <2>22 DEF FeedOk, FeedSound, FeedTyped, WindowOk
  <2> QED BY <1>3, <2>11, <2>14, <2>23
<1> QED BY <1>5, <1>6

LEMMA ViewerDeletesOk ==
  ASSUME FeedOk(feed, jobs, pool), NEW x, ViewerDeletes(x)
  PROVE  FeedOk(feed, jobs, pool)'
<1>1. /\ feed \in Feeds /\ jobs \in Seq(FeedJobs) /\ pool \in Pools /\ WindowOk(feed, jobs, pool)
      /\ AskedOk(feed, jobs)
  BY OkTyped
<1>2. PICK h : h = [feed EXCEPT !.deleted = TRUE]
  OBVIOUS
<1>3. /\ pool' = [pool EXCEPT !.cloud = @ \ {x}] /\ feed' = Shifted(h, feed.newer.cloudDone) /\ jobs' = jobs
  BY <1>2 DEF ViewerDeletes
<1>4. /\ h \in Feeds /\ h.permission = feed.permission /\ h.anchor = feed.anchor /\ h.newer = feed.newer
      /\ h.removed = feed.removed /\ h.changed = feed.changed /\ h.deleted /\ h.device = feed.device
      /\ h.cloud = feed.cloud /\ h.cloudBusy = feed.cloudBusy /\ h.slips = feed.slips
  BY <1>1, <1>2 DEF Feeds
<1>5. feed.newer.cloudDone \in BOOLEAN
  BY <1>1, FeedIs DEF NewerStates
<1>6. PICK g : g = feed'
  OBVIOUS
<1>7. /\ g \in Feeds /\ g.permission = feed.permission /\ g.anchor = feed.anchor /\ g.newer = feed.newer
      /\ g.removed = feed.removed /\ g.changed = feed.changed /\ g.deleted /\ g.device = feed.device
      /\ g.cloud = feed.cloud /\ g.cloudBusy = feed.cloudBusy
      /\ g.slips \ {"newer"} = feed.slips \ {"newer"} /\ feed.slips \subseteq g.slips
      /\ (g.anchor # Nil /\ "newer" \notin g.slips => feed.newer.cloudDone)
  <2>1. MarkedAs(h, feed.newer.cloudDone, g)
    BY <1>3, <1>4, <1>5, <1>6, MarkedFeed
  <2> QED BY <1>4, <2>1 DEF MarkedAs
<1>8. /\ "reload" \in g.slips <=> "reload" \in feed.slips
      /\ "window" \in g.slips <=> "window" \in feed.slips
  BY <1>7, NotLost
<1>9. PICK q : q = pool'
  OBVIOUS
<1>10. q \in Pools /\ q.device = pool.device /\ q.cloud = pool.cloud \ {x} /\ q.clock = pool.clock
  BY <1>1, <1>3, <1>9 DEF Pools
<1>11. Ungranted(g, jobs)
  BY <1>1, <1>7, Zenon DEF WindowOk, Ungranted
<1>12. DeviceOk(g, Flying(jobs, "firstPage"), Flying(jobs, "nextPage"), q.device)
  BY <1>1, <1>7, <1>8, <1>10 DEF WindowOk, DeviceOk, DeviceFits
<1>13. CloudOk(g, Flying(jobs, "reload"), q.cloud)
  BY <1>7 DEF CloudOk
<1>14. NewerOk(g, q)
  <2> SUFFICES ASSUME g.anchor # Nil, "newer" \notin g.slips PROVE NewerFits(g.newer, g.anchor, q)
    BY DEF NewerOk
  <2>1. g.newer.cloudDone /\ NewerFits(g.newer, g.anchor, pool)
    BY <1>1, <1>7 DEF WindowOk, NewerOk
  <2>2. Above(q.cloud, g.anchor) \subseteq Above(pool.cloud, g.anchor)
    BY <1>10 DEF Above
  <2>3. NewerCloud(g.newer, Above(q.cloud, g.anchor))
    BY <2>1, <2>2 DEF NewerFits, NewerCloud
  <2> QED BY <1>10, <2>1, <2>3 DEF NewerFits
<1>15. ClockOk(g, Flying(jobs, "removal"), q)
  BY <1>1, <1>7, <1>10, Zenon DEF WindowOk, ClockOk
<1>16. AskedOk(g, jobs)
  BY <1>1, <1>7, <1>8, Zenon DEF AskedOk, PagesOk
<1>17. FeedOk(g, jobs, q)
  BY <1>1, <1>7, <1>10, <1>11, <1>12, <1>13, <1>14, <1>15, <1>16 DEF FeedOk, FeedSound, FeedTyped, WindowOk
<1> QED BY <1>3, <1>6, <1>9, <1>17

(* ---------------------- the camera, and the phone's pages ---------------- *)

(* A photo after all others does not move them. *)
LEMMA NewestLast ==
  ASSUME NEW S \in SUBSET Dates, NEW p \in Dates, \A u \in S : u < p, NEW T, T = S \cup {p}
  PROVE  /\ \A t \in S : Place("asc", T, t) = Place("asc", S, t)
         /\ Place("asc", T, p) = Cardinality(S) + 1 /\ Cardinality(T) = Cardinality(S) + 1
<1>1. p \notin S /\ p \in Nat /\ \A u \in S : u \in Nat
  BY PhotosCounted
<1>2. ASSUME NEW t \in S PROVE Place("asc", T, t) = Place("asc", S, t)
  <2>1. ~Ahead("asc", p, t) /\ p # t
    BY <1>1 DEF Ahead
  <2>2. Through("asc", T, t) = Through("asc", S, t)
    BY <2>1 DEF Through
  <2> QED BY <2>2 DEF Place
<1>3. Through("asc", T, p) = T
  <2>1. \A u \in S : Ahead("asc", u, p)
    BY DEF Ahead
  <2> QED BY <2>1 DEF Through
<1>4. Cardinality(T) = Cardinality(S) + 1
  BY <1>1, DatesCounted, FS_Subset, FS_AddElement
<1> QED BY <1>2, <1>3, <1>4 DEF Place

(* What is newer than all that was paged is not yet paged, or never is. *)
LEMMA NewerTaken ==
  ASSUME NEW n \in NewerStates, NEW S \in SUBSET PhoneTimes, NEW p \in CameraTimes, NEW c \in Nat, c < p,
         \A u \in S \cap CameraTimes : u <= c, \A u \in ToSet(n.device) \cap CameraTimes : u <= c,
         NewerDevice(n, S), NEW T, T = S \/ T = S \cup {p}
  PROVE  NewerDevice(n, T)
<1>1. /\ S \in SUBSET Dates /\ p \in Dates /\ p \in Nat /\ PhoneTimes \subseteq Nat /\ ToSet(n.device) \subseteq PhoneTimes
      /\ Cardinality(S) \in Nat /\ Cursor(n.cursor) \in Nat /\ n.deviceDone \in BOOLEAN
  <2>1. S \in SUBSET Dates /\ p \in Dates /\ p \in Nat /\ PhoneTimes \subseteq Nat
    BY PhotosCounted DEF PhoneTimes
  <2>2. ToSet(n.device) \subseteq PhoneTimes
    BY SeqWider DEF NewerStates
  <2>3. Cursor(n.cursor) \in Nat /\ n.deviceDone \in BOOLEAN
    BY DEF Cursor, NewerStates
  <2> QED BY <2>1, <2>2, <2>3, CountOf
<1>2. \A u \in PhoneTimes : (u \in CameraTimes => u <= c) => u < p
  BY <1>1, FeedAssumption DEF PhoneTimes
<1>3. (\A u \in S : u < p) /\ \A u \in ToSet(n.device) : u < p
  BY <1>1, <1>2
<1>4. CASE T = S
  BY <1>4
<1>5. CASE T = S \cup {p} /\ n.deviceDone
  BY <1>3, <1>5 DEF NewerDevice
<1>6. CASE T = S \cup {p} /\ ~n.deviceDone
  <2>1. /\ Held("asc", S, n.device, Hidden(n.cut), Cursor(n.cursor)) /\ Cursor(n.cursor) <= Cardinality(S)
        /\ Sorted("asc", n.device)
    BY <1>6 DEF NewerDevice
  <2>2. /\ \A t \in S : Place("asc", T, t) = Place("asc", S, t)
        /\ Place("asc", T, p) = Cardinality(S) + 1 /\ Cardinality(T) = Cardinality(S) + 1
    BY <1>1, <1>3, <1>6, NewestLast
  <2>3. ToSet(n.device) \subseteq S
    BY <2>1 DEF Held
  <2>4. Held("asc", T, n.device, Hidden(n.cut), Cursor(n.cursor))
    <3>1. \A t \in ToSet(n.device) : Place("asc", T, t) <= Cursor(n.cursor)
      BY <2>1, <2>2, <2>3 DEF Held
    <3>2. ASSUME NEW t \in T, Place("asc", T, t) <= Cursor(n.cursor) PROVE t \in ToSet(n.device) \/ t \in Hidden(n.cut)
      <4>1. t # p
        BY <1>1, <2>1, <2>2, <3>2
      <4>2. t \in S /\ Place("asc", S, t) <= Cursor(n.cursor)
        BY <1>6, <2>2, <3>2, <4>1
      <4> QED BY <2>1, <4>2 DEF Held
    <3> QED BY <1>6, <2>1, <2>3, <3>1, <3>2 DEF Held
  <2> QED BY <1>1, <1>6, <2>1, <2>2, <2>4 DEF NewerDevice
<1> QED BY <1>4, <1>5, <1>6

LEMMA CameraOk ==
  ASSUME FeedOk(feed, jobs, pool), NEW x \in CameraTimes, CameraTakes(x)
  PROVE  FeedOk(feed, jobs, pool)'
<1>1. /\ feed \in Feeds /\ jobs \in Seq(FeedJobs) /\ pool \in Pools /\ WindowOk(feed, jobs, pool)
      /\ AskedOk(feed, jobs)
  BY OkTyped
<1>2. PICK g : g = feed'
  OBVIOUS
<1>3. PICK q : q = pool'
  OBVIOUS
<1>4. /\ q = [pool EXCEPT !.device = @ \cup {x}, !.clock = x] /\ jobs' = jobs /\ x > pool.clock
      /\ g = [feed EXCEPT !.changed = feed.permission = "granted"]
  BY <1>2, <1>3 DEF CameraTakes
<1>5. x \in PhoneTimes /\ x \in Nat
  BY PhotosCounted DEF PhoneTimes
<1>6. q \in Pools /\ q.device = pool.device \cup {x} /\ q.cloud = pool.cloud /\ q.clock = x
  BY <1>1, <1>4, <1>5 DEF Pools
<1>7. pool.clock \in Nat /\ pool.clock < x /\ pool.device \in SUBSET PhoneTimes /\ pool.device \in SUBSET Dates
  BY <1>1, <1>4, <1>5, PhotosCounted DEF Pools
<1>8. /\ g \in Feeds /\ g.permission = feed.permission /\ g.anchor = feed.anchor /\ g.newer = feed.newer
      /\ g.removed = feed.removed /\ g.deleted = feed.deleted /\ g.device = feed.device
      /\ g.cloud = feed.cloud /\ g.cloudBusy = feed.cloudBusy /\ g.slips = feed.slips
      /\ (g.changed <=> feed.permission = "granted")
  BY <1>1, <1>4 DEF Feeds
<1>9. Ungranted(g, jobs)
  BY <1>1, <1>8, Zenon DEF WindowOk, Ungranted
<1>10. DeviceOk(g, Flying(jobs, "firstPage"), Flying(jobs, "nextPage"), q.device)
  <2> SUFFICES ASSUME feed.permission # "granted"
               PROVE  DeviceFits(g, Flying(jobs, "nextPage"), q.device)
    BY <1>8 DEF DeviceOk
  <2>1. /\ g.device.items = <<>> /\ g.device.cursor = Nil /\ ~g.device.ended /\ Flying(jobs, "nextPage") = {}
    BY <1>1, <1>8 DEF WindowOk, Ungranted
  <2>2. Within(q.device, g.anchor) \in SUBSET Dates
    BY <1>6, PhotosCounted, WithinIs DEF Pools
  <2>3. Held("desc", Within(q.device, g.anchor), <<>>, Hidden(g.device.cut), 0)
    BY <2>2, NothingHeld
  <2> QED BY <2>1, <2>3 DEF DeviceFits, Cursor
<1>11. "reload" \notin g.slips => CloudOk(g, Flying(jobs, "reload"), q.cloud)
  BY <1>1, <1>6, <1>8, Zenon DEF WindowOk, CloudOk, CloudFits
<1>12. ClockOk(feed, Flying(jobs, "removal"), pool)
  BY <1>1 DEF WindowOk
<1>13. x \notin feed.removed
  BY <1>7, <1>5, <1>12 DEF ClockOk
<1>14. ClockOk(g, Flying(jobs, "removal"), q)
  <2>1. g.removed \cap q.device = {}
    BY <1>6, <1>8, <1>12, <1>13 DEF ClockOk
  <2>2. ASSUME NEW u \in (g.removed \cup q.device \cup {j.photo : j \in Flying(jobs, "removal")}) \cap CameraTimes
        PROVE  u <= q.clock
    <3>1. CASE u = x
      BY <1>5, <1>6, <3>1
    <3>2. CASE u # x
      <4>1. u \in (feed.removed \cup pool.device \cup {j.photo : j \in Flying(jobs, "removal")}) \cap CameraTimes
        BY <1>6, <1>8, <2>2, <3>2
      <4>2. u <= pool.clock
        BY <1>12, <4>1 DEF ClockOk
      <4>3. u \in Nat
        BY <2>2, PhotosCounted DEF PhoneTimes
      <4> QED BY <1>5, <1>6, <1>7, <4>2, <4>3
    <3> QED BY <3>1, <3>2
  <2> QED BY <2>1, <2>2 DEF ClockOk
<1>15. NewerOk(g, q)
  <2> SUFFICES ASSUME g.anchor # Nil, "newer" \notin g.slips PROVE NewerFits(g.newer, g.anchor, q)
    BY DEF NewerOk
  <2>1. NewerFits(g.newer, g.anchor, pool)
    BY <1>1, <1>8 DEF WindowOk, NewerOk
  <2>2. Above(q.device, g.anchor) = Above(pool.device, g.anchor)
        \/ Above(q.device, g.anchor) = Above(pool.device, g.anchor) \cup {x}
    BY <1>6 DEF Above
  <2>3. Above(pool.device, g.anchor) \in SUBSET PhoneTimes
        /\ \A u \in Above(pool.device, g.anchor) \cap CameraTimes : u <= pool.clock
    BY <1>7, <1>12 DEF Above, ClockOk
  <2>4. g.newer \in NewerStates
    BY <1>8, FeedIs
  <2>5. \A u \in ToSet(g.newer.device) \cap CameraTimes : u <= pool.clock
    BY <2>1 DEF NewerFits
  <2>6. NewerDevice(g.newer, Above(pool.device, g.anchor))
    BY <2>1 DEF NewerFits
  <2>7. NewerDevice(g.newer, Above(q.device, g.anchor))
    BY <1>7, <2>2, <2>3, <2>4, <2>5, <2>6, NewerTaken
  <2>8. \A u \in ToSet(g.newer.device) \cap CameraTimes : u <= q.clock
    <3> SUFFICES ASSUME NEW u \in ToSet(g.newer.device) \cap CameraTimes PROVE u <= q.clock
      OBVIOUS
    <3>1. u \in Nat
      BY PhotosCounted DEF PhoneTimes
    <3>2. u <= pool.clock
      BY <2>5
    <3> QED BY <1>5, <1>6, <1>7, <3>1, <3>2
  <2> QED BY <1>6, <2>1, <2>7, <2>8 DEF NewerFits
<1>16. AskedOk(g, jobs)
  BY <1>1, <1>8, Zenon DEF AskedOk, PagesOk
<1>17. FeedOk(g, jobs, q)
  BY <1>1, <1>6, <1>8, <1>9, <1>10, <1>11, <1>14, <1>15, <1>16 DEF FeedOk, FeedSound, FeedTyped, WindowOk
<1> QED BY <1>2, <1>3, <1>4, <1>17

LEMMA HeldWhole ==
  ASSUME NEW order, NEW S \in SUBSET Dates, NEW items, NEW skip, NEW n \in Nat, Held(order, S, items, skip, n),
         Cardinality(S) <= n
  PROVE  Held(order, S, items, skip, Cardinality(S))
<1>1. \A t \in S : Place(order, S, t) \in 1..Cardinality(S)
  BY PlaceIs
<1>2. Cardinality(S) \in Nat
  BY CountOf
<1>3. \A t \in ToSet(items) : t \in S /\ Place(order, S, t) <= Cardinality(S)
  BY <1>1 DEF Held
<1>4. \A t \in S : Place(order, S, t) <= n
  BY <1>1, <1>2
<1> QED BY <1>3, <1>4 DEF Held

(* Where the phone's photos are paged to. *)
Reach(S, ended, cursor) == IF ended THEN Cardinality(S) ELSE Cursor(cursor)

LEMMA ReachOf ==
  ASSUME NEW order, NEW S \in SUBSET Dates, NEW items, NEW skip, NEW z \in Nat, Held(order, S, items, skip, z),
         NEW done \in BOOLEAN, done <=> Cardinality(S) <= z, NEW cursor, cursor = IF done THEN Nil ELSE z
  PROVE  /\ Held(order, S, items, skip, Reach(S, done, cursor)) /\ cursor \in Nat \cup {Nil}
         /\ ~done => Cursor(cursor) = z /\ Cursor(cursor) <= Cardinality(S)
<1>1. Cardinality(S) \in Nat /\ Nil \notin Nat
  BY CountOf, PhotosCounted
<1>2. CASE done
  <2>1. Held(order, S, items, skip, Cardinality(S))
    BY <1>2, HeldWhole
  <2> QED BY <1>2, <2>1 DEF Reach
<1>3. CASE ~done
  <2>1. cursor = z /\ Cursor(cursor) = z /\ z <= Cardinality(S)
    BY <1>1, <1>3 DEF Cursor
  <2> QED BY <1>3, <2>1 DEF Reach
<1> QED BY <1>2, <1>3

LEMMA WithinPhone ==
  ASSUME NEW D \in SUBSET PhoneTimes, NEW b, NEW S, S = Within(D, b)
  PROVE  S \in SUBSET Dates /\ S \in SUBSET PhoneTimes
BY PhotosCounted, WithinIs

LEMMA WithinCloud ==
  ASSUME NEW C \in SUBSET CloudTimes, NEW b, NEW S, S = Within(C, b)
  PROVE  S \in SUBSET Dates /\ S \in SUBSET CloudTimes
BY PhotosCounted, WithinIs

LEMMA FirstBackOk ==
  ASSUME FeedOk(feed, jobs, pool), NEW i \in DOMAIN jobs, FirstBack(i)
  PROVE  FeedOk(feed, jobs, pool)'
<1>1. /\ feed \in Feeds /\ jobs \in Seq(FeedJobs) /\ pool \in Pools /\ WindowOk(feed, jobs, pool)
      /\ AskedOk(feed, jobs) /\ pool.device \in SUBSET PhoneTimes
  BY OkTyped DEF Pools
<1>2. PICK js1 : js1 = RemoveAt(jobs, i)
  OBVIOUS
<1>3. PICK ks : ks = Crossed(js1)
  OBVIOUS
<1>4. PICK b : b = jobs[i].before
  OBVIOUS
<1>5. PICK S : S = Within(pool.device, b)
  OBVIOUS
<1>6. PICK page : page = DevicePaged(InOrder(S, "desc"), 0)
  OBVIOUS
<1>7. PICK d : d = [items |-> page.items, cursor |-> page.cursor, ended |-> page.done,
                    loading |-> FALSE, before |-> b, cut |-> page.cut]
  OBVIOUS
<1>8. PICK g : g = [feed EXCEPT !.device = d, !.slips = @ \ {"window"}]
  OBVIOUS
<1>9. jobs[i].op = "firstPage" /\ pool' = pool /\ Effects(g, ks)
  BY <1>2, <1>3, <1>4, <1>5, <1>6, <1>7, <1>8, Zenon DEF FirstBack, At, NewestFirst
<1>10. Leaves(FeedJobs, jobs, i, js1)
  BY <1>1, <1>2, FlyingLess
<1>11. jobs[i] \in DeviceJobs /\ jobs[i] \in Flying(jobs, "firstPage") /\ js1 \in Seq(FeedJobs)
  BY <1>9, <1>10, FeedJobIs DEF Leaves
<1>12. b \in Anchors
  BY <1>4, <1>11 DEF DeviceJobs
<1>13. feed.permission = "granted"
  BY <1>1, <1>11 DEF WindowOk, Ungranted
<1>14. S \in SUBSET Dates /\ S \in SUBSET PhoneTimes
  BY <1>1, <1>5, WithinPhone
<1>15. /\ page.items \in Seq(S) /\ page.cut \subseteq S /\ page.done \in BOOLEAN
       /\ \E z \in Nat : /\ 0 < z /\ Paged("desc", S, page.items, Hidden(page.cut), 0, z)
                         /\ page.done <=> Cardinality(S) <= z
                         /\ page.cursor = IF page.done THEN Nil ELSE z
  BY <1>6, <1>14, DevicePageIs
<1>16. /\ page.cursor \in Nat \cup {Nil}
       /\ Held("desc", S, page.items, Hidden(page.cut), Reach(S, page.done, page.cursor))
  <2>1. PICK z \in Nat : /\ Paged("desc", S, page.items, Hidden(page.cut), 0, z)
                         /\ page.done <=> Cardinality(S) <= z
                         /\ page.cursor = IF page.done THEN Nil ELSE z
    BY <1>15
  <2>2. Held("desc", S, page.items, Hidden(page.cut), z)
    BY <1>14, <2>1, FirstHeld
  <2> QED BY <1>14, <1>15, <2>1, <2>2, ReachOf
<1>17. page.items \in Seq(PhoneTimes)
  BY <1>14, <1>15, SeqWider
<1>18. d \in DeviceStates /\ d.items = page.items /\ d.cursor = page.cursor /\ d.ended = page.done /\ d.before = b
       /\ d.cut = page.cut
  BY <1>7, <1>12, <1>14, <1>15, <1>16, <1>17 DEF DeviceStates
<1>19. /\ g \in Feeds /\ g.permission = "granted" /\ g.anchor = feed.anchor /\ g.newer = feed.newer
       /\ g.removed = feed.removed /\ g.changed = feed.changed /\ g.deleted = feed.deleted /\ g.device = d
       /\ g.cloud = feed.cloud /\ g.cloudBusy = feed.cloudBusy /\ g.slips = feed.slips \ {"window"}
  BY <1>1, <1>8, <1>13, <1>18 DEF Feeds
<1>20. /\ "reload" \in g.slips <=> "reload" \in feed.slips
       /\ "failed" \in g.slips <=> "failed" \in feed.slips
       /\ "newer" \in g.slips <=> "newer" \in feed.slips
  BY <1>19
<1>21. ks \in Seq(FeedJobs) /\ Marked(js1, "nextPage", ks) /\ \A j \in Flying(ks, "nextPage") : j.crossed
  BY <1>3, <1>11, FlyingCrossed
<1>22. /\ Flying(ks, "reload") = Flying(jobs, "reload") /\ Flying(ks, "removal") = Flying(jobs, "removal")
       /\ Flying(ks, "cloudPage") = Flying(jobs, "cloudPage")
       /\ (AtMostOne(jobs, "nextPage") => AtMostOne(ks, "nextPage"))
       /\ (AtMostOne(jobs, "cloudPage") => AtMostOne(ks, "cloudPage"))
  BY <1>9, <1>10, <1>21, Zenon DEF Leaves, Marked
<1>23. Ungranted(g, ks)
  BY <1>19 DEF Ungranted
<1>24. DeviceOk(g, Flying(ks, "firstPage"), Flying(ks, "nextPage"), pool.device)
  <2> SUFFICES ASSUME g.device.before = g.anchor
               PROVE  DeviceFits(g, Flying(ks, "nextPage"), pool.device)
    BY DEF DeviceOk
  <2>1. Within(pool.device, g.anchor) = S
    BY <1>5, <1>18, <1>19
  <2> QED BY <1>16, <1>18, <1>19, <1>21, <2>1 DEF DeviceFits, Reach
<1>25. "reload" \notin g.slips => CloudOk(g, Flying(ks, "reload"), pool.cloud)
  BY <1>1, <1>19, <1>20, <1>22, Zenon DEF WindowOk, CloudOk, CloudFits
<1>26. NewerOk(g, pool)
  BY <1>1, <1>19, <1>20, Zenon DEF WindowOk, NewerOk
<1>27. ClockOk(g, Flying(ks, "removal"), pool)
  BY <1>1, <1>19, <1>22, Zenon DEF WindowOk, ClockOk
<1>28. AskedOk(g, ks)
  BY <1>1, <1>19, <1>20, <1>22, Zenon DEF AskedOk, PagesOk
<1>29. WindowOk(g, ks, pool)
  BY <1>1, <1>22, <1>23, <1>24, <1>25, <1>26, <1>27 DEF WindowOk
<1>30. FeedOk(g, ks, pool)
  BY <1>1, <1>19, <1>21, <1>28, <1>29 DEF FeedOk, FeedSound, FeedTyped
<1> QED BY <1>9, <1>30, EffectsOk

LEMMA DeviceMoreBackOk ==
  ASSUME FeedOk(feed, jobs, pool), NEW i \in DOMAIN jobs, DeviceMoreBack(i)
  PROVE  FeedOk(feed, jobs, pool)'
<1>1. /\ feed \in Feeds /\ jobs \in Seq(FeedJobs) /\ pool \in Pools /\ WindowOk(feed, jobs, pool)
      /\ AskedOk(feed, jobs) /\ pool.device \in SUBSET PhoneTimes /\ feed.device \in DeviceStates
  BY OkTyped, FeedIs DEF Pools
<1>2. PICK ks : ks = RemoveAt(jobs, i)
  OBVIOUS
<1>3. jobs[i].op = "nextPage" /\ pool' = pool
  BY DEF DeviceMoreBack, At
<1>4. CASE ~jobs[i].live
  <2>1. jobs' = ks /\ feed' = feed
    BY <1>2, <1>4 DEF DeviceMoreBack, Ends
  <2>2. FeedOk(feed, ks, pool)
    BY <1>2, <1>3, LessOk
  <2> QED BY <1>3, <2>1, <2>2
<1>5. CASE jobs[i].live
  <2>1. PICK j : j = jobs[i]
    OBVIOUS
  <2>2. PICK S : S = Within(pool.device, j.before)
    OBVIOUS
  <2>3. PICK page : page = DevicePaged(InOrder(S, "desc"), j.from)
    OBVIOUS
  <2>4. PICK d : d = [feed.device EXCEPT !.items = Adds(@, page.items), !.cursor = page.cursor,
                                         !.ended = @ \/ page.done, !.cut = @ \cup page.cut]
    OBVIOUS
  <2>5. PICK g : g = [feed EXCEPT !.device = d, !.slips = IF j.crossed THEN @ \cup {"window"} ELSE @]
    OBVIOUS
  <2>6. Effects(g, ks)
    BY <1>2, <1>5, <2>1, <2>2, <2>3, <2>4, <2>5, Zenon DEF DeviceMoreBack, NewestFirst
  <2>7. Leaves(FeedJobs, jobs, i, ks)
    BY <1>1, <1>2, FlyingLess
  <2>8. j \in MoreJobs /\ j \in Flying(jobs, "nextPage") /\ ks \in Seq(FeedJobs) /\ j.live
    BY <1>3, <1>5, <2>1, <2>7, FeedJobIs DEF Leaves
  <2>9. j.before \in Anchors /\ j.from \in Nat /\ j.crossed \in BOOLEAN
    BY <2>8 DEF MoreJobs
  <2>10. feed.permission = "granted"
    BY <1>1, <2>8 DEF WindowOk, Ungranted
  <2>11. S \in SUBSET Dates /\ S \in SUBSET PhoneTimes
    BY <1>1, <2>2, WithinPhone
  <2>12. /\ page.items \in Seq(S) /\ page.cut \subseteq S /\ page.done \in BOOLEAN
         /\ \E z \in Nat : /\ j.from < z /\ Paged("desc", S, page.items, Hidden(page.cut), j.from, z)
                           /\ page.done <=> Cardinality(S) <= z
                           /\ page.cursor = IF page.done THEN Nil ELSE z
    BY <2>3, <2>9, <2>11, DevicePageIs
  <2>13. page.items \in Seq(PhoneTimes) /\ page.cursor \in Nat \cup {Nil}
    BY <2>11, <2>12, SeqWider
  <2>14. feed.device.items \in Seq(PhoneTimes)
    BY <1>1 DEF DeviceStates
  <2>15. Adds(feed.device.items, page.items) \in Seq(PhoneTimes)
    BY <2>13, <2>14, AddsTyped
  <2>16. /\ d \in DeviceStates /\ d.items = Adds(feed.device.items, page.items) /\ d.cursor = page.cursor
         /\ (d.ended <=> feed.device.ended \/ page.done) /\ d.before = feed.device.before
         /\ d.cut = feed.device.cut \cup page.cut
    BY <1>1, <2>4, <2>11, <2>12, <2>13, <2>15 DEF DeviceStates
  <2>17. /\ g \in Feeds /\ g.permission = "granted" /\ g.anchor = feed.anchor /\ g.newer = feed.newer
         /\ g.removed = feed.removed /\ g.changed = feed.changed /\ g.deleted = feed.deleted /\ g.device = d
         /\ g.cloud = feed.cloud /\ g.cloudBusy = feed.cloudBusy
         /\ g.slips = IF j.crossed THEN feed.slips \cup {"window"} ELSE feed.slips
    BY <1>1, <2>5, <2>10, <2>16 DEF Feeds, FeedSlips
  <2>18. /\ "reload" \in g.slips <=> "reload" \in feed.slips
         /\ "failed" \in g.slips <=> "failed" \in feed.slips
         /\ "newer" \in g.slips <=> "newer" \in feed.slips
         /\ "window" \notin g.slips => ~j.crossed /\ "window" \notin feed.slips
    BY <2>17
  <2>19. /\ Flying(ks, "reload") = Flying(jobs, "reload") /\ Flying(ks, "removal") = Flying(jobs, "removal")
         /\ Flying(ks, "cloudPage") = Flying(jobs, "cloudPage") /\ Flying(ks, "firstPage") = Flying(jobs, "firstPage")
         /\ AtMostOne(ks, "nextPage") /\ Flying(ks, "nextPage") = {}
         /\ (AtMostOne(jobs, "cloudPage") => AtMostOne(ks, "cloudPage"))
    BY <1>1, <1>3, <2>7 DEF Leaves, WindowOk
  <2>20. Ungranted(g, ks)
    BY <2>17 DEF Ungranted
  <2>21. DeviceOk(g, Flying(ks, "firstPage"), Flying(ks, "nextPage"), pool.device)
    <3> SUFFICES ASSUME g.device.before = g.anchor, "window" \notin g.slips, ~g.changed, Flying(ks, "firstPage") = {}
                 PROVE  DeviceFits(g, {}, pool.device)
      BY <2>19 DEF DeviceOk
    <3>1. DeviceFits(feed, Flying(jobs, "nextPage"), pool.device)
      BY <1>1, <2>16, <2>17, <2>18, <2>19 DEF WindowOk, DeviceOk
    <3>2. j.before = feed.anchor /\ j.from = feed.device.cursor /\ ~feed.device.ended
      BY <2>8, <2>18, <3>1 DEF DeviceFits
    <3>3. S = Within(pool.device, g.anchor) /\ Cursor(feed.device.cursor) = j.from
      BY <2>2, <2>9, <2>17, <3>2, PhotosCounted DEF Cursor
    <3>4. Held("desc", S, feed.device.items, Hidden(feed.device.cut), j.from)
      BY <2>17, <3>1, <3>2, <3>3 DEF DeviceFits
    <3>5. PICK z \in Nat : /\ j.from < z /\ Paged("desc", S, page.items, Hidden(page.cut), j.from, z)
                           /\ page.done <=> Cardinality(S) <= z
                           /\ page.cursor = IF page.done THEN Nil ELSE z
      BY <2>12
    <3>6. j.from <= z
      BY <2>9, <3>5
    <3>7. Hidden(feed.device.cut) \subseteq Hidden(d.cut) /\ Hidden(page.cut) \subseteq Hidden(d.cut)
      BY <2>16 DEF Hidden
    <3>8. feed.device.items \in Seq(Dates) /\ page.items \in Seq(Dates)
      BY <2>13, <2>14, PhotosListed
    <3>9. Held("desc", S, d.items, Hidden(d.cut), z)
      <4>1. Held("desc", S, Adds(feed.device.items, page.items), Hidden(d.cut), z)
        BY <2>9, <2>11, <3>4, <3>5, <3>6, <3>7, <3>8, AddsHeld
      <4> QED BY <2>16, <4>1
    <3>10. Held("desc", S, d.items, Hidden(d.cut), Reach(S, page.done, page.cursor))
      BY <2>11, <2>12, <3>5, <3>9, ReachOf
    <3>11. d.ended <=> page.done
      BY <2>16, <3>2
    <3>12. Reach(S, page.done, page.cursor) = Reach(S, d.ended, d.cursor)
      BY <2>16, <3>11 DEF Reach
    <3> QED BY <2>17, <3>3, <3>10, <3>12 DEF DeviceFits, Reach
  <2>22. "reload" \notin g.slips => CloudOk(g, Flying(ks, "reload"), pool.cloud)
    BY <1>1, <2>17, <2>18, <2>19, Zenon DEF WindowOk, CloudOk, CloudFits
  <2>23. NewerOk(g, pool)
    BY <1>1, <2>17, <2>18, Zenon DEF WindowOk, NewerOk
  <2>24. ClockOk(g, Flying(ks, "removal"), pool)
    BY <1>1, <2>17, <2>19, Zenon DEF WindowOk, ClockOk
  <2>25. AskedOk(g, ks)
    BY <1>1, <2>17, <2>18, <2>19, Zenon DEF AskedOk, PagesOk
  <2>26. WindowOk(g, ks, pool)
    BY <2>19, <2>20, <2>21, <2>22, <2>23, <2>24 DEF WindowOk
  <2>27. FeedOk(g, ks, pool)
    BY <1>1, <2>8, <2>17, <2>25, <2>26 DEF FeedOk, FeedSound, FeedTyped
  <2> QED BY <1>3, <2>6, <2>27, EffectsOk
<1> QED BY <1>4, <1>5

(* ---------------------------- the cloud's pages -------------------------- *)

(* One that is in flight goes on. *)
TurnsInto(J, js, j, ks) ==
  /\ ks \in Seq(J) /\ Marked(js, j.op, ks) /\ j \in Flying(ks, j.op)
  /\ Flying(ks, j.op) \subseteq Flying(js, j.op) \cup {j}
LEMMA FlyingBecomes ==
  ASSUME NEW J, NEW js \in Seq(J), NEW i \in DOMAIN js, NEW j \in J, j.op = js[i].op, NEW ks, ks = [js EXCEPT ![i] = j]
  PROVE  TurnsInto(J, js, j, ks)
<1>1. ks \in Seq(J) /\ DOMAIN ks = DOMAIN js /\ ks[i] = j /\ \A k \in DOMAIN js : k # i => ks[k] = js[k]
  OBVIOUS
<1>2. \A k \in DOMAIN js : ks[k].op = js[k].op /\ (js[k].op # j.op => ks[k] = js[k])
  BY <1>1
<1>3. Marked(js, j.op, ks)
  BY <1>1, <1>2, FlyingMarked
<1>4. j \in Flying(ks, j.op)
  BY <1>1 DEF Flying, ToSet
<1>5. Flying(ks, j.op) \subseteq Flying(js, j.op) \cup {j}
  BY <1>1 DEF Flying, ToSet
<1> QED BY <1>1, <1>3, <1>4, <1>5 DEF TurnsInto

LEMMA CloudPageBackOk ==
  ASSUME FeedOk(feed, jobs, pool), NEW i \in DOMAIN jobs, CloudPageBack(i)
  PROVE  FeedOk(feed, jobs, pool)'
<1>1. /\ feed \in Feeds /\ jobs \in Seq(FeedJobs) /\ pool \in Pools /\ WindowOk(feed, jobs, pool)
      /\ AskedOk(feed, jobs) /\ pool.cloud \in SUBSET CloudTimes /\ feed.cloud \in CloudStates
      /\ feed.snapshot \in Seq(CloudTimes)
  BY OkTyped, FeedIs DEF Pools
<1>2. PICK ks : ks = RemoveAt(jobs, i)
  OBVIOUS
<1>3. PICK j : j = jobs[i]
  OBVIOUS
<1>4. PICK S : S = Within(pool.cloud, j.before)
  OBVIOUS
<1>5. PICK page : page = CloudPaged(InOrder(S, "desc"), j.page)
  OBVIOUS
<1>6. PICK old : old = IF j.page = 1 THEN <<>> ELSE feed.cloud.items
  OBVIOUS
<1>7. PICK items : items = Adds(old, page.items)
  OBVIOUS
<1>8. PICK c : c = [items |-> items, page |-> j.page, done |-> page.done, loading |-> FALSE, before |-> j.before]
  OBVIOUS
<1>9. PICK g : g = [feed EXCEPT !.cloud = c, !.snapshot = IF j.before = Nil THEN items ELSE @,
                                !.cloudBusy = FALSE, !.slips = IF j.page = 1 THEN @ \ {"failed"} ELSE @]
  OBVIOUS
<1>10. jobs[i].op = "cloudPage" /\ pool' = pool /\ Effects(g, ks)
  BY <1>2, <1>3, <1>4, <1>5, <1>6, <1>7, <1>8, <1>9, Zenon DEF CloudPageBack, At, NewestFirst
<1>11. Leaves(FeedJobs, jobs, i, ks)
  BY <1>1, <1>2, FlyingLess
<1>12. j \in PageJobs /\ j \in Flying(jobs, "cloudPage") /\ ks \in Seq(FeedJobs)
  BY <1>3, <1>10, <1>11, FeedJobIs DEF Leaves
<1>13. j.before \in Anchors /\ j.page \in Nat \ {0}
  BY <1>12 DEF PageJobs
<1>14. S \in SUBSET Dates /\ S \in SUBSET CloudTimes
  BY <1>1, <1>4, WithinCloud
<1>15. /\ page.items \in Seq(S) /\ page.done \in BOOLEAN
       /\ Paged("desc", S, page.items, {}, (j.page - 1) * PageLimit, j.page * PageLimit)
       /\ page.done <=> Cardinality(S) <= j.page * PageLimit
  BY <1>5, <1>13, <1>14, CloudPageIs
<1>16. page.items \in Seq(CloudTimes) /\ old \in Seq(CloudTimes)
  <2>1. page.items \in Seq(CloudTimes)
    BY <1>14, <1>15, SeqWider
  <2>2. old \in Seq(CloudTimes)
    BY <1>1, <1>6 DEF CloudStates
  <2> QED BY <2>1, <2>2
<1>17. items \in Seq(CloudTimes)
  BY <1>7, <1>16, AddsTyped
<1>18. c \in CloudStates /\ c.items = items /\ c.page = j.page /\ c.done = page.done /\ c.before = j.before
  BY <1>8, <1>13, <1>15, <1>17 DEF CloudStates
<1>19. /\ g \in Feeds /\ g.permission = feed.permission /\ g.anchor = feed.anchor /\ g.newer = feed.newer
       /\ g.removed = feed.removed /\ g.changed = feed.changed /\ g.deleted = feed.deleted
       /\ g.device = feed.device /\ g.cloud = c /\ ~g.cloudBusy
       /\ g.slips = IF j.page = 1 THEN feed.slips \ {"failed"} ELSE feed.slips
  BY <1>1, <1>9, <1>17, <1>18 DEF Feeds
<1>20. /\ "reload" \in g.slips <=> "reload" \in feed.slips
       /\ "window" \in g.slips <=> "window" \in feed.slips
       /\ "newer" \in g.slips <=> "newer" \in feed.slips
       /\ j.page # 1 => ("failed" \in g.slips <=> "failed" \in feed.slips)
  BY <1>19
<1>21. /\ Flying(ks, "reload") = Flying(jobs, "reload") /\ Flying(ks, "removal") = Flying(jobs, "removal")
       /\ Flying(ks, "nextPage") = Flying(jobs, "nextPage") /\ Flying(ks, "firstPage") = Flying(jobs, "firstPage")
       /\ (AtMostOne(jobs, "nextPage") => AtMostOne(ks, "nextPage"))
       /\ (AtMostOne(jobs, "cloudPage") => AtMostOne(ks, "cloudPage") /\ Flying(ks, "cloudPage") = {})
  BY <1>10, <1>11 DEF Leaves
<1>22. Ungranted(g, ks)
  BY <1>1, <1>19, <1>21, Zenon DEF WindowOk, Ungranted
<1>23. DeviceOk(g, Flying(ks, "firstPage"), Flying(ks, "nextPage"), pool.device)
  BY <1>1, <1>19, <1>20, <1>21 DEF WindowOk, DeviceOk, DeviceFits
<1>24. ASSUME "reload" \notin g.slips
       PROVE  /\ j.before = feed.anchor
              /\ j.page = 1 \/ (j.page = feed.cloud.page + 1 /\ feed.cloud.before = feed.anchor)
              /\ AtMostOne(ks, "cloudPage") /\ Flying(ks, "cloudPage") = {}
  BY <1>1, <1>12, <1>20, <1>21, <1>24 DEF AskedOk, PagesOk
<1>25. "reload" \notin g.slips => CloudOk(g, Flying(ks, "reload"), pool.cloud)
  <2> SUFFICES ASSUME "reload" \notin g.slips, ~g.deleted
               PROVE  /\ ReloadsFit(Flying(ks, "reload"), pool.cloud)
                      /\ ("failed" \notin g.slips /\ Flying(ks, "reload") = {}) => CloudFits(g, pool.cloud)
    BY DEF CloudOk
  <2>1. CloudOk(feed, Flying(jobs, "reload"), pool.cloud)
    BY <1>1, <1>20 DEF WindowOk
  <2>2. ReloadsFit(Flying(ks, "reload"), pool.cloud)
    BY <1>19, <1>21, <2>1 DEF CloudOk
  <2>3. ASSUME "failed" \notin g.slips, Flying(ks, "reload") = {} PROVE CloudFits(g, pool.cloud)
    <3>1. Within(pool.cloud, g.anchor) = S
      BY <1>4, <1>19, <1>24
    <3>2. Held("desc", S, old, {}, (j.page - 1) * PageLimit)
      <4>1. CASE j.page = 1
        <5>1. old = <<>> /\ (j.page - 1) * PageLimit = 0
          BY <1>6, <4>1, LimitProduct
        <5> QED BY <1>14, <5>1, NothingHeld
      <4>2. CASE j.page # 1
        <5>1. CloudFits(feed, pool.cloud)
          BY <1>19, <1>20, <1>21, <1>24, <2>1, <2>3, <4>2 DEF CloudOk
        <5>2. old = feed.cloud.items /\ j.page - 1 = feed.cloud.page
          BY <1>1, <1>6, <1>24, <4>2 DEF CloudStates
        <5> QED BY <1>19, <3>1, <5>1, <5>2 DEF CloudFits
      <4> QED BY <4>1, <4>2
    <3>3. /\ (j.page - 1) * PageLimit \in Nat /\ j.page * PageLimit \in Nat
          /\ (j.page - 1) * PageLimit <= j.page * PageLimit
      BY <1>13, LimitProduct
    <3>4. old \in Seq(Dates) /\ page.items \in Seq(Dates)
      BY <1>16, PhotosListed
    <3>5. Held("desc", S, items, {}, j.page * PageLimit)
      <4>1. {} \subseteq {}
        OBVIOUS
      <4>2. Held("desc", S, Adds(old, page.items), {}, j.page * PageLimit)
        BY <1>14, <1>15, <3>2, <3>3, <3>4, <4>1, AddsHeld
      <4> QED BY <1>7, <4>2
    <3> QED BY <1>15, <1>18, <1>19, <3>1, <3>5 DEF CloudFits
  <2> QED BY <2>2, <2>3
<1>26. NewerOk(g, pool)
  BY <1>1, <1>19, <1>20, Zenon DEF WindowOk, NewerOk
<1>27. ClockOk(g, Flying(ks, "removal"), pool)
  BY <1>1, <1>19, <1>21, Zenon DEF WindowOk, ClockOk
<1>28. AskedOk(g, ks)
  BY <1>18, <1>19, <1>24 DEF AskedOk, PagesOk
<1>29. WindowOk(g, ks, pool)
  BY <1>1, <1>21, <1>22, <1>23, <1>25, <1>26, <1>27 DEF WindowOk
<1>30. FeedOk(g, ks, pool)
  BY <1>1, <1>12, <1>19, <1>28, <1>29 DEF FeedOk, FeedSound, FeedTyped
<1> QED BY <1>10, <1>30, EffectsOk

LEMMA CloudPageFailedOk ==
  ASSUME FeedOk(feed, jobs, pool), NEW i \in DOMAIN jobs, CloudPageFailed(i)
  PROVE  FeedOk(feed, jobs, pool)'
<1>1. /\ feed \in Feeds /\ jobs \in Seq(FeedJobs) /\ pool \in Pools /\ WindowOk(feed, jobs, pool)
      /\ AskedOk(feed, jobs) /\ feed.cloud \in CloudStates /\ feed.snapshot \in Seq(CloudTimes)
  BY OkTyped, FeedIs
<1>2. PICK ks : ks = RemoveAt(jobs, i)
  OBVIOUS
<1>3. PICK j : j = jobs[i]
  OBVIOUS
<1>4. PICK items : items = IF j.page > 1 THEN feed.cloud.items ELSE IF j.before = Nil THEN feed.snapshot ELSE <<>>
  OBVIOUS
<1>5. PICK c : c = [items |-> items, page |-> j.page, done |-> TRUE, loading |-> FALSE, before |-> j.before]
  OBVIOUS
<1>6. PICK g : g = [feed EXCEPT !.cloud = c, !.cloudBusy = FALSE, !.slips = @ \cup {"failed"}]
  OBVIOUS
<1>7. jobs[i].op = "cloudPage" /\ pool' = pool /\ Effects(g, ks)
  BY <1>2, <1>3, <1>4, <1>5, <1>6, Zenon DEF CloudPageFailed, At
<1>8. Leaves(FeedJobs, jobs, i, ks)
  BY <1>1, <1>2, FlyingLess
<1>9. j \in PageJobs /\ j \in Flying(jobs, "cloudPage") /\ ks \in Seq(FeedJobs)
  BY <1>3, <1>7, <1>8, FeedJobIs DEF Leaves
<1>10. j.before \in Anchors /\ j.page \in Nat \ {0}
  BY <1>9 DEF PageJobs
<1>11. items \in Seq(CloudTimes)
  BY <1>1, <1>4 DEF CloudStates
<1>12. c \in CloudStates /\ c.before = j.before
  BY <1>5, <1>10, <1>11 DEF CloudStates
<1>13. /\ g \in Feeds /\ g.permission = feed.permission /\ g.anchor = feed.anchor /\ g.newer = feed.newer
       /\ g.removed = feed.removed /\ g.changed = feed.changed /\ g.deleted = feed.deleted
       /\ g.device = feed.device /\ g.cloud = c /\ g.slips = feed.slips \cup {"failed"}
  BY <1>1, <1>6, <1>12 DEF Feeds, FeedSlips
<1>14. /\ "reload" \in g.slips <=> "reload" \in feed.slips
       /\ "window" \in g.slips <=> "window" \in feed.slips
       /\ "newer" \in g.slips <=> "newer" \in feed.slips
       /\ "failed" \in g.slips
  BY <1>13
<1>15. /\ Flying(ks, "reload") = Flying(jobs, "reload") /\ Flying(ks, "removal") = Flying(jobs, "removal")
       /\ Flying(ks, "nextPage") = Flying(jobs, "nextPage") /\ Flying(ks, "firstPage") = Flying(jobs, "firstPage")
       /\ (AtMostOne(jobs, "nextPage") => AtMostOne(ks, "nextPage"))
       /\ (AtMostOne(jobs, "cloudPage") => AtMostOne(ks, "cloudPage") /\ Flying(ks, "cloudPage") = {})
  BY <1>7, <1>8 DEF Leaves
<1>16. Ungranted(g, ks)
  BY <1>1, <1>13, <1>15, Zenon DEF WindowOk, Ungranted
<1>17. DeviceOk(g, Flying(ks, "firstPage"), Flying(ks, "nextPage"), pool.device)
  BY <1>1, <1>13, <1>14, <1>15, Zenon DEF WindowOk, DeviceOk, DeviceFits
<1>18. "reload" \notin g.slips => CloudOk(g, Flying(ks, "reload"), pool.cloud)
  BY <1>1, <1>13, <1>14, <1>15, Zenon DEF WindowOk, CloudOk
<1>19. NewerOk(g, pool)
  BY <1>1, <1>13, <1>14, Zenon DEF WindowOk, NewerOk
<1>20. ClockOk(g, Flying(ks, "removal"), pool)
  BY <1>1, <1>13, <1>15, Zenon DEF WindowOk, ClockOk
<1>21. AskedOk(g, ks)
  <2> SUFFICES ASSUME "reload" \notin g.slips
               PROVE  AtMostOne(ks, "cloudPage") /\ PagesOk(g, Flying(ks, "cloudPage"))
    BY DEF AskedOk
  <2>1. /\ j.before = feed.anchor /\ AtMostOne(ks, "cloudPage") /\ Flying(ks, "cloudPage") = {}
    BY <1>1, <1>9, <1>14, <1>15 DEF AskedOk, PagesOk
  <2> QED BY <1>12, <1>13, <2>1 DEF PagesOk
<1>22. WindowOk(g, ks, pool)
  BY <1>1, <1>15, <1>16, <1>17, <1>18, <1>19, <1>20 DEF WindowOk
<1>23. FeedOk(g, ks, pool)
  BY <1>1, <1>9, <1>13, <1>21, <1>22 DEF FeedOk, FeedSound, FeedTyped
<1> QED BY <1>7, <1>23, EffectsOk

(* ------------------------- reloads after the viewer ---------------------- *)

LEMMA CloseViewerOk ==
  ASSUME FeedOk(feed, jobs, pool), CloseViewer
  PROVE  FeedOk(feed, jobs, pool)'
<1>1. /\ feed \in Feeds /\ jobs \in Seq(FeedJobs) /\ pool \in Pools /\ WindowOk(feed, jobs, pool)
      /\ AskedOk(feed, jobs) /\ feed.cloud \in CloudStates /\ pool.cloud \in SUBSET CloudTimes
  BY OkTyped, FeedIs DEF Pools
<1>2. PICK f : f = [feed EXCEPT !.viewing = FALSE]
  OBVIOUS
<1>3. f \in Feeds /\ FeedAlike(feed, f) /\ f.cloudBusy = feed.cloudBusy
  BY <1>1, <1>2, ViewingAlike
<1>4. FeedOk(f, jobs, pool)
  BY <1>1, <1>3, QuietSame, QuietOk
<1>5. WindowOk(f, jobs, pool) /\ AskedOk(f, jobs) /\ f.cloud \in CloudStates /\ f.cloudBusy \in BOOLEAN
      /\ f.deleted \in BOOLEAN /\ f.anchor \in Anchors
  BY <1>3, <1>4, OkTyped, FeedIs
<1>6. PICK busy \in BOOLEAN : busy <=> f.cloudBusy \/ f.cloud.page = 0
  OBVIOUS
<1>7. PICK slip \in BOOLEAN : slip <=> f.deleted /\ (busy \/ Under(jobs, "reload"))
  OBVIOUS
<1>8. PICK g : g = [f EXCEPT !.slips = IF slip THEN @ \cup {"reload"} ELSE @, !.deleted = FALSE]
  OBVIOUS
<1>9. PICK h : h = [g EXCEPT !.cloudBusy = TRUE]
  OBVIOUS
<1>10. PICK j : j = ReloadAsked(f)
  OBVIOUS
<1>11. pool' = pool /\ IF busy THEN feed' = g /\ jobs' = jobs ELSE feed' = h /\ jobs' = Append(jobs, j)
  <2>1. pool' = pool /\ ReloadCloud(f)
    BY <1>2, Zenon DEF CloseViewer
  <2>2. PICK a : a = (f.deleted /\ (busy \/ Under(jobs, "reload")))
    OBVIOUS
  <2>3. a <=> slip
    BY <1>7, <2>2
  <2>4. g = [f EXCEPT !.slips = IF f.deleted /\ ((f.cloudBusy \/ f.cloud.page = 0) \/ Under(jobs, "reload"))
                               THEN @ \cup {"reload"} ELSE @, !.deleted = FALSE]
    BY <1>6, <1>7, <1>8
  <2> QED BY <1>6, <1>9, <1>10, <2>1, <2>4, Zenon DEF ReloadCloud, Holds
<1>12. /\ g \in Feeds /\ g.permission = f.permission /\ g.anchor = f.anchor /\ g.newer = f.newer
       /\ g.removed = f.removed /\ g.changed = f.changed /\ ~g.deleted
       /\ g.device = f.device /\ g.cloud = f.cloud /\ g.cloudBusy = f.cloudBusy
       /\ g.slips = IF slip THEN f.slips \cup {"reload"} ELSE f.slips
  BY <1>3, <1>8 DEF Feeds, FeedSlips
<1>13. /\ "failed" \in g.slips <=> "failed" \in f.slips
       /\ "window" \in g.slips <=> "window" \in f.slips
       /\ "newer" \in g.slips <=> "newer" \in f.slips
       /\ "reload" \notin g.slips => "reload" \notin f.slips /\ ~slip
  BY <1>12
<1>14. Ungranted(g, jobs) /\ DeviceOk(g, Flying(jobs, "firstPage"), Flying(jobs, "nextPage"), pool.device)
       /\ NewerOk(g, pool) /\ ClockOk(g, Flying(jobs, "removal"), pool)
  <2>1. Ungranted(g, jobs)
    BY <1>5, <1>12, Zenon DEF WindowOk, Ungranted
  <2>2. DeviceOk(g, Flying(jobs, "firstPage"), Flying(jobs, "nextPage"), pool.device)
    BY <1>5, <1>12, <1>13 DEF WindowOk, DeviceOk, DeviceFits
  <2>3. NewerOk(g, pool) /\ ClockOk(g, Flying(jobs, "removal"), pool)
    BY <1>5, <1>12, <1>13, Zenon DEF WindowOk, NewerOk, ClockOk
  <2> QED BY <2>1, <2>2, <2>3
<1>15. AskedOk(g, jobs)
  BY <1>5, <1>12, <1>13, Zenon DEF AskedOk, PagesOk
<1>16. CASE busy
  <2>1. "reload" \notin g.slips => CloudOk(g, Flying(jobs, "reload"), pool.cloud)
    <3> SUFFICES ASSUME "reload" \notin g.slips PROVE CloudOk(g, Flying(jobs, "reload"), pool.cloud)
      OBVIOUS
    <3>1. ~f.deleted
      BY <1>7, <1>13, <1>16
    <3> QED BY <1>5, <1>12, <1>13, <3>1, Zenon DEF WindowOk, CloudOk, CloudFits
  <2>2. FeedOk(g, jobs, pool)
    BY <1>1, <1>5, <1>12, <1>14, <1>15, <2>1 DEF FeedOk, FeedSound, FeedTyped, WindowOk
  <2> QED BY <1>11, <1>16, <2>2
<1>17. CASE ~busy
  <2>1. PICK ks : ks = Append(jobs, j)
    OBVIOUS
  <2>2. f.cloud.page \in Nat \ {0}
    BY <1>5, <1>6, <1>17 DEF CloudStates
  <2>3. j \in FeedJobs /\ j.op = "reload" /\ j.page = 1 /\ j.items = <<>>
    <3>1. j \in ReloadJobs /\ j.op = "reload" /\ j.page = 1 /\ j.items = <<>>
      BY <1>5, <1>10, <2>2 DEF ReloadAsked, ReloadJobs
    <3> QED BY <3>1 DEF FeedJobs
  <2>4. Joins(FeedJobs, jobs, j, ks)
    BY <1>1, <2>1, <2>3, FlyingMore
  <2>5. /\ ks \in Seq(FeedJobs) /\ Flying(ks, "firstPage") = Flying(jobs, "firstPage")
        /\ Flying(ks, "nextPage") = Flying(jobs, "nextPage") /\ Flying(ks, "removal") = Flying(jobs, "removal")
        /\ Flying(ks, "cloudPage") = Flying(jobs, "cloudPage") /\ Flying(ks, "reload") = Flying(jobs, "reload") \cup {j}
        /\ (AtMostOne(jobs, "nextPage") => AtMostOne(ks, "nextPage"))
        /\ (AtMostOne(jobs, "cloudPage") => AtMostOne(ks, "cloudPage"))
    BY <2>3, <2>4 DEF Joins
  <2>6. /\ h \in Feeds /\ h.permission = g.permission /\ h.anchor = g.anchor /\ h.newer = g.newer
        /\ h.removed = g.removed /\ h.changed = g.changed /\ h.deleted = g.deleted /\ h.slips = g.slips
        /\ h.device = g.device /\ h.cloud = g.cloud /\ h.cloudBusy
    BY <1>9, <1>12 DEF Feeds
  <2>7. Ungranted(h, ks)
    BY <1>14, <2>5, <2>6, Zenon DEF Ungranted
  <2>8. DeviceOk(h, Flying(ks, "firstPage"), Flying(ks, "nextPage"), pool.device)
    BY <1>14, <2>5, <2>6 DEF DeviceOk, DeviceFits
  <2>9. "reload" \notin h.slips => CloudOk(h, Flying(ks, "reload"), pool.cloud)
    <3> SUFFICES ASSUME "reload" \notin h.slips PROVE ReloadsFit(Flying(ks, "reload"), pool.cloud)
      BY <2>5 DEF CloudOk
    <3>1. ReloadsFit(Flying(jobs, "reload"), pool.cloud)
      <4>1. CASE f.deleted
        <5>1. Flying(jobs, "reload") = {}
          BY <1>7, <1>13, <2>6, <4>1, UnderIs
        <5> QED BY <5>1 DEF ReloadsFit
      <4>2. CASE ~f.deleted
        BY <1>5, <1>13, <2>6, <4>2 DEF WindowOk, CloudOk
      <4> QED BY <4>1, <4>2
    <3>2. Held("desc", Within(pool.cloud, j.before), j.items, {}, (j.page - 1) * PageLimit)
      <4>1. Within(pool.cloud, j.before) \in SUBSET Dates
        BY <1>1, WithinCloud
      <4>2. (j.page - 1) * PageLimit = 0
        BY <2>3, LimitProduct
      <4> QED BY <2>3, <4>1, <4>2, NothingHeld
    <3> QED BY <2>5, <3>1, <3>2 DEF ReloadsFit
  <2>10. NewerOk(h, pool)
    BY <1>14, <2>6, Zenon DEF NewerOk
  <2>11. ClockOk(h, Flying(ks, "removal"), pool)
    BY <1>14, <2>5, <2>6, Zenon DEF ClockOk
  <2>12. AskedOk(h, ks)
    BY <1>15, <2>5, <2>6, Zenon DEF AskedOk, PagesOk
  <2>13. WindowOk(h, ks, pool)
    BY <1>5, <2>5, <2>7, <2>8, <2>9, <2>10, <2>11 DEF WindowOk
  <2>14. FeedOk(h, ks, pool)
    BY <1>1, <2>5, <2>6, <2>12, <2>13 DEF FeedOk, FeedSound, FeedTyped
  <2> QED BY <1>11, <1>17, <2>1, <2>14
<1> QED BY <1>16, <1>17

LEMMA ReloadFailedOk ==
  ASSUME FeedOk(feed, jobs, pool), NEW i \in DOMAIN jobs, ReloadFailed(i)
  PROVE  FeedOk(feed, jobs, pool)'
<1>1. /\ feed \in Feeds /\ jobs \in Seq(FeedJobs) /\ pool \in Pools /\ WindowOk(feed, jobs, pool)
  BY OkTyped
<1>2. PICK ks : ks = RemoveAt(jobs, i)
  OBVIOUS
<1>3. PICK g : g = [feed EXCEPT !.cloudBusy = FALSE, !.slips = @ \cup {"reload"}]
  OBVIOUS
<1>4. jobs[i].op = "reload" /\ pool' = pool /\ feed' = g /\ jobs' = ks
  BY <1>2, <1>3, Zenon DEF ReloadFailed, At, Holds
<1>5. Leaves(FeedJobs, jobs, i, ks)
  BY <1>1, <1>2, FlyingLess
<1>6. /\ g \in Feeds /\ g.permission = feed.permission /\ g.anchor = feed.anchor /\ g.newer = feed.newer
      /\ g.removed = feed.removed /\ g.changed = feed.changed
      /\ g.device = feed.device /\ g.slips = feed.slips \cup {"reload"}
  BY <1>1, <1>3 DEF Feeds, FeedSlips
<1>7. /\ "window" \in g.slips <=> "window" \in feed.slips
      /\ "newer" \in g.slips <=> "newer" \in feed.slips
      /\ "reload" \in g.slips
  BY <1>6
<1>8. /\ ks \in Seq(FeedJobs) /\ Flying(ks, "firstPage") = Flying(jobs, "firstPage")
      /\ Flying(ks, "nextPage") = Flying(jobs, "nextPage") /\ Flying(ks, "removal") = Flying(jobs, "removal")
      /\ (AtMostOne(jobs, "nextPage") => AtMostOne(ks, "nextPage"))
  BY <1>4, <1>5 DEF Leaves
<1>9. Ungranted(g, ks)
  BY <1>1, <1>6, <1>8, Zenon DEF WindowOk, Ungranted
<1>10. DeviceOk(g, Flying(ks, "firstPage"), Flying(ks, "nextPage"), pool.device)
  BY <1>1, <1>6, <1>7, <1>8 DEF WindowOk, DeviceOk, DeviceFits
<1>11. NewerOk(g, pool) /\ ClockOk(g, Flying(ks, "removal"), pool)
  BY <1>1, <1>6, <1>7, <1>8, Zenon DEF WindowOk, NewerOk, ClockOk
<1>12. FeedOk(g, ks, pool)
  BY <1>1, <1>6, <1>7, <1>8, <1>9, <1>10, <1>11 DEF FeedOk, FeedSound, FeedTyped, WindowOk, AskedOk
<1> QED BY <1>4, <1>12

(* The pages of a reload, up to the one it is read to. *)
LEMMA ReloadReads ==
  ASSUME NEW j \in ReloadJobs, NEW C \in SUBSET CloudTimes, NEW S, S = Within(C, j.before),
         NEW page, page = CloudPaged(InOrder(S, "desc"), j.page), NEW items, items = Adds(j.items, page.items)
  PROVE  /\ items \in Seq(CloudTimes) /\ page.done \in BOOLEAN
         /\ Held("desc", S, j.items, {}, (j.page - 1) * PageLimit) => Held("desc", S, items, {}, j.page * PageLimit)
         /\ page.done => Cardinality(S) <= j.page * PageLimit
<1>1. j.page \in Nat \ {0} /\ j.items \in Seq(CloudTimes)
  BY DEF ReloadJobs
<1>2. S \in SUBSET Dates /\ S \in SUBSET CloudTimes
  BY WithinCloud
<1>3. /\ page.items \in Seq(S) /\ page.done \in BOOLEAN
      /\ Paged("desc", S, page.items, {}, (j.page - 1) * PageLimit, j.page * PageLimit)
      /\ page.done <=> Cardinality(S) <= j.page * PageLimit
  BY <1>1, <1>2, CloudPageIs
<1>4. page.items \in Seq(CloudTimes)
  BY <1>2, <1>3, SeqWider
<1>5. items \in Seq(CloudTimes)
  BY <1>1, <1>4, AddsTyped
<1>6. /\ (j.page - 1) * PageLimit \in Nat /\ j.page * PageLimit \in Nat
      /\ (j.page - 1) * PageLimit <= j.page * PageLimit
  BY <1>1, LimitProduct
<1>7. j.items \in Seq(Dates) /\ page.items \in Seq(Dates)
  BY <1>1, <1>4, PhotosListed
<1>8. ASSUME Held("desc", S, j.items, {}, (j.page - 1) * PageLimit)
      PROVE  Held("desc", S, items, {}, j.page * PageLimit)
  <2>1. {} \subseteq {}
    OBVIOUS
  <2>2. Held("desc", S, Adds(j.items, page.items), {}, j.page * PageLimit)
    BY <1>2, <1>3, <1>6, <1>7, <1>8, <2>1, AddsHeld
  <2> QED BY <2>2
<1> QED BY <1>3, <1>5, <1>8

LEMMA ReloadBackOk ==
  ASSUME FeedOk(feed, jobs, pool), NEW i \in DOMAIN jobs, ReloadBack(i)
  PROVE  FeedOk(feed, jobs, pool)'
<1>1. /\ feed \in Feeds /\ jobs \in Seq(FeedJobs) /\ pool \in Pools /\ WindowOk(feed, jobs, pool)
      /\ AskedOk(feed, jobs) /\ pool.cloud \in SUBSET CloudTimes /\ feed.cloud \in CloudStates
      /\ feed.snapshot \in Seq(CloudTimes)
  BY OkTyped, FeedIs DEF Pools
<1>2. PICK j : j = jobs[i]
  OBVIOUS
<1>3. PICK S : S = Within(pool.cloud, j.before)
  OBVIOUS
<1>4. PICK page : page = CloudPaged(InOrder(S, "desc"), j.page)
  OBVIOUS
<1>5. PICK items : items = Adds(j.items, page.items)
  OBVIOUS
<1>6. j.op = "reload" /\ pool' = pool
  BY <1>2 DEF ReloadBack, At
<1>7. j \in ReloadJobs /\ j \in Flying(jobs, "reload")
  <2>1. j \in FeedJobs
    BY <1>1, <1>2, EntriesIn
  <2>2. j \in Flying(jobs, "reload")
    BY <1>2, <1>6 DEF Flying, ToSet
  <2> QED BY <1>6, <2>1, <2>2, FeedJobIs
<1>8. j.page \in Nat \ {0} /\ j.upto \in Nat \ {0} /\ j.page <= j.upto /\ j.before \in Anchors
  BY <1>7 DEF ReloadJobs
<1>9. /\ items \in Seq(CloudTimes) /\ page.done \in BOOLEAN
      /\ Held("desc", S, j.items, {}, (j.page - 1) * PageLimit) => Held("desc", S, items, {}, j.page * PageLimit)
      /\ page.done => Cardinality(S) <= j.page * PageLimit
  BY <1>1, <1>3, <1>4, <1>5, <1>7, ReloadReads
<1>10. ASSUME ~feed.deleted, "reload" \notin feed.slips
       PROVE  /\ ReloadsFit(Flying(jobs, "reload"), pool.cloud)
              /\ Held("desc", S, items, {}, j.page * PageLimit)
  <2>1. ReloadsFit(Flying(jobs, "reload"), pool.cloud)
    BY <1>1, <1>10 DEF WindowOk, CloudOk
  <2> QED BY <1>3, <1>7, <1>9, <2>1 DEF ReloadsFit
<1>11. CASE j.page < j.upto
  <2>0. PICK n : n = j.page + 1
    OBVIOUS
  <2>1. PICK k : k = [j EXCEPT !.page = n, !.items = items]
    OBVIOUS
  <2>2. PICK ks : ks = [jobs EXCEPT ![i] = k]
    OBVIOUS
  <2>3. feed' = feed /\ jobs' = ks
    BY <1>2, <1>3, <1>4, <1>5, <1>11, <2>0, <2>1, <2>2, Zenon DEF ReloadBack, Becomes, NewestFirst
  <2>4. k \in ReloadJobs /\ k.op = "reload" /\ k.page = j.page + 1 /\ k.items = items /\ k.before = j.before
    <3>1. j \in ReloadJobs /\ items \in Seq(CloudTimes) /\ n \in Nat \ {0} /\ n <= j.upto
      BY <1>7, <1>8, <1>9, <1>11, <2>0
    <3>2. j \in [op : {"reload"}, live : BOOLEAN, page : Nat \ {0}, upto : Nat \ {0}, before : Anchors, items : Seq(CloudTimes)]
      BY <3>1 DEF ReloadJobs
    <3>3. /\ k \in [op : {"reload"}, live : BOOLEAN, page : Nat \ {0}, upto : Nat \ {0}, before : Anchors, items : Seq(CloudTimes)]
          /\ k.op = "reload" /\ k.page = n /\ k.items = items /\ k.before = j.before /\ k.upto = j.upto
      BY <2>1, <3>1, <3>2
    <3>4. k.page <= k.upto
      BY <3>1, <3>3
    <3>5. k \in ReloadJobs
      BY <3>3, <3>4 DEF ReloadJobs
    <3> QED BY <2>0, <3>3, <3>5
  <2>5. k \in FeedJobs /\ k.op = jobs[i].op
    BY <1>2, <1>6, <2>4 DEF FeedJobs
  <2>6. /\ ks \in Seq(FeedJobs) /\ Marked(jobs, "reload", ks) /\ k \in Flying(ks, "reload")
        /\ Flying(ks, "reload") \subseteq Flying(jobs, "reload") \cup {k}
    <3>1. TurnsInto(FeedJobs, jobs, k, ks)
      BY <1>1, <2>2, <2>5, FlyingBecomes
    <3> QED BY <2>4, <3>1 DEF TurnsInto
  <2>7. /\ Flying(ks, "firstPage") = Flying(jobs, "firstPage")
        /\ Flying(ks, "nextPage") = Flying(jobs, "nextPage") /\ Flying(ks, "removal") = Flying(jobs, "removal")
        /\ Flying(ks, "cloudPage") = Flying(jobs, "cloudPage")
        /\ (AtMostOne(jobs, "nextPage") => AtMostOne(ks, "nextPage"))
        /\ (AtMostOne(jobs, "cloudPage") => AtMostOne(ks, "cloudPage"))
    BY <2>6 DEF Marked
  <2>8. Ungranted(feed, ks)
    BY <1>1, <2>7, Zenon DEF WindowOk, Ungranted
  <2>9. "reload" \notin feed.slips => CloudOk(feed, Flying(ks, "reload"), pool.cloud)
    <3> SUFFICES ASSUME "reload" \notin feed.slips, ~feed.deleted
                 PROVE  ReloadsFit(Flying(ks, "reload"), pool.cloud)
      BY <2>6 DEF CloudOk
    <3>1. (k.page - 1) * PageLimit = j.page * PageLimit
      BY <1>8, <2>4, LimitProduct
    <3>2. Held("desc", Within(pool.cloud, k.before), k.items, {}, (k.page - 1) * PageLimit)
      BY <1>3, <1>10, <2>4, <3>1
    <3> QED BY <1>10, <2>6, <3>2 DEF ReloadsFit
  <2>10. WindowOk(feed, ks, pool)
    BY <1>1, <2>7, <2>8, <2>9 DEF WindowOk
  <2>11. AskedOk(feed, ks)
    BY <1>1, <2>7 DEF AskedOk
  <2>12. FeedOk(feed, ks, pool)
    BY <1>1, <2>6, <2>10, <2>11 DEF FeedOk, FeedSound, FeedTyped
  <2> QED BY <1>6, <2>3, <2>12
<1>12. CASE ~(j.page < j.upto)
  <2>1. PICK ks : ks = RemoveAt(jobs, i)
    OBVIOUS
  <2>2. PICK over \in BOOLEAN : over <=> Overtaken(j)
    OBVIOUS
  <2>3. PICK g : g = [feed EXCEPT !.cloud.items = items, !.cloud.done = page.done, !.cloudBusy = FALSE,
                                  !.snapshot = IF j.before = Nil THEN items ELSE @,
                                  !.slips = IF over THEN @ \cup {"reload"} ELSE @]
    OBVIOUS
  <2>4. Effects(g, ks)
    <3>1. g = [feed EXCEPT !.cloud.items = items, !.cloud.done = page.done, !.cloudBusy = FALSE,
                           !.snapshot = IF j.before = Nil THEN items ELSE @,
                           !.slips = IF Overtaken(j) THEN @ \cup {"reload"} ELSE @]
      BY <2>2, <2>3
    <3> QED BY <1>2, <1>3, <1>4, <1>5, <1>12, <2>1, <3>1, Zenon DEF ReloadBack, NewestFirst
  <2>5. Leaves(FeedJobs, jobs, i, ks)
    BY <1>1, <2>1, FlyingLess
  <2>6. /\ ks \in Seq(FeedJobs) /\ Flying(ks, "firstPage") = Flying(jobs, "firstPage")
        /\ Flying(ks, "nextPage") = Flying(jobs, "nextPage") /\ Flying(ks, "removal") = Flying(jobs, "removal")
        /\ Flying(ks, "cloudPage") = Flying(jobs, "cloudPage") /\ Flying(ks, "reload") \subseteq Flying(jobs, "reload")
        /\ (AtMostOne(jobs, "nextPage") => AtMostOne(ks, "nextPage"))
        /\ (AtMostOne(jobs, "cloudPage") => AtMostOne(ks, "cloudPage"))
    BY <1>2, <1>6, <2>5 DEF Leaves
  <2>7. /\ g.cloud \in CloudStates /\ g.cloud.items = items /\ g.cloud.done = page.done
        /\ g.cloud.page = feed.cloud.page /\ g.cloud.before = feed.cloud.before
    BY <1>1, <1>9, <2>3 DEF Feeds, CloudStates
  <2>8. /\ g \in Feeds /\ g.permission = feed.permission /\ g.anchor = feed.anchor /\ g.newer = feed.newer
        /\ g.removed = feed.removed /\ g.changed = feed.changed /\ g.deleted = feed.deleted
        /\ g.device = feed.device /\ ~g.cloudBusy /\ g.slips = IF over THEN feed.slips \cup {"reload"} ELSE feed.slips
    BY <1>1, <1>9, <2>3, <2>7, Zenon DEF Feeds, FeedSlips
  <2>9. /\ "window" \in g.slips <=> "window" \in feed.slips
        /\ "newer" \in g.slips <=> "newer" \in feed.slips
        /\ "reload" \notin g.slips => ~over /\ "reload" \notin feed.slips
    BY <2>8
  <2>10. ASSUME "reload" \notin g.slips
         PROVE  j.before = feed.anchor /\ feed.cloud.page = j.page /\ Flying(jobs, "cloudPage") = {}
    <3>1. j.before = feed.anchor /\ feed.cloud.page = j.upto /\ ~Under(jobs, "cloudPage")
      BY <2>2, <2>9, <2>10 DEF Overtaken
    <3> QED BY <1>8, <1>12, <3>1, UnderIs
  <2>11. Ungranted(g, ks)
    BY <1>1, <2>6, <2>8, Zenon DEF WindowOk, Ungranted
  <2>12. DeviceOk(g, Flying(ks, "firstPage"), Flying(ks, "nextPage"), pool.device)
    BY <1>1, <2>6, <2>8, <2>9 DEF WindowOk, DeviceOk, DeviceFits
  <2>13. "reload" \notin g.slips => CloudOk(g, Flying(ks, "reload"), pool.cloud)
    <3> SUFFICES ASSUME "reload" \notin g.slips, ~g.deleted
                 PROVE  ReloadsFit(Flying(ks, "reload"), pool.cloud) /\ CloudFits(g, pool.cloud)
      BY DEF CloudOk
    <3>1. ReloadsFit(Flying(jobs, "reload"), pool.cloud) /\ Held("desc", S, items, {}, j.page * PageLimit)
      BY <1>10, <2>8, <2>9
    <3>2. S = Within(pool.cloud, g.anchor) /\ g.cloud.page = j.page
      BY <1>3, <2>7, <2>8, <2>10
    <3>3. CloudFits(g, pool.cloud)
      BY <1>9, <2>7, <3>1, <3>2 DEF CloudFits
    <3> QED BY <2>6, <3>1, <3>3 DEF ReloadsFit
  <2>14. NewerOk(g, pool) /\ ClockOk(g, Flying(ks, "removal"), pool)
    BY <1>1, <2>6, <2>8, <2>9, Zenon DEF WindowOk, NewerOk, ClockOk
  <2>15. AskedOk(g, ks)
    <3> SUFFICES ASSUME "reload" \notin g.slips
                 PROVE  AtMostOne(ks, "cloudPage") /\ PagesOk(g, Flying(ks, "cloudPage"))
      BY DEF AskedOk
    <3>1. AtMostOne(ks, "cloudPage") /\ Flying(ks, "cloudPage") = {} /\ feed.cloud.before = feed.anchor
      BY <1>1, <2>6, <2>9, <2>10 DEF AskedOk, PagesOk
    <3> QED BY <2>7, <2>8, <3>1 DEF PagesOk
  <2>16. WindowOk(g, ks, pool)
    BY <1>1, <2>6, <2>11, <2>12, <2>13, <2>14 DEF WindowOk
  <2>17. FeedOk(g, ks, pool)
    BY <1>1, <2>6, <2>8, <2>15, <2>16 DEF FeedOk, FeedSound, FeedTyped
  <2> QED BY <1>6, <2>4, <2>17, EffectsOk
<1> QED BY <1>11, <1>12

(* --------------------------- the newer side ------------------------------ *)

LEMMA AboveIs ==
  ASSUME NEW T \in SUBSET Dates, NEW S \in SUBSET T, NEW a, NEW A, A = Above(S, a)
  PROVE  A \in SUBSET S /\ A \in SUBSET T /\ A \in SUBSET Dates /\ \A q \in A : q > a
BY DEF Above

LEMMA HeldAll ==
  ASSUME NEW order, NEW S \in SUBSET Dates, NEW items \in Seq(Dates), NEW skip, NEW n \in Nat, Held(order, S, items, skip, n),
         Cardinality(S) <= n
  PROVE  \A t \in S : t \in ToSet(items) \/ t \in skip
<1>1. Cardinality(S) \in Nat
  BY CountOf
<1>2. n >= Cardinality(S)
  BY <1>1
<1> QED BY <1>2, HeldComplete

(* The next page of the cloud's newer side. *)
CloudOn(n, m, A) ==
  /\ m \in NewerStates /\ m.device = n.device /\ m.cursor = n.cursor /\ m.deviceDone = n.deviceDone /\ m.cut = n.cut
  /\ NewerCloud(n, A) => NewerCloud(m, A) /\ ToSet(m.cloud) \subseteq A
LEMMA NewerCloudOf ==
  ASSUME NEW n \in NewerStates, NEW C \in SUBSET CloudTimes, NEW A \in SUBSET C, ~n.cloudDone,
         NEW c, c = CloudPaged(InOrder(A, "asc"), n.page + 1),
         NEW m, m = [n EXCEPT !.cloud = Adds(@, c.items), !.page = @ + 1, !.cloudDone = c.done]
  PROVE  CloudOn(n, m, A)
<1>1. n.page \in Nat /\ n.cloud \in Seq(CloudTimes)
  BY DEF NewerStates
<1>2. PICK k \in Nat \ {0} : k = n.page + 1
  BY <1>1
<1>3. A \in SUBSET Dates /\ A \in SUBSET CloudTimes
  BY PhotosCounted
<1>4. /\ c.items \in Seq(A) /\ c.done \in BOOLEAN
      /\ Paged("asc", A, c.items, {}, (k - 1) * PageLimit, k * PageLimit)
      /\ c.done <=> Cardinality(A) <= k * PageLimit
  BY <1>2, <1>3, CloudPageIs
<1>5. c.items \in Seq(CloudTimes)
  BY <1>3, <1>4, SeqWider
<1>6. Adds(n.cloud, c.items) \in Seq(CloudTimes)
  BY <1>1, <1>5, AddsTyped
<1>7. /\ m \in NewerStates /\ m.cloud = Adds(n.cloud, c.items) /\ m.page = k /\ m.cloudDone = c.done
      /\ m.device = n.device /\ m.cursor = n.cursor /\ m.deviceDone = n.deviceDone /\ m.cut = n.cut
  BY <1>1, <1>2, <1>4, <1>6 DEF NewerStates
<1>8. ASSUME NewerCloud(n, A) PROVE NewerCloud(m, A) /\ ToSet(m.cloud) \subseteq A
  <2>1. Held("asc", A, n.cloud, {}, (k - 1) * PageLimit)
    <3>1. k - 1 = n.page
      BY <1>1, <1>2
    <3> QED BY <1>8, <3>1 DEF NewerCloud
  <2>2. /\ (k - 1) * PageLimit \in Nat /\ k * PageLimit \in Nat /\ (k - 1) * PageLimit <= k * PageLimit
    BY LimitProduct
  <2>3. n.cloud \in Seq(Dates) /\ c.items \in Seq(Dates) /\ m.cloud \in Seq(Dates)
    BY <1>1, <1>5, <1>6, <1>7, PhotosListed
  <2>4. Held("asc", A, m.cloud, {}, k * PageLimit)
    <3>1. {} \subseteq {}
      OBVIOUS
    <3>2. Held("asc", A, Adds(n.cloud, c.items), {}, k * PageLimit)
      BY <1>3, <1>4, <2>1, <2>2, <2>3, <3>1, AddsHeld
    <3> QED BY <1>7, <3>2
  <2>5. m.cloudDone => A \subseteq ToSet(m.cloud)
    <3> SUFFICES ASSUME m.cloudDone, NEW t \in A PROVE t \in ToSet(m.cloud)
      OBVIOUS
    <3>1. Cardinality(A) <= k * PageLimit
      BY <1>4, <1>7
    <3>2. t \in ToSet(m.cloud) \/ t \in {}
      BY <1>3, <2>2, <2>3, <2>4, <3>1, HeldAll
    <3> QED BY <3>2
  <2>6. Sorted("asc", m.cloud) /\ ToSet(m.cloud) \subseteq A
    BY <2>4 DEF Held
  <2> QED BY <1>7, <2>4, <2>5, <2>6 DEF NewerCloud
<1> QED BY <1>7, <1>8 DEF CloudOn

(* The next page of the phone's newer side. *)
DeviceOn(n, m, A) ==
  /\ m \in NewerStates /\ m.cloud = n.cloud /\ m.page = n.page /\ m.cloudDone = n.cloudDone
  /\ NewerDevice(n, A) => NewerDevice(m, A) /\ ToSet(m.device) \subseteq A
LEMMA NewerDeviceOf ==
  ASSUME NEW n \in NewerStates, NEW D \in SUBSET PhoneTimes, NEW A \in SUBSET D, ~n.deviceDone,
         NEW d, d = DevicePaged(InOrder(A, "asc"), Cursor(n.cursor)),
         NEW m, m = [n EXCEPT !.device = Adds(@, d.items), !.cursor = d.cursor, !.deviceDone = d.done,
                              !.cut = @ \cup d.cut]
  PROVE  DeviceOn(n, m, A)
<1>1. n.device \in Seq(PhoneTimes) /\ n.cut \in SUBSET PhoneTimes /\ n.cursor \in Nat \cup {Nil}
  BY DEF NewerStates
<1>2. PICK from \in Nat : from = Cursor(n.cursor)
  BY <1>1 DEF Cursor
<1>3. A \in SUBSET Dates /\ A \in SUBSET PhoneTimes
  BY PhotosCounted
<1>4. /\ d.items \in Seq(A) /\ d.cut \subseteq A /\ d.done \in BOOLEAN
      /\ \E z \in Nat : /\ from < z /\ Paged("asc", A, d.items, Hidden(d.cut), from, z)
                        /\ d.done <=> Cardinality(A) <= z
                        /\ d.cursor = IF d.done THEN Nil ELSE z
  <2>1. d = DevicePaged(InOrder(A, "asc"), from)
    BY <1>2
  <2> QED BY <1>3, <2>1, DevicePageIs
<1>5. d.items \in Seq(PhoneTimes) /\ d.cursor \in Nat \cup {Nil} /\ d.cut \subseteq PhoneTimes
  BY <1>3, <1>4, SeqWider
<1>6. Adds(n.device, d.items) \in Seq(PhoneTimes)
  BY <1>1, <1>5, AddsTyped
<1>7. /\ m \in NewerStates /\ m.device = Adds(n.device, d.items) /\ m.cursor = d.cursor /\ m.deviceDone = d.done
      /\ m.cut = n.cut \cup d.cut /\ m.cloud = n.cloud /\ m.page = n.page /\ m.cloudDone = n.cloudDone
  BY <1>1, <1>4, <1>5, <1>6 DEF NewerStates
<1>8. ASSUME NewerDevice(n, A) PROVE NewerDevice(m, A) /\ ToSet(m.device) \subseteq A
  <2>1. Held("asc", A, n.device, Hidden(n.cut), from)
    BY <1>2, <1>8 DEF NewerDevice
  <2>2. PICK z \in Nat : /\ from < z /\ Paged("asc", A, d.items, Hidden(d.cut), from, z)
                         /\ d.done <=> Cardinality(A) <= z
                         /\ d.cursor = IF d.done THEN Nil ELSE z
    BY <1>4
  <2>3. from <= z /\ Hidden(n.cut) \subseteq Hidden(m.cut) /\ Hidden(d.cut) \subseteq Hidden(m.cut)
    BY <1>2, <1>7, <2>2 DEF Hidden
  <2>4. n.device \in Seq(Dates) /\ d.items \in Seq(Dates) /\ m.device \in Seq(Dates)
    BY <1>1, <1>5, <1>6, <1>7, PhotosListed
  <2>5. Held("asc", A, m.device, Hidden(m.cut), z)
    <3>1. Held("asc", A, Adds(n.device, d.items), Hidden(m.cut), z)
      BY <1>2, <1>3, <2>1, <2>2, <2>3, <2>4, AddsHeld
    <3> QED BY <1>7, <3>1
  <2>6. Sorted("asc", m.device) /\ ToSet(m.device) \subseteq A
    BY <2>5 DEF Held
  <2>7. CASE d.done
    <3>1. ASSUME NEW t \in A PROVE t \in ToSet(m.device) \cup Hidden(m.cut)
      <4>1. Cardinality(A) <= z
        BY <2>2, <2>7
      <4>2. t \in ToSet(m.device) \/ t \in Hidden(m.cut)
        BY <1>3, <2>4, <2>5, <4>1, HeldAll
      <4> QED BY <4>2
    <3> QED BY <1>7, <2>6, <2>7, <3>1 DEF NewerDevice
  <2>8. CASE ~d.done
    <3>1. Held("asc", A, m.device, Hidden(m.cut), Reach(A, d.done, d.cursor)) /\ Cursor(d.cursor) <= Cardinality(A)
      BY <1>3, <1>4, <2>2, <2>5, <2>8, ReachOf
    <3> QED BY <1>7, <2>6, <2>8, <3>1 DEF NewerDevice, Reach
  <2> QED BY <2>6, <2>7, <2>8
<1> QED BY <1>7, <1>8 DEF DeviceOn

LEMMA NewerBackOk ==
  ASSUME FeedOk(feed, jobs, pool), NEW i \in DOMAIN jobs, NEW lost \in BOOLEAN, NewerBack(i, lost)
  PROVE  FeedOk(feed, jobs, pool)'
<1>1. /\ feed \in Feeds /\ jobs \in Seq(FeedJobs) /\ pool \in Pools /\ feed.newer \in NewerStates
      /\ pool.cloud \in SUBSET CloudTimes /\ pool.device \in SUBSET PhoneTimes
  BY OkTyped, FeedIs DEF Pools
<1>2. PICK ks : ks = RemoveAt(jobs, i)
  OBVIOUS
<1>3. PICK n : n = feed.newer
  OBVIOUS
<1>4. PICK A : A = Above(pool.cloud, feed.anchor)
  OBVIOUS
<1>5. PICK B : B = Above(pool.device, feed.anchor)
  OBVIOUS
<1>6. PICK c : c = CloudPaged(InOrder(A, "asc"), n.page + 1)
  OBVIOUS
<1>7. PICK d : d = DevicePaged(InOrder(B, "asc"), Cursor(n.cursor))
  OBVIOUS
<1>8. PICK n1 : n1 = IF n.cloudDone THEN n ELSE IF lost THEN [n EXCEPT !.cloudDone = TRUE]
                     ELSE [n EXCEPT !.cloud = Adds(@, c.items), !.page = @ + 1, !.cloudDone = c.done]
  OBVIOUS
<1>9. PICK n2 : n2 = IF n1.deviceDone THEN n1
                     ELSE [n1 EXCEPT !.device = Adds(@, d.items), !.cursor = d.cursor, !.deviceDone = d.done,
                                     !.cut = @ \cup d.cut]
  OBVIOUS
<1>10. PICK g : g = [feed EXCEPT !.newer = n2, !.slips = IF lost THEN @ \cup {"newer"} ELSE @]
  OBVIOUS
<1>11. jobs[i].op = "newer" /\ pool' = pool /\ feed' = g /\ jobs' = ks
  <2>1. Beyond(pool.cloud) = InOrder(A, "asc") /\ Beyond(pool.device) = InOrder(B, "asc")
    BY <1>4, <1>5 DEF Beyond, OldestFirst, Above
  <2>2. c = CloudPaged(Beyond(pool.cloud), feed.newer.page + 1)
    BY <1>3, <1>6, <2>1
  <2>3. d = DevicePaged(Beyond(pool.device), IF feed.newer.cursor = Nil THEN 0 ELSE feed.newer.cursor)
    BY <1>3, <1>7, <2>1, Zenon DEF Cursor
  <2>4. n1 = CloudSide(n, c, lost)
    BY <1>8 DEF CloudSide
  <2>5. n2 = DeviceSide(n1, d)
    BY <1>9 DEF DeviceSide
  <2> QED BY <1>2, <1>3, <1>10, <2>2, <2>3, <2>4, <2>5, Zenon DEF NewerBack, At, Holds
<1>12. FeedOk(feed, ks, pool)
  BY <1>2, <1>11, LessOk
<1>13. WindowOk(feed, ks, pool) /\ AskedOk(feed, ks) /\ ks \in Seq(FeedJobs)
  BY <1>12, OkTyped
<1>14. A \in SUBSET pool.cloud /\ (\A q \in A : q > feed.anchor) /\ B \in SUBSET pool.device /\ (\A q \in B : q > feed.anchor)
  BY <1>4, <1>5 DEF Above
<1>15. /\ n1 \in NewerStates /\ n1.device = n.device /\ n1.cursor = n.cursor /\ n1.deviceDone = n.deviceDone /\ n1.cut = n.cut
       /\ ~lost /\ NewerCloud(n, A) => NewerCloud(n1, A) /\ (n1.cloud = n.cloud \/ ToSet(n1.cloud) \subseteq A)
  <2>1. CASE n.cloudDone
    <3>1. n1 = n
      BY <1>8, <2>1
    <3> QED BY <1>1, <1>3, <3>1
  <2>2. CASE ~n.cloudDone /\ lost
    <3>1. n1 = [n EXCEPT !.cloudDone = TRUE]
      BY <1>8, <2>2
    <3> QED BY <1>1, <1>3, <2>2, <3>1 DEF NewerStates
  <2>3. CASE ~n.cloudDone /\ ~lost
    <3>1. n1 = [n EXCEPT !.cloud = Adds(@, c.items), !.page = @ + 1, !.cloudDone = c.done]
      BY <1>8, <2>3
    <3>2. n \in NewerStates
      BY <1>1, <1>3
    <3>3. CloudOn(n, n1, A)
      BY <1>1, <1>6, <1>14, <2>3, <3>1, <3>2, NewerCloudOf
    <3> QED BY <3>3 DEF CloudOn
  <2> QED BY <2>1, <2>2, <2>3
<1>16. /\ n2 \in NewerStates /\ n2.cloud = n1.cloud /\ n2.page = n1.page /\ n2.cloudDone = n1.cloudDone
       /\ NewerDevice(n1, B) => NewerDevice(n2, B) /\ (n2.device = n1.device \/ ToSet(n2.device) \subseteq B)
  <2>1. CASE n1.deviceDone
    <3>1. n2 = n1
      BY <1>9, <2>1
    <3> QED BY <1>15, <3>1
  <2>2. CASE ~n1.deviceDone
    <3>1. n2 = [n1 EXCEPT !.device = Adds(@, d.items), !.cursor = d.cursor, !.deviceDone = d.done, !.cut = @ \cup d.cut]
      BY <1>9, <2>2
    <3>2. d = DevicePaged(InOrder(B, "asc"), Cursor(n1.cursor)) /\ n1 \in NewerStates
      BY <1>7, <1>15
    <3>3. DeviceOn(n1, n2, B)
      BY <1>1, <1>14, <2>2, <3>1, <3>2, NewerDeviceOf
    <3> QED BY <3>3 DEF DeviceOn
  <2> QED BY <2>1, <2>2
<1>17. /\ g \in Feeds /\ g.permission = feed.permission /\ g.anchor = feed.anchor /\ g.newer = n2
       /\ g.removed = feed.removed /\ g.changed = feed.changed /\ g.deleted = feed.deleted
       /\ g.device = feed.device /\ g.cloud = feed.cloud /\ g.cloudBusy = feed.cloudBusy
       /\ g.slips = IF lost THEN feed.slips \cup {"newer"} ELSE feed.slips
  BY <1>1, <1>10, <1>16 DEF Feeds, FeedSlips
<1>18. /\ "window" \in g.slips <=> "window" \in feed.slips
       /\ "failed" \in g.slips <=> "failed" \in feed.slips
       /\ "reload" \in g.slips <=> "reload" \in feed.slips
       /\ "newer" \notin g.slips => ~lost /\ "newer" \notin feed.slips
  BY <1>17
<1>19. Ungranted(g, ks)
  BY <1>13, <1>17, Zenon DEF WindowOk, Ungranted
<1>20. DeviceOk(g, Flying(ks, "firstPage"), Flying(ks, "nextPage"), pool.device)
  BY <1>13, <1>17, <1>18 DEF WindowOk, DeviceOk, DeviceFits
<1>21. "reload" \notin g.slips => CloudOk(g, Flying(ks, "reload"), pool.cloud)
  BY <1>13, <1>17, <1>18, Zenon DEF WindowOk, CloudOk, CloudFits
<1>22. NewerOk(g, pool)
  <2> SUFFICES ASSUME g.anchor # Nil, "newer" \notin g.slips PROVE NewerFits(n2, feed.anchor, pool)
    BY <1>17 DEF NewerOk
  <2>1. NewerFits(n, feed.anchor, pool)
    BY <1>3, <1>13, <1>17, <1>18 DEF WindowOk, NewerOk
  <2>2. NewerCloud(n, A) /\ NewerDevice(n, B)
    BY <1>4, <1>5, <2>1 DEF NewerFits
  <2>3. NewerCloud(n1, A) /\ (n1.cloud = n.cloud \/ ToSet(n1.cloud) \subseteq A)
    BY <1>15, <1>18, <2>2
  <2>4. NewerDevice(n1, B)
    BY <1>15, <2>2, Zenon DEF NewerDevice
  <2>5. NewerDevice(n2, B) /\ (n2.device = n.device \/ ToSet(n2.device) \subseteq B)
    BY <1>15, <1>16, <2>4
  <2>6. NewerCloud(n2, A)
    BY <1>16, <2>3, Zenon DEF NewerCloud
  <2>7. \A q \in ToSet(n2.cloud) : q > feed.anchor
    BY <1>14, <1>16, <2>1, <2>3 DEF NewerFits
  <2>8. \A q \in ToSet(n2.device) : q > feed.anchor
    BY <1>14, <2>1, <2>5 DEF NewerFits
  <2>9. \A q \in ToSet(n2.device) \cap CameraTimes : q <= pool.clock
    <3>1. \A q \in B \cap CameraTimes : q <= pool.clock
      BY <1>13, <1>14 DEF WindowOk, ClockOk
    <3> QED BY <2>1, <2>5, <3>1 DEF NewerFits
  <2> QED BY <1>4, <1>5, <2>5, <2>6, <2>7, <2>8, <2>9 DEF NewerFits
<1>23. ClockOk(g, Flying(ks, "removal"), pool)
  BY <1>13, <1>17, Zenon DEF WindowOk, ClockOk
<1>24. AskedOk(g, ks)
  BY <1>13, <1>17, <1>18, Zenon DEF AskedOk, PagesOk
<1>25. WindowOk(g, ks, pool)
  BY <1>13, <1>19, <1>20, <1>21, <1>22, <1>23 DEF WindowOk
<1>26. FeedOk(g, ks, pool)
  BY <1>1, <1>13, <1>17, <1>24, <1>25 DEF FeedOk, FeedSound, FeedTyped
<1> QED BY <1>11, <1>26

(* ------------------- the tab keeps the invariant ------------------------- *)

LEMMA FeedStarts == FeedInit => FeedOk(feed, jobs, pool)
<1> SUFFICES ASSUME FeedInit PROVE FeedOk(feed, jobs, pool)
  OBVIOUS
<1>1. PICK f : f = [NoFeed EXCEPT !.cloudBusy = TRUE, !.cloud.loading = TRUE]
  OBVIOUS
<1>2. PICK j1 : j1 = PermissionAsked(f)
  OBVIOUS
<1>3. PICK j2 : j2 = [op |-> "cloudPage", live |-> TRUE, page |-> 1, before |-> Nil]
  OBVIOUS
<1>4. PICK paired \in {{}, PairedVideos} : pool = [device |-> DeviceTimes \cup paired, cloud |-> CloudTimes, clock |-> 0]
  BY DEF FeedInit
<1>5. feed = f /\ jobs = <<j1, j2, Job("months")>>
  BY <1>1, <1>2, <1>3 DEF FeedInit
<1>6. <<>> \in Seq(PhoneTimes) /\ <<>> \in Seq(CloudTimes) /\ Nil \in Anchors
  BY DEF Anchors
<1>7. NoDevice \in DeviceStates /\ NoCloud \in CloudStates /\ NoNewer \in NewerStates
  BY <1>6 DEF NoDevice, NoCloud, NoNewer, DeviceStates, CloudStates, NewerStates
<1>8. /\ f.permission = "unknown" /\ f.anchor = Nil /\ f.device = NoDevice /\ f.newer = NoNewer /\ f.cloudBusy
      /\ f.removed = {} /\ ~f.changed /\ ~f.deleted /\ f.slips = {} /\ f.cloud.items = <<>> /\ f.cloud.page = 0
      /\ ~f.cloud.done /\ f.cloud.before = Nil
  BY <1>1 DEF NoFeed, NoCloud
<1>9. f \in Feeds
  <2>1. NoFeed \in Feeds
    BY <1>6, <1>7 DEF NoFeed, Feeds, Grants, Players, FeedSlips
  <2>2. f.cloud \in CloudStates
    BY <1>1, <1>7 DEF NoFeed, CloudStates
  <2> HIDE DEF NoFeed
  <2>3. f = [NoFeed EXCEPT !.cloudBusy = TRUE, !.cloud = f.cloud]
    BY <1>1, <2>1 DEF Feeds
  <2> QED BY <2>1, <2>2, <2>3 DEF Feeds
<1>10. pool \in Pools /\ pool.device \cap CameraTimes \subseteq DeviceTimes \cup PairedVideos /\ pool.clock = 0
       /\ pool.device \subseteq DeviceTimes \cup PairedVideos
  <2>1. paired \subseteq PairedVideos
    BY <1>4
  <2> QED BY <1>4, <2>1 DEF Pools, PhoneTimes
<1>11. /\ j1 \in FeedJobs /\ j2 \in FeedJobs /\ Job("months") \in FeedJobs
       /\ j1.op = "permission" /\ j2.op = "cloudPage" /\ Job("months").op = "months" /\ j2.page = 1 /\ j2.before = Nil
  <2>1. j1 \in FeedJobs /\ j1.op = "permission"
    BY <1>2, <1>6, <1>8 DEF PermissionAsked, PermissionJobs, FeedJobs
  <2>2. j2 \in FeedJobs /\ j2.op = "cloudPage" /\ j2.page = 1 /\ j2.before = Nil
    BY <1>3, <1>6 DEF PageJobs, FeedJobs
  <2> QED BY <2>1, <2>2, PlainJob
<1>12. jobs \in Seq(FeedJobs) /\ DOMAIN jobs = 1..3 /\ jobs[1] = j1 /\ jobs[2] = j2 /\ jobs[3] = Job("months")
  BY <1>5, <1>11
<1>13. 1..3 = {1, 2, 3}
  OBVIOUS
<1>14. /\ Flying(jobs, "firstPage") = {} /\ Flying(jobs, "nextPage") = {} /\ Flying(jobs, "reload") = {}
       /\ Flying(jobs, "removal") = {} /\ Flying(jobs, "cloudPage") = {j2}
  BY <1>11, <1>12, <1>13 DEF Flying, ToSet
<1>15. AtMostOne(jobs, "nextPage") /\ AtMostOne(jobs, "cloudPage")
  BY <1>11, <1>12, <1>13 DEF AtMostOne
<1>16. Ungranted(feed, jobs)
  BY <1>5, <1>8, <1>14 DEF Ungranted, NoDevice
<1>17. /\ pool.device \in SUBSET PhoneTimes /\ pool.cloud \in SUBSET CloudTimes
       /\ Within(pool.device, Nil) \in SUBSET Dates /\ Within(pool.cloud, Nil) \in SUBSET Dates
  <2>1. pool.device \in SUBSET PhoneTimes /\ pool.cloud \in SUBSET CloudTimes
    BY <1>10 DEF Pools
  <2> QED BY <2>1, WithinPhone, WithinCloud
<1>18. DeviceOk(feed, {}, {}, pool.device)
  <2>1. Held("desc", Within(pool.device, Nil), <<>>, Hidden({}), 0)
    BY <1>17, NothingHeld
  <2>2. /\ feed.anchor = Nil /\ feed.device.items = <<>> /\ feed.device.cut = {} /\ ~feed.device.ended
        /\ feed.device.cursor = Nil
    BY <1>5, <1>8 DEF NoDevice
  <2> QED BY <2>1, <2>2 DEF DeviceOk, DeviceFits, Cursor
<1>19. CloudOk(feed, {}, pool.cloud)
  <2>1. 0 * PageLimit = 0
    BY FeedAssumption
  <2>2. Held("desc", Within(pool.cloud, Nil), <<>>, {}, 0)
    BY <1>17, NothingHeld
  <2>3. CloudFits(feed, pool.cloud)
    BY <1>5, <1>8, <2>1, <2>2 DEF CloudFits
  <2> QED BY <2>3 DEF CloudOk, ReloadsFit
<1>20. NewerOk(feed, pool)
  BY <1>5, <1>8 DEF NewerOk
<1>21. ClockOk(feed, {}, pool)
  <2>1. feed.removed = {}
    BY <1>5, <1>8
  <2>2. ASSUME NEW q \in pool.device \cap CameraTimes PROVE FALSE
    <3>1. q \in DeviceTimes \cup PairedVideos
      BY <1>10
    <3>2. q < q /\ q \in Nat
      BY <3>1, FeedAssumption, PhotosCounted DEF PhoneTimes
    <3> QED BY <3>2
  <2> QED BY <2>1, <2>2 DEF ClockOk
<1>22. AskedOk(feed, jobs)
  BY <1>5, <1>8, <1>11, <1>14, <1>15 DEF AskedOk, PagesOk
<1>23. WindowOk(feed, jobs, pool)
  BY <1>14, <1>15, <1>16, <1>18, <1>19, <1>20, <1>21 DEF WindowOk
<1> QED BY <1>5, <1>9, <1>10, <1>12, <1>22, <1>23 DEF FeedOk, FeedSound, FeedTyped

LEMMA FeedKeeps ==
  ASSUME FeedOk(feed, jobs, pool), FeedNext
  PROVE  FeedOk(feed, jobs, pool)'
<1>1. CASE AskPermission \/ LoadMore \/ LoadNewer \/ Refresh \/ LibraryChanged \/ OpenViewer \/ CloseViewer \/ CloseVideo
  BY <1>1, AskPermissionOk, LoadMoreOk, LoadNewerOk, RefreshOk, LibraryChangedOk, OpenViewerOk, CloseViewerOk, CloseVideoOk
<1>2. CASE \E m \in MonthEnds \cup {Nil} : JumpToMonth(m)
  BY <1>2, JumpOk
<1>3. CASE \E p \in CameraTimes : CameraTakes(p)
  BY <1>3, CameraOk
<1>4. CASE \E p \in ToSet(Timeline) : ViewerDeletes(p) \/ PlayCloudVideo(p)
                                      \/ \E how \in {"lock", "delete"} : RemovePhotos(p, how)
  BY <1>4, ViewerDeletesOk, PlayOk, RemovePhotosOk
<1>5. CASE \E i \in DOMAIN jobs :
             \/ FirstBack(i) \/ DeviceMoreBack(i) \/ CloudPageBack(i) \/ CloudPageFailed(i)
             \/ MonthsBack(i) \/ MonthsFailed(i) \/ ReloadBack(i) \/ ReloadFailed(i)
             \/ \E ok \in BOOLEAN : PermissionBack(i, ok) \/ NewerBack(i, ok) \/ RemovalBack(i, ok) \/ VideoBack(i, ok)
  <2>1. PICK i \in DOMAIN jobs :
             \/ FirstBack(i) \/ DeviceMoreBack(i) \/ CloudPageBack(i) \/ CloudPageFailed(i)
             \/ MonthsBack(i) \/ MonthsFailed(i) \/ ReloadBack(i) \/ ReloadFailed(i)
             \/ \E ok \in BOOLEAN : PermissionBack(i, ok) \/ NewerBack(i, ok) \/ RemovalBack(i, ok) \/ VideoBack(i, ok)
    BY <1>5
  <2>2. CASE FirstBack(i) \/ DeviceMoreBack(i) \/ CloudPageBack(i) \/ CloudPageFailed(i)
    BY <2>2, FirstBackOk, DeviceMoreBackOk, CloudPageBackOk, CloudPageFailedOk
  <2>3. CASE MonthsBack(i) \/ MonthsFailed(i) \/ ReloadBack(i) \/ ReloadFailed(i)
    BY <2>3, MonthsOk, ReloadBackOk, ReloadFailedOk
  <2>4. CASE \E ok \in BOOLEAN : PermissionBack(i, ok) \/ NewerBack(i, ok) \/ RemovalBack(i, ok) \/ VideoBack(i, ok)
    BY <2>4, PermissionBackOk, NewerBackOk, RemovalBackOk, VideoOk
  <2> QED BY <2>1, <2>2, <2>3, <2>4
<1> QED BY <1>1, <1>2, <1>3, <1>4, <1>5, Zenon DEF FeedNext

(* ------------------------- the timeline is in order ---------------------- *)

(* Nothing was taken later than the latest. *)
LEMMA LatestIs == Latest \in Nat /\ \A t \in Times : t < Latest
<1>1. PICK S : S = {0} \cup Times
  OBVIOUS
<1>2. Times \in SUBSET Dates /\ Dates \subseteq Nat
  BY DatesCounted DEF Dates
<1>3. \E m \in S : m \in Nat /\ \A t \in S : t <= m
  <2>1. CASE Times = {}
    BY <1>1, <2>1
  <2>2. CASE Times # {}
    <3>1. PICK l : l = InOrder(Times, "asc")
      OBVIOUS
    <3>2. /\ l \in Seq(Times) /\ Len(l) = Cardinality(Times)
          /\ \A n \in DOMAIN l : Place("asc", Times, l[n]) = n
          /\ \A t \in Times : Place("asc", Times, t) \in DOMAIN l /\ l[Place("asc", Times, t)] = t
      BY <1>2, <3>1, ListingIs
    <3>3. PICK u : u \in Times
      BY <2>2
    <3>4. Len(l) \in DOMAIN l /\ DOMAIN l = 1..Len(l)
      BY <3>2, <3>3
    <3>5. PICK m : m = l[Len(l)]
      OBVIOUS
    <3>6. m \in Times /\ Place("asc", Times, m) = Len(l)
      BY <3>2, <3>4, <3>5
    <3>7. ASSUME NEW t \in Times PROVE t <= m
      <4>1. Place("asc", Times, t) <= Len(l) /\ Place("asc", Times, t) \in Nat
        BY <3>2, <3>4
      <4>2. ~Ahead("asc", m, t)
        BY <1>2, <3>4, <3>6, <4>1, PlaceOrders
      <4>3. t \in Nat /\ m \in Nat
        BY <1>2, <3>6
      <4> QED BY <4>2, <4>3 DEF Ahead
    <3>8. m \in Nat /\ m >= 0
      BY <1>2, <3>6
    <3> QED BY <1>1, <3>6, <3>7, <3>8
  <2> QED BY <2>1, <2>2
<1>4. PICK z : z = Max(S)
  OBVIOUS
<1>5. z \in S /\ \A t \in S : z >= t
  <2>1. S \subseteq Nat
    BY <1>1, <1>2
  <2>2. \E m \in S : \A t \in S : m >= t
    BY <1>3, <2>1
  <2> QED BY <1>4, <2>2, Zenon DEF Max
<1>6. Latest = 1 + z /\ z \in Nat /\ \A t \in Times : t \in Nat /\ z >= t
  BY <1>1, <1>2, <1>4, <1>5 DEF Latest
<1> QED BY <1>6

LEMMA GreaterOf ==
  ASSUME NEW x \in Nat, NEW y \in Nat
  PROVE  Max({x, y}) = IF x < y THEN y ELSE x
BY DEF Max

(* A list in order backwards. *)
LEMMA ReverseIs ==
  ASSUME NEW s \in Seq(Dates), Sorted("asc", s), NEW r, r = Reverse(s)
  PROVE  r \in Seq(Dates) /\ Sorted("desc", r) /\ \A t : t \in ToSet(r) <=> t \in ToSet(s)
<1>1. Len(s) \in Nat /\ DOMAIN s = 1..Len(s) /\ \A k \in DOMAIN s : s[k] \in Dates
  BY EntriesIn
<1>2. DOMAIN r = 1..Len(s) /\ \A k \in 1..Len(s) : r[k] = s[(Len(s) - k) + 1]
  BY DEF Reverse
<1>3. \A k \in 1..Len(s) : (Len(s) - k) + 1 \in 1..Len(s) /\ (Len(s) - ((Len(s) - k) + 1)) + 1 = k
  BY <1>1
<1>4. r \in Seq(Dates)
  <2>1. r = [k \in 1..Len(s) |-> s[(Len(s) - k) + 1]]
    BY DEF Reverse
  <2>2. \A k \in 1..Len(s) : s[(Len(s) - k) + 1] \in Dates
    BY <1>1, <1>3
  <2> QED BY <1>1, <2>1, <2>2
<1>5. ASSUME NEW i \in DOMAIN r, NEW k \in DOMAIN r, i < k PROVE Ahead("desc", r[i], r[k])
  <2>1. /\ (Len(s) - i) + 1 \in DOMAIN s /\ (Len(s) - k) + 1 \in DOMAIN s
        /\ (Len(s) - k) + 1 < (Len(s) - i) + 1
    BY <1>1, <1>2, <1>3, <1>5
  <2>2. Ahead("asc", s[(Len(s) - k) + 1], s[(Len(s) - i) + 1])
    BY <2>1 DEF Sorted
  <2>3. r[i] = s[(Len(s) - i) + 1] /\ r[k] = s[(Len(s) - k) + 1]
    BY <1>2
  <2>4. Ahead("asc", r[k], r[i]) /\ r[i] \in Nat /\ r[k] \in Nat
    BY <1>1, <2>1, <2>2, <2>3, DatesCounted
  <2> QED BY <2>4 DEF Ahead
<1>6. \A k \in DOMAIN r : \E i \in DOMAIN s : r[k] = s[i]
  BY <1>1, <1>2, <1>3
<1>7. \A k \in DOMAIN s : \E i \in DOMAIN r : s[k] = r[i]
  BY <1>1, <1>2, <1>3
<1>8. \A t : t \in ToSet(r) <=> t \in ToSet(s)
  <2>1. ASSUME NEW t \in ToSet(r) PROVE t \in ToSet(s)
    <3>1. PICK k \in DOMAIN r : r[k] = t
      BY DEF ToSet
    <3>2. PICK i \in DOMAIN s : r[k] = s[i]
      BY <1>6
    <3> QED BY <3>1, <3>2 DEF ToSet
  <2>2. ASSUME NEW t \in ToSet(s) PROVE t \in ToSet(r)
    <3>1. PICK k \in DOMAIN s : s[k] = t
      BY DEF ToSet
    <3>2. PICK i \in DOMAIN r : s[k] = r[i]
      BY <1>7
    <3> QED BY <3>1, <3>2 DEF ToSet
  <2> QED BY <2>1, <2>2
<1> QED BY <1>4, <1>5, <1>8 DEF Sorted

(* What a source is sure of: everything down to where it was read to. *)
SureFrom(low, S, items, skip) == low \in Nat /\ \A t \in S : low <= t => t \in ToSet(items) \/ t \in skip
SureUpTo(high, S, items, skip) == high \in Nat /\ \A t \in S : t <= high => t \in ToSet(items) \/ t \in skip \/ t = 0
LEMMA LowHeld ==
  ASSUME NEW S \in SUBSET Times, NEW items \in Seq(Dates), NEW skip, NEW z \in Nat, Held("desc", S, items, skip, z),
         NEW done \in BOOLEAN, done => Cardinality(S) <= z,
         NEW low, low = IF done THEN 0 ELSE IF items = <<>> THEN Latest ELSE Last(items)
  PROVE  SureFrom(low, S, items, skip)
<1>1. S \in SUBSET Dates /\ Dates \subseteq Nat
  BY DatesCounted DEF Dates
<1>2. items # <<>> => Last(items) \in Nat
  BY <1>1, LastIn, EntriesIn
<1>3. low \in Nat
  BY <1>2, LatestIs
<1>4. ASSUME NEW t \in S, low <= t PROVE t \in ToSet(items) \/ t \in skip
  <2>1. t \in Nat /\ t \in Times
    BY <1>1
  <2>2. CASE done
    BY <1>1, <2>2, HeldComplete
  <2>3. CASE ~done /\ items = <<>>
    <3>1. Latest <= t
      BY <1>4, <2>3
    <3> QED BY <2>1, <3>1, LatestIs
  <2>4. CASE ~done /\ items # <<>>
    <3>1. Last(items) <= t
      BY <1>4, <2>4
    <3>2. ~Ahead("desc", Last(items), t)
      BY <1>2, <2>1, <2>4, <3>1 DEF Ahead
    <3> QED BY <1>1, <2>4, <3>2, HeldComplete
  <2> QED BY <2>2, <2>3, <2>4
<1> QED BY <1>3, <1>4 DEF SureFrom

(* The newer side: everything up to where it was read to. *)
LEMMA HighHeld ==
  ASSUME NEW S \in SUBSET Dates, NEW items \in Seq(Dates), NEW skip, NEW z \in Nat, Held("asc", S, items, skip, z),
         NEW high, high = IF items = <<>> THEN 0 ELSE Last(items)
  PROVE  SureUpTo(high, S, items, skip)
<1>1. S \subseteq Nat /\ Dates \subseteq Nat
  BY DatesCounted
<1>2. items # <<>> => Last(items) \in Nat
  BY <1>1, LastIn, EntriesIn
<1>3. high \in Nat
  BY <1>2
<1>4. ASSUME NEW t \in S, t <= high, t # 0 PROVE t \in ToSet(items) \/ t \in skip
  <2>1. t \in Nat
    BY <1>1
  <2>2. items # <<>> /\ t <= Last(items)
    BY <1>4, <2>1
  <2>3. ~Ahead("asc", Last(items), t)
    BY <1>2, <2>1, <2>2 DEF Ahead
  <2> QED BY <2>2, <2>3, HeldComplete
<1> QED BY <1>3, <1>4 DEF SureUpTo

(* What is on screen of the window: a list in order of photos that may be     *)
(* there, and nothing that should be there is missing above what is shown.    *)
OlderShown(ps, may, should) ==
  /\ ps \in Seq(Dates) /\ Sorted("desc", ps) /\ ToSet(ps) \subseteq may
  /\ \A t \in ToSet(ps), p \in should : t <= p => p \in ToSet(ps)
(* Of the newer side, nothing is missing below what is shown. *)
NewerShown(ps, may, should) ==
  /\ ps \in Seq(Dates) /\ Sorted("desc", ps) /\ ToSet(ps) \subseteq may
  /\ \A t \in ToSet(ps), p \in should : p <= t => p \in ToSet(ps)

(* Two lists in one. *)
ZippedOf(order, ds, cs, bound, z) ==
  /\ z \in Seq(Dates) /\ Sorted(order, z)
  /\ \A t : t \in ToSet(z) <=> t \in ToSet(ds) \cup ToSet(cs) /\ ~Ahead(order, bound, t)
LEMMA ZippedAs ==
  ASSUME NEW order, NEW ds \in Seq(Dates), NEW cs \in Seq(Dates), Sorted(order, ds), Sorted(order, cs),
         ToSet(ds) \cap ToSet(cs) = {}, NEW bound \in Nat
  PROVE  ZippedOf(order, ds, cs, bound, Zipped(ds, cs, order, bound))
<1>1. PICK z : z = Zipped(ds, cs, order, bound)
  OBVIOUS
<1>2. ZippedOf(order, ds, cs, bound, z)
  BY <1>1, ZippedIs DEF ZippedOf
<1> QED BY <1>1, <1>2

(* What the cloud only has of a list. *)
CloudOnlyOf(order, S, ps, qs) ==
  /\ qs \in Seq(Dates) /\ Sorted(order, qs) /\ ToSet(qs) \subseteq S \ Synced
  /\ \A t : t \in ToSet(qs) <=> t \in ToSet(ps) /\ t \notin Synced
  /\ ps = <<>> => qs = <<>>
LEMMA CloudOnlyIs ==
  ASSUME NEW order, NEW S \in SUBSET CloudTimes, NEW ps \in Seq(Dates), Sorted(order, ps), ToSet(ps) \subseteq S,
         NEW qs, qs = CloudOnly(ps)
  PROVE  CloudOnlyOf(order, S, ps, qs)
<1>1. /\ qs \in Seq(Dates) /\ Sorted(order, qs)
      /\ \A t : t \in ToSet(qs) <=> t \in ToSet(ps) /\ t \notin Synced
  BY ExceptIs DEF CloudOnly
<1>2. ASSUME ps = <<>>, qs # <<>> PROVE FALSE
  <2>1. Last(qs) \in ToSet(ps)
    BY <1>1, <1>2, LastIn
  <2>2. \E k \in DOMAIN ps : ps[k] = Last(qs)
    BY <2>1 DEF ToSet
  <2> QED BY <1>2, <2>2
<1> QED BY <1>1, <1>2 DEF CloudOnlyOf

(* The window: both sources are held as far as the later of the two ends. *)
LEMMA MergedShown ==
  ASSUME NEW f \in Feeds, NEW W \in SUBSET PhoneTimes, NEW C \in SUBSET CloudTimes,
         NEW z \in Nat, Held("desc", W, f.device.items, Hidden(f.device.cut), z),
         f.device.ended => Cardinality(W) <= z,
         NEW y \in Nat, Held("desc", C, f.cloud.items, {}, y), f.cloud.done => Cardinality(C) <= y
  PROVE  OlderShown(Merged(f), W \cup (C \ Synced), (W \ Hidden(f.device.cut)) \cup (C \ Synced))
<1>1. PICK ds, cs, qs, dl, cl, F, M :
        /\ ds = f.device.items /\ cs = f.cloud.items /\ qs = CloudOnly(cs) /\ dl = DeviceLow(f) /\ cl = CloudLow(f)
        /\ F = Frontier(f) /\ M = Merged(f)
  OBVIOUS
<1>2. /\ ds \in Seq(Dates) /\ cs \in Seq(Dates) /\ f.device.ended \in BOOLEAN /\ f.cloud.done \in BOOLEAN
  <2>1. f.device \in DeviceStates /\ f.cloud \in CloudStates
    BY FeedIs
  <2>2. ds \in Seq(PhoneTimes) /\ cs \in Seq(CloudTimes) /\ f.device.ended \in BOOLEAN /\ f.cloud.done \in BOOLEAN
    BY <1>1, <2>1 DEF DeviceStates, CloudStates
  <2> QED BY <2>2, PhotosListed
<1>3. Sorted("desc", ds) /\ ToSet(ds) \subseteq W /\ Sorted("desc", cs) /\ ToSet(cs) \subseteq C
  BY <1>1 DEF Held
<1>4. /\ qs \in Seq(Dates) /\ Sorted("desc", qs) /\ ToSet(qs) \subseteq C \ Synced
      /\ \A t : t \in ToSet(qs) <=> t \in ToSet(cs) /\ t \notin Synced
      /\ cs = <<>> => qs = <<>>
  <2>1. CloudOnlyOf("desc", C, cs, qs)
    BY <1>1, <1>2, <1>3, CloudOnlyIs
  <2> QED BY <2>1, Zenon DEF CloudOnlyOf
<1>5. W \in SUBSET Times /\ C \in SUBSET Times
  BY DEF Times
<1>6. dl = IF f.device.ended THEN 0 ELSE IF ds = <<>> THEN Latest ELSE Last(ds)
  BY <1>1 DEF DeviceLow, Low
<1>7. cl = IF f.cloud.done THEN 0 ELSE IF cs = <<>> THEN Latest ELSE Last(cs)
  <2>1. cl = IF f.cloud.done THEN 0 ELSE IF cs # <<>> THEN Last(cs) ELSE IF qs = <<>> THEN Latest ELSE Last(qs)
    BY <1>1 DEF CloudLow, Low
  <2> QED BY <1>4, <2>1
<1>8. dl \in Nat /\ \A t \in W : dl <= t => t \in ToSet(ds) \/ t \in Hidden(f.device.cut)
  <2>1. SureFrom(dl, W, ds, Hidden(f.device.cut))
    BY <1>1, <1>2, <1>5, <1>6, LowHeld
  <2> QED BY <2>1, Zenon DEF SureFrom
<1>9. cl \in Nat /\ \A t \in C : cl <= t => t \in ToSet(cs)
  <2>1. SureFrom(cl, C, cs, {})
    BY <1>1, <1>2, <1>5, <1>7, LowHeld
  <2> QED BY <2>1 DEF SureFrom
<1>10. F \in Nat /\ dl <= F /\ cl <= F
  <2>1. F = IF dl < cl THEN cl ELSE dl
    BY <1>1, <1>8, <1>9, GreaterOf DEF Frontier
  <2> QED BY <1>8, <1>9, <2>1
<1>11. ToSet(ds) \cap ToSet(qs) = {}
  BY <1>3, <1>4, PhotosCounted
<1>12. /\ M \in Seq(Dates) /\ Sorted("desc", M)
       /\ \A t : t \in ToSet(M) <=> t \in ToSet(ds) \cup ToSet(qs) /\ ~Ahead("desc", F, t)
  <2>1. M = Zipped(ds, qs, "desc", F)
    BY <1>1 DEF Merged
  <2>2. ZippedOf("desc", ds, qs, F, M)
    BY <1>2, <1>3, <1>4, <1>10, <1>11, <2>1, ZippedAs
  <2> QED BY <2>2, Zenon DEF ZippedOf
<1>13. ToSet(M) \subseteq W \cup (C \ Synced)
  BY <1>3, <1>4, <1>12
<1>14. ASSUME NEW t \in ToSet(M), NEW p \in (W \ Hidden(f.device.cut)) \cup (C \ Synced), t <= p
       PROVE  p \in ToSet(M)
  <2>1. t \in Nat /\ p \in Nat
    BY <1>5, <1>13, DatesCounted DEF Dates
  <2>2. F <= t
    BY <1>10, <1>12, <2>1 DEF Ahead
  <2>3. F <= p /\ dl <= p /\ cl <= p
    BY <1>8, <1>9, <1>10, <1>14, <2>1, <2>2
  <2>4. p \in ToSet(ds) \cup ToSet(qs)
    BY <1>4, <1>8, <1>9, <1>14, <2>3
  <2>5. ~Ahead("desc", F, p)
    BY <1>10, <2>1, <2>3 DEF Ahead
  <2> QED BY <1>12, <2>4, <2>5
<1> QED BY <1>1, <1>12, <1>13, <1>14 DEF OlderShown

(* The newer side: both sources are held up to the earlier of the two ends; *)
(* what the camera took since is newer than all that is shown.              *)
LEMMA NewerSideShown ==
  ASSUME NEW f \in Feeds, f.permission = "granted", f.anchor # Nil, NEW p \in Pools, NewerFits(f.newer, f.anchor, p)
  PROVE  NewerShown(Newer(f), {t \in Dates : t > f.anchor},
                    (Above(p.device, f.anchor) \ Hidden(f.newer.cut)) \cup (Above(p.cloud, f.anchor) \ Synced))
<1>1. PICK n, a, W, C : n = f.newer /\ a = f.anchor /\ W = Above(p.device, a) /\ C = Above(p.cloud, a)
  OBVIOUS
<1>2. PICK ds, cs, qs, dh, ch, H, Z, N :
        /\ ds = n.device /\ cs = n.cloud /\ qs = CloudOnly(cs)
        /\ dh = High(ds, <<>>, n.deviceDone) /\ ch = High(qs, cs, n.cloudDone)
        /\ H = Ceiling(f) /\ Z = Zipped(ds, qs, "asc", H) /\ N = Newer(f)
  OBVIOUS
<1>3. /\ ds \in Seq(PhoneTimes) /\ cs \in Seq(CloudTimes) /\ n.deviceDone \in BOOLEAN /\ n.cloudDone \in BOOLEAN
      /\ n.cursor \in Nat \cup {Nil} /\ n.page \in Nat
  <2>1. n \in NewerStates
    BY <1>1, FeedIs
  <2> QED BY <1>2, <2>1 DEF NewerStates
<1>4. ds \in Seq(Dates) /\ cs \in Seq(Dates) /\ ToSet(ds) \subseteq PhoneTimes /\ ToSet(cs) \subseteq CloudTimes
  BY <1>3, PhotosListed, SeqWider
<1>5. p.device \in SUBSET PhoneTimes /\ p.cloud \in SUBSET CloudTimes
  BY DEF Pools
<1>6. /\ W \in SUBSET PhoneTimes /\ C \in SUBSET CloudTimes /\ W \in SUBSET Dates /\ C \in SUBSET Dates
      /\ Dates \subseteq Nat /\ PhoneTimes \subseteq Dates /\ CloudTimes \subseteq Dates
      /\ PhoneTimes \cap (CloudTimes \ Synced) = {}
  BY <1>1, <1>5, PhotosCounted DEF Above
<1>7. NewerCloud(n, C) /\ NewerDevice(n, W) /\ \A q \in ToSet(cs) \cup ToSet(ds) : q > a
  BY <1>1, <1>2 DEF NewerFits
<1>8. Sorted("asc", ds) /\ Sorted("asc", cs)
  BY <1>2, <1>7 DEF NewerCloud, NewerDevice
<1>9. /\ qs \in Seq(Dates) /\ Sorted("asc", qs) /\ ToSet(qs) \subseteq CloudTimes \ Synced
      /\ \A t : t \in ToSet(qs) <=> t \in ToSet(cs) /\ t \notin Synced
      /\ cs = <<>> => qs = <<>>
  <2>1. CloudOnlyOf("asc", CloudTimes, cs, qs)
    BY <1>2, <1>4, <1>8, CloudOnlyIs
  <2> QED BY <2>1, Zenon DEF CloudOnlyOf
<1>10. \A t \in Dates : t \in Nat /\ (t \in Times => t # 0 /\ t < Latest)
  BY <1>6, LatestIs, FeedAssumption
<1>11. /\ dh \in Nat
       /\ \A t \in W : t <= dh => \/ t \in ToSet(ds) \cup Hidden(n.cut)
                                  \/ t \in CameraTimes /\ \A u \in ToSet(ds) : u < t
  <2>1. CASE n.deviceDone
    <3>1. dh = Latest
      BY <1>2, <2>1 DEF High
    <3> QED BY <1>2, <1>7, <2>1, <3>1, LatestIs DEF NewerDevice
  <2>2. CASE ~n.deviceDone
    <3>1. Held("asc", W, ds, Hidden(n.cut), Cursor(n.cursor)) /\ Cursor(n.cursor) \in Nat
      BY <1>2, <1>3, <1>7, <2>2 DEF NewerDevice, Cursor
    <3>2. dh = IF ds = <<>> THEN 0 ELSE Last(ds)
      BY <1>2, <2>2 DEF High
    <3>3. SureUpTo(dh, W, ds, Hidden(n.cut))
      BY <1>4, <1>6, <3>1, <3>2, HighHeld
    <3>4. \A t \in W : t # 0
      BY <1>6, <1>10 DEF Times
    <3> QED BY <3>3, <3>4 DEF SureUpTo
  <2> QED BY <1>3, <2>1, <2>2
<1>12. ch \in Nat /\ \A t \in C : t <= ch => t \in ToSet(cs)
  <2>1. CASE n.cloudDone
    <3>1. ch = Latest
      BY <1>2, <2>1 DEF High
    <3> QED BY <1>2, <1>7, <2>1, <3>1, LatestIs DEF NewerCloud
  <2>2. CASE ~n.cloudDone
    <3>1. Held("asc", C, cs, {}, n.page * PageLimit)
      BY <1>2, <1>7, <2>2 DEF NewerCloud
    <3>2. n.page * PageLimit \in Nat
      BY <1>3, FeedAssumption
    <3>3. ch = IF cs # <<>> THEN Last(cs) ELSE IF qs = <<>> THEN 0 ELSE Last(qs)
      BY <1>2, <2>2 DEF High
    <3>4. ch = IF cs = <<>> THEN 0 ELSE Last(cs)
      BY <1>9, <3>3
    <3>5. SureUpTo(ch, C, cs, {})
      BY <1>4, <1>6, <3>1, <3>2, <3>4, HighHeld
    <3>6. \A t \in C : t # 0
      BY <1>6, <1>10 DEF Times
    <3> QED BY <3>5, <3>6 DEF SureUpTo
  <2> QED BY <1>3, <2>1, <2>2
<1>13. H \in Nat /\ H <= dh /\ H <= ch
  <2>1. (n.deviceDone \/ f.permission # "granted") = n.deviceDone
    BY <1>3
  <2>2. H = Min({dh, ch})
    BY <1>1, <1>2, <2>1, Zenon DEF Ceiling
  <2>3. H = IF dh < ch THEN dh ELSE ch
    BY <1>11, <1>12, <2>2, LesserOf
  <2> QED BY <1>11, <1>12, <2>3
<1>14. /\ Z \in Seq(Dates) /\ Sorted("asc", Z)
       /\ \A t : t \in ToSet(Z) <=> t \in ToSet(ds) \cup ToSet(qs) /\ ~Ahead("asc", H, t)
  <2>1. ToSet(ds) \cap ToSet(qs) = {}
    BY <1>4, <1>6, <1>9
  <2>2. ZippedOf("asc", ds, qs, H, Z)
    BY <1>2, <1>4, <1>8, <1>9, <1>13, <2>1, ZippedAs
  <2> QED BY <2>2, Zenon DEF ZippedOf
<1>15. N \in Seq(Dates) /\ Sorted("desc", N) /\ \A t : t \in ToSet(N) <=> t \in ToSet(Z)
  <2>1. N = Reverse(Z)
    BY <1>1, <1>2 DEF Newer
  <2> QED BY <1>14, <2>1, ReverseIs
<1>16. ToSet(N) \subseteq {t \in Dates : t > a}
  <2>1. \A t \in ToSet(N) : t \in ToSet(ds) \cup ToSet(cs)
    BY <1>9, <1>14, <1>15
  <2>2. \A t \in ToSet(N) : t > a /\ t \in Dates
    BY <1>4, <1>6, <1>7, <2>1
  <2> QED BY <2>2
<1>17. ASSUME NEW t \in ToSet(N), NEW q \in (W \ Hidden(n.cut)) \cup (C \ Synced), q <= t
       PROVE  q \in ToSet(N)
  <2>1. t \in Nat /\ q \in Nat /\ q \in Dates
    BY <1>6, <1>16
  <2>2. t <= H /\ t \in ToSet(ds) \cup ToSet(qs)
    BY <1>13, <1>14, <1>15, <2>1 DEF Ahead
  <2>3. q <= H /\ q <= dh /\ q <= ch
    BY <1>11, <1>12, <1>13, <1>17, <2>1, <2>2
  <2>4. q \in ToSet(ds) \cup ToSet(qs)
    <3>1. CASE q \in C \ Synced
      BY <1>9, <1>12, <2>3, <3>1
    <3>2. CASE q \in W \ Hidden(n.cut)
      <4>1. CASE q \in ToSet(ds)
        BY <4>1
      <4>2. CASE q \in CameraTimes /\ \A u \in ToSet(ds) : u < q
        <5>1. t \notin ToSet(ds)
          BY <1>17, <2>1, <4>2
        <5>2. t \in CloudTimes
          BY <1>9, <2>2, <5>1
        <5>3. t < q
          BY <4>2, <5>2, FeedAssumption
        <5> QED BY <1>17, <2>1, <5>3
      <4> QED BY <1>11, <2>3, <3>2, <4>1, <4>2
    <3> QED BY <1>17, <3>1, <3>2
  <2>5. ~Ahead("asc", H, q)
    BY <1>13, <2>1, <2>3 DEF Ahead
  <2> QED BY <1>14, <1>15, <2>4, <2>5
<1> QED BY <1>1, <1>2, <1>15, <1>16, <1>17 DEF NewerShown

(* What stands still is what the sources were read for. *)
LEMMA SettledHeld ==
  ASSUME FeedOk(feed, jobs, pool), TimelineShown, Settled
  PROVE  /\ feed \in Feeds /\ pool \in Pools /\ feed.permission = "granted"
         /\ DeviceFits(feed, Flying(jobs, "nextPage"), pool.device) /\ CloudFits(feed, pool.cloud)
         /\ feed.anchor # Nil => NewerFits(feed.newer, feed.anchor, pool)
         /\ feed.removed \cap pool.device = {} /\ feed.removed \subseteq PhoneTimes
<1>1. /\ feed \in Feeds /\ jobs \in Seq(FeedJobs) /\ pool \in Pools /\ WindowOk(feed, jobs, pool)
  BY OkTyped
<1>2. feed.permission = "granted" /\ feed.anchor = feed.device.before /\ feed.anchor = feed.cloud.before
  BY DEF TimelineShown, Jumping
<1>3. /\ feed.slips = {} /\ ~feed.changed /\ ~feed.deleted
      /\ Flying(jobs, "firstPage") = {} /\ Flying(jobs, "reload") = {}
  BY UnderIs DEF Settled
<1>4. \A x : x \notin feed.slips
  BY <1>3
<1>5. DeviceFits(feed, Flying(jobs, "nextPage"), pool.device)
  BY <1>1, <1>2, <1>3, <1>4 DEF WindowOk, DeviceOk
<1>6. CloudFits(feed, pool.cloud)
  BY <1>1, <1>2, <1>3, <1>4 DEF WindowOk, CloudOk
<1>7. feed.anchor # Nil => NewerFits(feed.newer, feed.anchor, pool)
  BY <1>1, <1>4 DEF WindowOk, NewerOk
<1>8. feed.removed \cap pool.device = {}
  BY <1>1 DEF WindowOk, ClockOk
<1>9. feed.removed \subseteq PhoneTimes
  BY <1>1, FeedIs
<1> QED BY <1>1, <1>2, <1>5, <1>6, <1>7, <1>8, <1>9

(* The window of a tab that stands still. *)
LEMMA WindowShown ==
  ASSUME NEW f \in Feeds, NEW p \in Pools, NEW mores, DeviceFits(f, mores, p.device), CloudFits(f, p.cloud),
         NEW W, W = Within(p.device, f.anchor), NEW C, C = Within(p.cloud, f.anchor)
  PROVE  OlderShown(Merged(f), W \cup (C \ Synced), (W \ Hidden(f.device.cut)) \cup (C \ Synced))
<1>1. /\ W \in SUBSET PhoneTimes /\ C \in SUBSET CloudTimes /\ W \in SUBSET Dates
  BY WithinPhone, WithinCloud DEF Pools
<1>2. PICK z : z = IF f.device.ended THEN Cardinality(W) ELSE Cursor(f.device.cursor)
  OBVIOUS
<1>3. PICK y : y = f.cloud.page * PageLimit
  OBVIOUS
<1>4. z \in Nat /\ (f.device.ended => Cardinality(W) <= z)
  <2>1. Cardinality(W) \in Nat
    BY <1>1, CountOf
  <2>2. f.device.cursor \in Nat \cup {Nil}
    BY FeedIs DEF DeviceStates
  <2> QED BY <1>2, <2>1, <2>2 DEF Cursor
<1>5. y \in Nat
  <2>1. f.cloud.page \in Nat
    BY FeedIs DEF CloudStates
  <2> QED BY <1>3, <2>1, FeedAssumption
<1>6. Held("desc", W, f.device.items, Hidden(f.device.cut), z)
  BY <1>2 DEF DeviceFits
<1>7. Held("desc", C, f.cloud.items, {}, y) /\ (f.cloud.done => Cardinality(C) <= y)
  BY <1>3 DEF CloudFits
<1> QED BY <1>1, <1>4, <1>5, <1>6, <1>7, MergedShown

(* The newer side above it, if the window is not the newest. *)
LEMMA AboveShown ==
  ASSUME NEW f \in Feeds, f.permission = "granted", NEW p \in Pools,
         f.anchor # Nil => NewerFits(f.newer, f.anchor, p),
         NEW U, U = IF f.anchor = Nil THEN {} ELSE {t \in Dates : t > f.anchor},
         NEW V, V = IF f.anchor = Nil THEN {}
                    ELSE (Above(p.device, f.anchor) \ Hidden(f.newer.cut)) \cup (Above(p.cloud, f.anchor) \ Synced)
  PROVE  NewerShown(Newer(f), U, V)
<1>1. CASE f.anchor # Nil
  BY <1>1, NewerSideShown
<1>2. CASE f.anchor = Nil
  <2>1. PICK s : s = Newer(f)
    OBVIOUS
  <2>2. s = <<>>
    BY <1>2, <2>1 DEF Newer
  <2>3. s \in Seq(Dates) /\ DOMAIN s = {} /\ ToSet(s) = {}
    BY <2>2 DEF ToSet
  <2>4. NewerShown(s, U, V)
    BY <2>3 DEF NewerShown, Sorted
  <2> QED BY <2>1, <2>4
<1> QED BY <1>1, <1>2

(* A list below another, of which some are hidden. *)
LEMMA ListedShown ==
  ASSUME NEW N \in Seq(Dates), NEW M \in Seq(Dates), Sorted("desc", N), Sorted("desc", M),
         \A t \in ToSet(N), u \in ToSet(M) : u < t, NEW R, NEW T, T = Except(Adds(N, M), R)
  PROVE  /\ T \in Seq(Dates) /\ Sorted("desc", T)
         /\ \A t : t \in ToSet(T) <=> (t \in ToSet(N) \/ t \in ToSet(M)) /\ t \notin R
<1>1. PICK E : E = Except(M, ToSet(N))
  OBVIOUS
<1>2. PICK L : L = N \o E
  OBVIOUS
<1>3. E \in Seq(Dates) /\ Sorted("desc", E) /\ \A t : t \in ToSet(E) <=> t \in ToSet(M) /\ t \notin ToSet(N)
  BY <1>1, ExceptIs
<1>4. \A t \in ToSet(N), u \in ToSet(E) : Ahead("desc", t, u)
  <2>1. ASSUME NEW t \in ToSet(N), NEW u \in ToSet(E) PROVE Ahead("desc", t, u)
    <3>1. u < t
      BY <1>3
    <3>2. t \in Nat /\ u \in Nat
      BY <1>3, DatesCounted, SeqWider
    <3> QED BY <3>1, <3>2 DEF Ahead
  <2> QED BY <2>1
<1>5. L \in Seq(Dates) /\ \A t : t \in ToSet(L) <=> t \in ToSet(N) \/ t \in ToSet(E)
  BY <1>2, <1>3, JoinedSet
<1>6. Sorted("desc", L)
  BY <1>2, <1>3, <1>4, JoinedSorted
<1>7. T = Except(L, R)
  BY <1>1, <1>2 DEF Adds
<1>8. T \in Seq(Dates) /\ Sorted("desc", T) /\ \A t : t \in ToSet(T) <=> t \in ToSet(L) /\ t \notin R
  BY <1>5, <1>6, <1>7, ExceptIs
<1> QED BY <1>3, <1>5, <1>8

(* Between two photos on screen, nothing is missing. *)
LEMMA FeedShown ==
  ASSUME FeedOk(feed, jobs, pool)
  PROVE  FeedInOrder
<1> SUFFICES ASSUME TimelineShown, Settled
             PROVE  /\ \A i, k \in DOMAIN Timeline : i < k => Timeline[i] > Timeline[k]
                    /\ \A p \in Expected : (p < Timeline[1] /\ p > Last(Timeline)) => p \in ToSet(Timeline)
  BY DEF FeedInOrder
<1>1. PICK a, W, C, U, V, N, M, R, T, S :
        /\ a = feed.anchor /\ W = Within(pool.device, a) /\ C = Within(pool.cloud, a)
        /\ U = IF a = Nil THEN {} ELSE {t \in Dates : t > a}
        /\ V = IF a = Nil THEN {} ELSE (Above(pool.device, a) \ Hidden(feed.newer.cut)) \cup (Above(pool.cloud, a) \ Synced)
        /\ N = Newer(feed) /\ M = Merged(feed) /\ R = feed.removed /\ T = Timeline
        /\ S = (W \ Hidden(feed.device.cut)) \cup (C \ Synced)
  OBVIOUS
<1>2. /\ feed \in Feeds /\ pool \in Pools /\ feed.permission = "granted"
      /\ DeviceFits(feed, Flying(jobs, "nextPage"), pool.device) /\ CloudFits(feed, pool.cloud)
      /\ a # Nil => NewerFits(feed.newer, a, pool)
      /\ R \cap pool.device = {} /\ R \subseteq PhoneTimes
  BY <1>1, SettledHeld
<1>3. /\ pool.device \subseteq PhoneTimes /\ pool.cloud \subseteq CloudTimes /\ a \in Anchors
  BY <1>1, <1>2, FeedIs DEF Pools
<1>4. /\ PhoneTimes \subseteq Dates /\ CloudTimes \subseteq Dates /\ Dates \subseteq Nat
      /\ PhoneTimes \cap (CloudTimes \ Synced) = {}
      /\ a # Nil => a \in Nat /\ a \notin PhoneTimes /\ a \notin CloudTimes
  BY <1>3, PhotosCounted
<1>5. OlderShown(M, W \cup (C \ Synced), S)
  BY <1>1, <1>2, WindowShown
<1>6. NewerShown(N, U, V)
  BY <1>1, <1>2, AboveShown
<1>7. N \in Seq(Dates) /\ Sorted("desc", N) /\ ToSet(N) \subseteq U /\ \A t \in ToSet(N), p \in V : p <= t => p \in ToSet(N)
  BY <1>6 DEF NewerShown
<1>8. /\ M \in Seq(Dates) /\ Sorted("desc", M) /\ ToSet(M) \subseteq W \cup (C \ Synced)
      /\ \A t \in ToSet(M), p \in S : t <= p => p \in ToSet(M)
  BY <1>5 DEF OlderShown
<1>9. \A t \in U : a # Nil /\ t > a /\ t \in Nat
  BY <1>1, <1>4
<1>10. \A t \in W \cup (C \ Synced) : t \in Nat /\ (a # Nil => t < a)
  BY <1>1, <1>3, <1>4 DEF Within
<1>11. /\ T \in Seq(Dates) /\ Sorted("desc", T)
       /\ \A t : t \in ToSet(T) <=> (t \in ToSet(N) \/ t \in ToSet(M)) /\ t \notin R
  <2>1. \A t \in ToSet(N), u \in ToSet(M) : u < t
    <3>1. ASSUME NEW t \in ToSet(N), NEW u \in ToSet(M) PROVE u < t
      <4>1. a # Nil /\ t > a /\ t \in Nat
        BY <1>7, <1>9
      <4>2. u \in Nat /\ u < a
        BY <1>8, <1>10, <4>1
      <4> QED BY <1>4, <4>1, <4>2
    <3> QED BY <3>1
  <2>2. T = Except(Adds(N, M), R)
    BY <1>1 DEF Timeline, Listed
  <2> QED BY <1>7, <1>8, <2>1, <2>2, ListedShown
<1>12. \A i, k \in DOMAIN T : i < k => T[i] > T[k]
  <2>1. ASSUME NEW i \in DOMAIN T, NEW k \in DOMAIN T, i < k PROVE T[i] > T[k]
    <3>1. Ahead("desc", T[i], T[k])
      BY <1>11, <2>1 DEF Sorted
    <3> QED BY <3>1 DEF Ahead
  <2> QED BY <2>1
<1>13. T # <<>>
  BY <1>1 DEF TimelineShown
<1>14. T[1] \in ToSet(T) /\ Last(T) \in ToSet(T)
  <2>1. Last(T) \in ToSet(T)
    BY <1>11, <1>13, LastIn
  <2>2. 1 \in DOMAIN T
    BY <1>11, <1>13
  <2> QED BY <2>1, <2>2 DEF ToSet
<1>15. T[1] \in Nat /\ Last(T) \in Nat
  BY <1>4, <1>7, <1>8, <1>9, <1>10, <1>11, <1>14
<1>16. ASSUME NEW p \in Expected, p < T[1], p > Last(T) PROVE p \in ToSet(T)
  <2>1. \/ p \in pool.device /\ p \notin Hidden(feed.device.cut) /\ p \notin Hidden(feed.newer.cut)
        \/ p \in pool.cloud \ Synced
    BY <1>16 DEF Expected, Hidden
  <2>2. p \notin R /\ p \in Nat /\ (a # Nil => p # a)
    <3>1. CASE p \in pool.device
      <4>1. p \in PhoneTimes /\ p \notin R
        BY <1>2, <1>3, <3>1
      <4> QED BY <1>4, <4>1
    <3>2. CASE p \in pool.cloud \ Synced
      <4>1. p \in CloudTimes /\ p \notin R
        BY <1>2, <1>3, <1>4, <3>2
      <4> QED BY <1>4, <4>1
    <3> QED BY <2>1, <3>1, <3>2
  <2>3. CASE a = Nil \/ p < a
    <3>1. p \in S
      BY <1>1, <2>1, <2>3 DEF Within
    <3>2. Last(T) \in ToSet(M)
      <4>1. Last(T) \in ToSet(N) \/ Last(T) \in ToSet(M)
        BY <1>11, <1>14
      <4>2. ASSUME Last(T) \in ToSet(N) PROVE FALSE
        <5>1. a # Nil /\ Last(T) > a
          BY <1>7, <1>9, <4>2
        <5> QED BY <1>4, <1>15, <1>16, <2>2, <2>3, <5>1
      <4> QED BY <4>1, <4>2
    <3>3. Last(T) <= p
      BY <1>15, <1>16, <2>2
    <3>4. p \in ToSet(M)
      BY <1>8, <3>1, <3>2, <3>3
    <3> QED BY <1>11, <2>2, <3>4
  <2>4. CASE a # Nil /\ ~(p < a)
    <3>1. a \in Nat /\ p > a
      BY <1>4, <2>2, <2>4
    <3>2. p \in V
      BY <1>1, <2>1, <2>4, <3>1 DEF Above
    <3>3. T[1] \in ToSet(N)
      <4>1. T[1] \in ToSet(N) \/ T[1] \in ToSet(M)
        BY <1>11, <1>14
      <4>2. ASSUME T[1] \in ToSet(M) PROVE FALSE
        <5>1. T[1] < a
          BY <1>8, <1>10, <2>4, <4>2
        <5> QED BY <1>15, <1>16, <2>2, <3>1, <5>1
      <4> QED BY <4>1, <4>2
    <3>4. p <= T[1]
      BY <1>15, <1>16, <2>2
    <3>5. p \in ToSet(N)
      BY <1>7, <3>2, <3>3, <3>4
    <3> QED BY <1>11, <2>2, <3>5
  <2> QED BY <2>2, <2>3, <2>4
<1> QED BY <1>1, <1>12, <1>16

(* For any number of photos of the phone and of the cloud, pages, jumps,      *)
(* reloads, removals, taps, requests in flight and mishaps, and however late  *)
(* each is answered: unless one of the known slips is noted, the timeline is  *)
(* newest first without a photo twice, and no photo that is there is missing  *)
(* between two that are shown (mergeFeeds, mergeNewer, useUnifiedFeed).       *)
THEOREM FeedShows == LibrarySpec => []FeedInOrder
<1> DEFINE Inv == FeedView => FeedOk(feed, jobs, pool)
<1>1. LibraryInit => Inv
  BY FeedStarts DEF LibraryInit, FeedView
<1>2. Inv /\ [LibraryNext]_libraryVars => Inv'
  <2> SUFFICES ASSUME Inv, [LibraryNext]_libraryVars PROVE Inv'
    OBVIOUS
  <2>1. area' = area /\ (FeedView' <=> FeedView)
    BY DEF LibraryNext, libraryVars, jobVars, FeedView
  <2>2. CASE FeedView
    <3>1. FeedOk(feed, jobs, pool)
      BY <2>2
    <3>2. CASE InFeed
      BY <2>1, <3>1, <3>2, FeedKeeps DEF InFeed
    <3>3. CASE UNCHANGED libraryVars
      <4>1. feed' = feed /\ jobs' = jobs /\ pool' = pool
        BY <3>3 DEF libraryVars, jobVars, feedVars
      <4>2. FeedOk(feed', jobs', pool')
        BY <3>1, <4>1
      <4> QED BY <4>2
    <3>4. ~(InVault \/ InImport \/ InUpload \/ InGallery \/ InGrid)
      BY <2>2 DEF FeedView, InVault, InImport, InUpload, InGallery, InGrid
    <3> QED BY <3>2, <3>3, <3>4 DEF LibraryNext
  <2> QED BY <2>1, <2>2
<1>3. Inv => FeedInOrder
  <2>1. CASE FeedView
    BY <2>1, FeedShown
  <2>2. CASE ~FeedView
    BY <2>2 DEF FeedInOrder, TimelineShown
  <2> QED BY <2>1, <2>2
<1> QED BY <1>1, <1>2, <1>3, PTL DEF LibrarySpec
=============================================================================
