---------------------------- MODULE BillingProofs ----------------------------
(***************************************************************************)
(* What TLAPS proves of Billing, for any accounts, tiers, tokens and       *)
(* overlapping requests: the tables stay well formed, a purchase never     *)
(* changes hands, and a paid plan was bought.                              *)
(***************************************************************************)
EXTENDS Billing, TLAPS

(* User u bought the tier k. *)
Bought(u, k) ==
    k = "free" \/ \E t \in Token : purchases[t].user = u /\ purchases[t].product = k

(* What a running request knows: before the insert the row it will insert, *)
(* afterwards that its token is its user's, with the product it will       *)
(* write.                                                                  *)
Inserts(c) == c.row.user = c.user /\ c.row.product = c.plan
Applies(c) == purchases[c.token].user = c.user /\ purchases[c.token].product = c.plan
Holds(c) ==
    /\ purchases[c.token].user = c.user
    /\ purchases[c.token].product = c.row.product
    /\ Bought(c.user, c.plan)

Knows ==
    \A r \in Request :
        /\ calls[r].pc = "add" => Inserts(calls[r])
        /\ calls[r].pc \in {"load", "save"} => Applies(calls[r])
        /\ calls[r].pc \in {"row", "validate", "check", "revoke"} => Holds(calls[r])

AllBought == \A u \in User : Bought(u, plan[u])

(* The tokens a pass works on were bought, and it looks at a user. *)
SweepsBought ==
    /\ \A t \in sweep.todo : purchases[t] # NoPurchase
    /\ sweep.pc = "check" => sweep.at \in User

BillingInv == BillingTypeOK /\ Knows /\ AllBought /\ SweepsBought

(* What a step does to the purchases: it may add some and change the state *)
(* and the term of others.                                                 *)
Grows ==
    /\ purchases' \in [Token -> Purchase \cup {NoPurchase}]
    /\ \A t \in Token :
          purchases[t] # NoPurchase =>
              /\ purchases'[t] # NoPurchase
              /\ purchases'[t].user = purchases[t].user
              /\ purchases'[t].product = purchases[t].product

(* A token with an owner has a purchase. *)
LEMMA Owned ==
    ASSUME BillingTypeOK, NEW t \in Token
    PROVE  purchases[t].user \in User <=> purchases[t] # NoPurchase
BY BillingAssumption DEF BillingTypeOK, Purchase, NoPurchase

(* What was bought stays bought. *)
LEMMA StaysBought ==
    ASSUME BillingTypeOK, Grows, NEW u \in User, NEW k, Bought(u, k)
    PROVE  Bought(u, k)'
<1>1. CASE k = "free"
  BY <1>1 DEF Bought
<1>2. CASE k # "free"
  <2>1. PICK t \in Token : purchases[t].user = u /\ purchases[t].product = k
    BY <1>2 DEF Bought
  <2>2. purchases'[t].user = u /\ purchases'[t].product = k
    BY <2>1, Owned DEF Grows
  <2> QED BY <2>2 DEF Bought
<1> QED BY <1>1, <1>2

(* A request that does not move knows what it knew. *)
LEMMA StillKnown ==
    ASSUME BillingInv, Grows, NEW r \in Request, calls'[r] = calls[r]
    PROVE  /\ calls'[r].pc = "add" => Inserts(calls[r])'
           /\ calls'[r].pc \in {"load", "save"} => Applies(calls[r])'
           /\ calls'[r].pc \in {"row", "validate", "check", "revoke"} => Holds(calls[r])'
<1>1. CASE calls[r] = NoCall
  BY <1>1 DEF NoCall
<1>2. CASE calls[r] \in Call
  <2> DEFINE c == calls[r]
  <2>1. c.user \in User /\ c.token \in Token /\ c.plan \in Plan
    BY <1>2 DEF Call
  <2>2. purchases[c.token].user = c.user =>
           /\ purchases'[c.token].user = c.user
           /\ purchases'[c.token].product = purchases[c.token].product
    BY <2>1, Owned DEF BillingInv, Grows
  <2>3. Bought(c.user, c.plan) => Bought(c.user, c.plan)'
    <3> DEFINE u == c.user
               k == c.plan
    <3>1. u \in User
      BY <2>1
    <3> HIDE DEF u, k
    <3>2. Bought(u, k) => (\E t \in Token : purchases'[t].user = u /\ purchases'[t].product = k) \/ k = "free"
      <4>1. CASE k = "free"
        BY <4>1
      <4>2. CASE k # "free" /\ Bought(u, k)
        <5>1. PICK t \in Token : purchases[t].user = u /\ purchases[t].product = k
          BY <4>2 DEF Bought
        <5> QED BY <3>1, <5>1, Owned DEF Grows, BillingInv
      <4> QED BY <4>1, <4>2
    <3> QED BY <3>2 DEF Bought, u, k
  <2> QED BY <2>2, <2>3 DEF BillingInv, Knows, Inserts, Applies, Holds
<1> QED BY <1>1, <1>2 DEF BillingInv, BillingTypeOK

(* A request that moves: slot r takes the record q, which is NoCall or     *)
(* knows what its next step needs.                                         *)
Moves(r, q) ==
    /\ calls' = [calls EXCEPT ![r] = q]
    /\ \/ q = NoCall
       \/ /\ q \in Call
          /\ q.pc = "add" => Inserts(q)
          /\ q.pc \in {"load", "save"} =>
                purchases'[q.token].user = q.user /\ purchases'[q.token].product = q.plan
          /\ q.pc \in {"row", "validate", "check", "revoke"} =>
                /\ purchases'[q.token].user = q.user
                /\ purchases'[q.token].product = q.row.product
                /\ \/ q.plan = "free"
                   \/ \E t \in Token : purchases'[t].user = q.user /\ purchases'[t].product = q.plan

(* The other requests keep theirs. *)
LEMMA MoveKnown ==
    ASSUME BillingInv, Grows, NEW r \in Request, NEW q, Moves(r, q)
    PROVE  Knows' /\ calls' \in [Request -> Call \cup {NoCall}]
<1>1. calls' \in [Request -> Call \cup {NoCall}] /\ calls'[r] = q
  BY DEF Moves, BillingInv, BillingTypeOK
<1>2. ASSUME NEW o \in Request
      PROVE  /\ calls'[o].pc = "add" => Inserts(calls[o])'
             /\ calls'[o].pc \in {"load", "save"} => Applies(calls[o])'
             /\ calls'[o].pc \in {"row", "validate", "check", "revoke"} => Holds(calls[o])'
  <2>1. CASE o # r
    <3>1. calls'[o] = calls[o]
      BY <2>1 DEF Moves, BillingInv, BillingTypeOK
    <3> QED BY <3>1, StillKnown
  <2>2. CASE o = r
    BY <1>1, <2>2 DEF Moves, NoCall, Inserts, Applies, Holds, Bought
  <2> QED BY <2>1, <2>2
<1> QED BY <1>1, <1>2 DEF Knows

(* A request that returns knows nothing. *)
LEMMA ReturnMoves ==
    ASSUME NEW r \in Request, Returns(r)
    PROVE  Moves(r, NoCall)
BY DEF Returns, Moves

(* The plans after a save of user u by a context that read "seen". *)
LEMMA PlanSaved ==
    ASSUME BillingInv, Grows, NEW u \in User, NEW seen, NEW k \in Plan, SavePlan(u, seen, k),
           Bought(u, k)
    PROVE  plan' \in [User -> Plan] /\ AllBought'
<1>1. plan' \in [User -> Plan] /\ \A v \in User : plan'[v] = plan[v] \/ (v = u /\ plan'[v] = k)
  BY DEF SavePlan, BillingInv, BillingTypeOK
<1>2. ASSUME NEW v \in User PROVE Bought(v, plan[v])'
  <2>1. Bought(v, plan'[v])
    BY <1>1 DEF BillingInv, AllBought
  <2>2. plan'[v] \in Plan
    BY <1>1
  <2> DEFINE j == plan'[v]
  <2>3. Bought(v, j)
    BY <2>1
  <2>4. j = "free" \/ \E t \in Token : purchases'[t].user = v /\ purchases'[t].product = j
    <3> HIDE DEF j
    <3>1. CASE j # "free"
      <4>1. PICK t \in Token : purchases[t].user = v /\ purchases[t].product = j
        BY <2>3, <3>1 DEF Bought
      <4> QED BY <4>1, Owned DEF Grows, BillingInv
    <3> QED BY <3>1
  <2> QED BY <2>4 DEF Bought
<1> QED BY <1>1, <1>2 DEF AllBought

(* Without a save of a user every plan stays bought. *)
LEMMA PlanKept ==
    ASSUME BillingInv, Grows, UNCHANGED plan
    PROVE  plan' \in [User -> Plan] /\ AllBought'
<1>1. ASSUME NEW v \in User PROVE Bought(v, plan[v])'
  <2> DEFINE j == plan[v]
  <2>1. Bought(v, j)
    BY DEF BillingInv, AllBought
  <2>2. j = "free" \/ \E t \in Token : purchases'[t].user = v /\ purchases'[t].product = j
    <3> HIDE DEF j
    <3>1. CASE j # "free"
      <4>1. PICK t \in Token : purchases[t].user = v /\ purchases[t].product = j
        BY <2>1, <3>1 DEF Bought
      <4> QED BY <4>1, Owned DEF Grows, BillingInv
    <3> QED BY <3>1
  <2> QED BY <2>2 DEF Bought
<1> QED BY <1>1 DEF AllBought, BillingInv, BillingTypeOK

(* The pass keeps its list, and the ghost may grow. *)
LEMMA SweepKept ==
    ASSUME BillingInv, Grows, NEW t \in Token, UNCHANGED sweep \/ Activated(t)
    PROVE  sweep' \in Sweep /\ SweepsBought'
<1>1. /\ sweep' \in Sweep
      /\ sweep'.todo = sweep.todo /\ sweep'.pc = sweep.pc /\ sweep'.at = sweep.at
  BY DEF BillingInv, BillingTypeOK, Activated, Sweep
<1>2. sweep.todo \in SUBSET Token
  BY DEF BillingInv, BillingTypeOK, Sweep
<1> QED BY <1>1, <1>2 DEF BillingInv, SweepsBought, Grows

(* A step that leaves the purchases alone. *)
LEMMA Untouched ==
    ASSUME BillingTypeOK, UNCHANGED purchases
    PROVE  Grows
BY DEF BillingTypeOK, Grows

(* A running request has a full record. *)
LEMMA Running ==
    ASSUME BillingTypeOK, NEW r \in Request, calls[r].pc # "idle"
    PROVE  calls[r] \in Call
BY DEF BillingTypeOK, NoCall

(* The steps of verify and restore, one by one. *)
LEMMA ServeStep ==
    ASSUME BillingInv, NEW r \in Request, Serve(r)
    PROVE  BillingInv' /\ Grows
<1> DEFINE c == calls[r]
           t == calls[r].token
<1>1. c.pc # "idle"
  BY DEF Serve, VerifyAdd, VerifyLoad, VerifySave, RestoreLoad, RestoreValid, RestoreRefunded,
       RestoreCheck, RestoreRevoke
<1>2. c \in Call /\ t \in Token /\ c.user \in User
  BY <1>1, Running DEF BillingInv, Call
<1>3. /\ c.pc = "add" => Inserts(c)
      /\ c.pc \in {"load", "save"} => Applies(c)
      /\ c.pc \in {"row", "validate", "check", "revoke"} => Holds(c)
  BY DEF BillingInv, Knows
<1>4. CASE VerifyAdd(r)
  <2>1. CASE purchases[t] = NoPurchase
    <3>1. /\ purchases' = [purchases EXCEPT ![t] = c.row]
          /\ calls' = [calls EXCEPT ![r] = [c EXCEPT !.pc = "load"]]
          /\ Activated(t) /\ UNCHANGED plan /\ c.pc = "add"
      BY <1>4, <2>1 DEF VerifyAdd
    <3>2. Grows
      BY <1>2, <2>1, <3>1 DEF Grows, BillingInv, BillingTypeOK, Call
    <3>3. Moves(r, [c EXCEPT !.pc = "load"])
      <4>1. purchases'[t] = c.row
        BY <1>2, <3>1 DEF BillingInv, BillingTypeOK
      <4>2. [c EXCEPT !.pc = "load"] \in Call
        BY <1>2 DEF Call
      <4> QED BY <1>2, <1>3, <3>1, <4>1, <4>2 DEF Moves, Inserts, Call
    <3> HIDE DEF c, t
    <3> QED BY <1>2, <3>1, <3>2, <3>3, MoveKnown, PlanKept, SweepKept DEF BillingInv, BillingTypeOK, Grows
  <2>2. CASE purchases[t] # NoPurchase
    <3>1. Returns(r) /\ UNCHANGED <<purchases, plan, sweep>>
      BY <1>4, <2>2 DEF VerifyAdd
    <3>2. Grows
      BY <3>1, Untouched DEF BillingInv
    <3> QED BY <1>2, <3>1, <3>2, ReturnMoves, MoveKnown, PlanKept, SweepKept DEF BillingInv, BillingTypeOK, Grows
  <2> QED BY <2>1, <2>2
<1>5. CASE VerifyLoad(r) \/ RestoreLoad(r) \/ RestoreRefunded(r) \/ RestoreCheck(r)
  <2>1. UNCHANGED <<purchases, plan, sweep>>
    BY <1>5 DEF VerifyLoad, RestoreLoad, RestoreRefunded, RestoreCheck
  <2>2. Grows
    BY <2>1, Untouched DEF BillingInv
  <2>3. plan[c.user] \in Plan /\ Bought(c.user, plan[c.user])
    BY <1>2 DEF BillingInv, BillingTypeOK, AllBought
  <2>4. \E q : Moves(r, q)
    <3>1. CASE VerifyLoad(r)
      <4> DEFINE q == [c EXCEPT !.pc = "save", !.seen = plan[c.user]]
      <4>1. calls' = [calls EXCEPT ![r] = q] /\ c.pc = "load"
        BY <3>1 DEF VerifyLoad
      <4>2. q \in Call /\ q.pc = "save" /\ q.user = c.user /\ q.token = t /\ q.plan = c.plan
        BY <1>2, <2>3 DEF Call
      <4> HIDE DEF q
      <4> QED BY <1>3, <2>1, <4>1, <4>2 DEF Moves, Applies
    <3>2. CASE RestoreLoad(r)
      <4> DEFINE q == [c EXCEPT !.pc = "validate", !.seen = plan[c.user], !.plan = plan[c.user]]
      <4>1. calls' = [calls EXCEPT ![r] = q] /\ c.pc = "row"
        BY <3>2 DEF RestoreLoad
      <4>2. /\ q \in Call /\ q.pc = "validate" /\ q.user = c.user /\ q.token = t
            /\ q.plan = plan[c.user] /\ q.row = c.row
        BY <1>2, <2>3 DEF Call
      <4> HIDE DEF q
      <4> QED BY <1>3, <2>1, <2>3, <4>1, <4>2 DEF Moves, Holds, Bought
    <3>3. CASE RestoreRefunded(r)
      <4> DEFINE q == [c EXCEPT !.pc = "check"]
      <4>1. calls' = [calls EXCEPT ![r] = q] /\ c.pc = "validate"
        BY <3>3 DEF RestoreRefunded
      <4>2. /\ q \in Call /\ q.pc = "check" /\ q.user = c.user /\ q.token = t
            /\ q.plan = c.plan /\ q.row = c.row
        BY <1>2 DEF Call
      <4> HIDE DEF q
      <4> QED BY <1>3, <2>1, <4>1, <4>2 DEF Moves, Holds, Bought
    <3>4. CASE RestoreCheck(r)
      <4> DEFINE k == IF HasActive(c.user) THEN c.plan ELSE "free"
                 q == [c EXCEPT !.pc = "revoke", !.plan = k]
      <4>1. calls' = [calls EXCEPT ![r] = q] /\ c.pc = "check"
        BY <3>4 DEF RestoreCheck
      <4>2. k \in Plan /\ (k = "free" \/ k = c.plan)
        BY <1>2 DEF Call, Plan
      <4> HIDE DEF k
      <4>3. /\ q \in Call /\ q.pc = "revoke" /\ q.user = c.user /\ q.token = t
            /\ q.plan = k /\ q.row = c.row
        BY <1>2, <4>2 DEF Call
      <4> HIDE DEF q
      <4> QED BY <1>3, <2>1, <4>1, <4>2, <4>3 DEF Moves, Holds, Bought
    <3> QED BY <1>5, <3>1, <3>2, <3>3, <3>4
  <2> QED BY <1>2, <2>1, <2>2, <2>4, MoveKnown, PlanKept, SweepKept DEF BillingInv, BillingTypeOK, Grows
<1>6. CASE VerifySave(r)
  <2>1. /\ SavePlan(c.user, c.seen, c.plan) /\ Returns(r) /\ UNCHANGED <<purchases, sweep>>
        /\ c.pc = "save"
    BY <1>6 DEF VerifySave
  <2>2. Grows
    BY <2>1, Untouched DEF BillingInv
  <2>3. Bought(c.user, c.plan) /\ c.plan \in Plan
    BY <1>2, <1>3, <2>1 DEF Applies, Bought, Call
  <2> HIDE DEF c
  <2>4. plan' \in [User -> Plan] /\ AllBought'
    BY <1>2, <2>1, <2>2, <2>3, PlanSaved
  <2> QED BY <1>2, <2>1, <2>2, <2>4, ReturnMoves, MoveKnown, SweepKept DEF BillingInv, BillingTypeOK, Grows
<1>7. CASE RestoreValid(r)
  <2>1. PICK longer \in BOOLEAN :
           purchases' = [purchases EXCEPT
              ![t].state = IF c.row.state = "Active" THEN @ ELSE "Active",
              ![t].running = @ \/ longer]
    BY <1>2, <1>7 DEF RestoreValid, Call, Purchase
  <2>2. /\ SavePlan(c.user, c.seen, c.row.product) /\ Activated(t) /\ Returns(r)
        /\ c.pc = "validate"
    BY <1>7 DEF RestoreValid
  <2>3. purchases[t] \in Purchase /\ purchases[t].user = c.user /\ purchases[t].product = c.row.product
    BY <1>2, <1>3, <2>2, Owned DEF Holds, BillingInv, BillingTypeOK
  <2>4. Grows
    BY <1>2, <2>1, <2>3, BillingAssumption DEF Grows, BillingInv, BillingTypeOK, Purchase, NoPurchase
  <2>5. Bought(c.user, c.row.product) /\ c.row.product \in Plan
    BY <1>2, <2>3 DEF Bought, Call, Purchase, Plan
  <2> DEFINE k == c.row.product
  <2>6. SavePlan(c.user, c.seen, k) /\ Bought(c.user, k) /\ k \in Plan
    BY <2>2, <2>5
  <2> HIDE DEF c, t, k
  <2>7. plan' \in [User -> Plan] /\ AllBought'
    BY <1>2, <2>4, <2>6, PlanSaved
  <2> QED BY <1>2, <2>2, <2>4, <2>7, ReturnMoves, MoveKnown, SweepKept DEF BillingInv, BillingTypeOK, Grows
<1>8. CASE RestoreRevoke(r)
  <2>1. /\ purchases' = [purchases EXCEPT ![t].state = "Revoked"]
        /\ SavePlan(c.user, c.seen, c.plan) /\ Returns(r) /\ UNCHANGED sweep
        /\ c.pc = "revoke"
    BY <1>8 DEF RestoreRevoke
  <2>2. purchases[t] \in Purchase
    BY <1>2, <1>3, <2>1, Owned DEF Holds, BillingInv, BillingTypeOK
  <2>3. Grows
    BY <1>2, <2>1, <2>2, BillingAssumption DEF Grows, BillingInv, BillingTypeOK, Purchase, NoPurchase
  <2>4. Bought(c.user, c.plan) /\ c.plan \in Plan
    BY <1>2, <1>3, <2>1 DEF Holds, Call
  <2> HIDE DEF c, t
  <2>5. plan' \in [User -> Plan] /\ AllBought'
    BY <1>2, <2>1, <2>3, <2>4, PlanSaved
  <2> QED BY <1>2, <2>1, <2>3, <2>5, ReturnMoves, MoveKnown, SweepKept DEF BillingInv, BillingTypeOK, Grows
<1> QED BY <1>4, <1>5, <1>6, <1>7, <1>8 DEF Serve

(* What starts a request, and what ends one early. *)
LEMMA ArriveStep ==
    ASSUME BillingInv, NEW r \in Request,
           \/ GiveUp(r)
           \/ \E u \in User, t \in Token :
                 RestoreBegin(r, u, t) \/ \E k \in Product : VerifyBegin(r, u, t, k)
    PROVE  BillingInv' /\ Grows
<1>1. UNCHANGED <<purchases, plan, sweep>>
  BY DEF GiveUp, RestoreBegin, Restores, VerifyBegin
<1>2. Grows
  BY <1>1, Untouched DEF BillingInv
<1>3. \E q : Moves(r, q)
  <2>1. CASE GiveUp(r)
    BY <2>1, ReturnMoves DEF GiveUp
  <2>2. ASSUME NEW u \in User, NEW t \in Token, RestoreBegin(r, u, t)
        PROVE  \E q : Moves(r, q)
    <3> DEFINE q == [pc |-> "row", user |-> u, token |-> t, seen |-> "free", plan |-> "free",
                     row |-> purchases[t]]
    <3>1. purchases[t] \in Purchase /\ purchases[t].user = u
      BY <2>2, Owned DEF RestoreBegin, BillingInv, BillingTypeOK
    <3>2. q \in Call /\ q.pc = "row"
      BY <3>1 DEF Call, Plan
    <3> QED BY <1>1, <2>2, <3>1, <3>2 DEF Moves, RestoreBegin, Restores
  <2>3. ASSUME NEW u \in User, NEW t \in Token, NEW k \in Product, VerifyBegin(r, u, t, k)
        PROVE  \E q : Moves(r, q)
    <3> DEFINE q == [pc |-> "add", user |-> u, token |-> t, seen |-> "free", plan |-> k,
                     row |-> [user |-> u, product |-> k, state |-> "Active", running |-> TRUE]]
    <3>1. q \in Call /\ q.pc = "add" /\ Inserts(q)
      BY DEF Call, Plan, Purchase, Inserts
    <3> QED BY <2>3, <3>1 DEF Moves, VerifyBegin
  <2> QED BY <2>1, <2>2, <2>3
<1>4. sweep' \in Sweep /\ SweepsBought'
  BY <1>1 DEF BillingInv, BillingTypeOK, SweepsBought
<1> QED BY <1>1, <1>2, <1>3, <1>4, MoveKnown, PlanKept DEF BillingInv, BillingTypeOK, Grows

(* The requests that do not move, while the sweep or a term does. *)
LEMMA CallsKept ==
    ASSUME BillingInv, Grows, UNCHANGED calls
    PROVE  Knows' /\ calls' \in [Request -> Call \cup {NoCall}]
BY StillKnown DEF Knows, BillingInv, BillingTypeOK

(* The steps of the sweep. *)
LEMMA SweepStep ==
    ASSUME BillingInv, Sweeping \/ WorkerCrash
    PROVE  BillingInv' /\ Grows
<1>1. sweep \in Sweep /\ purchases \in [Token -> Purchase \cup {NoPurchase}] /\ plan \in [User -> Plan]
  BY DEF BillingInv, BillingTypeOK
<1>2. UNCHANGED calls
  BY DEF Sweeping, WorkerCrash, SweepList, SweepExpire, SweepLoad, SweepCheck, SweepSave
<1>3. NoSweep \in Sweep
  BY DEF NoSweep, Sweep, Plan
<1>4. CASE SweepList \/ WorkerCrash
  <2>1. UNCHANGED <<purchases, plan>>
    BY <1>4 DEF SweepList, WorkerCrash
  <2>2. Grows
    BY <2>1, Untouched DEF BillingInv
  <2>3. /\ sweep' \in Sweep /\ sweep'.pc # "check"
        /\ \A t \in sweep'.todo : purchases[t] # NoPurchase
    <3>1. CASE WorkerCrash
      BY <1>3, <3>1 DEF WorkerCrash, NoSweep
    <3>2. CASE SweepList
      <4>1. Lapsed \in SUBSET Token /\ \A t \in Lapsed : purchases[t] # NoPurchase
        BY DEF Lapsed, NoPurchase
      <4> DEFINE q == [NoSweep EXCEPT !.pc = "expire", !.todo = Lapsed]
      <4>3. q \in Sweep /\ q.todo = Lapsed /\ q.pc = "expire"
        BY <1>3, <4>1 DEF Sweep
      <4>4. sweep' = q
        BY <3>2 DEF SweepList
      <4> HIDE DEF q
      <4> QED BY <4>1, <4>3, <4>4
    <3> QED BY <1>4, <3>1, <3>2
  <2> QED BY <1>2, <2>1, <2>2, <2>3, CallsKept, PlanKept DEF BillingInv, BillingTypeOK, SweepsBought, Grows
<1>5. CASE SweepExpire
  <2>1. /\ purchases' = [t \in Token |->
               IF t \in sweep.todo THEN [purchases[t] EXCEPT !.state = "Expired"] ELSE purchases[t]]
        /\ UNCHANGED plan
        /\ sweep' = [sweep EXCEPT !.pc = "load", !.todo = {},
                                  !.users = {purchases[t].user : t \in sweep.todo}]
    BY <1>5 DEF SweepExpire
  <2>2. sweep.todo \in SUBSET Token
    BY <1>1 DEF Sweep
  <2>3. \A t \in sweep.todo : purchases[t] \in Purchase
    BY <1>1, <2>2 DEF BillingInv, SweepsBought
  <2>4. ASSUME NEW t \in sweep.todo
        PROVE  /\ [purchases[t] EXCEPT !.state = "Expired"] \in Purchase
               /\ [purchases[t] EXCEPT !.state = "Expired"] # NoPurchase
               /\ [purchases[t] EXCEPT !.state = "Expired"].user = purchases[t].user
               /\ [purchases[t] EXCEPT !.state = "Expired"].product = purchases[t].product
    BY <2>3, BillingAssumption DEF Purchase, NoPurchase
  <2>5. Grows
    BY <1>1, <2>1, <2>4 DEF Grows
  <2>6. {purchases[t].user : t \in sweep.todo} \in SUBSET User
    BY <2>3 DEF Purchase
  <2>7. sweep' \in Sweep /\ sweep'.todo = {} /\ sweep'.pc = "load"
    BY <1>1, <2>1, <2>6 DEF Sweep
  <2> QED BY <1>2, <2>1, <2>5, <2>7, CallsKept, PlanKept DEF BillingInv, BillingTypeOK, SweepsBought, Grows
<1>6. CASE SweepLoad \/ SweepCheck
  <2>1. UNCHANGED <<purchases, plan>>
    BY <1>6 DEF SweepLoad, SweepCheck
  <2>2. Grows
    BY <2>1, Untouched DEF BillingInv
  <2>3. /\ sweep' \in Sweep /\ sweep'.todo = sweep.todo
        /\ sweep'.pc = "check" => sweep'.at \in User
    <3>1. CASE SweepLoad
      <4>1. PICK u \in sweep.users :
               sweep' = [sweep EXCEPT !.pc = "check", !.users = @ \ {u}, !.at = u, !.seen = plan[u]]
        BY <3>1 DEF SweepLoad
      <4>2. u \in User /\ plan[u] \in Plan /\ sweep.users \ {u} \in SUBSET User
        BY <1>1 DEF Sweep
      <4> DEFINE rest == sweep.users \ {u}
                 k == plan[u]
      <4>3. sweep' = [sweep EXCEPT !.pc = "check", !.users = rest, !.at = u, !.seen = k]
        BY <4>1
      <4>4. rest \in SUBSET User /\ k \in Plan
        BY <4>2
      <4> HIDE DEF rest, k
      <4> QED BY <1>1, <4>2, <4>3, <4>4 DEF Sweep
    <3>2. CASE SweepCheck
      <4> DEFINE drop == IF Downgraded THEN sweep.drop \cup {sweep.at} ELSE sweep.drop
      <4>2. sweep.at \in User
        BY <3>2 DEF SweepCheck, BillingInv, SweepsBought
      <4>3. drop \in SUBSET User
        BY <1>1, <4>2 DEF Sweep
      <4>4. sweep' = [sweep EXCEPT !.pc = IF sweep.users = {} THEN "save" ELSE "load",
                                   !.at = NoUser, !.seen = "free", !.drop = drop]
        BY <3>2 DEF SweepCheck
      <4> HIDE DEF drop
      <4> QED BY <1>1, <4>3, <4>4 DEF Sweep, Plan
    <3> QED BY <1>6, <3>1, <3>2
  <2> QED BY <1>2, <2>1, <2>2, <2>3, CallsKept, PlanKept DEF BillingInv, BillingTypeOK, SweepsBought, Grows
<1>7. CASE SweepSave
  <2>1. /\ plan' = [u \in User |-> IF u \in sweep.drop THEN "free" ELSE plan[u]]
        /\ sweep' = NoSweep /\ UNCHANGED purchases
    BY <1>7 DEF SweepSave
  <2>2. Grows
    BY <2>1, Untouched DEF BillingInv
  <2>3. plan' \in [User -> Plan] /\ AllBought'
    BY <1>1, <2>1 DEF AllBought, Bought, BillingInv, Plan
  <2>4. sweep'.todo = {} /\ sweep'.pc = "idle"
    BY <2>1 DEF NoSweep
  <2> QED BY <1>2, <1>3, <2>1, <2>2, <2>3, <2>4, CallsKept DEF BillingInv, BillingTypeOK, SweepsBought, Grows
<1> QED BY <1>4, <1>5, <1>6, <1>7 DEF Sweeping

(* A term that runs out. *)
LEMMA TermStep ==
    ASSUME BillingInv, NEW t \in Token, TermEnds(t)
    PROVE  BillingInv' /\ Grows
<1>1. /\ purchases' = [purchases EXCEPT ![t].running = FALSE]
      /\ UNCHANGED <<plan, calls, sweep>>
      /\ purchases[t].running
  BY DEF TermEnds
<1>2. purchases[t] \in Purchase
  BY <1>1 DEF BillingInv, BillingTypeOK, NoPurchase
<1>3. Grows
  BY <1>1, <1>2, BillingAssumption DEF Grows, BillingInv, BillingTypeOK, Purchase, NoPurchase
<1>4. sweep' \in Sweep /\ SweepsBought'
  BY <1>1, <1>3, SweepKept
<1> QED BY <1>1, <1>3, <1>4, CallsKept, PlanKept DEF BillingInv, BillingTypeOK, Grows

(* Every step keeps the invariant, and only adds to the purchases. *)
LEMMA BillingStep ==
    ASSUME BillingInv, [Next]_billingVars
    PROVE  BillingInv' /\ Grows
<1>1. CASE UNCHANGED billingVars
  BY <1>1, Untouched, CallsKept, PlanKept
     DEF billingVars, BillingInv, BillingTypeOK, SweepsBought
<1>2. CASE Next
  BY <1>2, ServeStep, ArriveStep, SweepStep, TermStep DEF Next
<1> QED BY <1>1, <1>2

(* The first state satisfies the invariant. *)
LEMMA BillingStart == Init => BillingInv
BY DEF Init, BillingInv, BillingTypeOK, Knows, AllBought, Bought, SweepsBought, NoCall, NoSweep,
       Sweep, Plan

(* The invariant holds of every behavior of billing. *)
LEMMA BillingInvariant == Spec => []BillingInv
<1>1. BillingInv /\ [Next]_billingVars => BillingInv'
  BY BillingStep
<1> QED BY <1>1, BillingStart, PTL DEF Spec

(* The tables and the copies the handlers carry are always well formed     *)
(* (BillingService, BillingExpiryHandler).                                 *)
THEOREM BillingTypeCorrect == Spec => []BillingTypeOK
<1>1. BillingInv => BillingTypeOK
  BY DEF BillingInv
<1> QED BY <1>1, BillingInvariant, PTL

(* Whatever verifications, restores and sweeps overlap, a paid plan was    *)
(* bought with a token of the same account (VerifyPurchaseAsync,           *)
(* RestorePurchaseAsync).                                                  *)
THEOREM PaidWasBought == Spec => []PaidPlanBought
<1>1. BillingInv => PaidPlanBought
  BY DEF BillingInv, AllBought, Bought, PaidPlanBought
<1> QED BY <1>1, BillingInvariant, PTL

(* A purchase never changes its account or its product: the unique token   *)
(* stops every second insert (BillingPurchaseRepository.AddAsync).         *)
THEOREM OneAccount == Spec => TokenOneAccount
<1>1. BillingInv /\ [Next]_billingVars =>
         [\A t \in Token :
             purchases[t] # NoPurchase =>
                 /\ purchases'[t].user = purchases[t].user
                 /\ purchases'[t].product = purchases[t].product]_billingVars
  BY BillingStep DEF Grows
<1> QED BY <1>1, BillingInvariant, PTL DEF Spec, TokenOneAccount

(* Between two passes nobody is about to be downgraded. *)
SparesInv == SweepSparesActive /\ (sweep.pc = "idle" => sweep.drop = {})

(* What disturbs it least: no purchase becomes active, and the pass        *)
(* neither picks a user nor forgets a fresh token.                         *)
LEMMA SparesKept ==
    ASSUME BillingInv, SparesInv, Grows,
           \A t \in Token : purchases'[t].state = "Active" => purchases[t].state = "Active",
           sweep'.drop \subseteq sweep.drop, sweep.fresh \subseteq sweep'.fresh,
           sweep'.pc = "idle" => sweep'.drop = {}
    PROVE  SparesInv'
<1>1. \A t \in Token : purchases[t].state = "Active" => purchases'[t].user = purchases[t].user
  BY DEF Grows, NoPurchase
<1>2. ASSUME NEW u \in sweep'.drop, NEW t \in Token,
             purchases'[t].user = u, purchases'[t].state = "Active"
      PROVE  t \in sweep'.fresh
  <2>1. purchases[t].user = u /\ purchases[t].state = "Active" /\ u \in sweep.drop
    BY <1>1, <1>2
  <2> QED BY <2>1 DEF SparesInv, SweepSparesActive
<1> QED BY <1>2 DEF SparesInv, SweepSparesActive

(* A purchase that becomes active during a pass is marked as fresh. *)
LEMMA SparesActivated ==
    ASSUME BillingInv, SparesInv, Grows, NEW t \in Token, Activated(t),
           \A o \in Token \ {t} : purchases'[o] = purchases[o]
    PROVE  SparesInv'
<1>1. CASE sweep.pc = "idle"
  <2>1. sweep' = sweep
    BY <1>1 DEF Activated
  <2> QED BY <1>1, <2>1 DEF SparesInv, SweepSparesActive
<1>2. CASE sweep.pc # "idle"
  <2> DEFINE fresh == sweep.fresh \cup {t}
  <2>1. sweep' = [sweep EXCEPT !.fresh = fresh]
    BY <1>2 DEF Activated
  <2> HIDE DEF fresh
  <2>2. sweep'.fresh = fresh /\ sweep'.drop = sweep.drop /\ sweep'.pc = sweep.pc
    BY <2>1 DEF BillingInv, BillingTypeOK, Sweep
  <2>3. sweep.fresh \subseteq fresh /\ t \in fresh
    BY DEF fresh
  <2> QED BY <1>2, <2>2, <2>3 DEF SparesInv, SweepSparesActive
<1> QED BY <1>1, <1>2

(* The steps of the requests. *)
LEMMA SparesServe ==
    ASSUME BillingInv, SparesInv, Grows, NEW r \in Request, Serve(r)
    PROVE  SparesInv'
<1> DEFINE t == calls[r].token
<1>1. purchases \in [Token -> Purchase \cup {NoPurchase}] /\ sweep \in Sweep
  BY DEF BillingInv, BillingTypeOK
<1>2. t \in Token
  BY Running DEF BillingInv, Call, Serve, VerifyAdd, VerifyLoad, VerifySave, RestoreLoad,
       RestoreValid, RestoreRefunded, RestoreCheck, RestoreRevoke
<1>3. CASE (VerifyAdd(r) /\ purchases[t] = NoPurchase) \/ RestoreValid(r)
  <2>1. Activated(t)
    BY <1>3 DEF VerifyAdd, RestoreValid
  <2>2. \A o \in Token \ {t} : purchases'[o] = purchases[o]
    BY <1>1, <1>3 DEF VerifyAdd, RestoreValid
  <2> HIDE DEF t
  <2> QED BY <1>2, <2>1, <2>2, SparesActivated
<1>4. CASE UNCHANGED <<purchases, sweep>>
  BY <1>4 DEF SparesInv, SweepSparesActive
<1>5. CASE RestoreRevoke(r)
  <2>1. purchases' = [purchases EXCEPT ![t].state = "Revoked"] /\ UNCHANGED sweep
    BY <1>5 DEF RestoreRevoke
  <2>2. \A o \in Token : purchases'[o].state = "Active" => purchases[o].state = "Active"
    <3>1. ASSUME NEW o \in Token, o # t PROVE purchases'[o] = purchases[o]
      BY <1>1, <2>1, <3>1
    <3>2. purchases'[t] = [purchases[t] EXCEPT !.state = "Revoked"]
      BY <1>1, <1>2, <2>1
    <3>3. purchases'[t].state # "Active"
      BY <1>1, <1>2, <3>2 DEF Purchase, NoPurchase
    <3> QED BY <3>1, <3>3
  <2> QED BY <2>1, <2>2, SparesKept DEF SparesInv
<1>6. CASE VerifyAdd(r) /\ purchases[t] # NoPurchase
  BY <1>4, <1>6 DEF VerifyAdd
<1>7. CASE VerifyLoad(r) \/ VerifySave(r) \/ RestoreLoad(r) \/ RestoreRefunded(r) \/ RestoreCheck(r)
  BY <1>4, <1>7 DEF VerifyLoad, VerifySave, RestoreLoad, RestoreRefunded, RestoreCheck
<1> QED BY <1>3, <1>5, <1>6, <1>7 DEF Serve

(* The steps of the sweep: only SweepCheck picks a user, one without an    *)
(* active purchase.                                                        *)
LEMMA SparesSweep ==
    ASSUME BillingInv, SparesInv, Grows, Sweeping \/ WorkerCrash
    PROVE  SparesInv'
<1>1. purchases \in [Token -> Purchase \cup {NoPurchase}] /\ sweep \in Sweep
  BY DEF BillingInv, BillingTypeOK
<1>2. CASE SweepList \/ SweepSave \/ WorkerCrash
  <2>1. NoSweep \in Sweep /\ NoSweep.drop = {}
    BY DEF NoSweep, Sweep, Plan
  <2>2. sweep'.drop = {}
    BY <1>2, <2>1 DEF SweepList, SweepSave, WorkerCrash, Sweep
  <2> QED BY <2>2 DEF SparesInv, SweepSparesActive
<1>3. CASE SweepExpire
  <2>1. /\ purchases' = [t \in Token |->
               IF t \in sweep.todo THEN [purchases[t] EXCEPT !.state = "Expired"] ELSE purchases[t]]
        /\ sweep'.drop = sweep.drop /\ sweep'.fresh = sweep.fresh /\ sweep'.pc = "load"
    BY <1>1, <1>3 DEF SweepExpire, Sweep
  <2>2. ASSUME NEW t \in Token, purchases'[t].state = "Active"
        PROVE  purchases[t].state = "Active"
    <3>1. t \in sweep.todo => purchases'[t].state = "Expired"
      <4>1. SUFFICES ASSUME t \in sweep.todo PROVE purchases'[t].state = "Expired"
        OBVIOUS
      <4>2. purchases'[t] = [purchases[t] EXCEPT !.state = "Expired"]
        BY <2>1, <4>1
      <4> QED BY <1>1, <4>2 DEF Purchase, NoPurchase
    <3> QED BY <2>1, <2>2, <3>1
  <2> QED BY <2>1, <2>2, SparesKept
<1>4. CASE SweepLoad
  <2>1. sweep'.drop = sweep.drop /\ sweep'.fresh = sweep.fresh /\ sweep'.pc = "check"
    BY <1>1, <1>4 DEF SweepLoad, Sweep
  <2>2. UNCHANGED purchases
    BY <1>4 DEF SweepLoad
  <2> QED BY <2>1, <2>2, SparesKept
<1>5. CASE SweepCheck
  <2>1. /\ sweep'.drop = IF Downgraded THEN sweep.drop \cup {sweep.at} ELSE sweep.drop
        /\ sweep'.fresh = sweep.fresh /\ sweep'.pc # "idle"
        /\ UNCHANGED purchases
    BY <1>1, <1>5 DEF SweepCheck, Sweep
  <2>2. CASE ~ Downgraded
    BY <2>1, <2>2, SparesKept
  <2>3. CASE Downgraded
    BY <2>1, <2>3 DEF Downgraded, HasActive, SparesInv, SweepSparesActive
  <2> QED BY <2>2, <2>3
<1> QED BY <1>2, <1>3, <1>4, <1>5 DEF Sweeping

(* The sweep sets to free only users without a remaining subscription      *)
(* (ExpireLapsedPurchasesAsync): an active purchase of such a user was     *)
(* activated while the pass was running.                                   *)
THEOREM SweepSpares == Spec => []SweepSparesActive
<1>1. Init => SparesInv
  BY DEF Init, NoSweep, SparesInv, SweepSparesActive
<1>2. BillingInv /\ SparesInv /\ [Next]_billingVars => SparesInv'
  <2> SUFFICES ASSUME BillingInv, SparesInv, [Next]_billingVars PROVE SparesInv'
    OBVIOUS
  <2>1. Grows
    BY BillingStep
  <2>2. CASE UNCHANGED <<purchases, sweep>>
    BY <2>2 DEF SparesInv, SweepSparesActive
  <2>3. ASSUME NEW t \in Token, TermEnds(t) PROVE SparesInv'
    <3>1. purchases' = [purchases EXCEPT ![t].running = FALSE] /\ UNCHANGED sweep
      BY <2>3 DEF TermEnds
    <3>2. purchases \in [Token -> Purchase \cup {NoPurchase}]
      BY DEF BillingInv, BillingTypeOK
    <3>3. \A o \in Token : purchases'[o].state = purchases[o].state
      BY <3>1, <3>2 DEF Purchase, NoPurchase
    <3> QED BY <2>1, <3>1, <3>3, SparesKept DEF SparesInv
  <2>4. ASSUME NEW r \in Request, GiveUp(r) \/ \E u \in User, t \in Token :
                  RestoreBegin(r, u, t) \/ \E k \in Product : VerifyBegin(r, u, t, k)
        PROVE  SparesInv'
    BY <2>2, <2>4 DEF GiveUp, RestoreBegin, Restores, VerifyBegin
  <2> QED BY <2>1, <2>2, <2>3, <2>4, SparesServe, SparesSweep DEF Next, billingVars
<1>3. SparesInv => SweepSparesActive
  BY DEF SparesInv
<1> QED BY <1>1, <1>2, <1>3, BillingInvariant, PTL DEF Spec
=============================================================================
