------------------------------- MODULE Billing -------------------------------
(***************************************************************************)
(* Subscriptions: BillingService (verify and restore, called by the apps)  *)
(* and BillingExpiryHandler (the worker's periodic sweep) over the tables  *)
(* billing_purchases and users.  Every handler has its own database        *)
(* context: a save writes the columns that differ from what that context   *)
(* read, whatever the row holds by then.                                   *)
(***************************************************************************)
CONSTANTS
    User, NoUser,
    Product, NoProduct,  \* the tiers on sale
    Token,               \* the purchase tokens the store hands out
    Request,             \* concurrent request slots of the API process
    Refunds              \* whether the store reports refunds (the sandbox never does)

ASSUME BillingAssumption ==
    /\ NoUser \notin User
    /\ NoProduct \notin Product /\ "free" \notin Product
    /\ Refunds \in BOOLEAN

VARIABLES
    purchases,  \* the purchase of each token
    plan,       \* the plan of each user; the quota is written with it
    calls,      \* the running requests
    sweep       \* the running pass of the expiry sweep

billingVars == <<purchases, plan, calls, sweep>>

Plan == Product \cup {"free"}

(* "running": the term and its grace period have not ended yet. *)
Purchase == [user : User, product : Product,
             state : {"Active", "Expired", "Revoked"}, running : BOOLEAN]
NoPurchase == [user |-> NoUser, product |-> NoProduct, state |-> "none", running |-> FALSE]

(* "row" is the purchase the request read, "seen" and "plan" the user's    *)
(* plan as it was read and as the request leaves it.                       *)
Call == [pc : {"add", "load", "save", "row", "validate", "check", "revoke"},
         user : User, token : Token, row : Purchase, seen : Plan, plan : Plan]
NoCall == [pc |-> "idle"]

(* "todo": the lapsed tokens; "users": their owners, still to be looked    *)
(* at; "at" and "seen": the user being looked at and the plan that was     *)
(* read; "drop": the users to set to free.  "fresh" is a ghost: the tokens *)
(* activated since the pass read its list.                                 *)
Sweep == [pc : {"idle", "expire", "load", "check", "save"}, todo : SUBSET Token,
          users : SUBSET User, at : User \cup {NoUser}, seen : Plan,
          drop : SUBSET User, fresh : SUBSET Token]
NoSweep == [pc |-> "idle", todo |-> {}, users |-> {}, at |-> NoUser, seen |-> "free",
            drop |-> {}, fresh |-> {}]

(* The tables hold well-formed rows, and so do the copies the handlers     *)
(* carry from one await to the next.                                       *)
BillingTypeOK ==
    /\ purchases \in [Token -> Purchase \cup {NoPurchase}]
    /\ plan \in [User -> Plan]
    /\ calls \in [Request -> Call \cup {NoCall}]
    /\ sweep \in Sweep

Init ==
    /\ purchases = [t \in Token |-> NoPurchase]
    /\ plan = [u \in User |-> "free"]
    /\ calls = [r \in Request |-> NoCall]
    /\ sweep = NoSweep

(* HasActiveForUserAsync. *)
HasActive(u) == \E t \in Token : purchases[t].user = u /\ purchases[t].state = "Active"

Activated(t) ==
    sweep' = IF sweep.pc = "idle" THEN sweep ELSE [sweep EXCEPT !.fresh = @ \cup {t}]

(* The save of a user writes the plan only if this context changed it. *)
SavePlan(u, seen, new) == plan' = IF seen = new THEN plan ELSE [plan EXCEPT ![u] = new]

Returns(r) == calls' = [calls EXCEPT ![r] = NoCall]

-----------------------------------------------------------------------------
(* VerifyPurchaseAsync.  A token that is already known only reports the    *)
(* status; an unknown one is validated, inserted, and then applied to the  *)
(* user by a second save.                                                  *)

VerifyBegin(r, u, t, k) ==
    /\ calls[r] = NoCall
    /\ purchases[t] = NoPurchase
    /\ calls' = [calls EXCEPT ![r] =
          [pc |-> "add", user |-> u, token |-> t, seen |-> "free", plan |-> k,
           row |-> [user |-> u, product |-> k, state |-> "Active", running |-> TRUE]]]
    /\ UNCHANGED <<purchases, plan, sweep>>

(* Mutation of VerifyAdd: no unique index on the token. *)
VerifyAddUpsert(r) ==
    LET t == calls[r].token IN
    /\ calls[r].pc = "add"
    /\ purchases' = [purchases EXCEPT ![t] = calls[r].row]
    /\ calls' = [calls EXCEPT ![r].pc = "load"]
    /\ Activated(t)
    /\ UNCHANGED plan

(* The token is unique: the insert throws if another request was faster. *)
VerifyAdd(r) ==
    LET t == calls[r].token IN
    /\ calls[r].pc = "add"
    /\ IF purchases[t] = NoPurchase
          THEN /\ purchases' = [purchases EXCEPT ![t] = calls[r].row]
               /\ calls' = [calls EXCEPT ![r].pc = "load"]
               /\ Activated(t)
          ELSE Returns(r) /\ UNCHANGED <<purchases, sweep>>
    /\ UNCHANGED plan

VerifyLoad(r) ==
    /\ calls[r].pc = "load"
    /\ calls' = [calls EXCEPT ![r].pc = "save", ![r].seen = plan[calls[r].user]]
    /\ UNCHANGED <<purchases, plan, sweep>>

VerifySave(r) ==
    /\ calls[r].pc = "save"
    /\ SavePlan(calls[r].user, calls[r].seen, calls[r].plan)
    /\ Returns(r)
    /\ UNCHANGED <<purchases, sweep>>

-----------------------------------------------------------------------------
(* RestorePurchaseAsync.  The purchase and the user are read, the store is *)
(* asked, and one save writes both.                                        *)

Restores(r, u, t) ==
    /\ calls[r] = NoCall
    /\ calls' = [calls EXCEPT ![r] =
          [pc |-> "row", user |-> u, token |-> t, seen |-> "free", plan |-> "free",
           row |-> purchases[t]]]
    /\ UNCHANGED <<purchases, plan, sweep>>

(* Mutations of RestoreBegin: without the test that the token is known,    *)
(* and without the test that it is this account's.                         *)
RestoreUnknown(r, u, t) == purchases[t].user \in {u, NoUser} /\ Restores(r, u, t)
RestoreAnyones(r, u, t) == purchases[t] # NoPurchase /\ Restores(r, u, t)

RestoreBegin(r, u, t) == purchases[t].user = u /\ Restores(r, u, t)

RestoreLoad(r) ==
    LET u == calls[r].user IN
    /\ calls[r].pc = "row"
    /\ calls' = [calls EXCEPT ![r].pc = "validate", ![r].seen = plan[u], ![r].plan = plan[u]]
    /\ UNCHANGED <<purchases, plan, sweep>>

(* The store answers Valid: renew and save.  The state is written only if  *)
(* the row that was read was not Active, the term only if the store grants *)
(* a longer one than that row had.                                         *)
RestoreValid(r) ==
    LET t == calls[r].token
        row == calls[r].row
    IN
    /\ calls[r].pc = "validate"
    /\ \E longer \in {TRUE, ~ row.running} :
          purchases' = [purchases EXCEPT
              ![t].state = IF row.state = "Active" THEN @ ELSE "Active",
              ![t].running = @ \/ longer]
    /\ SavePlan(calls[r].user, calls[r].seen, row.product)
    /\ Activated(t)
    /\ Returns(r)

(* The store answers Refunded: the row is revoked in memory, and the check *)
(* for other active purchases asks the database.                           *)
RestoreRefunded(r) ==
    /\ calls[r].pc = "validate"
    /\ Refunds
    /\ calls[r].row.state = "Active"
    /\ calls' = [calls EXCEPT ![r].pc = "check"]
    /\ UNCHANGED <<purchases, plan, sweep>>

RestoreCheck(r) ==
    LET c == calls[r] IN
    /\ c.pc = "check"
    /\ calls' = [calls EXCEPT
          ![r].pc = "revoke", ![r].plan = IF HasActive(c.user) THEN @ ELSE "free"]
    /\ UNCHANGED <<purchases, plan, sweep>>

RestoreRevoke(r) ==
    /\ calls[r].pc = "revoke"
    /\ purchases' = [purchases EXCEPT ![calls[r].token].state = "Revoked"]
    /\ SavePlan(calls[r].user, calls[r].seen, calls[r].plan)
    /\ Returns(r)
    /\ UNCHANGED sweep

(* The store rejects the token, or the request is cancelled, or the API    *)
(* process dies: what was saved stays.                                     *)
GiveUp(r) ==
    /\ calls[r] # NoCall
    /\ Returns(r)
    /\ UNCHANGED <<purchases, plan, sweep>>

Serve(r) ==
    \/ VerifyAdd(r) \/ VerifyLoad(r) \/ VerifySave(r)
    \/ RestoreLoad(r) \/ RestoreValid(r) \/ RestoreRefunded(r) \/ RestoreCheck(r) \/ RestoreRevoke(r)

-----------------------------------------------------------------------------
(* ExpireLapsedPurchasesAsync.                                             *)

(* ListLapsedActiveAsync. *)
Lapsed == {t \in Token : purchases[t].state = "Active" /\ ~ purchases[t].running}

SweepList ==
    /\ sweep.pc = "idle"
    /\ Lapsed # {}
    /\ sweep' = [NoSweep EXCEPT !.pc = "expire", !.todo = Lapsed]
    /\ UNCHANGED <<purchases, plan, calls>>

SweepExpire ==
    /\ sweep.pc = "expire"
    /\ purchases' = [t \in Token |->
          IF t \in sweep.todo THEN [purchases[t] EXCEPT !.state = "Expired"] ELSE purchases[t]]
    /\ sweep' = [sweep EXCEPT !.pc = "load", !.todo = {}, !.users = {purchases[t].user : t \in sweep.todo}]
    /\ UNCHANGED <<plan, calls>>

SweepLoad ==
    /\ sweep.pc = "load"
    /\ \E u \in sweep.users :
          sweep' = [sweep EXCEPT !.pc = "check", !.users = @ \ {u}, !.at = u, !.seen = plan[u]]
    /\ UNCHANGED <<purchases, plan, calls>>

(* Whom the pass sets to free; and a mutation of it that does not ask for  *)
(* the other purchases.                                                    *)
DowngradedAlways == sweep.seen # "free"
Downgraded == sweep.seen # "free" /\ ~ HasActive(sweep.at)

SweepCheck ==
    /\ sweep.pc = "check"
    /\ sweep' = [sweep EXCEPT
          !.pc = IF sweep.users = {} THEN "save" ELSE "load",
          !.at = NoUser, !.seen = "free",
          !.drop = IF Downgraded THEN @ \cup {sweep.at} ELSE @]
    /\ UNCHANGED <<purchases, plan, calls>>

SweepSave ==
    /\ sweep.pc = "save"
    /\ plan' = [u \in User |-> IF u \in sweep.drop THEN "free" ELSE plan[u]]
    /\ sweep' = NoSweep
    /\ UNCHANGED <<purchases, calls>>

Sweeping == SweepList \/ SweepExpire \/ SweepLoad \/ SweepCheck \/ SweepSave

(* The worker dies, or the pass throws, and the next pass starts afresh. *)
WorkerCrash ==
    /\ sweep.pc # "idle"
    /\ sweep' = NoSweep
    /\ UNCHANGED <<purchases, plan, calls>>

-----------------------------------------------------------------------------
(* The subscription of a token runs out, the grace period included. *)
TermEnds(t) ==
    /\ purchases[t].running
    /\ purchases' = [purchases EXCEPT ![t].running = FALSE]
    /\ UNCHANGED <<plan, calls, sweep>>

Next ==
    \/ \E r \in Request, u \in User, t \in Token :
          RestoreBegin(r, u, t) \/ \E k \in Product : VerifyBegin(r, u, t, k)
    \/ \E r \in Request : Serve(r) \/ GiveUp(r)
    \/ Sweeping
    \/ WorkerCrash
    \/ \E t \in Token : TermEnds(t)

Spec == Init /\ [][Next]_billingVars

-----------------------------------------------------------------------------
(* "Never trusts client claims" (BillingService.cs:12): a paid plan is     *)
(* one the user bought, through a token of this account, whatever requests *)
(* and sweeps overlap.                                                     *)
PaidPlanBought ==
    \A u \in User :
        plan[u] # "free" =>
            \E t \in Token : purchases[t].user = u /\ purchases[t].product = plan[u]

(* A purchase never changes hands: two accounts that verify one token at   *)
(* the same time cannot both own it, one after the other.                  *)
TokenOneAccount ==
    [][\A t \in Token :
          purchases[t] # NoPurchase =>
              /\ purchases'[t].user = purchases[t].user
              /\ purchases'[t].product = purchases[t].product]_billingVars

(* The sweep sets to free only users without a remaining subscription: an  *)
(* active purchase of such a user was activated while the pass was running *)
(* (BillingExpiryHandler.cs:35-37).                                        *)
SweepSparesActive ==
    \A u \in sweep.drop : \A t \in Token :
        (purchases[t].user = u /\ purchases[t].state = "Active") => t \in sweep.fresh

(* BillingServiceTests.cs:315, Restore_RefundedActivePurchase_RevokesAnd-  *)
(* Downgrades: the refund of the only active purchase ends the paid plan.  *)
RefundDowngrades ==
    [][\A t \in Token :
          LET u == purchases[t].user IN
          (/\ purchases[t].state = "Active" /\ purchases'[t].state = "Revoked"
           /\ \A o \in Token \ {t} : purchases[o].user = u => purchases[o].state # "Active")
              => plan'[u] = "free"]_billingVars
=============================================================================
