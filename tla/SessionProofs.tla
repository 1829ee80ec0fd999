--------------------------- MODULE SessionProofs ----------------------------
(***************************************************************************)
(* What TLAPS proves of the sessions and the media caches of both clients, *)
(* for any number of accounts, requests, refreshes, tokens and mishaps.    *)
(***************************************************************************)
EXTENDS MediaCaches, FiniteSetTheorems, WellFoundedInduction, TLAPS

(* Tokens are issued one after the other; what the clients and the flights *)
(* hold was issued, and a refresh hands the session to its owner.          *)
Issued == 0..Len(server.owner)
Flying(f) == flights[f].step # "free"
TokensKnown ==
  /\ Len(server.owner) <= MaxTokens
  /\ mem.access \in Issued /\ mem.refresh \in Issued /\ kept.token \in Issued
  /\ mem.refresh = 0 => mem.access = 0
  /\ mem.refresh # 0 \/ client = "web" => kept.token = mem.refresh
  /\ \A f \in Flight : Flying(f) => flights[f].tok \in Issued \ {0}
  /\ \A f \in Flight : flights[f].step = "ok" =>
       flights[f].new \in Issued \ {0} /\ Owner(flights[f].new) = Owner(flights[f].tok)

(* The token in memory is presented by the flight refreshInFlight names or *)
(* by none, and what a flight brings back nobody has seen.                 *)
RotatedOnce ==
  /\ \A f \in Flight : f # current /\ Flying(f) => flights[f].tok # mem.refresh
  /\ \A f \in Flight : flights[f].step = "ok" =>
       /\ flights[f].new # mem.refresh
       /\ \A g \in Flight : Flying(g) => flights[g].tok # flights[f].new
       /\ \A g \in Flight : g # f /\ flights[g].step = "ok" => flights[g].new # flights[f].new
  /\ \A f, g \in Flight : f # g /\ Flying(f) /\ Flying(g) => flights[f].tok # flights[g].tok
Rotated == "refresh" \notin slips => RotatedOnce

(* The mobile store shows the user and the plan it persists, and has no    *)
(* token in memory before the session is resolved; the web knows no plans. *)
Mobile ==
  client = "mobile" =>
    /\ boot = 0 /\ ui.user = kept.user /\ ui.plan = kept.plan
    /\ kept.token = 0 => kept.user = Nil
    /\ ui.phase = "in" => ui.user # Nil
    /\ ui.phase = "restoring" => mem = NoTokens /\ \A f \in Flight : ~Flying(f)
Web ==
  client = "web" =>
    /\ ui.plan = Nil /\ kept.plan = Nil
    /\ ui.phase = "restoring" => ui.user = Nil
    /\ slips \cap {"refresh", "logout"} = {} /\ kept.token # 0 => kept.user # Nil

(* Whose the tokens, the plan, the metadata and the files are. *)
TokensOwned ==
  "refresh" \notin slips =>
    /\ \/ "logout" \in slips \/ ui.phase = "restoring"
       \/ \A t \in {mem.access, mem.refresh} \ {0} : Owner(t) = ui.user
    /\ kept.user # Nil /\ kept.token # 0 => Owner(kept.token) = kept.user
PlanOwned == slips \cap {"plan", "login", "store"} = {} => ui.plan \in {Nil, ui.user}
MetaOwned ==
  /\ client = "web" => meta = {}
  /\ slips \cap {"purge", "login", "store"} = {} /\ purges.files + purges.meta = 0
       => meta \subseteq {ui.user} \ {Nil}
FilesOwned ==
  /\ client = "mobile" /\ slips = {} /\ purges.files = 0 => \A e \in files : e.who \in {ui.user, Nil}
  /\ client = "web" /\ "load" \notin slips
       => \A e \in files : KindOf[e.file] = "crop" \/ e.ver = bytes[PhotoOf[e.file]]

(* A call carries a token that was issued and is for something; the web    *)
(* asks for no plan.                                                       *)
CallsKnown ==
  \A c \in Calls : /\ calls[c].tok \in Issued
                   /\ calls[c].step # "idle" => calls[c].what \in Files \cup Kinds
                   /\ client = "web" /\ calls[c].step # "idle" => calls[c].what # "plan"

(* The three things CacheBounded says.                                     *)
Held(fs, k, mode) == {e \in fs : /\ Limited(e.file, mode) /\ Shelf(e.file) = Shelf(k)
                                 /\ e.who # Nil}
ShelvesBounded == \A k \in Files : Limited(k, cache.mode) => Cardinality(Held(files, k, cache.mode)) <= Ceiling
SlotsBounded == Cardinality(Active) <= Cap
DownloadsDistinct ==
  \A c, d \in Calls : c # d /\ calls[c].step # "idle" /\ calls[d].step # "idle"
                      /\ IsFile(calls[c].what) => calls[c].what # calls[d].what
CallsInv == CallTypeOK /\ CallsKnown /\ SlotsBounded /\ DownloadsDistinct

CoreInv == /\ ClientTypeOK /\ ServerTypeOK /\ FlightTypeOK /\ TokensKnown
           /\ Rotated /\ Mobile /\ Web /\ TokensOwned /\ PlanOwned
SessionInv ==
  /\ CoreInv /\ LedgerTypeOK /\ CallsInv /\ CacheTypeOK
  /\ MetaOwned /\ FilesOwned /\ IsFiniteSet(files) /\ ShelvesBounded

(* The steps that leave the session alone, and those that do not. *)
Quiet == UNCHANGED <<client, mem, kept, ui, server, flights, current, boot>> /\ slips \subseteq slips'
CoreStep ==
  \/ \E k \in Form : Submitted(k)
  \/ \E f \in Flight : FlightServed(f) \/ FlightLost(f) \/ FlightAnswered(f)
  \/ \E c \in Calls : Accepted(c) \/ Unauthorized(c)
  \/ \E t \in DOMAIN server.owner : Expire(t)
  \/ SignOut \/ (\E t \in leaving : LogoutEnds(t))
  \/ Restart \/ Resolve \/ ResolveFails \/ Restore

-----------------------------------------------------------------------------
(* What a step does to the session.                                        *)

LEMMA CoreOrQuiet ==
  ASSUME [Next]_vars
  PROVE  Quiet \/ CoreStep
<1>1. CASE UNCHANGED vars
  BY <1>1 DEF vars, sessionVars, Quiet
<1>2. CASE SessionAnswer
  BY <1>2 DEF SessionAnswer, SessionReply, CoreStep
<1>3. CASE SessionAct
  <2>1. CASE \E k \in Form, who \in Accounts : Submit(k, who)
    BY <2>1 DEF Submit, Quiet
  <2>2. CASE \E c \in Calls, what \in Kinds : Call(c, what)
    BY <2>2 DEF Call, Quiet
  <2> QED BY <1>3, <2>1, <2>2 DEF SessionAct, CoreStep
<1>4. CASE (\E f \in Flight : FlightLost(f)) \/ ResolveFails
  BY <1>4 DEF CoreStep
<1>5. CASE CacheAnswer
  <2>1. CASE PurgeFiles \/ PurgeMeta
    BY <2>1 DEF PurgeFiles, PurgeMeta, Quiet
  <2>2. CASE \E c \in Calls : SlotGiven(c) \/ Downloaded(c)
    BY <2>2 DEF SlotGiven, Downloaded, Quiet
  <2>3. CASE \E c \in Calls : Stored(c)
    BY <2>3 DEF Stored, Slip, Quiet
  <2>4. CASE \E c \in Calls : Refused(c)
    BY <2>4 DEF Refused, CoreStep
  <2>5. CASE \E c \in Calls : Failed(c)
    BY <2>5 DEF Failed, CallFails, Quiet
  <2> QED BY <1>5, <2>1, <2>2, <2>3, <2>4, <2>5 DEF CacheAnswer, CacheReply
<1>6. CASE CacheAct
  <2>1. CASE \E c \in Calls, k \in Files, urge \in {"high", "low"} : Ensure(c, k, urge)
    BY <2>1 DEF Ensure, Quiet
  <2>2. CASE \E e \in files : Touched(e)
    BY <2>2 DEF Touched, Quiet
  <2>3. CASE \E p \in Photos : SetKeyPhoto(p)
    BY <2>3 DEF SetKeyPhoto, Slip, Quiet
  <2>4. CASE PrefetchPreviews \/ PrefetchOriginals
    BY <2>4 DEF PrefetchPreviews, PrefetchOriginals, NotCacheActs, Quiet
  <2>5. CASE \E mode \in Mode : ModeChanged(mode)
    BY <2>5 DEF ModeChanged, NotCacheActs, Quiet
  <2>6. CASE \E n \in 0..1 : CountChanged(n)
    BY <2>6 DEF CountChanged, NotCacheActs, Quiet
  <2>7. CASE Recorded
    BY <2>7 DEF Recorded, Quiet
  <2> QED BY <1>6, <2>1, <2>2, <2>3, <2>4, <2>5, <2>6, <2>7 DEF CacheAct
<1>7. CASE CacheRestart
  BY <1>7 DEF CacheRestart, CoreStep
<1> QED BY <1>1, <1>2, <1>3, <1>4, <1>5, <1>6, <1>7 DEF Next

LEMMA QuietKeeps ==
  ASSUME CoreInv, Quiet
  PROVE  CoreInv'
<1>1. ClientTypeOK' /\ ServerTypeOK' /\ FlightTypeOK'
  BY DEF CoreInv, Quiet, ClientTypeOK, ServerTypeOK, FlightTypeOK
<1>2. TokensKnown' /\ Rotated'
  BY DEF CoreInv, Quiet, TokensKnown, Rotated, RotatedOnce, Flying, Issued, Owner
<1>3. Mobile' /\ Web'
  BY DEF CoreInv, Quiet, Mobile, Web, Flying
<1>4. TokensOwned'
  BY DEF CoreInv, Quiet, TokensOwned, Owner
<1>5. PlanOwned'
  BY DEF CoreInv, Quiet, PlanOwned
<1> QED BY <1>1, <1>2, <1>3, <1>4, <1>5 DEF CoreInv

(* The server issues one more token: the earlier ones keep their owners.   *)
LEMMA Issues ==
  ASSUME ServerTypeOK, NEW who \in Accounts, NEW live, NEW fresh, NEW t, t = Len(server.owner) + 1,
         t <= MaxTokens, live \subseteq server.live \cup {t}, fresh \subseteq server.fresh \cup {t},
         server' = [owner |-> Append(server.owner, who), live |-> live, fresh |-> fresh]
  PROVE  /\ ServerTypeOK' /\ Len(server'.owner) = t /\ server'.owner[t] = who
         /\ t \in Token /\ Len(server.owner) \in Nat
         /\ \A i \in 1..Len(server.owner) : server'.owner[i] = server.owner[i]
<1>1. server.owner \in Seq(Accounts) /\ Len(server.owner) \in Nat
  BY DEF ServerTypeOK
<1>2. /\ server'.owner \in Seq(Accounts) /\ Len(server'.owner) = t /\ server'.owner[t] = who
      /\ \A i \in 1..Len(server.owner) : server'.owner[i] = server.owner[i]
  BY <1>1
<1>3. t \in Token /\ DOMAIN server'.owner = 1..t /\ DOMAIN server.owner = 1..Len(server.owner)
  BY <1>1, <1>2, SessionAssumption DEF Token
<1>4. live \subseteq 1..t /\ fresh \subseteq 1..t /\ 1..t \subseteq Token
  BY <1>1, <1>3, SessionAssumption DEF ServerTypeOK, Token
<1> QED BY <1>1, <1>2, <1>3, <1>4 DEF ServerTypeOK

(* Owners do not change and tokens stay issued.                            *)
LEMMA OwnersStay ==
  ASSUME CoreInv, Len(server'.owner) \in Nat, Len(server'.owner) >= Len(server.owner), Len(server'.owner) <= MaxTokens,
         \A i \in 1..Len(server.owner) : server'.owner[i] = server.owner[i],
         UNCHANGED flights
  PROVE  /\ Issued \subseteq Issued'
         /\ \A t \in Issued : (IF t = 0 THEN Nil ELSE server'.owner[t]) = Owner(t)
         /\ \A f \in Flight : Flying(f) => flights'[f].tok \in Issued' \ {0}
         /\ \A f \in Flight : flights'[f].step = "ok" =>
              /\ flights'[f].new \in Issued' \ {0}
              /\ server'.owner[flights'[f].new] = server'.owner[flights'[f].tok]
<1>1. Len(server.owner) \in Nat
  BY DEF CoreInv, ServerTypeOK
<1>2. /\ Issued \subseteq Issued'
      /\ \A t \in Issued : (IF t = 0 THEN Nil ELSE server'.owner[t]) = Owner(t)
  BY <1>1 DEF Issued, Owner
<1>3. \A f \in Flight : Flying(f) => flights'[f].tok \in Issued' \ {0}
  BY <1>2 DEF CoreInv, TokensKnown
<1>4. ASSUME NEW f \in Flight, flights'[f].step = "ok"
      PROVE  /\ flights'[f].new \in Issued' \ {0}
             /\ server'.owner[flights'[f].new] = server'.owner[flights'[f].tok]
  <2>1. /\ Flying(f) /\ flights[f].tok \in Issued \ {0} /\ flights[f].new \in Issued \ {0}
        /\ Owner(flights[f].new) = Owner(flights[f].tok)
    BY <1>4 DEF CoreInv, TokensKnown, Flying
  <2> QED BY <1>1, <1>2, <2>1 DEF Issued, Owner
<1> QED BY <1>2, <1>3, <1>4

(* login and register.                                                     *)
LEMMA SignInKeeps ==
  ASSUME CoreInv, LedgerTypeOK, NEW k \in Form, Submitted(k)
  PROVE  CoreInv'
<1>1. CASE UNCHANGED <<server, mem, kept, ui, slips>>
  BY <1>1, QuietKeeps DEF Submitted, Quiet
<1>2. ASSUME NEW t, t = Len(server.owner) + 1, t <= MaxTokens, NEW who, who = forms[k], who # Nil,
             server' = [owner |-> Append(server.owner, who),
                        live |-> server.live \cup {t}, fresh |-> server.fresh \cup {t}],
             SessionOf(t, who), Slip("login", ui.user \notin {Nil, who}),
             UNCHANGED <<client, flights, current, boot>>
      PROVE  CoreInv'
  <2>1. who \in Accounts
    BY <1>2 DEF LedgerTypeOK
  <2>2. /\ ServerTypeOK' /\ Len(server'.owner) = t /\ server'.owner[t] = who
        /\ t \in Token /\ Len(server.owner) \in Nat
        /\ \A i \in 1..Len(server.owner) : server'.owner[i] = server.owner[i]
    BY <1>2, <2>1, Issues DEF CoreInv
  <2>3. /\ mem' = [access |-> t, refresh |-> t]
        /\ kept' = [kept EXCEPT !.token = t, !.user = who]
        /\ ui' = [ui EXCEPT !.phase = "in", !.user = who]
    BY <1>2 DEF SessionOf
  <2>4. kept'.token = t /\ kept'.user = who /\ kept'.plan = kept.plan
    BY <2>3 DEF CoreInv, ClientTypeOK
  <2>5. ui'.phase = "in" /\ ui'.user = who /\ ui'.plan = ui.plan
    BY <2>3 DEF CoreInv, ClientTypeOK
  <2>6. ClientTypeOK'
    BY <1>2, <2>1, <2>2, <2>3 DEF CoreInv, ClientTypeOK
  <2>7. FlightTypeOK'
    BY <1>2 DEF CoreInv, FlightTypeOK
  <2>8. t \in Nat \ {0} /\ t \notin Issued /\ t \in Issued'
    BY <1>2, <2>2 DEF Issued
  <2>9. /\ Issued \subseteq Issued'
        /\ \A f \in Flight : Flying(f) => flights'[f].tok \in Issued' \ {0}
        /\ \A f \in Flight : flights'[f].step = "ok" =>
              /\ flights'[f].new \in Issued' \ {0}
              /\ server'.owner[flights'[f].new] = server'.owner[flights'[f].tok]
    <3>1. /\ Len(server'.owner) \in Nat /\ Len(server'.owner) >= Len(server.owner)
          /\ Len(server'.owner) <= MaxTokens
      BY <1>2, <2>2
    <3> QED BY <1>2, <2>2, <3>1, OwnersStay
  <2>10. TokensKnown'
    <3>1. \A f \in Flight : flights'[f].step = "ok" => Flying(f)
      BY <1>2 DEF Flying
    <3> QED BY <1>2, <2>2, <2>3, <2>4, <2>8, <2>9, <3>1 DEF TokensKnown, Flying, Owner
  <2>11. Rotated'
    BY <1>2, <2>3, <2>8 DEF CoreInv, TokensKnown, Rotated, RotatedOnce, Flying, Slip
  <2>12. Mobile' /\ Web'
    BY <1>2, <2>4, <2>5, <2>8 DEF CoreInv, Mobile, Web
  <2>13. TokensOwned'
    BY <1>2, <2>2, <2>3, <2>4, <2>5, <2>8 DEF CoreInv, TokensOwned, Owner
  <2>14. PlanOwned'
    BY <1>2, <2>5 DEF CoreInv, PlanOwned, Slip
  <2> QED BY <2>2, <2>6, <2>7, <2>10, <2>11, <2>12, <2>13, <2>14 DEF CoreInv
<1> QED BY <1>1, <1>2 DEF Submitted

(* The server answers a refresh, or the answer is lost on the way.         *)
LEMMA FlightMoves ==
  ASSUME CoreInv, NEW f \in Flight, NEW step \in {"ok", "rejected", "lost"}, NEW new \in Nat, Flying(f),
         flights' = [flights EXCEPT ![f] = [@ EXCEPT !.step = step, !.new = new]],
         UNCHANGED <<current, boot>>
  PROVE  /\ FlightTypeOK'
         /\ \A g \in Flight : flights'[g].tok = flights[g].tok /\ (Flying(g)' <=> Flying(g))
         /\ \A g \in Flight \ {f} : flights'[g] = flights[g]
         /\ flights'[f].step = step /\ flights'[f].new = new
<1>1. flights \in [Flight -> FlightRecord] /\ flights[f] \in FlightRecord
  BY DEF CoreInv, FlightTypeOK
<1> DEFINE q == [flights[f] EXCEPT !.step = step, !.new = new]
<1>2. q \in FlightRecord /\ q.step = step /\ q.new = new /\ q.tok = flights[f].tok
  BY <1>1 DEF FlightRecord
<1>3. flights' = [flights EXCEPT ![f] = q]
  OBVIOUS
<1> HIDE DEF q
<1>4. /\ flights' \in [Flight -> FlightRecord] /\ flights'[f] = q
      /\ \A g \in Flight \ {f} : flights'[g] = flights[g]
  BY <1>1, <1>2, <1>3
<1>5. \A g \in Flight : flights'[g].tok = flights[g].tok /\ (Flying(g)' <=> Flying(g))
  BY <1>2, <1>4 DEF Flying
<1>6. FlightTypeOK'
  BY <1>4, <1>5 DEF CoreInv, FlightTypeOK, Flying
<1> QED BY <1>2, <1>4, <1>5, <1>6

LEMMA FlightFails ==
  ASSUME CoreInv, NEW f \in Flight, NEW step \in {"rejected", "lost"}, Flying(f),
         flights' = [flights EXCEPT ![f] = [@ EXCEPT !.step = step]],
         UNCHANGED <<client, mem, kept, ui, server, current, boot, slips>>
  PROVE  CoreInv'
<1>1. flights[f] \in FlightRecord /\ flights[f].new \in Nat
  BY DEF CoreInv, FlightTypeOK, FlightRecord
<1>a. PICK new \in Nat : new = flights[f].new
  BY <1>1
<1>b. [flights[f] EXCEPT !.step = step] = [flights[f] EXCEPT !.step = step, !.new = new]
  BY <1>1, <1>a DEF FlightRecord
<1>2. flights' = [flights EXCEPT ![f] = [@ EXCEPT !.step = step, !.new = new]]
  BY <1>b
<1>3. /\ FlightTypeOK'
      /\ \A g \in Flight : flights'[g].tok = flights[g].tok /\ (Flying(g)' <=> Flying(g))
      /\ \A g \in Flight \ {f} : flights'[g] = flights[g]
      /\ flights'[f].step = step
  BY <1>2, FlightMoves
<1>4. ClientTypeOK' /\ ServerTypeOK'
  BY DEF CoreInv, ClientTypeOK, ServerTypeOK
<1>5. \A g \in Flight : flights'[g].step = "ok" => g # f /\ flights'[g] = flights[g]
  BY <1>3
<1>6. TokensKnown'
  BY <1>3, <1>5 DEF CoreInv, TokensKnown, Issued, Owner
<1>7. Rotated'
  BY <1>3, <1>5 DEF CoreInv, Rotated, RotatedOnce
<1>8. Mobile' /\ Web'
  BY <1>3 DEF CoreInv, Mobile, Web
<1>9. TokensOwned' /\ PlanOwned'
  BY DEF CoreInv, TokensOwned, PlanOwned, Owner
<1> QED BY <1>3, <1>4, <1>6, <1>7, <1>8, <1>9 DEF CoreInv

LEMMA FlightLostKeeps ==
  ASSUME CoreInv, NEW f \in Flight, FlightLost(f)
  PROVE  CoreInv'
BY FlightFails DEF FlightLost, Flying

LEMMA FlightServedKeeps ==
  ASSUME CoreInv, NEW f \in Flight, FlightServed(f)
  PROVE  CoreInv'
<1>0. UNCHANGED <<client, mem, kept, ui, current, boot, slips>> /\ Flying(f)
  BY DEF FlightServed, Flying
<1>1. CASE \E step \in {"rejected", "lost"} :
             flights' = [flights EXCEPT ![f] = [@ EXCEPT !.step = step]] /\ UNCHANGED server
  BY <1>0, <1>1, FlightFails
<1>2. ASSUME NEW t, t = Len(server.owner) + 1, NEW old, old = flights[f].tok,
             old \in server.live, t <= MaxTokens,
             server' = [owner |-> Append(server.owner, Owner(old)),
                        live |-> (server.live \ {old}) \cup {t}, fresh |-> server.fresh \cup {t}],
             flights' = [flights EXCEPT ![f] = [@ EXCEPT !.step = "ok", !.new = t]]
      PROVE  CoreInv'
  <2>1. old \in Issued \ {0} /\ Len(server.owner) \in Nat /\ server.owner \in Seq(Accounts)
    BY <1>0, <1>2 DEF CoreInv, TokensKnown, ServerTypeOK
  <2>2. PICK who \in Accounts : who = Owner(old)
    BY <2>1 DEF Owner, Issued
  <2>3. /\ ServerTypeOK' /\ Len(server'.owner) = t /\ server'.owner[t] = who
        /\ \A i \in 1..Len(server.owner) : server'.owner[i] = server.owner[i]
    <3>1. /\ (server.live \ {old}) \cup {t} \subseteq server.live \cup {t}
          /\ server' = [owner |-> Append(server.owner, who),
                        live |-> (server.live \ {old}) \cup {t}, fresh |-> server.fresh \cup {t}]
      BY <1>2, <2>2
    <3> QED BY <1>2, <3>1, Issues DEF CoreInv
  <2>4. t \in Nat \ {0} /\ t \notin Issued /\ t \in Issued' /\ Issued \subseteq Issued'
    BY <1>2, <2>1, <2>3 DEF Issued
  <2>5. \A x \in Issued : (IF x = 0 THEN Nil ELSE server'.owner[x]) = Owner(x)
    BY <2>1, <2>3 DEF Issued, Owner
  <2>6. /\ FlightTypeOK'
        /\ \A g \in Flight : flights'[g].tok = flights[g].tok /\ (Flying(g)' <=> Flying(g))
        /\ \A g \in Flight \ {f} : flights'[g] = flights[g]
        /\ flights'[f].step = "ok" /\ flights'[f].new = t
    BY <1>0, <1>2, <2>4, FlightMoves
  <2>7. ClientTypeOK'
    BY <1>0 DEF CoreInv, ClientTypeOK
  <2>8. TokensKnown'
    <3>1. \A g \in Flight : Flying(g)' => flights'[g].tok \in Issued' \ {0}
      BY <2>4, <2>6 DEF CoreInv, TokensKnown
    <3>2. ASSUME NEW g \in Flight, flights'[g].step = "ok"
          PROVE  /\ flights'[g].new \in Issued' \ {0}
                 /\ (IF flights'[g].new = 0 THEN Nil ELSE server'.owner[flights'[g].new])
                     = (IF flights'[g].tok = 0 THEN Nil ELSE server'.owner[flights'[g].tok])
      <4>1. CASE g = f
        <5>1. flights'[g].new = t /\ flights'[g].tok = old
          BY <1>2, <2>6, <4>1
        <5>2. old # 0 /\ t # 0 /\ server'.owner[t] = who /\ server'.owner[old] = who
          BY <2>1, <2>2, <2>3, <2>4, <2>5
        <5> QED BY <2>4, <5>1, <5>2
      <4>2. CASE g # f
        <5>1. /\ flights'[g] = flights[g] /\ Flying(g) /\ flights[g].tok \in Issued
              /\ flights[g].new \in Issued \ {0} /\ Owner(flights[g].new) = Owner(flights[g].tok)
          BY <2>6, <3>2, <4>2 DEF CoreInv, TokensKnown, Flying
        <5> QED BY <2>4, <2>5, <5>1
      <4> QED BY <4>1, <4>2
    <3>3. /\ Len(server'.owner) <= MaxTokens
          /\ mem'.access \in Issued' /\ mem'.refresh \in Issued' /\ kept'.token \in Issued'
      BY <1>0, <1>2, <2>3, <2>4 DEF CoreInv, TokensKnown
    <3> QED BY <1>0, <3>1, <3>2, <3>3 DEF CoreInv, TokensKnown, Owner
  <2>9. Rotated'
    <3> SUFFICES ASSUME "refresh" \notin slips
                 PROVE  RotatedOnce'
      BY <1>0 DEF Rotated
    <3>1. RotatedOnce
      BY DEF CoreInv, Rotated
    <3>2. \A g \in Flight : Flying(g) => flights[g].tok # t
      BY <2>4 DEF CoreInv, TokensKnown
    <3>3. \A g \in Flight : flights[g].step = "ok" => flights[g].new # t
      BY <2>4 DEF CoreInv, TokensKnown
    <3>4. mem.refresh # t
      BY <2>4 DEF CoreInv, TokensKnown
    <3> QED BY <1>0, <2>6, <3>1, <3>2, <3>3, <3>4 DEF RotatedOnce
  <2>10. Mobile' /\ Web'
    BY <1>0, <2>6 DEF CoreInv, Mobile, Web
  <2>11. TokensOwned'
    BY <1>0, <2>5 DEF CoreInv, TokensKnown, TokensOwned, Owner
  <2>12. PlanOwned'
    BY <1>0 DEF CoreInv, PlanOwned
  <2> QED BY <2>3, <2>6, <2>7, <2>8, <2>9, <2>10, <2>11, <2>12 DEF CoreInv
<1> QED BY <1>1, <1>2 DEF FlightServed

(* A flight that is over leaves the other flights as they are.             *)
LEMMA FlightOver ==
  ASSUME CoreInv, NEW f \in Flight, flights' = [flights EXCEPT ![f] = NoFlight],
         current' = 0, boot' = IF boot = f THEN 0 ELSE boot
  PROVE  /\ FlightTypeOK' /\ ~Flying(f)' /\ flights'[f].step # "ok"
         /\ \A g \in Flight \ {f} : flights'[g] = flights[g] /\ (Flying(g)' <=> Flying(g))
<1>1. flights \in [Flight -> FlightRecord] /\ boot \in Flight \cup {0} /\ 0 \notin Flight
  BY DEF CoreInv, FlightTypeOK, Flight
<1>2. NoFlight \in FlightRecord /\ NoFlight.step = "free"
  BY DEF NoFlight, FlightRecord
<1>3. /\ flights' \in [Flight -> FlightRecord] /\ flights'[f] = NoFlight
      /\ \A g \in Flight \ {f} : flights'[g] = flights[g]
  BY <1>1, <1>2
<1>4. ~Flying(f)' /\ \A g \in Flight \ {f} : Flying(g)' <=> Flying(g)
  BY <1>2, <1>3 DEF Flying
<1>5. FlightTypeOK'
  BY <1>1, <1>3 DEF CoreInv, FlightTypeOK
<1> QED BY <1>2, <1>3, <1>4, <1>5

(* clearSession with resetSession: nothing of the session is left.         *)
LEMMA SessionEndsKeeps ==
  ASSUME CoreInv, NEW n, SessionEnds(n), UNCHANGED <<client, server>>, FlightTypeOK',
         \A g \in Flight : Flying(g)' => Flying(g) /\ flights'[g] = flights[g],
         boot' \in {0, boot}, slips \subseteq slips'
  PROVE  CoreInv'
<1>1. /\ mem' = [access |-> 0, refresh |-> 0] /\ current' = 0
      /\ ui' = [phase |-> "out", user |-> Nil, plan |-> Nil]
  BY DEF SessionEnds, NoTokens, SignedOutUi
<1>2. kept' = [token |-> 0, user |-> Nil, plan |-> Nil]
  BY DEF SessionEnds, Cleared, CoreInv, ClientTypeOK
<1>3. ClientTypeOK' /\ ServerTypeOK'
  BY <1>1, <1>2, SessionAssumption DEF CoreInv, ClientTypeOK, ServerTypeOK, Token
<1>4. 0 \in Issued
  BY DEF CoreInv, ServerTypeOK, Issued
<1>5. \A g \in Flight : flights'[g].step = "ok" => Flying(g)' /\ flights[g].step = "ok"
  BY DEF Flying
<1>6. TokensKnown'
  BY <1>1, <1>2, <1>4, <1>5 DEF CoreInv, TokensKnown, Issued, Owner
<1>7. Rotated'
  <2> SUFFICES ASSUME "refresh" \notin slips'
               PROVE  RotatedOnce'
    BY DEF Rotated
  <2>1. RotatedOnce
    BY DEF CoreInv, Rotated
  <2> QED BY <1>1, <1>5, <2>1 DEF CoreInv, TokensKnown, RotatedOnce
<1>8. Mobile' /\ Web'
  BY <1>1, <1>2 DEF CoreInv, Mobile, Web
<1>9. TokensOwned' /\ PlanOwned'
  BY <1>1, <1>2 DEF TokensOwned, PlanOwned
<1> QED BY <1>3, <1>6, <1>7, <1>8, <1>9 DEF CoreInv

(* The answer to a refresh reaches the client.                             *)
LEMMA FlightAnsweredKeeps ==
  ASSUME CoreInv, NEW f \in Flight, FlightAnswered(f)
  PROVE  CoreInv'
<1> DEFINE late == (flights[f].step = "ok" /\ mem.refresh # flights[f].tok) \/ current \notin {0, f}
<1>1. /\ flights' = [flights EXCEPT ![f] = NoFlight] /\ boot' = (IF boot = f THEN 0 ELSE boot)
      /\ UNCHANGED <<client, server>> /\ Flying(f) /\ slips' = IF late THEN slips \cup {"refresh"} ELSE slips
  BY DEF FlightAnswered, Slip, Flying
<1>2. current' = 0
  BY DEF FlightAnswered, SessionEnds
<1>3. /\ FlightTypeOK' /\ ~Flying(f)' /\ flights'[f].step # "ok"
      /\ \A g \in Flight \ {f} : flights'[g] = flights[g] /\ (Flying(g)' <=> Flying(g))
  BY <1>1, <1>2, FlightOver
<1>4. /\ slips \subseteq slips'
      /\ "refresh" \notin slips' => ~late
      /\ \A kind : kind # "refresh" => (kind \in slips' <=> kind \in slips)
  BY <1>1
<1> HIDE DEF late
<1>5. \A g \in Flight : flights'[g].step = "ok" => g # f /\ flights'[g] = flights[g]
  BY <1>3
<1>6. ServerTypeOK' /\ Issued' = Issued /\ \A t : Owner(t)' = Owner(t)
  BY <1>1 DEF CoreInv, ServerTypeOK, Issued, Owner
<1>7. CASE \E n : SessionEnds(n)
  BY <1>1, <1>3, <1>4, <1>7, SessionEndsKeeps
<1>8. CASE boot # f /\ UNCHANGED <<mem, kept, ui>>
  <2>1. ClientTypeOK'
    BY <1>1, <1>8 DEF CoreInv, ClientTypeOK
  <2>2. TokensKnown'
    BY <1>1, <1>3, <1>5, <1>6, <1>8 DEF CoreInv, TokensKnown
  <2>3. Rotated'
    <3> SUFFICES ASSUME "refresh" \notin slips'
                 PROVE  RotatedOnce'
      BY DEF Rotated
    <3>1. RotatedOnce /\ current \in {0, f}
      BY <1>4 DEF CoreInv, Rotated, late
    <3> QED BY <1>2, <1>3, <1>5, <1>8, <3>1 DEF RotatedOnce, Flight
  <2>4. Mobile' /\ Web'
    BY <1>1, <1>3, <1>4, <1>8 DEF CoreInv, Mobile, Web
  <2>5. TokensOwned' /\ PlanOwned'
    BY <1>1, <1>4, <1>8 DEF CoreInv, TokensOwned, PlanOwned, Owner
  <2> QED BY <1>3, <1>6, <2>1, <2>2, <2>3, <2>4, <2>5 DEF CoreInv
<1>9. ASSUME NEW new, new = flights[f].new, flights[f].step = "ok",
             mem' = [access |-> new, refresh |-> new], kept' = [kept EXCEPT !.token = new],
             ui' = IF boot = f THEN [ui EXCEPT !.phase = "in", !.user = IF @ = Nil THEN kept.user ELSE @]
                   ELSE ui
      PROVE  CoreInv'
  <2>1. new \in Issued \ {0} /\ Owner(new) = Owner(flights[f].tok) /\ flights[f].tok \in Issued \ {0}
    BY <1>1, <1>9 DEF CoreInv, TokensKnown
  <2>2. kept'.token = new /\ kept'.user = kept.user /\ kept'.plan = kept.plan
    BY <1>9 DEF CoreInv, ClientTypeOK
  <2>3. /\ boot = f => ui'.phase = "in" /\ ui'.user = (IF ui.user = Nil THEN kept.user ELSE ui.user)
        /\ ui'.plan = ui.plan /\ (boot # f => ui' = ui)
    BY <1>9 DEF CoreInv, ClientTypeOK
  <2>4. Len(server.owner) \in Nat /\ Issued \subseteq Token
    BY SessionAssumption DEF CoreInv, ServerTypeOK, TokensKnown, Issued, Token
  <2>5. ClientTypeOK'
    <3>1. client' \in {"mobile", "web"} /\ mem' \in [access: Token, refresh: Token]
      BY <1>1, <1>9, <2>1, <2>4 DEF CoreInv, ClientTypeOK
    <3>2. kept' \in [token: Token, user: Accounts \cup {Nil}, plan: Accounts \cup {Nil}]
      BY <1>9, <2>1, <2>4 DEF CoreInv, ClientTypeOK
    <3>3. ui' \in [phase: {"restoring", "in", "out"}, user: Accounts \cup {Nil}, plan: Accounts \cup {Nil}]
      BY <1>9 DEF CoreInv, ClientTypeOK
    <3> QED BY <3>1, <3>2, <3>3 DEF ClientTypeOK
  <2>6. TokensKnown'
    <3>1. \A g \in Flight : Flying(g)' => flights'[g].tok \in Issued' \ {0}
      BY <1>3, <1>6 DEF CoreInv, TokensKnown
    <3>2. \A g \in Flight : flights'[g].step = "ok" =>
            /\ flights'[g].new \in Issued' \ {0}
            /\ (Owner(flights[g].new) = Owner(flights[g].tok))'
      BY <1>1, <1>5, <1>6 DEF CoreInv, TokensKnown, Owner
    <3>3. /\ Len(server'.owner) <= MaxTokens
          /\ mem'.access \in Issued' /\ mem'.refresh \in Issued' /\ kept'.token \in Issued'
          /\ mem'.refresh # 0 /\ kept'.token = mem'.refresh
      BY <1>1, <1>6, <1>9, <2>1, <2>2 DEF CoreInv, TokensKnown
    <3> QED BY <3>1, <3>2, <3>3 DEF TokensKnown
  <2>7. Rotated'
    <3> SUFFICES ASSUME "refresh" \notin slips'
                 PROVE  RotatedOnce'
      BY DEF Rotated
    <3>1. RotatedOnce /\ current \in {0, f} /\ mem.refresh = flights[f].tok
      BY <1>4, <1>9 DEF CoreInv, Rotated, late
    <3> QED BY <1>2, <1>3, <1>5, <1>9, <3>1 DEF RotatedOnce
  <2>8. f # 0 /\ (client = "mobile" => ui.phase # "restoring" /\ boot # f)
    BY <1>1 DEF CoreInv, Mobile, Flight
  <2>9. Mobile'
    BY <1>1, <2>1, <2>2, <2>3, <2>8 DEF CoreInv, Mobile
  <2>10. "refresh" \notin slips' => /\ mem.refresh = flights[f].tok /\ kept.token = mem.refresh
                                    /\ mem.refresh # 0
    BY <1>4, <1>9, <2>1 DEF CoreInv, TokensKnown, late
  <2>11. Web'
    BY <1>1, <1>4, <2>1, <2>2, <2>3, <2>10 DEF CoreInv, Web
  <2>12. TokensOwned'
    <3> SUFFICES ASSUME "refresh" \notin slips'
                 PROVE  /\ \/ "logout" \in slips' \/ ui'.phase = "restoring"
                           \/ Owner(new) = ui'.user
                        /\ kept'.user # Nil => Owner(new) = kept'.user
      BY <1>6, <1>9, <2>2 DEF TokensOwned
    <3>1. /\ "refresh" \notin slips /\ mem.refresh = kept.token /\ mem.refresh # 0
          /\ Owner(new) = Owner(mem.refresh)
      BY <1>4, <2>1, <2>10
    <3>2. kept.user # Nil => Owner(new) = kept.user
      BY <3>1 DEF CoreInv, TokensOwned
    <3>3. \/ "logout" \in slips \/ ui.phase = "restoring" \/ Owner(new) = ui.user
      BY <3>1 DEF CoreInv, TokensOwned
    <3>4. Owner(new) # Nil
      BY <2>1, SessionAssumption DEF CoreInv, ServerTypeOK, Issued, Owner
    <3>5. ASSUME boot = f, "logout" \notin slips, ui.phase = "restoring"
          PROVE  Owner(new) = ui'.user
      <4>1. client = "web" /\ ui.user = Nil /\ kept.user # Nil
        BY <2>8, <3>1, <3>5 DEF CoreInv, ClientTypeOK, Web
      <4> QED BY <2>3, <3>2, <3>5, <4>1
    <3> QED BY <1>4, <2>2, <2>3, <3>2, <3>3, <3>4, <3>5
  <2>13. PlanOwned'
    BY <1>4, <2>3, <2>8 DEF CoreInv, ClientTypeOK, Web, PlanOwned
  <2> QED BY <1>3, <1>6, <2>5, <2>6, <2>7, <2>9, <2>11, <2>12, <2>13 DEF CoreInv
<1> QED BY <1>7, <1>8, <1>9 DEF FlightAnswered

(* A request is answered; refreshPlan shows the plan of its token's owner. *)
LEMMA AcceptedKeeps ==
  ASSUME CoreInv, CallsKnown, NEW c \in Calls, Accepted(c)
  PROVE  CoreInv'
<1>1. CASE calls[c].what # "plan"
  BY <1>1, QuietKeeps DEF Accepted, PlanShown, Quiet
<1>2. CASE calls[c].what = "plan"
  <2> DEFINE who == Owner(calls[c].tok)
  <2>1. PICK plan \in {who, Nil} :
          /\ ui' = [ui EXCEPT !.plan = plan] /\ kept' = [kept EXCEPT !.plan = plan]
          /\ Slip("plan", who # ui.user)
    BY <1>2 DEF Accepted, PlanShown
  <2>2. UNCHANGED <<client, mem, server, flights, current, boot>>
    BY DEF Accepted
  <2>3. client = "mobile" /\ plan \in Accounts \cup {Nil}
    BY <1>2, <2>1 DEF Accepted, CoreInv, ClientTypeOK, ServerTypeOK, CallsKnown, Owner
  <2>4. /\ ui'.phase = ui.phase /\ ui'.user = ui.user /\ ui'.plan = plan
        /\ kept'.token = kept.token /\ kept'.user = kept.user /\ kept'.plan = plan
    BY <2>1 DEF CoreInv, ClientTypeOK
  <2>5. ClientTypeOK' /\ ServerTypeOK' /\ FlightTypeOK'
    BY <2>1, <2>2, <2>3 DEF CoreInv, ClientTypeOK, ServerTypeOK, FlightTypeOK
  <2>6. /\ slips \subseteq slips'
        /\ "refresh" \in slips' <=> "refresh" \in slips
        /\ "plan" \notin slips' => who = ui.user
    BY <2>1 DEF Slip
  <2>7. TokensKnown' /\ Rotated'
    BY <2>2, <2>4, <2>6 DEF CoreInv, TokensKnown, Rotated, RotatedOnce, Flying, Issued, Owner
  <2>8. Mobile' /\ Web'
    BY <2>2, <2>3, <2>4 DEF CoreInv, Mobile, Web, Flying
  <2>9. TokensOwned' /\ PlanOwned'
    BY <2>1, <2>2, <2>4, <2>6 DEF CoreInv, TokensOwned, PlanOwned, Owner
  <2> QED BY <2>5, <2>7, <2>8, <2>9 DEF CoreInv
<1> QED BY <1>1, <1>2

(* A request, or a restore, joins the refresh under way or starts one.     *)
LEMMA JoinKeeps ==
  ASSUME CoreInv, NEW j \in Join, mem.refresh # 0, current' = j[1], flights' = j[2],
         boot' \in {boot, j[1]}, client = "mobile" => boot' = boot,
         UNCHANGED <<client, mem, kept, ui, server, slips>>
  PROVE  CoreInv' /\ j[1] # 0 /\ \A g \in Flight : Flying(g) => Flying(g)'
<1>1. CASE current # 0
  <2>1. UNCHANGED <<current, flights>> /\ boot' \in {boot, current}
    BY <1>1 DEF Join
  <2>2. ClientTypeOK' /\ ServerTypeOK' /\ FlightTypeOK'
    BY <1>1, <2>1 DEF CoreInv, ClientTypeOK, ServerTypeOK, FlightTypeOK
  <2>3. TokensKnown' /\ Rotated' /\ Mobile' /\ Web'
    BY <2>1 DEF CoreInv, TokensKnown, Rotated, RotatedOnce, Flying, Issued, Owner, Mobile, Web
  <2>4. TokensOwned' /\ PlanOwned'
    BY DEF CoreInv, TokensOwned, PlanOwned, Owner
  <2> QED BY <1>1, <2>1, <2>2, <2>3, <2>4 DEF CoreInv, Flying
<1>2. CASE current = 0
  <2> DEFINE q == [step |-> "sent", tok |-> mem.refresh, new |-> 0]
  <2>1. PICK f \in Flight : FreeFlight(f) /\ current' = f /\ flights' = [flights EXCEPT ![f] = q]
    BY <1>2 DEF Join
  <2>2. q \in FlightRecord /\ q.step = "sent" /\ q.tok = mem.refresh /\ mem.refresh \in Issued \ {0}
    BY DEF CoreInv, ClientTypeOK, TokensKnown, Token, FlightRecord
  <2> HIDE DEF q
  <2>3. /\ flights' \in [Flight -> FlightRecord] /\ flights'[f] = q
        /\ \A g \in Flight \ {f} : flights'[g] = flights[g]
    BY <2>1, <2>2 DEF CoreInv, FlightTypeOK
  <2>4. ~Flying(f) /\ Flying(f)' /\ \A g \in Flight \ {f} : Flying(g)' <=> Flying(g)
    BY <2>1, <2>2, <2>3 DEF FreeFlight, Flying
  <2>5. boot' \in {boot, f} /\ f # 0
    BY <1>2, <2>1 DEF Join, Flight
  <2>6. FlightTypeOK'
    BY <2>1, <2>2, <2>3, <2>4, <2>5 DEF CoreInv, FlightTypeOK, Flying
  <2>7. ClientTypeOK' /\ ServerTypeOK'
    BY DEF CoreInv, ClientTypeOK, ServerTypeOK
  <2>8. \A g \in Flight : flights'[g].step = "ok" => g # f /\ flights'[g] = flights[g]
    BY <2>2, <2>3
  <2>9. TokensKnown'
    BY <2>2, <2>3, <2>4, <2>8 DEF CoreInv, TokensKnown, Issued, Owner
  <2>10. Rotated'
    <3> SUFFICES ASSUME "refresh" \notin slips
                 PROVE  RotatedOnce'
      BY DEF Rotated
    <3>1. RotatedOnce
      BY DEF CoreInv, Rotated
    <3>2. \A g \in Flight : Flying(g) => flights[g].tok # mem.refresh
      BY <1>2, <3>1 DEF RotatedOnce, Flight
    <3> QED BY <2>1, <2>2, <2>3, <2>4, <2>8, <3>1, <3>2 DEF RotatedOnce
  <2>11. Mobile' /\ Web'
    BY DEF CoreInv, Mobile, Web, NoTokens
  <2>12. TokensOwned' /\ PlanOwned'
    BY DEF CoreInv, TokensOwned, PlanOwned, Owner
  <2> QED BY <2>1, <2>4, <2>5, <2>6, <2>7, <2>9, <2>10, <2>11, <2>12 DEF CoreInv
<1> QED BY <1>1, <1>2

(* A request is refused.                                                   *)
LEMMA UnauthorizedKeeps ==
  ASSUME CoreInv, NEW c \in Calls, Unauthorized(c)
  PROVE  CoreInv'
<1>0. UNCHANGED <<client, server, boot, slips>>
  BY DEF Unauthorized
<1>1. CASE \E j \in Join : /\ mem.refresh # 0 /\ current' = j[1] /\ flights' = j[2]
                           /\ UNCHANGED <<mem, kept, ui>>
  BY <1>0, <1>1, JoinKeeps
<1>2. CASE UNCHANGED <<mem, kept, ui, current, flights>>
  BY <1>0, <1>2, QuietKeeps DEF Quiet
<1>3. CASE SessionEnds(1) /\ UNCHANGED flights
  <2>1. FlightTypeOK'
    BY <1>0, <1>3 DEF SessionEnds, CoreInv, FlightTypeOK
  <2> QED BY <1>0, <1>3, <2>1, SessionEndsKeeps DEF Flying
<1> QED BY <1>1, <1>2, <1>3 DEF Unauthorized

(* A token expires, or is revoked: nobody's copy of it changes.            *)
LEMMA ServerForgets ==
  ASSUME CoreInv, ServerTypeOK', server'.owner = server.owner,
         UNCHANGED <<client, mem, flights, current, boot>>, slips \subseteq slips',
         "refresh" \in slips' => "refresh" \in slips
  PROVE  /\ FlightTypeOK' /\ Rotated' /\ (UNCHANGED kept => TokensKnown')
         /\ (UNCHANGED <<kept, ui>> => CoreInv')
<1>1. FlightTypeOK' /\ Rotated'
  BY DEF CoreInv, FlightTypeOK, Rotated, RotatedOnce, Flying
<1>2. UNCHANGED kept => TokensKnown'
  BY DEF CoreInv, TokensKnown, Flying, Issued, Owner
<1>3. UNCHANGED <<kept, ui>> => ClientTypeOK' /\ Mobile' /\ Web'
  BY DEF CoreInv, ClientTypeOK, Mobile, Web, Flying
<1>4. UNCHANGED <<kept, ui>> => TokensOwned' /\ PlanOwned'
  BY DEF CoreInv, TokensOwned, PlanOwned, Owner
<1> QED BY <1>1, <1>2, <1>3, <1>4 DEF CoreInv

LEMMA ExpireKeeps ==
  ASSUME CoreInv, NEW t, Expire(t)
  PROVE  CoreInv'
<1>1. server' = [server EXCEPT !.fresh = @ \ {t}]
  BY DEF Expire
<1>2. ServerTypeOK' /\ server'.owner = server.owner
  BY <1>1 DEF CoreInv, ServerTypeOK
<1> QED BY <1>2, ServerForgets DEF Expire

(* The user signs out.                                                     *)
LEMMA SignOutKeeps ==
  ASSUME CoreInv, SignOut
  PROVE  CoreInv'
<1>1. /\ UNCHANGED <<client, server, flights, boot, slips>> /\ current' = 0
      /\ mem' = [access |-> 0, refresh |-> 0]
  BY DEF SignOut, NoTokens
<1>2. /\ kept' \in [token: Token, user: Accounts \cup {Nil}, plan: Accounts \cup {Nil}]
      /\ kept'.token = 0 /\ kept'.plan \in {kept.plan, Nil}
  <2>1. 0 \in Token /\ kept \in [token: Token, user: Accounts \cup {Nil}, plan: Accounts \cup {Nil}]
    BY SessionAssumption DEF CoreInv, ClientTypeOK, Token
  <2>2. CASE kept' = [kept EXCEPT !.token = 0]
    BY <2>1, <2>2
  <2>3. CASE kept' = [kept EXCEPT !.token = 0, !.user = Nil, !.plan = Nil]
    BY <2>1, <2>3
  <2> QED BY <2>2, <2>3 DEF SignOut, Cleared
<1>3. \/ ui' = [phase |-> "out", user |-> Nil, plan |-> Nil] /\ kept'.user = Nil /\ kept'.plan = Nil
      \/ ui' = ui /\ client = "web"
  BY DEF SignOut, Cleared, SignedOutUi, CoreInv, ClientTypeOK
<1>4. ClientTypeOK'
  BY <1>1, <1>2, <1>3, SessionAssumption DEF CoreInv, ClientTypeOK, Token
<1>5. ServerTypeOK' /\ FlightTypeOK'
  BY <1>1 DEF CoreInv, ServerTypeOK, FlightTypeOK
<1>6. 0 \in Issued
  BY DEF CoreInv, ServerTypeOK, Issued
<1>7. TokensKnown'
  BY <1>1, <1>2, <1>6 DEF CoreInv, TokensKnown, Flying, Issued, Owner
<1>8. Rotated'
  BY <1>1 DEF CoreInv, TokensKnown, Rotated, RotatedOnce, Flying
<1>9. Mobile' /\ Web'
  BY <1>1, <1>2, <1>3 DEF CoreInv, Mobile, Web, NoTokens, Flying
<1>10. TokensOwned' /\ PlanOwned'
  BY <1>1, <1>2, <1>3 DEF CoreInv, TokensOwned, PlanOwned
<1> QED BY <1>4, <1>5, <1>7, <1>8, <1>9, <1>10 DEF CoreInv

(* The revocation ends; the web signs out then.                            *)
LEMMA LogoutEndsKeeps ==
  ASSUME CoreInv, NEW t, LogoutEnds(t)
  PROVE  CoreInv'
<1>1. /\ UNCHANGED <<client, mem, flights, current, boot>>
      /\ slips' = IF client = "web" /\ mem.refresh # 0 THEN slips \cup {"logout"} ELSE slips
  BY DEF LogoutEnds, Slip
<1>2. ServerTypeOK' /\ server'.owner = server.owner
  BY DEF LogoutEnds, CoreInv, ServerTypeOK
<1>3. CASE client # "web"
  BY <1>1, <1>2, <1>3, ServerForgets DEF LogoutEnds
<1>4. CASE client = "web"
  <2>1. /\ ui' = [phase |-> "out", user |-> Nil, plan |-> Nil]
        /\ kept' = [kept EXCEPT !.user = Nil]
    BY <1>4 DEF LogoutEnds, SignedOutUi
  <2>2. kept'.token = kept.token /\ kept'.user = Nil /\ kept'.plan = kept.plan
    BY <2>1 DEF CoreInv, ClientTypeOK
  <2>3. FlightTypeOK' /\ Rotated'
    BY <1>1, <1>2, ServerForgets
  <2>4. ClientTypeOK'
    BY <1>1, <2>1 DEF CoreInv, ClientTypeOK
  <2>5. TokensKnown'
    BY <1>1, <1>2, <2>2 DEF CoreInv, TokensKnown, Flying, Issued, Owner
  <2>6. Mobile' /\ Web'
    BY <1>1, <1>4, <2>1, <2>2 DEF CoreInv, TokensKnown, Mobile, Web
  <2>7. TokensOwned' /\ PlanOwned'
    BY <1>1, <1>4, <2>1, <2>2 DEF CoreInv, TokensKnown, TokensOwned, PlanOwned
  <2> QED BY <1>2, <2>3, <2>4, <2>5, <2>6, <2>7 DEF CoreInv
<1> QED BY <1>3, <1>4

(* A restart, and how the session is resolved after it.                    *)
LEMMA RestartKeeps ==
  ASSUME CoreInv, Restart
  PROVE  CoreInv'
<1>1. /\ mem' = [access |-> 0, refresh |-> IF client = "web" THEN kept.token ELSE 0]
      /\ flights' = [f \in Flight |-> NoFlight] /\ current' = 0 /\ boot' = 0
      /\ ui' = [phase |-> "restoring", user |-> IF client = "mobile" THEN kept.user ELSE Nil,
                plan |-> kept.plan]
      /\ UNCHANGED <<client, kept, server>>
  BY DEF Restart
<1>2. /\ slips \subseteq slips'
      /\ "refresh" \in slips' => "refresh" \in slips
  BY DEF Restart, Slip
<1>3. NoFlight \in FlightRecord /\ NoFlight.step = "free"
  BY DEF NoFlight, FlightRecord
<1>4. flights' \in [Flight -> FlightRecord] /\ \A f \in Flight : flights'[f].step = "free"
  BY <1>1, <1>3
<1>5. ServerTypeOK' /\ FlightTypeOK'
  BY <1>1, <1>4 DEF CoreInv, ServerTypeOK, FlightTypeOK
<1>6. ClientTypeOK'
  BY <1>1, SessionAssumption DEF CoreInv, ClientTypeOK, Token
<1>7. 0 \in Issued
  BY DEF CoreInv, ServerTypeOK, Issued
<1>8. TokensKnown' /\ Rotated'
  BY <1>1, <1>4, <1>7 DEF CoreInv, ClientTypeOK, TokensKnown, Rotated, RotatedOnce, Flying, Issued
<1>9. Mobile' /\ Web'
  BY <1>1, <1>2, <1>4 DEF CoreInv, Mobile, Web, NoTokens, Flying
<1>10. TokensOwned' /\ PlanOwned'
  BY <1>1, <1>2 DEF CoreInv, ClientTypeOK, TokensOwned, PlanOwned, Mobile, Web, Owner
<1> QED BY <1>5, <1>6, <1>8, <1>9, <1>10 DEF CoreInv

LEMMA ResolveKeeps ==
  ASSUME CoreInv, Resolve \/ ResolveFails
  PROVE  CoreInv'
<1>1. /\ client = "mobile" /\ ui.phase = "restoring" /\ mem = NoTokens
      /\ \A f \in Flight : ~Flying(f)
  BY DEF CoreInv, Mobile, Resolve, ResolveFails
<1>2. UNCHANGED <<client, server, flights, current, boot>> /\ slips \subseteq slips'
  BY DEF Resolve, ResolveFails, Slip
<1>3. \A f \in Flight : ~Flying(f)' /\ flights'[f].step = "free"
  BY <1>1, <1>2 DEF Flying
<1>4. ServerTypeOK' /\ FlightTypeOK' /\ Rotated'
  BY <1>2, <1>3 DEF CoreInv, ServerTypeOK, FlightTypeOK, Rotated, RotatedOnce
<1>5. 0 \in Issued
  BY DEF CoreInv, ServerTypeOK, Issued
<1>6. CASE /\ kept.token # 0 /\ kept.user # Nil /\ UNCHANGED kept
           /\ mem' = [mem EXCEPT !.refresh = kept.token]
           /\ ui' = [ui EXCEPT !.phase = "in", !.user = kept.user]
  <2>1. mem' = [access |-> 0, refresh |-> kept.token]
    BY <1>1, <1>6 DEF NoTokens
  <2>2. ui'.phase = "in" /\ ui'.user = kept.user /\ ui'.plan = ui.plan
    BY <1>6 DEF CoreInv, ClientTypeOK
  <2>3. ClientTypeOK'
    BY <1>2, <1>6, <2>1, SessionAssumption DEF CoreInv, ClientTypeOK, Token
  <2>4. TokensKnown'
    BY <1>2, <1>3, <1>5, <1>6, <2>1 DEF CoreInv, TokensKnown, Issued
  <2>5. Mobile' /\ Web'
    BY <1>1, <1>2, <1>6, <2>2 DEF CoreInv, Mobile, Web
  <2>6. TokensOwned'
    BY <1>2, <1>6, <2>1, <2>2 DEF CoreInv, TokensOwned, Owner
  <2>7. PlanOwned'
    BY <1>1, <1>2, <2>2 DEF CoreInv, Mobile, PlanOwned
  <2> QED BY <1>4, <2>3, <2>4, <2>5, <2>6, <2>7 DEF CoreInv
<1>7. CASE /\ mem' = NoTokens /\ ui' = [ui EXCEPT !.phase = "out", !.user = Nil]
           /\ \/ /\ kept' = [kept EXCEPT !.token = 0, !.user = Nil]
                 /\ kept.token = 0 \/ kept.user = Nil
              \/ kept' = [kept EXCEPT !.user = Nil] /\ "store" \in slips'
  <2>1. mem'.access = 0 /\ mem'.refresh = 0
    BY <1>7 DEF NoTokens
  <2>2. ui'.phase = "out" /\ ui'.user = Nil /\ ui'.plan = ui.plan
    BY <1>7 DEF CoreInv, ClientTypeOK
  <2>3. kept'.token \in {0, kept.token} /\ kept'.user = Nil /\ kept'.plan = kept.plan
    BY <1>7 DEF CoreInv, ClientTypeOK
  <2>4. ClientTypeOK'
    <3>1. 0 \in Token /\ kept \in [token: Token, user: Accounts \cup {Nil}, plan: Accounts \cup {Nil}]
      BY SessionAssumption DEF CoreInv, ClientTypeOK, Token
    <3>2. kept' \in [token: Token, user: Accounts \cup {Nil}, plan: Accounts \cup {Nil}]
      BY <1>7, <3>1
    <3>3. mem' \in [access: Token, refresh: Token]
      BY <1>7, <3>1 DEF NoTokens
    <3>4. ui' \in [phase: {"restoring", "in", "out"}, user: Accounts \cup {Nil}, plan: Accounts \cup {Nil}]
      BY <1>7 DEF CoreInv, ClientTypeOK
    <3> QED BY <1>2, <3>2, <3>3, <3>4 DEF CoreInv, ClientTypeOK
  <2>5. TokensKnown'
    BY <1>1, <1>2, <1>3, <1>5, <2>1, <2>3 DEF CoreInv, TokensKnown, Issued
  <2>6. Mobile' /\ Web'
    BY <1>1, <1>2, <2>2, <2>3 DEF CoreInv, Mobile, Web
  <2>7. TokensOwned'
    BY <2>1, <2>3 DEF TokensOwned
  <2>8. PlanOwned'
    BY <1>1, <1>2, <1>7, <2>2 DEF CoreInv, Mobile, PlanOwned
  <2> QED BY <1>4, <2>4, <2>5, <2>6, <2>7, <2>8 DEF CoreInv
<1>8. CASE Resolve
  BY <1>6, <1>7, <1>8 DEF Resolve
<1>9. CASE ResolveFails
  BY <1>1, <1>7, <1>9 DEF ResolveFails, Slip
<1> QED BY <1>8, <1>9

LEMMA RestoreKeeps ==
  ASSUME CoreInv, Restore
  PROVE  CoreInv'
<1>0. client = "web" /\ ui.phase = "restoring" /\ UNCHANGED <<client, mem, server, slips>>
  BY DEF Restore
<1>1. CASE /\ mem.refresh = 0 /\ UNCHANGED <<flights, current, boot>>
           /\ ui' = SignedOutUi /\ kept' = [kept EXCEPT !.user = Nil]
  <2>1. kept'.token = kept.token /\ kept'.user = Nil /\ kept'.plan = kept.plan /\ kept.token = 0
    BY <1>0, <1>1 DEF CoreInv, ClientTypeOK, TokensKnown
  <2>2. ClientTypeOK' /\ ServerTypeOK' /\ FlightTypeOK'
    BY <1>0, <1>1 DEF CoreInv, ClientTypeOK, ServerTypeOK, FlightTypeOK, SignedOutUi
  <2>3. TokensKnown' /\ Rotated'
    BY <1>0, <1>1, <2>1 DEF CoreInv, TokensKnown, Rotated, RotatedOnce, Flying, Issued, Owner
  <2>4. Mobile' /\ Web'
    BY <1>0, <1>1, <2>1 DEF CoreInv, Mobile, Web, SignedOutUi
  <2>5. TokensOwned' /\ PlanOwned'
    BY <1>0, <1>1, <2>1 DEF CoreInv, TokensKnown, TokensOwned, PlanOwned, SignedOutUi
  <2> QED BY <2>2, <2>3, <2>4, <2>5 DEF CoreInv
<1>2. CASE \E j \in Join : /\ mem.refresh # 0 /\ current' = j[1] /\ flights' = j[2] /\ boot' = j[1]
                           /\ UNCHANGED <<ui, kept>>
  BY <1>0, <1>2, JoinKeeps
<1> QED BY <1>1, <1>2 DEF Restore

(* Every step keeps what is said of the session.                           *)
LEMMA CoreKeeps ==
  ASSUME CoreInv, LedgerTypeOK, CallsKnown, [Next]_vars
  PROVE  CoreInv'
<1>1. CASE Quiet
  BY <1>1, QuietKeeps
<1>2. CASE \E k \in Form : Submitted(k)
  BY <1>2, SignInKeeps
<1>3. CASE \E f \in Flight : FlightServed(f) \/ FlightLost(f) \/ FlightAnswered(f)
  BY <1>3, FlightServedKeeps, FlightLostKeeps, FlightAnsweredKeeps
<1>4. CASE \E c \in Calls : Accepted(c) \/ Unauthorized(c)
  BY <1>4, AcceptedKeeps, UnauthorizedKeeps
<1>5. CASE \/ \E t \in DOMAIN server.owner : Expire(t)
           \/ SignOut \/ \E t \in leaving : LogoutEnds(t)
  BY <1>5, ExpireKeeps, SignOutKeeps, LogoutEndsKeeps
<1>6. CASE Restart \/ Resolve \/ ResolveFails \/ Restore
  BY <1>6, RestartKeeps, ResolveKeeps, RestoreKeeps
<1> QED BY CoreOrQuiet, <1>1, <1>2, <1>3, <1>4, <1>5, <1>6 DEF CoreStep

-----------------------------------------------------------------------------
(* Sizes.                                                                  *)

(* What a function makes of a finite set is no larger.                     *)
LEMMA ImageSize ==
  ASSUME NEW T, IsFiniteSet(T), NEW g, DOMAIN g = T, g = [x \in T |-> g[x]],
         NEW R, R \subseteq {g[x] : x \in T}
  PROVE  IsFiniteSet(R) /\ Cardinality(R) \in Nat /\ Cardinality(R) <= Cardinality(T)
<1> DEFINE I == {g[x] : x \in T}
<1>1. g \in Surjection(T, I)
  BY DEF Surjection
<1>2. IsFiniteSet(I) /\ Cardinality(I) <= Cardinality(T)
  BY <1>1, FS_Surjection
<1>3. IsFiniteSet(R) /\ Cardinality(R) <= Cardinality(I)
  BY <1>2, FS_Subset
<1> QED BY <1>2, <1>3, FS_CardinalityType

(* A set of naturals has a least element.                                  *)
LEMMA LeastNatural ==
  ASSUME NEW N, N \subseteq Nat, N # {}
  PROVE  \E n \in N : \A m \in N : n <= m
<1>1. PICK n \in N : \A m \in N : ~ (<<m, n>> \in OpToRel(<, Nat))
  BY NatLessThanWellFounded, WFMin
<1>2. \A m \in N : ~ (m < n)
  BY <1>1 DEF OpToRel
<1>3. \A m \in N : n <= m
  BY <1>2
<1> QED BY <1>3

(* Of a finite set of aged entries, those that have at most n entries no   *)
(* older than themselves are at most n.                                    *)
LEMMA YoungestKept ==
  ASSUME NEW S, IsFiniteSet(S), \A x \in S : x.age \in Nat, NEW n \in Nat, NEW K,
         K \subseteq {e \in S : Cardinality({x \in S : x.age <= e.age}) <= n}
  PROVE  IsFiniteSet(K) /\ Cardinality(K) <= n
<1> DEFINE young(e) == {x \in S : x.age <= e.age}
<1>0. \A e \in K : e \in S /\ e.age \in Nat
  OBVIOUS
<1>1. IsFiniteSet(K)
  BY <1>0, FS_Subset
<1>2. ASSUME NEW e \in K
      PROVE  IsFiniteSet(young(e)) /\ Cardinality(young(e)) \in 0..n
  <2>1. IsFiniteSet(young(e)) /\ Cardinality(young(e)) <= n
    BY FS_Subset
  <2> QED BY <2>1, FS_CardinalityType
<1>3. CASE K = {}
  BY <1>1, <1>3, FS_EmptySet
<1>4. CASE K # {}
  <2> DEFINE N == {n - Cardinality(young(e)) : e \in K}
  <2>1. N \subseteq Nat /\ N # {}
    <3>1. \A e \in K : Cardinality(young(e)) \in 0..n
      BY <1>2
    <3> HIDE DEF young
    <3>2. \A e \in K : n - Cardinality(young(e)) \in Nat
      BY <3>1
    <3> QED BY <1>4, <3>2
  <2>2. PICK m \in N : \A i \in N : m <= i
    BY <2>1, LeastNatural
  <2>3. PICK e \in K : m = n - Cardinality(young(e))
    BY <2>2
  <2>4. ASSUME NEW y \in K
        PROVE  y.age <= e.age
    <3>1. n - Cardinality(young(e)) <= n - Cardinality(young(y))
      BY <2>2, <2>3
    <3>2. Cardinality(young(y)) <= Cardinality(young(e))
      BY <1>2, <3>1
    <3> SUFFICES ASSUME e.age < y.age
                 PROVE  FALSE
      BY <1>0
    <3>3. young(e) \subseteq young(y) /\ y \in young(y) /\ y \notin young(e)
      <4>1. \A x \in S : x.age <= e.age => x.age <= y.age
        BY <1>0
      <4>2. y \in S /\ y.age <= y.age /\ ~(y.age <= e.age)
        BY <1>0
      <4> QED BY <4>1, <4>2
    <3> HIDE DEF young
    <3>4. Cardinality(young(e)) <= Cardinality(young(y)) /\ (Cardinality(young(y)) = Cardinality(young(e)) => young(y) = young(e))
      BY <1>2, <3>3, FS_Subset
    <3> QED BY <1>2, <3>2, <3>3, <3>4
  <2>5. K \subseteq young(e)
    BY <2>4
  <2> HIDE DEF young
  <2>6. Cardinality(K) <= Cardinality(young(e))
    BY <1>2, <2>5, FS_Subset
  <2> QED BY <1>1, <1>2, <2>6, FS_CardinalityType
<1> QED BY <1>3, <1>4

(* The requests a lost refresh signs out.                                  *)
LEMMA EndingSize ==
  ASSUME NEW f \in Flight
  PROVE  Cardinality(Ending(f)) \in Nat /\ (Ending(f) # {} => Cardinality(Ending(f)) > 0)
<1>1. IsFiniteSet(Calls)
  BY SessionAssumption, FS_Interval DEF Calls
<1>2. Ending(f) \subseteq Calls
  BY DEF Ending, Waiting
<1>3. IsFiniteSet(Ending(f))
  BY <1>1, <1>2, FS_Subset
<1>4. Cardinality(Ending(f)) \in Nat /\ (Cardinality(Ending(f)) = 0 <=> Ending(f) = {})
  BY <1>3, FS_CardinalityType, FS_EmptySet
<1> QED BY <1>4

-----------------------------------------------------------------------------
(* What a step does to the forms, the cleanups and the counts.             *)

LEMMA LedgerKept ==
  ASSUME LedgerTypeOK, UNCHANGED forms, purges' \in [files: Nat, meta: Nat],
         mishaps' \in {mishaps, mishaps + 1}, acts' \in {acts, acts + 1}
  PROVE  LedgerTypeOK'
BY DEF LedgerTypeOK

LEMMA PurgesCounted ==
  ASSUME LedgerTypeOK, NEW n \in Nat, PurgeStarts(n)
  PROVE  purges' \in [files: Nat, meta: Nat]
BY DEF LedgerTypeOK, PurgeStarts

LEMMA CountsKept ==
  ASSUME LedgerTypeOK, UNCHANGED <<forms, purges>>,
         mishaps' \in {mishaps, mishaps + 1}, acts' \in {acts, acts + 1}
  PROVE  LedgerTypeOK'
BY DEF LedgerTypeOK

(* Every step of the session keeps the types of its ledger.                *)
LEMMA SessionLedger ==
  ASSUME LedgerTypeOK,
         \/ SessionAnswer \/ SessionAct \/ (\E f \in Flight : FlightLost(f)) \/ ResolveFails
         \/ \E c \in Calls : Unauthorized(c) \/ CallFails(c)
         \/ Restart
  PROVE  LedgerTypeOK'
<1>1. CASE \E k \in Form, who \in Accounts : Submit(k, who)
  BY <1>1 DEF Submit, Act, LedgerTypeOK
<1>2. CASE \E k \in Form : Submitted(k)
  BY <1>2 DEF Submitted, Mishap, LedgerTypeOK
<1>3. CASE \E f \in Flight : FlightServed(f)
  BY <1>3 DEF FlightServed, Mishap, LedgerTypeOK
<1>4. CASE \E f \in Flight : FlightLost(f)
  BY <1>4 DEF FlightLost, Mishap, LedgerTypeOK
<1>5. ASSUME NEW f \in Flight, FlightAnswered(f)
      PROVE  LedgerTypeOK'
  <2>1. UNCHANGED <<forms, mishaps, acts>>
    BY <1>5 DEF FlightAnswered
  <2>2. UNCHANGED purges \/ PurgeStarts(Cardinality(Ending(f)))
    BY <1>5 DEF FlightAnswered, SessionEnds
  <2>3. purges' \in [files: Nat, meta: Nat]
    BY <2>2, EndingSize, PurgesCounted DEF LedgerTypeOK
  <2> QED BY <2>1, <2>3, LedgerKept
<1>6. ASSUME NEW c \in Calls, Unauthorized(c)
      PROVE  LedgerTypeOK'
  <2>1. UNCHANGED <<forms, mishaps, acts>>
    BY <1>6 DEF Unauthorized
  <2>2. UNCHANGED purges \/ PurgeStarts(1)
    BY <1>6 DEF Unauthorized, SessionEnds
  <2>3. purges' \in [files: Nat, meta: Nat]
    BY <2>2, PurgesCounted DEF LedgerTypeOK
  <2> QED BY <2>1, <2>3, LedgerKept
<1>7. CASE \E c \in Calls : Accepted(c) \/ CallFails(c)
  BY <1>7 DEF Accepted, CallFails, Mishap, LedgerTypeOK
<1>8. CASE (\E t \in leaving : LogoutEnds(t)) \/ ResolveFails
  <2>1. ASSUME NEW t, LogoutEnds(t)
        PROVE  LedgerTypeOK'
    BY <2>1, CountsKept DEF LogoutEnds, Mishap
  <2>2. CASE ResolveFails
    BY <2>2, CountsKept DEF ResolveFails, Mishap
  <2> QED BY <1>8, <2>1, <2>2
<1>9. CASE Resolve \/ Restore
  BY <1>9 DEF Resolve, Restore, LedgerTypeOK
<1>10. CASE \/ \E c \in Calls, what \in Kinds : Call(c, what)
            \/ \E t \in DOMAIN server.owner : Expire(t)
  <2>1. ASSUME NEW c, NEW what, Call(c, what)
        PROVE  LedgerTypeOK'
    BY <2>1, CountsKept DEF Call, Act
  <2>2. ASSUME NEW t, Expire(t)
        PROVE  LedgerTypeOK'
    BY <2>2, CountsKept DEF Expire, Act
  <2> QED BY <1>10, <2>1, <2>2
<1>11. CASE SignOut
  <2>1. UNCHANGED <<forms, mishaps>> /\ acts' = acts + 1 /\ PurgeStarts(1)
    BY <1>11 DEF SignOut, Act
  <2> QED BY <2>1, PurgesCounted, LedgerKept
<1>12. CASE Restart
  BY <1>12 DEF Restart, Act, LedgerTypeOK
<1> QED BY <1>1, <1>2, <1>3, <1>4, <1>5, <1>6, <1>7, <1>8, <1>9, <1>10, <1>11, <1>12
     DEF SessionAnswer, SessionReply, SessionAct

(* And so does every step of the caches.                                   *)
LEMMA LedgerKeeps ==
  ASSUME LedgerTypeOK, [Next]_vars
  PROVE  LedgerTypeOK'
<1>1. CASE UNCHANGED vars
  BY <1>1 DEF vars, sessionVars, LedgerTypeOK
<1>2. CASE \/ SessionAnswer \/ SessionAct \/ (\E f \in Flight : FlightLost(f)) \/ ResolveFails
           \/ CacheRestart
  BY <1>2, SessionLedger DEF CacheRestart
<1>3. CASE \E c \in Calls : Refused(c) \/ Failed(c)
  BY <1>3, SessionLedger DEF Refused, Failed
<1>4. CASE \E c \in Calls : SlotGiven(c) \/ Downloaded(c) \/ Stored(c)
  BY <1>4 DEF SlotGiven, Downloaded, Stored, LedgerTypeOK
<1>5. CASE PurgeFiles \/ PurgeMeta
  BY <1>5 DEF PurgeFiles, PurgeMeta, LedgerTypeOK
<1>6. CASE CacheAct
  <2>1. CASE \E c \in Calls, k \in Files, urge \in {"high", "low"} : Ensure(c, k, urge)
    BY <2>1 DEF Ensure, Act, LedgerTypeOK
  <2>2. CASE \E e \in files : Touched(e)
    BY <2>2 DEF Touched, Act, LedgerTypeOK
  <2>3. CASE \E p \in Photos : SetKeyPhoto(p)
    BY <2>3, CountsKept DEF SetKeyPhoto, Act, Mishap
  <2>4. CASE PrefetchPreviews \/ PrefetchOriginals \/ Recorded
    BY <2>4 DEF PrefetchPreviews, PrefetchOriginals, Recorded, NotCacheActs, Act, LedgerTypeOK
  <2>5. CASE (\E mode \in Mode : ModeChanged(mode)) \/ \E n \in 0..1 : CountChanged(n)
    BY <2>5, CountsKept DEF ModeChanged, CountChanged, NotCacheActs, Act
  <2> QED BY <1>6, <2>1, <2>2, <2>3, <2>4, <2>5 DEF CacheAct
<1> QED BY <1>1, <1>2, <1>3, <1>4, <1>5, <1>6 DEF Next, CacheAnswer, CacheReply

-----------------------------------------------------------------------------
(* What a step does to the requests.                                       *)

(* No token is taken back.                                                 *)
LEMMA IssuedGrows ==
  ASSUME ServerTypeOK, [Next]_vars
  PROVE  Issued \subseteq Issued'
<1>1. server.owner \in Seq(Accounts) /\ Len(server.owner) \in Nat
  BY DEF ServerTypeOK
<1>2. CASE UNCHANGED server
  BY <1>2 DEF Issued
<1>3. CASE server'.owner = server.owner
  BY <1>3 DEF Issued
<1>4. ASSUME NEW who, server'.owner = Append(server.owner, who)
      PROVE  Issued \subseteq Issued'
  <2>1. Len(server'.owner) = Len(server.owner) + 1
    BY <1>1, <1>4
  <2> QED BY <1>1, <2>1 DEF Issued
<1>5. CASE \E k \in Form : Submitted(k)
  BY <1>2, <1>4, <1>5 DEF Submitted
<1>6. CASE \E f \in Flight : FlightServed(f) \/ FlightLost(f) \/ FlightAnswered(f)
  BY <1>2, <1>4, <1>6 DEF FlightServed, FlightLost, FlightAnswered
<1>7. CASE (\E t \in DOMAIN server.owner : Expire(t)) \/ \E t \in leaving : LogoutEnds(t)
  BY <1>2, <1>3, <1>7 DEF Expire, LogoutEnds, ServerTypeOK
<1>8. CASE \/ \E c \in Calls : Accepted(c) \/ Unauthorized(c)
           \/ SignOut \/ Restart \/ Resolve \/ ResolveFails \/ Restore
  BY <1>2, <1>8 DEF Accepted, Unauthorized, SignOut, Restart, Resolve, ResolveFails, Restore
<1>9. CASE Quiet
  BY <1>2, <1>9 DEF Quiet
<1> QED BY CoreOrQuiet, <1>5, <1>6, <1>7, <1>8, <1>9 DEF CoreStep

(* One request changes and the refreshes under way stay.                   *)
LEMMA CallSet ==
  ASSUME CallTypeOK, CallsKnown, NEW c \in Calls, NEW q \in CallRecord, calls' = [calls EXCEPT ![c] = q],
         Issued \subseteq Issued', UNCHANGED client, \A f \in Flight : Flying(f) => Flying(f)',
         q.tok \in Issued', q.step # "idle" => q.what \in Files \cup Kinds,
         client = "web" /\ q.step # "idle" => q.what # "plan",
         q.step = "refreshing" => q.flight # 0 /\ flights'[q.flight].step # "free",
         q.step = "waiting" => q.what \in Files /\ q.tok = 0, q.step = "body" => q.what \in Files
  PROVE  /\ CallTypeOK' /\ CallsKnown' /\ calls'[c] = q
         /\ \A d \in Calls \ {c} : calls'[d] = calls[d]
<1>1. /\ calls' \in [Calls -> CallRecord] /\ calls'[c] = q
      /\ \A d \in Calls \ {c} : calls'[d] = calls[d] /\ calls[d] \in CallRecord
  BY DEF CallTypeOK
<1>2. ASSUME NEW d \in Calls \ {c}, calls[d].step = "refreshing"
      PROVE  calls[d].flight # 0 /\ flights'[calls[d].flight].step # "free"
  <2>1. calls[d].flight \in Flight /\ Flying(calls[d].flight)
    BY <1>1, <1>2 DEF CallTypeOK, CallRecord, Flying
  <2>2. PICK f \in Flight : f = calls[d].flight /\ Flying(f)
    BY <2>1
  <2>3. flights'[f].step # "free"
    BY <2>2 DEF Flying
  <2> QED BY <2>1, <2>2, <2>3 DEF Flight
<1>3. CallTypeOK'
  BY <1>1, <1>2 DEF CallTypeOK
<1>4. CallsKnown'
  BY <1>1 DEF CallsKnown
<1> QED BY <1>1, <1>3, <1>4

(* The requests stay and so do the refreshes under way.                    *)
LEMMA CallsSame ==
  ASSUME CallTypeOK, CallsKnown, UNCHANGED <<calls, client>>,
         Issued \subseteq Issued', \A f \in Flight : Flying(f) => Flying(f)'
  PROVE  CallTypeOK' /\ CallsKnown'
<1>1. ASSUME NEW d \in Calls, calls[d].step = "refreshing"
      PROVE  calls[d].flight # 0 /\ flights'[calls[d].flight].step # "free"
  <2>1. calls[d].flight \in Flight /\ Flying(calls[d].flight)
    BY <1>1 DEF CallTypeOK, CallRecord, Flying
  <2>2. PICK f \in Flight : f = calls[d].flight /\ Flying(f)
    BY <2>1
  <2>3. flights'[f].step # "free"
    BY <2>2 DEF Flying
  <2> QED BY <2>1, <2>2, <2>3 DEF Flight
<1>2. CallTypeOK'
  BY <1>1 DEF CallTypeOK
<1>3. CallsKnown'
  BY DEF CallsKnown
<1> QED BY <1>2, <1>3

(* A request that is over.                                                 *)
LEMMA CallOver ==
  ASSUME CallTypeOK, CallsKnown, NEW c \in Calls, calls' = [calls EXCEPT ![c] = NoCall],
         0 \in Issued', Issued \subseteq Issued', UNCHANGED client,
         \A f \in Flight : Flying(f) => Flying(f)'
  PROVE  /\ CallTypeOK' /\ CallsKnown' /\ calls'[c].step = "idle"
         /\ \A d \in Calls \ {c} : calls'[d] = calls[d]
<1> DEFINE q == [step |-> "idle", what |-> Nil, tok |-> 0, flight |-> 0, tries |-> 0, ver |-> 0,
                 urge |-> "high", turn |-> 0]
<1>1. q \in CallRecord /\ q.step = "idle" /\ q.tok = 0
  BY DEF CallRecord
<1>2. calls' = [calls EXCEPT ![c] = q]
  BY DEF NoCall
<1> HIDE DEF q
<1> QED BY <1>1, <1>2, CallSet

(* The requests at work are finitely many.                                 *)
LEMMA CallsFinite ==
  ASSUME NEW S, S \subseteq Calls
  PROVE  IsFiniteSet(S) /\ Cardinality(S) \in Nat
<1>1. IsFiniteSet(Calls)
  BY SessionAssumption, FS_Interval DEF Calls
<1>2. IsFiniteSet(S)
  BY <1>1, FS_Subset
<1> QED BY <1>2, FS_CardinalityType

LEMMA ActiveIn == Active \subseteq Calls
BY DEF Active

(* Nothing new is under way: no more downloads, and no two of one file.    *)
Busy == {"sent", "refreshing", "body"}
LEMMA CallsEase ==
  ASSUME SlotsBounded, DownloadsDistinct, UNCHANGED client,
         \A d \in Calls : calls'[d].step # "idle" =>
           /\ calls[d].step # "idle" /\ calls'[d].what = calls[d].what
           /\ calls'[d].step \in Busy => calls[d].step \in Busy
  PROVE  SlotsBounded' /\ DownloadsDistinct'
<1>1. Active' \subseteq Active
  BY DEF Active, Busy, Capped
<1>2. IsFiniteSet(Active) /\ Cardinality(Active) \in Nat
  BY CallsFinite, ActiveIn
<1>3. Cardinality(Active') <= Cardinality(Active) /\ Cardinality(Active') \in Nat
  BY <1>1, <1>2, FS_Subset, FS_CardinalityType
<1>4. SlotsBounded'
  BY <1>2, <1>3, CacheAssumption DEF SlotsBounded
<1>5. DownloadsDistinct'
  BY DEF DownloadsDistinct
<1> QED BY <1>4, <1>5

(* A request begins that takes no slot, or takes a free one.               *)
LEMMA CallBegins ==
  ASSUME SlotsBounded, DownloadsDistinct, UNCHANGED client, NEW c \in Calls,
         \A d \in Calls \ {c} : calls'[d] = calls[d],
         c \notin Active' \/ Cardinality(Active) < Cap,
         \A d \in Calls \ {c} : calls[d].step # "idle" /\ (IsFile(calls'[c].what) \/ IsFile(calls[d].what))
                                => calls'[c].what # calls[d].what
  PROVE  SlotsBounded' /\ DownloadsDistinct'
<1>1. Active' \subseteq Active \cup {c}
  BY DEF Active, Capped
<1>2. IsFiniteSet(Active) /\ Cardinality(Active) \in Nat
  BY CallsFinite, ActiveIn
<1>3. ASSUME c \notin Active' PROVE SlotsBounded'
  <2>1. Active' \subseteq Active
    BY <1>1, <1>3
  <2>2. Cardinality(Active') <= Cardinality(Active) /\ Cardinality(Active') \in Nat
    BY <1>2, <2>1, FS_Subset, FS_CardinalityType
  <2> QED BY <1>2, <2>2, CacheAssumption DEF SlotsBounded
<1>4. ASSUME Cardinality(Active) < Cap PROVE SlotsBounded'
  <2>1. /\ IsFiniteSet(Active \cup {c})
        /\ Cardinality(Active \cup {c}) \in {Cardinality(Active), Cardinality(Active) + 1}
    BY <1>2, FS_AddElement
  <2>2. Cardinality(Active') <= Cardinality(Active \cup {c}) /\ Cardinality(Active') \in Nat
    BY <1>1, <2>1, FS_Subset, FS_CardinalityType
  <2> QED BY <1>2, <1>4, <2>1, <2>2, CacheAssumption DEF SlotsBounded
<1>5. DownloadsDistinct'
  BY DEF DownloadsDistinct
<1> QED BY <1>3, <1>4, <1>5

LEMMA OverKeeps ==
  ASSUME CallsInv, NEW c \in Calls, calls' = [calls EXCEPT ![c] = NoCall], 0 \in Issued',
         Issued \subseteq Issued', UNCHANGED client, \A f \in Flight : Flying(f) => Flying(f)'
  PROVE  CallsInv'
<1>1. /\ CallTypeOK' /\ CallsKnown' /\ calls'[c].step = "idle"
      /\ \A d \in Calls \ {c} : calls'[d] = calls[d]
  BY CallOver DEF CallsInv
<1>2. SlotsBounded' /\ DownloadsDistinct'
  BY <1>1, CallsEase DEF CallsInv
<1> QED BY <1>1, <1>2 DEF CallsInv

LEMMA SameKeeps ==
  ASSUME CallsInv, UNCHANGED <<calls, client>>, Issued \subseteq Issued', \A f \in Flight : Flying(f) => Flying(f)'
  PROVE  CallsInv'
<1>1. CallTypeOK' /\ CallsKnown'
  BY CallsSame DEF CallsInv
<1>2. SlotsBounded' /\ DownloadsDistinct'
  BY CallsEase DEF CallsInv
<1> QED BY <1>1, <1>2 DEF CallsInv

(* A request in flight moves on.                                           *)
LEMMA MovedKeeps ==
  ASSUME CallsInv, NEW c \in Calls, NEW q \in CallRecord, calls' = [calls EXCEPT ![c] = q],
         Issued \subseteq Issued', UNCHANGED client, \A f \in Flight : Flying(f) => Flying(f)',
         calls[c].step = "sent", q.step \in {"refreshing", "body"}, q.what = calls[c].what, q.tok = calls[c].tok,
         q.step = "refreshing" => q.flight # 0 /\ flights'[q.flight].step # "free",
         q.step = "body" => q.what \in Files
  PROVE  CallsInv'
<1>1. q.tok \in Issued' /\ q.what \in Files \cup Kinds /\ (client = "web" => q.what # "plan")
  BY DEF CallsInv, CallsKnown
<1>2. /\ CallTypeOK' /\ CallsKnown' /\ calls'[c] = q
      /\ \A d \in Calls \ {c} : calls'[d] = calls[d]
  BY <1>1, CallSet DEF CallsInv
<1>3. SlotsBounded' /\ DownloadsDistinct'
  BY <1>2, CallsEase DEF CallsInv, Busy
<1> QED BY <1>2, <1>3 DEF CallsInv

(* A request as it is sent, and one that waits for a slot.                 *)
Sent(k, t) == [NoCall EXCEPT !.step = "sent", !.what = k, !.tok = t]
Queued(k, urge, turn) == [NoCall EXCEPT !.step = "waiting", !.what = k, !.urge = urge, !.turn = turn]
LEMMA SentCall ==
  ASSUME NEW k \in Files \cup Kinds, NEW t \in Nat
  PROVE  Sent(k, t) \in CallRecord /\ Sent(k, t).step = "sent" /\ Sent(k, t).what = k /\ Sent(k, t).tok = t
BY DEF Sent, NoCall, CallRecord

LEMMA QueuedCall ==
  ASSUME NEW k \in Files \cup Kinds, NEW urge \in {"high", "low"}, NEW turn \in Nat
  PROVE  /\ Queued(k, urge, turn) \in CallRecord /\ Queued(k, urge, turn).step = "waiting"
         /\ Queued(k, urge, turn).what = k /\ Queued(k, urge, turn).tok = 0
BY DEF Queued, NoCall, CallRecord

(* http.request, and the downloads that begin or queue.                    *)
LEMMA CallKeeps ==
  ASSUME CoreInv, CallsInv, NEW c \in Calls, NEW what \in Kinds, Call(c, what), Issued \subseteq Issued'
  PROVE  CallsInv'
<1> DEFINE q == Sent(what, mem.access)
<1>1. mem.access \in Issued /\ mem.access \in Nat
  BY SessionAssumption DEF CoreInv, ClientTypeOK, TokensKnown, Token
<1>2. /\ calls' = [calls EXCEPT ![c] = q] /\ UNCHANGED <<client, flights>> /\ calls[c].step = "idle"
      /\ client = "web" => what # "plan"
  <2>1. client \in {"mobile", "web"}
    BY DEF CoreInv, ClientTypeOK
  <2> QED BY <2>1 DEF Call, FreeCall, Sent
<1>3. q \in CallRecord /\ q.step = "sent" /\ q.what = what /\ q.tok = mem.access
  BY <1>1, SentCall
<1> HIDE DEF q
<1>4. \A f \in Flight : Flying(f) => Flying(f)'
  BY <1>2 DEF Flying
<1>5. /\ CallTypeOK' /\ CallsKnown' /\ calls'[c] = q
      /\ \A d \in Calls \ {c} : calls'[d] = calls[d]
  BY <1>1, <1>2, <1>3, <1>4, CallSet DEF CallsInv
<1>6. ~IsFile(what)
  BY CacheAssumption DEF IsFile
<1>7. c \notin Active'
  BY <1>3, <1>5, <1>6 DEF Active
<1>8. SlotsBounded' /\ DownloadsDistinct'
  BY <1>2, <1>3, <1>5, <1>6, <1>7, CallBegins DEF CallsInv, IsFile
<1> QED BY <1>5, <1>8 DEF CallsInv

LEMMA EnsureKeeps ==
  ASSUME CoreInv, LedgerTypeOK, CallsInv, NEW c \in Calls, NEW k \in Files, NEW urge \in {"high", "low"},
         Ensure(c, k, urge), Issued \subseteq Issued'
  PROVE  CallsInv'
<1> DEFINE free == \/ ~Capped(k)
                   \/ Cardinality(Active) < Cap /\ \A d \in Calls : calls[d].step # "waiting"
           sent == Sent(k, mem.access)
           waiting == Queued(k, urge, acts)
           q == IF free THEN sent ELSE waiting
<1>1. /\ mem.access \in Issued /\ mem.access \in Nat /\ 0 \in Issued /\ acts \in Nat
  BY SessionAssumption DEF CoreInv, ClientTypeOK, ServerTypeOK, TokensKnown, Token, Issued, LedgerTypeOK
<1>2. /\ calls' = [calls EXCEPT ![c] = q] /\ UNCHANGED <<client, flights>> /\ calls[c].step = "idle"
      /\ ~Pending(k)
  BY DEF Ensure, FreeCall, Sent, Queued
<1>3. /\ q \in CallRecord /\ q.step \in {"sent", "waiting"} /\ q.what = k /\ q.tok \in Issued
      /\ (q.step = "waiting" => q.tok = 0) /\ (q.step = "sent" => free)
  <2>1. sent \in CallRecord /\ sent.step = "sent" /\ sent.what = k /\ sent.tok \in Issued
    BY <1>1, SentCall
  <2>2. waiting \in CallRecord /\ waiting.step = "waiting" /\ waiting.what = k /\ waiting.tok = 0
    BY <1>1, QueuedCall
  <2> HIDE DEF sent, waiting, free
  <2> QED BY <1>1, <2>1, <2>2
<1>4. free => ~Capped(k) \/ Cardinality(Active) < Cap
  OBVIOUS
<1> HIDE DEF q, free
<1>5. \A f \in Flight : Flying(f) => Flying(f)'
  BY <1>2 DEF Flying
<1>6. k # "plan"
  BY CacheAssumption
<1>7. /\ CallTypeOK' /\ CallsKnown' /\ calls'[c] = q
      /\ \A d \in Calls \ {c} : calls'[d] = calls[d]
  BY <1>1, <1>2, <1>3, <1>5, <1>6, CallSet DEF CallsInv
<1>8. c \notin Active' \/ Cardinality(Active) < Cap
  BY <1>2, <1>3, <1>4, <1>7 DEF Active, Capped
<1>9. \A d \in Calls \ {c} : calls[d].step # "idle" => calls'[c].what # calls[d].what
  BY <1>2, <1>3, <1>7 DEF Pending
<1>10. SlotsBounded' /\ DownloadsDistinct'
  BY <1>2, <1>7, <1>8, <1>9, CallBegins DEF CallsInv
<1> QED BY <1>7, <1>10 DEF CallsInv

LEMMA SlotGivenKeeps ==
  ASSUME CoreInv, CallsInv, NEW c \in Calls, SlotGiven(c), Issued \subseteq Issued'
  PROVE  CallsInv'
<1> DEFINE k == calls[c].what
           q == Sent(k, mem.access)
<1>1. mem.access \in Issued /\ mem.access \in Nat /\ k \in Files
  BY SessionAssumption DEF CoreInv, ClientTypeOK, TokensKnown, Token, SlotGiven, CallsInv, CallTypeOK
<1>2. /\ calls' = [calls EXCEPT ![c] = q] /\ UNCHANGED <<client, flights>> /\ calls[c].step = "waiting"
      /\ Cardinality(Active) < Cap
  BY DEF SlotGiven, Sent
<1>3. q \in CallRecord /\ q.step = "sent" /\ q.what = k /\ q.tok = mem.access
  BY <1>1, SentCall
<1> HIDE DEF q
<1>4. \A f \in Flight : Flying(f) => Flying(f)'
  BY <1>2 DEF Flying
<1>5. k # "plan" /\ IsFile(k)
  BY <1>1, CacheAssumption DEF IsFile
<1>6. /\ CallTypeOK' /\ CallsKnown' /\ calls'[c] = q
      /\ \A d \in Calls \ {c} : calls'[d] = calls[d]
  BY <1>1, <1>2, <1>3, <1>4, <1>5, CallSet DEF CallsInv
<1>7. \A d \in Calls \ {c} : calls[d].step # "idle" => calls'[c].what # calls[d].what
  BY <1>2, <1>3, <1>5, <1>6 DEF CallsInv, DownloadsDistinct
<1>8. SlotsBounded' /\ DownloadsDistinct'
  BY <1>2, <1>6, <1>7, CallBegins DEF CallsInv
<1> QED BY <1>6, <1>8 DEF CallsInv

(* What the server answers to a request.                                   *)
LEMMA DownloadedKeeps ==
  ASSUME CallsInv, CacheTypeOK, NEW c \in Calls, Downloaded(c), Issued \subseteq Issued'
  PROVE  CallsInv'
<1>1. /\ UNCHANGED <<client, flights>> /\ calls[c].step = "sent" /\ IsFile(calls[c].what)
      /\ calls' = [calls EXCEPT ![c] = [@ EXCEPT !.step = "body", !.ver = bytes[PhotoOf[calls[c].what]]]]
  BY DEF Downloaded
<1>2. calls[c] \in CallRecord /\ calls[c].what \in Files
  BY <1>1, CacheAssumption DEF CallsInv, CallTypeOK, CallsKnown, IsFile
<1>3. PICK ver \in {0, 1} : ver = bytes[PhotoOf[calls[c].what]]
  BY <1>2, CacheAssumption DEF CacheTypeOK, Photos
<1> DEFINE q == [calls[c] EXCEPT !.step = "body", !.ver = ver]
<1>4. calls' = [calls EXCEPT ![c] = q]
  BY <1>1, <1>3
<1>5. q \in CallRecord /\ q.step = "body" /\ q.what = calls[c].what /\ q.tok = calls[c].tok
  BY <1>2 DEF CallRecord
<1> HIDE DEF q
<1>6. \A f \in Flight : Flying(f) => Flying(f)'
  BY <1>1 DEF Flying
<1> QED BY <1>1, <1>2, <1>4, <1>5, <1>6, MovedKeeps

LEMMA UnauthorizedMoves ==
  ASSUME CoreInv, CallsInv, NEW c \in Calls, Unauthorized(c), CoreInv', Issued \subseteq Issued'
  PROVE  CallsInv'
<1>0. UNCHANGED client /\ calls[c].step = "sent" /\ 0 \in Issued'
  <2>1. 0 \in Issued
    BY DEF CoreInv, ServerTypeOK, Issued
  <2> QED BY <2>1 DEF Unauthorized
<1>1. CASE calls' = [calls EXCEPT ![c] = NoCall] /\ UNCHANGED flights
  BY <1>0, <1>1, OverKeeps DEF Flying
<1>2. ASSUME NEW j \in Join, mem.refresh # 0, current' = j[1], flights' = j[2],
             calls' = [calls EXCEPT ![c] = [@ EXCEPT !.step = "refreshing", !.flight = j[1]]],
             UNCHANGED <<mem, kept, ui, server, boot, slips>>
      PROVE  CallsInv'
  <2>1. j[1] # 0 /\ \A g \in Flight : Flying(g) => Flying(g)'
    BY <1>0, <1>2, JoinKeeps
  <2>2. PICK f \in Flight : f = j[1] /\ flights'[f].step # "free"
    BY <1>2, <2>1 DEF CoreInv, FlightTypeOK
  <2> DEFINE q == [calls[c] EXCEPT !.step = "refreshing", !.flight = f]
  <2>3. calls' = [calls EXCEPT ![c] = q]
    BY <1>2, <2>2
  <2>4. calls[c] \in CallRecord
    BY DEF CallsInv, CallTypeOK
  <2>5. q \in CallRecord /\ q.step = "refreshing" /\ q.what = calls[c].what /\ q.tok = calls[c].tok /\ q.flight = f
    BY <2>4 DEF CallRecord
  <2> HIDE DEF q
  <2>6. f # 0
    BY DEF Flight
  <2> QED BY <1>0, <2>1, <2>2, <2>3, <2>5, <2>6, MovedKeeps
<1> QED BY <1>1, <1>2 DEF Unauthorized

(* Requests that waited for a refresh are retried, or over.                *)
LEMMA AnsweredCalls ==
  ASSUME CoreInv, CallsInv, NEW f \in Flight, FlightAnswered(f), Issued \subseteq Issued'
  PROVE  CallsInv'
<1> DEFINE ok == flights[f].step = "ok"
           new == flights[f].new
<1>1. /\ UNCHANGED client /\ calls' = Resumed(f, ok) /\ flights' = [flights EXCEPT ![f] = NoFlight]
      /\ ok => new \in Issued \ {0} /\ new \in Nat
  BY DEF FlightAnswered, CoreInv, TokensKnown, Issued
<1>2. 0 \in Issued
  BY DEF CoreInv, ServerTypeOK, Issued
<1>3. \A g \in Flight \ {f} : flights'[g] = flights[g]
  BY <1>1 DEF CoreInv, FlightTypeOK
<1>4. ASSUME NEW c \in Calls
      PROVE  /\ c \notin Waiting(f) => calls'[c] = calls[c]
             /\ c \in Waiting(f) /\ ~ok => calls'[c] = NoCall
             /\ c \in Waiting(f) /\ ok =>
                  calls'[c] = [calls[c] EXCEPT !.step = "sent", !.flight = 0, !.tries = 1, !.tok = new]
  BY <1>1 DEF Resumed
<1> HIDE DEF ok, new
<1>5. ASSUME NEW c \in Calls
      PROVE  /\ calls'[c] \in CallRecord
             /\ calls'[c].tok \in Issued
             /\ calls'[c].step # "idle" => calls[c].step # "idle" /\ calls'[c].what = calls[c].what
             /\ calls'[c].step \in Busy => calls[c].step \in Busy
             /\ calls'[c].step \in {"refreshing", "waiting", "body"} => c \notin Waiting(f)
  <2>1. calls[c] \in CallRecord /\ calls[c].tok \in Issued
    BY DEF CallsInv, CallTypeOK, CallsKnown
  <2>2. CASE c \notin Waiting(f)
    BY <1>4, <2>1, <2>2
  <2>3. CASE c \in Waiting(f) /\ ~ok
    <3>1. NoCall \in CallRecord /\ NoCall.step = "idle" /\ NoCall.tok = 0
      BY DEF NoCall, CallRecord
    <3>2. calls'[c] = NoCall
      BY <1>4, <2>3
    <3>3. calls'[c] \in CallRecord /\ calls'[c].step = "idle" /\ calls'[c].tok = 0
      BY <3>1, <3>2
    <3> QED BY <1>2, <3>3 DEF Busy
  <2>4. CASE c \in Waiting(f) /\ ok
    <3> DEFINE q == [calls[c] EXCEPT !.step = "sent", !.flight = 0, !.tries = 1, !.tok = new]
    <3>1. q \in CallRecord /\ q.step = "sent" /\ q.what = calls[c].what /\ q.tok = new
      BY <1>1, <2>1, <2>4 DEF CallRecord
    <3>2. calls'[c] = q
      BY <1>4, <2>4
    <3> HIDE DEF q
    <3>3. calls[c].step = "refreshing"
      BY <2>4 DEF Waiting
    <3> QED BY <1>1, <2>4, <3>1, <3>2, <3>3 DEF Busy
  <2> QED BY <2>2, <2>3, <2>4
<1>6. calls' \in [Calls -> CallRecord]
  <2>1. calls' = [c \in Calls |-> calls'[c]]
    BY <1>1 DEF Resumed
  <2> QED BY <1>5, <2>1
<1>7. ASSUME NEW c \in Calls, calls'[c].step = "refreshing"
      PROVE  calls'[c].flight # 0 /\ flights'[calls'[c].flight].step # "free"
  <2>1. c \notin Waiting(f) /\ calls'[c] = calls[c]
    BY <1>4, <1>5, <1>7
  <2>2. calls[c].flight \in Flight \ {f} /\ flights[calls[c].flight].step # "free"
    BY <1>7, <2>1 DEF CallsInv, CallTypeOK, CallRecord, Waiting
  <2>3. PICK g \in Flight \ {f} : g = calls[c].flight /\ flights[g].step # "free"
    BY <2>2
  <2>4. flights'[g].step # "free" /\ g # 0
    BY <1>3, <2>3 DEF Flight
  <2> QED BY <2>1, <2>3, <2>4
<1>8. CallTypeOK'
  <2>1. \A c \in Calls : /\ calls'[c].step = "waiting" => calls'[c].what \in Files /\ calls'[c].tok = 0
                         /\ calls'[c].step = "body" => calls'[c].what \in Files
    BY <1>4, <1>5 DEF CallsInv, CallTypeOK
  <2> QED BY <1>6, <1>7, <2>1 DEF CallTypeOK
<1>9. CallsKnown'
  BY <1>1, <1>5 DEF CallsInv, CallsKnown
<1>10. SlotsBounded' /\ DownloadsDistinct'
  BY <1>1, <1>5, CallsEase DEF CallsInv
<1> QED BY <1>8, <1>9, <1>10 DEF CallsInv

(* A restart ends them all.                                                *)
LEMMA RestartedCalls ==
  ASSUME CoreInv, CallsInv, Restart
  PROVE  CallsInv'
<1>1. /\ UNCHANGED <<client, server>> /\ calls' = [c \in Calls |-> NoCall] /\ NoCall \in CallRecord
      /\ NoCall.step = "idle" /\ NoCall.tok = 0
  BY DEF Restart, NoCall, CallRecord
<1>2. 0 \in Issued'
  BY <1>1 DEF CoreInv, ServerTypeOK, Issued
<1>3. calls' \in [Calls -> CallRecord] /\ \A c \in Calls : calls'[c].step = "idle" /\ calls'[c].tok = 0
  BY <1>1
<1>4. CallTypeOK' /\ CallsKnown'
  BY <1>2, <1>3 DEF CallTypeOK, CallsKnown
<1>5. SlotsBounded' /\ DownloadsDistinct'
  BY <1>1, <1>3, CallsEase DEF CallsInv
<1> QED BY <1>4, <1>5 DEF CallsInv

(* A refresh that is served, or starts, ends no other.                     *)
LEMMA FlightsStay ==
  ASSUME CoreInv,
         \/ \E f \in Flight : FlightServed(f) \/ FlightLost(f)
         \/ Restore
  PROVE  UNCHANGED <<calls, client>> /\ \A g \in Flight : Flying(g) => Flying(g)'
<1>1. ASSUME NEW f \in Flight, NEW q, flights' = [flights EXCEPT ![f] = q], q.step # "free"
      PROVE  \A g \in Flight : Flying(g) => Flying(g)'
  <2>1. flights'[f] = q /\ \A g \in Flight \ {f} : flights'[g] = flights[g]
    BY <1>1 DEF CoreInv, FlightTypeOK
  <2> QED BY <1>1, <2>1 DEF Flying
<1>2. ASSUME NEW f \in Flight, FlightServed(f) \/ FlightLost(f)
      PROVE  UNCHANGED <<calls, client>> /\ \A g \in Flight : Flying(g) => Flying(g)'
  <2>1. UNCHANGED <<calls, client>>
    BY <1>2 DEF FlightServed, FlightLost
  <2>2. flights[f] \in FlightRecord
    BY DEF CoreInv, FlightTypeOK
  <2>3. ASSUME NEW step \in {"rejected", "lost"}, flights' = [flights EXCEPT ![f] = [@ EXCEPT !.step = step]]
        PROVE  \A g \in Flight : Flying(g) => Flying(g)'
    <3> DEFINE q == [flights[f] EXCEPT !.step = step]
    <3>1. q.step # "free" /\ flights' = [flights EXCEPT ![f] = q]
      BY <2>2, <2>3 DEF FlightRecord
    <3> HIDE DEF q
    <3> QED BY <1>1, <3>1
  <2>4. ASSUME NEW t, flights' = [flights EXCEPT ![f] = [@ EXCEPT !.step = "ok", !.new = t]]
        PROVE  \A g \in Flight : Flying(g) => Flying(g)'
    <3> DEFINE q == [flights[f] EXCEPT !.step = "ok", !.new = t]
    <3>1. q.step # "free" /\ flights' = [flights EXCEPT ![f] = q]
      BY <2>2, <2>4 DEF FlightRecord
    <3> HIDE DEF q
    <3> QED BY <1>1, <3>1
  <2> QED BY <1>2, <2>1, <2>3, <2>4 DEF FlightServed, FlightLost
<1>3. CASE Restore
  <2>1. UNCHANGED <<client, mem, server, calls, slips>> /\ client = "web"
    BY <1>3 DEF Restore
  <2>2. CASE UNCHANGED flights
    BY <2>1, <2>2 DEF Flying
  <2>3. CASE \E j \in Join : /\ mem.refresh # 0 /\ current' = j[1] /\ flights' = j[2] /\ boot' = j[1]
                             /\ UNCHANGED <<ui, kept>>
    BY <2>1, <2>3, JoinKeeps
  <2> QED BY <1>3, <2>2, <2>3 DEF Restore
<1> QED BY <1>2, <1>3

(* Every step keeps what is said of the requests.                          *)
LEMMA CallsKeep ==
  ASSUME CoreInv, LedgerTypeOK, CallsInv, CacheTypeOK, [Next]_vars, CoreInv'
  PROVE  CallsInv'
<1>1. Issued \subseteq Issued' /\ 0 \in Issued
  BY IssuedGrows DEF CoreInv, ServerTypeOK, Issued
<1>2. CASE UNCHANGED <<calls, client, flights>>
  BY <1>1, <1>2, SameKeeps DEF Flying
<1>3. ASSUME NEW c \in Calls, calls' = [calls EXCEPT ![c] = NoCall], UNCHANGED <<client, flights>>
      PROVE  CallsInv'
  BY <1>1, <1>3, OverKeeps DEF Flying
<1>4. CASE SessionAnswer
  <2>1. CASE (\E k \in Form : Submitted(k)) \/ (\E t \in leaving : LogoutEnds(t)) \/ Resolve
    BY <1>2, <2>1 DEF Submitted, LogoutEnds, Resolve
  <2>2. CASE (\E f \in Flight : FlightServed(f)) \/ Restore
    BY <1>1, <2>2, FlightsStay, SameKeeps
  <2>3. CASE \E f \in Flight : FlightAnswered(f)
    BY <1>1, <2>3, AnsweredCalls
  <2>4. CASE \E c \in Calls : Accepted(c)
    BY <1>3, <2>4 DEF Accepted
  <2> QED BY <1>4, <2>1, <2>2, <2>3, <2>4 DEF SessionAnswer, SessionReply
<1>5. CASE SessionAct
  <2>1. CASE \E c \in Calls, what \in Kinds : Call(c, what)
    BY <1>1, <2>1, CallKeeps
  <2>2. CASE \/ \E k \in Form, who \in Accounts : Submit(k, who)
             \/ \E t \in DOMAIN server.owner : Expire(t)
             \/ SignOut
    <3>1. ASSUME NEW k \in Form, NEW who \in Accounts, Submit(k, who)
          PROVE  CallsInv'
      BY <1>2, <3>1 DEF Submit
    <3>2. ASSUME NEW t, Expire(t)
          PROVE  CallsInv'
      BY <1>2, <3>2 DEF Expire
    <3>3. CASE SignOut
      BY <1>2, <3>3 DEF SignOut
    <3> QED BY <2>2, <3>1, <3>2, <3>3
  <2> QED BY <1>5, <2>1, <2>2 DEF SessionAct
<1>6. CASE (\E f \in Flight : FlightLost(f)) \/ ResolveFails
  <2>1. CASE ResolveFails
    BY <1>2, <2>1 DEF ResolveFails
  <2> QED BY <1>1, <1>6, <2>1, FlightsStay, SameKeeps
<1>7. CASE CacheAnswer
  <2>1. CASE PurgeFiles \/ PurgeMeta
    BY <1>2, <2>1 DEF PurgeFiles, PurgeMeta
  <2>2. ASSUME NEW c \in Calls, SlotGiven(c) \/ Downloaded(c)
        PROVE  CallsInv'
    BY <1>1, <2>2, SlotGivenKeeps, DownloadedKeeps
  <2>3. ASSUME NEW c \in Calls, Stored(c) \/ Failed(c)
        PROVE  CallsInv'
    BY <1>3, <2>3 DEF Stored, Failed, CallFails
  <2>4. ASSUME NEW c \in Calls, Refused(c)
        PROVE  CallsInv'
    BY <1>1, <2>4, UnauthorizedMoves DEF Refused
  <2> QED BY <1>7, <2>1, <2>2, <2>3, <2>4 DEF CacheAnswer, CacheReply
<1>8. CASE CacheAct
  <2>1. CASE \E c \in Calls, k \in Files, urge \in {"high", "low"} : Ensure(c, k, urge)
    BY <1>1, <2>1, EnsureKeeps
  <2>2. CASE (\E e \in files : Touched(e)) \/ (\E p \in Photos : SetKeyPhoto(p)) \/ Recorded
    BY <1>2, <2>2 DEF Touched, SetKeyPhoto, Recorded
  <2>3. CASE \/ PrefetchPreviews \/ PrefetchOriginals
             \/ (\E mode \in Mode : ModeChanged(mode)) \/ \E n \in 0..1 : CountChanged(n)
    BY <1>2, <2>3 DEF PrefetchPreviews, PrefetchOriginals, ModeChanged, CountChanged, NotCacheActs
  <2> QED BY <1>8, <2>1, <2>2, <2>3 DEF CacheAct
<1>9. CASE CacheRestart
  BY <1>9, RestartedCalls DEF CacheRestart
<1>10. CASE UNCHANGED vars
  BY <1>2, <1>10 DEF vars, sessionVars
<1> QED BY <1>4, <1>5, <1>6, <1>7, <1>8, <1>9, <1>10 DEF Next

-----------------------------------------------------------------------------
(* What a step does to the files.                                          *)

Older(x) == [x EXCEPT !.age = @ + 1]
LEMMA OlderFile ==
  ASSUME NEW x \in FileRecord
  PROVE  /\ Older(x) \in FileRecord /\ Older(x).file = x.file /\ Older(x).who = x.who
         /\ Older(x).ver = x.ver /\ Older(x).is = x.is
BY DEF Older, FileRecord

(* What is on the disk after a file is written.                            *)
LEMMA WrittenFiles ==
  ASSUME NEW fs \in SUBSET FileRecord, IsFiniteSet(fs), NEW e \in FileRecord
  PROVE  /\ Written(fs, e) \in SUBSET FileRecord /\ IsFiniteSet(Written(fs, e))
         /\ \A x \in Written(fs, e) : x = e \/ \E y \in fs : y.file # e.file /\ x = Older(y)
<1> DEFINE rest == {y \in fs : y.file # e.file}
           g == [y \in rest |-> Older(y)]
           old == {Older(y) : y \in rest}
<1>1. Written(fs, e) = old \cup {e}
  BY DEF Written, Older
<1>2. IsFiniteSet(rest)
  BY FS_Subset
<1>3. DOMAIN g = rest /\ g = [y \in rest |-> g[y]] /\ old \subseteq {g[y] : y \in rest}
  OBVIOUS
<1>4. old \subseteq FileRecord
  BY OlderFile
<1> HIDE DEF g, old, rest
<1>5. IsFiniteSet(old)
  BY <1>2, <1>3, ImageSize
<1>6. IsFiniteSet(Written(fs, e))
  BY <1>1, <1>5, FS_AddElement
<1> QED BY <1>1, <1>4, <1>6 DEF old, rest

(* A write that does not count makes no shelf longer.                      *)
LEMMA HeldWritten ==
  ASSUME NEW fs \in SUBSET FileRecord, IsFiniteSet(fs), NEW e \in FileRecord, NEW k, NEW mode,
         e.who = Nil \/ ~Limited(e.file, mode)
  PROVE  Cardinality(Held(Written(fs, e), k, mode)) <= Cardinality(Held(fs, k, mode))
<1> DEFINE T == Held(fs, k, mode)
           g == [y \in T |-> Older(y)]
           R == Held(Written(fs, e), k, mode)
<1>1. IsFiniteSet(T)
  BY FS_Subset DEF Held
<1>2. ASSUME NEW x \in R
      PROVE  \E y \in T : x = Older(y)
  <2>1. /\ x \in Written(fs, e) /\ Limited(x.file, mode) /\ Shelf(x.file) = Shelf(k) /\ x.who # Nil
    BY <1>2 DEF Held
  <2>2. PICK y \in fs : x = Older(y)
    BY <2>1, WrittenFiles
  <2>3. x.file = y.file /\ x.who = y.who
    BY <2>2, OlderFile
  <2> QED BY <2>1, <2>2, <2>3 DEF Held
<1>3. DOMAIN g = T /\ g = [y \in T |-> g[y]] /\ R \subseteq {g[y] : y \in T}
  BY <1>2
<1> HIDE DEF g, T, R
<1>4. Cardinality(R) <= Cardinality(T)
  BY <1>1, <1>3, ImageSize
<1> QED BY <1>4 DEF T, R

(* A use of an entry makes no shelf longer.                                *)
LEMMA HeldTouched ==
  ASSUME NEW fs \in SUBSET FileRecord, IsFiniteSet(fs), NEW e \in fs, NEW e0, e0 = [e EXCEPT !.age = 0],
         NEW k, NEW mode
  PROVE  /\ e0 \in FileRecord /\ e0.file = e.file /\ e0.who = e.who /\ e0.ver = e.ver
         /\ Cardinality(Held(Written(fs, e0), k, mode)) <= Cardinality(Held(fs, k, mode))
<1>0. e0 \in FileRecord /\ e0.file = e.file /\ e0.who = e.who /\ e0.ver = e.ver
  BY DEF FileRecord
<1> DEFINE T == Held(fs, k, mode)
           g == [y \in T |-> IF y.file = e.file THEN e0 ELSE Older(y)]
           R == Held(Written(fs, e0), k, mode)
<1>1. IsFiniteSet(T)
  BY FS_Subset DEF Held
<1>2. ASSUME NEW x \in R
      PROVE  \E y \in T : x = g[y]
  <2>1. /\ x \in Written(fs, e0) /\ Limited(x.file, mode) /\ Shelf(x.file) = Shelf(k) /\ x.who # Nil
    BY <1>2 DEF Held
  <2>2. CASE x = e0
    <3>1. e \in T
      BY <1>0, <2>1, <2>2 DEF Held
    <3> QED BY <2>2, <3>1
  <2>3. CASE x # e0
    <3>1. PICK y \in fs : y.file # e0.file /\ x = Older(y)
      BY <1>0, <2>1, <2>3, WrittenFiles
    <3>2. x.file = y.file /\ x.who = y.who
      BY <3>1, OlderFile
    <3>3. y \in T
      BY <2>1, <3>2 DEF Held
    <3> QED BY <1>0, <3>1, <3>3
  <2> QED BY <2>2, <2>3
<1>3. DOMAIN g = T /\ g = [y \in T |-> g[y]] /\ R \subseteq {g[y] : y \in T}
  BY <1>2
<1> HIDE DEF g, T, R
<1>4. Cardinality(R) <= Cardinality(T)
  BY <1>1, <1>3, ImageSize
<1> QED BY <1>0, <1>4 DEF T, R

(* A restart keeps the shelves as long as they were.                       *)
Registered(x) == [x EXCEPT !.is = "cached"]
LEMMA HeldRegistered ==
  ASSUME NEW fs \in SUBSET FileRecord, IsFiniteSet(fs), NEW gs, gs = {Registered(x) : x \in fs},
         NEW k, NEW mode
  PROVE  /\ gs \in SUBSET FileRecord /\ IsFiniteSet(gs)
         /\ \A x \in gs : \E y \in fs : x.file = y.file /\ x.who = y.who /\ x.ver = y.ver
         /\ Cardinality(Held(gs, k, mode)) <= Cardinality(Held(fs, k, mode))
<1>0. \A x \in fs : /\ Registered(x) \in FileRecord /\ Registered(x).file = x.file
                    /\ Registered(x).who = x.who /\ Registered(x).ver = x.ver
  BY DEF Registered, FileRecord
<1>1. gs \in SUBSET FileRecord /\ \A x \in gs : \E y \in fs : x.file = y.file /\ x.who = y.who /\ x.ver = y.ver
  BY <1>0
<1>2. IsFiniteSet(gs)
  <2> DEFINE g == [y \in fs |-> Registered(y)]
  <2>1. DOMAIN g = fs /\ g = [y \in fs |-> g[y]] /\ gs \subseteq {g[y] : y \in fs}
    OBVIOUS
  <2> HIDE DEF g
  <2> QED BY <2>1, ImageSize
<1> DEFINE T == Held(fs, k, mode)
           g == [y \in T |-> Registered(y)]
           R == Held(gs, k, mode)
<1>3. IsFiniteSet(T)
  BY FS_Subset DEF Held
<1>4. ASSUME NEW x \in R
      PROVE  \E y \in T : x = g[y]
  <2>1. PICK y \in fs : x = Registered(y)
    BY <1>4 DEF Held
  <2>2. y \in T
    BY <1>0, <1>4, <2>1 DEF Held
  <2> QED BY <2>1, <2>2
<1>5. DOMAIN g = T /\ g = [y \in T |-> g[y]] /\ R \subseteq {g[y] : y \in T}
  BY <1>4
<1> HIDE DEF g, T, R
<1>6. Cardinality(R) <= Cardinality(T)
  BY <1>3, <1>5, ImageSize
<1> QED BY <1>1, <1>2, <1>6 DEF T, R

(* enforceSizeLimit: a limited shelf is within its ceiling.                *)
LEMMA HeldEnforced ==
  ASSUME NEW fs \in SUBSET FileRecord, IsFiniteSet(fs), NEW k, NEW mode, Limited(k, mode)
  PROVE  /\ Enforced(fs, mode) \subseteq fs
         /\ Cardinality(Held(Enforced(fs, mode), k, mode)) <= Ceiling
<1>1. Enforced(fs, mode) \subseteq fs
  BY DEF Enforced
<1> DEFINE S == {x \in fs : Limited(x.file, mode) /\ Shelf(x.file) = Shelf(k)}
           K == Held(Enforced(fs, mode), k, mode)
<1>2. IsFiniteSet(S) /\ \A x \in S : x.age \in Nat
  <2>1. \A x \in S : x.age \in Nat
    BY DEF FileRecord
  <2> QED BY <2>1, FS_Subset
<1>3. ASSUME NEW e \in K
      PROVE  e \in S /\ Cardinality({x \in S : x.age <= e.age}) <= Ceiling
  <2>1. e \in fs /\ Limited(e.file, mode) /\ Shelf(e.file) = Shelf(k) /\ e \in Enforced(fs, mode)
    BY <1>1, <1>3 DEF Held
  <2>2. SameShelf(fs, e, mode) = S
    BY <2>1 DEF SameShelf
  <2>3. Cardinality({x \in SameShelf(fs, e, mode) : x.age <= e.age}) <= Ceiling
    BY <2>1 DEF Enforced
  <2> QED BY <2>1, <2>2, <2>3
<1>4. K \subseteq {e \in S : Cardinality({x \in S : x.age <= e.age}) <= Ceiling}
  BY <1>3
<1> HIDE DEF S, K
<1>5. Cardinality(K) <= Ceiling
  BY <1>2, <1>4, CacheAssumption, YoungestKept
<1> QED BY <1>1, <1>5 DEF K

(* The six ways a step changes the files.                                  *)
FileStep ==
  \/ files' \subseteq files /\ cache'.mode = cache.mode
  \/ \E e \in FileRecord : /\ files' = Written(files, e) /\ cache' = cache
                           /\ e.who = Nil \/ ~Limited(e.file, cache.mode)
  \/ \E e \in FileRecord : files' = Enforced(Written(files, e), cache.mode) /\ cache' = cache
  \/ \E e \in files : files' = Written(files, [e EXCEPT !.age = 0]) /\ cache' = cache
  \/ files' = Enforced(files, cache'.mode)
  \/ files' = {Registered(x) : x \in files} /\ cache'.mode = cache.mode

(* Whichever it is, the files are files and no limited shelf is too long.  *)
LEMMA FileStepKeeps ==
  ASSUME CacheTypeOK, IsFiniteSet(files), ShelvesBounded, FileStep, UNCHANGED client
  PROVE  files' \in SUBSET FileRecord /\ IsFiniteSet(files') /\ ShelvesBounded'
<1>1. files \in SUBSET FileRecord
  BY DEF CacheTypeOK
<1>2. \A k, mode : IsFiniteSet(Held(files, k, mode)) /\ Cardinality(Held(files, k, mode)) \in Nat
  BY FS_Subset, FS_CardinalityType DEF Held
<1>3. ASSUME NEW gs, NEW mode, gs = files', mode = cache'.mode,
             \A k \in Files : Limited(k, mode) => Cardinality(Held(gs, k, mode)) <= Ceiling
      PROVE  ShelvesBounded'
  BY <1>3 DEF ShelvesBounded, Held, Limited, Shelf
<1>4. ASSUME NEW gs, gs = files', IsFiniteSet(gs), cache'.mode = cache.mode,
             \A k \in Files : Cardinality(Held(gs, k, cache.mode)) <= Cardinality(Held(files, k, cache.mode))
      PROVE  ShelvesBounded'
  <2>1. PICK mode : mode = cache.mode
    OBVIOUS
  <2>2. \A k : Cardinality(Held(gs, k, mode)) \in Nat
    BY <1>4, FS_Subset, FS_CardinalityType DEF Held
  <2>3. \A k \in Files : Limited(k, mode) => Cardinality(Held(files, k, mode)) <= Ceiling
    BY <2>1 DEF ShelvesBounded
  <2>4. \A k \in Files : Limited(k, mode) => Cardinality(Held(gs, k, mode)) <= Ceiling
    BY <1>2, <1>4, <2>1, <2>2, <2>3, CacheAssumption
  <2> QED BY <1>3, <1>4, <2>1, <2>4
<1>5. CASE files' \subseteq files /\ cache'.mode = cache.mode
  <2>1. PICK gs : gs = files'
    OBVIOUS
  <2>2. IsFiniteSet(gs)
    BY <1>5, <2>1, FS_Subset
  <2>3. ASSUME NEW k
        PROVE  Cardinality(Held(gs, k, cache.mode)) <= Cardinality(Held(files, k, cache.mode))
    <3>1. Held(gs, k, cache.mode) \subseteq Held(files, k, cache.mode)
      BY <1>5, <2>1 DEF Held
    <3> QED BY <1>2, <3>1, FS_Subset
  <2> QED BY <1>1, <1>4, <1>5, <2>1, <2>2, <2>3
<1>6. ASSUME NEW e \in FileRecord, files' = Written(files, e), cache' = cache,
             e.who = Nil \/ ~Limited(e.file, cache.mode)
      PROVE  files' \in SUBSET FileRecord /\ IsFiniteSet(files') /\ ShelvesBounded'
  <2>1. PICK gs : gs = Written(files, e)
    OBVIOUS
  <2>2. gs \in SUBSET FileRecord /\ IsFiniteSet(gs)
    BY <1>1, <2>1, WrittenFiles
  <2>3. \A k : Cardinality(Held(gs, k, cache.mode)) <= Cardinality(Held(files, k, cache.mode))
    BY <1>1, <1>6, <2>1, HeldWritten
  <2> QED BY <1>4, <1>6, <2>1, <2>2, <2>3
<1>7. ASSUME NEW e \in FileRecord, files' = Enforced(Written(files, e), cache.mode), cache' = cache
      PROVE  files' \in SUBSET FileRecord /\ IsFiniteSet(files') /\ ShelvesBounded'
  <2>1. PICK ws, mode, gs : ws = Written(files, e) /\ mode = cache.mode /\ gs = Enforced(ws, mode)
    OBVIOUS
  <2>2. ws \in SUBSET FileRecord /\ IsFiniteSet(ws)
    BY <1>1, <2>1, WrittenFiles
  <2>3. gs \in SUBSET FileRecord /\ IsFiniteSet(gs)
    BY <2>1, <2>2, FS_Subset DEF Enforced
  <2>4. \A k \in Files : Limited(k, mode) => Cardinality(Held(gs, k, mode)) <= Ceiling
    BY <2>1, <2>2, HeldEnforced
  <2> QED BY <1>3, <1>7, <2>1, <2>3, <2>4
<1>8. ASSUME NEW e \in files, files' = Written(files, [e EXCEPT !.age = 0]), cache' = cache
      PROVE  files' \in SUBSET FileRecord /\ IsFiniteSet(files') /\ ShelvesBounded'
  <2>1. PICK e0, gs : e0 = [e EXCEPT !.age = 0] /\ gs = Written(files, e0)
    OBVIOUS
  <2>2. /\ e0 \in FileRecord
        /\ \A k : Cardinality(Held(gs, k, cache.mode)) <= Cardinality(Held(files, k, cache.mode))
    BY <1>1, <2>1, HeldTouched
  <2>3. gs \in SUBSET FileRecord /\ IsFiniteSet(gs)
    BY <1>1, <2>1, <2>2, WrittenFiles
  <2> QED BY <1>4, <1>8, <2>1, <2>2, <2>3
<1>9. CASE files' = Enforced(files, cache'.mode)
  <2>1. PICK mode, gs : mode = cache'.mode /\ gs = Enforced(files, mode)
    OBVIOUS
  <2>2. gs \in SUBSET FileRecord /\ IsFiniteSet(gs)
    BY <1>1, <2>1, FS_Subset DEF Enforced
  <2>3. \A k \in Files : Limited(k, mode) => Cardinality(Held(gs, k, mode)) <= Ceiling
    BY <1>1, <2>1, HeldEnforced
  <2>4. gs = files'
    BY <1>9, <2>1
  <2> QED BY <1>3, <2>1, <2>2, <2>3, <2>4
<1>10. CASE files' = {Registered(x) : x \in files} /\ cache'.mode = cache.mode
  <2>1. PICK gs : gs = {Registered(x) : x \in files}
    OBVIOUS
  <2>2. /\ gs \in SUBSET FileRecord /\ IsFiniteSet(gs)
        /\ \A k : Cardinality(Held(gs, k, cache.mode)) <= Cardinality(Held(files, k, cache.mode))
    BY <1>1, <2>1, HeldRegistered
  <2> QED BY <1>4, <1>10, <2>1, <2>2
<1> QED BY <1>5, <1>6, <1>7, <1>8, <1>9, <1>10 DEF FileStep

(* The file a request downloads, and the two bodies written for it.        *)
LEMMA FileWritten ==
  ASSUME CoreInv, CallsInv, NEW c \in Calls, NEW k, k = calls[c].what, IsFile(k), calls[c].step # "idle"
  PROVE  /\ k \in Files /\ Refusal(k) \in FileRecord /\ Refusal(k).who = Nil
         /\ [file |-> k, who |-> Owner(calls[c].tok), ver |-> calls[c].ver, age |-> 0, is |-> "cached"] \in FileRecord
<1>1. k \in Files
  BY CacheAssumption DEF CallsInv, CallsKnown, IsFile
<1>2. calls[c] \in CallRecord /\ calls[c].ver \in {0, 1} /\ calls[c].tok \in Issued
  BY DEF CallsInv, CallTypeOK, CallsKnown, CallRecord
<1>3. Owner(calls[c].tok) \in Accounts \cup {Nil}
  BY <1>2 DEF CoreInv, ServerTypeOK, Owner, Issued
<1> QED BY <1>1, <1>2, <1>3 DEF Refusal, FileRecord

(* Every step changes the files in one of the six ways.                    *)
LEMMA FileSteps ==
  ASSUME CoreInv, CallsInv, CacheTypeOK, [Next]_vars
  PROVE  FileStep
<1>1. CASE UNCHANGED <<files, cache>>
  BY <1>1 DEF FileStep
<1>2. CASE \/ SessionAnswer /\ UNCHANGED cacheVars
           \/ SessionAct /\ UNCHANGED cacheVars
           \/ ((\E f \in Flight : FlightLost(f)) \/ ResolveFails) /\ UNCHANGED cacheVars
           \/ UNCHANGED vars
  BY <1>1, <1>2 DEF cacheVars, vars
<1>3. CASE CacheAnswer
  <2>1. CASE PurgeFiles \/ PurgeMeta
    BY <2>1 DEF PurgeFiles, PurgeMeta, FileStep
  <2>2. CASE \E c \in Calls : SlotGiven(c) \/ Downloaded(c)
    BY <1>1, <2>2 DEF SlotGiven, Downloaded, cacheVars
  <2>3. ASSUME NEW c \in Calls, Stored(c)
        PROVE  FileStep
    <3> DEFINE k == calls[c].what
               e == [file |-> k, who |-> Owner(calls[c].tok), ver |-> calls[c].ver, age |-> 0, is |-> "cached"]
    <3>1. calls[c].step = "body" /\ k \in Files /\ IsFile(k)
      BY <2>3, CacheAssumption DEF Stored, CallsInv, CallTypeOK, IsFile
    <3>2. e \in FileRecord
      BY <3>1, FileWritten
    <3>3. e.file = k
      OBVIOUS
    <3>4. /\ files' = IF client = "mobile" /\ KindOf[k] = "crop" THEN Written(files, e)
                      ELSE Enforced(Written(files, e), cache.mode)
          /\ cache' = cache
      BY <2>3 DEF Stored
    <3> HIDE DEF e
    <3>5. client = "mobile" /\ KindOf[k] = "crop" => ~Limited(e.file, cache.mode)
      BY <3>3 DEF Limited
    <3> QED BY <3>2, <3>4, <3>5 DEF FileStep
  <2>4. ASSUME NEW c \in Calls, Refused(c)
        PROVE  FileStep
    <3>1. calls[c].step = "sent" /\ cache' = cache
      BY <2>4 DEF Refused, Unauthorized
    <3>2. CASE files' = files
      BY <1>1, <3>1, <3>2
    <3>3. CASE files' = Written(files, Refusal(calls[c].what)) /\ IsFile(calls[c].what)
      BY <3>1, <3>3, FileWritten DEF FileStep
    <3> QED BY <2>4, <3>2, <3>3 DEF Refused
  <2>5. CASE \E c \in Calls : Failed(c)
    BY <2>5 DEF Failed, FileStep
  <2> QED BY <1>3, <2>1, <2>2, <2>3, <2>4, <2>5 DEF CacheAnswer, CacheReply
<1>4. CASE CacheAct
  <2>1. CASE (\E c \in Calls, k \in Files, urge \in {"high", "low"} : Ensure(c, k, urge)) \/ Recorded
    BY <1>1, <2>1 DEF Ensure, Recorded, cacheVars
  <2>2. CASE \E e \in files : Touched(e)
    BY <2>2 DEF Touched, FileStep
  <2>3. CASE \E p \in Photos : SetKeyPhoto(p)
    BY <2>3 DEF SetKeyPhoto, FileStep
  <2>4. CASE PrefetchPreviews
    BY <2>4 DEF PrefetchPreviews, Evicted, CacheTypeOK, FileStep
  <2>5. CASE PrefetchOriginals
    BY <2>5 DEF PrefetchOriginals, Evicted, CacheTypeOK, FileStep
  <2>6. ASSUME NEW mode \in Mode, ModeChanged(mode)
        PROVE  FileStep
    <3>1. cache'.mode = mode /\ files' = Enforced(files, mode)
      BY <2>6 DEF ModeChanged, CacheTypeOK
    <3> QED BY <3>1 DEF FileStep
  <2>7. ASSUME NEW n \in 0..1, CountChanged(n)
        PROVE  FileStep
    BY <2>7 DEF CountChanged, Evicted, CacheTypeOK, FileStep
  <2> QED BY <1>4, <2>1, <2>2, <2>3, <2>4, <2>5, <2>6, <2>7 DEF CacheAct
<1>5. CASE CacheRestart
  <2>1. cache'.mode = cache.mode
    BY <1>5 DEF CacheRestart, CacheTypeOK
  <2> QED BY <1>5, <2>1 DEF CacheRestart, Registered, FileStep
<1> QED BY <1>2, <1>3, <1>4, <1>5 DEF Next

(* The settings, the versions and the metadata keep their types.           *)
LEMMA CacheTyped ==
  ASSUME CoreInv, CacheTypeOK, [Next]_vars
  PROVE  /\ cache' \in [mode: Mode, count: Nat, previews: BOOLEAN, originals: BOOLEAN, window: SUBSET Photos]
         /\ bytes' \in [Photos -> {0, 1}] /\ meta' \in SUBSET Accounts
<1> DEFINE Settings == [mode: Mode, count: Nat, previews: BOOLEAN, originals: BOOLEAN, window: SUBSET Photos]
<1>0. cache \in Settings /\ bytes \in [Photos -> {0, 1}] /\ meta \in SUBSET Accounts
  BY DEF CacheTypeOK
<1>1. CASE UNCHANGED <<cache, bytes, meta>>
  BY <1>0, <1>1
<1>2. CASE \/ SessionAnswer /\ UNCHANGED cacheVars
           \/ SessionAct /\ UNCHANGED cacheVars
           \/ ((\E f \in Flight : FlightLost(f)) \/ ResolveFails) /\ UNCHANGED cacheVars
           \/ UNCHANGED vars
  BY <1>1, <1>2 DEF cacheVars, vars
<1>3. CASE CacheAnswer
  <2>1. CASE PurgeFiles \/ PurgeMeta
    BY <1>0, <2>1 DEF PurgeFiles, PurgeMeta
  <2>2. CASE \E c \in Calls : SlotGiven(c) \/ Downloaded(c) \/ Stored(c) \/ Refused(c) \/ Failed(c)
    BY <1>1, <2>2 DEF SlotGiven, Downloaded, Stored, Refused, Failed, cacheVars
  <2> QED BY <1>3, <2>1, <2>2 DEF CacheAnswer, CacheReply
<1>4. CASE CacheAct
  <2>1. CASE (\E c \in Calls, k \in Files, urge \in {"high", "low"} : Ensure(c, k, urge))
             \/ \E e \in files : Touched(e)
    BY <1>1, <2>1 DEF Ensure, Touched, cacheVars
  <2>2. CASE Recorded
    <3>1. ui.user \in Accounts
      BY <2>2 DEF Recorded, CoreInv, ClientTypeOK, Mobile
    <3> QED BY <1>0, <2>2, <3>1 DEF Recorded
  <2>3. CASE \E p \in Photos : SetKeyPhoto(p)
    BY <1>0, <2>3 DEF SetKeyPhoto
  <2>4. CASE PrefetchPreviews
    BY <1>0, <2>4 DEF PrefetchPreviews, NotCacheActs
  <2>5. CASE PrefetchOriginals
    <3>1. Window(cache.count) \in SUBSET Photos
      BY DEF Window, Photos
    <3> QED BY <1>0, <2>5, <3>1 DEF PrefetchOriginals, NotCacheActs
  <2>6. CASE \E mode \in Mode : ModeChanged(mode)
    BY <1>0, <2>6 DEF ModeChanged, NotCacheActs
  <2>7. ASSUME NEW n \in 0..1, CountChanged(n)
        PROVE  cache' \in Settings /\ UNCHANGED <<bytes, meta>>
    <3>1. cache.window \cap Window(n) \in SUBSET Photos
      BY <1>0
    <3>2. n \in Nat
      OBVIOUS
    <3> QED BY <1>0, <2>7, <3>1, <3>2 DEF CountChanged, NotCacheActs
  <2> QED BY <1>0, <1>4, <2>1, <2>2, <2>3, <2>4, <2>5, <2>6, <2>7 DEF CacheAct
<1>5. CASE CacheRestart
  BY <1>0, <1>5 DEF CacheRestart
<1> QED BY <1>2, <1>3, <1>4, <1>5 DEF Next

-----------------------------------------------------------------------------
(* Whose the files and the metadata are.                                   *)

LEMMA SlipsGrow ==
  ASSUME [Next]_vars
  PROVE  slips \subseteq slips'
<1>1. CASE \E k \in Form : Submitted(k)
  BY <1>1 DEF Submitted, Slip
<1>2. CASE \E f \in Flight : FlightServed(f) \/ FlightLost(f) \/ FlightAnswered(f)
  BY <1>2 DEF FlightServed, FlightLost, FlightAnswered, Slip
<1>3. CASE \E c \in Calls : Accepted(c) \/ Unauthorized(c)
  BY <1>3 DEF Accepted, PlanShown, Unauthorized, Slip
<1>4. CASE (\E t \in DOMAIN server.owner : Expire(t)) \/ SignOut
  <2>1. ASSUME NEW t, Expire(t)
        PROVE  slips \subseteq slips'
    BY <2>1 DEF Expire
  <2>2. CASE SignOut
    BY <2>2 DEF SignOut
  <2> QED BY <1>4, <2>1, <2>2
<1>5. CASE (\E t \in leaving : LogoutEnds(t)) \/ Restart
  <2>1. ASSUME NEW t, LogoutEnds(t)
        PROVE  slips \subseteq slips'
    BY <2>1 DEF LogoutEnds, Slip
  <2>2. CASE Restart
    BY <2>2 DEF Restart, Slip
  <2> QED BY <1>5, <2>1, <2>2
<1>6. CASE Resolve \/ ResolveFails \/ Restore
  BY <1>6 DEF Resolve, ResolveFails, Restore, Slip
<1> QED BY CoreOrQuiet, <1>1, <1>2, <1>3, <1>4, <1>5, <1>6 DEF CoreStep, Quiet

(* The phone shows another user only after a login that met no one, and    *)
(* leaves one only by starting a cleanup; the rest is marked as a slip.    *)
LEMMA UserMoves ==
  ASSUME CoreInv, LedgerTypeOK, client = "mobile", [Next]_vars
  PROVE  \/ ui'.user = ui.user \/ ui.user = Nil \/ "login" \in slips' \/ "store" \in slips'
         \/ purges'.files > 0
<1>1. ASSUME NEW n \in Nat, n > 0, PurgeStarts(n)
      PROVE  purges'.files > 0
  BY <1>1 DEF PurgeStarts, LedgerTypeOK
<1>2. CASE UNCHANGED ui
  BY <1>2
<1>3. ASSUME NEW k \in Form, Submitted(k)
      PROVE  ui'.user = ui.user \/ ui.user = Nil \/ "login" \in slips'
  <2>1. CASE UNCHANGED ui
    BY <2>1
  <2>2. ASSUME NEW t, SessionOf(t, forms[k]), Slip("login", ui.user \notin {Nil, forms[k]})
        PROVE  ui'.user = ui.user \/ ui.user = Nil \/ "login" \in slips'
    <3>1. ui'.user = forms[k]
      BY <2>2 DEF SessionOf, CoreInv, ClientTypeOK
    <3> QED BY <2>2, <3>1 DEF Slip
  <2> QED BY <1>3, <2>1, <2>2 DEF Submitted
<1>4. CASE \E f \in Flight : FlightServed(f) \/ FlightLost(f)
  BY <1>2, <1>4 DEF FlightServed, FlightLost
<1>5. ASSUME NEW f \in Flight, FlightAnswered(f)
      PROVE  UNCHANGED ui \/ purges'.files > 0
  <2>1. boot # f
    BY DEF CoreInv, Mobile, Flight
  <2>2. UNCHANGED ui \/ (Ending(f) # {} /\ PurgeStarts(Cardinality(Ending(f))))
    BY <1>5, <2>1 DEF FlightAnswered, SessionEnds
  <2> QED BY <1>1, <2>2, EndingSize
<1>6. ASSUME NEW c \in Calls, Accepted(c)
      PROVE  ui'.user = ui.user
  BY <1>6 DEF Accepted, PlanShown, CoreInv, ClientTypeOK
<1>7. ASSUME NEW c \in Calls, Unauthorized(c)
      PROVE  UNCHANGED ui \/ purges'.files > 0
  <2>1. UNCHANGED ui \/ PurgeStarts(1)
    BY <1>7 DEF Unauthorized, SessionEnds
  <2> QED BY <1>1, <2>1
<1>8. CASE SignOut
  <2>1. PurgeStarts(1)
    BY <1>8 DEF SignOut
  <2> QED BY <1>1, <2>1
<1>9. ASSUME NEW t, Expire(t) \/ LogoutEnds(t)
      PROVE  UNCHANGED ui
  BY <1>9 DEF Expire, LogoutEnds
<1>10. CASE Restart
  BY <1>10 DEF Restart, CoreInv, Mobile
<1>11. CASE Resolve
  BY <1>11 DEF Resolve, CoreInv, ClientTypeOK, Mobile
<1>12. CASE ResolveFails
  BY <1>12 DEF ResolveFails, Slip
<1>13. CASE Restore
  BY <1>13 DEF Restore
<1>14. CASE Quiet
  BY <1>2, <1>14 DEF Quiet
<1> QED BY CoreOrQuiet, <1>3, <1>4, <1>5, <1>6, <1>7, <1>8, <1>9, <1>10, <1>11, <1>12, <1>13, <1>14 DEF CoreStep

(* A cleanup is over only when it did its work, or the app was killed.     *)
LEMMA PurgeMoves ==
  ASSUME LedgerTypeOK, [Next]_vars
  PROVE  \/ "purge" \in slips'
         \/ /\ purges'.files = 0 => purges.files = 0 \/ files' = {}
            /\ purges'.files + purges'.meta = 0 => purges.files + purges.meta = 0 \/ meta' = {}
<1>0. purges \in [files: Nat, meta: Nat]
  BY DEF LedgerTypeOK
<1>1. CASE UNCHANGED purges
  BY <1>1
<1>2. ASSUME NEW n \in Nat, PurgeStarts(n)
      PROVE  /\ purges'.files = 0 => purges.files = 0
             /\ purges'.files + purges'.meta = 0 => purges.files + purges.meta = 0
  BY <1>0, <1>2 DEF PurgeStarts
<1>3. CASE PurgeFiles
  BY <1>0, <1>3 DEF PurgeFiles
<1>4. CASE PurgeMeta
  BY <1>0, <1>4 DEF PurgeMeta
<1>5. CASE CacheRestart
  BY <1>0, <1>5 DEF CacheRestart, Restart, Slip
<1>6. ASSUME NEW f \in Flight, FlightAnswered(f)
      PROVE  UNCHANGED purges \/ \E n \in Nat : PurgeStarts(n)
  BY <1>6, EndingSize DEF FlightAnswered, SessionEnds
<1>7. ASSUME NEW c \in Calls, Refused(c)
      PROVE  UNCHANGED purges \/ PurgeStarts(1)
  BY <1>7 DEF Refused, Unauthorized, SessionEnds
<1>8. CASE SignOut
  <2>1. PurgeStarts(1)
    BY <1>8 DEF SignOut
  <2> QED BY <1>2, <2>1
<1>9. CASE SessionAnswer
  <2>1. CASE \/ \E k \in Form : Submitted(k)
             \/ \E f \in Flight : FlightServed(f)
             \/ \E c \in Calls : Accepted(c)
    BY <1>1, <2>1 DEF Submitted, FlightServed, Accepted
  <2>2. CASE (\E t \in leaving : LogoutEnds(t)) \/ Resolve \/ Restore
    <3>1. ASSUME NEW t, LogoutEnds(t)
          PROVE  UNCHANGED purges
      BY <3>1 DEF LogoutEnds
    <3>2. CASE Resolve \/ Restore
      BY <1>1, <3>2 DEF Resolve, Restore
    <3> QED BY <1>1, <2>2, <3>1, <3>2
  <2> QED BY <1>1, <1>2, <1>6, <1>9, <2>1, <2>2 DEF SessionAnswer, SessionReply
<1>10. CASE SessionAct
  <2>1. ASSUME NEW k, NEW who, Submit(k, who)
        PROVE  UNCHANGED purges
    BY <2>1 DEF Submit
  <2>2. ASSUME NEW c, NEW what, Call(c, what)
        PROVE  UNCHANGED purges
    BY <2>2 DEF Call
  <2>3. ASSUME NEW t, Expire(t)
        PROVE  UNCHANGED purges
    BY <2>3 DEF Expire
  <2> QED BY <1>1, <1>8, <1>10, <2>1, <2>2, <2>3 DEF SessionAct
<1>11. CASE (\E f \in Flight : FlightLost(f)) \/ ResolveFails
  BY <1>1, <1>11 DEF FlightLost, ResolveFails
<1>12. CASE \E c \in Calls : SlotGiven(c) \/ Downloaded(c) \/ Stored(c) \/ Failed(c)
  BY <1>1, <1>12 DEF SlotGiven, Downloaded, Stored, Failed, CallFails
<1>13. CASE CacheAct
  <2>1. CASE \/ \E c \in Calls, k \in Files, urge \in {"high", "low"} : Ensure(c, k, urge)
             \/ \E e \in files : Touched(e)
             \/ \E p \in Photos : SetKeyPhoto(p)
             \/ Recorded
    BY <1>1, <2>1 DEF Ensure, Touched, SetKeyPhoto, Recorded
  <2>2. CASE \/ PrefetchPreviews \/ PrefetchOriginals
             \/ (\E mode \in Mode : ModeChanged(mode)) \/ \E n \in 0..1 : CountChanged(n)
    BY <1>1, <2>2 DEF PrefetchPreviews, PrefetchOriginals, ModeChanged, CountChanged, NotCacheActs
  <2> QED BY <1>13, <2>1, <2>2 DEF CacheAct
<1>14. CASE UNCHANGED vars
  BY <1>1, <1>14 DEF vars, sessionVars
<1>15. CASE CacheAnswer
  BY <1>1, <1>2, <1>3, <1>4, <1>7, <1>12, <1>15 DEF CacheAnswer, CacheReply
<1> QED BY <1>5, <1>9, <1>10, <1>11, <1>13, <1>14, <1>15 DEF Next

(* Metadata is recorded for the user shown, on the phone only.             *)
LEMMA MetaMoves ==
  ASSUME [Next]_vars
  PROVE  \/ meta' = meta \/ meta' = {}
         \/ client = "mobile" /\ ui.phase = "in" /\ UNCHANGED ui /\ meta' = meta \cup {ui.user}
<1>1. CASE UNCHANGED meta
  BY <1>1
<1>2. CASE CacheAnswer
  BY <1>2 DEF CacheAnswer, CacheReply, PurgeFiles, PurgeMeta, SlotGiven, Downloaded, Stored, Refused, Failed, cacheVars
<1>3. CASE CacheAct
  <2>1. CASE \/ \E c \in Calls, k \in Files, urge \in {"high", "low"} : Ensure(c, k, urge)
             \/ \E e \in files : Touched(e)
             \/ \E p \in Photos : SetKeyPhoto(p)
    BY <1>1, <2>1 DEF Ensure, Touched, SetKeyPhoto, cacheVars
  <2>2. CASE Recorded
    BY <2>2 DEF Recorded
  <2>3. CASE \/ PrefetchPreviews \/ PrefetchOriginals
             \/ (\E mode \in Mode : ModeChanged(mode)) \/ \E n \in 0..1 : CountChanged(n)
    BY <1>1, <2>3 DEF PrefetchPreviews, PrefetchOriginals, ModeChanged, CountChanged, NotCacheActs
  <2> QED BY <1>3, <2>1, <2>2, <2>3 DEF CacheAct
<1>4. CASE CacheRestart
  BY <1>4 DEF CacheRestart
<1>5. CASE UNCHANGED cacheVars \/ UNCHANGED vars
  BY <1>5 DEF vars, cacheVars
<1> QED BY <1>2, <1>3, <1>4, <1>5 DEF Next

LEMMA MetaKeeps ==
  ASSUME CoreInv, LedgerTypeOK, MetaOwned, LedgerTypeOK', UNCHANGED client, [Next]_vars
  PROVE  MetaOwned'
<1>1. CASE client = "web"
  BY <1>1, MetaMoves DEF MetaOwned
<1>2. CASE client = "mobile"
  <2> SUFFICES ASSUME slips' \cap {"purge", "login", "store"} = {}, purges'.files + purges'.meta = 0
               PROVE  meta' \subseteq {ui'.user} \ {Nil}
    BY <1>2 DEF MetaOwned
  <2>1. slips \cap {"purge", "login", "store"} = {} /\ {"purge", "login", "store"} \cap slips' = {}
    BY SlipsGrow
  <2>2. purges'.files = 0 /\ purges'.meta = 0
    BY DEF LedgerTypeOK
  <2>3. ui'.user = ui.user \/ ui.user = Nil
    BY <1>2, <2>1, <2>2, UserMoves
  <2>4. CASE meta' = {}
    BY <2>4
  <2>5. CASE purges.files + purges.meta = 0
    <3>1. meta \subseteq {ui.user} \ {Nil}
      BY <2>1, <2>5 DEF MetaOwned
    <3>2. ui.phase = "in" => ui.user # Nil
      BY <1>2 DEF CoreInv, Mobile
    <3> QED BY <2>3, <3>1, <3>2, MetaMoves
  <2> QED BY <2>1, <2>4, <2>5, PurgeMoves
<1> QED BY <1>1, <1>2 DEF CoreInv, ClientTypeOK

(* On the phone a new file is the shown user's, or nobody's, or the step   *)
(* is marked; on the web the bytes are those of the server.                *)
LEMMA NewFiles ==
  ASSUME CoreInv, CallsInv, CacheTypeOK, IsFiniteSet(files), [Next]_vars
  PROVE  /\ client = "mobile" => \/ slips' # {}
                                 \/ \A x \in files' : \/ x.who \in {Nil, ui'.user}
                                                      \/ \E y \in files : y.who = x.who
         /\ client = "web" => \/ "load" \in slips'
                              \/ \A x \in files' :
                                   \/ KindOf[x.file] = "crop" \/ x.ver = bytes'[PhotoOf[x.file]]
                                   \/ \E y \in files : /\ y.file = x.file /\ y.ver = x.ver
                                                       /\ bytes'[PhotoOf[y.file]] = bytes[PhotoOf[y.file]]
<1> DEFINE Goal == /\ client = "mobile" =>
                        \/ slips' # {}
                        \/ \A x \in files' : \/ x.who \in {Nil, ui'.user}
                                             \/ \E y \in files : y.who = x.who
                   /\ client = "web" =>
                        \/ "load" \in slips'
                        \/ \A x \in files' :
                             \/ KindOf[x.file] = "crop" \/ x.ver = bytes'[PhotoOf[x.file]]
                             \/ \E y \in files : /\ y.file = x.file /\ y.ver = x.ver
                                                 /\ bytes'[PhotoOf[y.file]] = bytes[PhotoOf[y.file]]
<1>0. files \in SUBSET FileRecord
  BY DEF CacheTypeOK
<1>1. CASE files' \subseteq files /\ UNCHANGED bytes
  BY <1>1
<1>2. ASSUME NEW e \in FileRecord, files' \subseteq Written(files, e), UNCHANGED bytes,
             \/ client = "mobile" /\ (slips' # {} \/ e.who \in {Nil, ui'.user})
             \/ client = "web" /\ ("load" \in slips' \/ KindOf[e.file] = "crop" \/ e.ver = bytes[PhotoOf[e.file]])
      PROVE  Goal
  <2>1. ASSUME NEW x \in files'
        PROVE  x = e \/ \E y \in files : x.file = y.file /\ x.who = y.who /\ x.ver = y.ver
    <3>1. x = e \/ \E y \in files : x = Older(y)
      BY <1>0, <1>2, WrittenFiles
    <3> QED BY <1>0, <3>1, OlderFile
  <2> QED BY <1>2, <2>1
<1>3. ASSUME NEW c \in Calls, Stored(c)
      PROVE  Goal
  <2> DEFINE k == calls[c].what
             e == [file |-> k, who |-> Owner(calls[c].tok), ver |-> calls[c].ver, age |-> 0, is |-> "cached"]
  <2>1. calls[c].step = "body" /\ k \in Files /\ IsFile(k) /\ UNCHANGED <<ui, bytes>>
    BY <1>3, CacheAssumption DEF Stored, CallsInv, CallTypeOK, IsFile
  <2>2. e \in FileRecord
    BY <2>1, FileWritten
  <2>3. e.file = k
    OBVIOUS
  <2>4. /\ files' = IF client = "mobile" /\ KindOf[k] = "crop" THEN Written(files, e)
                    ELSE Enforced(Written(files, e), cache.mode)
        /\ Slip(IF client = "mobile" THEN "download" ELSE "load",
                IF client = "mobile" THEN e.who # ui.user
                ELSE KindOf[k] # "crop" /\ e.ver # bytes[PhotoOf[k]])
    BY <1>3 DEF Stored
  <2> HIDE DEF e, k
  <2>5. files' \subseteq Written(files, e)
    BY <2>4 DEF Enforced
  <2>6. CASE client = "mobile"
    <3>1. slips' # {} \/ e.who = ui'.user
      BY <2>1, <2>4, <2>6 DEF Slip
    <3> QED BY <1>2, <2>1, <2>2, <2>5, <2>6, <3>1
  <2>7. CASE client = "web"
    <3>1. "load" \in slips' \/ KindOf[e.file] = "crop" \/ e.ver = bytes[PhotoOf[e.file]]
      BY <2>3, <2>4, <2>7 DEF Slip
    <3> QED BY <1>2, <2>1, <2>2, <2>5, <2>7, <3>1
  <2> QED BY <2>6, <2>7 DEF CoreInv, ClientTypeOK
<1>4. ASSUME NEW c \in Calls, Refused(c)
      PROVE  Goal
  <2>1. calls[c].step = "sent" /\ UNCHANGED bytes
    BY <1>4 DEF Refused, Unauthorized
  <2>2. CASE files' = files
    BY <1>1, <2>1, <2>2
  <2>3. CASE client = "mobile" /\ IsFile(calls[c].what) /\ files' = Written(files, Refusal(calls[c].what))
    <3>1. Refusal(calls[c].what) \in FileRecord /\ Refusal(calls[c].what).who = Nil
      BY <2>1, <2>3, FileWritten
    <3> QED BY <1>2, <2>1, <2>3, <3>1
  <2> QED BY <1>4, <2>2, <2>3 DEF Refused
<1>5. ASSUME NEW e \in files, Touched(e)
      PROVE  Goal
  <2>1. PICK e0 : e0 = [e EXCEPT !.age = 0]
    OBVIOUS
  <2>2. e0 \in FileRecord /\ e0.file = e.file /\ e0.who = e.who /\ e0.ver = e.ver
    BY <1>0, <2>1 DEF FileRecord
  <2>3. client = "web" /\ UNCHANGED bytes /\ files' = Written(files, e0)
    BY <1>5, <2>1 DEF Touched
  <2>4. ASSUME NEW x \in files'
        PROVE  \E y \in files : x.file = y.file /\ x.ver = y.ver
    <3>1. x = e0 \/ \E y \in files : x = Older(y)
      BY <1>0, <2>2, <2>3, WrittenFiles
    <3> QED BY <1>0, <2>2, <3>1, OlderFile
  <2> QED BY <2>3, <2>4
<1>6. ASSUME NEW p \in Photos, SetKeyPhoto(p)
      PROVE  Goal
  <2>1. client = "web" /\ bytes' = [bytes EXCEPT ![p] = 1] /\ files' \subseteq files
    BY <1>6 DEF SetKeyPhoto
  <2>2. CASE "load" \in slips'
    BY <2>1, <2>2
  <2>3. CASE files' = {e \in files : PhotoOf[e.file] # p \/ KindOf[e.file] = "crop"}
    <3>1. \A y \in files : PhotoOf[y.file] # p => bytes'[PhotoOf[y.file]] = bytes[PhotoOf[y.file]]
      <4>1. \A y \in files : y.file \in Files /\ PhotoOf[y.file] \in Photos
        BY <1>0, CacheAssumption DEF FileRecord, Photos
      <4> QED BY <2>1, <4>1 DEF CacheTypeOK
    <3> QED BY <2>1, <2>3, <3>1
  <2> QED BY <1>6, <2>2, <2>3 DEF SetKeyPhoto, Slip
<1>7. CASE CacheRestart
  <2>1. UNCHANGED <<client, bytes>> /\ (client = "web" => files' = {}) /\ (client # "web" => files' = {Registered(x) : x \in files})
    BY <1>7 DEF CacheRestart, Restart, Registered
  <2>2. CASE client = "web"
    BY <2>1, <2>2
  <2>3. CASE client = "mobile"
    <3>1. \A x \in files : Registered(x).who = x.who
      BY <1>0 DEF Registered, FileRecord
    <3> QED BY <2>1, <2>3, <3>1
  <2> QED BY <2>2, <2>3 DEF CoreInv, ClientTypeOK
<1>8. CASE CacheAnswer
  <2>1. CASE \/ PurgeFiles \/ PurgeMeta
             \/ \E c \in Calls : SlotGiven(c) \/ Downloaded(c) \/ Failed(c)
    BY <1>1, <2>1 DEF PurgeFiles, PurgeMeta, SlotGiven, Downloaded, Failed, cacheVars
  <2> QED BY <1>3, <1>4, <1>8, <2>1 DEF CacheAnswer, CacheReply
<1>9. CASE CacheAct
  <2>1. CASE (\E c \in Calls, k \in Files, urge \in {"high", "low"} : Ensure(c, k, urge)) \/ Recorded
    BY <1>1, <2>1 DEF Ensure, Recorded, cacheVars
  <2>2. CASE \/ PrefetchPreviews \/ PrefetchOriginals
             \/ (\E mode \in Mode : ModeChanged(mode)) \/ \E n \in 0..1 : CountChanged(n)
    BY <1>1, <2>2 DEF PrefetchPreviews, PrefetchOriginals, ModeChanged, CountChanged, NotCacheActs,
                      Evicted, Enforced
  <2> QED BY <1>5, <1>6, <1>9, <2>1, <2>2 DEF CacheAct
<1>10. CASE UNCHANGED cacheVars \/ UNCHANGED vars
  BY <1>1, <1>10 DEF vars, cacheVars
<1> QED BY <1>7, <1>8, <1>9, <1>10 DEF Next

LEMMA FilesKeep ==
  ASSUME CoreInv, LedgerTypeOK, CallsInv, CacheTypeOK, IsFiniteSet(files), FilesOwned, UNCHANGED client, [Next]_vars
  PROVE  FilesOwned'
<1>1. CASE client = "mobile"
  <2> SUFFICES ASSUME slips' = {}, purges'.files = 0
               PROVE  \A x \in files' : x.who \in {ui'.user, Nil}
    BY <1>1 DEF FilesOwned
  <2>1. slips = {}
    BY SlipsGrow
  <2>2. ui'.user = ui.user \/ ui.user = Nil
    BY <1>1, UserMoves
  <2>3. CASE purges.files = 0
    <3>1. \A y \in files : y.who \in {ui.user, Nil}
      BY <1>1, <2>1, <2>3 DEF FilesOwned
    <3> QED BY <1>1, <2>2, <3>1, NewFiles
  <2> QED BY <2>3, PurgeMoves
<1>2. CASE client = "web"
  <2> SUFFICES ASSUME "load" \notin slips'
               PROVE  \A x \in files' : KindOf[x.file] = "crop" \/ x.ver = bytes'[PhotoOf[x.file]]
    BY <1>2 DEF FilesOwned
  <2>1. \A y \in files : KindOf[y.file] = "crop" \/ y.ver = bytes[PhotoOf[y.file]]
    BY <1>2, SlipsGrow DEF FilesOwned
  <2> QED BY <1>2, <2>1, NewFiles
<1> QED BY <1>1, <1>2 DEF CoreInv, ClientTypeOK

-----------------------------------------------------------------------------
(* The invariant.                                                          *)

LEMMA SameClient ==
  ASSUME [Next]_vars
  PROVE  UNCHANGED client
<1>1. CASE \/ \E k \in Form : Submitted(k)
           \/ \E f \in Flight : FlightServed(f) \/ FlightLost(f) \/ FlightAnswered(f)
           \/ \E c \in Calls : Accepted(c) \/ Unauthorized(c)
  BY <1>1 DEF Submitted, FlightServed, FlightLost, FlightAnswered, Accepted, Unauthorized
<1>2. ASSUME NEW t, Expire(t) \/ LogoutEnds(t)
      PROVE  UNCHANGED client
  BY <1>2 DEF Expire, LogoutEnds
<1>3. CASE SignOut \/ Restart
  BY <1>3 DEF SignOut, Restart
<1>4. CASE Resolve \/ ResolveFails \/ Restore
  BY <1>4 DEF Resolve, ResolveFails, Restore
<1> QED BY CoreOrQuiet, <1>1, <1>2, <1>3, <1>4 DEF CoreStep, Quiet

LEMMA SessionStarts ==
  ASSUME Init
  PROVE  SessionInv
<1>1. /\ client \in {"mobile", "web"} /\ current = 0 /\ boot = 0 /\ slips = {}
      /\ purges = [files |-> 0, meta |-> 0] /\ mishaps = 0 /\ acts = 0
      /\ flights = [f \in Flight |-> NoFlight] /\ calls = [c \in Calls |-> NoCall]
      /\ forms = [k \in Form |-> Nil] /\ files = {} /\ meta = {} /\ bytes = [p \in Photos |-> 0]
      /\ cache = [mode |-> "default", count |-> 0, previews |-> FALSE, originals |-> FALSE, window |-> {}]
  BY DEF Init, SessionInit, CacheInit
<1>2. \/ /\ mem = [access |-> 0, refresh |-> 0]
         /\ kept = [token |-> 0, user |-> Nil, plan |-> Nil]
         /\ server = [owner |-> <<>>, live |-> {}, fresh |-> {}]
         /\ ui = [phase |-> "out", user |-> Nil, plan |-> Nil]
      \/ \E who \in Accounts :
           /\ mem = [access |-> 1, refresh |-> 1]
           /\ kept = [token |-> 1, user |-> who, plan |-> Nil]
           /\ server = [owner |-> <<who>>, live |-> {1}, fresh |-> {1}]
           /\ ui = [phase |-> "in", user |-> who, plan |-> Nil]
  BY DEF Init, SessionInit, NoTokens
<1>3. 0 \in Token /\ 1 \in Token
  BY SessionAssumption DEF Token
<1>4. \A f \in Flight : flights[f] = NoFlight /\ ~Flying(f) /\ flights[f].step = "free"
  BY <1>1 DEF NoFlight, Flying
<1>5. NoFlight \in FlightRecord /\ NoCall \in CallRecord /\ NoCall.step = "idle" /\ NoCall.tok = 0
  BY DEF NoFlight, NoCall, FlightRecord, CallRecord
<1>6. ClientTypeOK
  BY <1>1, <1>2, <1>3 DEF ClientTypeOK
<1>7. FlightTypeOK
  BY <1>1, <1>5 DEF FlightTypeOK
<1>8. LedgerTypeOK
  BY <1>1 DEF LedgerTypeOK
<1>9. /\ ServerTypeOK /\ Len(server.owner) \in {0, 1} /\ Len(server.owner) \in Nat
      /\ mem.access = mem.refresh /\ kept.token = mem.refresh /\ mem.refresh \in 0..Len(server.owner)
      /\ mem.refresh # 0 => server.owner[mem.refresh] = ui.user /\ kept.user = ui.user
      /\ ui.phase # "restoring"
      /\ kept.user = ui.user /\ kept.plan = Nil /\ ui.plan = Nil /\ (ui.phase = "in" => ui.user # Nil)
      /\ (kept.token # 0 <=> kept.user # Nil)
  <2>1. CASE /\ mem = [access |-> 0, refresh |-> 0]
             /\ kept = [token |-> 0, user |-> Nil, plan |-> Nil]
             /\ server = [owner |-> <<>>, live |-> {}, fresh |-> {}]
             /\ ui = [phase |-> "out", user |-> Nil, plan |-> Nil]
    <3>1. <<>> \in Seq(Accounts) /\ Len(<<>>) = 0
      OBVIOUS
    <3> QED BY <2>1, <3>1 DEF ServerTypeOK
  <2>2. ASSUME NEW who \in Accounts, mem = [access |-> 1, refresh |-> 1],
               kept = [token |-> 1, user |-> who, plan |-> Nil],
               server = [owner |-> <<who>>, live |-> {1}, fresh |-> {1}],
               ui = [phase |-> "in", user |-> who, plan |-> Nil]
        PROVE  /\ ServerTypeOK /\ Len(server.owner) \in {0, 1} /\ Len(server.owner) \in Nat
               /\ mem.access = mem.refresh /\ kept.token = mem.refresh /\ mem.refresh \in 0..Len(server.owner)
               /\ mem.refresh # 0 => server.owner[mem.refresh] = ui.user /\ kept.user = ui.user
               /\ ui.phase # "restoring"
               /\ kept.user = ui.user /\ kept.plan = Nil /\ ui.plan = Nil /\ (ui.phase = "in" => ui.user # Nil)
               /\ (kept.token # 0 <=> kept.user # Nil)
    <3>1. <<who>> \in Seq(Accounts) /\ Len(<<who>>) = 1 /\ <<who>>[1] = who /\ DOMAIN <<who>> = {1}
      OBVIOUS
    <3>2. ServerTypeOK
      BY <1>3, <2>2, <3>1 DEF ServerTypeOK
    <3>3. who # Nil
      BY SessionAssumption
    <3> QED BY <2>2, <3>1, <3>2, <3>3
  <2> QED BY <1>2, <2>1, <2>2
<1>10. TokensKnown
  <2>1. Len(server.owner) <= MaxTokens
    <3>1. MaxTokens \in Nat /\ MaxTokens # 0 /\ Len(server.owner) \in {0, 1}
      BY <1>9, SessionAssumption
    <3>2. \A n \in {0, 1} : n <= MaxTokens
      BY <3>1
    <3> QED BY <3>1, <3>2
  <2>2. mem.access \in Issued /\ mem.refresh \in Issued /\ kept.token \in Issued
    BY <1>9 DEF Issued
  <2>3. \A f \in Flight : ~Flying(f) /\ flights[f].step # "ok"
    BY <1>4
  <2> QED BY <1>9, <2>1, <2>2, <2>3 DEF TokensKnown
<1>11. Rotated
  BY <1>4 DEF Rotated, RotatedOnce
<1>12. Mobile /\ Web
  BY <1>1, <1>9 DEF Mobile, Web
<1>13. TokensOwned /\ PlanOwned
  BY <1>9 DEF TokensOwned, PlanOwned, Owner
<1>14. CoreInv
  BY <1>6, <1>7, <1>9, <1>10, <1>11, <1>12, <1>13 DEF CoreInv
<1>15. \A c \in Calls : calls[c] = NoCall /\ calls[c].step = "idle" /\ calls[c].tok = 0
  BY <1>1, <1>5
<1>16. CallTypeOK /\ CallsKnown /\ DownloadsDistinct
  BY <1>1, <1>5, <1>9, <1>15 DEF CallTypeOK, CallsKnown, DownloadsDistinct, Issued
<1>17. SlotsBounded
  <2>1. Active = {}
    BY <1>15 DEF Active
  <2>2. Cardinality(Active) = 0
    BY <2>1, FS_EmptySet
  <2> QED BY <2>2, CacheAssumption DEF SlotsBounded
<1>18. CacheTypeOK
  BY <1>1 DEF CacheTypeOK, Mode
<1>19. IsFiniteSet(files) /\ ShelvesBounded
  <2>1. \A k, mode : Held(files, k, mode) = {}
    BY <1>1 DEF Held
  <2>2. \A k, mode : Cardinality(Held(files, k, mode)) = 0
    BY <2>1, FS_EmptySet
  <2> QED BY <1>1, <2>2, FS_EmptySet, CacheAssumption DEF ShelvesBounded
<1>20. MetaOwned /\ FilesOwned
  BY <1>1 DEF MetaOwned, FilesOwned
<1> QED BY <1>8, <1>14, <1>16, <1>17, <1>18, <1>19, <1>20 DEF SessionInv, CallsInv

LEMMA SessionStep ==
  ASSUME SessionInv, [Next]_vars
  PROVE  SessionInv'
<1>0. /\ CoreInv /\ LedgerTypeOK /\ CallsInv /\ CacheTypeOK /\ MetaOwned /\ FilesOwned
      /\ IsFiniteSet(files) /\ ShelvesBounded /\ CallsKnown
  BY DEF SessionInv, CallsInv
<1>1. UNCHANGED client
  BY SameClient
<1>2. CoreInv'
  BY <1>0, CoreKeeps
<1>3. LedgerTypeOK'
  BY <1>0, LedgerKeeps
<1>4. CallsInv'
  BY <1>0, <1>2, CallsKeep
<1>5. files' \in SUBSET FileRecord /\ IsFiniteSet(files') /\ ShelvesBounded'
  BY <1>0, <1>1, FileSteps, FileStepKeeps
<1>6. CacheTypeOK'
  BY <1>0, <1>5, CacheTyped DEF CacheTypeOK
<1>7. MetaOwned'
  BY <1>0, <1>1, <1>3, MetaKeeps
<1>8. FilesOwned'
  BY <1>0, <1>1, FilesKeep
<1> QED BY <1>2, <1>3, <1>4, <1>5, <1>6, <1>7, <1>8 DEF SessionInv

(* The inductive invariant of the sessions and the caches.                 *)
THEOREM SessionHolds == Spec => []SessionInv
<1>1. Init => SessionInv
  BY SessionStarts
<1>2. SessionInv /\ [Next]_vars => SessionInv'
  BY SessionStep
<1> QED BY <1>1, <1>2, PTL DEF Spec

(* Types, and the flights and slots the records rely on: the refresh that  *)
(* refreshInFlight names, the one a request waits for and the one a        *)
(* restore waits for are always under way.                                 *)
THEOREM SessionTyped == Spec => []SessionTypeOK
<1>1. SessionInv => SessionTypeOK
  BY DEF SessionInv, CoreInv, CallsInv, SessionTypeOK
<1> QED BY <1>1, SessionHolds, PTL

(* Everything the client holds (tokens, plan, metadata, files) belongs to  *)
(* the user it shows, save for the late answers and cut-short cleanups     *)
(* the property names.                                                     *)
THEOREM NothingElseMixes == Spec => []OnlyLateAnswersMix
<1>1. SessionInv => OnlyLateAnswersMix
  <2> SUFFICES ASSUME SessionInv PROVE OnlyLateAnswersMix
    OBVIOUS
  <2>1. /\ "refresh" \notin slips => \A t \in {mem.access, mem.refresh} \ {0} :
                                       "logout" \in slips \/ Owner(t) = ui.user \/ ui.phase = "restoring"
        /\ "refresh" \notin slips /\ kept.user # Nil /\ kept.token # 0 => Owner(kept.token) = kept.user
    BY DEF SessionInv, CoreInv, TokensOwned
  <2>2. slips \cap {"plan", "login", "refresh", "store"} = {} /\ ui.phase = "in" => ui.plan \in {Nil, ui.user}
    BY DEF SessionInv, CoreInv, PlanOwned
  <2>3. slips \cap {"purge", "login", "store"} = {} /\ purges.files + purges.meta = 0 /\ ui.phase # "restoring"
          => meta \subseteq {ui.user}
    BY DEF SessionInv, MetaOwned
  <2>4. /\ client = "mobile" /\ slips = {} /\ purges.files = 0 /\ ui.phase # "restoring"
             => \A e \in files : e.who \in {ui.user, Nil}
        /\ client = "web" /\ "load" \notin slips
             => \A e \in files : KindOf[e.file] = "crop" \/ e.ver = bytes[PhotoOf[e.file]]
    BY DEF SessionInv, FilesOwned
  <2> QED BY <2>1, <2>2, <2>3, <2>4 DEF OnlyLateAnswersMix
<1> QED BY <1>1, SessionHolds, PTL

(* A refresh token is presented once, however many requests are refused    *)
(* at the same time.                                                       *)
THEOREM PresentedOnce == Spec => []RefreshOnce
<1>1. SessionInv => RefreshOnce
  BY DEF SessionInv, CoreInv, Rotated, RotatedOnce, Flying, RefreshOnce
<1> QED BY <1>1, SessionHolds, PTL

(* A limited cache stays within its ceiling, downloads within their slots, *)
(* and no file is downloaded twice at once, for any sizes of them.         *)
THEOREM CachesBounded == Spec => []CacheBounded
<1>1. SessionInv => CacheBounded
  BY DEF SessionInv, CallsInv, ShelvesBounded, SlotsBounded, DownloadsDistinct, Held, CacheBounded
<1> QED BY <1>1, SessionHolds, PTL
=============================================================================
