----------------------------- MODULE ApiSession -----------------------------
(***************************************************************************)
(* The session of the two clients: the token pair in memory, what is       *)
(* persisted of it, the single-flight refresh, requests that are retried   *)
(* after a refresh, sign-in, sign-out and the session lost to a rejected   *)
(* refresh.  A token stands for a pair: its access half is valid while it  *)
(* is fresh, its refresh half while it is live; a refresh spends it.       *)
(***************************************************************************)
EXTENDS Integers, Sequences, FiniteSets

CONSTANTS Accounts, Nil,
          MaxCalls,    \* bound on the requests under way
          MaxFlights,  \* bound on the refreshes under way
          Kinds,       \* what they are for: "api", "plan", files
          MaxTokens,   \* bound on the token pairs issued
          Mishaps,     \* failures that may happen
          MaxMishaps,  \* bound on their number
          MaxActs      \* bound on the acts of the user and the clock

ASSUME SessionAssumption ==
  /\ Nil \notin Accounts
  /\ MaxCalls \in Nat /\ MaxFlights \in Nat /\ MaxTokens \in Nat \ {0}
  /\ MaxMishaps \in Nat /\ MaxActs \in Nat

VARIABLES client,   \* which of the two programs runs: "mobile" or "web"
          mem,      \* tokens in memory; 0 is none
          kept,     \* persisted: refresh token, user and the mobile plan
          server,   \* owner of each token, and which are live and fresh
          flights,  \* POST /auth/refresh under way
          current,  \* refreshInFlight
          calls,    \* requests under way
          forms,    \* the credentials the two auth screens are submitting
          ui,       \* the account store: phase and user
          boot,     \* web: the flight restoreSession awaits
          leaving,  \* the tokens POST /auth/logout is revoking
          purges,   \* mobile: cleanups that have files, or metadata, to drop
          slips,    \* which kinds of late answer met a session not their own
          mishaps, acts

sessionVars == <<client, mem, kept, server, flights, current, calls, forms,
                 ui, boot, leaving, purges, slips, mishaps, acts>>

Calls == 1..MaxCalls
Flight == 1..MaxFlights
Token == 0..MaxTokens
Form == {"login", "register"}
NoCall == [step |-> "idle", what |-> Nil, tok |-> 0, flight |-> 0, tries |-> 0, ver |-> 0,
           urge |-> "high", turn |-> 0]
NoFlight == [step |-> "free", tok |-> 0, new |-> 0]
NoTokens == [access |-> 0, refresh |-> 0]
(* Which record holds a request or a refresh means nothing: the first free. *)
FreeCall(c) == calls[c].step = "idle" /\ \A d \in Calls : d < c => calls[d].step # "idle"
FreeFlight(f) == flights[f].step = "free" /\ \A g \in Flight : g < f => flights[g].step # "free"
Owner(t) == IF t = 0 THEN Nil ELSE server.owner[t]

Mishap(kind) == kind \in Mishaps /\ mishaps < MaxMishaps /\ mishaps' = mishaps + 1
Act == acts < MaxActs /\ acts' = acts + 1
Slip(kind, late) == slips' = IF late THEN slips \cup {kind} ELSE slips

SessionInit ==
  /\ client \in {"mobile", "web"}
  /\ current = 0 /\ boot = 0 /\ leaving = {} /\ purges = [files |-> 0, meta |-> 0] /\ slips = {}
  /\ flights = [f \in Flight |-> NoFlight]
  /\ calls = [c \in Calls |-> NoCall]
  /\ forms = [k \in Form |-> Nil]
  /\ mishaps = 0 /\ acts = 0
  /\ \/ /\ mem = NoTokens
        /\ kept = [token |-> 0, user |-> Nil, plan |-> Nil]
        /\ server = [owner |-> <<>>, live |-> {}, fresh |-> {}]
        /\ ui = [phase |-> "out", user |-> Nil, plan |-> Nil]
     \/ \E who \in Accounts :   \* signed in, the state a login leaves
        /\ mem = [access |-> 1, refresh |-> 1]
        /\ kept = [token |-> 1, user |-> who, plan |-> Nil]
        /\ server = [owner |-> <<who>>, live |-> {1}, fresh |-> {1}]
        /\ ui = [phase |-> "in", user |-> who, plan |-> Nil]

(* setSession and signIn: both halves, the persisted copy and the user. *)
SessionOf(t, who) ==
  /\ mem' = [access |-> t, refresh |-> t]
  /\ kept' = [kept EXCEPT !.token = t, !.user = who]
  /\ ui' = [ui EXCEPT !.phase = "in", !.user = who]

(* clearSession followed by resetSession, or by signedOut on the web. *)
ClearedKeepingPlan == [kept EXCEPT !.token = 0, !.user = Nil]
Cleared == [kept EXCEPT !.token = 0, !.user = Nil, !.plan = Nil]
SignedOutUi == [phase |-> "out", user |-> Nil, plan |-> Nil]

(* purgeLocalAccountData, once per sign-out or reset of a mobile session;
   every request that learns the session is lost resets it. *)
PurgeStarts(n) == purges' = IF client = "mobile" THEN [purges EXCEPT !.files = @ + n] ELSE purges
(* A variant that forgets to clear refreshInFlight. *)
SessionEndsInFlight(n) ==
  /\ mem' = NoTokens /\ UNCHANGED current
  /\ kept' = Cleared /\ ui' = SignedOutUi
  /\ PurgeStarts(n)
SessionEnds(n) ==
  /\ mem' = NoTokens /\ current' = 0
  /\ kept' = Cleared /\ ui' = SignedOutUi
  /\ PurgeStarts(n)

(* ------------------------------ auth screens ---------------------------- *)

(* What the user typed.  Only what tells the four validations apart. *)
Inputs == [email: {"bad", "padded", "good"}, password: {"empty", "short", "noDigit", "strong"},
           confirmed: BOOLEAN, ack: BOOLEAN]

(* What a submit refuses.  The web tests the untrimmed address, and takes a
   password without the digit the mobile client wants. *)
MobileLoginErrors(i) ==
  (IF i.email = "bad" THEN {"email"} ELSE {}) \cup (IF i.password = "empty" THEN {"password"} ELSE {})
MobileRegisterErrors(i) ==
  (IF i.email = "bad" THEN {"email"} ELSE {}) \cup (IF i.password # "strong" THEN {"password"} ELSE {})
  \cup (IF i.confirmed THEN {} ELSE {"confirm"}) \cup (IF i.ack THEN {} ELSE {"ack"})
WebLoginErrors(i) ==
  (IF i.email # "good" THEN {"email"} ELSE {}) \cup (IF i.password = "empty" THEN {"password"} ELSE {})
WebRegisterErrors(i) ==
  (IF i.email # "good" THEN {"email"} ELSE {})
  \cup (IF i.password \in {"empty", "short"} THEN {"password"} ELSE {})
FormErrors(k, i) ==
  CASE client = "mobile" /\ k = "login" -> MobileLoginErrors(i)
    [] client = "mobile" /\ k = "register" -> MobileRegisterErrors(i)
    [] client = "web" /\ k = "login" -> WebLoginErrors(i)
    [] OTHER -> WebRegisterErrors(i)

(* The controls of the four screens; submit is off while a submit runs, every
   field stays editable and every way out stays open. *)
SubmitButton(k) == IF forms[k] = Nil THEN {"submit"} ELSE {}
MobileLogin == {"back", "email", "password", "forgot"} \cup SubmitButton("login")
MobileRegister == {"back", "name", "email", "password", "confirm", "ack"} \cup SubmitButton("register")
WebLogin == {"email", "password", "showPassword", "registerLink"} \cup SubmitButton("login")
WebRegister == {"name", "email", "password", "showPassword", "loginLink"} \cup SubmitButton("register")
AuthScreen(k) ==
  CASE client = "mobile" /\ k = "login" -> MobileLogin
    [] client = "mobile" /\ k = "register" -> MobileRegister
    [] client = "web" /\ k = "login" -> WebLogin
    [] OTHER -> WebRegister

(* A signed-in user is sent away from the auth screens; the web shows them
   while it still restores. *)
AuthScreenShown == ui.phase = "out" \/ (boot # 0 /\ ui.phase # "in")

Submit(k, who) ==
  /\ AuthScreenShown /\ Act
  /\ "submit" \in AuthScreen(k)
  /\ {i \in Inputs : FormErrors(k, i) = {}} # {}
  /\ forms' = [forms EXCEPT ![k] = who]
  /\ UNCHANGED <<client, mem, kept, server, flights, current, calls, ui, boot, leaving, purges, slips, mishaps>>

(* login and register: whoever answers last has the session, also when the
   user left the screen meanwhile. *)
Submitted(k) ==
  LET t == Len(server.owner) + 1 IN
  /\ forms[k] # Nil
  /\ forms' = [forms EXCEPT ![k] = Nil]
  /\ \/ /\ t <= MaxTokens
        /\ server' = [owner |-> Append(server.owner, forms[k]),
                      live |-> server.live \cup {t}, fresh |-> server.fresh \cup {t}]
        /\ SessionOf(t, forms[k]) /\ UNCHANGED mishaps
        /\ Slip("login", ui.user \notin {Nil, forms[k]})
     \/ /\ IF t > MaxTokens THEN UNCHANGED mishaps ELSE Mishap("login")
        /\ UNCHANGED <<server, mem, kept, ui, slips>>
  /\ UNCHANGED <<client, flights, current, calls, boot, leaving, purges, acts>>

(* -------------------------------- refresh ------------------------------- *)

(* A variant that starts one each time. *)
JoinAlways ==
  {<<f, [flights EXCEPT ![f] = [step |-> "sent", tok |-> mem.refresh, new |-> 0]]>> :
     f \in {g \in Flight : FreeFlight(g)}}
(* refreshAccessToken(true): join the flight under way or start one. *)
Join ==
  IF current # 0 THEN {<<current, flights>>}
  ELSE {<<f, [flights EXCEPT ![f] = [step |-> "sent", tok |-> mem.refresh, new |-> 0]]>> :
          f \in {g \in Flight : FreeFlight(g)}}

(* The server rotates: the old pair is spent, its refresh half for good. *)
FlightServed(f) ==
  LET t == Len(server.owner) + 1
      old == flights[f].tok IN
  /\ flights[f].step = "sent"
  /\ \/ /\ old \in server.live /\ t <= MaxTokens
        /\ server' = [owner |-> Append(server.owner, Owner(old)),
                      live |-> (server.live \ {old}) \cup {t}, fresh |-> server.fresh \cup {t}]
        /\ flights' = [flights EXCEPT ![f] = [@ EXCEPT !.step = "ok", !.new = t]] /\ UNCHANGED mishaps
     \/ /\ old \notin server.live
        /\ flights' = [flights EXCEPT ![f] = [@ EXCEPT !.step = "rejected"]] /\ UNCHANGED <<server, mishaps>>
     \/ /\ old \in server.live
        /\ IF t > MaxTokens THEN UNCHANGED mishaps ELSE Mishap("net")
        /\ flights' = [flights EXCEPT ![f] = [@ EXCEPT !.step = "lost"]] /\ UNCHANGED server
  /\ UNCHANGED <<client, mem, kept, current, calls, forms, ui, boot, leaving, purges, slips, acts>>

(* The answer to a rotation is lost on the way. *)
FlightLost(f) ==
  /\ flights[f].step = "ok" /\ Mishap("net")
  /\ flights' = [flights EXCEPT ![f] = [@ EXCEPT !.step = "lost"]]
  /\ UNCHANGED <<client, mem, kept, server, current, calls, forms, ui, boot, leaving, purges, slips, acts>>

Waiting(f) == {c \in Calls : calls[c].step = "refreshing" /\ calls[c].flight = f}
IsFile(what) == what \notin {"api", "plan"}

(* Requests that waited for the flight: retried with the token now in memory
   when it succeeded, over when it did not. *)
Resumed(f, ok) ==
  [c \in Calls |-> IF c \notin Waiting(f) THEN calls[c]
                   ELSE IF ok THEN [calls[c] EXCEPT !.step = "sent", !.flight = 0, !.tries = 1,
                                                    !.tok = flights[f].new]
                   ELSE NoCall]

(* The requests whose interceptor signs out when the refresh they wait for
   fails: on the web all and at any failure; on the phone only when the server
   refused (isServerRejection), and not the downloads, which go past axios. *)
InAxios(what) == client = "web" \/ ~IsFile(what)
Ending(f) ==
  {c \in Waiting(f) : InAxios(calls[c].what) /\ (flights[f].step = "rejected" \/ client = "web")}

(* The answer arrives: tokens are written whatever became of the session
   they were asked for, and refreshInFlight is cleared whosever it is. *)
FlightAnswered(f) ==
  LET fl == flights[f] IN
  /\ fl.step \in {"ok", "rejected", "lost"}
  /\ flights' = [flights EXCEPT ![f] = NoFlight]
  /\ calls' = Resumed(f, fl.step = "ok")
  /\ boot' = IF boot = f THEN 0 ELSE boot
  /\ Slip("refresh", (fl.step = "ok" /\ mem.refresh # fl.tok) \/ current \notin {0, f})
  /\ \/ /\ fl.step = "ok"
        /\ mem' = [access |-> fl.new, refresh |-> fl.new]
        /\ current' = 0
        /\ kept' = [kept EXCEPT !.token = fl.new]
        /\ ui' = IF boot = f THEN [ui EXCEPT !.phase = "in", !.user = IF @ = Nil THEN kept.user ELSE @]
                 ELSE ui
        /\ UNCHANGED purges
     \/ /\ fl.step # "ok" /\ (boot = f \/ Ending(f) # {})
        /\ SessionEnds(Cardinality(Ending(f)))
     \/ /\ fl.step # "ok" /\ boot # f /\ Ending(f) = {}
        /\ current' = 0
        /\ UNCHANGED <<mem, kept, ui, purges>>
  /\ UNCHANGED <<client, server, forms, leaving, mishaps, acts>>

(* ------------------------------- requests ------------------------------- *)

(* http.request with the Bearer token of the moment. *)
Call(c, what) ==
  /\ what = "plan" => client = "mobile"
  /\ ui.phase = "in" /\ FreeCall(c) /\ Act
  /\ calls' = [calls EXCEPT ![c] = [NoCall EXCEPT !.step = "sent", !.what = what, !.tok = mem.access]]
  /\ UNCHANGED <<client, mem, kept, server, flights, current, forms, ui, boot, leaving, purges, slips, mishaps>>

(* refreshPlan: the plan of whoever the token belongs to goes to the store,
   or none when it is not active, whoever is signed in by then. *)
PlanShown(c) ==
  IF calls[c].what = "plan"
  THEN \E plan \in {Owner(calls[c].tok), Nil} :
         /\ ui' = [ui EXCEPT !.plan = plan]
         /\ kept' = [kept EXCEPT !.plan = plan]
         /\ Slip("plan", Owner(calls[c].tok) # ui.user)
  ELSE UNCHANGED <<ui, kept, slips>>

Accepted(c) ==
  /\ calls[c].step = "sent" /\ calls[c].tok \in server.fresh /\ ~IsFile(calls[c].what)
  /\ calls' = [calls EXCEPT ![c] = NoCall]
  /\ PlanShown(c)
  /\ UNCHANGED <<client, mem, server, flights, current, forms, boot, leaving, purges, mishaps, acts>>

(* A network failure, a 5xx, or a 401 that was already retried. *)
CallFails(c) ==
  /\ calls[c].step = "sent"
  /\ \/ calls[c].tok \notin server.fresh /\ calls[c].tries = 1 /\ UNCHANGED mishaps
     \/ Mishap("net")
  /\ calls' = [calls EXCEPT ![c] = NoCall]
  /\ UNCHANGED <<client, mem, kept, server, flights, current, forms, ui, boot, leaving, purges, slips, acts>>

(* 401: refresh once; with no refresh token there is no session to keep. *)
Unauthorized(c) ==
  /\ calls[c].step = "sent" /\ calls[c].tok \notin server.fresh /\ calls[c].tries = 0
  /\ \/ /\ mem.refresh # 0
        /\ \E j \in Join :
             /\ current' = j[1] /\ flights' = j[2]
             /\ calls' = [calls EXCEPT ![c] = [@ EXCEPT !.step = "refreshing", !.flight = j[1]]]
        /\ UNCHANGED <<mem, kept, ui, purges>>
     \/ /\ mem.refresh = 0
        /\ calls' = [calls EXCEPT ![c] = NoCall]
        /\ IF InAxios(calls[c].what) THEN SessionEnds(1) ELSE UNCHANGED <<mem, kept, ui, current, purges>>
        /\ UNCHANGED flights
  /\ UNCHANGED <<client, server, forms, boot, leaving, slips, mishaps, acts>>

(* The access half of a token runs out. *)
Expire(t) ==
  /\ Act /\ t \in server.fresh
  /\ server' = [server EXCEPT !.fresh = @ \ {t}]
  /\ UNCHANGED <<client, mem, kept, flights, current, calls, forms, ui, boot, leaving, purges, slips, mishaps>>

(* ------------------------------- sign-out ------------------------------- *)

(* The confirmed sign-out of the account screen, or the item of the web's
   user menu, which shows itself signed in until the server answered. *)
AccountScreen == {"back", "subscription", "cloudPhotos", "signOut"}
UserMenu == {"settings", "signOut"}
AccountControls ==
  IF ui.phase # "in" THEN {} ELSE IF client = "mobile" THEN AccountScreen ELSE UserMenu
SignOut ==
  /\ "signOut" \in AccountControls /\ Act
  /\ mem' = NoTokens /\ current' = 0
  /\ leaving' = leaving \cup ({mem.refresh} \ {0})
  /\ IF client = "web" /\ mem.refresh # 0
     THEN kept' = [kept EXCEPT !.token = 0] /\ UNCHANGED ui
     ELSE kept' = Cleared /\ ui' = SignedOutUi
  /\ PurgeStarts(1)
  /\ UNCHANGED <<client, server, flights, calls, forms, boot, slips, mishaps>>

(* The revocation, best effort; the web signs out when it is over. *)
LogoutEnds(t) ==
  /\ t \in leaving
  /\ leaving' = leaving \ {t}
  /\ \/ server' = [server EXCEPT !.live = @ \ {t}] /\ UNCHANGED mishaps
     \/ Mishap("net") /\ UNCHANGED server
  /\ IF client = "web"
     THEN ui' = SignedOutUi /\ kept' = [kept EXCEPT !.user = Nil]
     ELSE UNCHANGED <<ui, kept>>
  /\ Slip("logout", client = "web" /\ mem.refresh # 0)
  /\ UNCHANGED <<client, mem, flights, current, calls, forms, boot, purges, acts>>

(* -------------------------------- restart ------------------------------- *)

(* The app is killed or the page reloaded: everything in memory is gone;
   the web reads the token as its module loads. *)
Restart ==
  /\ Act
  /\ mem' = [access |-> 0, refresh |-> IF client = "web" THEN kept.token ELSE 0]
  /\ flights' = [f \in Flight |-> NoFlight] /\ current' = 0 /\ boot' = 0
  /\ calls' = [c \in Calls |-> NoCall] /\ forms' = [k \in Form |-> Nil]
  /\ ui' = [phase |-> "restoring", user |-> IF client = "mobile" THEN kept.user ELSE Nil, plan |-> kept.plan]
  /\ leaving' = {} /\ purges' = [files |-> 0, meta |-> 0]
  /\ Slip("purge", purges.files + purges.meta > 0)
  /\ UNCHANGED <<client, kept, server, mishaps>>

(* resolveSession: mobile lets a stored token in unvalidated, if it knows
   the user; otherwise the login gate, also when the key store fails, and
   then nothing is purged. *)
Resolve ==
  /\ client = "mobile" /\ ui.phase = "restoring"
  /\ UNCHANGED <<slips, mishaps>>
  /\ IF kept.token # 0 /\ kept.user # Nil
     THEN /\ mem' = [mem EXCEPT !.refresh = kept.token]
          /\ ui' = [ui EXCEPT !.phase = "in", !.user = kept.user]
          /\ UNCHANGED kept
     ELSE /\ mem' = NoTokens
          /\ ui' = [ui EXCEPT !.phase = "out", !.user = Nil]
          /\ kept' = [kept EXCEPT !.token = 0, !.user = Nil]
  /\ UNCHANGED <<client, server, flights, current, calls, forms, boot, leaving, purges, acts>>
ResolveFails ==
  /\ client = "mobile" /\ ui.phase = "restoring" /\ Mishap("store")
  /\ ui' = [ui EXCEPT !.phase = "out", !.user = Nil]
  /\ kept' = [kept EXCEPT !.user = Nil]
  /\ Slip("store", TRUE)
  /\ UNCHANGED <<client, mem, server, flights, current, calls, forms, boot, leaving, purges, acts>>

(* restoreSession of the web: refresh before letting anyone in, unless a
   login was faster. *)
Restore ==
  /\ client = "web" /\ ui.phase = "restoring" /\ boot = 0
  /\ \/ /\ mem.refresh = 0
        /\ ui' = SignedOutUi /\ kept' = [kept EXCEPT !.user = Nil]
        /\ UNCHANGED <<flights, current, boot>>
     \/ /\ mem.refresh # 0
        /\ \E j \in Join : current' = j[1] /\ flights' = j[2] /\ boot' = j[1]
        /\ UNCHANGED <<ui, kept>>
  /\ UNCHANGED <<client, mem, server, calls, forms, leaving, purges, slips, mishaps, acts>>
=============================================================================
