----------------------------- MODULE ScreenJobs ------------------------------
(***************************************************************************)
(* What the screens of the library share: promises in flight, oldest       *)
(* first, and budgets for what the user does and for what goes wrong.  The *)
(* user works in one area at a time: each behaviour is in one area.        *)
(***************************************************************************)
EXTENDS Integers, Sequences, FiniteSets, FiniteSetsExt, SequencesExt, Functions

CONSTANTS Nil,            \* null or undefined
          MaxJobs,        \* [area -> promises in flight] (a bound)
          MaxActs,        \* [area -> taps of the user] (a bound)
          MaxMishaps      \* refusals, failures and crashes (a bound)
VARIABLES area, jobs, acts, mishaps
jobVars == <<area, jobs, acts, mishaps>>

Act == acts < MaxActs[area] /\ acts' = acts + 1 /\ UNCHANGED <<area, mishaps>>
Mishap == mishaps < MaxMishaps /\ mishaps' = mishaps + 1 /\ UNCHANGED <<area, acts>>
Calm == UNCHANGED <<area, acts, mishaps>>

Job(o) == [op |-> o, live |-> TRUE]
Begun(js) == Len(jobs) + Len(js) <= MaxJobs[area] /\ jobs' = jobs \o js
At(i, o) == i \in DOMAIN jobs /\ jobs[i].op = o
Step(i, o, s) == At(i, o) /\ jobs[i].at = s
Becomes(i, j) == jobs' = [jobs EXCEPT ![i] = j]
Ends(i) == jobs' = RemoveAt(jobs, i)
(* It ends, and others begin with what it found. *)
Leads(i, js) == Len(jobs) - 1 + Len(js) <= MaxJobs[area] /\ jobs' = RemoveAt(jobs, i) \o js
(* The component that awaited these is unmounted, or its effect cleaned up. *)
Orphaned(js, ops) == [i \in DOMAIN js |-> IF js[i].op \in ops THEN [js[i] EXCEPT !.live = FALSE] ELSE js[i]]

(* Photos as the server and the phone list them, by the time they were taken. *)
Ahead(order, t, u) == IF order = "desc" THEN t > u ELSE t < u
InOrder(S, order) ==
  [n \in 1..Cardinality(S) |-> CHOOSE t \in S : Cardinality({u \in S : Ahead(order, u, t)}) = n - 1]

(* What a filter leaves of a list: its entries at these places, in order. *)
Sifted(s, places) ==
  [n \in 1..Cardinality(places) |-> s[CHOOSE i \in places : Cardinality({k \in places : k <= i}) = n]]
=============================================================================
