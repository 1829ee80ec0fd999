----------------------------- MODULE ZipImports ------------------------------
(***************************************************************************)
(* Archives imported through the server: the request that stages one, the  *)
(* job that outlives it, the web panel that sends several and follows each *)
(* one, and the mobile store that sends and follows a single one.          *)
(***************************************************************************)
EXTENDS ScreenJobs

CONSTANTS Archives,      \* what the user may pick
          ZipIds,        \* jobs the server may be asked for (a bound)
          MaxTokens      \* runs of the mobile store (a bound)
ASSUME ZipAssumption == IsFiniteSet(ZipIds)   \* a database has finitely many jobs
VARIABLES zips,          \* the server: [job -> state]
          panel,         \* the web panel
          zipper         \* the mobile store, and its screen
zipVars == <<zips, panel, zipper>>
WebZip == area = "web import"
PhoneZip == area = "mobile import"

Running == {"Uploading", "Queued", "Processing"}
NoPanel == [open |-> FALSE, rows |-> <<>>, pumping |-> FALSE, stop |-> FALSE]
NoZipper == [open |-> FALSE, phase |-> "idle", job |-> Nil, detached |-> FALSE, token |-> 0]
NewZip == CHOOSE z \in ZipIds : zips[z] = "none" /\ \A i \in DOMAIN jobs : jobs[i].op \in {"pump", "mzip"} => jobs[i].id # z
HasZip == \E z \in ZipIds : zips[z] = "none" /\ \A i \in DOMAIN jobs : jobs[i].op \in {"pump", "mzip"} => jobs[i].id # z

(* ------------------------- the request, the worker ----------------------- *)

Sending(i, s) == i \in DOMAIN jobs /\ jobs[i].op \in {"pump", "mzip"} /\ jobs[i].at = s
Serves(i, s, t) == /\ zips' = [zips EXCEPT ![jobs[i].id] = t] /\ Becomes(i, [jobs[i] EXCEPT !.at = s])
                   /\ UNCHANGED <<panel, zipper>>
(* The job is there before the first byte, so that a reload shows it. *)
ZipReceived(i) == Sending(i, "sent") /\ ~jobs[i].cut /\ Calm /\ Serves(i, "streaming", "Uploading")
ZipStaged(i) == Sending(i, "streaming") /\ ~jobs[i].cut /\ Calm /\ Serves(i, "accepted", "Queued")
(* A transfer that breaks off is a failed job. *)
ZipBroken(i) == Sending(i, "streaming") /\ ~jobs[i].cut /\ Mishap /\ Serves(i, "lost", "Failed")
(* The transfer of another tab of the same account comes to its end. *)
ZipStagedElsewhere(z) ==
  /\ zips[z] = "Uploading" /\ Calm /\ zips' = [zips EXCEPT ![z] = "Queued"]
  /\ \A i \in DOMAIN jobs : jobs[i].op \in {"pump", "mzip"} => jobs[i].id # z
ZipTaken(z) == zips[z] = "Queued" /\ Calm /\ zips' = [zips EXCEPT ![z] = "Processing"]
ZipFinished(z) == zips[z] = "Processing" /\ Calm /\ zips' = [zips EXCEPT ![z] = "Done"]
ZipGivenUp(z) == zips[z] = "Processing" /\ Mishap /\ zips' = [zips EXCEPT ![z] = "Failed"]
Dropped(i) == IF jobs[i].at = "streaming" THEN [zips EXCEPT ![jobs[i].id] = "Failed"] ELSE zips

(* ------------------------------ the web panel ---------------------------- *)

Row(key, status, id) == [key |-> key, status |-> status, id |-> id]
Rowed(p, key, status) ==
  [p EXCEPT !.rows = [n \in DOMAIN @ |-> IF @[n].key = key THEN [@[n] EXCEPT !.status = status] ELSE @[n]]]
Of(p, statuses) == {n \in DOMAIN p.rows : p.rows[n].status \in statuses}
FirstOf(S) == CHOOSE n \in S : \A m \in S : n <= m
ZipPoll(key, id) == [op |-> "poll", live |-> TRUE, key |-> key, id |-> id]
StatusOf(state) == CASE state = "Uploading" -> "receiving" [] state = "Queued" -> "queued"
                     [] state = "Processing" -> "processing" [] state = "Done" -> "done" [] OTHER -> "failed"

(* The pump goes on with the first archive that waits, if it may. *)
Pumps(p) == ~p.stop /\ Of(p, {"waiting"}) # {}
PumpOn(p, js) ==
  IF ~Pumps(p) THEN panel' = [p EXCEPT !.pumping = FALSE] /\ jobs' = js
  ELSE LET key == p.rows[FirstOf(Of(p, {"waiting"}))].key IN
       /\ HasZip /\ Len(js) < MaxJobs[area]
       /\ panel' = Rowed([p EXCEPT !.pumping = TRUE], key, "uploading")
       /\ jobs' = Append(js, [op |-> "pump", live |-> TRUE, key |-> key, id |-> NewZip, at |-> "sent", cut |-> FALSE])

OpenPanel == /\ WebZip /\ ~panel.open /\ Act
             /\ panel' = [NoPanel EXCEPT !.open = TRUE]
             /\ Begun(<<[op |-> "list", live |-> TRUE, at |-> "asked", seen |-> zips]>>)
             /\ UNCHANGED <<zips, zipper>>
ListRead(i) == /\ Step(i, "list", "asked") /\ Calm
               /\ Becomes(i, [jobs[i] EXCEPT !.at = "read", !.seen = zips]) /\ UNCHANGED zipVars
(* A variant that takes a job still being uploaded for one nobody follows. *)
FollowedAccepted(seen) == {z \in ZipIds : seen[z] \in {"Queued", "Processing"}}
Followed(seen) == {z \in ZipIds : seen[z] \in Running}
ListBack(i) ==
  LET known == {panel.rows[n].key : n \in DOMAIN panel.rows} \cup {panel.rows[n].id : n \in DOMAIN panel.rows}
      there == {z \in ZipIds : jobs[i].seen[z] \in Running}
      fresh == SetToSeq(there \ known)
      tracked == SetToSeq(Followed(jobs[i].seen)) IN
  /\ Step(i, "list", "read") /\ Calm /\ UNCHANGED <<zips, zipper>>
  /\ IF ~jobs[i].live THEN Ends(i) /\ UNCHANGED panel
     ELSE /\ Leads(i, [n \in DOMAIN tracked |-> ZipPoll(tracked[n], tracked[n])])
          /\ panel' = [panel EXCEPT !.rows = @ \o [n \in DOMAIN fresh |->
                         Row(fresh[n], StatusOf(jobs[i].seen[fresh[n]]), fresh[n])]]
ListFailed(i) == At(i, "list") /\ Mishap /\ Ends(i) /\ UNCHANGED zipVars

Pick(a) == /\ WebZip /\ panel.open /\ Act
           /\ \A n \in DOMAIN panel.rows : panel.rows[n].key # a
           /\ panel' = [panel EXCEPT !.rows = Append(@, Row(a, "waiting", Nil))]
           /\ UNCHANGED <<zips, zipper, jobs>>
RemoveItem(a) == /\ WebZip /\ panel.open /\ Act
                 /\ \E n \in Of(panel, {"waiting"}) : panel.rows[n].key = a
                 /\ panel' = [panel EXCEPT !.rows = Sifted(@, {n \in DOMAIN @ : @[n].key # a})]
                 /\ UNCHANGED <<zips, zipper, jobs>>
Start == /\ WebZip /\ panel.open /\ ~panel.pumping /\ Of(panel, {"waiting"}) # {} /\ Act
         /\ PumpOn([panel EXCEPT !.stop = FALSE], jobs) /\ UNCHANGED <<zips, zipper>>
Stop == /\ WebZip /\ panel.pumping /\ Act
        /\ panel' = [panel EXCEPT !.stop = TRUE, !.rows = [n \in DOMAIN @ |->
                       IF @[n].status = "waiting" THEN [@[n] EXCEPT !.status = "canceled"] ELSE @[n]]]
        /\ jobs' = [i \in DOMAIN jobs |-> IF jobs[i].op = "pump" /\ jobs[i].live
                                          THEN [jobs[i] EXCEPT !.cut = TRUE] ELSE jobs[i]]
        /\ UNCHANGED <<zips, zipper>>
(* Leaving cancels nothing: the transfer goes on, the archives that wait are lost. *)
ClosePanel == /\ WebZip /\ panel.open /\ Act
              /\ panel' = NoPanel /\ jobs' = Orphaned(jobs, {"pump", "poll", "list"})
              /\ UNCHANGED <<zips, zipper>>

ZipAccepted(i) ==
  LET key == jobs[i].key
      js == RemoveAt(jobs, i) IN
  /\ Step(i, "pump", "accepted") /\ ~jobs[i].cut /\ Calm /\ UNCHANGED <<zips, zipper>>
  /\ IF ~jobs[i].live THEN jobs' = js /\ UNCHANGED panel
     ELSE PumpOn(Rowed(panel, key, "queued"), Append(js, ZipPoll(key, jobs[i].id)))
(* The answer is lost, whatever the server made of the archive. *)
ZipRefused(i) ==
  /\ At(i, "pump") /\ ~jobs[i].cut /\ UNCHANGED zipper
  /\ IF jobs[i].at = "lost" THEN Calm ELSE Mishap
  /\ zips' = Dropped(i)
  /\ IF ~jobs[i].live THEN Ends(i) /\ UNCHANGED panel
     ELSE PumpOn(Rowed(panel, jobs[i].key, "failed"), RemoveAt(jobs, i))
ZipCanceled(i) ==
  /\ At(i, "pump") /\ jobs[i].cut /\ Calm /\ UNCHANGED zipper
  /\ zips' = Dropped(i) /\ Ends(i)
  /\ panel' = IF jobs[i].live THEN [Rowed(panel, jobs[i].key, "canceled") EXCEPT !.pumping = FALSE] ELSE panel
PollBack(i) ==
  LET j == jobs[i]
      seen == [n \in DOMAIN panel.rows |-> IF panel.rows[n].key = j.key
                 THEN Row(j.key, StatusOf(zips[j.id]), j.id) ELSE panel.rows[n]] IN
  /\ At(i, "poll") /\ Calm /\ UNCHANGED <<zips, zipper>>
  /\ panel' = IF j.live THEN [panel EXCEPT !.rows = seen] ELSE panel
  /\ IF j.live /\ zips[j.id] \in Running THEN UNCHANGED jobs ELSE Ends(i)
(* One poll that fails loses track of an import that goes on. *)
PollFailed(i) == /\ At(i, "poll") /\ Mishap /\ Ends(i) /\ UNCHANGED <<zips, zipper>>
                 /\ panel' = IF jobs[i].live THEN Rowed(panel, jobs[i].key, "failed") ELSE panel

(* ---------------------------- the mobile store --------------------------- *)

OnPhone(phases) == PhoneZip /\ zipper.open /\ zipper.phase \in phases
Busy == {"uploading", "processing"}
OpenImport == /\ PhoneZip /\ ~zipper.open /\ Act
              /\ zipper' = [zipper EXCEPT !.open = TRUE] /\ UNCHANGED <<zips, panel, jobs>>
CloseImport == /\ PhoneZip /\ zipper.open /\ Act
               /\ zipper' = [zipper EXCEPT !.open = FALSE] /\ UNCHANGED <<zips, panel, jobs>>
ChooseZip == OnPhone({"idle", "done"}) /\ Act /\ Begun(<<Job("pick")>>) /\ UNCHANGED zipVars
Abandoned(i) == At(i, "pick") /\ Calm /\ Ends(i) /\ UNCHANGED zipVars
Started(i) ==
  /\ At(i, "pick") /\ Calm /\ UNCHANGED <<zips, panel>>
  /\ IF zipper.phase \in Busy THEN Ends(i) /\ UNCHANGED zipper
     ELSE /\ HasZip /\ zipper.token < MaxTokens
          /\ zipper' = [zipper EXCEPT !.phase = "uploading", !.job = Nil, !.detached = FALSE, !.token = @ + 1]
          /\ Becomes(i, [op |-> "mzip", live |-> TRUE, token |-> zipper.token + 1, id |-> NewZip, at |-> "begun", cut |-> FALSE])
(* There is nothing to cancel before the task is made. *)
TaskMade(i) == Step(i, "mzip", "begun") /\ Calm /\ Becomes(i, [jobs[i] EXCEPT !.at = "sent"]) /\ UNCHANGED zipVars
(* An expired session is renewed and the archive sent again. *)
SentAgain(i) == /\ Step(i, "mzip", "sent") /\ ~jobs[i].cut /\ Mishap
                /\ Becomes(i, [jobs[i] EXCEPT !.at = "begun"]) /\ UNCHANGED zipVars
Mine(i) == jobs[i].token = zipper.token
ImportAccepted(i) ==
  /\ Step(i, "mzip", "accepted") /\ ~jobs[i].cut /\ Calm /\ UNCHANGED <<zips, panel>>
  /\ IF Mine(i) THEN /\ zipper' = [zipper EXCEPT !.phase = "processing"]
                     /\ Becomes(i, [op |-> "mpoll", live |-> TRUE, token |-> jobs[i].token, id |-> jobs[i].id])
     ELSE Ends(i) /\ UNCHANGED zipper
ImportRefused(i) ==
  /\ At(i, "mzip") /\ UNCHANGED panel
  /\ IF jobs[i].cut \/ jobs[i].at = "lost" THEN Calm ELSE Mishap
  /\ zips' = Dropped(i) /\ Ends(i)
  /\ zipper' = IF Mine(i) THEN [zipper EXCEPT !.phase = "error"] ELSE zipper
ImportPolled(i) ==
  LET state == zips[jobs[i].id] IN
  /\ At(i, "mpoll") /\ Calm /\ UNCHANGED <<zips, panel>>
  /\ IF ~Mine(i) THEN Ends(i) /\ UNCHANGED zipper
     ELSE /\ zipper' = [zipper EXCEPT !.job = state, !.phase = IF state \in Running THEN @ ELSE "done"]
          /\ IF state \in Running THEN UNCHANGED jobs ELSE Ends(i)
ImportLost(i) == /\ At(i, "mpoll") /\ Mishap /\ Ends(i) /\ UNCHANGED <<zips, panel>>
                 /\ zipper' = IF Mine(i) THEN [zipper EXCEPT !.phase = "error"] ELSE zipper
(* Only the run of this token can be stopped, and only once. *)
Cut(js, token) == [i \in DOMAIN js |-> IF js[i].op = "mzip" /\ js[i].token = token /\ js[i].at # "begun"
                                       THEN [js[i] EXCEPT !.cut = TRUE] ELSE js[i]]
CancelImport ==
  /\ OnPhone(Busy) /\ zipper.token < MaxTokens /\ Act /\ UNCHANGED <<zips, panel>>
  /\ IF zipper.phase = "uploading"
     THEN /\ zipper' = [zipper EXCEPT !.token = @ + 1] /\ Len(jobs) < MaxJobs[area]
          /\ jobs' = Append(Cut(jobs, zipper.token), Job("cancel"))
     ELSE /\ zipper' = [zipper EXCEPT !.token = @ + 1, !.phase = "idle", !.detached = TRUE]
          /\ UNCHANGED jobs
CancelBack(i) == /\ At(i, "cancel") /\ Calm /\ Ends(i)
                 /\ zipper' = [zipper EXCEPT !.phase = "idle"] /\ UNCHANGED <<zips, panel>>
(* "Done" also leaves the screen, "Try again" stays. *)
Reset == /\ OnPhone({"done", "error"}) /\ zipper.token < MaxTokens /\ Act
         /\ zipper' = [NoZipper EXCEPT !.token = zipper.token + 1, !.open = zipper.phase = "error"]
         /\ UNCHANGED <<zips, panel, jobs>>

ZipIdle == zips = [z \in ZipIds |-> "none"] /\ panel = NoPanel /\ zipper = NoZipper
ZipInit == /\ zips \in {[z \in ZipIds |-> "none"]} \cup
                       {[z \in ZipIds |-> IF z = y THEN s ELSE "none"] : y \in ZipIds, s \in {"Uploading", "Queued", "Done"}}
           /\ panel = NoPanel /\ zipper = NoZipper /\ jobs = <<>>
ZipNext ==
  /\ WebZip \/ PhoneZip
  /\ \/ \E z \in ZipIds : (ZipStagedElsewhere(z) \/ ZipTaken(z) \/ ZipFinished(z) \/ ZipGivenUp(z)) /\ UNCHANGED <<panel, zipper, jobs>>
     \/ OpenPanel \/ ClosePanel \/ Start \/ Stop \/ (\E a \in Archives : Pick(a) \/ RemoveItem(a))
     \/ OpenImport \/ CloseImport \/ ChooseZip \/ CancelImport \/ Reset
     \/ \E i \in DOMAIN jobs :
          \/ ZipReceived(i) \/ ZipStaged(i) \/ ZipBroken(i) \/ ListRead(i) \/ ListBack(i) \/ ListFailed(i)
          \/ ZipAccepted(i) \/ ZipRefused(i) \/ ZipCanceled(i) \/ PollBack(i) \/ PollFailed(i)
          \/ Abandoned(i) \/ Started(i) \/ TaskMade(i) \/ SentAgain(i) \/ ImportAccepted(i) \/ ImportRefused(i)
          \/ ImportPolled(i) \/ ImportLost(i) \/ CancelBack(i)

ZipTypeOK ==
  /\ \A z \in ZipIds : zips[z] \in Running \cup {"none", "Done", "Failed"}
  /\ \A n \in DOMAIN panel.rows : panel.rows[n].key \in Archives \cup ZipIds
  /\ zipper.phase \in {"idle", "uploading", "processing", "done", "error"} /\ zipper.token \in 0..MaxTokens

Has(op, P(_)) == \E i \in DOMAIN jobs : jobs[i].op = op /\ jobs[i].live /\ P(jobs[i])
(* No import hangs: whatever was reloaded, stopped, left or answered late, a
   row of the web panel that is not settled is still being sent or followed,
   and one that says done is of an import that is; the mobile store that is
   busy has a run of its own, or is cancelling one. *)
ImportsFollowed ==
  /\ \A n \in DOMAIN panel.rows :
       LET r == panel.rows[n] IN
       /\ r.status = "uploading" => Has("pump", LAMBDA j : j.key = r.key)
       /\ r.status \in {"receiving", "queued", "processing"} => Has("poll", LAMBDA j : j.key = r.key)
       /\ r.status = "done" => zips[r.id] = "Done"
  /\ zipper.phase = "uploading" => Has("mzip", LAMBDA j : j.token = zipper.token) \/ Has("cancel", LAMBDA j : TRUE)
  /\ zipper.phase = "processing" => Has("mpoll", LAMBDA j : j.token = zipper.token)
=============================================================================
