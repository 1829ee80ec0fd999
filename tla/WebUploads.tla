----------------------------- MODULE WebUploads ------------------------------
(***************************************************************************)
(* The upload dialog and the processor behind it.  The queue is a store of *)
(* the page: it outlives the dialog, the shell and the session.            *)
(***************************************************************************)
EXTENDS ScreenJobs

CONSTANTS Files, Media,     \* what is dropped, and what of it is a photo or a video within the caps
          Accounts
ASSUME UploadAssumption == IsFiniteSet(Files)   \* a drop has finitely many files
VARIABLES uploads,          \* the store, the shell with its processor, the dialog
          stored            \* the libraries: <<account, file>>
uploadVars == <<uploads, stored>>
WebUpload == area = "web upload"

NoUploads == [tasks |-> <<>>, user |-> Nil, running |-> FALSE, open |-> FALSE, note |-> FALSE]
Statuses(u, S) == {n \in DOMAIN u.tasks : u.tasks[n].status \in S}
Finished == {"done", "duplicated", "error"}
Patched(u, f, status) ==
  [u EXCEPT !.tasks = [n \in DOMAIN @ |-> IF @[n].id = f THEN [@[n] EXCEPT !.status = status] ELSE @[n]]]
NextQueued(u) == u.tasks[CHOOSE n \in Statuses(u, {"queued"}) : \A m \in Statuses(u, {"queued"}) : n <= m].id
(* The effect of the shell runs anew after every change of the tasks: one
   file at a time, sent with the session of this moment. *)
Processed(u, js) ==
  IF u.user = Nil \/ u.running \/ Statuses(u, {"queued"}) = {} THEN uploads' = u /\ jobs' = js
  ELSE /\ uploads' = [Patched(u, NextQueued(u), "uploading") EXCEPT !.running = TRUE]
       /\ Len(js) < MaxJobs[area]
       /\ jobs' = Append(js, [op |-> "upload", live |-> TRUE, file |-> NextQueued(u), as |-> u.user, done |-> FALSE])

ShowUpload == /\ WebUpload /\ uploads.user # Nil /\ ~uploads.open /\ Act
              /\ uploads' = [uploads EXCEPT !.open = TRUE] /\ UNCHANGED <<stored, jobs>>
HideUpload == /\ WebUpload /\ uploads.user # Nil /\ uploads.open /\ Act
              /\ uploads' = [uploads EXCEPT !.open = FALSE] /\ UNCHANGED <<stored, jobs>>
(* Dropped, browsed or pasted: what is no photo or too big is left out. *)
Enqueue(S) ==
  LET new == SetToSeq(S \cap Media) IN
  /\ WebUpload /\ uploads.user # Nil /\ uploads.open /\ S # {} /\ Act
  /\ \A n \in DOMAIN uploads.tasks : uploads.tasks[n].id \notin S
  /\ Processed([uploads EXCEPT !.note = S \ Media # {},
                               !.tasks = @ \o [n \in DOMAIN new |-> [id |-> new[n], status |-> "queued"]]], jobs)
  /\ UNCHANGED stored
ClearFinished ==
  /\ WebUpload /\ uploads.user # Nil /\ uploads.open /\ Statuses(uploads, Finished) # {} /\ Act
  /\ Processed([uploads EXCEPT !.note = FALSE, !.tasks = Sifted(@, {n \in DOMAIN @ : @[n].status \notin Finished})], jobs)
  /\ UNCHANGED stored

UploadStored(i) ==
  /\ At(i, "upload") /\ ~jobs[i].done /\ Calm /\ UNCHANGED uploads
  /\ stored' = stored \cup {<<jobs[i].as, jobs[i].file>>}
  /\ Becomes(i, [jobs[i] EXCEPT !.done = <<jobs[i].as, jobs[i].file>> \in stored, !.op = "uploaded"])
(* Whatever the answer, the processor that sent it is free again. *)
FreedBy(u, live) == [u EXCEPT !.running = @ /\ ~live]
UploadBack(i) ==
  /\ At(i, "uploaded") /\ Calm /\ UNCHANGED stored
  /\ Processed(FreedBy(Patched(uploads, jobs[i].file, IF jobs[i].done THEN "duplicated" ELSE "done"), jobs[i].live),
               RemoveAt(jobs, i))
(* Refused (no room, no photo), or the answer is lost: the task is not sent again. *)
UploadFailed(i) ==
  /\ At(i, "upload") \/ At(i, "uploaded")
  /\ Mishap /\ UNCHANGED stored
  /\ Processed(FreedBy(Patched(uploads, jobs[i].file, "error"), jobs[i].live), RemoveAt(jobs, i))

(* The gate unmounts the shell and its processor; the queue stays, and what
   is left of it is sent for whoever signs in next. *)
ShellGone == /\ WebUpload /\ uploads.user # Nil /\ Act
             /\ uploads' = [uploads EXCEPT !.user = Nil, !.running = FALSE]
             /\ jobs' = Orphaned(jobs, {"upload", "uploaded"}) /\ UNCHANGED stored
ShellBack(a) == /\ WebUpload /\ uploads.user = Nil /\ Act
                /\ Processed([uploads EXCEPT !.user = a], jobs) /\ UNCHANGED stored

UploadIdle == uploads = NoUploads /\ stored = {}
UploadInit == /\ uploads = NoUploads /\ jobs = <<>>
              /\ stored \in {{}} \cup {{<<a, f>>} : a \in Accounts, f \in Media}
UploadNext ==
  /\ WebUpload
  /\ \/ ShowUpload \/ HideUpload \/ ClearFinished \/ ShellGone
     \/ (\E S \in SUBSET Files : Enqueue(S)) \/ (\E a \in Accounts : ShellBack(a))
     \/ \E i \in DOMAIN jobs : UploadStored(i) \/ UploadBack(i) \/ UploadFailed(i)

UploadTypeOK ==
  /\ uploads.user \in Accounts \cup {Nil} /\ stored \subseteq Accounts \X Media
  /\ \A n \in DOMAIN uploads.tasks : uploads.tasks[n].status \in Finished \cup {"queued", "uploading"}

Sends(f) == {i \in DOMAIN jobs : jobs[i].op \in {"upload", "uploaded"} /\ jobs[i].file = f}
(* The queue never stalls and never sends a file twice at once: while the
   shell is up, a file waits only behind one that is being sent; a task that
   says it is uploading has one request of its own, also after the shell was
   gone and back; and one that says done is in a library. *)
UploadsServed ==
  /\ (uploads.user # Nil /\ Statuses(uploads, {"queued"}) # {}) =>
       \E i \in DOMAIN jobs : jobs[i].op \in {"upload", "uploaded"} /\ jobs[i].live
  /\ \A n \in DOMAIN uploads.tasks :
       LET t == uploads.tasks[n] IN
       /\ Cardinality(Sends(t.id)) = IF t.status = "uploading" THEN 1 ELSE 0
       /\ t.status \in {"done", "duplicated"} => \E a \in Accounts : <<a, t.id>> \in stored
=============================================================================
