----------------------------- MODULE CloudUpload -----------------------------
(***************************************************************************)
(* uploadPhoto of the mobile app, one transfer per upload lane: ticket,    *)
(* presigned PUT or multipart parts, complete, and the proxied form the    *)
(* app falls back to.  The server is what the transfers see of it: for     *)
(* each hash a client may claim, the photo row that claims it and the      *)
(* bytes in the storage.                                                   *)
(***************************************************************************)
EXTENDS BackupInventory

CONSTANTS Lanes,
          Large,      \* assets big enough for a multipart session
          Parts,      \* parts of a large file
          Mishaps,    \* the kinds of failure that may happen
          MaxMishaps  \* bound on their number

ASSUME UploadAssumption == Large \subseteq Assets /\ Parts \in Nat \ {0} /\ MaxMishaps \in Nat

VARIABLES server,   \* [Contents -> [state, bytes]] by claimed hash
          xfer,     \* [Lanes -> transfer]
          mishaps   \* failures so far

uploadVars == <<server, xfer, mishaps>>

Step == {"idle", "ticket", "put", "parts", "complete", "abort", "form", "again", "done", "failed"}
Problem == {"none", "other", "unauthorized", "full"}
Transfer == [step: Step, asset: Assets \cup {Nil}, hash: Contents \cup {Nil},
             part: 0..Parts, dup: BOOLEAN, err: Problem]
NoTransfer == [step |-> "idle", asset |-> Nil, hash |-> Nil, part |-> 0,
               dup |-> FALSE, err |-> "none"]
PhotoOnServer == [state: {"none", "pending", "done"}, bytes: Contents \cup {Nil}]
NoPhoto == [state |-> "none", bytes |-> Nil]

(* One more failure of this kind. *)
Mishap(kind) == kind \in Mishaps /\ mishaps < MaxMishaps /\ mishaps' = mishaps + 1

BytesOf(l) == device[xfer[l].asset].bytes
Goes(l, step) == xfer' = [xfer EXCEPT ![l].step = step]
Fails(l, err) == xfer' = [xfer EXCEPT ![l].step = "failed", ![l].err = err]
Succeeds(l, hash, dup) ==
  xfer' = [xfer EXCEPT ![l].step = "done", ![l].hash = hash, ![l].dup = dup]

(* uploadPhoto: the direct path needs the hash. *)
Begin(l, a, hash) ==
  [NoTransfer EXCEPT !.step = IF hash = Nil THEN "form" ELSE "ticket", !.asset = a, !.hash = hash]

(* POST upload-ticket.  A photo row with this hash, finished or only
   reserved, makes the upload a duplicate. *)
Ticket(l) ==
  LET h == xfer[l].hash IN
  /\ xfer[l].step = "ticket"
  /\ \/ server[h].state # "none" /\ Succeeds(l, h, TRUE) /\ UNCHANGED <<server, mishaps>>
     \/ /\ server[h].state = "none"
        /\ server' = [server EXCEPT ![h] = [state |-> "pending", bytes |-> Nil]]
        /\ \/ Goes(l, IF xfer[l].asset \in Large THEN "parts" ELSE "put") /\ UNCHANGED mishaps
           \/ Mishap("answer") /\ Goes(l, "form")
     \/ Mishap("noTicket") /\ Goes(l, "form") /\ UNCHANGED server
     \/ Mishap("full") /\ Fails(l, "full") /\ UNCHANGED server
     \/ Mishap("unauthorized") /\ Fails(l, "unauthorized") /\ UNCHANGED server

(* The bytes reach the storage under the reservation, if it still exists. *)
Stored(h, b) == [server EXCEPT ![h].bytes = IF server[h].state = "pending" THEN b ELSE @]

(* putToPresignedUrl: a failure leaves the reservation behind. *)
Put(l) ==
  /\ xfer[l].step = "put"
  /\ \/ /\ BytesOf(l) # Nil
        /\ server' = Stored(xfer[l].hash, BytesOf(l))
        /\ Goes(l, "complete") /\ UNCHANGED mishaps
     \/ BytesOf(l) = Nil /\ Goes(l, "form") /\ UNCHANGED <<server, mishaps>>
     \/ Mishap("put") /\ Goes(l, "form") /\ UNCHANGED server

(* One part of a multipart session: part-url, then putPart with its second
   attempt; a part that fails twice aborts the session. *)
Part(l) ==
  LET h == xfer[l].hash
      last == xfer[l].part + 1 = Parts IN
  /\ xfer[l].step = "parts"
  /\ \/ /\ server[h].state = "pending" /\ BytesOf(l) # Nil
        /\ server' = IF last THEN Stored(h, BytesOf(l)) ELSE server
        /\ xfer' = [xfer EXCEPT ![l].part = @ + 1,
                                ![l].step = IF last THEN "complete" ELSE "parts"]
        /\ UNCHANGED mishaps
     \/ /\ server[h].state # "pending" \/ BytesOf(l) = Nil
        /\ Goes(l, "abort") /\ UNCHANGED <<server, mishaps>>
     \/ Mishap("part") /\ Goes(l, "abort") /\ UNCHANGED server
     \/ Mishap("unauthorized") /\ Fails(l, "unauthorized") /\ UNCHANGED server

(* A complete that failed falls back, a multipart one aborting first. *)
Incomplete(l) == Goes(l, IF xfer[l].asset \in Large THEN "abort" ELSE "form")

Complete(l) ==
  LET h == xfer[l].hash IN
  /\ xfer[l].step = "complete"
  /\ \/ /\ server[h].state = "pending" /\ server[h].bytes # Nil
        /\ server' = [server EXCEPT ![h].state = "done"]
        /\ \/ Succeeds(l, h, FALSE) /\ UNCHANGED mishaps
           \/ Mishap("answer") /\ Incomplete(l)
     \/ /\ server[h].state # "pending" \/ server[h].bytes = Nil
        /\ Incomplete(l) /\ UNCHANGED <<server, mishaps>>
     \/ Mishap("complete") /\ Incomplete(l) /\ UNCHANGED server
     \/ Mishap("unauthorized") /\ Fails(l, "unauthorized") /\ UNCHANGED server

(* POST abort, best effort: only a reservation is dropped. *)
Abort(l) ==
  LET h == xfer[l].hash IN
  /\ xfer[l].step = "abort"
  /\ Goes(l, "form")
  /\ \/ /\ server' = IF server[h].state = "pending"
                     THEN [server EXCEPT ![h] = NoPhoto] ELSE server
        /\ UNCHANGED mishaps
     \/ Mishap("abort") /\ UNCHANGED server

(* POST photos with the file: the server hashes what it received, and a row
   with that hash, reserved or finished, makes it a duplicate.  A 401 is
   retried once, after a refresh. *)
Form(l) ==
  LET b == BytesOf(l) IN
  /\ xfer[l].step \in {"form", "again"}
  /\ \/ /\ b # Nil /\ server[b].state # "none"
        /\ Succeeds(l, b, TRUE) /\ UNCHANGED <<server, mishaps>>
     \/ /\ b # Nil /\ server[b].state = "none"
        /\ server' = [server EXCEPT ![b] = [state |-> "done", bytes |-> b]]
        /\ \/ Succeeds(l, b, FALSE) /\ UNCHANGED mishaps
           \/ Mishap("answer") /\ Fails(l, "other")
     \/ b = Nil /\ Fails(l, "other") /\ UNCHANGED <<server, mishaps>>
     \/ Mishap("form") /\ Fails(l, "other") /\ UNCHANGED server
     \/ Mishap("full") /\ Fails(l, "full") /\ UNCHANGED server
     \/ /\ Mishap("unauthorized") /\ UNCHANGED server
        /\ IF xfer[l].step = "form" THEN Goes(l, "again") ELSE Fails(l, "unauthorized")

(* The server drops a reservation nobody is uploading to any more. *)
SweepReservation(h) ==
  /\ server[h].state = "pending"
  /\ \A l \in Lanes : xfer[l].hash = h => xfer[l].step \in {"idle", "done", "failed"}
  /\ server' = [server EXCEPT ![h] = NoPhoto]
  /\ UNCHANGED <<xfer, mishaps>>

TransferStep(l) ==
  /\ \/ Ticket(l) \/ Put(l) \/ Part(l) \/ Complete(l) \/ Abort(l) \/ Form(l)
  /\ UNCHANGED inventoryVars

UploadInit ==
  /\ server = [h \in Contents |->
       IF \E a \in Legacy : device[a].bytes = h
       THEN [state |-> "done", bytes |-> h] ELSE NoPhoto]
  /\ xfer = [l \in Lanes |-> NoTransfer]
  /\ mishaps = 0

UploadTypeOK ==
  /\ server \in [Contents -> PhotoOnServer]
  /\ xfer \in [Lanes -> Transfer]
  /\ mishaps \in 0..MaxMishaps
=============================================================================
