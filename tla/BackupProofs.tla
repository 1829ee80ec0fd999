---------------------------- MODULE BackupProofs ----------------------------
(***************************************************************************)
(* Type correctness and the safety of the mobile backup, for any number of *)
(* photos, folders, lanes, jobs and failures.  One inductive invariant     *)
(* carries them all.                                                       *)
(***************************************************************************)
EXTENDS BackupScreens, FiniteSetTheorems, TLAPS

InventoryRows == InventoryRow \cup {NoRow}
Transient == {"hashing", "uploading"}

(* A row that no upload of the running job will be made of: it is gone, or
   met again with no hash. *)
Unsent(row) == row = NoRow \/ (row.hash = Nil /\ row.state \in {"pending", "excluded"})

(* The queue and the lanes: each asset is in one place. *)
LaneKnows ==
  \A l \in Lanes :
    /\ xfer[l].step = "idle" <=> xfer[l].asset = Nil
    /\ xfer[l].step \in {"ticket", "put", "parts", "complete", "abort", "done"} => xfer[l].hash # Nil
    /\ xfer[l].step = "ticket" => xfer[l].part = 0
    /\ xfer[l].step = "parts" => xfer[l].part < Parts
    /\ xfer[l].step # "idle" => job.step = "upload"
QueueOnce ==
  /\ \A r, s \in run.queue : r.asset = s.asset => r = s
  /\ \A r \in run.queue, l \in Lanes : r.asset # xfer[l].asset

(* The locals of the job are empty outside the steps that use them. *)
JobKnows ==
  /\ job.kind = "none" <=> job.step = "idle"
  /\ job.step \notin {"assets", "hash"} => hashing = NoHashing
  /\ job.step = "assets" => hashing.asset = Nil
  /\ job.step \notin {"rows", "upload"} => run = NoRun

(* A failure is of an asset that left the queue: the failures and what is
   still to come are no more than the assets. *)
Waiting == {r.asset : r \in run.queue} \cup ({xfer[l].asset : l \in Lanes} \ {Nil})
FailuresBounded == run.failures + Cardinality(Waiting) <= Cardinality(Assets)

(* The photos that were locked when the scan began. *)
LockedOut ==
  /\ \A r \in run.queue : r.asset \notin scan.locked
  /\ \A a \in scan.locked : a \notin hashing.targets /\ a # hashing.asset /\ a \notin scan.present
  /\ job.step \in {"assets", "hash", "seed", "rows", "upload"} =>
       \A a \in scan.locked : Unsent(inventory[a])

BackupInv ==
  /\ BackupTypeOK /\ JobKnows /\ LaneKnows /\ OneLanePerAsset /\ QueueOnce /\ FailuresBounded
  /\ LockedOut /\ LockedNeverSent /\ TransientOwned

-----------------------------------------------------------------------------
(* What the statements of the inventory do to a row: it stays in its type,
   nothing but a lane or the hashing loop makes it transient, and a row that
   will not be sent stays one. *)
Gentle(row, new) ==
  /\ new \in InventoryRows
  /\ new.state \in Transient => new.state = row.state
  /\ Unsent(row) => Unsent(new)
GentleTable(inv, new) ==
  /\ new \in [Assets -> InventoryRows]
  /\ \A a \in Assets : Gentle(inv[a], new[a])

LEMMA UpsertedGentle ==
  ASSUME NEW row \in InventoryRows, NEW stamp \in 0..MaxStamp, NEW why \in Reason
  PROVE  Gentle(row, Upserted(row, stamp, why))
BY InventoryAssumption
   DEF Gentle, Upserted, Refreshed, InventoryRows, InventoryRow, NoRow, Unsent, Transient, Reason,
       InventoryState

LEMMA UpsertGentle ==
  ASSUME NEW inv \in [Assets -> InventoryRows], device \in [Assets -> File],
         NEW entries, NEW why \in Reason
  PROVE  GentleTable(inv, UpsertFromScan(inv, entries, why))
<1> \A a \in Assets : inv[a] \in InventoryRows /\ device[a].stamp \in 0..MaxStamp
  BY DEF File
<1>1. \A a \in Assets : Gentle(inv[a], Upserted(inv[a], device[a].stamp, why))
  BY UpsertedGentle
<1>2. \A a \in Assets : Gentle(inv[a], inv[a])
  BY DEF Gentle
<1> QED
  BY <1>1, <1>2 DEF GentleTable, UpsertFromScan, Gentle

(* Leaving the cycle, coming back and being found on the server. *)
LEMMA RowGentle ==
  ASSUME NEW row \in InventoryRows, NEW why \in Reason
  PROVE  /\ Gentle(row, row)
         /\ row # NoRow => Gentle(row, [row EXCEPT !.state = "excluded", !.why = why])
         /\ row # NoRow => Gentle(row, [row EXCEPT !.state = IF row.hash # Nil THEN "queued" ELSE "pending",
                                                   !.why = "none"])
         /\ row.hash # Nil => Gentle(row, [row EXCEPT !.state = "uploaded", !.why = "none"])
<1>1. CASE row = NoRow
  BY <1>1 DEF Gentle, InventoryRows, NoRow, Unsent, Transient
<1>2. CASE row \in InventoryRow
  <2>0. row \in InventoryRows /\ row.hash \in Contents \cup {Nil} /\ row.stamp \in 0..MaxStamp
    BY <1>2 DEF InventoryRow, InventoryRows
  <2>1. ASSUME NEW state \in InventoryState \ Transient, NEW w \in Reason,
               row.hash = Nil => state \in {"pending", "excluded"}
        PROVE  Gentle(row, [row EXCEPT !.state = state, !.why = w])
    <3> DEFINE new == [row EXCEPT !.state = state, !.why = w]
    <3>1. new \in InventoryRow /\ new.state = state /\ new.hash = row.hash
      BY <1>2, <2>1 DEF InventoryRow, InventoryState
    <3> HIDE DEF new
    <3>2. Gentle(row, new)
      BY <3>1, <2>1, <1>2 DEF Gentle, InventoryRows, Unsent, InventoryRow, InventoryState, NoRow
    <3> QED
      BY <3>2 DEF new
  <2>2. Gentle(row, row)
    BY <2>0 DEF Gentle
  <2>3. "none" \in Reason /\ {"excluded", "queued", "pending", "uploaded"} \subseteq InventoryState \ Transient
    BY DEF Reason, InventoryState, Transient
  <2> QED
    BY <2>1, <2>2, <2>3
<1> QED
  BY <1>1, <1>2 DEF InventoryRows

LEMMA ExcludeGentle ==
  ASSUME NEW inv \in [Assets -> InventoryRows], NEW f, NEW why \in Reason
  PROVE  GentleTable(inv, ExcludeFolderItems(inv, f, why))
<1> SUFFICES ASSUME NEW a \in Assets
             PROVE  Gentle(inv[a], ExcludeFolderItems(inv, f, why)[a])
  BY DEF GentleTable, Gentle, ExcludeFolderItems
<1>1. inv[a] \in InventoryRows /\ Gentle(inv[a], inv[a])
  BY RowGentle DEF Reason
<1>2. CASE FolderOf[a] = f /\ inv[a].state \in {"pending", "hashing", "queued", "uploading", "failed"}
  <2>1. inv[a] # NoRow
    BY <1>2 DEF NoRow
  <2>2. Gentle(inv[a], [inv[a] EXCEPT !.state = "excluded", !.why = why])
    BY <1>1, <2>1, RowGentle DEF Reason
  <2>3. ExcludeFolderItems(inv, f, why)[a] = [inv[a] EXCEPT !.state = "excluded", !.why = why]
    BY <1>2 DEF ExcludeFolderItems
  <2> QED
    BY <2>2, <2>3, Zenon
<1>3. CASE ~(FolderOf[a] = f /\ inv[a].state \in {"pending", "hashing", "queued", "uploading", "failed"})
  <2>1. ExcludeFolderItems(inv, f, why)[a] = inv[a]
    BY <1>3 DEF ExcludeFolderItems
  <2> QED
    BY <1>1, <2>1, Zenon
<1> QED
  BY <1>2, <1>3

LEMMA RependGentle ==
  ASSUME NEW inv \in [Assets -> InventoryRows], NEW f
  PROVE  GentleTable(inv, RependFolderItems(inv, f))
<1> SUFFICES ASSUME NEW a \in Assets
             PROVE  Gentle(inv[a], RependFolderItems(inv, f)[a])
  BY DEF GentleTable, Gentle, RependFolderItems
<1>1. inv[a] \in InventoryRows /\ Gentle(inv[a], inv[a])
  BY RowGentle DEF Reason
<1>2. CASE FolderOf[a] = f /\ inv[a].state = "excluded" /\ inv[a].why \in {"none", "rule", "hold"}
  <2>1. inv[a] # NoRow
    BY <1>2 DEF NoRow
  <2>2. Gentle(inv[a], [inv[a] EXCEPT !.state = IF inv[a].hash # Nil THEN "queued" ELSE "pending", !.why = "none"])
    BY <1>1, <2>1, RowGentle DEF Reason
  <2>3. RependFolderItems(inv, f)[a] = [inv[a] EXCEPT !.state = IF inv[a].hash # Nil THEN "queued" ELSE "pending", !.why = "none"]
    BY <1>2 DEF RependFolderItems
  <2> QED
    BY <2>2, <2>3, Zenon
<1>3. CASE ~(FolderOf[a] = f /\ inv[a].state = "excluded" /\ inv[a].why \in {"none", "rule", "hold"})
  <2>1. RependFolderItems(inv, f)[a] = inv[a]
    BY <1>3 DEF RependFolderItems
  <2> QED
    BY <1>1, <2>1, Zenon
<1> QED
  BY <1>2, <1>3

LEMMA SeedGentle ==
  ASSUME NEW inv \in [Assets -> InventoryRows], NEW hashes \in SUBSET Contents
  PROVE  GentleTable(inv, MarkUploadedByHashes(inv, hashes))
<1> SUFFICES ASSUME NEW a \in Assets
             PROVE  Gentle(inv[a], MarkUploadedByHashes(inv, hashes)[a])
  BY DEF GentleTable, Gentle, MarkUploadedByHashes
<1>1. inv[a] \in InventoryRows /\ Gentle(inv[a], inv[a])
  BY RowGentle DEF Reason
<1>2. CASE inv[a].hash \in hashes /\ inv[a].state \in {"pending", "hashing", "queued"}
  <2>1. inv[a].hash # Nil
    BY <1>2, InventoryAssumption DEF NoRow
  <2>2. Gentle(inv[a], [inv[a] EXCEPT !.state = "uploaded", !.why = "none"])
    BY <1>1, <2>1, RowGentle DEF Reason
  <2>3. MarkUploadedByHashes(inv, hashes)[a] = [inv[a] EXCEPT !.state = "uploaded", !.why = "none"]
    BY <1>2 DEF MarkUploadedByHashes
  <2> QED
    BY <2>2, <2>3, Zenon
<1>3. CASE ~(inv[a].hash \in hashes /\ inv[a].state \in {"pending", "hashing", "queued"})
  <2>1. MarkUploadedByHashes(inv, hashes)[a] = inv[a]
    BY <1>3 DEF MarkUploadedByHashes
  <2> QED
    BY <1>1, <2>1, Zenon
<1> QED
  BY <1>2, <1>3

(* One row at a time, the lanes and the hashing loop. *)
LEMMA MarkTyped ==
  ASSUME NEW inv \in [Assets -> InventoryRows], NEW a \in Assets, NEW hash \in Contents \cup {Nil},
         NEW why \in Reason
  PROVE  /\ MarkHashing(inv, a) \in [Assets -> InventoryRows]
         /\ MarkUploadStarted(inv, a) \in [Assets -> InventoryRows]
         /\ SetContentHash(inv, a, hash) \in [Assets -> InventoryRows]
         /\ MarkUploaded(inv, a, hash) \in [Assets -> InventoryRows]
         /\ MarkFailed(inv, a) \in [Assets -> InventoryRows]
         /\ MarkExcluded(inv, a, why) \in [Assets -> InventoryRows]
<1> inv[a] = NoRow \/ inv[a] \in InventoryRow
  BY DEF InventoryRows
<1>1. \A row : (inv[a] = NoRow \/ row \in InventoryRow) => Update(inv, a, row) \in [Assets -> InventoryRows]
  BY DEF Update, InventoryRows
<1> QED
  BY <1>1 DEF MarkHashing, MarkUploadStarted, SetContentHash, MarkUploaded, MarkFailed, MarkExcluded,
              InventoryRow, InventoryState, Reason

-----------------------------------------------------------------------------
(* One request of a transfer: the lane keeps its asset, and knows of the
   rest what its next request needs. *)
Advanced(l, step, hash, part) ==
  /\ xfer' \in [Lanes -> Transfer]
  /\ \A m \in Lanes \ {l} : xfer'[m] = xfer[m]
  /\ xfer'[l].asset = xfer[l].asset
  /\ xfer'[l].step = step /\ xfer'[l].hash = hash /\ xfer'[l].part = part

LEMMA GoesAdvances ==
  ASSUME xfer \in [Lanes -> Transfer], NEW l \in Lanes, NEW step \in Step, Goes(l, step)
  PROVE  Advanced(l, step, xfer[l].hash, xfer[l].part)
BY DEF Goes, Transfer, Advanced

LEMMA FailsAdvances ==
  ASSUME xfer \in [Lanes -> Transfer], NEW l \in Lanes, NEW err \in Problem, Fails(l, err)
  PROVE  Advanced(l, "failed", xfer[l].hash, xfer[l].part)
BY DEF Fails, Transfer, Advanced, Step

LEMMA SucceedsAdvances ==
  ASSUME xfer \in [Lanes -> Transfer], NEW l \in Lanes, NEW hash \in Contents, NEW dup \in BOOLEAN,
         Succeeds(l, hash, dup)
  PROVE  Advanced(l, "done", hash, xfer[l].part)
<1> DEFINE new == [xfer[l] EXCEPT !.step = "done", !.hash = hash, !.dup = dup]
<1>1. xfer[l] \in Transfer /\ "done" \in Step /\ hash \in Contents \cup {Nil}
  BY DEF Step
<1>2. CASE dup = TRUE
  <2>1. [xfer[l] EXCEPT !.step = "done", !.hash = hash, !.dup = TRUE] \in Transfer
    BY <1>1 DEF Transfer
  <2> QED
    BY <1>2, <2>1 DEF Succeeds, Transfer, Advanced
<1>3. CASE dup = FALSE
  <2>1. [xfer[l] EXCEPT !.step = "done", !.hash = hash, !.dup = FALSE] \in Transfer
    BY <1>1 DEF Transfer
  <2> QED
    BY <1>3, <2>1 DEF Succeeds, Transfer, Advanced
<1> QED
  BY <1>2, <1>3

(* What each of the six requests leaves the lane with. *)
AdvancedWell(l) ==
  /\ xfer[l].step # "idle"
  /\ server' \in [Contents -> PhotoOnServer] /\ mishaps' \in 0..MaxMishaps
  /\ \E step \in Step \ {"idle", "ticket"}, hash \in Contents \cup {Nil}, part \in 0..Parts :
       /\ Advanced(l, step, hash, part)
       /\ step \in {"put", "parts", "complete", "abort", "done"} => hash # Nil
       /\ step = "parts" => part < Parts

LEMMA MishapTyped ==
  ASSUME NEW kind, Mishap(kind), mishaps \in 0..MaxMishaps
  PROVE  mishaps' \in 0..MaxMishaps
BY UploadAssumption DEF Mishap

LEMMA StoredTyped ==
  ASSUME server \in [Contents -> PhotoOnServer], NEW h \in Contents, NEW b \in Contents
  PROVE  Stored(h, b) \in [Contents -> PhotoOnServer]
BY DEF Stored, PhotoOnServer

(* The facts every request starts from. *)
LaneTyped(l) ==
  /\ xfer \in [Lanes -> Transfer] /\ server \in [Contents -> PhotoOnServer] /\ mishaps \in 0..MaxMishaps
  /\ xfer[l].hash \in Contents \cup {Nil} /\ xfer[l].part \in 0..Parts
  /\ BytesOf(l) \in Contents \cup {Nil}

LEMMA LaneIsTyped ==
  ASSUME BackupTypeOK, LaneKnows, NEW l \in Lanes, xfer[l].step # "idle"
  PROVE  LaneTyped(l)
<1>1. xfer \in [Lanes -> Transfer] /\ server \in [Contents -> PhotoOnServer] /\ mishaps \in 0..MaxMishaps
      /\ device \in [Assets -> File]
  BY DEF BackupTypeOK, UploadTypeOK, InventoryTypeOK
<1>2. xfer[l].asset \in Assets
  BY <1>1 DEF LaneKnows, Transfer
<1>3. xfer[l].hash \in Contents \cup {Nil} /\ xfer[l].part \in 0..Parts
  BY <1>1 DEF Transfer
<1>4. BytesOf(l) \in Contents \cup {Nil}
  BY <1>1, <1>2 DEF BytesOf, File
<1> QED
  BY <1>1, <1>3, <1>4 DEF LaneTyped

(* The three ends of a request. *)
LEMMA GoesWell ==
  ASSUME NEW l \in Lanes, LaneTyped(l), xfer[l].step # "idle",
         NEW step \in Step \ {"idle", "ticket"}, Goes(l, step),
         server' \in [Contents -> PhotoOnServer], mishaps' \in 0..MaxMishaps,
         step \in {"put", "parts", "complete", "abort", "done"} => xfer[l].hash # Nil,
         step = "parts" => xfer[l].part < Parts
  PROVE  AdvancedWell(l)
BY GoesAdvances DEF LaneTyped, AdvancedWell

LEMMA FailsWell ==
  ASSUME NEW l \in Lanes, LaneTyped(l), xfer[l].step # "idle", NEW err \in Problem, Fails(l, err),
         server' \in [Contents -> PhotoOnServer], mishaps' \in 0..MaxMishaps
  PROVE  AdvancedWell(l)
<1>1. Advanced(l, "failed", xfer[l].hash, xfer[l].part)
  BY FailsAdvances DEF LaneTyped
<1> QED
  BY <1>1 DEF LaneTyped, AdvancedWell, Step

LEMMA SucceedsWell ==
  ASSUME NEW l \in Lanes, LaneTyped(l), xfer[l].step # "idle", NEW hash \in Contents,
         NEW dup \in BOOLEAN, Succeeds(l, hash, dup),
         server' \in [Contents -> PhotoOnServer], mishaps' \in 0..MaxMishaps
  PROVE  AdvancedWell(l)
<1>1. Advanced(l, "done", hash, xfer[l].part)
  BY SucceedsAdvances DEF LaneTyped
<1>2. hash # Nil /\ hash \in Contents \cup {Nil}
  BY InventoryAssumption
<1> QED
  BY <1>1, <1>2 DEF LaneTyped, AdvancedWell, Step

LEMMA TicketAdvances ==
  ASSUME BackupTypeOK, LaneKnows, NEW l \in Lanes, Ticket(l)
  PROVE  AdvancedWell(l)
<1> DEFINE h == xfer[l].hash
<1>1. xfer[l].step = "ticket" /\ LaneTyped(l)
  BY LaneIsTyped DEF Ticket
<1>2. h \in Contents /\ xfer[l].part < Parts
  BY <1>1, UploadAssumption DEF LaneKnows, LaneTyped
<1>3. [server EXCEPT ![h] = [state |-> "pending", bytes |-> Nil]] \in [Contents -> PhotoOnServer]
  BY <1>1 DEF PhotoOnServer, LaneTyped
<1>4. \A k : Mishap(k) => mishaps' \in 0..MaxMishaps
  BY <1>1, MishapTyped DEF LaneTyped
<1>5. mishaps \in 0..MaxMishaps /\ server \in [Contents -> PhotoOnServer]
  BY <1>1 DEF LaneTyped
<1>6. CASE Succeeds(l, h, TRUE) /\ UNCHANGED <<server, mishaps>>
  BY <1>1, <1>2, <1>5, <1>6, SucceedsWell
<1>7. ASSUME NEW step \in {"parts", "put", "form"}, Goes(l, step), server' \in [Contents -> PhotoOnServer],
             mishaps' \in 0..MaxMishaps
      PROVE  AdvancedWell(l)
  BY <1>1, <1>2, <1>7, GoesWell, InventoryAssumption DEF Step
<1>8. ASSUME NEW err \in {"full", "unauthorized"}, Fails(l, err), UNCHANGED server, mishaps' \in 0..MaxMishaps
      PROVE  AdvancedWell(l)
  BY <1>1, <1>5, <1>8, FailsWell DEF Problem
<1>9. CASE /\ server[h].state = "none"
           /\ server' = [server EXCEPT ![h] = [state |-> "pending", bytes |-> Nil]]
           /\ \/ Goes(l, IF xfer[l].asset \in Large THEN "parts" ELSE "put") /\ UNCHANGED mishaps
              \/ Mishap("answer") /\ Goes(l, "form")
  <2>1. (IF xfer[l].asset \in Large THEN "parts" ELSE "put") \in {"parts", "put", "form"}
    OBVIOUS
  <2> QED
    BY <1>3, <1>4, <1>5, <1>7, <1>9, <2>1
<1>10. CASE Mishap("noTicket") /\ Goes(l, "form") /\ UNCHANGED server
  BY <1>4, <1>5, <1>7, <1>10
<1>11. CASE Mishap("full") /\ Fails(l, "full") /\ UNCHANGED server
  BY <1>4, <1>8, <1>11
<1>12. CASE Mishap("unauthorized") /\ Fails(l, "unauthorized") /\ UNCHANGED server
  BY <1>4, <1>8, <1>12
<1> QED
  BY <1>6, <1>9, <1>10, <1>11, <1>12 DEF Ticket

LEMMA PutAdvances ==
  ASSUME BackupTypeOK, LaneKnows, NEW l \in Lanes, Put(l)
  PROVE  AdvancedWell(l)
<1>1. xfer[l].step = "put" /\ LaneTyped(l)
  BY LaneIsTyped DEF Put
<1>2. xfer[l].hash \in Contents /\ mishaps \in 0..MaxMishaps /\ server \in [Contents -> PhotoOnServer]
  BY <1>1 DEF LaneKnows, LaneTyped
<1>3. CASE /\ BytesOf(l) # Nil
           /\ server' = Stored(xfer[l].hash, BytesOf(l))
           /\ Goes(l, "complete") /\ UNCHANGED mishaps
  <2>1. server' \in [Contents -> PhotoOnServer]
    BY <1>1, <1>2, <1>3, StoredTyped DEF LaneTyped
  <2> QED
    BY <1>1, <1>2, <1>3, <2>1, GoesWell, InventoryAssumption DEF Step
<1>4. CASE BytesOf(l) = Nil /\ Goes(l, "form") /\ UNCHANGED <<server, mishaps>>
  BY <1>1, <1>2, <1>4, GoesWell DEF Step
<1>5. CASE Mishap("put") /\ Goes(l, "form") /\ UNCHANGED server
  BY <1>1, <1>2, <1>5, GoesWell, MishapTyped DEF Step
<1> QED
  BY <1>3, <1>4, <1>5 DEF Put

LEMMA PartAdvances ==
  ASSUME BackupTypeOK, LaneKnows, NEW l \in Lanes, Part(l)
  PROVE  AdvancedWell(l)
<1> DEFINE h == xfer[l].hash
           last == xfer[l].part + 1 = Parts
<1>1. xfer[l].step = "parts" /\ LaneTyped(l)
  BY LaneIsTyped DEF Part
<1>2. /\ h \in Contents /\ mishaps \in 0..MaxMishaps /\ server \in [Contents -> PhotoOnServer]
      /\ xfer[l].part \in 0..Parts /\ xfer[l].part < Parts /\ Parts \in Nat
  BY <1>1, UploadAssumption DEF LaneKnows, LaneTyped
<1>3. CASE /\ server[h].state = "pending" /\ BytesOf(l) # Nil
           /\ server' = IF last THEN Stored(h, BytesOf(l)) ELSE server
           /\ xfer' = [xfer EXCEPT ![l].part = @ + 1, ![l].step = IF last THEN "complete" ELSE "parts"]
           /\ UNCHANGED mishaps
  <2> DEFINE step == IF last THEN "complete" ELSE "parts"
             part == xfer[l].part + 1
  <2>1. server' \in [Contents -> PhotoOnServer]
    BY <1>1, <1>2, <1>3, StoredTyped DEF LaneTyped
  <2>2. step \in Step \ {"idle", "ticket"} /\ part \in 0..Parts /\ (step = "parts" => part < Parts)
    BY <1>2 DEF Step
  <2>3. Advanced(l, step, h, part)
    BY <1>1, <1>3, <2>2 DEF LaneTyped, Transfer, Advanced
  <2> QED
    BY <1>1, <1>2, <1>3, <2>1, <2>2, <2>3, InventoryAssumption DEF AdvancedWell
<1>4. CASE Goes(l, "abort") /\ UNCHANGED <<server, mishaps>>
  BY <1>1, <1>2, <1>4, GoesWell, InventoryAssumption DEF Step
<1>5. CASE Mishap("part") /\ Goes(l, "abort") /\ UNCHANGED server
  BY <1>1, <1>2, <1>5, GoesWell, MishapTyped, InventoryAssumption DEF Step
<1>6. CASE Mishap("unauthorized") /\ Fails(l, "unauthorized") /\ UNCHANGED server
  BY <1>1, <1>2, <1>6, FailsWell, MishapTyped DEF Problem
<1> QED
  BY <1>3, <1>4, <1>5, <1>6 DEF Part

LEMMA CompleteAdvances ==
  ASSUME BackupTypeOK, LaneKnows, NEW l \in Lanes, Complete(l)
  PROVE  AdvancedWell(l)
<1> DEFINE h == xfer[l].hash
<1>1. xfer[l].step = "complete" /\ LaneTyped(l)
  BY LaneIsTyped DEF Complete
<1>2. h \in Contents /\ mishaps \in 0..MaxMishaps /\ server \in [Contents -> PhotoOnServer]
  BY <1>1 DEF LaneKnows, LaneTyped
<1>3. \A k : Mishap(k) => mishaps' \in 0..MaxMishaps
  BY <1>1, MishapTyped DEF LaneTyped
<1>4. [server EXCEPT ![h].state = "done"] \in [Contents -> PhotoOnServer]
  BY <1>2 DEF PhotoOnServer
<1>5. ASSUME Incomplete(l), server' \in [Contents -> PhotoOnServer], mishaps' \in 0..MaxMishaps
      PROVE  AdvancedWell(l)
  <2>1. (IF xfer[l].asset \in Large THEN "abort" ELSE "form") \in Step \ {"idle", "ticket", "parts"}
    BY DEF Step
  <2> QED
    BY <1>1, <1>2, <1>5, <2>1, GoesWell, InventoryAssumption DEF Incomplete
<1>6. CASE /\ server[h].state = "pending" /\ server[h].bytes # Nil
           /\ server' = [server EXCEPT ![h].state = "done"]
           /\ \/ Succeeds(l, h, FALSE) /\ UNCHANGED mishaps
              \/ Mishap("answer") /\ Incomplete(l)
  BY <1>1, <1>2, <1>3, <1>4, <1>5, <1>6, SucceedsWell
<1>7. CASE Incomplete(l) /\ UNCHANGED <<server, mishaps>>
  BY <1>2, <1>5, <1>7
<1>8. CASE Mishap("complete") /\ Incomplete(l) /\ UNCHANGED server
  BY <1>2, <1>3, <1>5, <1>8
<1>9. CASE Mishap("unauthorized") /\ Fails(l, "unauthorized") /\ UNCHANGED server
  BY <1>1, <1>2, <1>3, <1>9, FailsWell DEF Problem
<1> QED
  BY <1>6, <1>7, <1>8, <1>9 DEF Complete

LEMMA AbortAdvances ==
  ASSUME BackupTypeOK, LaneKnows, NEW l \in Lanes, Abort(l)
  PROVE  AdvancedWell(l)
<1> DEFINE h == xfer[l].hash
<1>1. xfer[l].step = "abort" /\ LaneTyped(l) /\ Goes(l, "form")
  BY LaneIsTyped DEF Abort
<1>2. h \in Contents /\ mishaps \in 0..MaxMishaps /\ server \in [Contents -> PhotoOnServer]
  BY <1>1 DEF LaneKnows, LaneTyped
<1>3. mishaps' \in 0..MaxMishaps
  BY <1>2, MishapTyped DEF Abort
<1>4. NoPhoto \in PhotoOnServer
  BY DEF NoPhoto, PhotoOnServer
<1>5. server' \in [Contents -> PhotoOnServer]
  BY <1>2, <1>4 DEF Abort
<1> QED
  BY <1>1, <1>3, <1>5, GoesWell DEF Step

LEMMA FormAdvances ==
  ASSUME BackupTypeOK, LaneKnows, NEW l \in Lanes, Form(l)
  PROVE  AdvancedWell(l)
<1> DEFINE b == BytesOf(l)
<1>1. xfer[l].step \in {"form", "again"} /\ xfer[l].step # "idle" /\ LaneTyped(l)
  BY LaneIsTyped DEF Form
<1>2. b \in Contents \cup {Nil} /\ mishaps \in 0..MaxMishaps /\ server \in [Contents -> PhotoOnServer]
  BY <1>1 DEF LaneTyped
<1>3. \A k : Mishap(k) => mishaps' \in 0..MaxMishaps
  BY <1>2, MishapTyped
<1>4. CASE b # Nil /\ server[b].state # "none" /\ Succeeds(l, b, TRUE) /\ UNCHANGED <<server, mishaps>>
  BY <1>1, <1>2, <1>4, SucceedsWell
<1>5. ASSUME NEW err \in {"other", "full", "unauthorized"}, Fails(l, err),
             server' \in [Contents -> PhotoOnServer], mishaps' \in 0..MaxMishaps
      PROVE  AdvancedWell(l)
  BY <1>1, <1>5, FailsWell DEF Problem
<1>6. CASE /\ b # Nil /\ server[b].state = "none"
           /\ server' = [server EXCEPT ![b] = [state |-> "done", bytes |-> b]]
           /\ \/ Succeeds(l, b, FALSE) /\ UNCHANGED mishaps
              \/ Mishap("answer") /\ Fails(l, "other")
  <2>1. server' \in [Contents -> PhotoOnServer]
    BY <1>2, <1>6 DEF PhotoOnServer
  <2> QED
    BY <1>1, <1>2, <1>3, <1>5, <1>6, <2>1, SucceedsWell
<1>7. CASE b = Nil /\ Fails(l, "other") /\ UNCHANGED <<server, mishaps>>
  BY <1>2, <1>5, <1>7
<1>8. CASE Mishap("form") /\ Fails(l, "other") /\ UNCHANGED server
  BY <1>2, <1>3, <1>5, <1>8
<1>9. CASE Mishap("full") /\ Fails(l, "full") /\ UNCHANGED server
  BY <1>2, <1>3, <1>5, <1>9
<1>10. CASE /\ Mishap("unauthorized") /\ UNCHANGED server
            /\ IF xfer[l].step = "form" THEN Goes(l, "again") ELSE Fails(l, "unauthorized")
  <2>1. mishaps' \in 0..MaxMishaps /\ server' \in [Contents -> PhotoOnServer]
    BY <1>2, <1>3, <1>10
  <2>2. CASE Goes(l, "again")
    BY <1>1, <2>1, <2>2, GoesWell DEF Step
  <2> QED
    BY <1>5, <1>10, <2>1, <2>2
<1> QED
  BY <1>4, <1>6, <1>7, <1>8, <1>9, <1>10 DEF Form

-----------------------------------------------------------------------------
(* Every request keeps the invariant: no lane takes or leaves an asset. *)
LEMMA TransferAdvances ==
  ASSUME BackupInv, NEW l \in Lanes, TransferStep(l)
  PROVE  AdvancedWell(l)
BY TicketAdvances, PutAdvances, PartAdvances, CompleteAdvances, AbortAdvances, FormAdvances
   DEF TransferStep, BackupInv

LEMMA TransferKeeps ==
  ASSUME BackupInv, NEW l \in Lanes, TransferStep(l), UNCHANGED <<jobVars, runs, acts>>
  PROVE  BackupInv'
<1>1. AdvancedWell(l) /\ UNCHANGED <<inventoryVars, jobVars, runs, acts>>
  BY TransferAdvances DEF TransferStep
<1>2. PICK step \in Step \ {"idle", "ticket"}, hash \in Contents \cup {Nil}, part \in 0..Parts :
        /\ Advanced(l, step, hash, part)
        /\ step \in {"put", "parts", "complete", "abort", "done"} => hash # Nil
        /\ step = "parts" => part < Parts
  BY <1>1 DEF AdvancedWell
<1>3. xfer[l].step # "idle" /\ xfer'[l].step # "idle" /\ xfer' \in [Lanes -> Transfer]
  BY <1>1, <1>2 DEF AdvancedWell, Advanced
<1>4. \A m \in Lanes : xfer'[m].asset = xfer[m].asset /\ (xfer'[m].step = "idle" <=> xfer[m].step = "idle")
  BY <1>2, <1>3 DEF Advanced
<1>5. BackupTypeOK'
  BY <1>1, <1>3 DEF BackupInv, BackupTypeOK, InventoryTypeOK, UploadTypeOK, AdvancedWell, inventoryVars, jobVars
<1>6. JobKnows'
  BY <1>1 DEF BackupInv, JobKnows, jobVars
<1>7. LaneKnows'
  <2> SUFFICES ASSUME NEW m \in Lanes
               PROVE  /\ xfer'[m].step = "idle" <=> xfer'[m].asset = Nil
                      /\ xfer'[m].step \in {"ticket", "put", "parts", "complete", "abort", "done"} => xfer'[m].hash # Nil
                      /\ xfer'[m].step = "ticket" => xfer'[m].part = 0
                      /\ xfer'[m].step = "parts" => xfer'[m].part < Parts
                      /\ xfer'[m].step # "idle" => job'.step = "upload"
    BY DEF LaneKnows
  <2>1. CASE m = l
    BY <1>1, <1>2, <1>4, <2>1 DEF BackupInv, LaneKnows, Advanced, jobVars
  <2>2. CASE m # l
    BY <1>1, <1>2, <2>2 DEF BackupInv, LaneKnows, Advanced, jobVars
  <2> QED
    BY <2>1, <2>2
<1>8. OneLanePerAsset' /\ QueueOnce'
  BY <1>1, <1>4 DEF BackupInv, OneLanePerAsset, QueueOnce, jobVars
<1>9. FailuresBounded'
  <2>1. Waiting' = Waiting
    BY <1>1, <1>4 DEF Waiting, jobVars
  <2> QED
    BY <1>1, <2>1 DEF BackupInv, FailuresBounded, jobVars
<1>10. LockedOut' /\ LockedNeverSent'
  BY <1>1, <1>4 DEF BackupInv, LockedOut, LockedNeverSent, jobVars, inventoryVars
<1>11. TransientOwned'
  BY <1>1, <1>4 DEF BackupInv, TransientOwned, Busy, jobVars, inventoryVars
<1> QED
  BY <1>5, <1>6, <1>7, <1>8, <1>9, <1>10, <1>11 DEF BackupInv

-----------------------------------------------------------------------------
(* What happens beside the job: it writes the inventory gently at most. *)
LEMMA BesideKeeps ==
  ASSUME BackupInv, InventoryTypeOK', GentleTable(inventory, inventory'),
         server' \in [Contents -> PhotoOnServer], mishaps' \in 0..MaxMishaps,
         folderScans' \subseteq FolderScan, acts' \in 0..MaxActs,
         UNCHANGED <<job, scan, hashing, run, xfer, runs>>
  PROVE  BackupInv'
<1>1. BackupTypeOK'
  BY DEF BackupInv, BackupTypeOK, UploadTypeOK
<1>2. JobKnows' /\ LaneKnows' /\ OneLanePerAsset' /\ QueueOnce' /\ LockedNeverSent'
  BY DEF BackupInv, JobKnows, LaneKnows, OneLanePerAsset, QueueOnce, LockedNeverSent
<1>3. FailuresBounded'
  BY DEF BackupInv, FailuresBounded, Waiting
<1>4. LockedOut'
  <2>1. scan.locked \subseteq Assets
    BY DEF BackupInv, BackupTypeOK, ScanRecord
  <2> QED
    BY <2>1 DEF BackupInv, LockedOut, GentleTable, Gentle
<1>5. TransientOwned'
  BY DEF BackupInv, TransientOwned, Busy, GentleTable, Gentle, Transient
<1> QED
  BY <1>1, <1>2, <1>3, <1>4, <1>5 DEF BackupInv

LEMMA SameGentle ==
  ASSUME BackupInv
  PROVE  GentleTable(inventory, inventory)
BY DEF BackupInv, BackupTypeOK, InventoryTypeOK, GentleTable, Gentle, InventoryRows

LEMMA ApplyRuleKeeps ==
  ASSUME BackupInv, NEW f \in Folders, NEW mode \in {"include", "exclude"}, ApplyRule(f, mode)
  PROVE  BackupInv'
<1>1. inventory \in [Assets -> InventoryRows]
  BY DEF BackupInv, BackupTypeOK, InventoryTypeOK, InventoryRows
<1>2. GentleTable(inventory, inventory')
  <2>1. GentleTable(inventory, RependFolderItems(inventory, f))
    BY <1>1, RependGentle
  <2>2. GentleTable(inventory, ExcludeFolderItems(inventory, f, "rule"))
    BY <1>1, ExcludeGentle DEF Reason
  <2> QED
    BY <2>1, <2>2 DEF ApplyRule, SetSyncRule
<1>3. InventoryTypeOK'
  BY <1>2 DEF BackupInv, BackupTypeOK, InventoryTypeOK, ApplyRule, SetSyncRule, GentleTable, InventoryRows, Mode
<1>4. [folder |-> f, step |-> "listing", locked |-> locked, why |-> "none"] \in FolderScan
  BY DEF BackupInv, BackupTypeOK, InventoryTypeOK, FolderScan, Reason
<1>5. folderScans' \subseteq FolderScan
  BY <1>4 DEF ApplyRule, BackupInv, BackupTypeOK
<1>6. acts' \in 0..MaxActs /\ mishaps' \in 0..MaxMishaps /\ server' \in [Contents -> PhotoOnServer]
  BY EngineAssumption DEF ApplyRule, Act, BackupInv, BackupTypeOK, UploadTypeOK, uploadVars
<1> QED
  BY <1>2, <1>3, <1>5, <1>6, BesideKeeps DEF ApplyRule, uploadVars

LEMMA FolderScanKeeps ==
  ASSUME BackupInv, FolderScanStep
  PROVE  BackupInv'
<1>1. PICK s \in folderScans : FolderScanListed(s) \/ FolderScanWalk(s)
  BY DEF FolderScanStep
<1>2. s \in FolderScan /\ folderScans \subseteq FolderScan
  BY DEF BackupInv, BackupTypeOK
<1>3. inventory \in [Assets -> InventoryRows] /\ device \in [Assets -> File]
  BY DEF BackupInv, BackupTypeOK, InventoryTypeOK, InventoryRows
<1>4. CASE FolderScanListed(s)
  <2>1. ASSUME NEW why \in {"rule", "none"}
        PROVE  [s EXCEPT !.step = "walking", !.why = why] \in FolderScan
    BY <1>2 DEF FolderScan, Reason
  <2>2. folderScans' \subseteq FolderScan
    BY <1>2, <1>4, <2>1 DEF FolderScanListed
  <2>3. /\ InventoryTypeOK' /\ GentleTable(inventory, inventory')
        /\ server' \in [Contents -> PhotoOnServer] /\ mishaps' \in 0..MaxMishaps /\ acts' \in 0..MaxActs
    BY <1>4, SameGentle
       DEF FolderScanListed, inventoryVars, uploadVars, BackupInv, BackupTypeOK, InventoryTypeOK, UploadTypeOK
  <2> QED
    BY <1>4, <2>2, <2>3, BesideKeeps DEF FolderScanListed, inventoryVars, uploadVars
<1>5. CASE FolderScanWalk(s)
  <2>1. s.why \in Reason
    BY <1>2 DEF FolderScan
  <2>2. GentleTable(inventory, inventory')
    BY <1>3, <1>5, <2>1, UpsertGentle DEF FolderScanWalk
  <2>3. /\ InventoryTypeOK' /\ folderScans' \subseteq FolderScan
        /\ server' \in [Contents -> PhotoOnServer] /\ mishaps' \in 0..MaxMishaps /\ acts' \in 0..MaxActs
    BY <1>2, <1>5, <2>2
       DEF FolderScanWalk, uploadVars, BackupInv, BackupTypeOK, InventoryTypeOK, UploadTypeOK, GentleTable,
           InventoryRows
  <2> QED
    BY <1>5, <2>2, <2>3, BesideKeeps DEF FolderScanWalk, uploadVars
<1> QED
  BY <1>1, <1>4, <1>5

LEMMA SwitchKeeps ==
  ASSUME BackupInv, SwitchAccount
  PROVE  BackupInv'
<1>1. GentleTable(inventory, inventory')
  BY DEF SwitchAccount, GentleTable, Gentle, InventoryRows, NoRow, Unsent, Transient
<1>2. server' \in [Contents -> PhotoOnServer]
  BY DEF SwitchAccount, NoPhoto, PhotoOnServer
<1>3. mishaps' \in 0..MaxMishaps
  BY MishapTyped DEF SwitchAccount, BackupInv, BackupTypeOK, UploadTypeOK
<1>4. InventoryTypeOK'
  BY <1>1 DEF SwitchAccount, BackupInv, BackupTypeOK, InventoryTypeOK, GentleTable, InventoryRows, Mode
<1> QED
  BY <1>1, <1>2, <1>3, <1>4, BesideKeeps DEF SwitchAccount, jobVars, BackupInv, BackupTypeOK

LEMMA EnvironmentKeeps ==
  ASSUME BackupInv, Environment
  PROVE  BackupInv'
<1>1. InventoryTypeOK /\ UploadTypeOK /\ acts \in 0..MaxActs /\ folderScans \subseteq FolderScan
  BY DEF BackupInv, BackupTypeOK
<1>2. ASSUME Act, UNCHANGED <<uploadVars, jobVars, runs, inventory>>, InventoryTypeOK'
      PROVE  BackupInv'
  <2>1. acts' \in 0..MaxActs
    BY <1>1, <1>2, EngineAssumption DEF Act
  <2> QED
    BY <1>1, <1>2, <2>1, SameGentle, BesideKeeps DEF uploadVars, jobVars, UploadTypeOK
<1>3. ASSUME NEW a \in Assets, EditFile(a)
      PROVE  InventoryTypeOK'
  BY <1>1, <1>3, InventoryAssumption DEF EditFile, InventoryTypeOK, File
<1>4. ASSUME NEW a \in Assets, DeleteFile(a)
      PROVE  InventoryTypeOK'
  BY <1>1, <1>4 DEF DeleteFile, InventoryTypeOK, File
<1>5. ASSUME NEW a \in Assets, AddToLockedFolder(a) \/ RemoveFromLockedFolder(a)
      PROVE  InventoryTypeOK'
  BY <1>1, <1>5 DEF AddToLockedFolder, RemoveFromLockedFolder, InventoryTypeOK
<1>6. ASSUME NEW h \in Contents, SweepReservation(h), UNCHANGED <<inventoryVars, jobVars, runs, acts>>
      PROVE  BackupInv'
  <2>1. server' \in [Contents -> PhotoOnServer]
    BY <1>1, <1>6 DEF SweepReservation, UploadTypeOK, NoPhoto, PhotoOnServer
  <2>2. InventoryTypeOK' /\ mishaps' \in 0..MaxMishaps
    BY <1>1, <1>6 DEF InventoryTypeOK, UploadTypeOK, inventoryVars, SweepReservation
  <2> QED
    BY <1>1, <1>6, <2>1, <2>2, SameGentle, BesideKeeps DEF SweepReservation, inventoryVars, jobVars
<1> QED
  BY <1>2, <1>3, <1>4, <1>5, <1>6
     DEF Environment, EditFile, DeleteFile, AddToLockedFolder, RemoveFromLockedFolder

-----------------------------------------------------------------------------
(* The scan and the hashing loop: no lane is busy yet. *)
LEMMA LanesIdleBefore ==
  ASSUME BackupInv, job.step # "upload"
  PROVE  \A l \in Lanes : xfer[l].step = "idle" /\ xfer[l].asset = Nil
BY DEF BackupInv, LaneKnows

(* A step of the job before its upload loop.  It leaves the lanes and the
   queue alone, and says itself what becomes of locks and transient rows. *)
LEMMA BeforeKeeps ==
  ASSUME BackupInv, job.step # "upload", UNCHANGED <<xfer, run, server, folderScans, acts>>,
         InventoryTypeOK', job' \in [kind : JobKind, step : JobStep],
         scan' \in ScanRecord, hashing' \in HashRecord, mishaps' \in 0..MaxMishaps, runs' \in 0..MaxRuns,
         JobKnows', LockedOut', TransientOwned'
  PROVE  BackupInv'
<1>1. BackupTypeOK'
  BY DEF BackupInv, BackupTypeOK, UploadTypeOK
<1>2. LaneKnows' /\ OneLanePerAsset' /\ QueueOnce' /\ LockedNeverSent'
  BY LanesIdleBefore DEF BackupInv, LaneKnows, OneLanePerAsset, QueueOnce, LockedNeverSent
<1>3. FailuresBounded'
  BY DEF BackupInv, FailuresBounded, Waiting
<1> QED
  BY <1>1, <1>2, <1>3 DEF BackupInv

(* The invariant's types, one name each. *)
LEMMA Types ==
  ASSUME BackupInv
  PROVE  /\ inventory \in [Assets -> InventoryRows] /\ device \in [Assets -> File]
         /\ rules \in [Folders -> Mode] /\ known \subseteq Folders /\ held \subseteq Folders /\ locked \subseteq Assets
         /\ server \in [Contents -> PhotoOnServer] /\ xfer \in [Lanes -> Transfer] /\ mishaps \in 0..MaxMishaps
         /\ job \in [kind : JobKind, step : JobStep] /\ scan \in ScanRecord /\ hashing \in HashRecord
         /\ run \in RunRecord /\ folderScans \subseteq FolderScan /\ runs \in 0..MaxRuns /\ acts \in 0..MaxActs
         /\ scan.locked \subseteq Assets /\ Nil \notin Assets
BY InventoryAssumption DEF BackupInv, BackupTypeOK, InventoryTypeOK, UploadTypeOK, InventoryRows, ScanRecord

LEMMA RecoverCalms ==
  ASSUME NEW inv \in [Assets -> InventoryRows]
  PROVE  /\ RecoverTransientStates(inv) \in [Assets -> InventoryRows]
         /\ \A a \in Assets : RecoverTransientStates(inv)[a].state \notin Transient
<1> SUFFICES ASSUME NEW a \in Assets
             PROVE  /\ RecoverTransientStates(inv)[a] \in InventoryRows
                    /\ RecoverTransientStates(inv)[a].state \notin Transient
  BY DEF RecoverTransientStates
<1> DEFINE row == inv[a]
<1>1. row \in InventoryRows
  OBVIOUS
<1>2. CASE row.state = "hashing"
  <2>1. [row EXCEPT !.state = "pending"] \in InventoryRows /\ [row EXCEPT !.state = "pending"].state = "pending"
    BY <1>1, <1>2 DEF InventoryRows, InventoryRow, InventoryState, NoRow
  <2> QED
    BY <1>2, <2>1 DEF RecoverTransientStates, Transient
<1>3. CASE row.state = "uploading"
  <2>1. [row EXCEPT !.state = "queued"] \in InventoryRows /\ [row EXCEPT !.state = "queued"].state = "queued"
    BY <1>1, <1>3 DEF InventoryRows, InventoryRow, InventoryState, NoRow
  <2> QED
    BY <1>3, <2>1 DEF RecoverTransientStates, Transient
<1>4. CASE row.state \notin Transient
  BY <1>1, <1>4 DEF RecoverTransientStates, Transient
<1> QED
  BY <1>2, <1>3, <1>4 DEF Transient

LEMMA StartKeeps ==
  ASSUME BackupInv, NEW kind \in {"scan", "backup"}, Start(kind)
  PROVE  BackupInv'
<1>1. job.step = "idle" /\ run = NoRun /\ hashing = NoHashing
  BY DEF Start, Busy, BackupInv, JobKnows
<1>2. /\ inventory' \in [Assets -> InventoryRows]
      /\ \A a \in Assets : inventory'[a].state \notin Transient
  BY Types, RecoverCalms DEF Start
<1>3. InventoryTypeOK'
  BY <1>2, Types DEF Start, InventoryTypeOK, InventoryRows
<1>4. job' \in [kind : JobKind, step : JobStep] /\ job'.step = "folders" /\ job'.kind = kind
  BY DEF Start, JobKind, JobStep
<1>5. scan' \in ScanRecord /\ scan'.locked = locked /\ scan'.present = {}
  BY Types DEF Start, NoScan, ScanRecord, Mode
<1>6. runs' \in 0..MaxRuns
  BY Types, EngineAssumption DEF Start
<1>7. hashing' = NoHashing /\ run' = NoRun
  BY <1>1 DEF Start
<1>8. JobKnows'
  BY <1>4, <1>7 DEF JobKnows
<1>9. LockedOut'
  BY <1>4, <1>5, <1>7, Types DEF LockedOut, NoHashing, NoRun
<1>10. TransientOwned'
  BY <1>2 DEF TransientOwned, Transient
<1> QED
  BY <1>1, <1>3, <1>4, <1>5, <1>6, <1>8, <1>9, <1>10, Types, BeforeKeeps DEF Start, uploadVars

LEMMA ListFoldersKeeps ==
  ASSUME BackupInv, ListFolders
  PROVE  BackupInv'
<1>1. job.step = "folders" /\ run = NoRun /\ hashing = NoHashing /\ job.kind # "none"
  BY DEF ListFolders, At, BackupInv, JobKnows
<1>2. job' \in [kind : JobKind, step : JobStep] /\ job'.step = "walk" /\ job'.kind = job.kind
  BY Types DEF ListFolders, JobGoes, JobStep
<1>3. {FolderOf[a] : a \in OnDevice} \subseteq Folders
  BY InventoryAssumption DEF OnDevice
<1>4. scan' \in ScanRecord /\ scan'.locked = scan.locked /\ scan'.present = scan.present
  BY <1>3, Types DEF ListFolders, ScanRecord
<1>5. InventoryTypeOK' /\ TransientOwned'
  BY <1>1, <1>2 DEF BackupInv, BackupTypeOK, InventoryTypeOK, ListFolders, inventoryVars, uploadVars, TransientOwned, Busy
<1>6. JobKnows'
  BY <1>1, <1>2 DEF ListFolders, JobKnows
<1>7. LockedOut'
  BY <1>1, <1>2, <1>4 DEF BackupInv, LockedOut, ListFolders
<1> QED
  BY <1>1, <1>2, <1>4, <1>5, <1>6, <1>7, Types, BeforeKeeps DEF ListFolders, uploadVars

LEMMA GentleTwice ==
  ASSUME NEW x, NEW y, NEW z, GentleTable(x, y), GentleTable(y, z)
  PROVE  GentleTable(x, z)
BY DEF GentleTable, Gentle, Transient

LEMMA WalkFolderKeeps ==
  ASSUME BackupInv, NEW f \in Folders, WalkFolder(f)
  PROVE  BackupInv'
<1> DEFINE isNew == f \notin scan.known /\ f \notin scan.held
           action == DecideFolder(scan.rules[f], isNew)
           why == CASE action = "include" -> "none" [] action = "hold" -> "hold" [] OTHER -> "rule"
           entries == ScanEntries(f, scan.locked)
           walked == UpsertFromScan(inventory, entries, why)
<1>1. job.step = "walk" /\ run = NoRun /\ hashing = NoHashing /\ job' = job
  BY DEF WalkFolder, At, BackupInv, JobKnows
<1>2. GentleTable(inventory, inventory')
  <2>1. why \in Reason
    BY DEF Reason
  <2>2. GentleTable(inventory, walked)
    BY <2>1, Types, UpsertGentle
  <2>3. walked \in [Assets -> InventoryRows]
    BY <2>2 DEF GentleTable
  <2>4. GentleTable(walked, ExcludeFolderItems(walked, f, "hold"))
    BY <2>3, ExcludeGentle DEF Reason
  <2>5. inventory' = IF action = "hold" THEN ExcludeFolderItems(walked, f, "hold") ELSE walked
    BY DEF WalkFolder
  <2> HIDE DEF walked, action
  <2> QED
    BY <2>2, <2>4, <2>5, GentleTwice
<1>3. entries \subseteq Assets /\ entries \cap scan.locked = {}
  BY DEF ScanEntries, OnDevice
<1>4. scan' \in ScanRecord /\ scan'.locked = scan.locked /\ scan'.present = scan.present \cup entries
  <2> DEFINE kn == IF action = "hold" THEN scan.known ELSE scan.known \cup {f}
             he == IF action = "hold" THEN scan.held \cup {f} ELSE scan.held
             td == scan.todo \ {f}
             pr == scan.present \cup entries
  <2>1. /\ scan.known \subseteq Folders /\ scan.held \subseteq Folders /\ scan.todo \subseteq Folders
        /\ scan.present \subseteq Assets /\ scan \in ScanRecord
    BY Types DEF ScanRecord
  <2>2. kn \subseteq Folders /\ he \subseteq Folders /\ td \subseteq Folders /\ pr \subseteq Assets
    BY <1>3, <2>1
  <2>3. scan' = [scan EXCEPT !.todo = td, !.present = pr, !.known = kn, !.held = he]
    BY DEF WalkFolder
  <2> HIDE DEF kn, he, td, pr, entries
  <2>4. scan' \in ScanRecord /\ scan'.locked = scan.locked /\ scan'.present = pr
    BY <2>1, <2>2, <2>3 DEF ScanRecord
  <2> QED
    BY <2>4 DEF pr
<1>5. InventoryTypeOK'
  BY <1>2, Types DEF WalkFolder, InventoryTypeOK, GentleTable, InventoryRows
<1>6. JobKnows'
  BY <1>1 DEF BackupInv, JobKnows, WalkFolder
<1>7. LockedOut'
  BY <1>1, <1>3, <1>4 DEF BackupInv, LockedOut, WalkFolder
<1>8. TransientOwned'
  BY <1>1, <1>2 DEF BackupInv, TransientOwned, Busy, WalkFolder, uploadVars, GentleTable, Gentle, Transient
<1> QED
  BY <1>1, <1>4, <1>5, <1>6, <1>7, <1>8, Types, BeforeKeeps DEF WalkFolder, uploadVars

(* Before the uploads, a transient row is the one being hashed. *)
LEMMA CalmBefore ==
  ASSUME BackupInv, job.step # "upload", job.kind # "none"
  PROVE  \A a \in Assets : inventory[a].state \in Transient =>
           inventory[a].state = "hashing" /\ hashing.asset = a
BY LanesIdleBefore, Types DEF BackupInv, TransientOwned, Busy, Transient

LEMMA FinishScanKeeps ==
  ASSUME BackupInv, FinishScan
  PROVE  BackupInv'
<1>1. job.step = "walk" /\ run = NoRun /\ hashing = NoHashing /\ job.kind # "none"
  BY DEF FinishScan, At, BackupInv, JobKnows
<1>2. job' \in [kind : JobKind, step : JobStep] /\ job'.step = "assets" /\ job'.kind = job.kind
  BY Types DEF FinishScan, JobGoes, JobStep
<1>3. \A a \in Assets : inventory'[a] = IF a \in scan.present THEN inventory[a] ELSE NoRow
  BY DEF FinishScan, RemoveAbsent
<1>4. inventory' \in [Assets -> InventoryRows]
  BY Types DEF FinishScan, RemoveAbsent, InventoryRows
<1>5. InventoryTypeOK'
  BY <1>4, Types DEF FinishScan, InventoryTypeOK, InventoryRows, ScanRecord
<1>6. hashing' \in HashRecord /\ hashing'.asset = Nil /\ hashing'.targets = HashTargets(inventory')
  BY DEF FinishScan, NoHashing, HashRecord, HashTargets
<1>7. JobKnows'
  BY <1>1, <1>2, <1>6 DEF JobKnows, FinishScan, NoRun
<1>8. LockedOut'
  <2>1. \A a \in scan.locked : a \notin scan.present /\ inventory'[a] = NoRow
    BY <1>3, Types DEF BackupInv, LockedOut
  <2>2. \A a \in scan.locked : a \notin hashing'.targets /\ a # hashing'.asset
    BY <1>6, <2>1, Types DEF HashTargets, NoRow
  <2> QED
    BY <1>1, <2>1, <2>2 DEF BackupInv, LockedOut, FinishScan, Unsent
<1>9. TransientOwned'
  <2>1. \A a \in Assets : inventory[a].state \notin Transient
    BY <1>1, CalmBefore, Types DEF NoHashing
  <2> QED
    BY <1>3, <2>1 DEF TransientOwned, NoRow, Transient
<1> QED
  BY <1>1, <1>2, <1>5, <1>6, <1>7, <1>8, <1>9, Types, BeforeKeeps DEF FinishScan, uploadVars

LEMMA FetchTargetsKeeps ==
  ASSUME BackupInv, FetchTargets
  PROVE  BackupInv'
<1>1. job.step = "assets" /\ run = NoRun /\ hashing.asset = Nil /\ job.kind # "none"
  BY DEF FetchTargets, At, BackupInv, JobKnows
<1>2. job' \in [kind : JobKind, step : JobStep] /\ job'.step = "hash" /\ job'.kind = job.kind
  BY Types DEF FetchTargets, JobGoes, JobStep
<1>3. hashing' \in HashRecord /\ hashing'.asset = Nil /\ hashing'.targets \subseteq hashing.targets
  BY <1>1, Types DEF FetchTargets, HashRecord
<1>4. UNCHANGED <<inventoryVars, uploadVars, scan, run, folderScans, runs, acts>>
  BY DEF FetchTargets
<1>5. InventoryTypeOK'
  BY <1>4, Types DEF InventoryTypeOK, inventoryVars, InventoryRows
<1>6. JobKnows' /\ LockedOut'
  BY <1>1, <1>2, <1>3, <1>4 DEF BackupInv, JobKnows, LockedOut, inventoryVars
<1>7. TransientOwned'
  BY <1>1, <1>3, <1>4, CalmBefore DEF TransientOwned, inventoryVars, Transient
<1> QED
  BY <1>1, <1>2, <1>3, <1>4, <1>5, <1>6, <1>7, Types, BeforeKeeps DEF uploadVars, inventoryVars

(* What one write of the hashing loop or of a lane does to the table. *)
LEMMA OneRow ==
  ASSUME NEW inv \in [Assets -> InventoryRows], NEW a \in Assets, NEW row
  PROVE  /\ \A b \in Assets \ {a} : Update(inv, a, row)[b] = inv[b]
         /\ Update(inv, a, row)[a] \in {NoRow, row}
BY DEF Update

LEMMA MarkStates ==
  ASSUME NEW inv \in [Assets -> InventoryRows], NEW a \in Assets, NEW hash \in Contents \cup {Nil},
         NEW why \in Reason
  PROVE  /\ MarkUploaded(inv, a, hash)[a].state \notin Transient
         /\ MarkFailed(inv, a)[a].state \notin Transient
         /\ MarkExcluded(inv, a, why)[a].state \notin Transient
         /\ MarkHashing(inv, a)[a].state # "uploading"
         /\ MarkUploadStarted(inv, a)[a].state # "hashing"
         /\ inv[a].state # "uploading" => SetContentHash(inv, a, hash)[a].state \notin Transient
<1>1. inv[a] = NoRow \/ inv[a] \in InventoryRow
  BY DEF InventoryRows
<1>2. NoRow.state = "absent"
  BY DEF NoRow
<1>3. CASE inv[a] = NoRow
  BY <1>2, <1>3 DEF Update, MarkUploaded, MarkFailed, MarkExcluded, MarkHashing, MarkUploadStarted, SetContentHash,
                    Transient
<1>4. CASE inv[a] \in InventoryRow
  BY <1>2, <1>4 DEF Update, MarkUploaded, MarkFailed, MarkExcluded, MarkHashing, MarkUploadStarted, SetContentHash,
                    Transient, InventoryRow
<1> QED
  BY <1>1, <1>3, <1>4

LEMMA HashStartKeeps ==
  ASSUME BackupInv, NEW a \in Assets, HashStart(a)
  PROVE  BackupInv'
<1>1. job.step = "hash" /\ run = NoRun /\ hashing.asset = Nil /\ job.kind # "none" /\ job' = job
  BY DEF HashStart, At, BackupInv, JobKnows
<1>2. /\ hashing' = [targets |-> hashing.targets \ {a}, asset |-> a]
      /\ hashing' \in HashRecord /\ a \in hashing.targets
  BY Types DEF HashStart, HashRecord
<1>3. inventory' \in [Assets -> InventoryRows] /\ inventory'[a].state # "uploading"
  BY Types, MarkTyped, MarkStates DEF HashStart, Reason
<1>4. \A b \in Assets \ {a} : inventory'[b] = inventory[b]
  BY Types, OneRow DEF HashStart, MarkHashing
<1>5. InventoryTypeOK'
  BY <1>3, Types DEF HashStart, InventoryTypeOK, InventoryRows
<1>6. JobKnows'
  BY <1>1 DEF BackupInv, JobKnows, HashStart
<1>7. LockedOut'
  <2>1. a \notin scan.locked
    BY <1>2 DEF BackupInv, LockedOut
  <2>2. \A b \in scan.locked : b \notin hashing'.targets /\ b # hashing'.asset /\ inventory'[b] = inventory[b]
    BY <1>2, <1>4, <2>1, Types DEF BackupInv, LockedOut
  <2> QED
    BY <1>1, <2>2 DEF BackupInv, LockedOut, HashStart
<1>8. TransientOwned'
  <2> SUFFICES ASSUME NEW b \in Assets
               PROVE  /\ inventory'[b].state = "hashing" => hashing'.asset = b
                      /\ inventory'[b].state # "uploading"
    BY DEF TransientOwned
  <2>1. CASE b = a
    BY <1>2, <1>3, <2>1
  <2>2. CASE b # a
    BY <1>1, <1>4, <2>2, CalmBefore, Types DEF Transient
  <2> QED
    BY <2>1, <2>2
<1> QED
  BY <1>1, <1>2, <1>5, <1>6, <1>7, <1>8, Types, BeforeKeeps DEF HashStart, uploadVars

LEMMA HashFinishKeeps ==
  ASSUME BackupInv, HashFinish
  PROVE  BackupInv'
<1> DEFINE a == hashing.asset
<1>1. job.step = "hash" /\ run = NoRun /\ job.kind # "none" /\ job' = job
  BY DEF HashFinish, At, BackupInv, JobKnows
<1>2. a \in Assets /\ a \notin scan.locked
  BY Types DEF HashFinish, HashRecord, BackupInv, LockedOut
<1>3. hashing' \in HashRecord /\ hashing'.asset = Nil /\ hashing'.targets = hashing.targets
  BY Types DEF HashFinish, HashRecord
<1>4. \/ inventory' = MarkExcluded(inventory, a, "unsupported")
      \/ inventory' = MarkFailed(inventory, a)
      \/ inventory' = SetContentHash(inventory, a, device[a].bytes)
  BY DEF HashFinish
<1>5. inventory[a].state # "uploading" /\ device[a].bytes \in Contents \cup {Nil} /\ "unsupported" \in Reason
  BY <1>1, <1>2, CalmBefore, Types DEF Transient, File, Reason
<1>6. inventory' \in [Assets -> InventoryRows] /\ inventory'[a].state \notin Transient
  <2>1. inventory \in [Assets -> InventoryRows]
    BY Types
  <2>2. /\ MarkExcluded(inventory, a, "unsupported") \in [Assets -> InventoryRows]
        /\ MarkExcluded(inventory, a, "unsupported")[a].state \notin Transient
    BY <1>2, <1>5, <2>1, MarkTyped, MarkStates
  <2>3. /\ MarkFailed(inventory, a) \in [Assets -> InventoryRows]
        /\ MarkFailed(inventory, a)[a].state \notin Transient
    BY <1>2, <1>5, <2>1, MarkTyped, MarkStates
  <2>4. /\ SetContentHash(inventory, a, device[a].bytes) \in [Assets -> InventoryRows]
        /\ SetContentHash(inventory, a, device[a].bytes)[a].state \notin Transient
    BY <1>2, <1>5, <2>1, MarkTyped, MarkStates
  <2> QED
    BY <1>4, <2>2, <2>3, <2>4
<1>7. \A b \in Assets \ {a} : inventory'[b] = inventory[b]
  BY <1>2, <1>4, Types, OneRow DEF MarkExcluded, MarkFailed, SetContentHash
<1>8. mishaps' \in 0..MaxMishaps
  BY Types, MishapTyped DEF HashFinish
<1>9. InventoryTypeOK'
  BY <1>6, Types DEF HashFinish, InventoryTypeOK, InventoryRows
<1>10. JobKnows'
  BY <1>1 DEF BackupInv, JobKnows, HashFinish
<1>11. LockedOut'
  <2>1. \A b \in scan.locked : inventory'[b] = inventory[b] /\ b # Nil
    BY <1>2, <1>7, Types
  <2> QED
    BY <1>1, <1>3, <2>1 DEF BackupInv, LockedOut, HashFinish
<1>12. TransientOwned'
  <2>1. \A b \in Assets : inventory'[b].state \notin Transient
    BY <1>1, <1>6, <1>7, CalmBefore
  <2> QED
    BY <2>1 DEF TransientOwned, Transient
<1> QED
  BY <1>1, <1>3, <1>8, <1>9, <1>10, <1>11, <1>12, Types, BeforeKeeps DEF HashFinish

-----------------------------------------------------------------------------
(* The ends of a job: nothing is left of its memory. *)
LEMMA EndKeeps ==
  ASSUME BackupInv, JobEnds, UNCHANGED <<inventoryVars, server, runs, acts>>,
         xfer' \in [Lanes -> Transfer], \A l \in Lanes : xfer'[l].step = "idle" /\ xfer'[l].asset = Nil,
         folderScans' \subseteq FolderScan, mishaps' \in 0..MaxMishaps
  PROVE  BackupInv'
<1>1. job'.kind = "none" /\ job'.step = "idle" /\ job' \in [kind : JobKind, step : JobStep]
  BY DEF JobEnds, NoJob, JobKind, JobStep
<1>2. scan' \in ScanRecord /\ scan'.locked = {}
  BY DEF JobEnds, NoScan, ScanRecord, Mode
<1>3. hashing' \in HashRecord /\ hashing' = NoHashing
  BY DEF JobEnds, NoHashing, HashRecord
<1>4. Cardinality(Assets) \in Nat
  BY EngineAssumption, FS_CardinalityType
<1>5. run' \in RunRecord /\ run' = NoRun /\ run'.queue = {} /\ run'.failures = 0
  <2>1. 0 \in 0..Cardinality(Assets)
    BY <1>4
  <2> QED
    BY <2>1 DEF JobEnds, NoRun, RunRecord
<1>6. BackupTypeOK'
  BY <1>1, <1>2, <1>3, <1>5, Types DEF BackupInv, BackupTypeOK, InventoryTypeOK, UploadTypeOK, inventoryVars
<1>7. JobKnows' /\ TransientOwned'
  BY <1>1, <1>3, <1>5 DEF JobKnows, TransientOwned, Busy
<1>8. LaneKnows' /\ OneLanePerAsset' /\ QueueOnce' /\ LockedNeverSent'
  BY <1>5 DEF LaneKnows, OneLanePerAsset, QueueOnce, LockedNeverSent
<1>9. FailuresBounded'
  <2>1. Waiting' = {}
    BY <1>5 DEF Waiting
  <2> QED
    BY <1>4, <1>5, <2>1, FS_EmptySet DEF FailuresBounded
<1>10. LockedOut'
  BY <1>2, <1>5 DEF LockedOut
<1> QED
  BY <1>6, <1>7, <1>8, <1>9, <1>10 DEF BackupInv

LEMMA FinishRunKeeps ==
  ASSUME BackupInv, FinishRun
  PROVE  BackupInv'
<1>1. \A l \in Lanes : xfer[l].step = "idle" /\ xfer[l].asset = Nil
  BY DEF FinishRun, LanesIdle, BackupInv, LaneKnows
<1> QED
  BY <1>1, Types, EndKeeps DEF FinishRun, uploadVars

LEMMA KillKeeps ==
  ASSUME BackupInv, Kill
  PROVE  BackupInv'
<1>1. xfer' \in [Lanes -> Transfer] /\ \A l \in Lanes : xfer'[l].step = "idle" /\ xfer'[l].asset = Nil
  <2>1. NoTransfer \in Transfer
    BY UploadAssumption DEF NoTransfer, Transfer, Step, Problem
  <2> QED
    BY <2>1 DEF Kill, NoTransfer
<1>2. mishaps' \in 0..MaxMishaps
  BY Types, MishapTyped DEF Kill
<1> QED
  BY <1>1, <1>2, EndKeeps DEF Kill

(* The upload loop begins: the snapshot holds each asset once and no locked one. *)
LEMMA TakeQueueKeeps ==
  ASSUME BackupInv, job.step \in {"hash", "seed"}, hashing = NoHashing,
         TakeQueue(inventory'), GentleTable(inventory, inventory'), InventoryTypeOK', mishaps' \in 0..MaxMishaps,
         UNCHANGED <<server, xfer, scan, hashing, folderScans, runs, acts>>
  PROVE  BackupInv'
<1>1. job.kind # "none" /\ \A l \in Lanes : xfer[l].step = "idle" /\ xfer[l].asset = Nil
  BY LanesIdleBefore DEF BackupInv, JobKnows
<1>2. job' \in [kind : JobKind, step : JobStep] /\ job'.step = "rows" /\ job'.kind = job.kind
  BY Types DEF TakeQueue, JobGoes, JobStep
<1>3. inventory' \in [Assets -> InventoryRows]
  BY DEF GentleTable
<1> DEFINE queue == {[asset |-> a, hash |-> inventory'[a].hash] : a \in QueuedRows(inventory')}
<1>4. Cardinality(Assets) \in Nat
  BY EngineAssumption, FS_CardinalityType
<1>5. run' \in RunRecord /\ run'.queue = queue /\ run'.failures = 0
  <2>1. \A a \in Assets : inventory'[a].hash \in Contents \cup {Nil}
    BY <1>3 DEF InventoryRows, InventoryRow, NoRow
  <2>2. queue \in SUBSET QueuedRow
    BY <2>1 DEF QueuedRow, QueuedRows, Rows
  <2>3. UploadedHashes(inventory') \in SUBSET Contents
    BY <2>1 DEF UploadedHashes, Rows
  <2>4. run' = [queue |-> queue, found |-> {}, uploaded |-> UploadedHashes(inventory'), failures |-> 0, fatal |-> FALSE]
    BY DEF TakeQueue, NoRun
  <2>5. 0 \in 0..Cardinality(Assets)
    BY <1>4
  <2> HIDE DEF queue
  <2> QED
    BY <2>2, <2>3, <2>4, <2>5 DEF RunRecord
<1>6. \A r \in run'.queue : r.asset \in Assets /\ r.hash = inventory'[r.asset].hash /\ inventory'[r.asset].state = "queued"
      /\ r = [asset |-> r.asset, hash |-> inventory'[r.asset].hash]
  BY <1>5 DEF QueuedRows, Rows
<1>7. BackupTypeOK'
  BY <1>2, <1>5, Types DEF BackupInv, BackupTypeOK, UploadTypeOK
<1>8. JobKnows' /\ LaneKnows' /\ OneLanePerAsset' /\ LockedNeverSent'
  BY <1>1, <1>2 DEF BackupInv, JobKnows, LaneKnows, OneLanePerAsset, LockedNeverSent
<1>9. QueueOnce'
  BY <1>1, <1>6, Types DEF QueueOnce
<1>10. FailuresBounded'
  <2>1. Waiting' \subseteq Assets
    BY <1>1, <1>6 DEF Waiting
  <2>2. IsFiniteSet(Waiting') /\ Cardinality(Waiting') <= Cardinality(Assets)
    BY <2>1, EngineAssumption, FS_Subset
  <2>3. Cardinality(Waiting') \in Nat
    BY <2>2, FS_CardinalityType
  <2> QED
    BY <1>4, <1>5, <2>2, <2>3 DEF FailuresBounded
<1>11. LockedOut'
  <2>1. \A a \in scan.locked : a \in Assets /\ Unsent(inventory[a]) /\ Unsent(inventory'[a])
    BY Types DEF BackupInv, LockedOut, GentleTable, Gentle
  <2>2. \A r \in run'.queue : ~Unsent(inventory'[r.asset])
    BY <1>6 DEF Unsent, NoRow
  <2> QED
    BY <2>1, <2>2 DEF BackupInv, LockedOut
<1>12. TransientOwned'
  BY <1>1, CalmBefore, Types DEF GentleTable, Gentle, TransientOwned, NoHashing, Transient
<1> QED
  BY <1>7, <1>8, <1>9, <1>10, <1>11, <1>12 DEF BackupInv

LEMMA FinishHashingKeeps ==
  ASSUME BackupInv, FinishHashing
  PROVE  BackupInv'
<1>1. job.step = "hash" /\ hashing = NoHashing /\ UNCHANGED <<inventoryVars, uploadVars, folderScans, runs, acts>>
  BY DEF FinishHashing, At
<1>2. InventoryTypeOK' /\ mishaps' \in 0..MaxMishaps
  BY <1>1, Types DEF InventoryTypeOK, inventoryVars, uploadVars, InventoryRows
<1>3. CASE JobEnds
  <2>1. \A l \in Lanes : xfer[l].step = "idle" /\ xfer[l].asset = Nil
    BY <1>1, LanesIdleBefore
  <2> QED
    BY <1>1, <1>2, <1>3, <2>1, Types, EndKeeps DEF uploadVars
<1>4. CASE JobGoes("seed") /\ UNCHANGED <<scan, hashing, run>>
  <2>1. job' \in [kind : JobKind, step : JobStep] /\ job'.step = "seed" /\ job'.kind = job.kind
    BY <1>4, Types DEF JobGoes, JobStep
  <2>2. JobKnows' /\ LockedOut' /\ TransientOwned'
    BY <1>1, <1>4, <2>1 DEF BackupInv, JobKnows, LockedOut, TransientOwned, Busy, inventoryVars, uploadVars
  <2> QED
    BY <1>1, <1>2, <1>4, <2>1, <2>2, Types, BeforeKeeps DEF uploadVars
<1>5. CASE TakeQueue(inventory) /\ UNCHANGED <<scan, hashing>>
  <2>1. inventory' = inventory
    BY <1>1 DEF inventoryVars
  <2>2. TakeQueue(inventory')
    BY <1>5, <2>1
  <2>3. GentleTable(inventory, inventory')
    BY <2>1, SameGentle
  <2> QED
    BY <1>1, <1>2, <1>5, <2>2, <2>3, TakeQueueKeeps DEF uploadVars
<1> QED
  BY <1>3, <1>4, <1>5 DEF FinishHashing

LEMMA SeedHashesKeeps ==
  ASSUME BackupInv, SeedHashes
  PROVE  BackupInv'
<1>1. job.step = "seed" /\ hashing = NoHashing
  BY DEF SeedHashes, At, BackupInv, JobKnows
<1>2. CASE /\ inventory' = MarkUploadedByHashes(inventory, {h \in Contents : server[h].state # "none"})
           /\ TakeQueue(inventory') /\ UNCHANGED <<scan, hashing, mishaps>>
  <2>1. GentleTable(inventory, inventory')
    BY <1>2, SeedGentle, Types
  <2>2. InventoryTypeOK' /\ mishaps' \in 0..MaxMishaps
    BY <1>2, <2>1, Types DEF InventoryTypeOK, GentleTable, InventoryRows, SeedHashes
  <2> QED
    BY <1>1, <1>2, <2>1, <2>2, TakeQueueKeeps DEF SeedHashes
<1>3. CASE Mishap("list") /\ JobEnds /\ UNCHANGED inventory
  <2>1. mishaps' \in 0..MaxMishaps
    BY <1>3, MishapTyped, Types
  <2>2. \A l \in Lanes : xfer[l].step = "idle" /\ xfer[l].asset = Nil
    BY <1>1, LanesIdleBefore
  <2> QED
    BY <1>3, <2>1, <2>2, Types, EndKeeps DEF SeedHashes, inventoryVars
<1> QED
  BY <1>2, <1>3 DEF SeedHashes

LEMMA FetchRowsKeeps ==
  ASSUME BackupInv, FetchRows
  PROVE  BackupInv'
<1>1. job.step = "rows" /\ UNCHANGED <<inventoryVars, uploadVars, scan, hashing, folderScans, runs, acts>>
  BY DEF FetchRows, At
<1>2. job' \in [kind : JobKind, step : JobStep] /\ job'.step = "upload" /\ job'.kind = job.kind
  BY Types DEF FetchRows, JobGoes, JobStep
<1>3. run' \in RunRecord /\ run'.queue = run.queue /\ run'.failures = run.failures
  <2>1. OnDevice \in SUBSET Assets
    BY DEF OnDevice
  <2>2. run' = [run EXCEPT !.found = OnDevice]
    BY DEF FetchRows
  <2> QED
    BY <2>1, <2>2, Types DEF RunRecord
<1>4. BackupTypeOK'
  BY <1>1, <1>2, <1>3, Types DEF BackupInv, BackupTypeOK, InventoryTypeOK, UploadTypeOK, inventoryVars, uploadVars
<1>5. JobKnows' /\ LaneKnows' /\ OneLanePerAsset' /\ QueueOnce' /\ LockedNeverSent'
  BY <1>1, <1>2, <1>3
     DEF BackupInv, JobKnows, LaneKnows, OneLanePerAsset, QueueOnce, LockedNeverSent, uploadVars
<1>6. FailuresBounded'
  BY <1>1, <1>3 DEF BackupInv, FailuresBounded, Waiting, uploadVars
<1>7. LockedOut' /\ TransientOwned'
  BY <1>1, <1>2, <1>3
     DEF BackupInv, LockedOut, TransientOwned, Busy, inventoryVars, uploadVars
<1> QED
  BY <1>4, <1>5, <1>6, <1>7 DEF BackupInv

-----------------------------------------------------------------------------
(* The upload loop.  The lanes' step on the table: one row changes, of an
   asset that was not locked, and no row becomes one being hashed. *)
OneRowWritten(a) ==
  /\ inventory' \in [Assets -> InventoryRows]
  /\ \A b \in Assets \ {a} : inventory'[b] = inventory[b]
  /\ inventory'[a].state # "hashing"

(* What stays as it is, when a lane takes or finishes a row. *)
LaneFrame == UNCHANGED <<device, rules, known, held, locked, server, job, scan, hashing, folderScans, runs, acts>>

LEMMA LaneStepKeeps ==
  ASSUME BackupInv, job.step = "upload", LaneFrame, NEW a \in Assets, a \notin scan.locked, OneRowWritten(a),
         inventory'[a].state = "uploading" => \E l \in Lanes : xfer'[l].asset = a,
         \A b \in Assets \ {a} : (\E l \in Lanes : xfer[l].asset = b) => \E l \in Lanes : xfer'[l].asset = b,
         xfer' \in [Lanes -> Transfer], run' \in RunRecord, mishaps' \in 0..MaxMishaps,
         run'.queue \subseteq run.queue,
         LaneKnows', OneLanePerAsset', QueueOnce', LockedNeverSent', FailuresBounded'
  PROVE  BackupInv'
<1>1. InventoryTypeOK'
  BY Types DEF OneRowWritten, LaneFrame, InventoryTypeOK, InventoryRows
<1>2. BackupTypeOK'
  BY <1>1, Types DEF BackupTypeOK, UploadTypeOK, LaneFrame
<1>3. JobKnows'
  BY DEF BackupInv, JobKnows, LaneFrame
<1>4. LockedOut'
  <2>1. \A b \in scan.locked : inventory'[b] = inventory[b]
    BY Types DEF OneRowWritten
  <2> QED
    BY <2>1 DEF BackupInv, LockedOut, LaneFrame
<1>5. TransientOwned'
  <2>1. hashing = NoHashing /\ job.kind # "none"
    BY DEF BackupInv, JobKnows
  <2> SUFFICES ASSUME NEW b \in Assets
               PROVE  /\ inventory'[b].state = "hashing" => hashing'.asset = b
                      /\ inventory'[b].state = "uploading" => \E l \in Lanes : xfer'[l].asset = b
    BY DEF TransientOwned
  <2>2. CASE b = a
    BY <2>2 DEF OneRowWritten
  <2>3. CASE b # a
    BY <2>1, <2>3 DEF OneRowWritten, BackupInv, TransientOwned, Busy, LaneFrame
  <2> QED
    BY <2>2, <2>3
<1> QED
  BY <1>2, <1>3, <1>4, <1>5 DEF BackupInv

LEMMA WaitingFinite ==
  ASSUME BackupInv
  PROVE  /\ Waiting \subseteq Assets /\ IsFiniteSet(Waiting)
         /\ Cardinality(Waiting) \in Nat /\ Cardinality(Assets) \in Nat
<1>1. Waiting \subseteq Assets
  BY Types DEF Waiting, RunRecord, QueuedRow, Transfer
<1> QED
  BY <1>1, EngineAssumption, FS_Subset, FS_CardinalityType

(* The bound on the failures, for a row that stops waiting or goes on to a lane. *)
LEMMA FewerWait ==
  ASSUME BackupInv, NEW W \in SUBSET Waiting, NEW n \in Nat, n <= run.failures
  PROVE  n + Cardinality(W) <= Cardinality(Assets)
<1>1. IsFiniteSet(W) /\ Cardinality(W) <= Cardinality(Waiting) /\ Cardinality(W) \in Nat
  BY WaitingFinite, FS_Subset, FS_CardinalityType
<1>2. run.failures \in Nat
  BY Types, WaitingFinite DEF RunRecord
<1> QED
  BY <1>1, <1>2, WaitingFinite DEF BackupInv, FailuresBounded

(* A row leaves the queue and no lane takes it. *)
LEMMA RowDroppedKeeps ==
  ASSUME BackupInv, job.step = "upload", LaneFrame, NEW row \in run.queue, OneRowWritten(row.asset),
         inventory'[row.asset] = inventory[row.asset] \/ inventory'[row.asset].state \notin Transient,
         UNCHANGED xfer, mishaps' \in 0..MaxMishaps, run' \in RunRecord,
         run'.queue = run.queue \ {row}, run'.failures <= run.failures
  PROVE  BackupInv'
<1>1. row.asset \in Assets /\ row.asset \notin scan.locked
  BY Types DEF RunRecord, QueuedRow, BackupInv, LockedOut
<1>2. LaneKnows' /\ OneLanePerAsset' /\ QueueOnce' /\ LockedNeverSent'
  BY DEF BackupInv, LaneKnows, OneLanePerAsset, QueueOnce, LockedNeverSent, LaneFrame
<1>3. FailuresBounded'
  <2>1. Waiting' \in SUBSET Waiting
    BY DEF Waiting
  <2>2. run'.failures \in Nat
    BY WaitingFinite DEF RunRecord
  <2> QED
    BY <2>1, <2>2, FewerWait DEF FailuresBounded
<1>4. inventory'[row.asset].state = "uploading" => \E l \in Lanes : xfer'[l].asset = row.asset
  <2>1. job.kind # "none"
    BY DEF BackupInv, JobKnows
  <2> QED
    BY <1>1, <2>1 DEF BackupInv, TransientOwned, Busy, Transient
<1> QED
  BY <1>1, <1>2, <1>3, <1>4, Types, LaneStepKeeps

LEMMA BeginTyped ==
  ASSUME NEW l, NEW a \in Assets, NEW hash \in Contents \cup {Nil}
  PROVE  /\ Begin(l, a, hash) \in Transfer
         /\ Begin(l, a, hash).asset = a /\ Begin(l, a, hash).hash = hash /\ Begin(l, a, hash).part = 0
         /\ Begin(l, a, hash).step \in {"form", "ticket"}
         /\ Begin(l, a, hash).step = "ticket" => hash # Nil
<1>1. NoTransfer \in Transfer /\ NoTransfer.part = 0
  BY UploadAssumption DEF NoTransfer, Transfer, Step, Problem
<1>2. ASSUME NEW step \in {"form", "ticket"}
      PROVE  LET new == [NoTransfer EXCEPT !.step = step, !.asset = a, !.hash = hash]
             IN  new \in Transfer /\ new.asset = a /\ new.hash = hash /\ new.part = 0 /\ new.step = step
  <2>1. step \in Step
    BY DEF Step
  <2> QED
    BY <1>1, <2>1 DEF Transfer
<1>3. CASE hash = Nil
  <2>1. Begin(l, a, hash) = [NoTransfer EXCEPT !.step = "form", !.asset = a, !.hash = hash]
    BY <1>3 DEF Begin
  <2> QED
    BY <1>2, <1>3, <2>1
<1>4. CASE hash # Nil
  <2>1. Begin(l, a, hash) = [NoTransfer EXCEPT !.step = "ticket", !.asset = a, !.hash = hash]
    BY <1>4 DEF Begin
  <2> QED
    BY <1>2, <1>4, <2>1
<1> QED
  BY <1>3, <1>4

(* A row leaves the queue for a lane. *)
LEMMA RowBegunKeeps ==
  ASSUME BackupInv, job.step = "upload", LaneFrame, NEW row \in run.queue, NEW l \in Lanes, xfer[l].step = "idle",
         inventory' = MarkUploadStarted(inventory, row.asset),
         xfer' = [xfer EXCEPT ![l] = Begin(l, row.asset, row.hash)],
         UNCHANGED mishaps, run' \in RunRecord, run'.queue = run.queue \ {row}, run'.failures = run.failures
  PROVE  BackupInv'
<1> DEFINE a == row.asset
<1>1. a \in Assets /\ a \notin scan.locked /\ row.hash \in Contents \cup {Nil}
  BY Types DEF RunRecord, QueuedRow, BackupInv, LockedOut
<1>2. /\ xfer' \in [Lanes -> Transfer] /\ \A m \in Lanes \ {l} : xfer'[m] = xfer[m]
      /\ xfer'[l].asset = a /\ xfer'[l].hash = row.hash /\ xfer'[l].part = 0 /\ xfer'[l].step \in {"form", "ticket"}
      /\ xfer'[l].step = "ticket" => row.hash # Nil
  BY <1>1, Types, BeginTyped
<1>3. xfer[l].asset = Nil
  BY DEF BackupInv, LaneKnows
<1>4. \A m \in Lanes : xfer[m].asset # a
  BY DEF BackupInv, QueueOnce
<1>5. OneRowWritten(a)
  <2>1. inventory \in [Assets -> InventoryRows] /\ "none" \in Reason
    BY Types DEF Reason
  <2>2. inventory' \in [Assets -> InventoryRows] /\ inventory'[a].state # "hashing"
    BY <1>1, <2>1, MarkTyped, MarkStates
  <2>3. \A b \in Assets \ {a} : inventory'[b] = inventory[b]
    BY <1>1, <2>1, OneRow DEF MarkUploadStarted
  <2> QED
    BY <2>2, <2>3 DEF OneRowWritten
<1>6. LaneKnows'
  <2> SUFFICES ASSUME NEW m \in Lanes
               PROVE  /\ xfer'[m].step = "idle" <=> xfer'[m].asset = Nil
                      /\ xfer'[m].step \in {"ticket", "put", "parts", "complete", "abort", "done"} => xfer'[m].hash # Nil
                      /\ xfer'[m].step = "ticket" => xfer'[m].part = 0
                      /\ xfer'[m].step = "parts" => xfer'[m].part < Parts
                      /\ xfer'[m].step # "idle" => job'.step = "upload"
    BY DEF LaneKnows
  <2>1. CASE m = l
    BY <1>1, <1>2, <2>1, Types DEF LaneFrame
  <2>2. CASE m # l
    BY <1>2, <2>2 DEF BackupInv, LaneKnows, LaneFrame
  <2> QED
    BY <2>1, <2>2
<1>7. OneLanePerAsset'
  BY <1>1, <1>2, <1>4 DEF BackupInv, OneLanePerAsset
<1>8. QueueOnce'
  <2>1. \A r \in run'.queue : r.asset # a
    BY DEF BackupInv, QueueOnce
  <2> QED
    BY <1>2, <2>1 DEF BackupInv, QueueOnce
<1>9. LockedNeverSent'
  <2> SUFFICES ASSUME NEW m \in Lanes, xfer'[m].step # "idle"
               PROVE  xfer'[m].asset \notin scan'.locked
    BY DEF LockedNeverSent
  <2>1. CASE m = l
    BY <1>1, <1>2, <2>1 DEF LaneFrame
  <2>2. CASE m # l
    BY <1>2, <2>2 DEF BackupInv, LockedNeverSent, LaneFrame
  <2> QED
    BY <2>1, <2>2
<1>10. FailuresBounded'
  <2>1. Waiting' \in SUBSET Waiting
    BY <1>2, <1>3 DEF Waiting
  <2>2. run.failures \in Nat
    BY Types, WaitingFinite DEF RunRecord
  <2> QED
    BY <2>1, <2>2, FewerWait DEF FailuresBounded
<1>11. /\ \E m \in Lanes : xfer'[m].asset = a
       /\ \A b \in Assets \ {a} : (\E m \in Lanes : xfer[m].asset = b) => \E m \in Lanes : xfer'[m].asset = b
  BY <1>2, <1>3, Types
<1> HIDE DEF a
<1> QED
  BY <1>1, <1>2, <1>5, <1>6, <1>7, <1>8, <1>9, <1>10, <1>11, Types, LaneStepKeeps

LEMMA RestTyped ==
  ASSUME BackupInv, NEW row \in run.queue, NEW r,
         r = Rest(row) \/ r = [Rest(row) EXCEPT !.fatal = TRUE] \/ r = [Rest(row) EXCEPT !.failures = 0]
  PROVE  /\ r \in RunRecord /\ r.queue = run.queue \ {row} /\ r.failures <= run.failures
         /\ r = Rest(row) => r.failures = run.failures
<1>1. Rest(row) \in RunRecord /\ Rest(row).queue = run.queue \ {row} /\ Rest(row).failures = run.failures
  BY Types DEF Rest, RunRecord
<1>2. 0 \in 0..Cardinality(Assets) /\ run.failures \in Nat
  BY WaitingFinite, Types DEF RunRecord
<1>3. CASE r = Rest(row)
  BY <1>1, <1>2, <1>3
<1>4. CASE r = [Rest(row) EXCEPT !.fatal = TRUE]
  <2>1. r \in RunRecord /\ r.queue = run.queue \ {row} /\ r.failures = run.failures
    BY <1>1, <1>4 DEF RunRecord
  <2> QED
    BY <1>2, <2>1
<1>5. CASE r = [Rest(row) EXCEPT !.failures = 0]
  <2>1. r \in RunRecord /\ r.queue = run.queue \ {row} /\ r.failures = 0
    BY <1>1, <1>2, <1>5 DEF RunRecord
  <2>2. r = Rest(row) => r.failures = run.failures
    BY <1>1
  <2> QED
    BY <1>2, <2>1, <2>2
<1> QED
  BY <1>3, <1>4, <1>5

LEMMA TakeRowKeeps ==
  ASSUME BackupInv, NEW l \in Lanes, NEW row \in run.queue, TakeRow(l, row)
  PROVE  BackupInv'
<1> DEFINE a == row.asset
<1>1. job.step = "upload" /\ xfer[l].step = "idle" /\ LaneFrame
  BY DEF TakeRow, At, LaneFrame
<1>2. a \in Assets /\ row.hash \in Contents \cup {Nil}
  BY Types DEF RunRecord, QueuedRow
<1>3. run.failures \in Nat /\ inventory \in [Assets -> InventoryRows] /\ mishaps \in 0..MaxMishaps
  BY Types, WaitingFinite DEF RunRecord
<1>4. CASE run' = [Rest(row) EXCEPT !.fatal = TRUE] /\ UNCHANGED <<inventory, xfer, mishaps>>
  <2>1. run' \in RunRecord /\ run'.queue = run.queue \ {row} /\ run'.failures <= run.failures
    BY <1>4, RestTyped
  <2>2. OneRowWritten(a) \/ inventory[a].state = "hashing"
    BY <1>3, <1>4 DEF OneRowWritten
  <2>3. inventory[a].state # "hashing"
    BY <1>1, <1>2, Types DEF BackupInv, JobKnows, TransientOwned, Busy, NoHashing
  <2> QED
    BY <1>1, <1>3, <1>4, <2>1, <2>2, <2>3, RowDroppedKeeps
<1>5. ASSUME NEW why \in Reason, inventory' = MarkExcluded(inventory, a, why), UNCHANGED xfer,
             mishaps' \in 0..MaxMishaps, run' \in RunRecord, run'.queue = run.queue \ {row},
             run'.failures <= run.failures
      PROVE  BackupInv'
  <2>1. inventory' \in [Assets -> InventoryRows] /\ inventory'[a].state \notin Transient
    BY <1>2, <1>3, <1>5, MarkTyped, MarkStates
  <2>2. \A b \in Assets \ {a} : inventory'[b] = inventory[b]
    BY <1>2, <1>3, <1>5, OneRow DEF MarkExcluded
  <2> QED
    BY <1>1, <1>5, <2>1, <2>2, RowDroppedKeeps DEF OneRowWritten, Transient
<1>6. CASE /\ run' = Rest(row) /\ inventory' = MarkExcluded(inventory, a, "none")
           /\ UNCHANGED <<xfer, mishaps>>
  <2>1. run' \in RunRecord /\ run'.queue = run.queue \ {row} /\ run'.failures <= run.failures
    BY <1>6, RestTyped
  <2>2. mishaps' \in 0..MaxMishaps /\ "none" \in Reason
    BY <1>3, <1>6 DEF Reason
  <2> QED
    BY <1>5, <1>6, <2>1, <2>2
<1>7. CASE /\ run' = Rest(row) /\ inventory' = MarkUploaded(inventory, a, row.hash)
           /\ UNCHANGED <<xfer, mishaps>>
  <2>1. inventory' \in [Assets -> InventoryRows] /\ inventory'[a].state \notin Transient
    BY <1>2, <1>3, <1>7, MarkTyped, MarkStates DEF Reason
  <2>2. \A b \in Assets \ {a} : inventory'[b] = inventory[b]
    BY <1>2, <1>3, <1>7, OneRow DEF MarkUploaded
  <2>3. run' \in RunRecord /\ run'.queue = run.queue \ {row} /\ run'.failures <= run.failures
    BY <1>7, RestTyped
  <2>4. OneRowWritten(a) /\ mishaps' \in 0..MaxMishaps
    BY <1>3, <1>7, <2>1, <2>2 DEF OneRowWritten, Transient
  <2> QED
    BY <1>1, <1>3, <1>7, <2>1, <2>2, <2>3, <2>4, RowDroppedKeeps
<1>8. CASE /\ run' = Rest(row) /\ inventory' = MarkUploadStarted(inventory, a)
           /\ xfer' = [xfer EXCEPT ![l] = Begin(l, a, row.hash)] /\ UNCHANGED mishaps
  <2>1. run' \in RunRecord /\ run'.queue = run.queue \ {row} /\ run'.failures = run.failures
    BY <1>8, RestTyped
  <2> QED
    BY <1>1, <1>8, <2>1, RowBegunKeeps
<1>9. CASE /\ Mishap("transcode") /\ run' = [Rest(row) EXCEPT !.failures = 0]
           /\ inventory' = MarkExcluded(inventory, a, "unsupported") /\ UNCHANGED xfer
  <2>1. mishaps' \in 0..MaxMishaps
    BY <1>3, <1>9, MishapTyped
  <2>2. run' \in RunRecord /\ run'.queue = run.queue \ {row} /\ run'.failures <= run.failures
    BY <1>9, RestTyped
  <2> QED
    BY <1>5, <1>9, <2>1, <2>2 DEF Reason
<1> QED
  BY <1>4, <1>6, <1>7, <1>8, <1>9 DEF TakeRow

(* An answer of uploadPhoto: the lane is free again, and a failure is one
   more of an asset that no longer waits. *)
LEMMA FinishRowKeeps ==
  ASSUME BackupInv, NEW l \in Lanes, FinishRow(l)
  PROVE  BackupInv'
<1> DEFINE a == xfer[l].asset
           n == IF xfer[l].step = "failed" /\ xfer[l].err \notin {"full", "unauthorized"} THEN run.failures + 1
                ELSE IF xfer[l].step = "done" THEN 0 ELSE run.failures
<1>1. job.step = "upload" /\ xfer[l].step \in {"done", "failed"} /\ LaneFrame /\ mishaps' = mishaps
  BY DEF FinishRow, At, LaneFrame
<1>2. a \in Assets /\ a \notin scan.locked /\ xfer[l].hash \in Contents \cup {Nil}
      /\ (xfer[l].step = "done" => xfer[l].hash \in Contents)
  BY <1>1, Types DEF BackupInv, LaneKnows, LockedNeverSent, Transfer
<1>3. /\ xfer' \in [Lanes -> Transfer] /\ \A m \in Lanes \ {l} : xfer'[m] = xfer[m]
      /\ xfer'[l].asset = Nil /\ xfer'[l].step = "idle"
  <2>1. NoTransfer \in Transfer /\ NoTransfer.asset = Nil /\ NoTransfer.step = "idle"
    BY UploadAssumption DEF NoTransfer, Transfer, Step, Problem
  <2> QED
    BY <2>1, Types DEF FinishRow
<1>4. inventory' \in [Assets -> InventoryRows] /\ inventory'[a].state \notin Transient
      /\ \A b \in Assets \ {a} : inventory'[b] = inventory[b]
  <2>1. inventory' = MarkUploaded(inventory, a, xfer[l].hash) \/ inventory' = MarkFailed(inventory, a)
    BY DEF FinishRow
  <2>2. inventory \in [Assets -> InventoryRows] /\ "none" \in Reason
    BY Types DEF Reason
  <2>3. CASE inventory' = MarkUploaded(inventory, a, xfer[l].hash)
    <3>1. inventory' \in [Assets -> InventoryRows] /\ inventory'[a].state \notin Transient
      BY <1>2, <2>2, <2>3, MarkTyped, MarkStates
    <3>2. \A b \in Assets \ {a} : inventory'[b] = inventory[b]
      BY <1>2, <2>2, <2>3, OneRow DEF MarkUploaded
    <3> QED
      BY <3>1, <3>2
  <2>4. CASE inventory' = MarkFailed(inventory, a)
    <3>1. inventory' \in [Assets -> InventoryRows] /\ inventory'[a].state \notin Transient
      BY <1>2, <2>2, <2>4, MarkTyped, MarkStates
    <3>2. \A b \in Assets \ {a} : inventory'[b] = inventory[b]
      BY <1>2, <2>2, <2>4, OneRow DEF MarkFailed
    <3> QED
      BY <3>1, <3>2
  <2> QED
    BY <2>1, <2>3, <2>4
<1>5. run.failures \in Nat /\ n \in Nat
  BY Types, WaitingFinite DEF RunRecord
<1>6. Waiting' \subseteq Waiting \ {a}
  <2>1. \A r \in run.queue : r.asset # a
    BY DEF BackupInv, QueueOnce
  <2>2. run'.queue = run.queue
    BY Types DEF FinishRow, RunRecord
  <2>3. \A m \in Lanes \ {l} : xfer'[m].asset = xfer[m].asset /\ xfer[m].asset # a
    BY <1>2, <1>3, Types DEF BackupInv, OneLanePerAsset
  <2> QED
    BY <1>3, <2>1, <2>2, <2>3 DEF Waiting
<1>7. n + Cardinality(Waiting') <= Cardinality(Assets) /\ Cardinality(Waiting') \in Nat
  <2>1. a \in Waiting
    BY <1>2, Types DEF Waiting
  <2>2. IsFiniteSet(Waiting \ {a}) /\ Cardinality(Waiting \ {a}) = Cardinality(Waiting) - 1
    BY <2>1, WaitingFinite, FS_RemoveElement
  <2>3. Cardinality(Waiting') <= Cardinality(Waiting) - 1 /\ Cardinality(Waiting') \in Nat
    BY <1>6, <2>2, FS_Subset, FS_CardinalityType
  <2>4. run.failures + Cardinality(Waiting) <= Cardinality(Assets)
    BY DEF BackupInv, FailuresBounded
  <2> QED
    BY <1>5, <2>3, <2>4, WaitingFinite
<1>8. n \in 0..Cardinality(Assets)
  BY <1>5, <1>7, WaitingFinite
<1>9. run' \in RunRecord /\ run'.queue = run.queue /\ run'.failures = n
  <2>1. CASE xfer[l].step = "done"
    <3>1. run' = [run EXCEPT !.uploaded = run.uploaded \cup {xfer[l].hash}, !.failures = 0]
      BY <2>1 DEF FinishRow
    <3>2. run.uploaded \cup {xfer[l].hash} \in SUBSET Contents /\ 0 \in 0..Cardinality(Assets)
      BY <1>2, <2>1, Types, WaitingFinite DEF RunRecord
    <3> QED
      BY <2>1, <3>1, <3>2, Types DEF RunRecord
  <2>2. CASE xfer[l].step = "failed" /\ xfer[l].err \in {"full", "unauthorized"}
    <3>1. run' = [run EXCEPT !.fatal = TRUE]
      BY <2>2 DEF FinishRow
    <3> QED
      BY <2>2, <3>1, Types DEF RunRecord
  <2>3. CASE xfer[l].step = "failed" /\ xfer[l].err \notin {"full", "unauthorized"}
    <3>1. run' = [run EXCEPT !.failures = run.failures + 1] /\ n = run.failures + 1
      BY <2>3 DEF FinishRow
    <3> QED
      BY <1>8, <3>1, Types DEF RunRecord
  <2> QED
    BY <1>1, <2>1, <2>2, <2>3
<1>10. FailuresBounded'
  BY <1>7, <1>9 DEF FailuresBounded
<1>11. LaneKnows' /\ OneLanePerAsset' /\ LockedNeverSent'
  <2>1. ASSUME NEW m \in Lanes
        PROVE  m = l \/ xfer'[m] = xfer[m]
    BY <1>3
  <2>2. LaneKnows'
    BY <1>1, <1>3, <2>1 DEF BackupInv, LaneKnows, LaneFrame
  <2>3. OneLanePerAsset' /\ LockedNeverSent'
    BY <1>1, <1>3, <2>1 DEF BackupInv, OneLanePerAsset, LockedNeverSent, LaneFrame
  <2> QED
    BY <2>2, <2>3
<1>12. QueueOnce'
  <2>1. \A r \in run.queue : r.asset # Nil
    BY Types DEF RunRecord, QueuedRow
  <2> QED
    BY <1>3, <1>9, <2>1 DEF BackupInv, QueueOnce
<1>13. \A b \in Assets \ {a} : (\E m \in Lanes : xfer[m].asset = b) => \E m \in Lanes : xfer'[m].asset = b
  BY <1>3
<1>14. OneRowWritten(a) /\ inventory'[a].state # "uploading"
  BY <1>4 DEF OneRowWritten, Transient
<1>15. mishaps' \in 0..MaxMishaps
  BY <1>1, Types
<1> HIDE DEF a, n
<1> QED
  BY <1>1, <1>2, <1>3, <1>9, <1>10, <1>11, <1>12, <1>13, <1>14, <1>15, LaneStepKeeps

-----------------------------------------------------------------------------
LEMMA InitInv ==
  ASSUME Init
  PROVE  BackupInv
<1>1. InventoryTypeOK
  <2>1. [NoRow EXCEPT !.state = "uploaded"] \in InventoryRow
    BY InventoryAssumption DEF NoRow, InventoryRow, InventoryState, Reason
  <2>2. inventory \in [Assets -> InventoryRow \cup {NoRow}]
    BY <2>1 DEF Init, InventoryInit, MigratedRows
  <2>3. \A c \in Contents : [bytes |-> c, stamp |-> 1] \in File
    BY InventoryAssumption DEF File
  <2>4. device \in [Assets -> File]
    BY <2>3 DEF Init, InventoryInit
  <2> QED
    BY <2>2, <2>4 DEF Init, InventoryInit, InventoryTypeOK, Mode
<1>2. UploadTypeOK /\ \A l \in Lanes : xfer[l].step = "idle" /\ xfer[l].asset = Nil
  <2>1. NoTransfer \in Transfer /\ NoTransfer.step = "idle" /\ NoTransfer.asset = Nil
    BY UploadAssumption DEF NoTransfer, Transfer, Step, Problem
  <2>2. NoPhoto \in PhotoOnServer /\ \A h \in Contents : [state |-> "done", bytes |-> h] \in PhotoOnServer
    BY DEF NoPhoto, PhotoOnServer
  <2>3. server \in [Contents -> PhotoOnServer]
    BY <2>2 DEF Init, UploadInit
  <2> QED
    BY <2>1, <2>3, UploadAssumption DEF Init, UploadInit, UploadTypeOK
<1>3. Cardinality(Assets) \in Nat
  BY EngineAssumption, FS_CardinalityType
<1>4. run \in RunRecord /\ run.queue = {} /\ run.failures = 0
  <2>1. 0 \in 0..Cardinality(Assets)
    BY <1>3
  <2> QED
    BY <2>1 DEF Init, NoRun, RunRecord
<1>5. job \in [kind : JobKind, step : JobStep] /\ job.kind = "none" /\ job.step = "idle"
  BY DEF Init, NoJob, JobKind, JobStep
<1>6. scan \in ScanRecord /\ scan.locked = {} /\ hashing \in HashRecord
  BY DEF Init, NoScan, ScanRecord, Mode, NoHashing, HashRecord
<1>7. BackupTypeOK
  BY <1>1, <1>2, <1>4, <1>5, <1>6, EngineAssumption DEF BackupTypeOK, Init
<1>8. JobKnows /\ TransientOwned /\ LockedOut
  BY <1>4, <1>5, <1>6 DEF JobKnows, TransientOwned, Busy, LockedOut, Init
<1>9. LaneKnows /\ OneLanePerAsset /\ QueueOnce /\ LockedNeverSent
  BY <1>2, <1>4 DEF LaneKnows, OneLanePerAsset, QueueOnce, LockedNeverSent
<1>10. FailuresBounded
  <2>1. Waiting = {}
    BY <1>2, <1>4 DEF Waiting
  <2> QED
    BY <1>3, <1>4, <2>1, FS_EmptySet DEF FailuresBounded
<1> QED
  BY <1>7, <1>8, <1>9, <1>10 DEF BackupInv

LEMMA NextKeeps ==
  ASSUME BackupInv, [Next]_vars
  PROVE  BackupInv'
<1>1. CASE \E kind \in {"scan", "backup"} : Start(kind)
  BY <1>1, StartKeeps
<1>2. CASE JobStepTaken
  <2>1. CASE \E f \in Folders : WalkFolder(f)
    BY <2>1, WalkFolderKeeps
  <2>2. CASE \E a \in Assets : HashStart(a)
    BY <2>2, HashStartKeeps
  <2> QED
    BY <1>2, <2>1, <2>2, ListFoldersKeeps, FinishScanKeeps, FetchTargetsKeeps, HashFinishKeeps,
       FinishHashingKeeps, SeedHashesKeeps, FetchRowsKeeps, FinishRunKeeps
       DEF JobStepTaken, DeviceStep
<1>3. CASE \E l \in Lanes : LaneStep(l)
  <2>1. PICK l \in Lanes : LaneStep(l)
    BY <1>3
  <2>2. CASE \E row \in run.queue : TakeRow(l, row)
    BY <2>2, TakeRowKeeps
  <2>3. CASE TransferStep(l) /\ UNCHANGED <<jobVars, runs, acts>>
    BY <2>3, TransferKeeps
  <2>4. CASE FinishRow(l)
    BY <2>4, FinishRowKeeps
  <2> QED
    BY <2>1, <2>2, <2>3, <2>4 DEF LaneStep
<1>4. CASE \E f \in Folders, mode \in {"include", "exclude"} : ApplyRule(f, mode)
  BY <1>4, ApplyRuleKeeps
<1>5. CASE FolderScanStep \/ Kill \/ SwitchAccount \/ Environment
  BY <1>5, FolderScanKeeps, KillKeeps, SwitchKeeps, EnvironmentKeeps
<1>6. CASE UNCHANGED vars
  <2>1. UNCHANGED <<inventoryVars, uploadVars, jobVars, runs, acts>>
    BY <1>6 DEF vars
  <2>2. InventoryTypeOK' /\ UNCHANGED <<inventory, job, scan, hashing, run, xfer, runs>>
    BY <2>1, Types DEF InventoryTypeOK, inventoryVars, uploadVars, jobVars, InventoryRows
  <2>3. GentleTable(inventory, inventory')
    BY <2>2, SameGentle
  <2> QED
    BY <2>1, <2>2, <2>3, Types, BesideKeeps DEF uploadVars, jobVars
<1> QED
  BY <1>1, <1>2, <1>3, <1>4, <1>5, <1>6 DEF Next

(* The inductive invariant of the backup: its parts are those the theorems
   below name, with what the queue, the lanes, the hashing loop and the
   locked photos must be for them to last. *)
THEOREM BackupCorrect == Spec => []BackupInv
<1>1. Init => BackupInv
  BY InitInv
<1>2. BackupInv /\ [Next]_vars => BackupInv'
  BY NextKeeps
<1> QED
  BY <1>1, <1>2, PTL DEF Spec

(* Every table, transfer and local of the backup keeps its type. *)
THEOREM BackupTypeCorrect == Spec => []BackupTypeOK
<1>1. BackupInv => BackupTypeOK
  BY DEF BackupInv
<1> QED
  BY <1>1, BackupCorrect, PTL

(* No photo is ever sent by two lanes at once, for any number of lanes in
   the two pools and however jobs, failures and kills follow one another. *)
THEOREM OneLane == Spec => []OneLanePerAsset
<1>1. BackupInv => OneLanePerAsset
  BY DEF BackupInv
<1> QED
  BY <1>1, BackupCorrect, PTL

(* No photo that was in the locked folder when the scan of a job began is
   sent by that job, whatever its row was before and whatever rule changes
   and folder scans do to the row meanwhile. *)
THEOREM LockedKept == Spec => []LockedNeverSent
<1>1. BackupInv => LockedNeverSent
  BY DEF BackupInv
<1> QED
  BY <1>1, BackupCorrect, PTL

(* While a job runs, no row is left hashing or uploading by an earlier one:
   each such row is the one being hashed or sent. *)
THEOREM NoneStranded == Spec => []TransientOwned
<1>1. BackupInv => TransientOwned
  BY DEF BackupInv
<1> QED
  BY <1>1, BackupCorrect, PTL

(* ------------------------------- the hashes ----------------------------- *)


(* A row describes the file as it is or as it was; as it is, its hash is
   the file's, unless the row is of a finished upload. *)
RowSound(row, file) ==
  /\ row.stamp <= file.stamp
  /\ file.bytes # Nil /\ row.stamp = file.stamp /\ row.state # "uploaded" =>
       row.hash \in {Nil, file.bytes}

(* Only an upload makes a row uploaded, and nothing gives an uploaded row a hash. *)
Calm(row, new) ==
  new.state = "uploaded" => row.state = "uploaded" /\ (row.hash = Nil => new.hash = Nil)

TableSound(inv, new) ==
  \A a \in Assets : RowSound(inv[a], device[a]) => RowSound(new[a], device[a]) /\ Calm(inv[a], new[a])

NotUploaded(a) == inventory[a].state # "uploaded"
HashInv ==
  /\ \A a \in Assets : RowSound(inventory[a], device[a])
  /\ \A r \in run.queue : NotUploaded(r.asset)
  /\ \A l \in Lanes : xfer[l].asset # Nil => NotUploaded(xfer[l].asset)
  /\ hashing.asset # Nil => NotUploaded(hashing.asset)
  /\ \A a \in hashing.targets : NotUploaded(a) \/ inventory[a].hash = Nil

-----------------------------------------------------------------------------
(* What the statements of the inventory do to one sound row. *)
LEMMA UpsertedSound ==
  ASSUME NEW row \in InventoryRows, NEW file \in File, NEW why \in Reason, RowSound(row, file)
  PROVE  LET new == Upserted(row, file.stamp, why) IN RowSound(new, file) /\ Calm(row, new)
BY InventoryAssumption
   DEF RowSound, Calm, Upserted, Refreshed, InventoryRows, InventoryRow, NoRow, File, InventoryState

(* A statement that moves a row that is not uploaded to another state than
   that, hash and stamp kept. *)
LEMMA MovedSound ==
  ASSUME NEW row \in InventoryRow, NEW file \in File, RowSound(row, file), row.state # "uploaded",
         NEW new \in InventoryRows, new.hash = row.hash, new.stamp = row.stamp, new.state # "uploaded"
  PROVE  RowSound(new, file) /\ Calm(row, new)
BY DEF RowSound, Calm

LEMMA NoRowSound ==
  ASSUME NEW row, NEW file \in File
  PROVE  RowSound(NoRow, file) /\ Calm(row, NoRow)
BY DEF RowSound, Calm, NoRow, File

LEMMA SameSound ==
  ASSUME NEW row, NEW file, RowSound(row, file)
  PROVE  RowSound(row, file) /\ Calm(row, row)
BY DEF Calm

LEMMA TableTwice ==
  ASSUME NEW x, NEW y, NEW z, TableSound(x, y), TableSound(y, z)
  PROVE  TableSound(x, z)
BY DEF TableSound, Calm

LEMMA UpsertSound ==
  ASSUME NEW inv \in [Assets -> InventoryRows], device \in [Assets -> File], NEW entries, NEW why \in Reason
  PROVE  TableSound(inv, UpsertFromScan(inv, entries, why))
<1> SUFFICES ASSUME NEW a \in Assets, RowSound(inv[a], device[a])
             PROVE  LET new == UpsertFromScan(inv, entries, why)[a]
                    IN  RowSound(new, device[a]) /\ Calm(inv[a], new)
  BY DEF TableSound
<1>1. inv[a] \in InventoryRows /\ device[a] \in File
  OBVIOUS
<1>2. CASE a \in entries
  <2>1. UpsertFromScan(inv, entries, why)[a] = Upserted(inv[a], device[a].stamp, why)
    BY <1>2 DEF UpsertFromScan
  <2> QED
    BY <1>1, <2>1, UpsertedSound
<1>3. CASE a \notin entries
  <2>1. UpsertFromScan(inv, entries, why)[a] = inv[a]
    BY <1>3 DEF UpsertFromScan
  <2> QED
    BY <2>1, SameSound
<1> QED
  BY <1>2, <1>3

(* A statement that moves some rows that are not uploaded, and leaves the others. *)
LEMMA MovesSound ==
  ASSUME NEW inv \in [Assets -> InventoryRows], device \in [Assets -> File], NEW new \in [Assets -> InventoryRows],
         \A a \in Assets : \/ new[a] = inv[a]
                          \/ /\ inv[a].state # "uploaded" /\ new[a].state # "uploaded"
                             /\ new[a].hash = inv[a].hash /\ new[a].stamp = inv[a].stamp
  PROVE  TableSound(inv, new)
BY DEF TableSound, RowSound, Calm

LEMMA FieldsKept ==
  ASSUME NEW row \in InventoryRows, NEW state, NEW why
  PROVE  /\ [row EXCEPT !.state = state, !.why = why].hash = row.hash
         /\ [row EXCEPT !.state = state, !.why = why].stamp = row.stamp
         /\ [row EXCEPT !.state = state, !.why = why].state = state
         /\ [row EXCEPT !.state = state].hash = row.hash
         /\ [row EXCEPT !.state = state].stamp = row.stamp
         /\ [row EXCEPT !.state = state].state = state
<1>1. CASE row = NoRow
  BY <1>1 DEF NoRow
<1>2. CASE row \in InventoryRow
  BY <1>2 DEF InventoryRow
<1> QED
  BY <1>1, <1>2 DEF InventoryRows

LEMMA ExcludeSound ==
  ASSUME NEW inv \in [Assets -> InventoryRows], device \in [Assets -> File], NEW f, NEW why \in Reason
  PROVE  TableSound(inv, ExcludeFolderItems(inv, f, why))
<1>1. ExcludeFolderItems(inv, f, why) \in [Assets -> InventoryRows]
  BY ExcludeGentle DEF GentleTable
<1>2. ASSUME NEW a \in Assets
      PROVE  LET new == ExcludeFolderItems(inv, f, why)[a]
             IN  \/ new = inv[a]
                 \/ /\ inv[a].state # "uploaded" /\ new.state # "uploaded"
                    /\ new.hash = inv[a].hash /\ new.stamp = inv[a].stamp
  <2>1. inv[a] \in InventoryRows
    OBVIOUS
  <2> QED
    BY <2>1, FieldsKept DEF ExcludeFolderItems
<1> QED
  BY <1>1, <1>2, MovesSound

LEMMA RependSound ==
  ASSUME NEW inv \in [Assets -> InventoryRows], device \in [Assets -> File], NEW f
  PROVE  TableSound(inv, RependFolderItems(inv, f))
<1>1. RependFolderItems(inv, f) \in [Assets -> InventoryRows]
  BY RependGentle DEF GentleTable
<1>2. ASSUME NEW a \in Assets
      PROVE  LET new == RependFolderItems(inv, f)[a]
             IN  \/ new = inv[a]
                 \/ /\ inv[a].state # "uploaded" /\ new.state # "uploaded"
                    /\ new.hash = inv[a].hash /\ new.stamp = inv[a].stamp
  <2>1. inv[a] \in InventoryRows
    OBVIOUS
  <2>2. \A state \in {"queued", "pending"} : state # "uploaded"
    OBVIOUS
  <2> QED
    BY <2>1, <2>2, FieldsKept DEF RependFolderItems
<1> QED
  BY <1>1, <1>2, MovesSound

LEMMA RecoverSound ==
  ASSUME NEW inv \in [Assets -> InventoryRows], device \in [Assets -> File]
  PROVE  TableSound(inv, RecoverTransientStates(inv))
<1>1. RecoverTransientStates(inv) \in [Assets -> InventoryRows]
  BY RecoverCalms
<1>2. ASSUME NEW a \in Assets
      PROVE  LET new == RecoverTransientStates(inv)[a]
             IN  \/ new = inv[a]
                 \/ /\ inv[a].state # "uploaded" /\ new.state # "uploaded"
                    /\ new.hash = inv[a].hash /\ new.stamp = inv[a].stamp
  <2>1. inv[a] \in InventoryRows
    OBVIOUS
  <2>2. CASE inv[a].state = "hashing"
    BY <2>1, <2>2, FieldsKept DEF RecoverTransientStates
  <2>3. CASE inv[a].state = "uploading"
    BY <2>1, <2>3, FieldsKept DEF RecoverTransientStates
  <2>4. CASE inv[a].state \notin {"hashing", "uploading"}
    BY <2>4 DEF RecoverTransientStates
  <2> QED
    BY <2>2, <2>3, <2>4
<1> QED
  BY <1>1, <1>2, MovesSound

-----------------------------------------------------------------------------
(* A step that leaves the files alone and moves rows soundly: what the queue,
   the lanes and the hashing loop hold afterwards they held before. *)
LEMMA HashKeeps ==
  ASSUME BackupInv, BackupInv', HashInv, UNCHANGED device, TableSound(inventory, inventory'),
         \A r \in run'.queue : r \in run.queue,
         \A l \in Lanes : xfer'[l].asset # Nil =>
           \/ \E m \in Lanes : xfer'[l].asset = xfer[m].asset
           \/ \E r \in run.queue : xfer'[l].asset = r.asset,
         hashing'.asset # Nil => hashing'.asset = hashing.asset,
         hashing'.targets \subseteq hashing.targets
  PROVE  HashInv'
<1>1. \A a \in Assets : RowSound(inventory'[a], device'[a]) /\ Calm(inventory[a], inventory'[a])
  BY DEF HashInv, TableSound
<1>2. \A a \in Assets : NotUploaded(a) => NotUploaded(a)'
  BY <1>1 DEF NotUploaded, Calm
<1>3. /\ \A r \in run.queue : r.asset \in Assets
      /\ \A l \in Lanes : xfer[l].asset # Nil => xfer[l].asset \in Assets
      /\ hashing.asset # Nil => hashing.asset \in Assets
      /\ hashing.targets \subseteq Assets
  BY Types DEF RunRecord, QueuedRow, Transfer, HashRecord
<1>4. \A r \in run'.queue : NotUploaded(r.asset)'
  BY <1>2, <1>3 DEF HashInv
<1>5. \A l \in Lanes : xfer'[l].asset # Nil => NotUploaded(xfer[l].asset)'
  <2> SUFFICES ASSUME NEW l \in Lanes, xfer'[l].asset # Nil
               PROVE  inventory'[xfer'[l].asset].state # "uploaded"
    BY DEF NotUploaded
  <2>1. xfer'[l].asset \in Assets /\ NotUploaded(xfer'[l].asset)
    BY <1>3 DEF HashInv
  <2> QED
    BY <2>1, <1>2 DEF NotUploaded
<1>6. hashing'.asset # Nil => NotUploaded(hashing.asset)'
  BY <1>2, <1>3 DEF HashInv, NotUploaded
<1>7. \A a \in hashing'.targets : NotUploaded(a)' \/ inventory'[a].hash = Nil
  BY <1>1, <1>3 DEF HashInv, NotUploaded, Calm
<1> QED
  BY <1>1, <1>4, <1>5, <1>6, <1>7 DEF HashInv

LEMMA SameTable ==
  ASSUME BackupInv, UNCHANGED inventory
  PROVE  TableSound(inventory, inventory')
BY SameSound DEF TableSound

(* Steps that leave the table alone. *)
LEMMA QuietStepHash ==
  ASSUME BackupInv, BackupInv', HashInv, UNCHANGED <<device, inventory>>,
         \A r \in run'.queue : r \in run.queue,
         \A l \in Lanes : xfer'[l].asset = xfer[l].asset \/ xfer'[l].asset = Nil,
         hashing'.asset # Nil => hashing'.asset = hashing.asset,
         hashing'.targets \subseteq hashing.targets
  PROVE  HashInv'
BY SameTable, HashKeeps

LEMMA StartHash ==
  ASSUME BackupInv, BackupInv', HashInv, NEW kind \in {"scan", "backup"}, Start(kind)
  PROVE  HashInv'
<1>1. TableSound(inventory, inventory')
  BY RecoverSound, Types DEF Start
<1> QED
  BY <1>1, HashKeeps DEF Start, uploadVars

LEMMA WalkFolderHash ==
  ASSUME BackupInv, BackupInv', HashInv, NEW f \in Folders, WalkFolder(f)
  PROVE  HashInv'
<1> DEFINE isNew == f \notin scan.known /\ f \notin scan.held
           action == DecideFolder(scan.rules[f], isNew)
           why == CASE action = "include" -> "none" [] action = "hold" -> "hold" [] OTHER -> "rule"
           entries == ScanEntries(f, scan.locked)
           walked == UpsertFromScan(inventory, entries, why)
<1>1. why \in Reason
  BY DEF Reason
<1>2. TableSound(inventory, walked) /\ walked \in [Assets -> InventoryRows]
  BY <1>1, Types, UpsertSound, UpsertGentle DEF GentleTable
<1>3. TableSound(walked, ExcludeFolderItems(walked, f, "hold"))
  BY <1>2, Types, ExcludeSound DEF Reason
<1>4. inventory' = IF action = "hold" THEN ExcludeFolderItems(walked, f, "hold") ELSE walked
  BY DEF WalkFolder
<1> HIDE DEF walked, action
<1>5. TableSound(inventory, inventory')
  BY <1>2, <1>3, <1>4, TableTwice
<1> QED
  BY <1>5, HashKeeps DEF WalkFolder, uploadVars

LEMMA FinishScanHash ==
  ASSUME BackupInv, BackupInv', HashInv, FinishScan
  PROVE  HashInv'
<1>1. \A a \in Assets : inventory'[a] = IF a \in scan.present THEN inventory[a] ELSE NoRow
  BY DEF FinishScan, RemoveAbsent
<1>2. hashing'.asset = Nil /\ hashing'.targets = HashTargets(inventory')
  BY DEF FinishScan, NoHashing
<1>3. \A a \in Assets : RowSound(inventory'[a], device'[a])
  BY <1>1, NoRowSound, Types DEF HashInv, FinishScan
<1>4. \A a \in HashTargets(inventory') : NotUploaded(a)' \/ inventory'[a].hash = Nil
  BY DEF HashTargets, NotUploaded
<1>5. run' = run /\ xfer' = xfer /\ job.step # "upload" /\ run = NoRun
  BY DEF FinishScan, uploadVars, At, BackupInv, JobKnows
<1>6. \A l \in Lanes : xfer[l].asset = Nil
  BY <1>5, LanesIdleBefore
<1>7. run'.queue = {}
  BY <1>5 DEF NoRun
<1> QED
  BY <1>2, <1>3, <1>4, <1>5, <1>6, <1>7 DEF HashInv

LEMMA HashStartHash ==
  ASSUME BackupInv, BackupInv', HashInv, NEW a \in Assets, HashStart(a)
  PROVE  HashInv'
<1>1. /\ a \in hashing.targets /\ hashing'.asset = a /\ hashing'.targets = hashing.targets \ {a}
      /\ UNCHANGED <<device, run, xfer>> /\ job.step # "upload" /\ run = NoRun
  BY DEF HashStart, uploadVars, At, BackupInv, JobKnows
<1>2. \A b \in Assets \ {a} : inventory'[b] = inventory[b]
  BY Types, OneRow DEF HashStart, MarkHashing
<1>3. inventory[a] \in InventoryRows /\ device[a] \in File /\ hashing.targets \subseteq Assets
  BY Types DEF HashRecord
<1>4. RowSound(inventory'[a], device[a]) /\ inventory'[a].state # "uploaded"
  <2>1. CASE inventory[a] = NoRow
    <3>1. inventory'[a] = NoRow
      BY <2>1, Types DEF HashStart, MarkHashing, Update
    <3> QED
      BY <1>3, <3>1, NoRowSound DEF NoRow
  <2>2. CASE inventory[a] # NoRow
    <3>1. inventory'[a] = [inventory[a] EXCEPT !.state = "hashing"]
      BY <2>2, Types DEF HashStart, MarkHashing, Update
    <3>2. inventory'[a].hash = inventory[a].hash /\ inventory'[a].stamp = inventory[a].stamp
          /\ inventory'[a].state = "hashing"
      BY <1>3, <3>1, FieldsKept
    <3> QED
      BY <1>1, <3>2 DEF HashInv, RowSound, NotUploaded
  <2> QED
    BY <2>1, <2>2
<1>5. \A b \in Assets : RowSound(inventory'[b], device'[b])
  BY <1>1, <1>2, <1>4 DEF HashInv
<1>6. \A l \in Lanes : xfer[l].asset = Nil
  BY <1>1, LanesIdleBefore
<1>7. \A b \in hashing'.targets : NotUploaded(b)' \/ inventory'[b].hash = Nil
  BY <1>1, <1>2, <1>3 DEF HashInv, NotUploaded
<1> QED
  BY <1>1, <1>4, <1>5, <1>6, <1>7 DEF HashInv, NoRun, NotUploaded

LEMMA HashFinishHash ==
  ASSUME BackupInv, BackupInv', HashInv, HashFinish
  PROVE  HashInv'
<1> DEFINE a == hashing.asset
<1>1. /\ hashing'.asset = Nil /\ hashing'.targets = hashing.targets
      /\ UNCHANGED <<device, run, xfer>> /\ a \in Assets /\ NotUploaded(a)
  BY Types DEF HashFinish, HashRecord, HashInv
<1>2. inventory[a] \in InventoryRows /\ device[a] \in File
  BY <1>1, Types
<1>3. TableSound(inventory, inventory')
  <2> SUFFICES ASSUME NEW b \in Assets, RowSound(inventory[b], device[b])
               PROVE  RowSound(inventory'[b], device[b]) /\ Calm(inventory[b], inventory'[b])
    BY DEF TableSound
  <2>1. CASE b # a
    <3>1. inventory'[b] = inventory[b]
      BY <1>1, <2>1, Types, OneRow DEF HashFinish, MarkExcluded, MarkFailed, SetContentHash
    <3> QED
      BY <3>1, SameSound
  <2>2. CASE b = a /\ inventory[a] = NoRow
    <3>1. inventory'[b] = NoRow
      BY <1>1, <2>2, Types DEF HashFinish, MarkExcluded, MarkFailed, SetContentHash, Update
    <3> QED
      BY <1>2, <2>2, <3>1, NoRowSound
  <2>3. CASE b = a /\ inventory[a] # NoRow
    <3>1. ASSUME NEW state \in {"excluded", "failed"}, NEW why,
                 inventory'[a] = [inventory[a] EXCEPT !.state = state, !.why = why]
          PROVE  RowSound(inventory'[a], device[a]) /\ Calm(inventory[a], inventory'[a])
      <4>1. inventory'[a].hash = inventory[a].hash /\ inventory'[a].stamp = inventory[a].stamp
            /\ inventory'[a].state = state
        BY <1>2, <3>1, FieldsKept
      <4> QED
        BY <1>1, <2>3, <4>1 DEF RowSound, Calm, NotUploaded
    <3>2. CASE inventory' = MarkExcluded(inventory, a, "unsupported")
      BY <1>1, <2>3, <3>1, <3>2, Types DEF MarkExcluded, Update
    <3>3. CASE inventory' = MarkFailed(inventory, a)
      BY <1>1, <2>3, <3>1, <3>3, Types DEF MarkFailed, Update
    <3>4. CASE inventory' = SetContentHash(inventory, a, device[a].bytes)
      <4> DEFINE state == IF inventory[a].state \in {"pending", "hashing"} THEN "queued" ELSE inventory[a].state
      <4>1. inventory'[a] = [inventory[a] EXCEPT !.hash = device[a].bytes, !.state = state]
        BY <1>1, <2>3, <3>4, Types DEF SetContentHash, Update
      <4>2. inventory[a] \in InventoryRow
        BY <1>2, <2>3 DEF InventoryRows
      <4>3. state # "uploaded"
        BY <1>1 DEF NotUploaded
      <4> HIDE DEF state
      <4>4. inventory'[a].hash = device[a].bytes /\ inventory'[a].stamp = inventory[a].stamp
            /\ inventory'[a].state = state
        BY <4>1, <4>2 DEF InventoryRow
      <4> QED
        BY <2>3, <4>3, <4>4 DEF RowSound, Calm
    <3> QED
      BY <2>3, <3>2, <3>3, <3>4 DEF HashFinish
  <2> QED
    BY <2>1, <2>2, <2>3
<1> QED
  BY <1>1, <1>3, HashKeeps

(* The upload loop begins with rows that are still queued. *)
LEMMA TakeQueueHash ==
  ASSUME BackupInv, HashInv, NEW inv, inv = inventory', TakeQueue(inv), job.step # "upload", hashing' = NoHashing,
         UNCHANGED <<device, xfer>>, \A a \in Assets : RowSound(inventory'[a], device[a])
  PROVE  HashInv'
<1>1. \A r \in run'.queue : NotUploaded(r.asset)'
  BY DEF TakeQueue, NoRun, QueuedRows, Rows, NotUploaded
<1>2. \A l \in Lanes : xfer'[l].asset = Nil
  BY LanesIdleBefore
<1> QED
  BY <1>1, <1>2 DEF HashInv, NoHashing

LEMMA EndHash ==
  ASSUME BackupInv, BackupInv', HashInv, JobEnds, UNCHANGED <<device, inventory>>,
         \A l \in Lanes : xfer'[l].asset = xfer[l].asset \/ xfer'[l].asset = Nil
  PROVE  HashInv'
BY QuietStepHash DEF JobEnds, NoRun, NoHashing

LEMMA FinishHashingHash ==
  ASSUME BackupInv, BackupInv', HashInv, FinishHashing
  PROVE  HashInv'
<1>1. job.step = "hash" /\ hashing = NoHashing /\ UNCHANGED <<device, inventory, xfer>>
  BY DEF FinishHashing, At, inventoryVars, uploadVars
<1>2. CASE JobEnds
  BY <1>1, <1>2, EndHash
<1>3. CASE JobGoes("seed") /\ UNCHANGED <<scan, hashing, run>>
  BY <1>1, <1>3, QuietStepHash
<1>4. CASE TakeQueue(inventory) /\ UNCHANGED <<scan, hashing>>
  <2>1. \A a \in Assets : RowSound(inventory'[a], device[a])
    BY <1>1 DEF HashInv
  <2> QED
    BY <1>1, <1>4, <2>1, TakeQueueHash
<1> QED
  BY <1>2, <1>3, <1>4 DEF FinishHashing

LEMMA SeedHashesHash ==
  ASSUME BackupInv, BackupInv', HashInv, SeedHashes
  PROVE  HashInv'
<1>1. job.step = "seed" /\ hashing = NoHashing /\ UNCHANGED <<device, xfer>>
  BY DEF SeedHashes, At, BackupInv, JobKnows
<1>2. CASE /\ inventory' = MarkUploadedByHashes(inventory, {h \in Contents : server[h].state # "none"})
           /\ TakeQueue(inventory') /\ UNCHANGED <<scan, hashing, mishaps>>
  <2>1. ASSUME NEW a \in Assets
        PROVE  RowSound(inventory'[a], device[a])
    <3>1. inventory[a] \in InventoryRows /\ RowSound(inventory[a], device[a])
      BY Types DEF HashInv
    <3>2. \/ inventory'[a] = inventory[a]
          \/ inventory'[a] = [inventory[a] EXCEPT !.state = "uploaded", !.why = "none"]
      BY <1>2, Types DEF MarkUploadedByHashes
    <3>3. CASE inventory'[a] = [inventory[a] EXCEPT !.state = "uploaded", !.why = "none"]
      BY <3>1, <3>3, FieldsKept DEF RowSound
    <3> QED
      BY <3>1, <3>2, <3>3
  <2> QED
    BY <1>1, <1>2, <2>1, TakeQueueHash
<1>3. CASE Mishap("list") /\ JobEnds /\ UNCHANGED inventory
  BY <1>1, <1>3, EndHash
<1> QED
  BY <1>2, <1>3 DEF SeedHashes

LEMMA FetchRowsHash ==
  ASSUME BackupInv, BackupInv', HashInv, FetchRows
  PROVE  HashInv'
<1>1. run'.queue = run.queue
  BY Types DEF FetchRows, RunRecord
<1> QED
  BY <1>1, QuietStepHash DEF FetchRows, inventoryVars, uploadVars

-----------------------------------------------------------------------------
(* A write to the row of an asset that is not uploaded. *)
LEMMA MarkSound ==
  ASSUME BackupInv, HashInv, NEW a \in Assets, NotUploaded(a), NEW why,
         \/ inventory' = MarkExcluded(inventory, a, why)
         \/ inventory' = MarkFailed(inventory, a)
         \/ inventory' = MarkUploadStarted(inventory, a)
  PROVE  TableSound(inventory, inventory')
<1> SUFFICES ASSUME NEW b \in Assets, RowSound(inventory[b], device[b])
             PROVE  RowSound(inventory'[b], device[b]) /\ Calm(inventory[b], inventory'[b])
  BY DEF TableSound
<1>1. inventory[a] \in InventoryRows /\ device[a] \in File
  BY Types
<1>2. CASE b # a
  <2>1. inventory'[b] = inventory[b]
    BY <1>2, Types, OneRow DEF MarkExcluded, MarkFailed, MarkUploadStarted
  <2> QED
    BY <2>1, SameSound
<1>3. CASE b = a /\ inventory[a] = NoRow
  <2>1. inventory'[b] = NoRow
    BY <1>3, Types DEF MarkExcluded, MarkFailed, MarkUploadStarted, Update
  <2> QED
    BY <1>1, <1>3, <2>1, NoRowSound
<1>4. CASE b = a /\ inventory[a] # NoRow
  <2>1. inventory'[a].hash = inventory[a].hash /\ inventory'[a].stamp = inventory[a].stamp
        /\ inventory'[a].state \in {"excluded", "failed", "uploading"}
    <3>1. CASE inventory' = MarkExcluded(inventory, a, why)
      BY <1>1, <1>4, <3>1, FieldsKept, Types DEF MarkExcluded, Update
    <3>2. CASE inventory' = MarkFailed(inventory, a)
      BY <1>1, <1>4, <3>2, FieldsKept, Types DEF MarkFailed, Update
    <3>3. CASE inventory' = MarkUploadStarted(inventory, a)
      BY <1>1, <1>4, <3>3, FieldsKept, Types DEF MarkUploadStarted, Update
    <3> QED
      BY <3>1, <3>2, <3>3
  <2> QED
    BY <1>4, <2>1 DEF RowSound, Calm, NotUploaded
<1> QED
  BY <1>2, <1>3, <1>4

(* The row of an asset that left the queue and the lanes becomes uploaded. *)
LEMMA UploadedHash ==
  ASSUME BackupInv, HashInv, NEW a \in Assets, NEW hash \in Contents \cup {Nil},
         inventory' = MarkUploaded(inventory, a, hash), hashing' = NoHashing, UNCHANGED device,
         \A r \in run'.queue : r \in run.queue /\ r.asset # a,
         \A l \in Lanes : xfer'[l].asset \in {Nil, xfer[l].asset} \ {a}
  PROVE  HashInv'
<1>1. \A b \in Assets \ {a} : inventory'[b] = inventory[b]
  BY Types, OneRow DEF MarkUploaded
<1>2. RowSound(inventory'[a], device[a])
  <2>1. inventory[a] \in InventoryRows /\ device[a] \in File /\ RowSound(inventory[a], device[a])
    BY Types DEF HashInv
  <2>2. CASE inventory[a] = NoRow
    <3>1. inventory'[a] = NoRow
      BY <2>2, Types DEF MarkUploaded, Update
    <3> QED
      BY <2>1, <3>1, NoRowSound
  <2>3. CASE inventory[a] \in InventoryRow
    <3> DEFINE h == IF hash = Nil THEN inventory[a].hash ELSE hash
    <3>1. inventory[a] # NoRow
      BY <2>3 DEF InventoryRow, InventoryState, NoRow
    <3>2. inventory'[a] = [inventory[a] EXCEPT !.state = "uploaded", !.why = "none", !.hash = h]
      BY <3>1, Types DEF MarkUploaded, Update
    <3> HIDE DEF h
    <3>3. inventory'[a].state = "uploaded" /\ inventory'[a].stamp = inventory[a].stamp
      BY <2>3, <3>2 DEF InventoryRow
    <3> QED
      BY <2>1, <3>3 DEF RowSound
  <2> QED
    BY <2>1, <2>2, <2>3 DEF InventoryRows
<1>3. \A b \in Assets : RowSound(inventory'[b], device'[b])
  BY <1>1, <1>2 DEF HashInv
<1>4. \A r \in run'.queue : NotUploaded(r.asset)'
  <2>1. \A r \in run.queue : r.asset \in Assets
    BY Types DEF RunRecord, QueuedRow
  <2> QED
    BY <1>1, <2>1 DEF HashInv, NotUploaded
<1>5. \A l \in Lanes : xfer'[l].asset # Nil => NotUploaded(xfer[l].asset)'
  <2>1. \A l \in Lanes : xfer[l].asset \in Assets \cup {Nil}
    BY Types DEF Transfer
  <2> SUFFICES ASSUME NEW l \in Lanes, xfer'[l].asset # Nil
               PROVE  inventory'[xfer'[l].asset].state # "uploaded"
    BY DEF NotUploaded
  <2>2. xfer'[l].asset = xfer[l].asset /\ xfer[l].asset \in Assets \ {a} /\ NotUploaded(xfer[l].asset)
    BY <2>1 DEF HashInv
  <2> QED
    BY <1>1, <2>2 DEF NotUploaded
<1> QED
  BY <1>3, <1>4, <1>5 DEF HashInv, NoHashing

LEMMA TakeRowHash ==
  ASSUME BackupInv, BackupInv', HashInv, NEW l \in Lanes, NEW row \in run.queue, TakeRow(l, row)
  PROVE  HashInv'
<1> DEFINE a == row.asset
<1>1. /\ a \in Assets /\ NotUploaded(a) /\ row.hash \in Contents \cup {Nil} /\ hashing' = hashing
      /\ hashing = NoHashing /\ device' = device
  BY Types DEF RunRecord, QueuedRow, HashInv, TakeRow, At, BackupInv, JobKnows
<1>2. run'.queue = run.queue \ {row}
  BY RestTyped DEF TakeRow
<1>3. CASE UNCHANGED <<inventory, xfer>>
  BY <1>1, <1>2, <1>3, QuietStepHash
<1>4. ASSUME NEW why, inventory' = MarkExcluded(inventory, a, why), UNCHANGED xfer
      PROVE  HashInv'
  <2>1. TableSound(inventory, inventory')
    BY <1>1, <1>4, MarkSound
  <2> QED
    BY <1>1, <1>2, <1>4, <2>1, HashKeeps
<1>5. CASE inventory' = MarkUploaded(inventory, a, row.hash) /\ UNCHANGED xfer
  <2>1. \A r \in run'.queue : r \in run.queue /\ r.asset # a
    BY <1>2 DEF BackupInv, QueueOnce
  <2>2. \A m \in Lanes : xfer'[m].asset \in {Nil, xfer[m].asset} \ {a}
    BY <1>5 DEF BackupInv, QueueOnce
  <2> QED
    BY <1>1, <1>5, <2>1, <2>2, UploadedHash
<1>6. CASE inventory' = MarkUploadStarted(inventory, a) /\ xfer' = [xfer EXCEPT ![l] = Begin(l, a, row.hash)]
  <2>1. TableSound(inventory, inventory')
    BY <1>1, <1>6, MarkSound
  <2>2. Begin(l, a, row.hash).asset = a
    BY <1>1, BeginTyped
  <2>3. \A m \in Lanes : xfer'[m].asset = xfer[m].asset \/ xfer'[m].asset = a
    BY <1>6, <2>2, Types
  <2> QED
    BY <1>1, <1>2, <2>1, <2>3, HashKeeps
<1> QED
  BY <1>3, <1>4, <1>5, <1>6 DEF TakeRow

LEMMA FinishRowHash ==
  ASSUME BackupInv, BackupInv', HashInv, NEW l \in Lanes, FinishRow(l)
  PROVE  HashInv'
<1> DEFINE a == xfer[l].asset
<1>1. /\ xfer[l].step \in {"done", "failed"} /\ hashing' = hashing /\ hashing = NoHashing /\ device' = device
      /\ xfer' = [xfer EXCEPT ![l] = NoTransfer]
  BY DEF FinishRow, At, BackupInv, JobKnows
<1>2. a \in Assets /\ NotUploaded(a) /\ xfer[l].hash \in Contents \cup {Nil}
  BY <1>1, Types DEF BackupInv, LaneKnows, Transfer, HashInv
<1>3. run'.queue = run.queue /\ \A r \in run.queue : r.asset # a
  BY Types DEF FinishRow, RunRecord, BackupInv, QueueOnce
<1>4. \A m \in Lanes : xfer'[m].asset \in {Nil, xfer[m].asset} \ {a}
  <2>1. xfer'[l].asset = Nil
    BY <1>1, Types DEF NoTransfer
  <2>2. \A m \in Lanes \ {l} : xfer'[m].asset = xfer[m].asset /\ xfer[m].asset # a
    BY <1>1, <1>2, Types DEF BackupInv, OneLanePerAsset
  <2> QED
    BY <1>2, <2>1, <2>2, Types
<1>5. CASE inventory' = MarkUploaded(inventory, a, xfer[l].hash)
  BY <1>1, <1>2, <1>3, <1>4, <1>5, UploadedHash
<1>6. CASE inventory' = MarkFailed(inventory, a)
  <2>1. TableSound(inventory, inventory')
    BY <1>2, <1>6, MarkSound
  <2> QED
    BY <1>1, <1>3, <1>4, <2>1, HashKeeps
<1> QED
  BY <1>5, <1>6 DEF FinishRow

-----------------------------------------------------------------------------
(* Beside the job. *)
LEMMA ApplyRuleHash ==
  ASSUME BackupInv, BackupInv', HashInv, NEW f \in Folders, NEW mode \in {"include", "exclude"},
         ApplyRule(f, mode)
  PROVE  HashInv'
<1>1. TableSound(inventory, RependFolderItems(inventory, f))
      /\ TableSound(inventory, ExcludeFolderItems(inventory, f, "rule"))
  BY Types, RependSound, ExcludeSound DEF Reason
<1>2. TableSound(inventory, inventory')
  BY <1>1 DEF ApplyRule, SetSyncRule
<1> QED
  BY <1>2, HashKeeps DEF ApplyRule, uploadVars

LEMMA FolderScanHash ==
  ASSUME BackupInv, BackupInv', HashInv, FolderScanStep
  PROVE  HashInv'
<1>1. PICK s \in folderScans : FolderScanListed(s) \/ FolderScanWalk(s)
  BY DEF FolderScanStep
<1>2. CASE FolderScanListed(s)
  BY <1>2, QuietStepHash DEF FolderScanListed, inventoryVars, uploadVars
<1>3. CASE FolderScanWalk(s)
  <2>1. s.why \in Reason
    BY Types DEF FolderScan
  <2>2. TableSound(inventory, inventory')
    BY <1>3, <2>1, Types, UpsertSound DEF FolderScanWalk
  <2> QED
    BY <1>3, <2>2, HashKeeps DEF FolderScanWalk, uploadVars
<1> QED
  BY <1>1, <1>2, <1>3

LEMMA SwitchHash ==
  ASSUME BackupInv, BackupInv', HashInv, SwitchAccount
  PROVE  HashInv'
<1>1. TableSound(inventory, inventory')
  BY NoRowSound, Types DEF SwitchAccount, TableSound
<1> QED
  BY <1>1, HashKeeps DEF SwitchAccount, jobVars

LEMMA KillHash ==
  ASSUME BackupInv, BackupInv', HashInv, Kill
  PROVE  HashInv'
<1>1. \A l \in Lanes : xfer'[l].asset = Nil
  BY DEF Kill, NoTransfer
<1> QED
  BY <1>1, EndHash DEF Kill, inventoryVars

LEMMA TransferHash ==
  ASSUME BackupInv, BackupInv', HashInv, NEW l \in Lanes, TransferStep(l), UNCHANGED <<jobVars, runs, acts>>
  PROVE  HashInv'
<1>1. PICK step \in Step, hash \in Contents \cup {Nil}, part \in 0..Parts : Advanced(l, step, hash, part)
  BY TransferAdvances DEF AdvancedWell
<1>2. \A m \in Lanes : xfer'[m].asset = xfer[m].asset
  BY <1>1 DEF Advanced
<1> QED
  BY <1>2, QuietStepHash DEF TransferStep, inventoryVars, jobVars

(* A file another program writes is newer than any row of it. *)
LEMMA FileHash ==
  ASSUME BackupInv, HashInv, NEW a \in Assets, EditFile(a) \/ DeleteFile(a), UNCHANGED <<uploadVars, jobVars>>
  PROVE  HashInv'
<1>1. UNCHANGED <<inventory, run, xfer, hashing>>
  BY DEF EditFile, DeleteFile, uploadVars, jobVars
<1>2. \A b \in Assets \ {a} : device'[b] = device[b]
  BY Types DEF EditFile, DeleteFile
<1>3. inventory[a] \in InventoryRows /\ device[a] \in File /\ RowSound(inventory[a], device[a])
  BY Types DEF HashInv
<1>4. RowSound(inventory[a], device'[a])
  <2>1. CASE EditFile(a)
    <3>1. device'[a].stamp = device[a].stamp + 1
      BY <2>1, Types DEF EditFile
    <3>2. inventory[a].stamp \in Nat /\ device[a].stamp \in Nat
      BY <1>3, InventoryAssumption DEF InventoryRows, InventoryRow, NoRow, File
    <3> QED
      BY <1>3, <3>1, <3>2 DEF RowSound
  <2>2. CASE DeleteFile(a)
    <3>1. device'[a].bytes = Nil /\ device'[a].stamp = device[a].stamp
      BY <1>3, <2>2, Types DEF DeleteFile, File
    <3> QED
      BY <1>3, <3>1 DEF RowSound
  <2> QED
    BY <2>1, <2>2
<1> QED
  BY <1>1, <1>2, <1>4 DEF HashInv, NotUploaded

LEMMA EnvironmentHash ==
  ASSUME BackupInv, BackupInv', HashInv, Environment
  PROVE  HashInv'
<1>1. CASE \E a \in Assets : (EditFile(a) \/ DeleteFile(a)) /\ UNCHANGED <<uploadVars, jobVars>>
  BY <1>1, FileHash
<1>2. CASE \E a \in Assets : (AddToLockedFolder(a) \/ RemoveFromLockedFolder(a)) /\ UNCHANGED <<uploadVars, jobVars>>
  BY <1>2, QuietStepHash DEF AddToLockedFolder, RemoveFromLockedFolder, uploadVars, jobVars
<1>3. CASE (\E h \in Contents : SweepReservation(h)) /\ UNCHANGED <<inventoryVars, jobVars, runs, acts>>
  BY <1>3, QuietStepHash DEF SweepReservation, inventoryVars, jobVars
<1> QED
  BY <1>1, <1>2, <1>3 DEF Environment

-----------------------------------------------------------------------------
LEMMA InitHash ==
  ASSUME Init
  PROVE  HashInv
<1>1. ASSUME NEW a \in Assets
      PROVE  RowSound(inventory[a], device[a])
  <2>1. device[a].stamp = 1 /\ device[a] \in File
    BY InitInv, Types DEF Init, InventoryInit
  <2>2. CASE inventory[a] = NoRow
    BY <2>1, <2>2, NoRowSound
  <2>3. CASE inventory[a] = [NoRow EXCEPT !.state = "uploaded"]
    BY <2>1, <2>3 DEF RowSound, NoRow
  <2> QED
    BY <2>2, <2>3 DEF Init, InventoryInit, MigratedRows
<1>2. \A l \in Lanes : xfer[l].asset = Nil
  BY DEF Init, UploadInit, NoTransfer
<1> QED
  BY <1>1, <1>2 DEF HashInv, Init, NoRun, NoHashing

LEMMA NextHash ==
  ASSUME BackupInv, HashInv, [Next]_vars
  PROVE  HashInv'
<1>0. BackupInv'
  BY NextKeeps
<1>1. CASE \E kind \in {"scan", "backup"} : Start(kind)
  BY <1>0, <1>1, StartHash
<1>2. CASE JobStepTaken
  <2>1. CASE \E f \in Folders : WalkFolder(f)
    BY <1>0, <2>1, WalkFolderHash
  <2>2. CASE \E a \in Assets : HashStart(a)
    BY <1>0, <2>2, HashStartHash
  <2>3. CASE ListFolders
    BY <1>0, <2>3, QuietStepHash DEF ListFolders, inventoryVars, uploadVars
  <2>4. CASE FetchTargets
    <3>1. hashing'.asset = hashing.asset /\ hashing'.targets \subseteq hashing.targets
      BY <2>4, Types DEF FetchTargets, HashRecord
    <3> QED
      BY <1>0, <2>4, <3>1, QuietStepHash DEF FetchTargets, inventoryVars, uploadVars
  <2>5. CASE FinishRun
    BY <1>0, <2>5, EndHash DEF FinishRun, inventoryVars, uploadVars
  <2> QED
    BY <1>0, <1>2, <2>1, <2>2, <2>3, <2>4, <2>5, FinishScanHash, HashFinishHash, FinishHashingHash,
       SeedHashesHash, FetchRowsHash
       DEF JobStepTaken, DeviceStep
<1>3. CASE \E l \in Lanes : LaneStep(l)
  <2>1. PICK l \in Lanes : LaneStep(l)
    BY <1>3
  <2>2. CASE \E row \in run.queue : TakeRow(l, row)
    BY <1>0, <2>2, TakeRowHash
  <2>3. CASE TransferStep(l) /\ UNCHANGED <<jobVars, runs, acts>>
    BY <1>0, <2>3, TransferHash
  <2>4. CASE FinishRow(l)
    BY <1>0, <2>4, FinishRowHash
  <2> QED
    BY <2>1, <2>2, <2>3, <2>4 DEF LaneStep
<1>4. CASE \E f \in Folders, mode \in {"include", "exclude"} : ApplyRule(f, mode)
  BY <1>0, <1>4, ApplyRuleHash
<1>5. CASE FolderScanStep \/ Kill \/ SwitchAccount \/ Environment
  BY <1>0, <1>5, FolderScanHash, KillHash, SwitchHash, EnvironmentHash
<1>6. CASE UNCHANGED vars
  BY <1>0, <1>6, QuietStepHash DEF vars, inventoryVars, uploadVars, jobVars
<1> QED
  BY <1>1, <1>2, <1>3, <1>4, <1>5, <1>6 DEF Next

(* A row still to be sent never carries the hash of older bytes once a scan
   has seen the new ones, however edits, folder rules, folder scans, kills
   and uploads follow one another. *)
THEOREM HashesFresh == Spec => []HashFresh
<1>1. Init => BackupInv /\ HashInv
  BY InitInv, InitHash
<1>2. BackupInv /\ HashInv /\ [Next]_vars => (BackupInv /\ HashInv)'
  BY NextKeeps, NextHash
<1>3. HashInv => HashFresh
  BY DEF HashInv, RowSound, HashFresh, OnDevice
<1> QED
  BY <1>1, <1>2, <1>3, PTL DEF Spec
=============================================================================
