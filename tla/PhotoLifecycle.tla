---------------------------- MODULE PhotoLifecycle ----------------------------
(***************************************************************************)
(* What the library promises about a photo, without workers, queues or     *)
(* storage: a reservation is either confirmed or dropped; a confirmed      *)
(* photo is worked on until it is ready or has failed; a failed one may be *)
(* worked on again, or a late success may replace the failure; a ready     *)
(* photo is not worked on again, and only the late failure of an attempt   *)
(* that another one overtook takes it back; and nothing but the owner's    *)
(* own request removes a photo that was confirmed.                         *)
(***************************************************************************)
CONSTANT Photo

VARIABLES
    phase,    \* where each photo is in its life
    unwanted  \* the photos their owner asked to drop

Phase == {"none", "reserved", "working", "ready", "failed", "removed"}

LifecycleTypeOK == phase \in [Photo -> Phase] /\ unwanted \in SUBSET Photo

Init == phase = [p \in Photo |-> "none"] /\ unwanted = {}

Move(p, from, to) ==
    /\ phase[p] \in from
    /\ phase' = [phase EXCEPT ![p] = to]
    /\ UNCHANGED unwanted

Reserve(p) == Move(p, {"none"}, "reserved")
Ingest(p) == Move(p, {"none"}, "working")
Confirm(p) == Move(p, {"reserved"}, "working")
Succeed(p) == Move(p, {"working", "failed"}, "ready")
Fail(p) == Move(p, {"working"}, "failed")
FailLate(p) == Move(p, {"ready"}, "failed")
Retry(p) == Move(p, {"failed"}, "working")
Expire(p) == Move(p, {"reserved"}, "removed")

Condemn(p) ==
    /\ phase[p] \notin {"none", "removed"}
    /\ unwanted' = unwanted \cup {p}
    /\ UNCHANGED phase

Remove(p) ==
    /\ p \in unwanted
    /\ Move(p, Phase \ {"none", "removed"}, "removed")

Next ==
    \E p \in Photo :
        \/ Reserve(p) \/ Ingest(p) \/ Confirm(p) \/ Succeed(p) \/ Fail(p) \/ FailLate(p)
        \/ Retry(p) \/ Expire(p)
        \/ Condemn(p) \/ Remove(p)

Spec == Init /\ [][Next]_<<phase, unwanted>>
=============================================================================
