-------------------------- MODULE DeliveryContract --------------------------
(***************************************************************************)
(* What the delivery queue of notify promises about one delivery, without  *)
(* leases, attempts, batches or clocks: it is queued once; a provider may  *)
(* take its message while it is queued, or after its row was erased under  *)
(* a pass that had already read it; it settles once, as sent only after a  *)
(* provider took it; a settled delivery neither changes nor goes out       *)
(* again.  Dispatch implements this when no lease is overrun.              *)
(***************************************************************************)
EXTENDS Naturals

CONSTANT Delivery

VARIABLES
  status,  \* where each delivery stands
  taken    \* how often a provider took its message

vars == <<status, taken>>

Init ==
  /\ status = [d \in Delivery |-> "absent"]
  /\ taken = [d \in Delivery |-> 0]

Queue(d) ==
  /\ status[d] = "absent"
  /\ status' = [status EXCEPT ![d] = "queued"]
  /\ UNCHANGED taken

Take(d) ==
  /\ status[d] \in {"queued", "gone"}
  /\ taken' = [taken EXCEPT ![d] = @ + 1]
  /\ UNCHANGED status

Settle(d, verdict) ==
  /\ status[d] = "queued"
  /\ verdict = "sent" => taken[d] > 0
  /\ status' = [status EXCEPT ![d] = verdict]
  /\ UNCHANGED taken

Erase(ids) ==
  /\ \A d \in ids : status[d] \in {"queued", "sent", "failed"}
  /\ status' = [d \in Delivery |-> IF d \in ids THEN "gone" ELSE status[d]]
  /\ UNCHANGED taken

Next ==
  \/ \E d \in Delivery : Queue(d) \/ Take(d)
  \/ \E d \in Delivery, verdict \in {"sent", "failed"} : Settle(d, verdict)
  \/ \E ids \in SUBSET Delivery : Erase(ids)

Spec == Init /\ [][Next]_vars
=============================================================================
