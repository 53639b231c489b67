---------------------------- MODULE FifoDelivery ----------------------------
(***************************************************************************)
(* What a mailbox promises, with leases, summaries and files left out:     *)
(* events arrive in an order, are delivered one at a time and only when     *)
(* every event that arrived earlier is finished, and a finished event stays *)
(* finished.                                                               *)
(***************************************************************************)
EXTENDS Integers

CONSTANT Events

VARIABLES
  stage,  \* stage[e]: where event e is in its life
  rank    \* rank[e]: arrival order of e, 0 before it arrives

vars == <<stage, rank>>

Stages == {"new", "waiting", "delivering", "done"}

Init == /\ stage = [e \in Events |-> "new"]
        /\ rank  = [e \in Events |-> 0]

(* An event arrives behind every event that arrived before it. *)
Arrive(e) ==
  /\ stage[e] = "new"
  /\ stage' = [stage EXCEPT ![e] = "waiting"]
  /\ rank' = [rank EXCEPT ![e] = rank'[e]]
  /\ rank'[e] \in Nat
  /\ \A f \in Events : rank[f] < rank'[e]

(* Delivery starts when nothing else is being delivered and every event     *)
(* that arrived earlier is done.                                           *)
Start(e) ==
  /\ stage[e] = "waiting"
  /\ \A f \in Events : stage[f] # "delivering"
  /\ \A f \in Events : stage[f] = "waiting" => rank[e] <= rank[f]
  /\ stage' = [stage EXCEPT ![e] = "delivering"]
  /\ UNCHANGED rank

(* An event may be finished without having been delivered (cancelled, or    *)
(* consumed by a job the dispatcher started by itself).                    *)
Finish(e) ==
  /\ stage[e] \in {"waiting", "delivering"}
  /\ stage' = [stage EXCEPT ![e] = "done"]
  /\ UNCHANGED rank

(* A delivery is taken back: the event waits again at its old place. *)
Requeue(e) ==
  /\ stage[e] = "delivering"
  /\ stage' = [stage EXCEPT ![e] = "waiting"]
  /\ UNCHANGED rank

Next == \E e \in Events : Arrive(e) \/ Start(e) \/ Finish(e) \/ Requeue(e)

Spec == Init /\ [][Next]_vars
=============================================================================
