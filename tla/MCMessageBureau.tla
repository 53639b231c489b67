-------------------------- MODULE MCMessageBureau --------------------------
(***************************************************************************)
(* MessageBureau for TLC: who asks whom.  "user" has no mailbox.           *)
(***************************************************************************)
EXTENDS MessageBureau

(* Two agents that ask each other. *)
MutualAgent  == (1 :> "a") @@ (2 :> "b")
MutualCaller == (1 :> "b") @@ (2 :> "a")

(* Agent a asks b and itself. *)
SelfAgent  == (1 :> "b") @@ (2 :> "a")
SelfCaller == (1 :> "a") @@ (2 :> "a")
=============================================================================
