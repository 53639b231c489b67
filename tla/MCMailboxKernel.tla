-------------------------- MODULE MCMailboxKernel --------------------------
(***************************************************************************)
(* MailboxKernel for TLC: the events are model values of the configuration  *)
(* and the lease versions, which grow each time an event is requeued and    *)
(* claimed again, are bounded.  Events of one type are interchangeable.    *)
(***************************************************************************)
EXTENDS MailboxKernel, TLC

CONSTANT MaxLeases   \* bound on the lease version

LeaseBound == granted <= MaxLeases
Symmetry   == Permutations(Replies) \cup Permutations(Events \ Replies)
=============================================================================
