--------------------------- MODULE MCJobLifecycle ---------------------------
(* JobLifecycle for TLC: all jobs are for the same agent, which may be       *)
(* served or not.                                                          *)
EXTENDS JobLifecycle

OneAgent == [j \in Jobs |-> "a"]
=============================================================================
