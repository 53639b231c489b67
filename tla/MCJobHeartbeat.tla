-------------------------- MODULE MCJobHeartbeat --------------------------
(***************************************************************************)
(* JobHeartbeat for TLC, with a bounded clock.                             *)
(***************************************************************************)
EXTENDS JobHeartbeat

CONSTANT MaxTime   \* bound on the clock

ClockBound == now <= MaxTime
=============================================================================
