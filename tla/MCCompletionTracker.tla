------------------------- MODULE MCCompletionTracker -------------------------
(* CompletionTracker for TLC: all the families of the registry, production's *)
(* protocol_turn among them, each with the kinds of items it tells apart.  *)
EXTENDS CompletionTracker
AllFamilies == Families
KindsOf ==
  [f \in Families |->
     CASE f = "anchored_session_stability" -> {"snapshot", "tool_result", "error", "cancel_info"}
       [] f = "protocol_turn" -> {"chunk", "snapshot", "boundary", "aborted", "error"}
       [] f = "session_boundary" -> {"chunk", "final", "boundary", "pane_dead"}
       [] f = "structured_result" -> {"chunk", "aborted", "result", "cancel_info"}
       [] f = "terminal_text_quiet" -> {"chunk", "tool_call", "result", "cancel_info"}]
RepliesOf ==
  [f \in Families |-> IF f = "anchored_session_stability" THEN {"r1", "r2"} ELSE {"r1"}]
=============================================================================
