----------------------------- MODULE MCCodexPoll -----------------------------
(* Small instances of CodexPoll. *)
EXTENDS CodexPoll, TLC

(* The logs differ only in what is written to them and in which is current. *)
AnyLog == Permutations(Logs)
=============================================================================
