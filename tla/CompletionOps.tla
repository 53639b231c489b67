---------------------------- MODULE CompletionOps ----------------------------
(***************************************************************************)
(* Deciding when a provider has answered (crate ccbr-completion): the       *)
(* detectors of the five completion families, the reply selector, and the   *)
(* tracker that joins one of each for a job, as functions from tracker to   *)
(* tracker.                                                                *)
(*                                                                         *)
(* An item of a provider is [kind, text, done, status]: `text` is the reply *)
(* its payload carries, `done` the done marker of a quiet terminal,         *)
(* `status` the verdict of an abort or, for a snapshot, whether tools run.  *)
(***************************************************************************)
EXTENDS Integers, Sequences, FiniteSets, SequencesExt, FiniteSetsExt

CONSTANTS
  NoText,         \* the empty reply
  NoTime,         \* absence of a timestamp
  Settle,         \* settle_window_s of the anchored detector
  RequestTimeout  \* request_timeout_s of the tracker; 0 disables it

ASSUME CompletionAssumption == Settle \in Nat /\ RequestTimeout \in Nat

Families == {"protocol_turn", "session_boundary", "structured_result",
             "anchored_session_stability", "terminal_text_quiet"}
ItemKinds == {"anchor_seen", "chunk", "final", "result", "tool_call", "tool_result",
              "rotate", "snapshot", "boundary", "aborted", "cancel_info", "error",
              "pane_dead"}
Statuses  == {"completed", "failed", "incomplete", "cancelled"}

-----------------------------------------------------------------------------
(* Detectors. *)

Pending              == [terminal |-> FALSE, status |-> "incomplete", reply |-> NoText]
Decided(status, txt) == [terminal |-> TRUE, status |-> status, reply |-> txt]

(* bind: `started` a reply was seen, `hash` and `since` the last reply and  *)
(* the time from which it is unchanged.                                    *)
NewDetector(family) ==
  [family |-> family, started |-> FALSE, tool |-> FALSE,
   hash |-> <<>>, since |-> NoTime, decision |-> Pending]

Fingerprint(x) == <<x>>   \* a digest: equal only for equal texts, never its own digest

(* The items whose text counts as a reply of the turn. *)
ReplyKinds(family) ==
  CASE family = "protocol_turn"    -> {"chunk", "final", "result", "boundary", "aborted"}
    [] family = "session_boundary" -> {"chunk", "final", "boundary"}
    [] family = "anchored_session_stability" -> {"snapshot"}
    [] OTHER -> {"chunk", "final", "result"}

ConsumeCommonItem(d, i) ==
  CASE i.kind = "tool_call"   -> [d EXCEPT !.tool = TRUE]
    [] i.kind = "tool_result" -> [d EXCEPT !.tool = FALSE]
    [] i.kind = "rotate"      -> [d EXCEPT !.started = FALSE, !.tool = FALSE,
                                           !.hash = <<>>, !.since = NoTime]
    [] OTHER -> d

RecordReply(d, txt) ==
  IF txt = NoText THEN d ELSE [d EXCEPT !.started = TRUE, !.hash = Fingerprint(txt)]

(* Mutant: the time of the first snapshot counts, later ones change nothing. *)
RecordFirstSnapshot(d, i, now) ==
  IF i.text = NoText \/ d.since # NoTime THEN d
  ELSE [RecordReply(d, Fingerprint(i.text)) EXCEPT !.since = now]

(* The recorded hash is a digest of the fingerprint it is compared with. *)
RecordSnapshot(d, i, now) ==
  LET c == [d EXCEPT !.tool = (i.status = "tools")]
  IN  IF i.text = NoText \/ c.hash = Fingerprint(i.text) THEN c
      ELSE [RecordReply(c, Fingerprint(i.text)) EXCEPT !.since = now]

Record(d, i, now) ==
  IF i.kind \notin ReplyKinds(d.family) THEN d
  ELSE IF i.kind = "snapshot" THEN RecordSnapshot(d, i, now)
  ELSE RecordReply(d, i.text)

(* The verdict an item gives, if any. *)
Verdict(d, i) ==
  CASE i.kind \in {"error", "pane_dead"} -> {"failed"}
    [] i.kind = "cancel_info"
       /\ d.family \notin {"protocol_turn", "session_boundary"} -> {"cancelled"}
    [] i.kind = "aborted" /\ d.family \in {"protocol_turn", "structured_result"} -> {i.status}
    [] i.kind = "boundary" /\ d.family = "session_boundary" -> {"completed"}
    [] i.kind = "boundary" /\ d.family = "protocol_turn" ->
         {IF d.started THEN "completed" ELSE "incomplete"}
    [] i.kind = "result" /\ d.family = "structured_result" -> {"completed"}
    [] i.kind \in {"chunk", "final", "result"} /\ i.done
       /\ d.family = "terminal_text_quiet" -> {"completed"}
    [] OTHER -> {}

(* ingest: an item without a verdict makes the decision pending again, a    *)
(* snapshot without text leaves it alone.                                  *)
Ingest(d, i, now) ==
  LET c == Record(ConsumeCommonItem(d, i), i, now)
      v == Verdict(c, i)
      reply == IF i.kind \in ReplyKinds(d.family) THEN i.text ELSE NoText
  IN  IF v # {} THEN [c EXCEPT !.decision = Decided(CHOOSE s \in v : TRUE, reply)]
      ELSE IF d.family = "anchored_session_stability"
              /\ i.kind = "snapshot" /\ i.text = NoText THEN c
      ELSE [c EXCEPT !.decision = Pending]

TickDetector(d, now) ==
  IF \/ d.family # "anchored_session_stability" \/ d.decision.terminal
     \/ ~d.started \/ d.since = NoTime THEN d
  ELSE IF ~d.tool /\ now - d.since >= Settle
  THEN [d EXCEPT !.decision = Decided("completed", NoText)]
  ELSE [d EXCEPT !.decision = Pending]

(* Only two detectors override the empty default of the trait. *)
FinalizeTimeout(d) ==
  IF d.decision.terminal THEN d
  ELSE CASE d.family = "terminal_text_quiet" ->
              [d EXCEPT !.decision = Decided(IF d.started THEN "completed" ELSE "incomplete",
                                             NoText)]
         [] d.family = "anchored_session_stability" ->
              [d EXCEPT !.decision = Decided("incomplete", NoText)]
         [] OTHER -> d

-----------------------------------------------------------------------------
(* Reply selection.  Of the candidates of a kind only the newest can be     *)
(* chosen, so a selector is a function from priority to the newest text.   *)

Priorities == 2..6
NoCandidates == [p \in Priorities |-> NoText]

Priority(kind) == CASE kind \in {"boundary", "aborted"} -> 2   \* last_agent_message
                    [] kind = "result"   -> 3 [] kind = "final"    -> 4
                    [] kind = "chunk"    -> 5 [] kind = "snapshot" -> 6
                    [] OTHER -> 0
IngestCandidate(cs, i) ==
  IF i.text = NoText \/ Priority(i.kind) = 0 THEN cs
  ELSE [cs EXCEPT ![Priority(i.kind)] = i.text]

BestCandidate(cs) ==
  LET ps == {p \in Priorities : cs[p] # NoText}
  IN  IF ps = {} THEN NoText ELSE cs[Min(ps)]

-----------------------------------------------------------------------------
(* CompletionTrackerService: one tracker. *)

StartTracker(family, now) ==
  [detector |-> NewDetector(family), candidates |-> NoCandidates, started |-> now]

(* Mutant: the candidates of the old session are kept. *)
IngestKeeping(t, i, now) ==
  [t EXCEPT !.candidates = IngestCandidate(@, i), !.detector = Ingest(@, i, now)]

IngestItem(t, i, now) ==
  [t EXCEPT !.candidates = IngestCandidate(IF i.kind = "rotate" THEN NoCandidates ELSE @, i),
            !.detector   = Ingest(@, i, now)]

(* The tracker after each of the items an update brings. *)
IngestRounds(t, items, now) ==
  LET after[n \in 0..Len(items)] ==
        IF n = 0 THEN t ELSE IngestItem(after[n - 1], items[n], now)
  IN  after
IngestAll(t, items, now) == IngestRounds(t, items, now)[Len(items)]

TickTracker(t, now) ==
  LET d == TickDetector(t.detector, now)
  IN  [t EXCEPT !.detector =
         IF RequestTimeout > 0 /\ ~d.decision.terminal /\ now - t.started >= RequestTimeout
         THEN FinalizeTimeout(d) ELSE d]

(* current: an empty reply is replaced by the best candidate. *)
CurrentDecision(t) ==
  LET d == t.detector.decision
  IN  [d EXCEPT !.reply = IF @ = NoText THEN BestCandidate(t.candidates) ELSE @]

(* Mutant: the adapter's decision comes first. *)
AdapterFirst(t, decision) == IF decision.terminal THEN decision ELSE CurrentDecision(t)

(* Mutant: the tracker is not asked. *)
AdapterOnly(t, decision) == decision

(* heartbeat: a terminal tracker overrides what the adapter decided. *)
EffectiveDecision(t, decision) ==
  IF t.detector.decision.terminal THEN CurrentDecision(t) ELSE decision
=============================================================================
