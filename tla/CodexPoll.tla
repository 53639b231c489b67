------------------------------ MODULE CodexPoll ------------------------------
(***************************************************************************)
(* One running codex job under the daemon's heartbeat: the adapter of       *)
(* providers/codex.rs polls the session logs codex writes, looks for the    *)
(* turn that carries the job's request anchor and feeds what it reads to    *)
(* the completion tracker.  The log grows line by line and may be read in   *)
(* the middle of one, codex may change its session log, the anchor may be   *)
(* found in another log, the pane may speak before the log, and the daemon  *)
(* may be restarted.                                                       *)
(*                                                                         *)
(* The log is codex's and external.  An entry is its kind; the text of one  *)
(* is <<log, position>>.  An entry has length 2 and half of it is 1, so an  *)
(* offset may fall inside a line; a line may end inside a character too,    *)
(* and then it cannot be read at all.                                      *)
(***************************************************************************)
EXTENDS CompletionOps

Openers    == {"anchor", "user"}   \* the prompt of this request, of another one
Aborts     == {"aborted", "abortedMsg", "failed", "failedMsg"}
Terminals  == {"done", "doneMsg"} \cup Aborts
Telling    == {"doneMsg", "abortedMsg", "failedMsg"}   \* with a message
EntryKinds == Openers \cup {"said", "final"} \cup Terminals

CONSTANTS
  Logs,          \* the session logs of the workspace
  Pane,          \* the text of the pane; it is fed to every poll
  Kinds,         \* the kinds of entries codex writes
  MaxEntries,    \* bound: entries of all logs, session_meta lines not counted
  MaxTorn,       \* bound: lines read while half written
  MaxRotations,  \* bound: changes of the session log
  MaxRestarts    \* bound: orderly restarts of the daemon

ASSUME CodexAssumption ==
  /\ IsFiniteSet(Logs) /\ Logs # {} /\ "none" \notin Logs
  /\ Pane # NoText /\ NoText \notin Logs \X Nat
  /\ Kinds \subseteq EntryKinds
  /\ {MaxEntries, MaxTorn, MaxRotations, MaxRestarts} \subseteq Nat

VARIABLES
  logs,       \* the entries of each log; <<>> is no file
  half,       \* the logs whose last line is only partly written
  cut,        \* those of them that end inside a character
  current,    \* the session file's log
  sub,        \* the active submission; every poll that changes it saves it
  pending,    \* the items saved with it: those of that poll
  replay,     \* pending_replays: items of a restored job
  tracker,    \* its completion tracker, NoTime if there is none
  job,        \* how the job ended
  torn,       \* history: entries that were read while half written
  anchored,   \* history: an anchor was reported
  astray,     \* history: the log is read again from its start, the anchor kept
  rotations, restarts  \* history: counters of the bounds

vars == <<logs, half, cut, current, sub, pending, replay, tracker, job,
          torn, anchored, astray, rotations, restarts>>
provider == <<logs, half, cut, current, rotations>>
past     == <<torn, anchored, astray>>

Running == [status |-> "running", reply |-> NoText, by |-> "none"]
NoLog   == "none"

(* start_active_submission *)
StartSubmission(l) ==
  [log |-> l, offset |-> 0, anchor |-> FALSE, accepted |-> FALSE,
   fallback |-> NoLog, final |-> NoText, said |-> NoText]

Init ==
  /\ logs = [l \in Logs |-> <<>>] /\ half = {} /\ cut = {}
  /\ current \in Logs
  /\ sub = StartSubmission(current)
  /\ pending = <<>> /\ replay = <<>>
  /\ tracker = StartTracker("protocol_turn", 0) /\ job = Running
  /\ torn = {} /\ anchored = FALSE /\ astray = FALSE /\ rotations = 0 /\ restarts = 0

-----------------------------------------------------------------------------
(* Reading a log. *)

Length(l) == 2 * Len(logs[l]) - (IF l \in half THEN 1 ELSE 0)
Complete(l) == {i \in DOMAIN logs[l] : l \notin half \/ i < Len(logs[l])}

(* current_log_has_unread_data, which current_log_is_drained negates *)
Unread(l, offset) == l \in cut \/ Length(l) > offset

(* read_log_entries: the lines that begin at or after the offset.  A line   *)
(* that is not whole does not parse, and neither does the rest of it in a   *)
(* later read: the new offset is the end of the file.  A file that ends     *)
(* inside a character fails to be read, which poll_submission takes for no  *)
(* entries and the offset 0.                                               *)
ReadLogEntries(l, offset) ==
  [j \in 1..Cardinality({i \in Complete(l) : l \notin cut /\ 2 * (i - 1) >= offset}) |->
     LET i == j + (offset + 1) \div 2 IN [kind |-> logs[l][i], text |-> <<l, i>>]]

NewOffset(l) == IF l \in cut THEN 0 ELSE Length(l)

TornBy(l, offset) ==
  {<<l, i>> : i \in {i \in DOMAIN logs[l] \ Complete(l) : l \notin cut /\ 2 * (i - 1) >= offset}}

(* log_contains_request_anchor: `guess` are the logs whose half-written     *)
(* anchor line already shows the anchor.                                   *)
HasAnchor(l, guess) ==
  \E i \in DOMAIN logs[l] : logs[l][i] = "anchor" /\ (i \in Complete(l) \/ l \in guess)

(* Mutant: the newest other log, whatever is in it. *)
OtherLogs(s, guess) ==
  LET found == {l \in Logs \ {current} : logs[l] # <<>>}
  IN  IF s.anchor \/ Unread(current, s.offset) \/ Cardinality(found) # 1 THEN {} ELSE found

(* anchor_fallback_log: the only other log with the anchor, if the current  *)
(* log is drained.  The offset is that of the log polled last.             *)
AnchorFallbackLogs(s, guess) ==
  LET found == {l \in Logs \ {current} : HasAnchor(l, guess)}
  IN  IF s.anchor \/ Unread(current, s.offset) \/ Cardinality(found) # 1 THEN {} ELSE found

(* active_anchor_fallback_log, or else anchor_fallback_log *)
FallbackLogs(s, guess) ==
  IF s.fallback # NoLog THEN {s.fallback} ELSE AnchorFallbackLogs(s, guess)

(* refresh_runtime_state: a fallback other than the polled log is kept for  *)
(* good, a log other than the polled one is read from its start.           *)
RefreshRuntimeState(s, guess) ==
  LET fb     == FallbackLogs(s, guess)
      target == IF fb # {} THEN CHOOSE l \in fb : TRUE ELSE current
      kept   == IF fb # {} /\ target # s.log THEN target ELSE s.fallback
  IN  IF target = s.log THEN s
      ELSE [s EXCEPT !.log = target, !.offset = 0, !.fallback = kept]

-----------------------------------------------------------------------------
(* A poll. *)

Item(kind, txt, status) == [kind |-> kind, text |-> txt, done |-> FALSE, status |-> status]

(* build_poll_state *)
PollState(s, buffer) ==
  [anchor |-> s.anchor, final |-> s.final, said |-> s.said, message |-> NoText,
   buffer |-> buffer, items |-> <<>>, ended |-> "no"]

(* Mutant: what was said in the old session is kept. *)
RotateKeeping(p, old, new) ==
  IF old = new THEN p
  ELSE [p EXCEPT !.anchor = FALSE, !.items = <<Item("rotate", NoText, "none")>>]

(* apply_session_rotation *)
SessionRotation(p, old, new) ==
  IF old = new THEN p
  ELSE [p EXCEPT !.anchor = FALSE, !.final = NoText, !.said = NoText, !.buffer = NoText,
                 !.items = <<Item("rotate", NoText, "none")>>]

(* selected_reply *)
SelectedReply(p) ==
  IF p.message # NoText THEN p.message
  ELSE IF p.final # NoText THEN p.final
  ELSE IF p.said # NoText THEN p.said ELSE p.buffer

AbortStatus(kind) == IF kind \in {"aborted", "abortedMsg"} THEN "cancelled" ELSE "failed"

HandleUserEntry(p) ==
  IF p.anchor THEN p
  ELSE [p EXCEPT !.anchor = TRUE, !.items = Append(@, Item("anchor_seen", NoText, "none"))]

HandleAssistantEntry(p, e) ==
  [p EXCEPT !.said  = e.text,
            !.final = IF e.kind = "final" THEN e.text ELSE @,
            !.items = Append(@, Item("chunk", e.text, "none"))]

(* task_complete_payload, turn_aborted_payload: the tracker takes the       *)
(* message of an aborted turn for its reply if nothing was said.           *)
HandleTerminalEntry(p, e) ==
  LET q == [p EXCEPT !.message = IF e.kind = "doneMsg" THEN e.text ELSE @, !.ended = e.kind]
      reply == SelectedReply(q)
      error == IF reply = NoText /\ e.kind \in Telling THEN e.text ELSE reply
  IN  [q EXCEPT !.items = Append(@,
         IF e.kind \in Aborts THEN Item("aborted", error, AbortStatus(e.kind))
         ELSE Item("boundary", reply, "none"))]

(* The loop of poll_submission: nothing counts before the anchor, nothing   *)
(* after the end of the turn.                                              *)
HandleEntry(p, e) ==
  IF p.ended # "no" \/ e.kind \in {"meta", "user"} THEN p
  ELSE IF e.kind = "anchor" THEN HandleUserEntry(p)
  ELSE IF ~p.anchor THEN p
  ELSE IF e.kind \in Terminals THEN HandleTerminalEntry(p, e)
  ELSE HandleAssistantEntry(p, e)

ReadRounds(p, entries) ==
  LET after[n \in 0..Len(entries)] ==
        IF n = 0 THEN p ELSE HandleEntry(after[n - 1], entries[n])
  IN  after
ReadAll(p, entries) == ReadRounds(p, entries)[Len(entries)]

(* finalize_poll_result, build_terminal_decision *)
TerminalDecision(p) ==
  IF p.ended = "no" THEN Pending
  ELSE Decided(IF p.ended \in Aborts /\ AbortStatus(p.ended) = "cancelled" THEN "cancelled"
               ELSE "completed", SelectedReply(p))

-----------------------------------------------------------------------------
(* A heartbeat: feed, poll, tracker, end of the job. *)

(* Mutant: the guard knows this session and this log only. *)
DeliveryFailedHere(s, guess) ==
  ~s.anchor /\ logs[current] # <<>> /\ ~Unread(current, s.offset)

(* delivery_acceptance_guard when the pane shows that codex exited or the   *)
(* delivery timeout has elapsed.  Either may be so at any poll or not: a    *)
(* poll that could fail the delivery could also go on.                     *)
DeliveryFailed(s, guess) ==
  /\ ~s.anchor /\ ~s.accepted
  /\ logs[current] # <<>> /\ ~Unread(current, s.offset)
  /\ FallbackLogs(s, guess) = {}

(* The tracker takes the items; its verdict overrides the adapter's.  The   *)
(* submission of a job that ended is removed.                              *)
Conclude(next, items, decision, by) ==
  LET start == IF tracker = NoTime THEN StartTracker("protocol_turn", 0) ELSE tracker
      t == TickTracker(IngestAll(start, items, 0), 0)
      d == EffectiveDecision(t, decision)
  IN  IF items = <<>> /\ ~decision.terminal THEN UNCHANGED <<tracker, job>> /\ sub' = next
      ELSE IF d.terminal THEN /\ job' = [status |-> d.status, reply |-> d.reply, by |-> by]
                              /\ tracker' = NoTime /\ sub' = StartSubmission(NoLog)
      ELSE tracker' = t /\ job' = job /\ sub' = next

(* drain_pending_replays: a job with a replay is not polled. *)
DeliverReplay ==
  /\ job = Running /\ replay # <<>>
  /\ Conclude(sub, replay, Pending, "log") /\ replay' = <<>>
  /\ UNCHANGED <<provider, pending, past, restarts>>

FailDelivery ==
  /\ job = Running /\ replay = <<>>
  /\ \E guess \in SUBSET (half \ cut) : DeliveryFailed(sub, guess)
  /\ Conclude(sub, <<Item("error", NoText, "none")>>, Decided("failed", NoText), "delivery")
  /\ UNCHANGED <<provider, pending, replay, past, restarts>>

(* poll_submission after the guard, for the pane text `buffer`. *)
PollLogs(s, buffer) ==
  ReadAll(SessionRotation(PollState(sub, buffer), sub.log, s.log),
          ReadLogEntries(s.log, s.offset))

(* finalize_poll_result: no item, no new offset. *)
Nothing(p, s) == p.items = <<>> /\ NewOffset(s.log) = s.offset

(* Everything a poll finds is persisted, whether or not it is an update. *)
PollSession ==
  /\ job = Running /\ replay = <<>>
  /\ \E guess \in SUBSET (half \ cut), buffer \in {NoText, Pane} :
       LET s == RefreshRuntimeState(sub, guess)
           p == PollLogs(s, buffer)
           next == [s EXCEPT !.offset = NewOffset(s.log), !.anchor = p.anchor,
                             !.accepted = @ \/ p.anchor, !.final = p.final, !.said = p.said]
       IN  /\ ~Nothing(p, s)
           /\ Cardinality(torn \cup TornBy(s.log, s.offset)) <= MaxTorn
           /\ pending' = p.items
           /\ torn' = torn \cup TornBy(s.log, s.offset)
           /\ anchored' = (anchored \/ p.anchor)
           /\ astray' = (s.log = sub.log /\ (astray \/ (s.log \in cut /\ sub.anchor)))
           /\ Conclude(next, p.items, TerminalDecision(p), "log")
  /\ UNCHANGED <<provider, replay, restarts>>

(* poll_pane_text_completion_codex: the log says nothing and the pane shows *)
(* the prompt of codex.                                                    *)
PollPane ==
  /\ job = Running /\ replay = <<>>
  /\ \E guess \in SUBSET (half \ cut) :
       LET s == RefreshRuntimeState(sub, guess) IN Nothing(PollLogs(s, Pane), s)
  /\ Conclude(sub, <<>>, Decided("completed", Pane), "pane")
  /\ UNCHANGED <<provider, pending, replay, past, restarts>>

(* shutdown, restore_running_jobs: the submission and the items of its last *)
(* poll come back, the tracker does not.                                   *)
Restart ==
  /\ job = Running /\ restarts < MaxRestarts /\ restarts' = restarts + 1
  /\ replay' = pending /\ tracker' = NoTime
  /\ UNCHANGED <<provider, sub, pending, job, past>>

-----------------------------------------------------------------------------
(* Codex and its hooks. *)

Entries == UNION {{l} \X (2..Len(logs[l])) : l \in Logs}   \* without the session_meta lines

(* What codex may write next: a log begins with its session_meta, a turn    *)
(* with a prompt, and a prompt waits for the end of the turn before.       *)
NextKinds(l) ==
  IF logs[l] = <<>> THEN {"meta"}
  ELSE IF Cardinality(Entries) >= MaxEntries THEN {}
  ELSE Kinds \cap (IF Last(logs[l]) \in Terminals \cup {"meta"} THEN Openers
                   ELSE EntryKinds \ Openers)

(* A line is written in one piece or in several, which may end anywhere.    *)
Write ==
  /\ job = Running
  /\ \E l \in Logs \ half, whole \in BOOLEAN :
       /\ \E k \in NextKinds(l) : logs' = [logs EXCEPT ![l] = Append(@, k)]
       /\ whole \/ logs[l] # <<>>
       /\ half' = IF whole THEN half ELSE half \cup {l}
  /\ UNCHANGED <<cut, current, rotations, sub, pending, replay, tracker, job, past, restarts>>

WriteMore ==
  /\ job = Running
  /\ \E l \in half : cut' = IF l \in cut THEN cut \ {l} ELSE cut \cup {l}
  /\ UNCHANGED <<logs, half, current, rotations, sub, pending, replay, tracker, job, past, restarts>>

WriteRest ==
  /\ job = Running /\ \E l \in half : half' = half \ {l} /\ cut' = cut \ {l}
  /\ UNCHANGED <<logs, current, rotations, sub, pending, replay, tracker, job, past, restarts>>

ChangeSession ==
  /\ job = Running /\ rotations < MaxRotations /\ rotations' = rotations + 1
  /\ current' \in Logs \ {current}
  /\ UNCHANGED <<logs, half, cut, sub, pending, replay, tracker, job, past, restarts>>

Poll == DeliverReplay \/ FailDelivery \/ PollSession \/ PollPane
Next == Poll \/ Restart \/ Write \/ WriteMore \/ WriteRest \/ ChangeSession

Spec == Init /\ [][Next]_vars

-----------------------------------------------------------------------------
(* Properties. *)

Texts == (Logs \X (1..MaxEntries + 1)) \cup {NoText, Pane}

(* A log that is read instead of the current one has the anchor in it. *)
TypeOK ==
  /\ sub.fallback # NoLog => HasAnchor(sub.fallback, half)
  /\ job = Running => sub.log \in Logs /\ sub.offset \in 0..Length(sub.log)
  /\ sub.final \in Texts
  /\ (sub.anchor => sub.accepted) /\ (sub.accepted => anchored)
  /\ job.reply \in Texts /\ job.status \in Statuses \cup {"running"}

(* What one reading of a whole log finds, but for the lines `lost`: the     *)
(* first end of a turn after the first anchor, and the reply of that turn.  *)
Answers(l, lost) ==
  LET seen(kinds) == {i \in DOMAIN logs[l] : logs[l][i] \in kinds /\ i \notin lost}
      after(i, kinds) == {j \in seen(kinds) : j > i}
      anchor == Min(seen({"anchor"}))
      end    == Min(after(anchor, Terminals))
      turn(kinds) == {j \in after(anchor, kinds) : j < end}
      reply  == IF logs[l][end] = "doneMsg" THEN {<<l, end>>}
                ELSE IF turn({"final"}) # {} THEN {<<l, Max(turn({"final"}))>>}
                ELSE IF turn({"said"})  # {} THEN {<<l, Max(turn({"said"}))>>}
                ELSE {Pane, IF logs[l][end] \in Telling THEN <<l, end>> ELSE NoText}
      status(r) == IF logs[l][end] \in Aborts THEN AbortStatus(logs[l][end])
                   ELSE IF r = NoText THEN "incomplete" ELSE "completed"
  IN  IF seen({"anchor"}) = {} \/ after(anchor, Terminals) = {} THEN {}
      ELSE {[status |-> status(r), reply |-> r, by |-> "log"] : r \in reply}

(* A job that its log ends gets exactly the answer one reading of one whole *)
(* log would give, however the polls cut the log, the session changed, the  *)
(* anchor was found elsewhere or the daemon was restarted; only a line that *)
(* was read while half written may be missing.  It is not so once a read    *)
(* failed after the anchor: the log is read again from its start with the   *)
(* anchor still seen, and the answer may be that of an earlier turn.  Reads *)
(* that fail before the anchor, or in a log that is left, do no harm.      *)
AnswerMatchesLog ==
  job.by = "log" /\ ~astray =>
    \E l \in Logs : \E lost \in SUBSET {i \in 1..MaxEntries + 1 : <<l, i>> \in torn} :
      job \in Answers(l, lost)

(* Once the anchor was reported the delivery of the prompt never fails,     *)
(* although a change of session forgets that the anchor was seen.          *)
DeliveredStaysDelivered == job.by = "delivery" => ~anchored
=============================================================================
