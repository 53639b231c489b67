-------------------------- MODULE CompletionTracker --------------------------
(***************************************************************************)
(* The completion tracker of one job under the daemon's heartbeat (app.rs   *)
(* heartbeat, tracker.rs): heartbeats bring what the provider's adapter     *)
(* polled, or nothing; the tracker takes the items one by one, is ticked,   *)
(* and its decision ends the job.  Where it has none the adapter's decision *)
(* does.  The daemon may be restarted in between and then starts a new      *)
(* tracker at the next update.                                             *)
(***************************************************************************)
EXTENDS CompletionOps

CONSTANTS
  TrackedFamilies,  \* the families a tracker is started with
  Kinds,            \* the kinds of items the providers of a family emit
  Replies,          \* the replies they give; a text belongs to a session
  Outcomes,         \* what their adapters decide
  MaxSessions,      \* bound: provider sessions
  MaxClock,         \* bound: the clock
  MaxRestarts,      \* bound: restarts of the daemon
  NoTracker         \* absence of a tracker

ASSUME TrackerAssumption ==
  /\ TrackedFamilies \subseteq Families /\ Kinds \in [Families -> SUBSET ItemKinds]
  /\ DOMAIN Replies = Families /\ NoTracker \notin Families /\ Outcomes \subseteq Statuses
  /\ MaxSessions \in Nat \ {0} /\ {MaxClock, MaxRestarts} \subseteq Nat

VARIABLES
  family,   \* completion family of the job's provider
  known,    \* the tracker's configuration names the job's agent
  job,      \* the status of the job, its reply, and how it ended
  tracker,  \* trackers[job]: in memory only
  clock,    \* seconds
  beat,     \* time of the last heartbeat
  session,  \* the session the provider is in
  stable,   \* history: time of the last snapshot that changed the reply
  shown,    \* history: the reply of the last snapshot of this session and daemon
  restarts  \* history: restarts of the daemon

vars == <<family, known, job, tracker, clock, beat, session, stable, shown, restarts>>

Texts == {<<s, r>> : s \in 1..MaxSessions, r \in Replies[family]}

(* `by` says whose decision ended the job, `last` the kind of the last item *)
(* of the update that did.                                                 *)
Running == [status |-> "running", reply |-> NoText, by |-> "nobody", last |-> "nothing"]

(* start: there is no tracker for an agent that the configuration, which is *)
(* the one of the daemon's start, does not name.                           *)
Tracker(now) == IF known THEN StartTracker(family, now) ELSE NoTracker

Init == /\ family \in TrackedFamilies /\ known \in BOOLEAN
        /\ job = Running
        /\ tracker = Tracker(0)   \* started with the job by a heartbeat
        /\ clock = 0 /\ beat = 0 /\ session = 1
        /\ stable = 0 /\ shown = NoText /\ restarts = 0

-----------------------------------------------------------------------------
(* The items of a session.  The texts of all of them are those of the       *)
(* session, a boundary may come without.                                   *)
Said(s) == {<<s, r>> : r \in Replies[family]}
ItemsOf(kinds, texts, done, statuses) ==
  {i \in [kind : kinds, text : texts, done : done, status : statuses] : i.kind \in Kinds[family]}

ProgressItems(s) ==
  ItemsOf({"chunk", "final"}, Said(s), {FALSE}, {"none"})
  \cup ItemsOf({"snapshot"}, Said(s) \cup {NoText}, {FALSE}, {"none", "tools"})
  \cup ItemsOf({"anchor_seen", "tool_call", "tool_result"}, {NoText}, {FALSE}, {"none"})
EndItems(s) ==
  ItemsOf({"boundary"}, Said(s) \cup {NoText}, {FALSE}, {"none"})
  \cup ItemsOf({"aborted"}, Said(s) \cup {NoText}, {FALSE}, {"cancelled", "failed"})
  \cup ItemsOf({"result"}, Said(s), BOOLEAN, {"none"})
  \cup ItemsOf({"error", "pane_dead", "cancel_info"}, {NoText}, {FALSE}, {"none"})
Rotate == [kind |-> "rotate", text |-> NoText, done |-> FALSE, status |-> "none"]

(* An adapter stops at the item that ends the turn: it is the last of a     *)
(* batch.  A change of session comes first.  No item at all comes with a    *)
(* decision, or after a change of session.                                 *)
Batches(s) == {<<>>} \cup {<<i>> : i \in ProgressItems(s) \cup EndItems(s)}
              \cup {<<i, j>> : i \in ProgressItems(s), j \in EndItems(s)}

(* The adapter's own decision.  Each adapter has reasons of its own: a      *)
(* boundary (codex, opencode, kimi), a done marker in an answer or a        *)
(* snapshot (gemini, qwen, droid), a hook or the text of the pane (claude), *)
(* a process or a pane that went quiet, a timeout.  So it may come with any *)
(* items or none, with any outcome, and with any text it has seen.         *)
AdapterDecisions ==
  {Pending} \cup {Decided(st, txt) : st \in Outcomes, txt \in Texts \cup {NoText}}

(* What the history variables see of a batch. *)
Snapshots(items) ==
  {n \in DOMAIN items : items[n].kind = "snapshot" /\ items[n].text # NoText
                        /\ family = "anchored_session_stability"}

LastKind(items) == IF items = <<>> THEN "nothing" ELSE Last(items).kind

Ended(decision, by, items) ==
  [status |-> decision.status, reply |-> decision.reply, by |-> by, last |-> LastKind(items)]

(* The update reaches the tracker of the job, or a new one.  Whatever the   *)
(* tracker has decided goes before the decision that came with the update.  *)
WithTracker(items, decision) ==
  LET start == IF tracker = NoTracker THEN Tracker(clock) ELSE tracker
      t     == TickTracker(IngestAll(start, items, clock), clock)
      eff   == EffectiveDecision(t, decision)
      by    == IF t.detector.decision.terminal THEN "tracker" ELSE "adapter"
  IN  IF eff.terminal THEN job' = Ended(eff, by, items) /\ tracker' = NoTracker
                      ELSE job' = job /\ tracker' = t

(* No tracker takes the items of an unknown agent. *)
WithoutTracker(items, decision) ==
  /\ job' = IF decision.terminal THEN Ended(decision, "adapter", items) ELSE job
  /\ UNCHANGED tracker

(* A heartbeat with an update for the job. *)
HeartbeatUpdate(items, decision) ==
  LET snaps   == Snapshots(items)
      rotated == items # <<>> /\ Head(items) = Rotate
  IN  /\ items # <<>> \/ decision.terminal
      /\ beat' = clock
      /\ IF known THEN WithTracker(items, decision) ELSE WithoutTracker(items, decision)
      /\ shown' = IF snaps # {} THEN items[Max(snaps)].text ELSE IF rotated THEN NoText ELSE shown
      /\ stable' = IF shown' = shown /\ ~rotated THEN stable ELSE clock

Update ==
  /\ job = Running
  /\ \E batch \in Batches(session), d \in AdapterDecisions : HeartbeatUpdate(batch, d)
  /\ UNCHANGED <<family, known, clock, session, restarts>>

UpdateAfterRotation ==
  /\ job = Running /\ session < MaxSessions
  /\ session' = session + 1
  /\ \E batch \in Batches(session'), d \in AdapterDecisions :
       HeartbeatUpdate(<<Rotate>> \o batch, d)
  /\ UNCHANGED <<family, known, clock, restarts>>

(* A heartbeat without an update for the job looks at no tracker. *)
HeartbeatIdle ==
  /\ job = Running /\ beat # clock /\ beat' = clock
  /\ UNCHANGED <<family, known, job, tracker, clock, session, stable, shown, restarts>>

Pass == /\ job = Running /\ clock < MaxClock /\ clock' = clock + 1
        /\ UNCHANGED <<family, known, job, tracker, beat, session, stable, shown, restarts>>

(* Trackers are in memory, the job is restored. *)
Restart == /\ job = Running /\ restarts < MaxRestarts /\ restarts' = restarts + 1
           /\ tracker' = NoTracker
           /\ shown' = NoText /\ stable' = clock
           /\ UNCHANGED <<family, known, job, clock, beat, session>>

Next == Update \/ UpdateAfterRotation \/ HeartbeatIdle \/ Pass \/ Restart

Spec == Init /\ [][Next]_vars

-----------------------------------------------------------------------------
(* Properties. *)

(* Types; no tracker of an agent that is not known, none after its job, and  *)
(* none that has decided while the job runs.                               *)
TypeOK ==
  /\ family \in TrackedFamilies /\ known \in BOOLEAN
  /\ job.status \in Statuses \cup {"running"} /\ job.reply \in Texts \cup {NoText}
  /\ job.by \in {"nobody", "tracker", "adapter"} /\ job.last \in ItemKinds \cup {"nothing"}
  /\ job.by = "nobody" <=> job = Running
  /\ clock \in 0..MaxClock /\ beat \in 0..clock /\ stable \in 0..clock
  /\ session \in 1..MaxSessions
  /\ tracker # NoTracker =>
       known /\ job = Running /\ ~tracker.detector.decision.terminal

(* An answer that the tracker gave is from the session the provider is in:  *)
(* what was said before a change of session, or before a restart of the     *)
(* daemon, is not sent as the answer to this request.  (What an adapter     *)
(* decides alone carries the text that the adapter chose.)                 *)
AnswerIsOfThisSession ==
  job.by = "tracker" /\ job.reply # NoText => job.reply[1] = session

(* A turn that ends with its boundary, or an abort, and without a word is   *)
(* not called completed, although codex's adapter calls every turn that     *)
(* ends so completed: the tracker has the last word there, and knows        *)
(* whether there was a reply even if the boundary does not carry it.  An    *)
(* adapter that ends a turn in another way is believed.                    *)
CompletedTurnHasReply ==
  known /\ family = "protocol_turn" /\ job.last \in {"boundary", "aborted"} =>
    (job.status = "completed" => job.reply # NoText)

(* The anchored detector ends a job only when the reply was shown unchanged *)
(* for the settle window: text that still grows is not taken for an answer. *)
CompletesByTracker == job' # job /\ job'.by = "tracker" /\ job'.status = "completed"

SettledMeansStable ==
  [][ family = "anchored_session_stability" /\ CompletesByTracker
        => clock - stable' >= Settle ]_vars
=============================================================================
