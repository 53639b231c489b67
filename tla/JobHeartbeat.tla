---------------------------- MODULE JobHeartbeat ----------------------------
(***************************************************************************)
(* The no-progress timeout of a job: evaluate_heartbeat of ccbr-heartbeat   *)
(* and tick_job_heartbeat of ccbr-daemon, as the daemon's heartbeat drives  *)
(* them.  Jobs do not share heartbeat state, so one job is enough.          *)
(*                                                                         *)
(* Time is explicit.  The progress time of a job is its updated_at, the     *)
(* heartbeat state is kept in memory under the job's id: it outlives the    *)
(* run of the job that it is about, and is lost when the daemon restarts.  *)
(***************************************************************************)
EXTENDS Integers

CONSTANTS
  Start,            \* silence_start_after_s: silence before the first notice
  Repeat,           \* repeat_interval_s: time between two notices
  MaxNotices,       \* max_notice_count of the policy
  TerminalNotices,  \* terminal_notice_count of the runtime service
  Gap               \* the longest time between two heartbeats of the daemon

(* HeartbeatPolicy::new refuses other values, with_defaults takes 300, 60,  *)
(* 3 and 3 and the heartbeat threads sleep half a second and a second.     *)
ASSUME HeartbeatAssumption ==
  /\ Start \in Nat /\ Repeat \in Nat \ {0} /\ Gap \in Nat \ {0}
  /\ MaxNotices \in Nat \ {0} /\ TerminalNotices \in Nat \ {0}
  /\ TerminalNotices <= MaxNotices
  /\ Gap <= Start

VARIABLES
  now,       \* wall clock
  lastTick,  \* time of the last heartbeat of the daemon
  status,    \* "idle" (not running), "running" or "timedout"
  progress,  \* updated_at of the job
  hb,        \* saved heartbeat state
  restarted  \* history: time of the last start of the daemon

vars == <<now, lastTick, status, progress, hb, restarted>>

Never   == -1   \* last_notice_at is None
NoState == [seen |-> 0, notice |-> Never, count |-> 0]

Init == /\ now = 0 /\ lastTick = 0 /\ progress = 0 /\ restarted = 0
        /\ status = "idle"
        /\ hb = NoState

-----------------------------------------------------------------------------
(* The engine.  A missing state and a reset one are treated alike.         *)

Silence          == now - progress
HeartbeatActive  == hb.count > 0 \/ hb.notice # Never

(* Mutant: progress is not noticed. *)
ProgressIgnored == FALSE

ProgressAdvanced == progress > hb.seen
ShouldEnter      == hb.notice = Never \/ hb.count = 0
SinceNotice      == now - hb.notice

NoticeCount(action) == CASE action = "reset"  -> 0
                         [] action = "idle"   -> hb.count
                         [] action = "enter"  -> 1
                         [] action = "repeat" -> hb.count + 1

IsReset  == ProgressAdvanced /\ HeartbeatActive
IsEnter  == ~IsReset /\ Silence >= Start /\ ShouldEnter

(* Mutant: the notice limit is off by one. *)
RepeatBelowLimit == /\ ~IsReset /\ Silence >= Start /\ ~ShouldEnter
                    /\ hb.count + 1 < MaxNotices
                    /\ SinceNotice >= Repeat

IsRepeat == /\ ~IsReset /\ Silence >= Start /\ ~ShouldEnter
            /\ hb.count < MaxNotices
            /\ SinceNotice >= Repeat

EngineAction == IF IsReset THEN "reset" ELSE IF IsEnter THEN "enter"
                ELSE IF IsRepeat THEN "repeat" ELSE "idle"

(* The daemon's evaluate_heartbeat: the notice is due also when the engine  *)
(* stays idle because the limit is reached.                                *)
LimitReached == NoticeCount(EngineAction) >= MaxNotices
NoticeDue    == EngineAction # "idle" \/ LimitReached
TimeoutDue   == NoticeCount(EngineAction) >= TerminalNotices

(* Mutant: a reset leaves the time of the last notice. *)
NoticeTimeKept == [seen   |-> progress,
                   notice |-> IF EngineAction \in {"enter", "repeat"} THEN now
                              ELSE hb.notice,
                   count  |-> NoticeCount(EngineAction)]

NextState == [seen   |-> progress,
              notice |-> CASE EngineAction = "reset" -> Never
                           [] EngineAction = "idle"  -> hb.notice
                           [] EngineAction \in {"enter", "repeat"} -> now,
              count  |-> NoticeCount(EngineAction)]

-----------------------------------------------------------------------------
(* Time passes, but not further than the next heartbeat. *)
Advance == \E d \in 1..Gap :
  /\ now + d <= lastTick + Gap
  /\ now' = now + d
  /\ UNCHANGED <<lastTick, status, progress, hb, restarted>>

(* mark_running, or a poll update that sets a job Running (again). *)
Run == /\ status # "running"
       /\ status' = "running"
       /\ progress' = now
       /\ UNCHANGED <<now, lastTick, hb, restarted>>

(* A poll update of a running job: update_job_status moves updated_at. *)
Progress == /\ status = "running"
            /\ progress' = now
            /\ UNCHANGED <<now, lastTick, status, hb, restarted>>

(* The job ends by a decision, a cancel or a recovery: its heartbeat state  *)
(* is not removed.                                                         *)
End == /\ status = "running"
       /\ status' = "idle"
       /\ progress' = now
       /\ UNCHANGED <<now, lastTick, hb, restarted>>

(* The heartbeat of the daemon for this job. *)
TickReset   == /\ status = "running" /\ EngineAction = "reset"
               /\ hb' = NextState
               /\ UNCHANGED <<status, progress>>
TickQuiet   == /\ status = "running" /\ EngineAction # "reset" /\ ~NoticeDue
               /\ UNCHANGED <<status, progress, hb>>
TickTimeout == /\ status = "running" /\ EngineAction # "reset"
               /\ NoticeDue /\ TimeoutDue
               /\ status' = "timedout"
               /\ progress' = now
               /\ hb' = NoState
TickNotice  == /\ status = "running" /\ EngineAction # "reset"
               /\ NoticeDue /\ ~TimeoutDue
               /\ hb' = NextState
               /\ UNCHANGED <<status, progress>>
TickOther   == status # "running" /\ UNCHANGED <<status, progress, hb>>

Tick == /\ lastTick' = now
        /\ UNCHANGED <<now, restarted>>
        /\ TickReset \/ TickQuiet \/ TickTimeout \/ TickNotice \/ TickOther

(* The daemon restarts: the state map is gone, the job's record is not. *)
Restart == /\ hb' = NoState
           /\ lastTick' = now
           /\ restarted' = now
           /\ UNCHANGED <<now, status, progress>>

Next == Advance \/ Run \/ Progress \/ End \/ Tick \/ Restart

Spec == Init /\ [][Next]_vars

-----------------------------------------------------------------------------
(* Properties. *)

(* Times are natural numbers, and a heartbeat state has the time of its last *)
(* notice exactly when it has counted one.                                 *)
TypeOK == /\ {now, lastTick, progress, restarted} \subseteq Nat
          /\ status \in {"idle", "running", "timedout"}
          /\ hb \in [seen: Nat, notice: Nat \cup {Never}, count: Nat]
          /\ hb.count = 0 <=> hb.notice = Never

(* A job is timed out only after Start seconds of silence and one Repeat    *)
(* interval for each further notice: heartbeat state left over from an      *)
(* earlier run of the same job, or progress between two notices, never      *)
(* shortens the wait.                                                      *)
NoEarlyTimeout ==
  [][status = "running" /\ status' = "timedout"
     => now - progress >= Start + (TerminalNotices - 1) * Repeat]_vars

(* A job that stays silent is timed out, within a bound counted from its    *)
(* last progress or from the last restart of the daemon, whichever is       *)
(* later: no leftover notice count makes the engine stay idle for ever.    *)
LastSign == IF progress >= restarted THEN progress ELSE restarted
TimeoutIsPrompt ==
  status = "running" =>
    now <= LastSign + Start + Gap + (TerminalNotices - 1) * (Repeat + Gap)
=============================================================================
