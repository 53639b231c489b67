------------------------ MODULE JobHeartbeat_proofs ------------------------
(***************************************************************************)
(* Proofs about the no-progress timeout, for every policy and every rate    *)
(* of heartbeats.  The inductive invariant relates the saved state to the   *)
(* times: a count of n notices stands for a silence that lasted at least    *)
(* Start and n - 1 repeat intervals, and the last notice is younger than    *)
(* one repeat interval at every heartbeat.                                 *)
(***************************************************************************)
EXTENDS JobHeartbeat, TLAPS

(* Products with a constant, kept folded so that the rest is linear. *)
Repeats(n) == n * Repeat
Slack(n)   == n * (Repeat + Gap)

Active == hb.count # 0

TimesOK == /\ progress <= now /\ restarted <= lastTick
           /\ lastTick <= now /\ now <= lastTick + Gap
           /\ hb.seen <= progress

NoticesOK == /\ hb.count < TerminalNotices
             /\ Active => /\ hb.notice <= lastTick
                          /\ hb.notice >= hb.seen + Start + Repeats(hb.count - 1)

(* What holds of a running job at the last heartbeat, by the three states   *)
(* its saved heartbeat can be in: none, one about an earlier progress, one  *)
(* about the current silence.                                              *)
WatchOK ==
  status = "running" =>
    /\ ~Active => lastTick <= LastSign + Start
    /\ Active /\ hb.seen < progress => lastTick <= progress
    /\ Active /\ hb.seen = progress =>
         /\ hb.notice <= LastSign + Start + Gap + Slack(hb.count - 1)
         /\ lastTick < hb.notice + Repeat

IInv == TypeOK /\ TimesOK /\ NoticesOK /\ WatchOK

-----------------------------------------------------------------------------
(* Multiplication by a constant grows by that constant and is monotonic. *)
LEMMA ProductFacts ==
  /\ \A n \in Nat : /\ Repeats(n) \in Nat /\ Slack(n) \in Nat
                    /\ Repeats(n + 1) = Repeats(n) + Repeat
                    /\ Slack(n + 1) = Slack(n) + Repeat + Gap
  /\ Repeats(0) = 0 /\ Slack(0) = 0
  /\ \A m, n \in Nat : m <= n => Slack(m) <= Slack(n)
<1>1. ASSUME NEW k \in Nat, NEW n \in Nat
      PROVE  n * k \in Nat /\ (n + 1) * k = n * k + k /\ 0 * k = 0
  OBVIOUS
<1>2. ASSUME NEW k \in Nat, NEW m \in Nat, NEW n \in Nat, m <= n
      PROVE  m * k <= n * k
  BY <1>2
<1>3. Repeat \in Nat /\ Repeat + Gap \in Nat /\ Gap \in Nat
  BY HeartbeatAssumption
<1> QED BY <1>1, <1>2, <1>3 DEF Repeats, Slack

(* The constants as the arithmetic below needs them. *)
LEMMA ConstantFacts ==
  /\ Start \in Nat /\ Repeat \in Nat /\ Gap \in Nat
  /\ MaxNotices \in Nat /\ TerminalNotices \in Nat
  /\ 0 < Repeat /\ 0 < Gap /\ Gap <= Start
  /\ 0 < TerminalNotices /\ TerminalNotices <= MaxNotices
BY HeartbeatAssumption

(* The type invariant, variable by variable. *)
LEMMA TypeFacts ==
  ASSUME TypeOK
  PROVE  /\ now \in Nat /\ lastTick \in Nat /\ progress \in Nat /\ restarted \in Nat
         /\ hb.seen \in Nat /\ hb.count \in Nat
         /\ hb.notice \in Nat \/ hb.notice = -1
         /\ hb.notice \in Int
         /\ hb.count = 0 <=> hb.notice = Never
BY DEF TypeOK, Never

(* What evaluate_heartbeat decides, written as four separate cases. *)
LEMMA EngineCases ==
  \/ /\ IsReset /\ EngineAction = "reset" /\ NoticeCount(EngineAction) = 0
     /\ NextState = [seen |-> progress, notice |-> Never, count |-> 0]
  \/ /\ ~IsReset /\ IsEnter
     /\ EngineAction = "enter" /\ NoticeCount(EngineAction) = 1
     /\ NextState = [seen |-> progress, notice |-> now, count |-> 1]
  \/ /\ ~IsReset /\ ~IsEnter /\ IsRepeat /\ EngineAction = "repeat"
     /\ NoticeCount(EngineAction) = hb.count + 1
     /\ NextState = [seen |-> progress, notice |-> now, count |-> hb.count + 1]
  \/ /\ ~IsReset /\ ~IsEnter /\ ~IsRepeat /\ EngineAction = "idle"
     /\ NoticeCount(EngineAction) = hb.count
     /\ NextState = [seen |-> progress, notice |-> hb.notice, count |-> hb.count]
<1>1. CASE IsReset
  <2>1. EngineAction = "reset" BY <1>1 DEF EngineAction
  <2>2. NoticeCount(EngineAction) = 0 BY <2>1 DEF NoticeCount
  <2>3. NextState = [seen |-> progress, notice |-> Never, count |-> 0]
    BY <2>1, <2>2 DEF NextState
  <2> QED BY <1>1, <2>1, <2>2, <2>3
<1>2. CASE ~IsReset /\ IsEnter
  <2>1. EngineAction = "enter" BY <1>2 DEF EngineAction
  <2>2. NoticeCount(EngineAction) = 1 BY <2>1 DEF NoticeCount
  <2>3. NextState = [seen |-> progress, notice |-> now, count |-> 1]
    BY <2>1, <2>2 DEF NextState
  <2> QED BY <1>2, <2>1, <2>2, <2>3
<1>3. CASE ~IsReset /\ ~IsEnter /\ IsRepeat
  <2>1. EngineAction = "repeat" BY <1>3 DEF EngineAction
  <2>2. NoticeCount(EngineAction) = hb.count + 1 BY <2>1 DEF NoticeCount
  <2>3. NextState = [seen |-> progress, notice |-> now, count |-> hb.count + 1]
    BY <2>1, <2>2 DEF NextState
  <2> QED BY <1>3, <2>1, <2>2, <2>3
<1>4. CASE ~IsReset /\ ~IsEnter /\ ~IsRepeat
  <2>1. EngineAction = "idle" BY <1>4 DEF EngineAction
  <2>2. NoticeCount(EngineAction) = hb.count BY <2>1 DEF NoticeCount
  <2>3. NextState = [seen |-> progress, notice |-> hb.notice, count |-> hb.count]
    BY <2>1, <2>2 DEF NextState
  <2> QED BY <1>4, <2>1, <2>2, <2>3
<1> QED BY <1>1, <1>2, <1>3, <1>4

-----------------------------------------------------------------------------
(* The daemon starts in a state of the invariant. *)
LEMMA InitIInv == Init => IInv
<1> SUFFICES ASSUME Init PROVE IInv OBVIOUS
<1>1. TypeOK BY DEF Init, TypeOK, NoState, Never
<1>2. TimesOK BY ConstantFacts DEF Init, TimesOK, NoState
<1>3. NoticesOK BY ConstantFacts DEF Init, NoticesOK, NoState, Never, Active
<1>4. WatchOK BY DEF Init, WatchOK
<1> QED BY <1>1, <1>2, <1>3, <1>4 DEF IInv

(* Time passing keeps the invariant. *)
LEMMA AdvanceIInv == IInv /\ Advance => IInv'
<1> SUFFICES ASSUME IInv, Advance PROVE IInv' OBVIOUS
<1> USE ConstantFacts
<1>0. TypeOK /\ TimesOK /\ NoticesOK /\ WatchOK BY DEF IInv
<1>1. PICK d \in 1..Gap : now + d <= lastTick + Gap /\ now' = now + d
  BY DEF Advance
<1>2. UNCHANGED <<lastTick, status, progress, hb, restarted>> BY DEF Advance
<1>3. TypeOK' BY <1>0, <1>1, <1>2 DEF TypeOK
<1>4. TimesOK' BY <1>0, TypeFacts, <1>1, <1>2 DEF TimesOK
<1>5. NoticesOK' BY <1>0, <1>2 DEF NoticesOK, Active
<1>6. WatchOK' BY <1>0, <1>2 DEF WatchOK, LastSign, Active
<1> QED BY <1>3, <1>4, <1>5, <1>6 DEF IInv

(* The job starts to run, or shows progress: no saved notice is about the   *)
(* new silence, because a notice comes at least Start after what it saw.   *)
LEMMA NewSilence ==
  ASSUME IInv, progress' = now, UNCHANGED <<now, lastTick, hb, restarted>>,
         status' \in {"idle", "running", "timedout"}
  PROVE  IInv'
<1> USE ConstantFacts
<1>0. TypeOK /\ TimesOK /\ NoticesOK BY DEF IInv
<1>1. TypeOK' BY <1>0 DEF TypeOK
<1>2. TimesOK' BY <1>0, TypeFacts DEF TimesOK
<1>3. NoticesOK' BY <1>0 DEF NoticesOK, Active
<1>4. Active => hb.seen < now
  <2> SUFFICES ASSUME Active PROVE hb.seen < now OBVIOUS
  <2>1. Repeats(hb.count - 1) \in Nat
    <3>1. hb.count - 1 \in Nat BY <1>0, TypeFacts DEF Active
    <3> QED BY <3>1, ProductFacts
  <2> QED BY <1>0, <2>1, TypeFacts DEF NoticesOK, TimesOK
<1>5. WatchOK'
  BY <1>0, <1>4, TypeFacts DEF WatchOK, TimesOK, LastSign, Active
<1> QED BY <1>1, <1>2, <1>3, <1>5 DEF IInv

(* A restart forgets the saved state and counts as a sign of life. *)
LEMMA RestartIInv == IInv /\ Restart => IInv'
<1> SUFFICES ASSUME IInv, Restart PROVE IInv' OBVIOUS
<1> USE ConstantFacts
<1>0. TypeOK /\ TimesOK BY DEF IInv
<1>1. TypeOK' BY <1>0 DEF Restart, TypeOK, NoState, Never
<1>2. TimesOK' BY <1>0, TypeFacts DEF Restart, TimesOK, NoState
<1>3. NoticesOK' BY DEF Restart, NoticesOK, NoState, Active, Never
<1>4. WatchOK'
  BY <1>0, TypeFacts DEF Restart, WatchOK, TimesOK, NoState, Active, LastSign
<1> QED BY <1>1, <1>2, <1>3, <1>4 DEF IInv

-----------------------------------------------------------------------------
(* A heartbeat. *)

(* A saved state that survives the reset test is about the current silence, *)
(* which has lasted at least Start.                                        *)
LEMMA SilenceSeen ==
  ASSUME IInv, ~IsReset, Active
  PROVE  hb.seen = progress /\ Silence >= Start /\ ~ShouldEnter
<1>0. TypeOK /\ TimesOK /\ NoticesOK BY DEF IInv
<1>1. HeartbeatActive BY <1>0, TypeFacts DEF Active, HeartbeatActive
<1>2. hb.seen = progress
  BY <1>0, <1>1, TypeFacts DEF IsReset, ProgressAdvanced, TimesOK
<1>3. Repeats(hb.count - 1) \in Nat
  <2>1. hb.count - 1 \in Nat BY <1>0, TypeFacts DEF Active
  <2> QED BY <2>1, ProductFacts
<1>4. Silence >= Start
  BY <1>0, <1>2, <1>3, TypeFacts, ConstantFacts
  DEF Silence, NoticesOK, TimesOK
<1>5. ~ShouldEnter BY <1>0, TypeFacts DEF ShouldEnter, Active
<1> QED BY <1>2, <1>4, <1>5

(* A heartbeat keeps the invariant, whichever of its five outcomes it has. *)
LEMMA TickIInv == IInv /\ Tick => IInv'
<1> SUFFICES ASSUME IInv, Tick PROVE IInv' OBVIOUS
<1> USE ConstantFacts
<1>0. TypeOK /\ TimesOK /\ NoticesOK /\ WatchOK BY DEF IInv
<1>t. lastTick' = now /\ UNCHANGED <<now, restarted>> BY DEF Tick
<1>1. CASE TickReset
  <2>1. /\ UNCHANGED <<status, progress>> /\ status = "running"
        /\ hb' = [seen |-> progress, notice |-> Never, count |-> 0]
    BY <1>1, EngineCases DEF TickReset
  <2>2. IsReset BY <1>1, EngineCases DEF TickReset
  <2>3. TypeOK' BY <1>0, <1>t, <2>1 DEF TypeOK
  <2>4. TimesOK' BY <1>0, <1>t, <2>1, TypeFacts DEF TimesOK
  <2>5. NoticesOK' BY <2>1 DEF NoticesOK, Active
  <2>6. Active
    BY <1>0, <2>2, TypeFacts DEF IsReset, HeartbeatActive, NoticesOK, Active
  <2>7. lastTick <= progress
    BY <1>0, <2>1, <2>2, <2>6, TypeFacts DEF IsReset, ProgressAdvanced, WatchOK
  <2>8. now <= LastSign + Start
    BY <1>0, <2>7, TypeFacts DEF TimesOK, LastSign
  <2>9. WatchOK' BY <1>t, <2>1, <2>8 DEF WatchOK, Active, LastSign
  <2> QED BY <2>3, <2>4, <2>5, <2>9 DEF IInv
<1>2. CASE TickQuiet
  <2>1. UNCHANGED <<status, progress, hb>> /\ status = "running"
    BY <1>2 DEF TickQuiet
  <2>2. ~IsReset /\ ~IsEnter /\ ~IsRepeat
    BY <1>2, EngineCases DEF TickQuiet, NoticeDue
  <2>3. TypeOK' BY <1>0, <1>t, <2>1 DEF TypeOK
  <2>4. TimesOK' BY <1>0, <1>t, <2>1, TypeFacts DEF TimesOK
  <2>5. NoticesOK'
    BY <1>0, <1>t, <2>1, TypeFacts DEF NoticesOK, Active, TimesOK
  <2>6. ASSUME ~Active PROVE now <= LastSign + Start
    <3>1. Silence < Start
      BY <1>0, <2>2, <2>6, TypeFacts DEF IsEnter, ShouldEnter, Active, Silence
    <3> QED BY <1>0, <3>1, TypeFacts DEF Silence, LastSign
  <2>7. ASSUME Active PROVE now < hb.notice + Repeat /\ hb.seen = progress
    <3>1. hb.seen = progress /\ Silence >= Start /\ ~ShouldEnter
      BY <2>2, <2>7, SilenceSeen
    <3>2. hb.count < MaxNotices BY <1>0, TypeFacts DEF NoticesOK
    <3>3. ~(SinceNotice >= Repeat) BY <2>2, <3>1, <3>2 DEF IsRepeat
    <3> QED BY <1>0, <3>1, <3>3, TypeFacts DEF SinceNotice
  <2>8. WatchOK'
    BY <1>0, <1>t, <2>1, <2>6, <2>7, TypeFacts DEF WatchOK, Active, LastSign
  <2> QED BY <2>3, <2>4, <2>5, <2>8 DEF IInv
<1>3. CASE TickTimeout
  <2>1. status' = "timedout" /\ progress' = now /\ hb' = NoState
    BY <1>3 DEF TickTimeout
  <2>2. TypeOK' BY <1>0, <1>t, <2>1 DEF TypeOK, NoState, Never
  <2>3. TimesOK' BY <1>0, <1>t, <2>1, TypeFacts DEF TimesOK, NoState
  <2>4. NoticesOK' BY <2>1 DEF NoticesOK, NoState, Active, Never
  <2>5. WatchOK' BY <2>1 DEF WatchOK
  <2> QED BY <2>2, <2>3, <2>4, <2>5 DEF IInv
<1>4. CASE TickNotice
  <2>1. /\ UNCHANGED <<status, progress>> /\ status = "running"
        /\ hb' = NextState /\ ~IsReset
    BY <1>4, EngineCases DEF TickNotice
  <2>2. NoticeCount(EngineAction) < TerminalNotices
    BY <1>0, <1>4, EngineCases, TypeFacts DEF TickNotice, TimeoutDue
  <2>3. IsEnter \/ IsRepeat
    BY <1>0, <1>4, <2>2, EngineCases, TypeFacts
    DEF TickNotice, NoticeDue, LimitReached
  <2>4. CASE IsEnter
    <3>1. /\ hb' = [seen |-> progress, notice |-> now, count |-> 1]
          /\ 1 < TerminalNotices
      BY <2>1, <2>2, <2>4, EngineCases DEF IsRepeat, IsEnter
    <3>2. ~Active BY <2>1, <2>4, SilenceSeen DEF IsEnter
    <3>3. now <= LastSign + Start + Gap
      BY <1>0, <2>1, <3>2, TypeFacts DEF WatchOK, TimesOK, LastSign
    <3>4. Silence >= Start BY <2>4 DEF IsEnter
    <3>5. TypeOK' BY <1>0, <1>t, <2>1, <3>1, TypeFacts DEF TypeOK, Never
    <3>6. TimesOK' BY <1>0, <1>t, <2>1, <3>1, TypeFacts DEF TimesOK
    <3>7. /\ hb'.count - 1 = 0 /\ hb'.count = 1
          /\ hb'.seen = progress /\ hb'.notice = now
      BY <3>1
    <3>8. NoticesOK'
      <4>1. Repeats(hb'.count - 1) = 0 BY <3>7, ProductFacts
      <4> QED BY <1>0, <1>t, <3>1, <3>4, <3>7, <4>1, TypeFacts
              DEF NoticesOK, Active, Silence, Never
    <3>9. WatchOK'
      <4>1. Slack(hb'.count - 1) = 0 BY <3>7, ProductFacts
      <4> QED BY <1>0, <1>t, <2>1, <3>3, <3>7, <4>1, TypeFacts
              DEF WatchOK, Active, LastSign
    <3> QED BY <3>5, <3>6, <3>8, <3>9 DEF IInv
  <2>5. CASE IsRepeat
    <3>1. /\ hb' = [seen |-> progress, notice |-> now, count |-> hb.count + 1]
          /\ hb.count + 1 < TerminalNotices
      BY <2>1, <2>2, <2>5, EngineCases DEF IsRepeat, IsEnter
    <3>2. Active BY <1>0, <2>5 DEF IsRepeat, ShouldEnter, Active
    <3>3. hb.seen = progress BY <2>1, <3>2, SilenceSeen
    <3>4. now >= hb.notice + Repeat
      BY <1>0, <2>5, TypeFacts DEF IsRepeat, SinceNotice
    <3>5. /\ Repeats(hb.count - 1) \in Nat /\ Slack(hb.count - 1) \in Nat
          /\ Repeats(hb.count) = Repeats(hb.count - 1) + Repeat
          /\ Slack(hb.count) = Slack(hb.count - 1) + Repeat + Gap
      <4>1. hb.count - 1 \in Nat /\ (hb.count - 1) + 1 = hb.count
        BY <1>0, <3>2, TypeFacts DEF Active
      <4> QED BY <4>1, ProductFacts
    <3>6. TypeOK' BY <1>0, <1>t, <2>1, <3>1, TypeFacts DEF TypeOK, Never
    <3>7. TimesOK' BY <1>0, <1>t, <2>1, <3>1, TypeFacts DEF TimesOK
    <3>8. hb'.count - 1 = hb.count /\ hb'.seen = progress /\ hb'.notice = now
      BY <1>0, <3>1, TypeFacts
    <3>9. NoticesOK'
      <4>1. now >= progress + Start + Repeats(hb.count)
        BY <1>0, <3>2, <3>3, <3>4, <3>5, TypeFacts DEF NoticesOK
      <4>2. (hb.count < TerminalNotices)' /\ hb'.count # 0 /\ hb'.notice # Never
        BY <1>0, <3>1, TypeFacts DEF Never
      <4> QED BY <1>t, <3>8, <4>1, <4>2, <1>0, TypeFacts DEF NoticesOK, Active
    <3>10. WatchOK'
      <4>1. now <= LastSign + Start + Gap + Slack(hb.count)
        BY <1>0, <2>1, <3>2, <3>3, <3>5, TypeFacts
        DEF WatchOK, TimesOK, LastSign
      <4> QED BY <1>0, <1>t, <2>1, <3>1, <3>8, <4>1, TypeFacts
              DEF WatchOK, Active, LastSign
    <3> QED BY <3>6, <3>7, <3>9, <3>10 DEF IInv
  <2> QED BY <2>3, <2>4, <2>5
<1>5. CASE TickOther
  <2>1. UNCHANGED <<status, progress, hb>> /\ status # "running"
    BY <1>5 DEF TickOther
  <2>2. TypeOK' BY <1>0, <1>t, <2>1 DEF TypeOK
  <2>3. TimesOK' BY <1>0, <1>t, <2>1, TypeFacts DEF TimesOK
  <2>4. NoticesOK'
    BY <1>0, <1>t, <2>1, TypeFacts DEF NoticesOK, Active, TimesOK
  <2>5. WatchOK' BY <2>1 DEF WatchOK
  <2> QED BY <2>2, <2>3, <2>4, <2>5 DEF IInv
<1> QED BY <1>1, <1>2, <1>3, <1>4, <1>5 DEF Tick

(* Every step keeps the invariant. *)
LEMMA NextIInv == IInv /\ [Next]_vars => IInv'
<1> SUFFICES ASSUME IInv, [Next]_vars PROVE IInv' OBVIOUS
<1>1. CASE Advance BY <1>1, AdvanceIInv
<1>2. CASE Run BY <1>2, NewSilence DEF Run
<1>3. CASE Progress BY <1>3, NewSilence DEF Progress
<1>4. CASE End BY <1>4, NewSilence DEF End
<1>5. CASE Tick BY <1>5, TickIInv
<1>6. CASE Restart BY <1>6, RestartIInv
<1>7. CASE UNCHANGED vars
  BY <1>7 DEF vars, IInv, TypeOK, TimesOK, NoticesOK, WatchOK, Active, LastSign
<1> QED BY <1>1, <1>2, <1>3, <1>4, <1>5, <1>6, <1>7 DEF Next

(* The invariant holds in every reachable state. *)
LEMMA Inductive == Spec => []IInv
BY InitIInv, NextIInv, PTL DEF Spec

-----------------------------------------------------------------------------
(* Times stay natural numbers and the heartbeat state a record of its type. *)
THEOREM TypeCorrect == Spec => []TypeOK
<1>1. IInv => TypeOK BY DEF IInv
<1> QED BY <1>1, Inductive, PTL

(* A running job never outlives the promised bound on its silence: the      *)
(* daemon's no-progress timeout fires, whatever heartbeat state an earlier  *)
(* run of the job left behind and however often the daemon restarts.       *)
THEOREM TimeoutPrompt == Spec => []TimeoutIsPrompt
<1>1. IInv => TimeoutIsPrompt
  <2> SUFFICES ASSUME IInv, status = "running"
               PROVE  now <= LastSign + Start + Gap + Slack(TerminalNotices - 1)
    BY DEF TimeoutIsPrompt, Slack
  <2> USE ConstantFacts
  <2>0. TypeOK /\ TimesOK /\ NoticesOK /\ WatchOK BY DEF IInv
  <2>1. LastSign \in Nat /\ progress <= LastSign
    BY <2>0, TypeFacts DEF LastSign
  <2>2. TerminalNotices - 1 \in Nat /\ Slack(TerminalNotices - 1) \in Nat
    <3>1. TerminalNotices - 1 \in Nat OBVIOUS
    <3> QED BY <3>1, ProductFacts
  <2>3. CASE ~Active
    BY <2>0, <2>1, <2>2, <2>3, TypeFacts DEF WatchOK, TimesOK
  <2>4. CASE Active /\ hb.seen < progress
    BY <2>0, <2>1, <2>2, <2>4, TypeFacts DEF WatchOK, TimesOK
  <2>5. CASE Active /\ hb.seen = progress
    <3>1. /\ hb.notice <= LastSign + Start + Gap + Slack(hb.count - 1)
          /\ lastTick < hb.notice + Repeat
      BY <2>0, <2>5 DEF WatchOK
    <3>2. /\ hb.count - 1 \in Nat /\ (hb.count - 1) + 1 = hb.count
          /\ hb.count <= TerminalNotices - 1
      BY <2>0, <2>5, TypeFacts DEF Active, NoticesOK
    <3>3. /\ Slack(hb.count) = Slack(hb.count - 1) + Repeat + Gap
          /\ Slack(hb.count) <= Slack(TerminalNotices - 1)
          /\ Slack(hb.count - 1) \in Nat
      BY <2>0, <2>2, <3>2, ProductFacts, TypeFacts
    <3> QED BY <2>0, <2>1, <2>2, <3>1, <3>3, TypeFacts DEF TimesOK
  <2> QED BY <2>0, <2>3, <2>4, <2>5, TypeFacts DEF TimesOK
<1> QED BY <1>1, Inductive, PTL

(* The timeout never fires early: each counted notice stands for a full     *)
(* interval of the silence that is being judged.                           *)
THEOREM TimeoutNotEarly == Spec => NoEarlyTimeout
<1>1. ASSUME IInv, Next, status = "running", status' = "timedout"
      PROVE  now - progress >= Start + Repeats(TerminalNotices - 1)
  <2> USE ConstantFacts
  <2>0. TypeOK /\ TimesOK /\ NoticesOK BY <1>1 DEF IInv
  <2>1. TickTimeout
    BY <1>1 DEF Next, Advance, Run, Progress, End, Restart, Tick, TickReset,
                TickQuiet, TickNotice, TickOther
  <2>2. ~IsReset /\ NoticeCount(EngineAction) >= TerminalNotices
    BY <2>1, EngineCases DEF TickTimeout, TimeoutDue
  <2>3. CASE IsEnter
    <3>1. TerminalNotices = 1
      BY <2>2, <2>3, EngineCases DEF IsEnter, IsRepeat
    <3>2. Repeats(TerminalNotices - 1) = 0 BY <3>1, ProductFacts
    <3> QED BY <2>3, <3>2, <2>0, TypeFacts DEF IsEnter, Silence
  <2>4. CASE IsRepeat
    <3>1. hb.count + 1 >= TerminalNotices
      BY <2>2, <2>4, EngineCases DEF IsEnter, IsRepeat
    <3>2. Active BY <2>0, <2>4 DEF IsRepeat, ShouldEnter, Active
    <3>3. hb.seen = progress BY <1>1, <2>2, <3>2, SilenceSeen
    <3>4. /\ hb.count - 1 \in Nat /\ (hb.count - 1) + 1 = hb.count
          /\ hb.count = TerminalNotices - 1
      BY <2>0, <3>1, <3>2, TypeFacts DEF Active, NoticesOK
    <3>5. /\ Repeats(hb.count) = Repeats(hb.count - 1) + Repeat
          /\ Repeats(hb.count - 1) \in Nat
      BY <3>4, ProductFacts
    <3>6. now >= hb.notice + Repeat
      BY <2>0, <2>4, TypeFacts DEF IsRepeat, SinceNotice
    <3>7. now >= progress + Start + Repeats(hb.count)
      BY <2>0, <3>2, <3>3, <3>5, <3>6, TypeFacts DEF NoticesOK
    <3> QED BY <2>0, <3>4, <3>5, <3>7, TypeFacts
  <2>5. CASE ~IsEnter /\ ~IsRepeat
    BY <2>0, <2>2, <2>5, EngineCases, TypeFacts DEF NoticesOK
  <2> QED BY <2>3, <2>4, <2>5
<1>2. IInv /\ [Next]_vars =>
        [status = "running" /\ status' = "timedout"
         => now - progress >= Start + (TerminalNotices - 1) * Repeat]_vars
  BY <1>1 DEF Repeats
<1> QED BY <1>2, Inductive, PTL DEF Spec, NoEarlyTimeout
=============================================================================
