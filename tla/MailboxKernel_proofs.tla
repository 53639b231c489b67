------------------------ MODULE MailboxKernel_proofs ------------------------
(***************************************************************************)
(* Theorems about MailboxKernel, for every finite set of events.  What the  *)
(* operations do to a mailbox is shown in MailboxOps_proofs.               *)
(***************************************************************************)
EXTENDS MailboxKernel, MailboxOps_proofs

(* The steps of the specification with crashes. *)
LEMMA StepShape ==
  ASSUME mb \in MailboxType, CrashNext
  PROVE  LogStep(mb, mb')
<1>1. CASE RefreshMailbox
  BY <1>1, RebuildKept DEF RefreshMailbox, Becomes, LogStep, Kept
<1>2. ASSUME NEW wanted \in {Events, Replies, Events \ Replies},
             ClaimNextEvent(wanted)
      PROVE  LogStep(mb, mb')
  <2> DEFINE h == HeadPending(mb)
  <2>1. mb' = ClaimNext(mb, wanted) BY <1>2 DEF ClaimNextEvent, Becomes
  <2>2. \/ h \in wanted /\ mb' = Claim(mb, h)
        \/ mb' = Rebuild(mb)
    BY <2>1 DEF ClaimNext
  <2>3. wanted \subseteq Events BY EventsAssumption
  <2> HIDE DEF h
  <2> QED BY <2>2, <2>3, ClaimLog, RebuildKept DEF LogStep, Kept
<1>3. ASSUME NEW e \in Events, DeliverEvent(e) PROVE LogStep(mb, mb')
  BY <1>3, DeliverLog DEF DeliverEvent, Becomes, LogStep
<1>4. ASSUME NEW e \in Events, ClaimEvent(e) PROVE LogStep(mb, mb')
  BY <1>4, ClaimLog DEF ClaimEvent, Becomes
<1>5. ASSUME NEW e \in Events, NEW s \in Terminal, FinishEvent(e, s)
      PROVE  LogStep(mb, mb')
  <2>1. mb' = MarkTerminal(mb, e, s) BY <1>5 DEF FinishEvent, Becomes
  <2> QED BY <2>1, MarkTerminalLog DEF LogStep, Kept
<1>6. ASSUME NEW e \in Events, AckEvent(e) PROVE LogStep(mb, mb')
  BY <1>6, AckReplyLog DEF AckEvent, Becomes
<1>7. ASSUME NEW e \in Events, RequeueEvent(e) PROVE LogStep(mb, mb')
  <2>1. mb' = RewriteHead(mb, e, "queued") BY <1>7 DEF RequeueEvent, Becomes
  <2> QED BY <2>1, RewriteHeadLog DEF LogStep, Kept
<1>8. ASSUME NEW e \in Events, CrashInDeliver(e) PROVE LogStep(mb, mb')
  BY <1>8, NewEventLog DEF CrashInDeliver, Becomes, LogStep
<1>9. ASSUME NEW e \in Events, CrashInClaim(e) PROVE LogStep(mb, mb')
  <2>1. mb.status[e] \in Claimable /\ HeadPending(mb) = e
    BY <1>9 DEF CrashInClaim, ClaimsAnew, ClaimSucceeds, IsClaimableHead
  <2>2. mb' = SetStatus(mb, e, "delivering") \/ mb' = ClaimLeased(mb, e)
    BY <1>9 DEF CrashInClaim, Becomes, ClaimLogged
  <2>3. LogTo(mb, mb', e, "delivering")
    BY <2>2, SetStatusLog, ClaimLeasedLog, StatusSets
  <2> QED BY <2>1, <2>3 DEF LogStep, Starts
<1>10. ASSUME NEW e \in Events, NEW s \in Terminal, CrashInFinish(e, s)
       PROVE  LogStep(mb, mb')
  <2>1. \/ mb' = SetStatus(mb, e, s)
        \/ mb' = ReleaseLease(SetStatus(mb, e, s), e)
    BY <1>10 DEF CrashInFinish, Becomes, TerminalLogged, TerminalReleased
  <2>2. LogTo(mb, mb', e, s)
    BY <2>1, SetStatusLog, TerminalReleasedLog, StatusSets
  <2> QED BY <1>10, <2>2 DEF LogStep, CrashInFinish
<1>11. ASSUME NEW e \in Events, CrashInRequeue(e) PROVE LogStep(mb, mb')
  <2>1. \/ mb' = SetStatus(mb, e, "queued")
        \/ mb' = ReleaseLease(SetStatus(mb, e, "queued"), e)
    BY <1>11 DEF CrashInRequeue, Becomes
  <2>2. LogTo(mb, mb', e, "queued")
    BY <2>1, SetStatusLog, TerminalReleasedLog, StatusSets
  <2> QED BY <1>11, <2>2 DEF LogStep, CrashInRequeue
<1>12. ASSUME NEW e \in Events, CrashInAck(e) PROVE LogStep(mb, mb')
  <2> DEFINE n == Claim(mb, e)
  <2>1. \/ mb' = SetStatus(n, e, "consumed")
        \/ mb' = ReleaseLease(SetStatus(n, e, "consumed"), e)
    BY <1>12 DEF CrashInAck, Becomes, TerminalLogged, TerminalReleased
  <2>2. LogTo(mb, n, e, "delivering") /\ mb.status[e] \in Live
    BY <1>12, ClaimAnewLog, StatusSets DEF CrashInAck, Starts
  <2>3. n \in MailboxType /\ "consumed" \in Terminal
    BY <2>2 DEF LogTo, Terminal
  <2> HIDE DEF n
  <2>4. LogTo(n, mb', e, "consumed")
    BY <2>1, <2>3, SetStatusLog, TerminalReleasedLog, StatusSets
  <2>5. LogTo(mb, mb', e, "consumed") BY <2>2, <2>4, LogToTwice
  <2> QED BY <2>2, <2>3, <2>5 DEF LogStep
<1> QED
  BY <1>1, <1>2, <1>3, <1>4, <1>5, <1>6, <1>7, <1>8, <1>9, <1>10, <1>11, <1>12
  DEF CrashNext, Next, Crash

-----------------------------------------------------------------------------
(* The log invariant is inductive. *)

(* The first mailbox is good. *)
LEMMA GoodInit == Init => Good(mb) /\ granted = 0
BY EmptyGood DEF Init

(* The mailbox is good in every reachable state. *)
LEMMA SpecGood == CrashSpec => [](Good(mb) /\ granted \in Nat)
<1> DEFINE Inv == Good(mb) /\ granted \in Nat
<1>1. Init => Inv
  BY GoodInit
<1>2. Inv /\ [CrashNext]_vars => Inv'
  <2> SUFFICES ASSUME Inv, [CrashNext]_vars PROVE Inv' OBVIOUS
  <2>1. CASE UNCHANGED vars
    BY <2>1 DEF vars, Good, LogInv, HeadInv, IsHead, Pending
  <2>2. CASE CrashNext
    <3>1. LogStep(mb, mb') BY <2>2, StepShape DEF Good
    <3>2. Good(mb') BY <3>1, GoodStep
    <3>3. /\ mb'.lease.version \in Nat
          /\ mb'.summary.leaseVersion \in Nat
      BY <3>2, SummaryFields DEF Good
    <3>4. PICK n : Becomes(n)
      BY <2>2
      DEF CrashNext, Next, Crash, RefreshMailbox, ClaimNextEvent, DeliverEvent,
          ClaimEvent, FinishEvent, AckEvent, RequeueEvent, CrashInDeliver,
          CrashInClaim, CrashInFinish, CrashInRequeue, CrashInAck
    <3>5. granted' \in Nat BY <3>3, <3>4 DEF Becomes, MaxOf
    <3> QED BY <3>2, <3>5
  <2> QED BY <2>1, <2>2
<1> QED BY <1>1, <1>2, PTL DEF CrashSpec

(* Type correctness, whatever crashes: no sequence of operations and cuts   *)
(* leaves a counter negative or a status outside the record types.         *)
THEOREM TypeCorrect == CrashSpec => []TypeOK
<1>1. Good(mb) /\ granted \in Nat => TypeOK BY DEF Good, TypeOK
<1> QED BY <1>1, SpecGood, PTL

(* Only the head of a mailbox is ever being delivered, whatever crashes     *)
(* between the log append, the lease write and the summary write of claim,  *)
(* mark_terminal, ack_reply and rewrite_head.                              *)
THEOREM HeadDelivery == CrashSpec => []OnlyHeadDelivers
<1>1. Good(mb) => OnlyHeadDelivers BY DEF Good, HeadInv, OnlyHeadDelivers
<1> QED BY <1>1, SpecGood, PTL

-----------------------------------------------------------------------------
(* A mailbox implements first-in first-out delivery. *)

(* The stage each status maps to. *)
LEMMA StageValues ==
  /\ StageOf("absent") = "new"
  /\ \A s \in Claimable : StageOf(s) = "waiting"
  /\ StageOf("delivering") = "delivering"
  /\ \A s \in Terminal : StageOf(s) = "done"
BY DEF StageOf, Claimable, Terminal

(* The statuses each stage comes from. *)
LEMMA StageInverse ==
  ASSUME NEW s \in Statuses
  PROVE  /\ StageOf(s) = "waiting" <=> s \in Claimable
         /\ StageOf(s) = "delivering" <=> s = "delivering"
         /\ s \in Live => StageOf(s) \in {"waiting", "delivering"}
BY StageValues DEF Statuses, Live, Claimable, Terminal

(* Every step of the daemon, cut short or not, is a step of the queue or    *)
(* leaves it alone: crashes can strand a lease or a summary, but never let  *)
(* an event overtake another or come back after its end.                   *)
THEOREM FifoRefinement == CrashSpec => ImplementsFifoDelivery
<1> DEFINE stage == [e \in Events |-> StageOf(mb.status[e])]
<1>1. Init => Fifo!Init
  BY StageValues DEF Init, Fifo!Init, EmptyMailbox
<1>2. Good(mb) /\ [CrashNext]_vars => [Fifo!Next]_(Fifo!vars)
  <2> SUFFICES ASSUME Good(mb), [CrashNext]_vars
               PROVE  [Fifo!Next]_(Fifo!vars)
    OBVIOUS
  <2>0. /\ mb \in MailboxType /\ LogInv(mb) /\ HeadInv(mb)
        /\ mb.arrivals \in Nat
        /\ mb.pos \in [Events -> Nat] /\ mb.status \in [Events -> Statuses]
    BY DEF Good, MailboxType
  <2>1. CASE UNCHANGED vars
    BY <2>1 DEF vars, Fifo!vars
  <2>2. ASSUME SameLog(mb, mb') PROVE UNCHANGED Fifo!vars
    BY <2>2 DEF SameLog, Fifo!vars
  <2>3. ASSUME NEW e \in Events, mb.status[e] = "absent", Arrives(mb, mb', e)
        PROVE  Fifo!Arrive(e)
    <3>1. stage[e] = "new" BY <2>3, StageValues
    <3>2. stage' = [stage EXCEPT ![e] = "waiting"]
      <4>1. StageOf("queued") = "waiting" BY StageValues DEF Claimable
      <4> QED BY <2>0, <2>3, <4>1 DEF Arrives
    <3>3. /\ mb'.pos = [mb.pos EXCEPT ![e] = mb'.pos[e]]
          /\ mb'.pos[e] \in Nat
          /\ \A f \in Events : mb.pos[f] < mb'.pos[e]
      BY <2>0, <2>3 DEF Arrives, LogInv
    <3> QED BY <3>1, <3>2, <3>3 DEF Fifo!Arrive
  <2>4. ASSUME NEW e \in Events, NEW s \in Terminal,
               mb.status[e] \in Live, LogTo(mb, mb', e, s)
        PROVE  Fifo!Finish(e)
    <3>1. stage[e] \in {"waiting", "delivering"}
      BY <2>0, <2>4, StageInverse
    <3>2. stage' = [stage EXCEPT ![e] = "done"]
      BY <2>0, <2>4, StageValues DEF LogTo
    <3> QED BY <2>4, <3>1, <3>2 DEF Fifo!Finish, LogTo
  <2>5. ASSUME NEW e \in Events, mb.status[e] \in Live, LogTo(mb, mb', e, "queued")
        PROVE  Fifo!Requeue(e) \/ UNCHANGED Fifo!vars
    <3>1. StageOf("queued") = "waiting" BY StageValues DEF Claimable
    <3>2. stage' = [stage EXCEPT ![e] = "waiting"]
      BY <2>0, <2>5, <3>1 DEF LogTo
    <3>3. CASE stage[e] = "delivering"
      BY <2>5, <3>2, <3>3 DEF Fifo!Requeue, LogTo
    <3>4. CASE stage[e] = "waiting"
      <4>1. stage' = stage BY <3>2, <3>4
      <4> QED BY <2>5, <4>1 DEF LogTo, Fifo!vars
    <3> QED BY <2>0, <2>5, <3>3, <3>4, StageInverse
  <2>6. ASSUME NEW e \in Events, Starts(mb, mb', e)
        PROVE  Fifo!Start(e)
    <3>1. IsHead(mb, e) BY <2>0, <2>6, HeadPendingIs DEF Starts
    <3>2. stage[e] = "waiting" BY <2>0, <2>6, StageValues DEF Starts
    <3>3. \A f \in Events : stage[f] # "delivering"
      <4> SUFFICES ASSUME NEW f \in Events, stage[f] = "delivering" PROVE FALSE
        OBVIOUS
      <4>1. mb.status[f] = "delivering" BY <2>0, StageInverse
      <4>2. f = e BY <2>0, <3>1, <4>1, HeadUnique DEF HeadInv
      <4> QED BY <2>6, <4>1, <4>2, StatusSets DEF Starts
    <3>4. \A f \in Events : stage[f] = "waiting" => mb.pos[e] <= mb.pos[f]
      <4> SUFFICES ASSUME NEW f \in Events, stage[f] = "waiting"
                   PROVE  mb.pos[e] <= mb.pos[f]
        OBVIOUS
      <4>1. f \in Pending(mb) BY <2>0, StageInverse, StatusSets DEF Pending
      <4> QED BY <3>1, <4>1 DEF IsHead
    <3>5. stage' = [stage EXCEPT ![e] = "delivering"]
      BY <2>0, <2>6, StageValues DEF Starts, LogTo
    <3> QED BY <2>6, <3>2, <3>3, <3>4, <3>5 DEF Fifo!Start, Starts, LogTo
  <2>7. CASE CrashNext
    <3>1. LogStep(mb, mb') BY <2>0, <2>7, StepShape
    <3> QED BY <3>1, <2>2, <2>3, <2>4, <2>5, <2>6 DEF LogStep, Fifo!Next
  <2> QED BY <2>1, <2>7
<1> QED
  BY <1>1, <1>2, SpecGood, PTL DEF CrashSpec, ImplementsFifoDelivery, Fifo!Spec

-----------------------------------------------------------------------------
(* Without crashes, the lease and the summary agree with the log. *)

(* Every operation keeps an exact mailbox exact, and lease versions grow. *)
LEMMA ExactStep ==
  ASSUME Exact(mb), Next
  PROVE  Exact(mb') /\ VersionStep(mb, mb')
<1>1. CASE RefreshMailbox
  BY <1>1, RebuildExact, RebuildVersion DEF RefreshMailbox, Becomes, Exact
<1>2. ASSUME NEW wanted \in {Events, Replies, Events \ Replies},
             ClaimNextEvent(wanted)
      PROVE  Exact(mb') /\ VersionStep(mb, mb')
  <2> DEFINE h == HeadPending(mb)
  <2>1. mb' = ClaimNext(mb, wanted) BY <1>2 DEF ClaimNextEvent, Becomes
  <2>2. \/ h \in wanted /\ mb' = Claim(mb, h)
        \/ mb' = Rebuild(mb)
    BY <2>1 DEF ClaimNext
  <2>3. wanted \subseteq Events BY EventsAssumption
  <2> HIDE DEF h
  <2> QED BY <2>2, <2>3, ClaimExact, RebuildExact, RebuildVersion DEF Exact
<1>3. ASSUME NEW e \in Events, DeliverEvent(e)
      PROVE  Exact(mb') /\ VersionStep(mb, mb')
  BY <1>3, DeliverExact DEF DeliverEvent, Becomes
<1>4. ASSUME NEW e \in Events, ClaimEvent(e)
      PROVE  Exact(mb') /\ VersionStep(mb, mb')
  BY <1>4, ClaimExact DEF ClaimEvent, Becomes
<1>5. ASSUME NEW e \in Events, NEW s \in Terminal, FinishEvent(e, s)
      PROVE  Exact(mb') /\ VersionStep(mb, mb')
  BY <1>5, MarkTerminalExact DEF FinishEvent, Becomes
<1>6. ASSUME NEW e \in Events, AckEvent(e)
      PROVE  Exact(mb') /\ VersionStep(mb, mb')
  BY <1>6, AckReplyExact DEF AckEvent, Becomes
<1>7. ASSUME NEW e \in Events, RequeueEvent(e)
      PROVE  Exact(mb') /\ VersionStep(mb, mb')
  BY <1>7, RewriteHeadExact DEF RequeueEvent, Becomes
<1> QED BY <1>1, <1>2, <1>3, <1>4, <1>5, <1>6, <1>7 DEF Next

(* The invariant of the specification without crashes. *)
ExactInv == /\ Exact(mb)
            /\ granted \in Nat
            /\ granted <= mb.summary.leaseVersion

(* Every step of a daemon that does not crash keeps the mailbox exact. *)
LEMMA ExactNext == ExactInv /\ Next => ExactInv' /\ VersionStep(mb, mb')
<1> SUFFICES ASSUME ExactInv, Next PROVE ExactInv' /\ VersionStep(mb, mb')
  OBVIOUS
<1>1. Exact(mb') /\ VersionStep(mb, mb') BY ExactStep DEF ExactInv
<1>2. /\ mb'.lease.version \in Nat /\ mb'.summary.leaseVersion \in Nat
      /\ mb.summary.leaseVersion \in Nat
  BY <1>1, SummaryFields DEF Exact, Good, ExactInv
<1>3. mb'.lease.version <= mb'.summary.leaseVersion
  BY <1>1, <1>2 DEF Exact, LeaseInv, SummaryInv
<1>4. PICK n : Becomes(n)
  BY DEF Next, RefreshMailbox, ClaimNextEvent, DeliverEvent, ClaimEvent,
         FinishEvent, AckEvent, RequeueEvent
<1>5. granted' = MaxOf(granted, MaxOf(mb'.lease.version, mb'.summary.leaseVersion))
  BY <1>4 DEF Becomes
<1>6. granted' \in Nat /\ granted' <= mb'.summary.leaseVersion
  BY <1>1, <1>2, <1>3, <1>5 DEF MaxOf, ExactInv, VersionStep
<1> QED BY <1>1, <1>6 DEF ExactInv

(* Without crashes the mailbox is exact in every reachable state. *)
LEMMA ExactAlways == Spec => []ExactInv
<1>1. Init => ExactInv
  BY EmptyExact DEF Init, ExactInv, EmptyMailbox, NoSummary
<1>2. ExactInv /\ [Next]_vars => ExactInv'
  <2>1. ExactInv /\ UNCHANGED vars => ExactInv'
    BY DEF vars, ExactInv, Exact, Good, LogInv, HeadInv, LeaseInv, SummaryInv,
           IsHead, Pending, PendingReplies, CurrentHead, HeadPending, HeadOf
  <2> QED BY <2>1, ExactNext
<1> QED BY <1>1, <1>2, PTL DEF Spec

(* Without crashes the summary, although it is moved incrementally, always  *)
(* shows the queue depth, the pending replies, the head and the delivery in *)
(* progress that the log and the lease hold.                               *)
THEOREM SummaryCorrect == Spec => []SummaryMatchesLog
<1>1. ExactInv => SummaryMatchesLog
  BY DEF ExactInv, Exact, SummaryInv, SummaryMatchesLog
<1> QED BY <1>1, ExactAlways, PTL

(* Without crashes a lease exists exactly while its event is delivered. *)
THEOREM LeaseCorrect == Spec => []LeaseMatchesDelivery
<1>1. ExactInv => LeaseMatchesDelivery
  BY DEF ExactInv, Exact, LeaseInv, LeaseMatchesDelivery
<1> QED BY <1>1, ExactAlways, PTL

(* Without crashes ack_reply never fails on the reply at the head: neither  *)
(* a lease of another event nor a lost status can stand in its way.        *)
THEOREM AckAlwaysPossible == Spec => []HeadReplyCanBeAcked
<1>1. ExactInv => HeadReplyCanBeAcked
  BY HeadReplyAcks DEF HeadReplyCanBeAcked, ExactInv
<1> QED BY <1>1, ExactAlways, PTL

(* Without crashes every new lease outbids all the earlier ones. *)
THEOREM LeaseVersions == Spec => LeaseVersionsGrow
<1> DEFINE Grow == mb'.lease # mb.lease /\ mb'.lease.event # NoEvent
                   => mb'.lease.version > granted
<1>1. ExactInv /\ [Next]_vars => [Grow]_vars
  <2> SUFFICES ASSUME ExactInv, Next PROVE Grow OBVIOUS
  <2>1. ExactInv' /\ VersionStep(mb, mb') BY ExactNext
  <2>2. /\ mb'.lease.version \in Nat /\ mb.summary.leaseVersion \in Nat
    BY <2>1, SummaryFields DEF ExactInv, Exact, Good
  <2> QED BY <2>1, <2>2 DEF VersionStep, ExactInv
<1> QED BY <1>1, ExactAlways, PTL DEF Spec, LeaseVersionsGrow
=============================================================================
