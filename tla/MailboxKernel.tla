--------------------------- MODULE MailboxKernel ---------------------------
(***************************************************************************)
(* One mailbox under every operation of MailboxKernelService, in any order  *)
(* the daemon may issue them, without crashes (Spec) and with crashes       *)
(* between two file writes of an operation (CrashSpec).  The daemon holds   *)
(* one lock around each request and each heartbeat, so an operation that is *)
(* not cut short is one step.                                              *)
(***************************************************************************)
EXTENDS MailboxOps

VARIABLES
  mb,       \* the mailbox: log, lease, summary
  granted   \* history: the highest lease version written so far

vars == <<mb, granted>>

Init == mb = EmptyMailbox /\ granted = 0

MaxOf(a, b) == IF a >= b THEN a ELSE b

(* One step of the daemon: the mailbox becomes m. *)
Becomes(m) == /\ mb' = m
              /\ granted' = MaxOf(granted, MaxOf(m.lease.version,
                                                 m.summary.leaseVersion))

DeliverEvent(e) == mb.status[e] = "absent" /\ Becomes(Deliver(mb, e))
ClaimEvent(e)   == Becomes(Claim(mb, e))
ClaimNextEvent(wanted) == Becomes(ClaimNext(mb, wanted))
FinishEvent(e, s) == s \in Terminal /\ Becomes(MarkTerminal(mb, e, s))
AckEvent(e)     == Becomes(AckReply(mb, e))
RequeueEvent(e) == Becomes(RewriteHead(mb, e, "queued"))
RefreshMailbox  == Becomes(Rebuild(mb))

Next ==
  \/ RefreshMailbox
  \/ \E wanted \in {Events, Replies, Events \ Replies} : ClaimNextEvent(wanted)
  \/ \E e \in Events :
       \/ DeliverEvent(e)
       \/ ClaimEvent(e)
       \/ \E s \in Terminal : FinishEvent(e, s)
       \/ AckEvent(e)
       \/ RequeueEvent(e)

Spec == Init /\ [][Next]_vars

-----------------------------------------------------------------------------
(* The daemon is killed inside an operation: the writes made so far stay,   *)
(* the others never happen.  Nothing of a mailbox is held in memory, and    *)
(* nothing repairs a mailbox at the next start.                            *)

CrashInDeliver(e) == mb.status[e] = "absent" /\ Becomes(NewEvent(mb, e))

CrashInClaim(e) ==
  /\ ClaimsAnew(mb, e)
  /\ Becomes(ClaimLogged(mb, e)) \/ Becomes(ClaimLeased(mb, e))

CrashInFinish(e, s) ==
  /\ mb.status[e] \in Live
  /\ Becomes(TerminalLogged(mb, e, s)) \/ Becomes(TerminalReleased(mb, e, s))

CrashInRequeue(e) ==
  /\ mb.status[e] \in Live
  /\ \/ Becomes(SetStatus(mb, e, "queued"))
     \/ Becomes(ReleaseLease(SetStatus(mb, e, "queued"), e))

(* ack_reply is a claim followed by a consume: the cuts inside the claim    *)
(* are those of CrashInClaim, the later ones come after a whole claim.     *)
CrashInAck(e) ==
  /\ HeadMatchesReply(mb, e) /\ ClaimsAnew(mb, e)
  /\ \/ Becomes(TerminalLogged(Claim(mb, e), e, "consumed"))
     \/ Becomes(TerminalReleased(Claim(mb, e), e, "consumed"))

Crash == \E e \in Events :
  \/ CrashInDeliver(e)
  \/ CrashInClaim(e)
  \/ \E s \in Terminal : CrashInFinish(e, s)
  \/ CrashInRequeue(e)
  \/ CrashInAck(e)

CrashNext == Next \/ Crash
CrashSpec == Init /\ [][CrashNext]_vars
-----------------------------------------------------------------------------
(* Properties. *)

(* The log, lease and summary have the shape their record types give them. *)
TypeOK == mb \in MailboxType /\ granted \in Nat

(* The summary file, which claim and mark_terminal update from its previous *)
(* counters instead of recounting, always shows what the log and the lease  *)
(* say: the queue depth, the pending replies, the head and its status, the  *)
(* event being delivered.                                                  *)
SummaryMatchesLog ==
  /\ mb.summary.depth   = Cardinality(Pending(mb))
  /\ mb.summary.replies = Cardinality(PendingReplies(mb))
  /\ mb.summary.head    = CurrentHead(mb)
  /\ mb.summary.active  = mb.lease.event

(* The lease file names an event exactly while the log says that event is   *)
(* being delivered: no delivery without a lease, no lease left behind.     *)
LeaseMatchesDelivery ==
  \A e \in Events : mb.lease.event = e <=> mb.status[e] = "delivering"

(* Only the head of the queue is ever being delivered, so at most one event *)
(* is, and none overtakes an older one.  Holds across crashes as well.     *)
OnlyHeadDelivers ==
  \A e \in Events : mb.status[e] = "delivering" => IsHead(mb, e)

(* A reply at the head of the queue can always be acknowledged: ack_reply   *)
(* claims it if needed and consumes it, so the control layer has no reason  *)
(* to panic with "failed to ack reply event".                              *)
HeadReplyCanBeAcked ==
  \A e \in Replies : IsHead(mb, e) => AckSucceeds(mb, e)

(* Every new lease carries a version above all earlier ones, although the   *)
(* lease file is removed on release: the summary carries the version over. *)
LeaseVersionsGrow ==
  [][ /\ mb'.lease # mb.lease
      /\ mb'.lease.event # NoEvent
      => mb'.lease.version > granted ]_vars

(* A mailbox implements first-in first-out delivery, whatever crashes.     *)
StageOf(s) == CASE s = "absent"     -> "new"
                [] s \in Claimable  -> "waiting"
                [] s = "delivering" -> "delivering"
                [] s \in Terminal   -> "done"
Fifo == INSTANCE FifoDelivery
          WITH stage <- [e \in Events |-> StageOf(mb.status[e])],
               rank  <- mb.pos
ImplementsFifoDelivery == Fifo!Spec
=============================================================================
