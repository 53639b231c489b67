----------------------------- MODULE MailboxOps -----------------------------
(***************************************************************************)
(* The operations of MailboxKernelService (ccbr-mailbox/src/kernel.rs) on   *)
(* one agent's mailbox, as functions from mailbox to mailbox.               *)
(*                                                                         *)
(* A mailbox is three files of the daemon's state directory:               *)
(*   - the inbox, an append-only log of event records.  The last record of  *)
(*     an event is its current one, the first record of an event fixes its  *)
(*     place in the queue: the log is kept as a status and an arrival       *)
(*     position per event;                                                  *)
(*   - the lease file, which names the event being delivered;               *)
(*   - the summary file, a cache of counters and of the head of the queue.  *)
(* Every operation writes them in this order, and each write is a separate  *)
(* file operation: the operators below keep the writes apart, so that a     *)
(* crash can be placed between any two of them.                             *)
(***************************************************************************)
EXTENDS Integers, FiniteSets

CONSTANTS
  Events,    \* inbound event ids
  Replies,   \* the events of type TaskReply; the others are TaskRequests
  NoEvent    \* absence of an event id

ASSUME EventsAssumption ==
  /\ IsFiniteSet(Events)
  /\ Replies \subseteq Events
  /\ NoEvent \notin Events

Terminal  == {"consumed", "superseded", "abandoned"}
Claimable == {"created", "queued"}
Live      == Claimable \cup {"delivering"}
Statuses  == Live \cup Terminal \cup {"absent"}

EmptyHead == [id |-> NoEvent, status |-> "absent"]
NoLease   == [event |-> NoEvent, version |-> 0]
NoSummary == [present |-> FALSE, active |-> NoEvent, depth |-> 0, replies |-> 0,
              head |-> EmptyHead, leaseVersion |-> 0, state |-> "idle"]

EmptyMailbox == [arrivals |-> 0,
                 pos      |-> [e \in Events |-> 0],
                 status   |-> [e \in Events |-> "absent"],
                 lease    |-> NoLease,
                 summary  |-> NoSummary]

SummaryType ==
  [present: BOOLEAN, active: Events \cup {NoEvent}, depth: Nat, replies: Nat,
   head: [id: Events \cup {NoEvent}, status: Statuses],
   leaseVersion: Nat, state: {"delivering", "blocked", "idle"}]

MailboxType ==
  [arrivals: Nat, pos: [Events -> Nat], status: [Events -> Statuses],
   lease: [event: Events \cup {NoEvent}, version: Nat], summary: SummaryType]

-----------------------------------------------------------------------------
(* Reading the inbox. *)

Pending(m)        == {e \in Events : m.status[e] \in Live}
PendingReplies(m) == Pending(m) \cap Replies
IsHead(m, e)      == /\ e \in Pending(m)
                     /\ \A f \in Pending(m) : m.pos[e] <= m.pos[f]
HeadPending(m)    == IF Pending(m) = {} THEN NoEvent
                     ELSE CHOOSE e \in Events : IsHead(m, e)
HeadOf(m, e)      == [id |-> e, status |-> m.status[e]]
CurrentHead(m)    == IF Pending(m) = {} THEN EmptyHead
                     ELSE HeadOf(m, HeadPending(m))

-----------------------------------------------------------------------------
(* Single file writes: a log append, the lease file, the summary file. *)

NewEvent(m, e)     == [m EXCEPT !.arrivals  = @ + 1,
                                !.pos[e]    = m.arrivals + 1,
                                !.status[e] = "queued"]
SetStatus(m, e, s) == [m EXCEPT !.status[e] = s]

(* Mutant: the version carried by the summary is forgotten. *)
LeaseVersionRestarts(m) == m.lease.version + 1

NextLeaseVersion(m) ==
  IF m.lease.event # NoEvent THEN m.lease.version + 1
                             ELSE m.summary.leaseVersion + 1

GrantLease(m, e) ==
  [m EXCEPT !.lease = [event |-> e, version |-> NextLeaseVersion(m)]]

(* Mutant: the lease file is not removed. *)
LeaseKept(m, e) == m

ReleaseLease(m, e) ==
  IF m.lease.event = e THEN [m EXCEPT !.lease = NoLease] ELSE m

DeriveState(hasActive, depth) ==
  CASE hasActive                -> "delivering"
    [] ~hasActive /\ depth > 0  -> "blocked"
    [] ~hasActive /\ depth <= 0 -> "idle"

(* build_mailbox_summary_record and the save that follows it. *)
SaveSummary(m, depth, replies, active, head) ==
  [m EXCEPT !.summary =
     [present      |-> TRUE,
      active       |-> active,
      depth        |-> depth,
      replies      |-> replies,
      head         |-> head,
      leaseVersion |-> IF m.lease.event # NoEvent THEN m.lease.version
                       ELSE m.summary.leaseVersion,
      state        |-> DeriveState(m.lease.event # NoEvent \/ active # NoEvent,
                                   depth)]]

(* rebuild_mailbox_summary: the summary recomputed from the log. *)
Rebuild(m) ==
  SaveSummary(m, Cardinality(Pending(m)), Cardinality(PendingReplies(m)),
              m.lease.event, CurrentHead(m))

(* apply_incremental_summary_update: counters moved, not recomputed. *)
Increment(m, queueDelta, replyDelta) ==
  SaveSummary(m, m.summary.depth + queueDelta, m.summary.replies + replyDelta,
              m.summary.active,
              IF Pending(m) = {} THEN m.summary.head ELSE CurrentHead(m))

-----------------------------------------------------------------------------
(* Delivery of a new event: a request (+1, 0) or a reply (+1, +1). *)

Deliver(m, e) == Increment(NewEvent(m, e), 1, IF e \in Replies THEN 1 ELSE 0)

(* Claiming.  ClaimSucceeds is the `is_some()` of the value claim returns. *)
(* Mutant: claim does not look at the head of the queue. *)
AnyIsClaimable(m, e) == m.status[e] \in Claimable

ConflictingLease(m, e) == m.lease.event \notin {NoEvent, e}
IsClaimableHead(m, e)  == m.status[e] \in Claimable /\ HeadPending(m) = e
ClaimSucceeds(m, e) ==
  /\ m.status[e] \in Live
  /\ ~ConflictingLease(m, e)
  /\ m.status[e] = "delivering" \/ IsClaimableHead(m, e)
ClaimsAnew(m, e) == ClaimSucceeds(m, e) /\ m.status[e] # "delivering"

ClaimSummary(m, e) ==
  LET p == m.summary
  IN  IF ~p.present \/ p.depth = 0 \/ p.head.id # e
      THEN Rebuild(m)
      ELSE SaveSummary(m, p.depth, p.replies, e, HeadOf(m, e))
ClaimLogged(m, e) == SetStatus(m, e, "delivering")
ClaimLeased(m, e) == GrantLease(ClaimLogged(m, e), e)
Claim(m, e) ==
  IF m.status[e] \notin Live THEN m
  ELSE IF ClaimsAnew(m, e) THEN ClaimSummary(ClaimLeased(m, e), e)
  ELSE Rebuild(m)

(* claim_next: the head, if it is of the wanted type and claimable. *)
ClaimNext(m, wanted) ==
  LET h == HeadPending(m)
  IN  IF h \in wanted /\ h # NoEvent /\ m.status[h] \in Claimable
      THEN Claim(m, h)
      ELSE Rebuild(m)

(* mark_terminal: consume, abandon, supersede. *)
SummaryActive(p, e) == IF p.active = e THEN NoEvent ELSE p.active

(* Mutant: a decrement that does not saturate. *)
PlainDecrement(n) == n - 1

Decrement(n) == IF n = 0 THEN 0 ELSE n - 1

(* Mutant: the summary keeps naming the finished event as the head. *)
HeadNotMoved(m, e) ==
  LET p == m.summary
  IN  SaveSummary(m, Decrement(p.depth),
                  IF e \in Replies THEN Decrement(p.replies) ELSE p.replies,
                  SummaryActive(p, e), p.head)

(* Mutant: every end counts as that of a pending reply. *)
EveryEndIsAReply(m, e) ==
  LET p == m.summary
  IN  SaveSummary(m, Decrement(p.depth), p.replies - 1, SummaryActive(p, e), CurrentHead(m))

TerminalSummary(m, e) ==
  LET p       == m.summary
      depth   == Decrement(p.depth)
      replies == IF e \in Replies THEN Decrement(p.replies) ELSE p.replies
  IN  IF \/ ~p.present \/ p.depth = 0
         \/ p.head.id = e /\ depth # 0 /\ Pending(m) = {}
      THEN Rebuild(m)
      ELSE SaveSummary(m, depth, replies, SummaryActive(p, e),
                       IF p.head.id # e THEN p.head
                       ELSE IF depth = 0 THEN EmptyHead
                       ELSE CurrentHead(m))
TerminalLogged(m, e, s)   == SetStatus(m, e, s)
TerminalReleased(m, e, s) == ReleaseLease(TerminalLogged(m, e, s), e)
MarkTerminal(m, e, s) ==
  IF m.status[e] \notin Live THEN Rebuild(m)
  ELSE TerminalSummary(TerminalReleased(m, e, s), e)

(* ack_reply: the head reply is claimed if it is not being delivered yet,   *)
(* then consumed.                                                          *)
HeadMatchesReply(m, e) == e \in Replies /\ HeadPending(m) = e
AckSucceeds(m, e)      == HeadMatchesReply(m, e) /\ ClaimSucceeds(m, e)
AckReply(m, e) ==
  IF ~HeadMatchesReply(m, e) THEN Rebuild(m)
  ELSE IF m.status[e] = "delivering" THEN MarkTerminal(m, e, "consumed")
  ELSE IF ~ClaimSucceeds(m, e) THEN Rebuild(Claim(m, e))
  ELSE MarkTerminal(Claim(m, e), e, "consumed")

(* rewrite_head: an event put back with a new payload and status. *)
RewriteSummary(m, e) ==
  LET p == m.summary
  IN  IF ~p.present \/ p.head.id # e \/ p.depth = 0
      THEN Rebuild(m)
      ELSE SaveSummary(m, p.depth, p.replies, SummaryActive(p, e), HeadOf(m, e))
RewriteHead(m, e, s) ==
  IF m.status[e] \notin Live THEN Rebuild(m)
  ELSE RewriteSummary(ReleaseLease(SetStatus(m, e, s), e), e)
=============================================================================
