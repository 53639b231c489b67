-------------------------- MODULE MailboxOps_proofs --------------------------
(***************************************************************************)
(* Lemmas about the operations of a mailbox, for every finite set of        *)
(* events: what each operation, and each single write of it, does to the    *)
(* log, and that a mailbox whose summary and lease agree with its log stays *)
(* so under every operation.                                               *)
(***************************************************************************)
EXTENDS MailboxOps, TLAPS, FiniteSetTheorems, NaturalsInduction,
        WellFoundedInduction

(* A set of naturals that is not empty has a least element. *)
LEMMA LeastNatural ==
  ASSUME NEW T \in SUBSET Nat, T # {}
  PROVE  \E x \in T : \A y \in T : x <= y
<1> DEFINE R == OpToRel(<, Nat)
<1>1. PICK x \in T : \A y \in T : ~(<<y, x>> \in R)
  <2>1. IsWellFoundedOn(R, Nat)
    BY NatLessThanWellFounded
  <2> HIDE DEF R
  <2> QED BY <2>1, WFMin
<1>2. ASSUME NEW y \in T PROVE x <= y
  <2>1. <<y, x>> \notin R BY <1>1
  <2>2. ~(y < x) BY <2>1 DEF OpToRel
  <2> QED BY <2>2
<1> QED BY <1>2

(* A mailbox with pending events has a head, and HeadPending is it. *)
LEMMA HeadIsHead ==
  ASSUME NEW m \in MailboxType, Pending(m) # {}
  PROVE  HeadPending(m) \in Events /\ IsHead(m, HeadPending(m))
<1> DEFINE T == {m.pos[e] : e \in Pending(m)}
<1>1. /\ Pending(m) \subseteq Events
      /\ \A e \in Events : m.pos[e] \in Nat
  BY DEF Pending, MailboxType
<1>2. T \in SUBSET Nat /\ T # {}
  BY <1>1
<1>3. PICK x \in T : \A y \in T : x <= y
  <2> HIDE DEF T
  <2> QED BY <1>2, LeastNatural
<1>4. PICK e \in Pending(m) : x = m.pos[e]
  OBVIOUS
<1>5. IsHead(m, e)
  BY <1>3, <1>4 DEF IsHead
<1>6. e \in Events
  BY <1>1
<1> QED BY <1>5, <1>6 DEF HeadPending

-----------------------------------------------------------------------------
(* The invariant of the log, with or without crashes: positions grow with   *)
(* arrival and tell events apart, and only the head is being delivered.    *)

LogInv(m) ==
  /\ \A e \in Events : m.pos[e] <= m.arrivals
  /\ \A e, f \in Events :
       m.status[e] # "absent" /\ m.status[f] # "absent" /\ m.pos[e] = m.pos[f]
       => e = f
HeadInv(m) == \A e \in Events : m.status[e] = "delivering" => IsHead(m, e)
Good(m)    == m \in MailboxType /\ LogInv(m) /\ HeadInv(m)

SameLog(m, n) == /\ n.arrivals = m.arrivals
                 /\ n.pos = m.pos
                 /\ n.status = m.status

(* There is one head. *)
LEMMA HeadUnique ==
  ASSUME NEW m \in MailboxType, LogInv(m),
         NEW e \in Events, NEW f \in Events, IsHead(m, e), IsHead(m, f)
  PROVE  e = f
<1>1. m.pos[e] \in Nat /\ m.pos[f] \in Nat
  BY DEF MailboxType
<1>2. m.pos[e] = m.pos[f]
  BY <1>1 DEF IsHead
<1>3. m.status[e] # "absent" /\ m.status[f] # "absent"
  BY DEF IsHead, Pending, Live, Claimable
<1> QED BY <1>2, <1>3 DEF LogInv

(* HeadPending names the head, and nothing else. *)
LEMMA HeadPendingIs ==
  ASSUME NEW m \in MailboxType, LogInv(m), NEW e \in Events
  PROVE  HeadPending(m) = e <=> IsHead(m, e)
<1>1. CASE Pending(m) = {}
  <2>1. HeadPending(m) = NoEvent BY <1>1 DEF HeadPending
  <2>2. NoEvent # e BY EventsAssumption
  <2> QED BY <1>1, <2>1, <2>2 DEF IsHead
<1>2. CASE Pending(m) # {}
  BY <1>2, HeadIsHead, HeadUnique
<1> QED BY <1>1, <1>2

(* What is read from the log depends on the log alone. *)
LEMMA SameLogSameHead ==
  ASSUME NEW m \in MailboxType, NEW n \in MailboxType, LogInv(m), SameLog(m, n)
  PROVE  /\ LogInv(n)
         /\ Pending(n) = Pending(m)
         /\ PendingReplies(n) = PendingReplies(m)
         /\ \A e \in Events : IsHead(n, e) <=> IsHead(m, e)
         /\ HeadPending(n) = HeadPending(m)
         /\ CurrentHead(n) = CurrentHead(m)
<1>1. LogInv(n)
  BY DEF LogInv, SameLog
<1>2. Pending(n) = Pending(m) /\ PendingReplies(n) = PendingReplies(m)
  BY DEF Pending, SameLog, PendingReplies
<1>3. \A e \in Events : IsHead(n, e) <=> IsHead(m, e)
  BY <1>2 DEF IsHead, SameLog
<1>4. HeadPending(n) = HeadPending(m)
  <2>1. CASE Pending(m) = {}
    BY <2>1, <1>2 DEF HeadPending
  <2>2. CASE Pending(m) # {}
    BY <2>2, <1>1, <1>2, <1>3, HeadIsHead, HeadPendingIs
  <2> QED BY <2>1, <2>2
<1>5. CurrentHead(n) = CurrentHead(m)
  BY <1>2, <1>4 DEF CurrentHead, HeadOf, SameLog
<1> QED BY <1>1, <1>2, <1>3, <1>4, <1>5

Heads == [id: Events \cup {NoEvent}, status: Statuses]

(* head_pending_event returns an event or nothing, with a status. *)
LEMMA CurrentHeadType ==
  ASSUME NEW m \in MailboxType
  PROVE  CurrentHead(m) \in Heads
<1>1. CASE Pending(m) = {}
  BY <1>1 DEF CurrentHead, EmptyHead, Statuses, Heads
<1>2. CASE Pending(m) # {}
  BY <1>2, HeadIsHead DEF CurrentHead, HeadOf, MailboxType, Heads
<1> QED BY <1>1, <1>2

(* Saving a summary touches neither the log nor the lease. *)
Saved(m, n, depth, replies, active, head) ==
  /\ n \in MailboxType
  /\ SameLog(m, n)
  /\ n.lease = m.lease
  /\ n.summary.present
  /\ n.summary.depth = depth
  /\ n.summary.replies = replies
  /\ n.summary.active = active
  /\ n.summary.head = head
  /\ n.summary.leaseVersion = IF m.lease.event # NoEvent THEN m.lease.version
                              ELSE m.summary.leaseVersion

(* Saving a summary changes the summary alone, and to a proper one. *)
LEMMA SaveKeepsLog ==
  ASSUME NEW m \in MailboxType, NEW depth \in Nat, NEW replies \in Nat,
         NEW active \in Events \cup {NoEvent}, NEW head \in Heads
  PROVE  Saved(m, SaveSummary(m, depth, replies, active, head),
               depth, replies, active, head)
<1> DEFINE n == SaveSummary(m, depth, replies, active, head)
           st == DeriveState(m.lease.event # NoEvent \/ active # NoEvent, depth)
           lv == IF m.lease.event # NoEvent THEN m.lease.version
                 ELSE m.summary.leaseVersion
           s  == [present |-> TRUE, active |-> active, depth |-> depth,
                  replies |-> replies, head |-> head, leaseVersion |-> lv,
                  state |-> st]
<1>1. n = [m EXCEPT !.summary = s]
  BY DEF SaveSummary
<1>2. lv \in Nat
  BY DEF MailboxType, SummaryType
<1>3. st \in {"delivering", "blocked", "idle"}
  BY DEF DeriveState
<1>4. s \in SummaryType
  <2> HIDE DEF lv, st
  <2> QED BY <1>2, <1>3 DEF SummaryType, Heads
<1>5. /\ n \in MailboxType
      /\ n.summary = s
      /\ n.lease = m.lease
      /\ SameLog(m, n)
  <2> HIDE DEF n, s
  <2> QED BY <1>1, <1>4 DEF MailboxType, SameLog
<1> QED
  <2> HIDE DEF n
  <2>1. /\ s.present /\ s.depth = depth /\ s.replies = replies
        /\ s.active = active /\ s.head = head /\ s.leaseVersion = lv
    OBVIOUS
  <2> HIDE DEF s
  <2> QED BY <1>5, <2>1 DEF n, Saved

(* The pending events and replies can be counted. *)
LEMMA PendingFinite ==
  ASSUME NEW m \in MailboxType
  PROVE  /\ IsFiniteSet(Pending(m)) /\ IsFiniteSet(PendingReplies(m))
         /\ Cardinality(Pending(m)) \in Nat
         /\ Cardinality(PendingReplies(m)) \in Nat
<1>1. Pending(m) \subseteq Events /\ PendingReplies(m) \subseteq Events
  BY DEF Pending, PendingReplies
<1>2. IsFiniteSet(Pending(m)) /\ IsFiniteSet(PendingReplies(m))
  BY <1>1, EventsAssumption, FS_Subset
<1> QED BY <1>2, FS_CardinalityType

(* A rebuilt summary shows the log it was rebuilt from. *)
LEMMA RebuildKeepsLog ==
  ASSUME NEW m \in MailboxType
  PROVE  Saved(m, Rebuild(m), Cardinality(Pending(m)),
               Cardinality(PendingReplies(m)), m.lease.event, CurrentHead(m))
<1>1. m.lease.event \in Events \cup {NoEvent}
  BY DEF MailboxType
<1> QED BY <1>1, PendingFinite, CurrentHeadType, SaveKeepsLog DEF Rebuild

-----------------------------------------------------------------------------
(* The single file writes. *)

Kept(m, n) == n \in MailboxType /\ SameLog(m, n) /\ n.lease = m.lease
LogTo(m, n, e, s) == /\ n \in MailboxType
                     /\ n.arrivals = m.arrivals
                     /\ n.pos = m.pos
                     /\ n.status = [m.status EXCEPT ![e] = s]
Arrives(m, n, e) == /\ n \in MailboxType
                    /\ n.arrivals = m.arrivals + 1
                    /\ n.pos = [m.pos EXCEPT ![e] = m.arrivals + 1]
                    /\ n.status = [m.status EXCEPT ![e] = "queued"]

(* Appending a new event puts it behind all others. *)
LEMMA NewEventLog ==
  ASSUME NEW m \in MailboxType, NEW e \in Events
  PROVE  /\ Arrives(m, NewEvent(m, e), e)
         /\ NewEvent(m, e).lease = m.lease
         /\ NewEvent(m, e).summary = m.summary
<1> DEFINE n == NewEvent(m, e)
<1>1. m \in [arrivals: Nat, pos: [Events -> Nat], status: [Events -> Statuses],
             lease: [event: Events \cup {NoEvent}, version: Nat],
             summary: SummaryType]
  BY DEF MailboxType
<1>2. n = [m EXCEPT !.arrivals = m.arrivals + 1,
                    !.pos = [m.pos EXCEPT ![e] = m.arrivals + 1],
                    !.status = [m.status EXCEPT ![e] = "queued"]]
  BY <1>1 DEF NewEvent
<1>3. /\ n.arrivals = m.arrivals + 1
      /\ n.pos = [m.pos EXCEPT ![e] = m.arrivals + 1]
      /\ n.status = [m.status EXCEPT ![e] = "queued"]
      /\ n.lease = m.lease
      /\ n.summary = m.summary
  BY <1>1, <1>2
<1>4. n \in MailboxType
  <2>1. "queued" \in Statuses BY DEF Statuses, Live, Claimable
  <2>2. /\ m.arrivals + 1 \in Nat
        /\ [m.pos EXCEPT ![e] = m.arrivals + 1] \in [Events -> Nat]
        /\ [m.status EXCEPT ![e] = "queued"] \in [Events -> Statuses]
    BY <1>1, <2>1
  <2> QED BY <1>1, <1>2, <2>2 DEF MailboxType
<1> QED BY <1>3, <1>4 DEF Arrives

(* Appending a record of an event changes its status alone. *)
LEMMA SetStatusLog ==
  ASSUME NEW m \in MailboxType, NEW e \in Events, NEW s \in Statuses
  PROVE  /\ LogTo(m, SetStatus(m, e, s), e, s)
         /\ SetStatus(m, e, s).lease = m.lease
         /\ SetStatus(m, e, s).summary = m.summary
BY DEF MailboxType, SetStatus, LogTo

(* Writing the lease leaves the log alone. *)
LEMMA GrantLeaseLog ==
  ASSUME NEW m \in MailboxType, NEW e \in Events
  PROVE  /\ GrantLease(m, e) \in MailboxType
         /\ SameLog(m, GrantLease(m, e))
         /\ GrantLease(m, e).lease =
              [event |-> e, version |-> NextLeaseVersion(m)]
         /\ GrantLease(m, e).summary = m.summary
<1>1. NextLeaseVersion(m) \in Nat
  BY DEF MailboxType, SummaryType, NextLeaseVersion
<1> QED BY <1>1 DEF MailboxType, GrantLease, SameLog

(* Removing the lease leaves the log alone. *)
LEMMA ReleaseLeaseLog ==
  ASSUME NEW m \in MailboxType, NEW e \in Events
  PROVE  /\ ReleaseLease(m, e) \in MailboxType
         /\ SameLog(m, ReleaseLease(m, e))
         /\ ReleaseLease(m, e).lease =
              IF m.lease.event = e THEN NoLease ELSE m.lease
         /\ ReleaseLease(m, e).summary = m.summary
<1>1. NoLease \in [event: Events \cup {NoEvent}, version: Nat]
  BY DEF NoLease
<1> QED BY <1>1 DEF MailboxType, ReleaseLease, SameLog

(* Steps that keep the log may follow one that changes it. *)
LEMMA LogToSame ==
  ASSUME NEW m, NEW n, NEW k \in MailboxType, NEW e, NEW s,
         LogTo(m, n, e, s), SameLog(n, k)
  PROVE  LogTo(m, k, e, s)
BY DEF LogTo, SameLog

-----------------------------------------------------------------------------
(* The summary updates keep the log and the lease. *)

(* A head built from an event has the type of a head. *)
LEMMA HeadOfType ==
  ASSUME NEW m \in MailboxType, NEW e \in Events
  PROVE  HeadOf(m, e) \in Heads
BY DEF MailboxType, HeadOf, Heads

(* The fields of a summary have their types. *)
LEMMA SummaryFields ==
  ASSUME NEW m \in MailboxType
  PROVE  /\ m.summary.depth \in Nat /\ m.summary.replies \in Nat
         /\ m.summary.active \in Events \cup {NoEvent}
         /\ m.summary.head \in Heads
         /\ m.summary.leaseVersion \in Nat
         /\ m.lease.event \in Events \cup {NoEvent} /\ m.lease.version \in Nat
BY DEF MailboxType, SummaryType, Heads

(* Saving a summary keeps log and lease. *)
LEMMA SavedKept ==
  ASSUME NEW m, NEW n, NEW d, NEW r, NEW a, NEW h, Saved(m, n, d, r, a, h)
  PROVE  Kept(m, n)
BY DEF Saved, Kept

(* Rebuilding the summary keeps log and lease. *)
LEMMA RebuildKept == ASSUME NEW m \in MailboxType PROVE Kept(m, Rebuild(m))
BY RebuildKeepsLog, SavedKept

(* Delivering an event is a log step. *)
LEMMA DeliverLog ==
  ASSUME NEW m \in MailboxType, NEW e \in Events
  PROVE  Arrives(m, Deliver(m, e), e)
<1> DEFINE n == NewEvent(m, e)
           d == n.summary.depth + 1
           r == n.summary.replies + IF e \in Replies THEN 1 ELSE 0
           a == n.summary.active
           h == IF Pending(n) = {} THEN n.summary.head ELSE CurrentHead(n)
<1>1. Arrives(m, n, e) BY NewEventLog
<1>2. n \in MailboxType BY <1>1 DEF Arrives
<1>3. Deliver(m, e) = SaveSummary(n, d, r, a, h)
  BY DEF Deliver, Increment
<1> HIDE DEF n
<1>4. h \in Heads BY <1>2, SummaryFields, CurrentHeadType
<1>5. d \in Nat /\ r \in Nat /\ a \in Events \cup {NoEvent}
  BY <1>2, SummaryFields
<1> HIDE DEF d, r, a, h
<1>6. Kept(n, Deliver(m, e))
  BY <1>2, <1>3, <1>4, <1>5, SaveKeepsLog, SavedKept
<1> QED BY <1>1, <1>6 DEF Arrives, Kept, SameLog

(* The summary update of a claim keeps log and lease. *)
LEMMA ClaimSummaryKept ==
  ASSUME NEW m \in MailboxType, NEW e \in Events
  PROVE  Kept(m, ClaimSummary(m, e))
<1>1. \/ ClaimSummary(m, e) = Rebuild(m)
      \/ ClaimSummary(m, e) = SaveSummary(m, m.summary.depth, m.summary.replies,
                                          e, HeadOf(m, e))
  BY DEF ClaimSummary
<1> QED BY <1>1, RebuildKept, SummaryFields, HeadOfType, SaveKeepsLog, SavedKept

(* The summary update of rewrite_head keeps log and lease. *)
LEMMA RewriteSummaryKept ==
  ASSUME NEW m \in MailboxType, NEW e \in Events
  PROVE  Kept(m, RewriteSummary(m, e))
<1> DEFINE a == SummaryActive(m.summary, e)
<1>1. \/ RewriteSummary(m, e) = Rebuild(m)
      \/ RewriteSummary(m, e) = SaveSummary(m, m.summary.depth,
                                            m.summary.replies, a, HeadOf(m, e))
  BY DEF RewriteSummary
<1>2. a \in Events \cup {NoEvent} BY SummaryFields DEF SummaryActive
<1> HIDE DEF a
<1> QED
  BY <1>1, <1>2, RebuildKept, SummaryFields, HeadOfType, SaveKeepsLog, SavedKept

(* The summary update of mark_terminal keeps log and lease. *)
LEMMA TerminalSummaryKept ==
  ASSUME NEW m \in MailboxType, NEW e \in Events
  PROVE  Kept(m, TerminalSummary(m, e))
<1> DEFINE p == m.summary
           d == Decrement(p.depth)
           r == IF e \in Replies THEN Decrement(p.replies) ELSE p.replies
           a == SummaryActive(p, e)
           h == IF p.head.id # e THEN p.head
                ELSE IF d = 0 THEN EmptyHead ELSE CurrentHead(m)
<1>1. \/ TerminalSummary(m, e) = Rebuild(m)
      \/ TerminalSummary(m, e) = SaveSummary(m, d, r, a, h)
  BY DEF TerminalSummary
<1>2. d \in Nat /\ r \in Nat BY SummaryFields DEF Decrement
<1>3. a \in Events \cup {NoEvent} BY SummaryFields DEF SummaryActive
<1>4. EmptyHead \in Heads BY DEF EmptyHead, Heads, Statuses
<1>5. h \in Heads BY <1>4, SummaryFields, CurrentHeadType
<1> HIDE DEF d, r, a, h
<1> QED BY <1>1, <1>2, <1>3, <1>5, RebuildKept, SaveKeepsLog, SavedKept

-----------------------------------------------------------------------------
(* What one step of the daemon, cut short or not, does to the log: nothing, *)
(* an arrival, the end (or return to the queue) of a live event, or the     *)
(* start of the delivery of the head.                                      *)

Starts(m, n, e) == /\ m.status[e] \in Claimable
                   /\ HeadPending(m) = e
                   /\ LogTo(m, n, e, "delivering")
LogStep(m, n) ==
  \/ n \in MailboxType /\ SameLog(m, n)
  \/ \E e \in Events : m.status[e] = "absent" /\ Arrives(m, n, e)
  \/ \E e \in Events : \E s \in Terminal \cup {"queued"} :
       m.status[e] \in Live /\ LogTo(m, n, e, s)
  \/ \E e \in Events : Starts(m, n, e)

(* Claimable, live and terminal statuses are disjoint where they must be. *)
LEMMA StatusSets ==
  /\ Terminal \subseteq Statuses /\ Live \subseteq Statuses
  /\ "delivering" \in Statuses /\ "queued" \in Statuses
  /\ "queued" \in Live /\ "delivering" \in Live /\ "absent" \notin Live
  /\ Terminal \cap Live = {} /\ Claimable \subseteq Live
  /\ "delivering" \notin Claimable /\ "delivering" \notin Terminal
  /\ "absent" \notin Terminal
BY DEF Terminal, Live, Claimable, Statuses

(* A claim cut short after the lease is a log step. *)
LEMMA ClaimLeasedLog ==
  ASSUME NEW m \in MailboxType, NEW e \in Events
  PROVE  LogTo(m, ClaimLeased(m, e), e, "delivering")
<1> DEFINE n == SetStatus(m, e, "delivering")
<1>1. LogTo(m, n, e, "delivering") BY SetStatusLog, StatusSets
<1>2. n \in MailboxType BY <1>1 DEF LogTo
<1>3. ClaimLeased(m, e) = GrantLease(n, e) BY DEF ClaimLeased, ClaimLogged
<1> HIDE DEF n
<1> QED BY <1>1, <1>2, <1>3, GrantLeaseLog, LogToSame

(* A claim that succeeds is a log step. *)
LEMMA ClaimAnewLog ==
  ASSUME NEW m \in MailboxType, NEW e \in Events, ClaimsAnew(m, e)
  PROVE  Starts(m, Claim(m, e), e)
<1> DEFINE n == ClaimLeased(m, e)
<1>1. LogTo(m, n, e, "delivering") BY ClaimLeasedLog
<1>2. n \in MailboxType BY <1>1 DEF LogTo
<1>3. Claim(m, e) = ClaimSummary(n, e) BY DEF Claim, ClaimsAnew, ClaimSucceeds
<1>4. m.status[e] \in Claimable /\ HeadPending(m) = e
  BY DEF ClaimsAnew, ClaimSucceeds, IsClaimableHead
<1> HIDE DEF n
<1>5. LogTo(m, Claim(m, e), e, "delivering")
  BY <1>1, <1>2, <1>3, ClaimSummaryKept, LogToSame DEF Kept
<1> QED BY <1>4, <1>5 DEF Starts

(* Any claim is a log step or keeps the log. *)
LEMMA ClaimLog ==
  ASSUME NEW m \in MailboxType, NEW e \in Events
  PROVE  LogStep(m, Claim(m, e)) /\ Claim(m, e) \in MailboxType
<1>1. CASE ClaimsAnew(m, e)
  BY <1>1, ClaimAnewLog DEF LogStep, Starts, LogTo
<1>2. CASE ~ClaimsAnew(m, e)
  <2>1. Claim(m, e) = m \/ Claim(m, e) = Rebuild(m) BY <1>2 DEF Claim
  <2>2. SameLog(m, m) BY DEF SameLog
  <2> QED BY <2>1, <2>2, RebuildKept DEF LogStep, Kept
<1> QED BY <1>1, <1>2

(* A finish cut short after the lease is a log step. *)
LEMMA TerminalReleasedLog ==
  ASSUME NEW m \in MailboxType, NEW e \in Events, NEW s \in Statuses
  PROVE  LogTo(m, ReleaseLease(SetStatus(m, e, s), e), e, s)
<1> DEFINE n == SetStatus(m, e, s)
<1>1. LogTo(m, n, e, s) BY SetStatusLog
<1>2. n \in MailboxType BY <1>1 DEF LogTo
<1> HIDE DEF n
<1>3. LogTo(m, ReleaseLease(n, e), e, s)
  BY <1>1, <1>2, ReleaseLeaseLog, LogToSame
<1> QED BY <1>3 DEF n

(* Finishing an event is a log step or keeps the log. *)
LEMMA MarkTerminalLog ==
  ASSUME NEW m \in MailboxType, NEW e \in Events, NEW s \in Terminal
  PROVE  IF m.status[e] \in Live THEN LogTo(m, MarkTerminal(m, e, s), e, s)
         ELSE Kept(m, MarkTerminal(m, e, s))
<1> DEFINE n == TerminalReleased(m, e, s)
<1>1. LogTo(m, n, e, s)
  BY TerminalReleasedLog, StatusSets DEF TerminalReleased, TerminalLogged
<1>2. n \in MailboxType BY <1>1 DEF LogTo
<1>3. CASE m.status[e] \in Live
  <2>1. MarkTerminal(m, e, s) = TerminalSummary(n, e)
    BY <1>3 DEF MarkTerminal
  <2> HIDE DEF n
  <2> QED BY <1>1, <1>2, <1>3, <2>1, TerminalSummaryKept, LogToSame DEF Kept
<1>4. CASE m.status[e] \notin Live
  BY <1>4, RebuildKept DEF MarkTerminal
<1> QED BY <1>3, <1>4

(* rewrite_head is a log step or keeps the log. *)
LEMMA RewriteHeadLog ==
  ASSUME NEW m \in MailboxType, NEW e \in Events
  PROVE  IF m.status[e] \in Live THEN LogTo(m, RewriteHead(m, e, "queued"), e, "queued")
         ELSE Kept(m, RewriteHead(m, e, "queued"))
<1> DEFINE n == ReleaseLease(SetStatus(m, e, "queued"), e)
<1>1. LogTo(m, n, e, "queued") BY TerminalReleasedLog, StatusSets
<1>2. n \in MailboxType BY <1>1 DEF LogTo
<1>3. CASE m.status[e] \in Live
  <2>1. RewriteHead(m, e, "queued") = RewriteSummary(n, e)
    BY <1>3 DEF RewriteHead
  <2> HIDE DEF n
  <2> QED BY <1>1, <1>2, <1>3, <2>1, RewriteSummaryKept, LogToSame DEF Kept
<1>4. CASE m.status[e] \notin Live
  BY <1>4, RebuildKept DEF RewriteHead
<1> QED BY <1>3, <1>4

(* A claim followed by the end of the claimed event ends it. *)
LEMMA LogToTwice ==
  ASSUME NEW m \in MailboxType, NEW n, NEW k, NEW e \in Events, NEW s, NEW t,
         LogTo(m, n, e, s), LogTo(n, k, e, t)
  PROVE  LogTo(m, k, e, t)
<1>1. m.status \in [Events -> Statuses] BY DEF MailboxType
<1> QED BY <1>1 DEF LogTo

(* Acknowledging a reply is, as a whole, one log step or none. *)
LEMMA AckReplyLog ==
  ASSUME NEW m \in MailboxType, NEW e \in Events
  PROVE  LogStep(m, AckReply(m, e))
<1>1. CASE ~HeadMatchesReply(m, e)
  BY <1>1, RebuildKept DEF AckReply, LogStep, Kept
<1>2. CASE HeadMatchesReply(m, e) /\ m.status[e] = "delivering"
  <2>1. AckReply(m, e) = MarkTerminal(m, e, "consumed") BY <1>2 DEF AckReply
  <2>2. LogTo(m, AckReply(m, e), e, "consumed")
    BY <1>2, <2>1, MarkTerminalLog, StatusSets DEF Terminal
  <2> QED BY <1>2, <2>2, StatusSets DEF LogStep, Terminal
<1>3. CASE /\ HeadMatchesReply(m, e) /\ m.status[e] # "delivering"
           /\ ~ClaimSucceeds(m, e)
  <2>1. AckReply(m, e) = Rebuild(Claim(m, e)) BY <1>3 DEF AckReply
  <2>2. Claim(m, e) = m \/ Claim(m, e) = Rebuild(m)
    BY <1>3 DEF Claim, ClaimsAnew
  <2>3. Kept(m, Claim(m, e))
    BY <2>2, RebuildKept DEF Kept, SameLog
  <2>4. Kept(Claim(m, e), AckReply(m, e))
    BY <2>1, <2>3, RebuildKept DEF Kept
  <2> QED BY <2>3, <2>4 DEF LogStep, Kept, SameLog
<1>4. CASE /\ HeadMatchesReply(m, e) /\ m.status[e] # "delivering"
           /\ ClaimSucceeds(m, e)
  <2> DEFINE n == Claim(m, e)
  <2>1. AckReply(m, e) = MarkTerminal(n, e, "consumed") BY <1>4 DEF AckReply
  <2>2. Starts(m, n, e) BY <1>4, ClaimAnewLog DEF ClaimsAnew
  <2>3. n \in MailboxType /\ n.status[e] = "delivering"
    <3>1. m.status \in [Events -> Statuses] BY DEF MailboxType
    <3> QED BY <2>2, <3>1 DEF Starts, LogTo
  <2>4. m.status[e] \in Live BY <1>4 DEF ClaimSucceeds
  <2> HIDE DEF n
  <2>5. LogTo(n, AckReply(m, e), e, "consumed")
    BY <2>1, <2>3, MarkTerminalLog, StatusSets DEF Terminal
  <2>6. LogTo(m, AckReply(m, e), e, "consumed")
    BY <2>2, <2>5, LogToTwice DEF Starts
  <2> QED BY <2>4, <2>6 DEF LogStep, Terminal
<1> QED BY <1>1, <1>2, <1>3, <1>4

-----------------------------------------------------------------------------
(* The log invariant holds at first and under every log step. *)

(* The empty mailbox is good. *)
LEMMA EmptyGood == Good(EmptyMailbox)
<1>1. NoSummary \in SummaryType
  BY DEF NoSummary, SummaryType, EmptyHead, Statuses
<1>2. EmptyMailbox \in MailboxType
  BY <1>1 DEF EmptyMailbox, MailboxType, NoLease, Statuses
<1>3. LogInv(EmptyMailbox) /\ HeadInv(EmptyMailbox)
  BY DEF EmptyMailbox, LogInv, HeadInv
<1> QED BY <1>2, <1>3 DEF Good

(* Every step, crashes included, keeps the mailbox good. *)
LEMMA GoodStep ==
  ASSUME NEW m, NEW n, Good(m), LogStep(m, n)
  PROVE  Good(n)
<1>1. /\ m \in MailboxType /\ LogInv(m) /\ HeadInv(m)
      /\ m.arrivals \in Nat
      /\ m.pos \in [Events -> Nat] /\ m.status \in [Events -> Statuses]
  BY DEF Good, MailboxType
<1>2. CASE n \in MailboxType /\ SameLog(m, n)
  <2>1. LogInv(n) /\ \A e \in Events : IsHead(n, e) <=> IsHead(m, e)
    BY <1>1, <1>2, SameLogSameHead
  <2> QED BY <1>1, <1>2, <2>1 DEF Good, HeadInv, SameLog
<1>3. ASSUME NEW e \in Events, m.status[e] = "absent", Arrives(m, n, e)
      PROVE  Good(n)
  <2>1. LogInv(n)
    BY <1>1, <1>3 DEF LogInv, Arrives
  <2>2. ASSUME NEW f \in Events, n.status[f] = "delivering"
        PROVE  IsHead(n, f)
    <3>1. f # e /\ m.status[f] = "delivering" BY <1>1, <1>3, <2>2 DEF Arrives
    <3>2. IsHead(m, f) BY <1>1, <3>1 DEF HeadInv
    <3>3. Pending(n) = Pending(m) \cup {e}
      BY <1>1, <1>3, StatusSets DEF Pending, Arrives
    <3>4. n.pos[f] = m.pos[f] /\ m.pos[f] <= m.arrivals
      BY <1>1, <1>3, <3>1 DEF Arrives, LogInv
    <3>5. \A g \in Pending(n) : n.pos[f] <= n.pos[g]
      BY <1>1, <1>3, <3>2, <3>3, <3>4 DEF IsHead, Arrives, Pending
    <3> QED BY <3>2, <3>3, <3>5 DEF IsHead
  <2> QED BY <1>3, <2>1, <2>2 DEF Good, HeadInv, Arrives
<1>4. ASSUME NEW e \in Events, NEW s \in Terminal \cup {"queued"},
             m.status[e] \in Live, LogTo(m, n, e, s)
      PROVE  Good(n)
  <2>1. LogInv(n)
    BY <1>1, <1>4, StatusSets DEF LogInv, LogTo
  <2>2. Pending(n) \subseteq Pending(m)
    BY <1>1, <1>4, StatusSets DEF Pending, LogTo
  <2>3. ASSUME NEW f \in Events, n.status[f] = "delivering"
        PROVE  IsHead(n, f)
    <3>1. m.status[f] = "delivering" BY <1>1, <1>4, <2>3, StatusSets DEF LogTo
    <3>2. IsHead(m, f) BY <1>1, <3>1 DEF HeadInv
    <3>3. f \in Pending(n) BY <2>3, StatusSets DEF Pending
    <3> QED BY <1>4, <2>2, <3>2, <3>3 DEF IsHead, LogTo
  <2> QED BY <1>4, <2>1, <2>3 DEF Good, HeadInv, LogTo
<1>5. ASSUME NEW e \in Events, Starts(m, n, e) PROVE Good(n)
  <2>1. LogInv(n)
    BY <1>1, <1>5, StatusSets DEF LogInv, LogTo, Starts
  <2>2. Pending(n) = Pending(m)
    BY <1>1, <1>5, StatusSets DEF Pending, LogTo, Starts
  <2>3. IsHead(m, e) BY <1>1, <1>5, HeadPendingIs DEF Starts
  <2>4. ASSUME NEW f \in Events, n.status[f] = "delivering"
        PROVE  IsHead(n, f)
    <3>1. f = e \/ m.status[f] = "delivering"
      BY <1>1, <1>5, <2>4 DEF LogTo, Starts
    <3>2. IsHead(m, f) BY <1>1, <2>3, <3>1 DEF HeadInv
    <3> QED BY <1>5, <2>2, <3>2 DEF IsHead, LogTo, Starts
  <2> QED BY <1>5, <2>1, <2>4 DEF Good, HeadInv, LogTo, Starts
<1> QED BY <1>2, <1>3, <1>4, <1>5 DEF LogStep

-----------------------------------------------------------------------------
(* Without crashes, the lease and the summary agree with the log.  The      *)
(* invariant is stated on a mailbox, so that it can be followed through the *)
(* writes of one operation: LeaseInv after the lease write, SummaryInv     *)
(* after the summary write.                                                *)

LeaseInv(m) ==
  /\ \A e \in Events : m.lease.event = e <=> m.status[e] = "delivering"
  /\ m.lease.event = NoEvent => m.lease.version = 0
SummaryInv(m) ==
  /\ m.summary.depth   = Cardinality(Pending(m))
  /\ m.summary.replies = Cardinality(PendingReplies(m))
  /\ m.summary.head    = CurrentHead(m)
  /\ m.summary.active  = m.lease.event
  /\ m.lease.event # NoEvent => m.summary.leaseVersion = m.lease.version
Exact(m) == Good(m) /\ LeaseInv(m) /\ SummaryInv(m)

(* Lease versions only grow: what a step of a mailbox may do to them. *)
VersionStep(m, n) ==
  /\ m.summary.leaseVersion <= n.summary.leaseVersion
  /\ n.lease # m.lease /\ n.lease.event # NoEvent
     => n.lease.version > m.summary.leaseVersion

(* A summary that is saved with the counts, the head and the lease of the   *)
(* log it is saved over is exact.                                          *)
LEMMA SavedExact ==
  ASSUME NEW m, Good(m), LeaseInv(m), NEW n,
         Saved(m, n, Cardinality(Pending(m)), Cardinality(PendingReplies(m)),
               m.lease.event, CurrentHead(m))
  PROVE  Exact(n)
<1>1. m \in MailboxType /\ n \in MailboxType /\ LogInv(m) /\ SameLog(m, n)
      /\ n.lease = m.lease
  BY DEF Good, Saved
<1>2. /\ LogInv(n) /\ Pending(n) = Pending(m)
      /\ PendingReplies(n) = PendingReplies(m)
      /\ \A e \in Events : IsHead(n, e) <=> IsHead(m, e)
      /\ CurrentHead(n) = CurrentHead(m)
  BY <1>1, SameLogSameHead
<1>3. Good(n) BY <1>1, <1>2 DEF Good, HeadInv, SameLog
<1>4. LeaseInv(n) BY <1>1 DEF LeaseInv, SameLog
<1>5. n.lease.event # NoEvent => n.summary.leaseVersion = n.lease.version
  BY <1>1 DEF Saved
<1>6. SummaryInv(n) BY <1>1, <1>2, <1>5 DEF SummaryInv, Saved
<1> QED BY <1>3, <1>4, <1>6 DEF Exact

(* A rebuilt summary is exact. *)
LEMMA RebuildExact ==
  ASSUME NEW m, Good(m), LeaseInv(m)
  PROVE  Exact(Rebuild(m))
BY SavedExact, RebuildKeepsLog DEF Good

(* Rebuilding keeps the lease version. *)
LEMMA RebuildVersion ==
  ASSUME NEW m, Exact(m)
  PROVE  VersionStep(m, Rebuild(m))
<1>1. m \in MailboxType BY DEF Exact, Good
<1>2. Saved(m, Rebuild(m), Cardinality(Pending(m)),
            Cardinality(PendingReplies(m)), m.lease.event, CurrentHead(m))
  BY <1>1, RebuildKeepsLog
<1> QED BY <1>1, <1>2, SummaryFields DEF Exact, SummaryInv, VersionStep, Saved

(* Two steps that keep versions growing make one. *)
LEMMA VersionTrans ==
  ASSUME NEW m \in MailboxType, NEW n \in MailboxType, NEW k \in MailboxType,
         VersionStep(m, n), VersionStep(n, k)
  PROVE  VersionStep(m, k)
BY SummaryFields DEF VersionStep

(* Delivering keeps the summary exact: depth and replies move with the log. *)
LEMMA DeliverExact ==
  ASSUME NEW m, Exact(m), NEW e \in Events, m.status[e] = "absent"
  PROVE  Exact(Deliver(m, e)) /\ VersionStep(m, Deliver(m, e))
<1> DEFINE n == NewEvent(m, e)
           d == n.summary.depth + 1
           r == n.summary.replies + IF e \in Replies THEN 1 ELSE 0
           a == n.summary.active
           h == IF Pending(n) = {} THEN n.summary.head ELSE CurrentHead(n)
<1>1. m \in MailboxType /\ m.status \in [Events -> Statuses] /\ Good(m)
  BY DEF Exact, Good, MailboxType
<1>2. Arrives(m, n, e) /\ n.lease = m.lease /\ n.summary = m.summary
  BY <1>1, NewEventLog
<1>3. n \in MailboxType /\ LogStep(m, n) BY <1>2 DEF Arrives, LogStep
<1>4. Good(n)
  <2> HIDE DEF n
  <2> QED BY <1>1, <1>3, GoodStep
<1>5. LeaseInv(n)
  BY <1>1, <1>2 DEF Exact, LeaseInv, Arrives
<1>6. Deliver(m, e) = SaveSummary(n, d, r, a, h) BY DEF Deliver, Increment
<1>7. /\ Pending(n) = Pending(m) \cup {e} /\ e \notin Pending(m)
  BY <1>1, <1>2, StatusSets DEF Pending, Arrives
<1>8. d = Cardinality(Pending(n))
  <2>1. Cardinality(Pending(m) \cup {e}) = Cardinality(Pending(m)) + 1
    BY <1>1, <1>7, PendingFinite, FS_AddElement
  <2> QED BY <1>2, <1>7, <2>1 DEF Exact, SummaryInv
<1>9. r = Cardinality(PendingReplies(n))
  <2>1. CASE e \in Replies
    <3>1. /\ PendingReplies(n) = PendingReplies(m) \cup {e}
          /\ e \notin PendingReplies(m)
      BY <1>7, <2>1 DEF PendingReplies
    <3>2. Cardinality(PendingReplies(m) \cup {e})
            = Cardinality(PendingReplies(m)) + 1
      BY <1>1, <3>1, PendingFinite, FS_AddElement
    <3> QED BY <1>2, <2>1, <3>1, <3>2 DEF Exact, SummaryInv
  <2>2. CASE e \notin Replies
    <3>1. PendingReplies(n) = PendingReplies(m)
      BY <1>7, <2>2 DEF PendingReplies
    <3>2. Cardinality(PendingReplies(m)) \in Nat BY <1>1, PendingFinite
    <3> QED BY <1>2, <2>2, <3>1, <3>2 DEF Exact, SummaryInv
  <2> QED BY <2>1, <2>2
<1>10. a = n.lease.event /\ h = CurrentHead(n)
  BY <1>2, <1>7 DEF Exact, SummaryInv
<1>11. d \in Nat /\ r \in Nat /\ a \in Events \cup {NoEvent} /\ h \in Heads
  BY <1>3, <1>8, <1>9, <1>10, PendingFinite, CurrentHeadType, SummaryFields
<1> HIDE DEF n, d, r, a, h
<1>12. Saved(n, Deliver(m, e), d, r, a, h)
  BY <1>3, <1>6, <1>11, SaveKeepsLog
<1>13. Exact(Deliver(m, e))
  BY <1>4, <1>5, <1>8, <1>9, <1>10, <1>12, SavedExact
<1>14. VersionStep(m, Deliver(m, e))
  BY <1>1, <1>2, <1>12, SummaryFields DEF VersionStep, Saved, Exact, SummaryInv
<1> QED BY <1>13, <1>14

(* A claim keeps the summary exact and the lease on the delivered event. *)
LEMMA ClaimAnewExact ==
  ASSUME NEW m, Exact(m), NEW e \in Events, ClaimsAnew(m, e)
  PROVE  Exact(Claim(m, e)) /\ VersionStep(m, Claim(m, e))
<1> DEFINE l == SetStatus(m, e, "delivering")
           n == ClaimLeased(m, e)
<1>1. m \in MailboxType /\ m.status \in [Events -> Statuses] /\ Good(m)
      /\ m.lease.event \in Events \cup {NoEvent}
  BY DEF Exact, Good, MailboxType
<1>2. /\ m.status[e] \in Claimable /\ HeadPending(m) = e
      /\ m.lease.event \in {NoEvent, e}
  BY DEF ClaimsAnew, ClaimSucceeds, IsClaimableHead, ConflictingLease
<1>3. m.lease.event = NoEvent /\ m.status[e] # "delivering"
  BY <1>2, StatusSets DEF Exact, LeaseInv
<1>4. LogTo(m, l, e, "delivering") /\ l.lease = m.lease /\ l.summary = m.summary
  BY <1>1, SetStatusLog, StatusSets
<1>5. /\ n \in MailboxType /\ SameLog(l, n) /\ n.summary = m.summary
      /\ n.lease = [event |-> e, version |-> NextLeaseVersion(l)]
  <2>1. l \in MailboxType BY <1>4 DEF LogTo
  <2>2. n = GrantLease(l, e) BY DEF ClaimLeased, ClaimLogged
  <2> HIDE DEF l, n
  <2> QED BY <1>4, <2>1, <2>2, GrantLeaseLog
<1>6. n.lease.event = e /\ n.lease.version = m.summary.leaseVersion + 1
  <2>1. NextLeaseVersion(l) = m.summary.leaseVersion + 1
    BY <1>3, <1>4 DEF NextLeaseVersion
  <2> QED BY <1>5, <2>1
<1>7. LogTo(m, n, e, "delivering")
  BY <1>4, <1>5, LogToSame
<1>8. Starts(m, n, e) BY <1>2, <1>7 DEF Starts
<1> HIDE DEF l, n
<1>9. Good(n) BY <1>1, <1>8, GoodStep DEF LogStep
<1>10. LeaseInv(n)
  <2>1. \A f \in Events : n.lease.event = f <=> n.status[f] = "delivering"
    BY <1>1, <1>3, <1>6, <1>7, EventsAssumption DEF Exact, LeaseInv, LogTo
  <2> QED BY <1>6, <2>1, EventsAssumption DEF LeaseInv
<1>11. Pending(n) = Pending(m) /\ PendingReplies(n) = PendingReplies(m)
  BY <1>1, <1>2, <1>7, StatusSets DEF Pending, PendingReplies, LogTo
<1>12. CurrentHead(n) = HeadOf(n, e)
  <2>1. IsHead(m, e) BY <1>1, <1>2, HeadPendingIs DEF Good
  <2>2. IsHead(n, e) BY <1>7, <1>11, <2>1 DEF IsHead, LogTo
  <2>3. HeadPending(n) = e BY <1>9, <2>2, HeadPendingIs DEF Good
  <2> QED BY <2>2, <2>3 DEF CurrentHead, IsHead
<1>13. Claim(m, e) = ClaimSummary(n, e)
  BY DEF Claim, ClaimsAnew, ClaimSucceeds, n
<1>14. Saved(n, Claim(m, e), Cardinality(Pending(n)),
             Cardinality(PendingReplies(n)), n.lease.event, CurrentHead(n))
  <2>1. CASE Claim(m, e) = Rebuild(n)
    BY <1>5, <2>1, RebuildKeepsLog
  <2>2. CASE Claim(m, e) = SaveSummary(n, n.summary.depth, n.summary.replies,
                                       e, HeadOf(n, e))
    BY <1>5, <1>6, <1>11, <1>12, <2>2, PendingFinite, HeadOfType, SaveKeepsLog
    DEF Exact, SummaryInv
  <2> QED BY <1>13, <2>1, <2>2 DEF ClaimSummary
<1>15. Exact(Claim(m, e)) BY <1>9, <1>10, <1>14, SavedExact
<1>16. VersionStep(m, Claim(m, e))
  BY <1>1, <1>6, <1>14, SummaryFields, EventsAssumption DEF VersionStep, Saved
<1> QED BY <1>15, <1>16

(* The log append and the lease release that end or requeue an event keep   *)
(* the lease in step with the log.                                         *)
LEMMA ReleasedInv ==
  ASSUME NEW m, Exact(m), NEW e \in Events, NEW s \in Terminal \cup {"queued"},
         m.status[e] \in Live
  PROVE  LET n == ReleaseLease(SetStatus(m, e, s), e)
         IN  /\ LogTo(m, n, e, s)
             /\ Good(n) /\ LeaseInv(n)
             /\ n.summary = m.summary
             /\ n.lease = IF m.lease.event = e THEN NoLease ELSE m.lease
<1> DEFINE l == SetStatus(m, e, s)
           n == ReleaseLease(l, e)
<1>1. m \in MailboxType /\ m.status \in [Events -> Statuses] /\ Good(m)
  BY DEF Exact, Good, MailboxType
<1>2. s \in Statuses BY StatusSets
<1>3. LogTo(m, l, e, s) /\ l.lease = m.lease /\ l.summary = m.summary
  BY <1>1, <1>2, SetStatusLog
<1>4. l \in MailboxType BY <1>3 DEF LogTo
<1>5. LogTo(m, n, e, s) BY <1>1, <1>2, TerminalReleasedLog
<1>6. /\ n.summary = m.summary
      /\ n.lease = IF m.lease.event = e THEN NoLease ELSE m.lease
  <2> HIDE DEF l
  <2> QED BY <1>3, <1>4, ReleaseLeaseLog
<1> HIDE DEF l, n
<1>7. LogStep(m, n) BY <1>5 DEF LogStep
<1>8. Good(n) BY <1>1, <1>7, GoodStep
<1>9. LeaseInv(n)
  <2>1. \A f \in Events : m.lease.event = f <=> m.status[f] = "delivering"
    BY DEF Exact, LeaseInv
  <2>2. n.status = [m.status EXCEPT ![e] = s] BY <1>5 DEF LogTo
  <2>3. s # "delivering" BY StatusSets
  <2>4. \A f \in Events : n.lease.event = f <=> n.status[f] = "delivering"
    BY <1>1, <1>6, <2>1, <2>2, <2>3, EventsAssumption DEF NoLease
  <2>5. n.lease.event = NoEvent => n.lease.version = 0
    BY <1>6 DEF Exact, LeaseInv, NoLease
  <2> QED BY <2>4, <2>5 DEF LeaseInv
<1> QED BY <1>5, <1>6, <1>8, <1>9 DEF l, n

(* Finishing keeps the summary exact: the head is recomputed when it goes. *)
LEMMA MarkTerminalExact ==
  ASSUME NEW m, Exact(m), NEW e \in Events, NEW s \in Terminal
  PROVE  Exact(MarkTerminal(m, e, s)) /\ VersionStep(m, MarkTerminal(m, e, s))
<1>0. CASE m.status[e] \notin Live
  BY <1>0, RebuildExact, RebuildVersion DEF MarkTerminal, Exact
<1>1. CASE m.status[e] \in Live
  <2> DEFINE n == ReleaseLease(SetStatus(m, e, s), e)
             k == MarkTerminal(m, e, s)
             p == n.summary
             d == Decrement(p.depth)
             r == IF e \in Replies THEN Decrement(p.replies) ELSE p.replies
             a == SummaryActive(p, e)
             h == IF p.head.id # e THEN p.head
                  ELSE IF d = 0 THEN EmptyHead ELSE CurrentHead(n)
  <2>1. m \in MailboxType /\ m.status \in [Events -> Statuses] /\ LogInv(m)
    BY DEF Exact, Good, MailboxType
  <2>2. /\ LogTo(m, n, e, s) /\ Good(n) /\ LeaseInv(n)
        /\ n.summary = m.summary
        /\ n.lease = IF m.lease.event = e THEN NoLease ELSE m.lease
    BY <1>1, ReleasedInv
  <2>3. n \in MailboxType /\ LogInv(n) BY <2>2 DEF Good
  <2>4. k = TerminalSummary(n, e)
    BY <1>1 DEF MarkTerminal, TerminalReleased, TerminalLogged
  <2>5. k = Rebuild(n) \/ (p.depth # 0 /\ k = SaveSummary(n, d, r, a, h))
    BY <2>4 DEF TerminalSummary
  <2> HIDE DEF n, k
  <2>6. Pending(n) = Pending(m) \ {e} /\ e \in Pending(m)
    BY <1>1, <2>1, <2>2, StatusSets DEF Pending, LogTo
  <2>7. /\ IsFiniteSet(Pending(m)) /\ IsFiniteSet(PendingReplies(m))
        /\ Cardinality(Pending(m)) \in Nat
        /\ Cardinality(PendingReplies(m)) \in Nat
        /\ IsFiniteSet(Pending(n))
    BY <2>1, <2>3, PendingFinite
  <2>8. d = Cardinality(Pending(n))
    <3>1. Cardinality(Pending(m) \ {e}) = Cardinality(Pending(m)) - 1
      BY <2>6, <2>7, FS_RemoveElement
    <3>2. Cardinality(Pending(m)) # 0
      BY <2>6, <2>7, FS_EmptySet
    <3> QED BY <2>2, <2>6, <3>1, <3>2 DEF Exact, SummaryInv, Decrement
  <2>9. r = Cardinality(PendingReplies(n))
    <3>1. CASE e \in Replies
      <4>1. /\ PendingReplies(n) = PendingReplies(m) \ {e}
            /\ e \in PendingReplies(m)
        BY <2>6, <3>1 DEF PendingReplies
      <4>2. Cardinality(PendingReplies(m) \ {e})
              = Cardinality(PendingReplies(m)) - 1
        BY <2>7, <4>1, FS_RemoveElement
      <4>3. Cardinality(PendingReplies(m)) # 0
        BY <2>7, <4>1, FS_EmptySet
      <4> QED BY <2>2, <3>1, <4>1, <4>2, <4>3 DEF Exact, SummaryInv, Decrement
    <3>2. CASE e \notin Replies
      <4>1. PendingReplies(n) = PendingReplies(m)
        BY <2>6, <3>2 DEF PendingReplies
      <4> QED BY <2>2, <3>2, <4>1 DEF Exact, SummaryInv
    <3> QED BY <3>1, <3>2
  <2>10. a = n.lease.event
    BY <2>2 DEF SummaryActive, Exact, SummaryInv, NoLease
  <2>11. h = CurrentHead(n)
    <3>1. Pending(m) # {} BY <2>6
    <3>2. HeadPending(m) \in Events /\ IsHead(m, HeadPending(m))
      BY <2>1, <3>1, HeadIsHead
    <3>3. p.head = HeadOf(m, HeadPending(m))
      BY <2>2, <3>1 DEF Exact, SummaryInv, CurrentHead
    <3>4. p.head.id = HeadPending(m) BY <3>3 DEF HeadOf
    <3>5. CASE p.head.id # e
      <4> DEFINE g == HeadPending(m)
      <4>1. g # e /\ g \in Events /\ IsHead(m, g) BY <3>2, <3>4, <3>5
      <4> HIDE DEF g
      <4>2. IsHead(n, g)
        BY <2>2, <2>6, <4>1 DEF IsHead, LogTo
      <4>3. HeadPending(n) = g BY <2>3, <4>1, <4>2, HeadPendingIs
      <4>4. Pending(n) # {} BY <4>2 DEF IsHead
      <4>5. n.status[g] = m.status[g] BY <2>1, <2>2, <4>1 DEF LogTo
      <4> QED BY <3>3, <3>5, <4>3, <4>4, <4>5 DEF CurrentHead, HeadOf, g
    <3>6. CASE p.head.id = e /\ d = 0
      <4>1. Pending(n) = {} BY <2>7, <2>8, <3>6, FS_EmptySet
      <4> QED BY <3>6, <4>1 DEF CurrentHead
    <3>7. CASE p.head.id = e /\ d # 0
      BY <3>7
    <3> QED BY <3>5, <3>6, <3>7
  <2>12. d \in Nat /\ r \in Nat /\ a \in Events \cup {NoEvent} /\ h \in Heads
    BY <2>3, <2>8, <2>9, <2>10, <2>11, PendingFinite, CurrentHeadType,
       SummaryFields
  <2>13. Saved(n, k, Cardinality(Pending(n)), Cardinality(PendingReplies(n)),
               n.lease.event, CurrentHead(n))
    <3> HIDE DEF d, r, a, h
    <3>1. CASE k = Rebuild(n) BY <2>3, <3>1, RebuildKeepsLog
    <3>2. CASE k = SaveSummary(n, d, r, a, h)
      <4>1. Saved(n, k, d, r, a, h) BY <2>3, <2>12, <3>2, SaveKeepsLog
      <4> QED BY <2>8, <2>9, <2>10, <2>11, <4>1
    <3> QED BY <2>5, <3>1, <3>2
  <2>14. Exact(k) BY <2>2, <2>13, SavedExact
  <2>15. VersionStep(m, k)
    BY <2>1, <2>2, <2>13, SummaryFields
    DEF VersionStep, Saved, Exact, SummaryInv, NoLease
  <2> QED BY <2>14, <2>15 DEF k
<1> QED BY <1>0, <1>1

(* rewrite_head keeps the summary exact. *)
LEMMA RewriteHeadExact ==
  ASSUME NEW m, Exact(m), NEW e \in Events
  PROVE  /\ Exact(RewriteHead(m, e, "queued"))
         /\ VersionStep(m, RewriteHead(m, e, "queued"))
<1>0. CASE m.status[e] \notin Live
  BY <1>0, RebuildExact, RebuildVersion DEF RewriteHead, Exact
<1>1. CASE m.status[e] \in Live
  <2> DEFINE n == ReleaseLease(SetStatus(m, e, "queued"), e)
             k == RewriteHead(m, e, "queued")
             a == SummaryActive(n.summary, e)
  <2>1. m \in MailboxType /\ m.status \in [Events -> Statuses] /\ LogInv(m)
    BY DEF Exact, Good, MailboxType
  <2>2. /\ LogTo(m, n, e, "queued") /\ Good(n) /\ LeaseInv(n)
        /\ n.summary = m.summary
        /\ n.lease = IF m.lease.event = e THEN NoLease ELSE m.lease
    BY <1>1, ReleasedInv
  <2>3. n \in MailboxType /\ LogInv(n) BY <2>2 DEF Good
  <2>4. k = RewriteSummary(n, e) BY <1>1 DEF RewriteHead
  <2> HIDE DEF n, k
  <2>5. Pending(n) = Pending(m) /\ PendingReplies(n) = PendingReplies(m)
        /\ e \in Pending(n)
    BY <1>1, <2>1, <2>2, StatusSets DEF Pending, PendingReplies, LogTo
  <2>6. a = n.lease.event
    BY <2>2 DEF SummaryActive, Exact, SummaryInv, NoLease
  <2>7. ASSUME n.summary.head.id = e PROVE CurrentHead(n) = HeadOf(n, e)
    <3>1. m.summary.head = HeadOf(m, HeadPending(m))
      BY <2>5 DEF Exact, SummaryInv, CurrentHead
    <3>2. HeadPending(m) = e BY <2>2, <2>7, <3>1 DEF HeadOf
    <3>3. IsHead(m, e) BY <2>1, <3>2, HeadPendingIs
    <3>4. IsHead(n, e) BY <2>2, <2>5, <3>3 DEF IsHead, LogTo
    <3>5. HeadPending(n) = e BY <2>3, <3>4, HeadPendingIs
    <3> QED BY <2>5, <3>5 DEF CurrentHead
  <2>8. \/ k = Rebuild(n)
        \/ /\ n.summary.head.id = e
           /\ k = SaveSummary(n, n.summary.depth, n.summary.replies, a,
                              HeadOf(n, e))
    BY <2>4 DEF RewriteSummary
  <2> HIDE DEF a
  <2>9. Saved(n, k, Cardinality(Pending(n)), Cardinality(PendingReplies(n)),
              n.lease.event, CurrentHead(n))
    <3>1. CASE k = Rebuild(n) BY <2>3, <3>1, RebuildKeepsLog
    <3>2. CASE /\ n.summary.head.id = e
               /\ k = SaveSummary(n, n.summary.depth, n.summary.replies, a,
                                  HeadOf(n, e))
      <4>1. a \in Events \cup {NoEvent} BY <2>3, <2>6, SummaryFields
      <4>2. Saved(n, k, n.summary.depth, n.summary.replies, a, HeadOf(n, e))
        BY <2>3, <3>2, <4>1, SummaryFields, HeadOfType, SaveKeepsLog
      <4> QED BY <2>2, <2>5, <2>6, <2>7, <3>2, <4>2 DEF Exact, SummaryInv
    <3> QED BY <2>8, <3>1, <3>2
  <2>10. Exact(k) BY <2>2, <2>9, SavedExact
  <2>11. VersionStep(m, k)
    BY <2>1, <2>2, <2>9, SummaryFields
    DEF VersionStep, Saved, Exact, SummaryInv, NoLease
  <2> QED BY <2>10, <2>11 DEF k
<1> QED BY <1>0, <1>1

(* Any claim keeps the mailbox exact. *)
LEMMA ClaimExact ==
  ASSUME NEW m, Exact(m), NEW e \in Events
  PROVE  Exact(Claim(m, e)) /\ VersionStep(m, Claim(m, e))
<1>1. CASE ClaimsAnew(m, e) BY <1>1, ClaimAnewExact
<1>2. CASE ~ClaimsAnew(m, e)
  <2>1. Claim(m, e) = m \/ Claim(m, e) = Rebuild(m) BY <1>2 DEF Claim
  <2>2. VersionStep(m, m)
    BY SummaryFields DEF VersionStep, Exact, Good
  <2> QED BY <2>1, <2>2, RebuildExact, RebuildVersion DEF Exact
<1> QED BY <1>1, <1>2

(* Acknowledging keeps the mailbox exact. *)
LEMMA AckReplyExact ==
  ASSUME NEW m, Exact(m), NEW e \in Events
  PROVE  Exact(AckReply(m, e)) /\ VersionStep(m, AckReply(m, e))
<1> DEFINE n == Claim(m, e)
<1>1. Exact(n) /\ VersionStep(m, n) BY ClaimExact
<1>2. "consumed" \in Terminal BY DEF Terminal
<1>3. \/ AckReply(m, e) = Rebuild(m)
      \/ AckReply(m, e) = MarkTerminal(m, e, "consumed")
      \/ AckReply(m, e) = Rebuild(n)
      \/ AckReply(m, e) = MarkTerminal(n, e, "consumed")
  BY DEF AckReply
<1> HIDE DEF n
<1>4. CASE AckReply(m, e) \in {Rebuild(m), MarkTerminal(m, e, "consumed")}
  BY <1>2, <1>4, RebuildExact, RebuildVersion, MarkTerminalExact DEF Exact
<1>5. CASE AckReply(m, e) \in {Rebuild(n), MarkTerminal(n, e, "consumed")}
  <2>1. Exact(AckReply(m, e)) /\ VersionStep(n, AckReply(m, e))
    BY <1>1, <1>2, <1>5, RebuildExact, RebuildVersion, MarkTerminalExact DEF Exact
  <2> QED BY <1>1, <2>1, VersionTrans DEF Exact, Good
<1> QED BY <1>3, <1>4, <1>5
(* The empty mailbox is exact. *)
LEMMA EmptyExact == Exact(EmptyMailbox)
<1> DEFINE m == EmptyMailbox
<1>1. Good(m) BY EmptyGood
<1>2. Pending(m) = {} /\ PendingReplies(m) = {}
  BY DEF EmptyMailbox, Pending, PendingReplies, Live, Claimable
<1>3. Cardinality(Pending(m)) = 0 /\ Cardinality(PendingReplies(m)) = 0
  BY <1>2, FS_EmptySet
<1>4. SummaryInv(m)
  <2>1. m.summary = NoSummary /\ m.lease = NoLease BY DEF EmptyMailbox
  <2>2. CurrentHead(m) = EmptyHead BY <1>2 DEF CurrentHead
  <2>3. /\ NoSummary.depth = 0 /\ NoSummary.replies = 0
        /\ NoSummary.head = EmptyHead /\ NoSummary.active = NoEvent
        /\ NoSummary.leaseVersion = 0 /\ NoLease.event = NoEvent
    BY DEF NoSummary, NoLease
  <2> QED BY <1>3, <2>1, <2>2, <2>3 DEF SummaryInv
<1>5. LeaseInv(m)
  BY EventsAssumption DEF LeaseInv, EmptyMailbox, NoLease
<1> QED BY <1>1, <1>4, <1>5 DEF Exact

(* A reply at the head of an exact mailbox can be acknowledged. *)
LEMMA HeadReplyAcks ==
  ASSUME NEW m, Exact(m), NEW e \in Replies, IsHead(m, e)
  PROVE  AckSucceeds(m, e)
<1>1. /\ m \in MailboxType /\ LogInv(m) /\ HeadInv(m) /\ LeaseInv(m)
      /\ e \in Events /\ m.lease.event \in Events \cup {NoEvent}
  BY EventsAssumption, SummaryFields DEF Exact, Good
<1>2. HeadPending(m) = e BY <1>1, HeadPendingIs
<1>3. m.status[e] \in Live BY DEF IsHead, Pending
<1>4. m.lease.event \in {NoEvent, e}
  BY <1>1, HeadUnique DEF LeaseInv, HeadInv
<1> QED
  BY <1>2, <1>3, <1>4
  DEF AckSucceeds, HeadMatchesReply, ClaimSucceeds, ConflictingLease,
      IsClaimableHead, Live
=============================================================================
