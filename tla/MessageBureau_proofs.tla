------------------------ MODULE MessageBureau_proofs ------------------------
(***************************************************************************)
(* Theorems about MessageBureau, for every finite set of jobs, any agents   *)
(* and any bound on the replies.                                           *)
(***************************************************************************)
EXTENDS MessageBureau, MailboxOps_proofs, SequenceTheorems

(* Two runs of writes in a row end where the second ends. *)
LEMMA WritesCat ==
  ASSUME NEW S, NEW ws \in Seq(S), NEW vs \in Seq(S), vs # <<>>
  PROVE  /\ ws \o vs \in Seq(S) /\ ws \o vs # <<>>
         /\ Last(ws \o vs) = Last(vs)
<1>1. /\ ws \o vs \in Seq(S) /\ Len(ws \o vs) = Len(ws) + Len(vs)
      /\ \A i \in 1..(Len(ws) + Len(vs)) :
           (ws \o vs)[i] = IF i <= Len(ws) THEN ws[i] ELSE vs[i - Len(ws)]
  BY ConcatProperties
<1>2. Len(vs) \in Nat \ {0} /\ Len(ws) \in Nat BY EmptySeq, LenProperties
<1>3. (ws \o vs)[Len(ws) + Len(vs)] = vs[Len(vs)] BY <1>1, <1>2
<1>4. ws \o vs # <<>> BY <1>1, <1>2, EmptySeq
<1> QED BY <1>1, <1>3, <1>4 DEF Last

(* Every write of a run is one of its set, the last one too. *)
LEMMA WritesIn ==
  ASSUME NEW S, NEW ws \in Seq(S), ws # <<>>
  PROVE  Last(ws) \in S /\ \A i \in 1..(Len(ws) - 1) : ws[i] \in S
<1>1. Len(ws) \in Nat \ {0} BY EmptySeq
<1>2. \A i \in 1..Len(ws) : ws[i] \in S BY ElementOfSeq
<1> QED BY <1>1, <1>2 DEF Last

-----------------------------------------------------------------------------
(* One mailbox, crashes included.  A lease may be missing while its event   *)
(* is being delivered, or outlive its event, but it never stands for        *)
(* another event than the one that is being delivered.                     *)

LeaseOk(m) ==
  \A e \in Events : m.status[e] = "delivering" => m.lease.event \in {NoEvent, e}
MailOk(m) == Good(m) /\ LeaseOk(m)

(* Mailbox n is m but for the status of e, which is s now. *)
Moved(m, n, e, s) == MailOk(n) /\ n.status = [m.status EXCEPT ![e] = s]

(* Saving a summary keeps a mailbox sound. *)
LEMMA KeptOk ==
  ASSUME NEW m, NEW n, MailOk(m), Kept(m, n)
  PROVE  MailOk(n) /\ n.status = m.status
<1>1. LogStep(m, n) BY DEF Kept, LogStep
<1>2. Good(n) BY <1>1, GoodStep DEF MailOk
<1> QED BY <1>2 DEF MailOk, LeaseOk, Kept, SameLog

(* A status that is not "delivering" leaves the other lease facts alone. *)
LEMMA MovedOk ==
  ASSUME NEW m, NEW n, MailOk(m), NEW e \in Events, NEW s, Good(n),
         n.status = [m.status EXCEPT ![e] = s],
         n.lease.event \in {m.lease.event, NoEvent},
         s = "delivering" => m.lease.event \in {NoEvent, e}
  PROVE  Moved(m, n, e, s)
<1>1. m.status \in [Events -> Statuses] BY DEF MailOk, Good, MailboxType
<1>2. LeaseOk(n) BY <1>1 DEF LeaseOk, MailOk
<1> QED BY <1>2 DEF Moved, MailOk

(* Both writes of a delivery keep the mailbox sound. *)
LEMMA DeliverOk ==
  ASSUME NEW m, MailOk(m), NEW e \in Events, m.status[e] = "absent"
  PROVE  /\ Moved(m, NewEvent(m, e), e, "queued")
         /\ Moved(m, Deliver(m, e), e, "queued")
<1>1. m \in MailboxType /\ Good(m) BY DEF MailOk, Good
<1>2. Arrives(m, NewEvent(m, e), e) /\ NewEvent(m, e).lease = m.lease
  BY <1>1, NewEventLog
<1>3. Good(NewEvent(m, e)) BY <1>1, <1>2, GoodStep DEF LogStep
<1>4. Moved(m, NewEvent(m, e), e, "queued")
  BY <1>2, <1>3, MovedOk DEF Arrives
<1>5. Arrives(m, Deliver(m, e), e) BY <1>1, DeliverLog
<1>6. Good(Deliver(m, e)) BY <1>1, <1>5, GoodStep DEF LogStep
<1>7. Deliver(m, e).lease = NewEvent(m, e).lease
  BY DEF Deliver, Increment, SaveSummary
<1> QED BY <1>2, <1>4, <1>5, <1>6, <1>7, MovedOk DEF Arrives

(* Every write of a claim that succeeds keeps the mailbox sound. *)
LEMMA ClaimAnewOk ==
  ASSUME NEW m, MailOk(m), NEW e \in Events, ClaimsAnew(m, e)
  PROVE  /\ Moved(m, ClaimLogged(m, e), e, "delivering")
         /\ Moved(m, ClaimLeased(m, e), e, "delivering")
         /\ Moved(m, Claim(m, e), e, "delivering")
<1>1. m \in MailboxType /\ Good(m) /\ m.status \in [Events -> Statuses]
  BY DEF MailOk, Good, MailboxType
<1>2. /\ m.status[e] \in Claimable /\ HeadPending(m) = e
      /\ m.lease.event \in {NoEvent, e}
  BY DEF ClaimsAnew, ClaimSucceeds, IsClaimableHead, ConflictingLease
<1>3. LogTo(m, ClaimLogged(m, e), e, "delivering") /\ ClaimLogged(m, e).lease = m.lease
  BY <1>1, SetStatusLog, StatusSets DEF ClaimLogged
<1>4. ClaimLogged(m, e) \in MailboxType BY <1>3 DEF LogTo
<1>5. /\ LogTo(m, ClaimLeased(m, e), e, "delivering")
      /\ ClaimLeased(m, e).lease.event = e
  <2>1. LogTo(m, ClaimLeased(m, e), e, "delivering") BY <1>1, ClaimLeasedLog
  <2>2. ClaimLeased(m, e) = GrantLease(ClaimLogged(m, e), e) BY DEF ClaimLeased
  <2>3. ClaimLeased(m, e).lease
          = [event |-> e, version |-> NextLeaseVersion(ClaimLogged(m, e))]
    BY <1>4, <2>2, GrantLeaseLog
  <2> QED BY <2>1, <2>3
<1>6. ClaimLeased(m, e) \in MailboxType BY <1>5 DEF LogTo
<1>7. Starts(m, Claim(m, e), e) /\ Claim(m, e) = ClaimSummary(ClaimLeased(m, e), e)
  BY <1>1, ClaimAnewLog DEF Claim, ClaimsAnew, ClaimSucceeds
<1>8. Claim(m, e).lease.event = e
  BY <1>5, <1>6, <1>7, ClaimSummaryKept DEF Kept
<1>9. Good(ClaimLogged(m, e)) /\ Good(ClaimLeased(m, e)) /\ Good(Claim(m, e))
  BY <1>1, <1>2, <1>3, <1>5, <1>7, GoodStep DEF LogStep, Starts
<1>10. ASSUME NEW n, Good(n), n.status = [m.status EXCEPT ![e] = "delivering"],
              n.lease.event \in {m.lease.event, e}
       PROVE  Moved(m, n, e, "delivering")
  <2>1. n.status[e] = "delivering" BY <1>1, <1>10
  <2>2. ASSUME NEW f \in Events, n.status[f] = "delivering" PROVE f = e
    BY <1>10, <2>1, <2>2, HeadUnique DEF Good, HeadInv
  <2> QED BY <1>2, <1>10, <2>2 DEF Moved, MailOk, LeaseOk
<1> QED BY <1>3, <1>5, <1>7, <1>8, <1>9, <1>10 DEF LogTo, Starts

(* Rebuilding keeps the mailbox sound. *)
LEMMA RebuildOk ==
  ASSUME NEW m, MailOk(m)
  PROVE  MailOk(Rebuild(m)) /\ Rebuild(m).status = m.status
BY RebuildKept, KeptOk DEF MailOk, Good

(* A claim that does not succeed changes no status. *)
LEMMA ClaimIdleOk ==
  ASSUME NEW m, MailOk(m), NEW e \in Events, ~ClaimsAnew(m, e)
  PROVE  MailOk(Claim(m, e)) /\ Claim(m, e).status = m.status
BY RebuildOk DEF Claim

(* Every write of a finish keeps the mailbox sound. *)
LEMMA FinishOk ==
  ASSUME NEW m, MailOk(m), NEW e \in Events, NEW s \in Terminal, m.status[e] \in Live
  PROVE  /\ Moved(m, TerminalLogged(m, e, s), e, s)
         /\ Moved(m, TerminalReleased(m, e, s), e, s)
         /\ Moved(m, MarkTerminal(m, e, s), e, s)
<1> DEFINE l == TerminalLogged(m, e, s)
           n == TerminalReleased(m, e, s)
           k == MarkTerminal(m, e, s)
<1>1. m \in MailboxType /\ Good(m) /\ s \in Statuses BY StatusSets DEF MailOk, Good
<1>2. LogTo(m, l, e, s) /\ l.lease = m.lease
  BY <1>1, SetStatusLog DEF TerminalLogged
<1>3. LogTo(m, n, e, s)
  BY <1>1, TerminalReleasedLog DEF TerminalReleased, TerminalLogged
<1>4. l \in MailboxType /\ n \in MailboxType BY <1>2, <1>3 DEF LogTo
<1>5. n.lease.event \in {m.lease.event, NoEvent}
  <2>1. n = ReleaseLease(l, e) BY DEF TerminalReleased
  <2> HIDE DEF l, n
  <2>2. n.lease = IF l.lease.event = e THEN NoLease ELSE l.lease
    BY <1>4, <2>1, ReleaseLeaseLog
  <2> QED BY <1>2, <2>2 DEF NoLease
<1>6. LogTo(m, k, e, s) BY <1>1, MarkTerminalLog
<1>7. k = TerminalSummary(n, e) BY DEF MarkTerminal
<1> HIDE DEF l, n, k
<1>8. k.lease = n.lease BY <1>4, <1>7, TerminalSummaryKept DEF Kept
<1>9. Good(l) /\ Good(n) /\ Good(k)
  BY <1>1, <1>2, <1>3, <1>6, GoodStep DEF LogStep
<1>10. s # "delivering" BY StatusSets
<1> QED
  BY <1>2, <1>3, <1>5, <1>6, <1>8, <1>9, <1>10, MovedOk DEF LogTo, l, n, k

(* ack_reply ends the event it is asked for exactly when it succeeds. *)
LEMMA AckReplyOk ==
  ASSUME NEW m, MailOk(m), NEW e \in Replies, HeadPending(m) = e
  PROVE  IF AckSucceeds(m, e) THEN Moved(m, AckReply(m, e), e, "consumed")
         ELSE MailOk(AckReply(m, e)) /\ AckReply(m, e).status = m.status
<1>1. e \in Events /\ HeadMatchesReply(m, e) /\ "consumed" \in Terminal
  BY EventsAssumption DEF HeadMatchesReply, Terminal
<1>2. m \in MailboxType /\ LogInv(m) /\ m.status \in [Events -> Statuses]
  BY DEF MailOk, Good, MailboxType
<1>3. m.status[e] \in Live BY <1>1, <1>2, HeadPendingIs DEF IsHead, Pending
<1>4. CASE m.status[e] = "delivering"
  <2>1. m.lease.event \in {NoEvent, e} BY <1>1, <1>4 DEF MailOk, LeaseOk
  <2>2. AckSucceeds(m, e)
    BY <1>1, <1>3, <1>4, <2>1 DEF AckSucceeds, ClaimSucceeds, ConflictingLease
  <2>3. AckReply(m, e) = MarkTerminal(m, e, "consumed")
    BY <1>1, <1>4 DEF AckReply
  <2> QED BY <1>1, <1>3, <2>2, <2>3, FinishOk
<1>5. CASE m.status[e] # "delivering" /\ ~ClaimSucceeds(m, e)
  <2>1. ~AckSucceeds(m, e) /\ AckReply(m, e) = Rebuild(Claim(m, e))
    BY <1>1, <1>5 DEF AckSucceeds, AckReply
  <2>2. MailOk(Claim(m, e)) /\ Claim(m, e).status = m.status
    BY <1>1, <1>5, ClaimIdleOk DEF ClaimsAnew
  <2> QED BY <2>1, <2>2, RebuildOk
<1>6. CASE m.status[e] # "delivering" /\ ClaimSucceeds(m, e)
  <2> DEFINE n == Claim(m, e)
  <2>1. AckSucceeds(m, e) /\ AckReply(m, e) = MarkTerminal(n, e, "consumed")
    BY <1>1, <1>6 DEF AckSucceeds, AckReply
  <2>2. Moved(m, n, e, "delivering") BY <1>1, <1>6, ClaimAnewOk DEF ClaimsAnew
  <2> HIDE DEF n
  <2>3. MailOk(n) /\ n.status[e] \in Live
    BY <1>1, <1>2, <2>2, StatusSets DEF Moved
  <2>4. Moved(n, AckReply(m, e), e, "consumed")
    BY <1>1, <2>1, <2>3, FinishOk
  <2>5. AckReply(m, e).status = [m.status EXCEPT ![e] = "consumed"]
    BY <1>1, <1>2, <2>2, <2>4 DEF Moved
  <2>6. Moved(m, AckReply(m, e), e, "consumed") BY <2>4, <2>5 DEF Moved
  <2> QED BY <2>1, <2>6
<1> QED BY <1>4, <1>5, <1>6

-----------------------------------------------------------------------------
(* The files, crashes included. *)

BureauType ==
  [mb: [Agents -> MailboxType], message: [Jobs -> MessageType],
   attempt: [Jobs -> AttemptType], replies: [Jobs -> Seq(Ended)],
   last: [Jobs -> Events \cup {NoEvent}]]

(* The mailbox an event may be in, once there is an attempt of its job: the *)
(* agent's for the request, the caller's for a reply that is recorded.     *)
Belongs(b, a, e) ==
  /\ b.attempt[JobOf(e)] # "none"
  /\ IF e \in Replies THEN a = CallerOf[JobOf(e)] /\ e[2] <= Len(b.replies[JobOf(e)])
                      ELSE a = AgentOf[JobOf(e)]
Present(b, a, e) == b.mb[a].status[e] # "absent"

(* A mailbox holds what belongs there, a message is written before its      *)
(* attempt, and the last line of an attempt is in the inbox of its agent.  *)
FileInv(b) ==
  /\ \A a \in Agents : MailOk(b.mb[a])
  /\ \A a \in Agents : \A e \in Events : Present(b, a, e) => Belongs(b, a, e)
  /\ \A j \in Jobs :
       /\ b.attempt[j] # "none" => b.message[j] # "none"
       /\ b.last[j] # NoEvent => JobOf(b.last[j]) = j /\ Present(b, AgentOf[j], b.last[j])
       /\ Len(b.replies[j]) <= MaxReplies

(* The replies that are over in the mailbox of a caller other than the      *)
(* agent that answers.                                                     *)
Foreign(e)  == CallerOf[JobOf(e)] \in Agents \ {AgentOf[JobOf(e)]}
Finished(b) == {e \in Replies : Foreign(e) /\ b.mb[CallerOf[JobOf(e)]].status[e] \in Terminal}

(* The files in which no other replies than those of `read` are finished    *)
(* and the jobs of `fresh` have no attempt yet.                            *)
Sound(read, fresh) ==
  {b \in BureauType : /\ FileInv(b)
                      /\ Finished(b) \subseteq read
                      /\ \A j \in Jobs \cap fresh : b.attempt[j] = "none"}

(* The job of an event, and the fields of the files. *)
LEMMA EventJob ==
  ASSUME NEW e \in Events
  PROVE  JobOf(e) \in Jobs /\ e[2] \in 0..MaxReplies
         /\ (e \in Replies <=> e[2] # 0) /\ e = <<JobOf(e), e[2]>>
BY EventAssumption, BureauAssumption DEF JobOf, InboundEvents, ReplyEvents

(* The request of a job is an event of that job and no reply. *)
LEMMA RequestJob ==
  ASSUME NEW j \in Jobs
  PROVE  RequestOf(j) \in Events \ Replies /\ JobOf(RequestOf(j)) = j
BY EventAssumption, BureauAssumption DEF JobOf, RequestOf, InboundEvents, ReplyEvents

(* A mailbox put in place of another keeps the files sound if it holds what *)
(* belongs there, lost nothing, and finished only replies that are read.   *)
LEMMA MailboxSound ==
  ASSUME NEW F, NEW N, NEW b \in Sound(F, N), NEW a \in Agents, NEW m, MailOk(m),
         NEW c \in BureauType, c.mb = [b.mb EXCEPT ![a] = m],
         c.message = b.message, c.attempt = b.attempt, c.replies = b.replies,
         \A f \in Events : m.status[f] # "absent" => Belongs(b, a, f),
         \A f \in Events : Present(b, a, f) => m.status[f] # "absent",
         \A f \in Replies : Foreign(f) /\ m.status[f] \in Terminal => f \in F,
         \A j \in Jobs : c.last[j] # NoEvent =>
            \/ c.last[j] = b.last[j]
            \/ /\ AgentOf[j] = a /\ JobOf(c.last[j]) = j
               /\ m.status[c.last[j]] # "absent"
  PROVE  c \in Sound(F, N)
<1>1. /\ b \in BureauType /\ FileInv(b) /\ Finished(b) \subseteq F
      /\ \A j \in Jobs \cap N : b.attempt[j] = "none"
      /\ b.mb \in [Agents -> MailboxType] /\ b.last \in [Jobs -> Events \cup {NoEvent}]
  BY DEF Sound, BureauType
<1>2. c.mb[a] = m /\ \A x \in Agents \ {a} : c.mb[x] = b.mb[x] BY <1>1
<1>3. \A x \in Agents : MailOk(c.mb[x]) BY <1>1, <1>2 DEF FileInv
<1>4. \A x \in Agents : \A e \in Events : Present(c, x, e) => Belongs(c, x, e)
  BY <1>1, <1>2 DEF FileInv, Present, Belongs
<1>5. \A x \in Agents : \A e \in Events : Present(b, x, e) => Present(c, x, e)
  BY <1>1, <1>2 DEF Present
<1>6. ASSUME NEW j \in Jobs, c.last[j] # NoEvent
      PROVE  JobOf(c.last[j]) = j /\ Present(c, AgentOf[j], c.last[j])
  <2>1. AgentOf[j] \in Agents BY BureauAssumption
  <2>2. CASE c.last[j] = b.last[j]
    <3>1. b.last[j] \in Events BY <1>1, <1>6, <2>2
    <3> QED BY <1>1, <1>5, <1>6, <2>1, <2>2, <3>1 DEF FileInv
  <2>3. CASE AgentOf[j] = a /\ JobOf(c.last[j]) = j /\ m.status[c.last[j]] # "absent"
    BY <1>2, <2>3 DEF Present
  <2> QED BY <1>6, <2>2, <2>3
<1>7. FileInv(c) BY <1>1, <1>3, <1>4, <1>6 DEF FileInv
<1>8. Finished(c) \subseteq F BY <1>1, <1>2 DEF Finished, Foreign
<1> QED BY <1>1, <1>7, <1>8 DEF Sound

(* The files after an operation on one mailbox. *)
Elsewhere(b, c) ==
  c.message = b.message /\ c.attempt = b.attempt /\ c.replies = b.replies

(* What OnMailbox writes. *)
LEMMA OnMailboxIs ==
  ASSUME NEW b \in BureauType, NEW a \in Agents, NEW e \in Events, NEW m \in MailboxType
  PROVE  LET c == OnMailbox(b, a, e, m)
         IN  /\ c \in BureauType /\ Elsewhere(b, c)
             /\ c.mb = [b.mb EXCEPT ![a] = m]
             /\ \A j \in Jobs : c.last[j] =
                  IF j = JobOf(e) /\ AgentOf[j] = a /\ m.status[e] # b.mb[a].status[e]
                  THEN e ELSE b.last[j]
<1> DEFINE x == IF AgentOf[JobOf(e)] = a /\ m.status[e] # b.mb[a].status[e]
                THEN e ELSE b.last[JobOf(e)]
           c == OnMailbox(b, a, e, m)
<1>1. JobOf(e) \in Jobs BY EventJob
<1>2. x \in Events \cup {NoEvent} BY <1>1 DEF BureauType
<1>3. c = [b EXCEPT !.mb = [b.mb EXCEPT ![a] = m],
                    !.last = [b.last EXCEPT ![JobOf(e)] = x]]
  BY DEF OnMailbox, BureauType
<1> HIDE DEF x, c
<1>4. /\ [b.mb EXCEPT ![a] = m] \in [Agents -> MailboxType]
      /\ [b.last EXCEPT ![JobOf(e)] = x] \in [Jobs -> Events \cup {NoEvent}]
  BY <1>2 DEF BureauType
<1>5. c \in BureauType /\ Elsewhere(b, c) /\ c.mb = [b.mb EXCEPT ![a] = m]
      /\ c.last = [b.last EXCEPT ![JobOf(e)] = x]
  BY <1>3, <1>4 DEF BureauType, Elsewhere
<1>6. b.last \in [Jobs -> Events \cup {NoEvent}] BY DEF BureauType
<1> QED BY <1>1, <1>5, <1>6 DEF x, c

(* An operation that gives an event where it belongs a new status keeps the *)
(* files sound, if a reply it finishes is read.                            *)
LEMMA OnMailboxSound ==
  ASSUME NEW F, NEW N, NEW b \in Sound(F, N), NEW a \in Agents, NEW e \in Events,
         NEW s, s # "absent", Belongs(b, a, e),
         s \in Terminal /\ e \in Replies /\ Foreign(e) => e \in F,
         NEW m, Moved(b.mb[a], m, e, s)
  PROVE  LET c == OnMailbox(b, a, e, m)
         IN  /\ c \in Sound(F, N) /\ Elsewhere(b, c) /\ c.mb = [b.mb EXCEPT ![a] = m]
             /\ c.mb[a] = m
             /\ \A j \in Jobs : c.last[j] \in {b.last[j], e}
<1> DEFINE c == OnMailbox(b, a, e, m)
<1>1. /\ b \in BureauType /\ FileInv(b) /\ Finished(b) \subseteq F
      /\ b.mb \in [Agents -> MailboxType] /\ b.mb[a] \in MailboxType
  BY DEF Sound, BureauType
<1>2. MailOk(m) /\ m.status = [b.mb[a].status EXCEPT ![e] = s] /\ m \in MailboxType
  BY DEF Moved, MailOk, Good
<1>3. m.status[e] = s /\ \A f \in Events \ {e} : m.status[f] = b.mb[a].status[f]
  BY <1>1, <1>2 DEF MailboxType
<1>4. /\ c \in BureauType /\ Elsewhere(b, c) /\ c.mb = [b.mb EXCEPT ![a] = m]
      /\ \A j \in Jobs : c.last[j] =
                  IF j = JobOf(e) /\ AgentOf[j] = a /\ m.status[e] # b.mb[a].status[e]
                  THEN e ELSE b.last[j]
  <2>1. b \in BureauType /\ m \in MailboxType BY <1>1, <1>2
  <2> QED BY ONLY <2>1, a \in Agents, e \in Events, OnMailboxIs
<1> HIDE DEF c
<1>5. \A f \in Events : m.status[f] # "absent" => Belongs(b, a, f)
  BY <1>1, <1>3 DEF FileInv, Present
<1>6. \A f \in Events : Present(b, a, f) => m.status[f] # "absent"
  BY <1>3 DEF Present
<1>7. ASSUME NEW f \in Replies, Foreign(f), m.status[f] \in Terminal PROVE f \in F
  <2>1. f \in Events BY EventsAssumption
  <2>2. CASE f = e BY <1>3, <1>7, <2>2
  <2>3. CASE f # e
    <3>1. b.mb[a].status[f] \in Terminal BY <1>3, <1>7, <2>1, <2>3
    <3>2. Belongs(b, a, f) BY <1>1, <2>1, <3>1, StatusSets DEF FileInv, Present
    <3> QED BY <1>1, <1>7, <3>1, <3>2 DEF Finished, Belongs
  <2> QED BY <2>2, <2>3
<1>8. ASSUME NEW j \in Jobs, c.last[j] # NoEvent
      PROVE  \/ c.last[j] = b.last[j]
             \/ /\ AgentOf[j] = a /\ JobOf(c.last[j]) = j
                /\ m.status[c.last[j]] # "absent"
  BY <1>3, <1>4
<1>9. c \in Sound(F, N)
  <2>1. c.message = b.message /\ c.attempt = b.attempt /\ c.replies = b.replies
    BY <1>4 DEF Elsewhere
  <2>2. MailOk(m) BY <1>2
  <2>3. c \in BureauType /\ c.mb = [b.mb EXCEPT ![a] = m] BY <1>4
  <2> QED BY <1>5, <1>6, <1>7, <1>8, <2>1, <2>2, <2>3, MailboxSound
<1>10. c.mb[a] = m /\ \A j \in Jobs : c.last[j] \in {b.last[j], e} BY <1>1, <1>4
<1> QED BY <1>4, <1>9, <1>10 DEF c

(* An operation that changes no status keeps the files sound. *)
LEMMA OnMailboxIdle ==
  ASSUME NEW F, NEW N, NEW b \in Sound(F, N), NEW a \in Agents, NEW e \in Events,
         NEW m, MailOk(m), m.status = b.mb[a].status
  PROVE  LET c == OnMailbox(b, a, e, m)
         IN  /\ c \in Sound(F, N) /\ Elsewhere(b, c) /\ c.mb = [b.mb EXCEPT ![a] = m]
             /\ c.last = b.last
<1> DEFINE c == OnMailbox(b, a, e, m)
<1>1. /\ b \in BureauType /\ FileInv(b) /\ Finished(b) \subseteq F
      /\ b.last \in [Jobs -> Events \cup {NoEvent}] /\ m \in MailboxType
  BY DEF Sound, BureauType, MailOk, Good
<1>2. /\ c \in BureauType /\ Elsewhere(b, c) /\ c.mb = [b.mb EXCEPT ![a] = m]
      /\ \A j \in Jobs : c.last[j] = b.last[j]
  BY <1>1, OnMailboxIs
<1> HIDE DEF c
<1>3. c.last = b.last BY <1>1, <1>2 DEF BureauType
<1>4. \A f \in Events : m.status[f] # "absent" => Belongs(b, a, f)
  BY <1>1 DEF FileInv, Present
<1>5. ASSUME NEW f \in Replies, Foreign(f), m.status[f] \in Terminal PROVE f \in F
  <2>1. f \in Events BY EventsAssumption
  <2>2. Belongs(b, a, f) BY <1>4, <1>5, <2>1, StatusSets
  <2> QED BY <1>1, <1>5, <2>2 DEF Finished, Belongs
<1>6. c \in Sound(F, N)
  BY <1>2, <1>4, <1>5, MailboxSound DEF Elsewhere, Present
<1> QED BY <1>2, <1>3, <1>6 DEF c

-----------------------------------------------------------------------------
(* Single writes outside the mailboxes. *)

(* Fewer jobs without an attempt, more replies read: still sound. *)
LEMMA SoundGrows ==
  ASSUME NEW F, NEW N, NEW G, NEW M, F \subseteq G, M \subseteq N
  PROVE  Sound(F, N) \subseteq Sound(G, M)
BY DEF Sound

(* A message record. *)
LEMMA MessageSound ==
  ASSUME NEW F, NEW N, NEW b \in Sound(F, N), NEW j \in Jobs,
         NEW s \in MessageType \ {"none"}
  PROVE  LET c == [b EXCEPT !.message[j] = s]
         IN  /\ c \in Sound(F, N) /\ c.message[j] = s
             /\ c.attempt = b.attempt /\ c.replies = b.replies /\ c.mb = b.mb
             /\ c.last = b.last
<1> DEFINE c == [b EXCEPT !.message[j] = s]
<1>1. b \in BureauType /\ FileInv(b) BY DEF Sound
<1>2. /\ c \in BureauType /\ c.message = [b.message EXCEPT ![j] = s]
      /\ c.attempt = b.attempt /\ c.replies = b.replies /\ c.mb = b.mb
      /\ c.last = b.last
  BY <1>1 DEF BureauType
<1> HIDE DEF c
<1>3. \A i \in Jobs : c.message[i] = IF i = j THEN s ELSE b.message[i]
  BY <1>1, <1>2 DEF BureauType
<1>4. FileInv(c) BY <1>1, <1>2, <1>3, EventJob DEF FileInv, Present, Belongs
<1>5. Finished(c) = Finished(b) BY <1>2 DEF Finished
<1>6. c \in Sound(F, N) BY <1>2, <1>4, <1>5 DEF Sound
<1> QED BY <1>2, <1>3, <1>6 DEF c

(* An attempt record, once there is a message. *)
LEMMA AttemptSound ==
  ASSUME NEW F, NEW N, NEW b \in Sound(F, N), NEW j \in Jobs \ N,
         b.message[j] # "none", NEW s \in AttemptType \ {"none"}
  PROVE  LET c == [b EXCEPT !.attempt[j] = s]
         IN  /\ c \in Sound(F, N) /\ c.attempt[j] = s
             /\ c.message = b.message /\ c.replies = b.replies /\ c.mb = b.mb
             /\ c.last = b.last
<1> DEFINE c == [b EXCEPT !.attempt[j] = s]
<1>1. b \in BureauType /\ FileInv(b) BY DEF Sound
<1>2. /\ c \in BureauType /\ c.attempt = [b.attempt EXCEPT ![j] = s]
      /\ c.message = b.message /\ c.replies = b.replies /\ c.mb = b.mb
      /\ c.last = b.last
  BY <1>1 DEF BureauType
<1> HIDE DEF c
<1>3. \A i \in Jobs : c.attempt[i] = IF i = j THEN s ELSE b.attempt[i]
  BY <1>1, <1>2 DEF BureauType
<1>4. FileInv(c) BY <1>1, <1>2, <1>3, EventJob DEF FileInv, Present, Belongs
<1>5. Finished(c) = Finished(b) BY <1>2 DEF Finished
<1>6. c \in Sound(F, N) BY <1>2, <1>3, <1>4, <1>5 DEF Sound
<1> QED BY <1>2, <1>3, <1>6 DEF c

(* A reply record, while there is room. *)
LEMMA ReplySound ==
  ASSUME NEW F, NEW N, NEW b \in Sound(F, N), NEW j \in Jobs, NEW s \in Ended,
         Len(b.replies[j]) < MaxReplies
  PROVE  LET c == [b EXCEPT !.replies[j] = Append(@, s)]
         IN  /\ c \in Sound(F, N)
             /\ c.replies = [b.replies EXCEPT ![j] = Append(@, s)]
             /\ Len(c.replies[j]) = Len(b.replies[j]) + 1 /\ c.replies[j] # <<>>
             /\ c.attempt = b.attempt /\ c.message = b.message /\ c.mb = b.mb
             /\ c.last = b.last
<1> DEFINE r == Append(b.replies[j], s)
           c == [b EXCEPT !.replies[j] = Append(@, s)]
<1>1. b \in BureauType /\ FileInv(b) /\ b.replies \in [Jobs -> Seq(Ended)]
  BY DEF Sound, BureauType
<1>2. r \in Seq(Ended) /\ Len(r) = Len(b.replies[j]) + 1 /\ r # <<>>
      /\ Len(b.replies[j]) \in Nat
  BY <1>1, AppendProperties, LenProperties
<1>3. c = [b EXCEPT !.replies[j] = r] BY <1>1
<1> HIDE DEF r, c
<1>4. /\ c \in BureauType /\ c.replies = [b.replies EXCEPT ![j] = r]
      /\ c.attempt = b.attempt /\ c.message = b.message /\ c.mb = b.mb
      /\ c.last = b.last
  BY <1>1, <1>2, <1>3 DEF BureauType
<1>5. c.replies[j] = r /\ \A i \in Jobs \ {j} : c.replies[i] = b.replies[i]
  BY <1>1, <1>4
<1>6. ASSUME NEW a \in Agents, NEW e \in Events, Present(c, a, e)
      PROVE  Belongs(c, a, e)
  <2>1. Belongs(b, a, e) BY <1>1, <1>4, <1>6 DEF FileInv, Present
  <2>2. JobOf(e) \in Jobs /\ e[2] \in Nat BY EventJob, BureauAssumption
  <2>3. Len(b.replies[JobOf(e)]) \in Nat /\ Len(b.replies[JobOf(e)]) <= Len(c.replies[JobOf(e)])
    BY <1>1, <1>2, <1>5, <2>2, LenProperties
  <2>4. Len(c.replies[JobOf(e)]) \in Nat BY <1>2, <1>4, <1>5, <2>2, <2>3
  <2> QED BY <1>4, <2>1, <2>2, <2>3, <2>4 DEF Belongs
<1>7. FileInv(c)
  <2>1. \A i \in Jobs : Len(c.replies[i]) <= MaxReplies
    BY <1>1, <1>2, <1>5, BureauAssumption DEF FileInv
  <2> QED BY <1>1, <1>4, <1>6, <2>1 DEF FileInv, Present
<1>8. Finished(c) = Finished(b) BY <1>4 DEF Finished
<1>9. c \in Sound(F, N) BY <1>4, <1>7, <1>8 DEF Sound
<1> QED BY <1>2, <1>4, <1>5, <1>9 DEF c, r

-----------------------------------------------------------------------------
(* The operations, as runs of writes. *)

(* A run of writes of S, of which there is at least one. *)
Run(S) == Seq(S) \ {<<>>}

(* The sound files that differ from b in the mailboxes at most. *)
Near(F, N, b) == {c \in Sound(F, N) : Elsewhere(b, c)}

(* A run of a smaller set. *)
LEMMA RunGrows ==
  ASSUME NEW S, NEW T, S \subseteq T
  PROVE  Run(S) \subseteq Run(T)
BY DEF Run

(* Runs of one, two and three writes, and one after the other. *)
LEMMA RunOf ==
  ASSUME NEW S
  PROVE  /\ \A x \in S : <<x>> \in Run(S) /\ Last(<<x>>) = x
         /\ \A x, y \in S : <<x, y>> \in Run(S) /\ Last(<<x, y>>) = y
         /\ \A x, y, z \in S : <<x, y, z>> \in Run(S) /\ Last(<<x, y, z>>) = z
         /\ \A ws, vs \in Run(S) : ws \o vs \in Run(S) /\ Last(ws \o vs) = Last(vs)
         /\ \A ws \in Run(S) : Last(ws) \in S
<1>1. ASSUME NEW x \in S PROVE <<x>> \in Run(S) /\ Last(<<x>>) = x
  BY DEF Run, Last
<1>2. ASSUME NEW x \in S, NEW y \in S PROVE <<x, y>> \in Run(S) /\ Last(<<x, y>>) = y
  BY DEF Run, Last
<1>3. ASSUME NEW x \in S, NEW y \in S, NEW z \in S
      PROVE  <<x, y, z>> \in Run(S) /\ Last(<<x, y, z>>) = z
  BY DEF Run, Last
<1>4. ASSUME NEW ws \in Run(S), NEW vs \in Run(S)
      PROVE  ws \o vs \in Run(S) /\ Last(ws \o vs) = Last(vs)
  BY WritesCat DEF Run
<1>5. ASSUME NEW ws \in Run(S) PROVE Last(ws) \in S BY WritesIn DEF Run
<1> QED BY <1>1, <1>2, <1>3, <1>4, <1>5

(* A new status of an event where it belongs is one write. *)
LEMMA OnMailboxNear ==
  ASSUME NEW F, NEW N, NEW b \in Sound(F, N), NEW a \in Agents, NEW e \in Events,
         NEW s, s # "absent", Belongs(b, a, e),
         s \in Terminal /\ e \in Replies /\ Foreign(e) => e \in F,
         NEW m, Moved(b.mb[a], m, e, s)
  PROVE  OnMailbox(b, a, e, m) \in Near(F, N, b)
BY OnMailboxSound DEF Near

(* A delivery of an event that belongs to the mailbox and is new there. *)
LEMMA DeliverRun ==
  ASSUME NEW F, NEW N, NEW b \in Sound(F, N), NEW a \in Agents, NEW e \in Events,
         Belongs(b, a, e), b.mb[a].status[e] = "absent"
  PROVE  DeliverWrites(b, a, e) \in Run(Near(F, N, b))
<1>1. MailOk(b.mb[a]) BY DEF Sound, FileInv
<1>2. /\ Moved(b.mb[a], NewEvent(b.mb[a], e), e, "queued")
      /\ Moved(b.mb[a], Deliver(b.mb[a], e), e, "queued")
  BY <1>1, DeliverOk
<1>3. "queued" # "absent" /\ "queued" \notin Terminal BY StatusSets
<1>4. OnMailbox(b, a, e, NewEvent(b.mb[a], e)) \in Near(F, N, b)
  BY <1>2, <1>3, OnMailboxNear
<1>5. OnMailbox(b, a, e, Deliver(b.mb[a], e)) \in Near(F, N, b)
  BY <1>2, <1>3, OnMailboxNear
<1> QED BY <1>4, <1>5, RunOf DEF DeliverWrites

(* A claim, whether it succeeds or not. *)
LEMMA ClaimRun ==
  ASSUME NEW F, NEW N, NEW b \in Sound(F, N), NEW a \in Agents, NEW e \in Events
  PROVE  /\ ClaimWrites(b, a, e) \in Run(Near(F, N, b))
         /\ Last(ClaimWrites(b, a, e)) = OnMailbox(b, a, e, Claim(b.mb[a], e))
<1> DEFINE m == b.mb[a]
<1>1. MailOk(m) /\ FileInv(b) BY DEF Sound, FileInv
<1>2. CASE ClaimsAnew(m, e)
  <2>1. /\ Moved(m, ClaimLogged(m, e), e, "delivering")
        /\ Moved(m, ClaimLeased(m, e), e, "delivering")
        /\ Moved(m, Claim(m, e), e, "delivering")
    BY <1>1, <1>2, ClaimAnewOk
  <2>2. "delivering" # "absent" /\ "delivering" \notin Terminal BY StatusSets
  <2>3. Present(b, a, e)
    BY <1>2, StatusSets DEF Present, ClaimsAnew, ClaimSucceeds
  <2>4. Belongs(b, a, e) BY <1>1, <2>3 DEF FileInv
  <2>5. OnMailbox(b, a, e, ClaimLogged(m, e)) \in Near(F, N, b)
    BY <2>1, <2>2, <2>4, OnMailboxNear
  <2>6. OnMailbox(b, a, e, ClaimLeased(m, e)) \in Near(F, N, b)
    BY <2>1, <2>2, <2>4, OnMailboxNear
  <2>7. OnMailbox(b, a, e, Claim(m, e)) \in Near(F, N, b)
    BY <2>1, <2>2, <2>4, OnMailboxNear
  <2>8. ClaimWrites(b, a, e)
          = << OnMailbox(b, a, e, ClaimLogged(m, e)),
               OnMailbox(b, a, e, ClaimLeased(m, e)) >>
            \o << OnMailbox(b, a, e, Claim(m, e)) >>
    BY <1>2 DEF ClaimWrites
  <2> QED BY <2>5, <2>6, <2>7, <2>8, RunOf
<1>3. CASE ~ClaimsAnew(m, e)
  <2>1. MailOk(Claim(m, e)) /\ Claim(m, e).status = m.status
    BY <1>1, <1>3, ClaimIdleOk
  <2>2. OnMailbox(b, a, e, Claim(m, e)) \in Near(F, N, b)
    BY <2>1, OnMailboxIdle DEF Near
  <2>3. ClaimWrites(b, a, e) = << OnMailbox(b, a, e, Claim(m, e)) >>
    <3> DEFINE x == OnMailbox(b, a, e, Claim(m, e))
    <3>1. ClaimWrites(b, a, e) = <<>> \o <<x>> BY <1>3 DEF ClaimWrites
    <3> HIDE DEF x
    <3>2. <<>> \o <<x>> = <<x>> OBVIOUS
    <3> QED BY <3>1, <3>2 DEF x
  <2> QED BY <2>2, <2>3, RunOf
<1> QED BY <1>2, <1>3

(* The end of a pending event, if it is no reply that nobody read. *)
LEMMA FinishRun ==
  ASSUME NEW F, NEW N, NEW b \in Sound(F, N), NEW a \in Agents, NEW e \in Events,
         NEW s \in Terminal, b.mb[a].status[e] \in Live,
         e \in Replies /\ Foreign(e) => e \in F
  PROVE  /\ FinishWrites(b, a, e, s) \in Run(Near(F, N, b))
         /\ Last(FinishWrites(b, a, e, s)) = OnMailbox(b, a, e, MarkTerminal(b.mb[a], e, s))
<1> DEFINE m == b.mb[a]
<1>1. MailOk(m) /\ FileInv(b) BY DEF Sound, FileInv
<1>2. /\ Moved(m, TerminalLogged(m, e, s), e, s)
      /\ Moved(m, TerminalReleased(m, e, s), e, s)
      /\ Moved(m, MarkTerminal(m, e, s), e, s)
  BY <1>1, FinishOk
<1>3. s # "absent" BY StatusSets
<1>4. Present(b, a, e) BY StatusSets DEF Present
<1>5. Belongs(b, a, e) BY <1>1, <1>4 DEF FileInv
<1>6. OnMailbox(b, a, e, TerminalLogged(m, e, s)) \in Near(F, N, b)
  BY <1>2, <1>3, <1>5, OnMailboxNear
<1>7. OnMailbox(b, a, e, TerminalReleased(m, e, s)) \in Near(F, N, b)
  BY <1>2, <1>3, <1>5, OnMailboxNear
<1>8. OnMailbox(b, a, e, MarkTerminal(m, e, s)) \in Near(F, N, b)
  BY <1>2, <1>3, <1>5, OnMailboxNear
<1> QED BY <1>6, <1>7, <1>8, RunOf DEF FinishWrites

(* A message that follows its attempt keeps the files sound. *)
LEMMA RefreshRun ==
  ASSUME NEW F, NEW N, NEW b \in Sound(F, N), NEW j \in Jobs
  PROVE  /\ RefreshMessageState(b, j) \in Run({c \in Sound(F, N) :
              c.attempt = b.attempt /\ c.replies = b.replies})
         /\ LET c == Last(RefreshMessageState(b, j))
            IN  c.mb = b.mb /\ c.last = b.last
<1> DEFINE c == IF b.message[j] = "none" \/ b.attempt[j] = "none" THEN b
                ELSE [b EXCEPT !.message[j] = NextMessageState(b, j)]
           S == {d \in Sound(F, N) : d.attempt = b.attempt /\ d.replies = b.replies}
<1>1. b.replies[j] \in Seq(Ended) /\ b.attempt[j] \in AttemptType
  BY DEF Sound, BureauType
<1>2. ReplyTerminalState(b.replies[j]) \in Ended \/ b.replies[j] = <<>>
  <2>1. CASE b.replies[j] # <<>>
    <3>1. b.replies[j][1] \in Ended BY <1>1, <2>1, EmptySeq, ElementOfSeq
    <3> QED BY <3>1 DEF ReplyTerminalState, Ended
  <2> QED BY <2>1
<1>3. ASSUME b.attempt[j] # "none" PROVE NextMessageState(b, j) \in MessageType \ {"none"}
  BY <1>1, <1>2, <1>3 DEF NextMessageState, MessageType, AttemptType, Ended
<1>4. c \in S /\ c.mb = b.mb /\ c.last = b.last
  <2>1. CASE b.message[j] = "none" \/ b.attempt[j] = "none" BY <2>1
  <2>2. CASE ~(b.message[j] = "none" \/ b.attempt[j] = "none")
    <3> DEFINE t == NextMessageState(b, j)
    <3>1. t \in MessageType \ {"none"} BY <1>3, <2>2
    <3>2. c = [b EXCEPT !.message[j] = t] BY <2>2
    <3> HIDE DEF t, c
    <3>3. /\ c \in Sound(F, N) /\ c.attempt = b.attempt /\ c.replies = b.replies
          /\ c.mb = b.mb /\ c.last = b.last
      BY <3>1, <3>2, MessageSound
    <3> QED BY <3>3
  <2> QED BY <2>1, <2>2
<1>5. RefreshMessageState(b, j) = <<c>> BY DEF RefreshMessageState
<1> HIDE DEF c, S
<1>6. <<c>> \in Run(S) /\ Last(<<c>>) = c BY <1>4, RunOf
<1> QED BY <1>4, <1>5, <1>6 DEF S

(* The submission of a job without an attempt. *)
LEMMA SubmissionRun ==
  ASSUME NEW F, NEW N, NEW b \in Sound(F, N), NEW j \in Jobs, b.attempt[j] = "none"
  PROVE  /\ RecordSubmission(b, j) \in Run(Sound(F, N \ {j}))
         /\ Last(RecordSubmission(b, j)).message[j] # "none"
<1> DEFINE M  == N \ {j}
           b1 == [b  EXCEPT !.message[j] = "queued"]
           b2 == [b1 EXCEPT !.attempt[j] = "pending"]
           a  == AgentOf[j]
           e  == RequestOf(j)
           ds == DeliverWrites(b2, a, e)
<1>1. b \in Sound(F, M) /\ FileInv(b) BY SoundGrows DEF Sound
<1>2. "queued" \in MessageType \ {"none"} /\ "pending" \in AttemptType \ {"none"}
  BY DEF MessageType, AttemptType
<1>3. a \in Agents /\ e \in Events \ Replies /\ JobOf(e) = j /\ j \in Jobs \ M
  BY RequestJob, BureauAssumption
<1>4. /\ b1 \in Sound(F, M) /\ b1.message[j] = "queued" /\ b1.mb = b.mb
  BY <1>1, <1>2, MessageSound
<1> HIDE DEF M, e, a, b1
<1>5. /\ b2 \in Sound(F, M) /\ b2.attempt[j] = "pending"
      /\ b2.message[j] = "queued" /\ b2.mb = b.mb
  BY <1>2, <1>3, <1>4, AttemptSound
<1>6. b2.mb[a].status[e] = "absent"
  BY <1>1, <1>3, <1>5 DEF FileInv, Present, Belongs
<1>7. Belongs(b2, a, e) BY <1>3, <1>5 DEF Belongs, a
<1> HIDE DEF b2
<1>8. ds \in Run(Near(F, M, b2)) BY <1>3, <1>5, <1>6, <1>7, DeliverRun
<1>9. Last(ds) \in Near(F, M, b2) /\ ds \in Run(Sound(F, M))
  BY <1>8, RunOf, RunGrows DEF Near
<1>10. RecordSubmission(b, j) = <<b1, b2>> \o ds
  BY DEF RecordSubmission, b1, b2, a, e
<1>11. <<b1, b2>> \in Run(Sound(F, M)) BY <1>4, <1>5, RunOf
<1> HIDE DEF ds
<1>12. RecordSubmission(b, j) \in Run(Sound(F, M)) /\ Last(RecordSubmission(b, j)) = Last(ds)
  BY <1>9, <1>10, <1>11, RunOf
<1> QED BY <1>5, <1>9, <1>12 DEF Near, Elsewhere, M

(* The start of an attempt that has a message. *)
LEMMA StartedRun ==
  ASSUME NEW F, NEW N, NEW b \in Sound(F, N), NEW j \in Jobs \ N, b.message[j] # "none"
  PROVE  MarkAttemptStarted(b, j) \in Run(Sound(F, N))
<1> DEFINE b1 == [b EXCEPT !.attempt[j] = "running"]
           a  == AgentOf[j]
           ws == IF b.last[j] # NoEvent /\ b.mb[a].status[b.last[j]] \in Claimable
                 THEN <<b1>> \o ClaimWrites(b1, a, b.last[j])
                 ELSE <<b1>>
           vs == << [Last(ws) EXCEPT !.message[j] = "running"] >>
<1>1. "running" \in MessageType \ {"none"} /\ "running" \in AttemptType \ {"none"}
  BY DEF MessageType, AttemptType
<1>2. a \in Agents /\ b.last[j] \in Events \cup {NoEvent}
  BY BureauAssumption DEF Sound, BureauType
<1>3. b1 \in Sound(F, N) BY <1>1, AttemptSound
<1> HIDE DEF b1, a
<1>4. <<b1>> \in Run(Sound(F, N)) BY <1>3, RunOf
<1>5. ws \in Run(Sound(F, N))
  <2>1. CASE ~(b.last[j] # NoEvent /\ b.mb[a].status[b.last[j]] \in Claimable)
    BY <1>4, <2>1
  <2>2. CASE b.last[j] # NoEvent /\ b.mb[a].status[b.last[j]] \in Claimable
    <3>1. ClaimWrites(b1, a, b.last[j]) \in Run(Near(F, N, b1))
      BY <1>2, <1>3, <2>2, ClaimRun
    <3>2. ClaimWrites(b1, a, b.last[j]) \in Run(Sound(F, N))
      BY <3>1, RunGrows DEF Near
    <3> QED BY <1>4, <2>2, <3>2, RunOf
  <2> QED BY <2>1, <2>2
<1>6. MarkAttemptStarted(b, j) = ws \o vs
  BY DEF MarkAttemptStarted, Then, b1, a
<1> HIDE DEF ws
<1>7. vs \in Run(Sound(F, N))
  <2>1. Last(ws) \in Sound(F, N) BY <1>5, RunOf
  <2>2. [Last(ws) EXCEPT !.message[j] = "running"] \in Sound(F, N)
    BY <1>1, <2>1, MessageSound
  <2> QED BY <2>2, RunOf
<1> HIDE DEF vs
<1> QED BY <1>5, <1>6, <1>7, RunOf

(* The end of an attempt: of the request, or of the last line that has the  *)
(* attempt.  A reply in the agent's own mailbox is no foreign one.         *)
LEMMA AttemptTerminalRun ==
  ASSUME NEW F, NEW N, NEW b \in Sound(F, N), NEW j \in Jobs \ N,
         b.attempt[j] # "none", NEW s \in Ended
  PROVE  RecordAttemptTerminal(b, j, s) \in Run({c \in Sound(F, N) :
           c.attempt = [b.attempt EXCEPT ![j] = s] /\ c.replies = b.replies})
<1> DEFINE S  == {c \in Sound(F, N) :
                    c.attempt = [b.attempt EXCEPT ![j] = s] /\ c.replies = b.replies}
           a  == AgentOf[j]
           e  == b.last[j]
           b1 == [b EXCEPT !.attempt[j] = s]
           t  == IF b.mb[a].status[e] \in Claimable /\ s = "cancelled"
                 THEN "abandoned" ELSE "consumed"
           b2 == [b1 EXCEPT !.mb[a] = Rebuild(@)]
           ws == IF e = NoEvent THEN << b1, b2 >>
                 ELSE IF b.mb[a].status[e] \in Live
                 THEN <<b1>> \o FinishWrites(b1, a, e, t)
                 ELSE <<b1>>
           vs == RefreshMessageState(Last(ws), j)
<1>1. /\ b \in BureauType /\ FileInv(b) /\ a \in Agents /\ e \in Events \cup {NoEvent}
      /\ s \in AttemptType \ {"none"} /\ t \in Terminal /\ b.message[j] # "none"
  BY BureauAssumption DEF Sound, BureauType, FileInv, AttemptType, Ended, Terminal
<1>2. /\ b1 \in Sound(F, N) /\ b1.replies = b.replies /\ b1.mb = b.mb
      /\ b1.last = b.last
  BY <1>1, AttemptSound
<1>3. b1.attempt = [b.attempt EXCEPT ![j] = s] BY <1>1 DEF BureauType
<1>4. b1 \in S BY <1>2, <1>3
<1>5. ASSUME NEW c, c \in Near(F, N, b1) PROVE c \in S
  <2> HIDE DEF b1
  <2> QED BY <1>2, <1>3, <1>5 DEF Near, Elsewhere
<1>6. RecordAttemptTerminal(b, j, s) = ws \o vs BY DEF RecordAttemptTerminal, Then
<1>7. ASSUME e # NoEvent, b.mb[a].status[e] \in Live
      PROVE  FinishWrites(b1, a, e, t) \in Run(S)
  <2>1. JobOf(e) = j /\ Present(b, a, e) /\ e \in Events BY <1>1, <1>7 DEF FileInv
  <2>2. Belongs(b, a, e) BY <1>1, <2>1 DEF FileInv
  <2>3. ~(e \in Replies /\ Foreign(e)) BY <2>1, <2>2 DEF Belongs, Foreign
  <2>4. b1.mb[a].status[e] \in Live BY <1>2, <1>7
  <2> HIDE DEF S, a, e, b1, t
  <2>5. FinishWrites(b1, a, e, t) \in Run(Near(F, N, b1))
    BY <1>1, <1>2, <2>1, <2>3, <2>4, FinishRun
  <2>6. Near(F, N, b1) \subseteq S BY <1>5
  <2> QED BY <2>5, <2>6, RunGrows
<1>8. b2 \in S
  <2>1. b1 \in BureauType /\ MailOk(b1.mb[a]) BY <1>1, <1>2 DEF Sound, FileInv
  <2>2. MailOk(Rebuild(b1.mb[a])) /\ Rebuild(b1.mb[a]).status = b1.mb[a].status
    BY <2>1, RebuildOk
  <2> HIDE DEF b1, a
  <2>3. Rebuild(b1.mb[a]) \in MailboxType BY <2>2 DEF MailOk, Good
  <2>4. /\ b2 \in BureauType /\ Elsewhere(b1, b2) /\ b2.last = b1.last
        /\ b2.mb = [b1.mb EXCEPT ![a] = Rebuild(b1.mb[a])]
    BY <2>1, <2>3 DEF BureauType, Elsewhere
  <2> HIDE DEF b2
  <2>5. /\ \A f \in Events : Rebuild(b1.mb[a]).status[f] # "absent" => Belongs(b1, a, f)
        /\ \A f \in Events : Present(b1, a, f) => Rebuild(b1.mb[a]).status[f] # "absent"
    BY <1>1, <1>2, <2>2 DEF Sound, FileInv, Present
  <2>6. ASSUME NEW f \in Replies, Foreign(f), Rebuild(b1.mb[a]).status[f] \in Terminal
        PROVE  f \in F
    <3>1. f \in Events BY EventsAssumption
    <3>2. Belongs(b1, a, f) BY <2>5, <2>6, <3>1, StatusSets
    <3> QED BY <1>2, <2>2, <2>6, <3>2 DEF Sound, Finished, Belongs
  <2>7. b2 \in Sound(F, N)
    BY <1>1, <1>2, <2>2, <2>4, <2>5, <2>6, MailboxSound DEF Elsewhere
  <2>8. b2 \in Near(F, N, b1) BY <2>4, <2>7 DEF Near
  <2> QED BY <1>5, <2>8
<1> HIDE DEF S, b1, b2
<1>9. ws \in Run(S) BY <1>1, <1>4, <1>7, <1>8, RunOf
<1> HIDE DEF ws
<1>10. Last(ws) \in S BY <1>9, RunOf
<1>11. vs \in Run(S)
  <2> DEFINE d == Last(ws)
             T == {c \in Sound(F, N) : c.attempt = d.attempt /\ c.replies = d.replies}
  <2> HIDE DEF d
  <2>1. d \in Sound(F, N) BY <1>10 DEF S, d
  <2>2. RefreshMessageState(d, j) \in Run(T) BY <2>1, RefreshRun
  <2>3. T \subseteq S BY <1>10 DEF S, d
  <2> HIDE DEF T
  <2> QED BY <2>2, <2>3, RunGrows DEF d
<1> HIDE DEF vs
<1> QED BY <1>6, <1>9, <1>11, RunOf DEF S

(* A reply: recorded, delivered to the caller if there is a mailbox, and    *)
(* told to the message.                                                    *)
LEMMA ReplyRun ==
  ASSUME NEW F, NEW N, NEW b \in Sound(F, N), NEW j \in Jobs,
         b.attempt[j] # "none", NEW s \in Ended, Len(b.replies[j]) < MaxReplies
  PROVE  RecordReply(b, j, s) \in Run(Sound(F, N))
<1> DEFINE b1 == [b EXCEPT !.replies[j] = Append(@, s)]
           ds == QueueReplyDelivery(b1, j)
           ws == <<b1>> \o ds
           vs == RefreshMessageState(Last(ws), j)
           a  == CallerOf[j]
           e  == <<j, Len(b1.replies[j])>>
<1>1. b \in BureauType /\ FileInv(b) /\ Len(b.replies[j]) \in Nat
  BY LenProperties DEF Sound, BureauType
<1>2. /\ b1 \in Sound(F, N) /\ Len(b1.replies[j]) = Len(b.replies[j]) + 1
      /\ b1.attempt = b.attempt /\ b1.mb = b.mb
  BY ReplySound
<1> HIDE DEF b1
<1>3. ds \in Run(Sound(F, N))
  <2>1. CASE a \notin Agents
    BY <1>2, <2>1, RunOf DEF QueueReplyDelivery
  <2>2. CASE a \in Agents
    <3>1. e[2] = Len(b1.replies[j]) /\ e \in Events /\ e \in Replies /\ JobOf(e) = j
      BY <1>1, <1>2, EventAssumption, BureauAssumption
      DEF InboundEvents, ReplyEvents, JobOf
    <3>2. Belongs(b1, a, e) BY <1>1, <1>2, <3>1 DEF Belongs
    <3>3. ~Belongs(b, a, e) BY <1>1, <1>2, <3>1 DEF Belongs
    <3>4. b1.mb[a].status[e] = "absent"
      BY <1>1, <1>2, <2>2, <3>1, <3>3 DEF FileInv, Present
    <3>5. ds = DeliverWrites(b1, a, e) BY <2>2 DEF QueueReplyDelivery
    <3> HIDE DEF ds, e
    <3>6. ds \in Run(Near(F, N, b1))
      BY <1>2, <2>2, <3>1, <3>2, <3>4, <3>5, DeliverRun
    <3>7. Near(F, N, b1) \subseteq Sound(F, N) BY DEF Near
    <3> QED BY <3>6, <3>7, RunGrows
  <2> QED BY <2>1, <2>2
<1>4. RecordReply(b, j, s) = ws \o vs BY DEF RecordReply, Then, b1
<1> HIDE DEF ds
<1>5. <<b1>> \in Run(Sound(F, N)) BY <1>2, RunOf
<1>6. ws \in Run(Sound(F, N)) BY <1>3, <1>5, RunOf
<1> HIDE DEF ws
<1>7. Last(ws) \in Sound(F, N) BY <1>6, RunOf
<1>8. vs \in Run(Sound(F, N))
  <2> DEFINE d == Last(ws)
             T == {c \in Sound(F, N) : c.attempt = d.attempt /\ c.replies = d.replies}
  <2> HIDE DEF d
  <2>1. d \in Sound(F, N) BY <1>7 DEF d
  <2>2. RefreshMessageState(d, j) \in Run(T) BY <2>1, RefreshRun
  <2>3. T \subseteq Sound(F, N) OBVIOUS
  <2> HIDE DEF T
  <2> QED BY <2>2, <2>3, RunGrows DEF d
<1> HIDE DEF vs
<1> QED BY <1>4, <1>6, <1>8, RunOf

(* The end of a job: of its attempt, then its reply. *)
LEMMA TerminalRun ==
  ASSUME NEW F, NEW N, NEW b \in Sound(F, N), NEW j \in Jobs \ N,
         NEW s \in Ended, Len(b.replies[j]) < MaxReplies
  PROVE  RecordTerminal(b, j, s) \in Run(Sound(F, N))
<1>1. CASE b.attempt[j] = "none"
  BY <1>1, RunOf DEF RecordTerminal
<1>2. CASE b.attempt[j] # "none"
  <2> DEFINE S  == {c \in Sound(F, N) :
                      c.attempt = [b.attempt EXCEPT ![j] = s] /\ c.replies = b.replies}
             ws == RecordAttemptTerminal(b, j, s)
             vs == RecordReply(Last(ws), j, s)
  <2>1. RecordTerminal(b, j, s) = ws \o vs BY <1>2 DEF RecordTerminal, Then
  <2>2. ws \in Run(S) BY <1>2, AttemptTerminalRun
  <2>3. Ended \subseteq AttemptType \ {"none"} /\ b.attempt \in [Jobs -> AttemptType]
    BY DEF AttemptType, Ended, Sound, BureauType
  <2> HIDE DEF ws, S
  <2>4. Last(ws) \in S /\ S \subseteq Sound(F, N) BY <2>2, RunOf DEF S
  <2>5. Last(ws).attempt[j] # "none" /\ Len(Last(ws).replies[j]) < MaxReplies
    BY <2>3, <2>4 DEF S
  <2>6. vs \in Run(Sound(F, N)) BY <2>4, <2>5, ReplyRun
  <2>7. ws \in Run(Sound(F, N)) BY <2>2, <2>4, RunGrows
  <2> HIDE DEF vs
  <2> QED BY <2>1, <2>6, <2>7, RunOf
<1> QED BY <1>1, <1>2

(* A job that is submitted and started at once. *)
LEMMA AskRun ==
  ASSUME NEW F, NEW N, NEW b \in Sound(F, N), NEW j \in Jobs, b.attempt[j] = "none"
  PROVE  AskWrites(b, j) \in Run(Sound(F, N \ {j}))
<1> DEFINE ws == RecordSubmission(b, j)
           vs == MarkAttemptStarted(Last(ws), j)
           M  == N \ {j}
<1>1. ws \in Run(Sound(F, M)) /\ Last(ws).message[j] # "none" BY SubmissionRun
<1>2. AskWrites(b, j) = ws \o vs BY DEF AskWrites, Then
<1>3. j \in Jobs \ M OBVIOUS
<1> HIDE DEF ws, M
<1>4. Last(ws) \in Sound(F, M) BY <1>1, RunOf
<1>5. vs \in Run(Sound(F, M)) BY <1>1, <1>3, <1>4, StartedRun
<1> HIDE DEF vs
<1> QED BY <1>1, <1>2, <1>5, RunOf DEF M

-----------------------------------------------------------------------------
(* The discard of stale heads. *)

(* One round of its loop. *)
Round(c, a) == IF StaleHead(c, a) THEN Last(AbandonWrites(c, a)) ELSE c

(* The loop as a function of the number of rounds. *)
IsLoop(f, b, a, k) == f = [n \in 0..k |-> IF n = 0 THEN b ELSE Round(f[n - 1], a)]

(* There is such a function, for every number of rounds. *)
LEMMA LoopExists ==
  ASSUME NEW b, NEW a, NEW K \in Nat
  PROVE  \E f : IsLoop(f, b, a, K)
<1> DEFINE T == {k \in Nat : ~\E f : IsLoop(f, b, a, k)}
<1>1. SUFFICES ASSUME T # {} PROVE FALSE OBVIOUS
<1>2. T \in SUBSET Nat OBVIOUS
<1> HIDE DEF T
<1>3. PICK x \in T : \A y \in T : x <= y BY <1>1, <1>2, LeastNatural
<1>4. x \in Nat BY <1>2
<1>5. CASE x = 0
  <2> DEFINE f == [n \in 0..0 |-> b]
  <2>1. f = [n \in 0..0 |-> IF n = 0 THEN b ELSE Round(f[n - 1], a)] OBVIOUS
  <2> HIDE DEF f
  <2>2. IsLoop(f, b, a, 0) BY <2>1 DEF IsLoop
  <2> QED BY <1>5, <2>2 DEF T
<1>6. CASE x # 0
  <2>1. x - 1 \in Nat /\ x - 1 \notin T BY <1>3, <1>4, <1>6
  <2>2. PICK f : IsLoop(f, b, a, x - 1) BY <2>1 DEF T
  <2> DEFINE g == [n \in 0..x |-> IF n = x THEN Round(f[x - 1], a) ELSE f[n]]
  <2>3. /\ f = [n \in 0..(x - 1) |-> IF n = 0 THEN b ELSE Round(f[n - 1], a)]
        /\ g = [n \in 0..x |-> g[n]]
    BY <2>2 DEF IsLoop
  <2>4. ASSUME NEW n \in 0..x PROVE g[n] = IF n = 0 THEN b ELSE Round(g[n - 1], a)
    <3>1. CASE n = 0
      BY <1>4, <1>6, <2>3, <3>1
    <3>2. CASE n # 0 /\ n # x
      <4>1. n \in 0..(x - 1) /\ n - 1 \in 0..x /\ n - 1 # x BY <1>4, <3>2
      <4>2. g[n] = f[n] /\ g[n - 1] = f[n - 1] BY <3>2, <4>1
      <4>3. f[n] = Round(f[n - 1], a) BY <2>3, <3>2, <4>1
      <4> QED BY <3>2, <4>2, <4>3
    <3>3. CASE n = x
      <4>1. n - 1 \in 0..x /\ n - 1 # x BY <1>4, <1>6, <3>3
      <4>2. g[n] = Round(f[n - 1], a) /\ g[n - 1] = f[n - 1] BY <3>3, <4>1
      <4> QED BY <1>6, <3>3, <4>2
    <3> QED BY <3>1, <3>2, <3>3
  <2>5. g = [n \in 0..x |-> IF n = 0 THEN b ELSE Round(g[n - 1], a)]
    <3> HIDE DEF g
    <3> QED BY <2>3, <2>4
  <2> HIDE DEF g
  <2>6. IsLoop(g, b, a, x) BY <2>5 DEF IsLoop
  <2> QED BY <2>6, <1>3 DEF T
<1> QED BY <1>5, <1>6

(* The rounds of the discard start from b, each follows from the last. *)
LEMMA RoundsAre ==
  ASSUME NEW b, NEW a, Cardinality(Pending(b.mb[a])) \in Nat
  PROVE  LET f == DiscardRounds(b, a)
             K == Cardinality(Pending(b.mb[a]))
         IN  f[0] = b /\ \A n \in 1..K : f[n] = Round(f[n - 1], a)
<1> DEFINE K == Cardinality(Pending(b.mb[a]))
           f == DiscardRounds(b, a)
<1>1. f = CHOOSE g : g = [n \in 0..K |->
             IF n = 0 THEN b
             ELSE IF StaleHead(g[n - 1], a) THEN Last(AbandonWrites(g[n - 1], a))
                  ELSE g[n - 1]]
  BY DEF DiscardRounds
<1>2. f = CHOOSE g : IsLoop(g, b, a, K)
  BY <1>1 DEF IsLoop, Round
<1> HIDE DEF f, K
<1>3. K \in Nat BY DEF K
<1>4. \E g : IsLoop(g, b, a, K) BY <1>3, LoopExists
<1>5. IsLoop(f, b, a, K) BY <1>2, <1>4
<1>6. f = [n \in 0..K |-> IF n = 0 THEN b ELSE Round(f[n - 1], a)]
  BY <1>5 DEF IsLoop
<1>7. f[0] = b BY <1>3, <1>6
<1>8. \A n \in 1..K : f[n] = Round(f[n - 1], a) BY <1>3, <1>6
<1> QED BY <1>7, <1>8 DEF f, K

(* The head of a mailbox is an event in it. *)
LEMMA HeadHere ==
  ASSUME NEW F, NEW N, NEW b \in Sound(F, N), NEW a \in Agents, HeadPending(b.mb[a]) # NoEvent
  PROVE  LET e == HeadPending(b.mb[a])
         IN  /\ e \in Events /\ b.mb[a].status[e] \in Live
             /\ Present(b, a, e) /\ Belongs(b, a, e)
<1> DEFINE m == b.mb[a]
           e == HeadPending(m)
<1>1. m \in MailboxType /\ FileInv(b) BY DEF Sound, BureauType
<1>2. Pending(m) # {} BY DEF HeadPending
<1> HIDE DEF m
<1>3. e \in Events /\ IsHead(m, e) BY <1>1, <1>2, HeadIsHead
<1> HIDE DEF e
<1>4. m.status[e] \in Live BY <1>3 DEF IsHead, Pending
<1>5. Present(b, a, e) BY <1>4, StatusSets DEF Present, m
<1> QED BY <1>1, <1>3, <1>4, <1>5 DEF FileInv, e, m

(* A round abandons no reply: a reply in a mailbox was recorded, and stays. *)
LEMMA RoundRun ==
  ASSUME NEW F, NEW N, NEW c \in Sound(F, N), NEW a \in Agents
  PROVE  /\ StaleHead(c, a) => AbandonWrites(c, a) \in Run(Sound(F, N))
         /\ Round(c, a) \in Sound(F, N)
<1> DEFINE e == HeadPending(c.mb[a])
           ws == AbandonWrites(c, a)
<1>1. ASSUME StaleHead(c, a) PROVE ws \in Run(Sound(F, N))
  <2>1. e # NoEvent /\ ~EventIsLive(c, e) BY <1>1 DEF StaleHead
  <2>2. e \in Events /\ c.mb[a].status[e] \in Live /\ Belongs(c, a, e)
    BY <2>1, HeadHere
  <2> HIDE DEF e
  <2>3. JobOf(e) \in Jobs BY <2>2, EventJob
  <2>4. c.attempt[JobOf(e)] # "none" /\ c.message[JobOf(e)] # "none"
    BY <2>2, <2>3 DEF Belongs, Sound, FileInv
  <2>5. e \notin Replies BY <2>1, <2>2, <2>4 DEF EventIsLive, Belongs
  <2>6. "abandoned" \in Terminal BY DEF Terminal
  <2>7. FinishWrites(c, a, e, "abandoned") \in Run(Near(F, N, c))
    BY <2>2, <2>5, <2>6, FinishRun
  <2>8. Near(F, N, c) \subseteq Sound(F, N) BY DEF Near
  <2>9. ws = FinishWrites(c, a, e, "abandoned") BY DEF AbandonWrites, e
  <2> HIDE DEF ws
  <2> QED BY <2>7, <2>8, <2>9, RunGrows
<1> HIDE DEF ws
<1>2. Round(c, a) \in Sound(F, N)
  <2>1. CASE StaleHead(c, a) BY <1>1, <2>1, RunOf DEF Round, ws
  <2>2. CASE ~StaleHead(c, a) BY <2>2 DEF Round
  <2> QED BY <2>1, <2>2
<1> QED BY <1>1, <1>2 DEF ws

(* Every round leaves the files sound, the last one too. *)
LEMMA DiscardSound ==
  ASSUME NEW F, NEW N, NEW b \in Sound(F, N), NEW a \in Agents
  PROVE  /\ \A n \in 0..Cardinality(Pending(b.mb[a])) : DiscardRounds(b, a)[n] \in Sound(F, N)
         /\ DiscardStaleHeadEvents(b, a) \in Sound(F, N)
<1> DEFINE K == Cardinality(Pending(b.mb[a]))
           f == DiscardRounds(b, a)
           T == {n \in 0..K : f[n] \notin Sound(F, N)}
<1>1. K \in Nat
  <2>1. b.mb[a] \in MailboxType BY DEF Sound, BureauType
  <2> QED BY <2>1, PendingFinite
<1>2. f[0] = b /\ \A n \in 1..K : f[n] = Round(f[n - 1], a) BY <1>1, RoundsAre
<1> HIDE DEF f, K
<1>3. T = {}
  <2>1. SUFFICES ASSUME T # {} PROVE FALSE OBVIOUS
  <2>2. T \in SUBSET Nat BY <1>1
  <2> HIDE DEF T
  <2>3. PICK x \in T : \A y \in T : x <= y BY <2>1, <2>2, LeastNatural
  <2>4. x \in 0..K /\ f[x] \notin Sound(F, N) BY <2>3 DEF T
  <2>5. x # 0 BY <1>2, <2>4
  <2>6. x - 1 \in 0..K /\ x - 1 \notin T BY <1>1, <2>3, <2>4, <2>5
  <2>7. f[x - 1] \in Sound(F, N) BY <2>6 DEF T
  <2>8. f[x] = Round(f[x - 1], a) BY <1>1, <1>2, <2>4, <2>5
  <2> QED BY <2>4, <2>7, <2>8, RoundRun
<1>4. \A n \in 0..K : f[n] \in Sound(F, N) BY <1>3
<1>5. DiscardStaleHeadEvents(b, a) = f[K] BY DEF DiscardStaleHeadEvents, f, K
<1> QED BY <1>1, <1>4, <1>5 DEF f, K

-----------------------------------------------------------------------------
(* Acknowledgements. *)

(* A reply at the head goes to the reader when it is acknowledged. *)
LEMMA AckHeadSound ==
  ASSUME NEW F, NEW N, NEW b \in Sound(F, N), NEW a \in Agents,
         NEW e \in Replies, HeadPending(b.mb[a]) = e
  PROVE  LET r == AckHead(b, a, e)
         IN  /\ r.bureau \in Sound(F \cup r.read, N)
             /\ r.read \in {{}, {e}} /\ r.panic \in BOOLEAN
<1> DEFINE m == b.mb[a]
           c == OnMailbox(b, a, e, AckReply(m, e))
           G == F \cup {e}
<1>1. MailOk(m) /\ e \in Events /\ e # NoEvent /\ "consumed" # "absent"
  BY EventsAssumption DEF Sound, FileInv
<1>2. Belongs(b, a, e) BY <1>1, HeadHere
<1>3. b \in Sound(G, N) BY SoundGrows
<1>4. CASE AckSucceeds(m, e)
  <2>1. Moved(m, AckReply(m, e), e, "consumed") BY <1>1, <1>4, AckReplyOk
  <2>2. c \in Near(G, N, b)
    <3> HIDE DEF G
    <3>1. e \in G BY DEF G
    <3> QED BY <1>1, <1>2, <1>3, <2>1, <3>1, OnMailboxNear
  <2>3. c \in Sound(G, N) BY <2>2 DEF Near
  <2>4. AckHead(b, a, e) = Done(DiscardStaleHeadEvents(c, a), {e})
    BY <1>4 DEF AckHead
  <2> HIDE DEF c, G
  <2>5. DiscardStaleHeadEvents(c, a) \in Sound(G, N) BY <2>3, DiscardSound
  <2> QED BY <2>4, <2>5 DEF Done, G
<1>5. CASE ~AckSucceeds(m, e)
  <2>1. MailOk(AckReply(m, e)) /\ AckReply(m, e).status = m.status
    BY <1>1, <1>5, AckReplyOk
  <2>2. c \in Sound(F, N) BY <1>1, <2>1, OnMailboxIdle
  <2>3. AckHead(b, a, e) = Panic(c) BY <1>5 DEF AckHead
  <2> HIDE DEF c
  <2>4. F \cup {} = F OBVIOUS
  <2> QED BY <2>2, <2>3, <2>4 DEF Panic
<1> QED BY <1>4, <1>5

(* A request at the head is finished, whatever became of its attempt. *)
LEMMA AckRequestSound ==
  ASSUME NEW F, NEW N, NEW b \in Sound(F, N), NEW a \in Agents,
         NEW e \in Events \ Replies, HeadPending(b.mb[a]) = e
  PROVE  LET r == AckTerminalTaskRequest(b, a, e)
         IN  r.bureau \in Sound(F, N) /\ r.read = {} /\ r.panic \in BOOLEAN
<1> DEFINE s == IF b.attempt[JobOf(e)] = "cancelled" /\ b.mb[a].status[e] \in Claimable
                THEN "abandoned" ELSE "consumed"
           ws == FinishWrites(b, a, e, s)
           c == Last(ws)
           r == AckTerminalTaskRequest(b, a, e)
<1>1. e # NoEvent /\ s \in Terminal BY EventsAssumption DEF Terminal
<1>2. b.mb[a].status[e] \in Live BY <1>1, HeadHere
<1>3. r = Panic(b) \/ r = Done(DiscardStaleHeadEvents(c, a), {})
  BY DEF AckTerminalTaskRequest
<1> HIDE DEF s, r
<1>4. ws \in Run(Near(F, N, b)) BY <1>1, <1>2, FinishRun
<1>5. c \in Sound(F, N)
  <2> HIDE DEF ws
  <2>1. c \in Near(F, N, b) BY <1>4, RunOf
  <2> QED BY <2>1 DEF Near
<1> HIDE DEF c
<1>6. DiscardStaleHeadEvents(c, a) \in Sound(F, N) BY <1>5, DiscardSound
<1>7. CASE r = Panic(b) BY <1>7 DEF Panic, r
<1>8. CASE r = Done(DiscardStaleHeadEvents(c, a), {}) BY <1>6, <1>8 DEF Done, r
<1> QED BY <1>3, <1>7, <1>8

(* Whatever an ack request does, the files stay sound and only the reply it *)
(* reads is new among the finished ones.  If it reads one, that one was at  *)
(* the head, before or after stale heads were discarded.                   *)
LEMMA HandleAckSound ==
  ASSUME NEW F, NEW N, NEW b \in Sound(F, N), NEW a \in Agents, NEW asked
  PROVE  LET r == HandleAck(b, a, asked)
             c == DiscardStaleHeadEvents(b, a)
         IN  /\ r.bureau \in Sound(F \cup r.read, N) /\ r.panic \in BOOLEAN
             /\ r.read \subseteq Replies
             /\ r.read \subseteq {HeadPending(b.mb[a]), HeadPending(c.mb[a])}
<1> DEFINE head == HeadPending(b.mb[a])
           want == IF asked = NoEvent THEN head ELSE asked
           c == DiscardStaleHeadEvents(b, a)
           next == HeadPending(c.mb[a])
           r == HandleAck(b, a, asked)
<1>1. \/ r = Done(b, {})
      \/ head # NoEvent /\ head = want /\ head \in Replies /\ r = AckHead(b, a, head)
      \/ head # NoEvent /\ head \notin Replies /\ r = AckTerminalTaskRequest(b, a, head)
      \/ next \in Replies /\ ~(head # NoEvent /\ head = want)
         /\ want \in {NoEvent, next} /\ r = AckHead(c, a, next)
      \/ r = Panic(c)
  BY DEF HandleAck, AckControl
<1>2. c \in Sound(F, N) BY DiscardSound
<1>3. head # NoEvent => head \in Events BY HeadHere
<1>4. F \cup {} = F OBVIOUS
<1> HIDE DEF head, want, c, r, next
<1>5. CASE r = Done(b, {}) BY <1>4, <1>5 DEF Done, r
<1>6. CASE r = Panic(c) BY <1>2, <1>4, <1>6 DEF Panic, r
<1>7. CASE head # NoEvent /\ head \in Replies /\ r = AckHead(b, a, head)
  <2>1. r.bureau \in Sound(F \cup r.read, N) /\ r.read \in {{}, {head}} /\ r.panic \in BOOLEAN
    BY <1>7, AckHeadSound DEF head
  <2> QED BY <1>7, <2>1 DEF r, head
<1>8. CASE head # NoEvent /\ head \notin Replies /\ r = AckTerminalTaskRequest(b, a, head)
  <2>1. r.bureau \in Sound(F, N) /\ r.read = {} /\ r.panic \in BOOLEAN
    BY <1>3, <1>8, AckRequestSound DEF head
  <2> QED BY <1>4, <2>1 DEF r
<1>9. CASE next \in Replies /\ r = AckHead(c, a, next)
  <2>1. r.bureau \in Sound(F \cup r.read, N) /\ r.read \in {{}, {next}} /\ r.panic \in BOOLEAN
    BY <1>2, <1>9, AckHeadSound DEF next
  <2> QED BY <1>9, <2>1 DEF r, next, c
<1> QED BY <1>1, <1>5, <1>6, <1>7, <1>8, <1>9

(* The writes of an ack of the reply at the head. *)
LEMMA AckRun ==
  ASSUME NEW F, NEW N, NEW b \in Sound(F, N), NEW a \in Agents,
         NEW e \in Replies, HeadPending(b.mb[a]) = e
  PROVE  AckWrites(b, a, e) \in Run(Sound(F \cup {e}, N))
<1> DEFINE G  == F \cup {e}
           m  == b.mb[a]
           cs == ClaimWrites(b, a, e)
           ws == IF ClaimsAnew(m, e) THEN cs ELSE <<b>>
           c  == Last(ws)
           vs == FinishWrites(c, a, e, "consumed")
<1>1. /\ e \in Events /\ e # NoEvent /\ "consumed" \in Terminal
      /\ m \in MailboxType /\ MailOk(m) /\ b.mb \in [Agents -> MailboxType]
  BY EventsAssumption DEF Terminal, Sound, FileInv, BureauType
<1>2. m.status[e] \in Live BY <1>1, HeadHere
<1>3. b \in Sound(G, N) BY SoundGrows
<1>4. AckWrites(b, a, e) = ws \o vs BY DEF AckWrites, Then
<1>5. ws \in Run(Sound(G, N)) /\ c \in Sound(G, N) /\ c.mb[a].status[e] \in Live
  <2> HIDE DEF G
  <2>1. CASE ~ClaimsAnew(m, e)
    <3>1. ws = <<b>> BY <2>1
    <3> HIDE DEF ws
    <3>2. ws \in Run(Sound(G, N)) /\ c = b BY <1>3, <3>1, RunOf
    <3> QED BY <1>2, <1>3, <3>2
  <2>2. CASE ClaimsAnew(m, e)
    <3>1. ws = cs /\ cs \in Run(Near(G, N, b)) /\ Last(cs) = OnMailbox(b, a, e, Claim(m, e))
      BY <1>1, <1>3, <2>2, ClaimRun
    <3>2. Near(G, N, b) \subseteq Sound(G, N) BY DEF Near
    <3>3. c = OnMailbox(b, a, e, Claim(m, e)) BY <3>1
    <3> HIDE DEF ws, cs
    <3>4. ws \in Run(Sound(G, N)) BY <3>1, <3>2, RunGrows
    <3>5. c \in Sound(G, N) BY <3>4, RunOf
    <3> HIDE DEF c
    <3>6. Moved(m, Claim(m, e), e, "delivering") BY <1>1, <2>2, ClaimAnewOk
    <3>7. Claim(m, e) \in MailboxType /\ Claim(m, e).status[e] = "delivering"
      BY <1>1, <3>6 DEF Moved, MailOk, Good, MailboxType
    <3>8. b \in BureauType BY DEF Sound
    <3>9. c.mb = [b.mb EXCEPT ![a] = Claim(m, e)]
      BY <1>1, <3>3, <3>7, <3>8, OnMailboxIs
    <3>10. c.mb[a].status[e] = "delivering" BY <1>1, <3>7, <3>9
    <3> QED BY <3>4, <3>5, <3>10, StatusSets
  <2> QED BY <2>1, <2>2
<1> HIDE DEF ws, c
<1>6. e \in G OBVIOUS
<1> HIDE DEF G
<1>7. vs \in Run(Near(G, N, c)) BY <1>1, <1>5, <1>6, FinishRun
<1>8. Near(G, N, c) \subseteq Sound(G, N) BY DEF Near
<1> HIDE DEF vs
<1>9. vs \in Run(Sound(G, N)) BY <1>7, <1>8, RunGrows
<1> QED BY <1>4, <1>5, <1>9, RunOf DEF G

-----------------------------------------------------------------------------
(* The daemon that may be killed anywhere. *)

Fresh == {j \in Jobs : job[j] = "new"}

(* The invariant: the files are sound, with the replies that were read as   *)
(* the only finished ones and no attempt of a job that is new.             *)
CrashInv ==
  /\ bureau \in Sound(acked, Fresh)
  /\ job \in [Jobs -> {"new", "live", "lost"} \cup Ended]
  /\ driven \subseteq {j \in Jobs : job[j] \notin {"new", "lost"}}
  /\ acked \subseteq Replies /\ dead \in BOOLEAN

(* It holds of the daemon's first start. *)
LEMMA CrashInvInit == Init => CrashInv
<1> SUFFICES ASSUME Init PROVE CrashInv OBVIOUS
<1> DEFINE b == EmptyBureau
<1>1. Exact(EmptyMailbox) BY EmptyExact
<1>2. EmptyMailbox \in MailboxType /\ Good(EmptyMailbox)
      /\ \A e \in Events : EmptyMailbox.status[e] = "absent"
  BY <1>1 DEF Exact, Good, EmptyMailbox
<1>3. MailOk(EmptyMailbox) BY <1>2 DEF MailOk, LeaseOk
<1>4. b \in BureauType
  <2>1. <<>> \in Seq(Ended) OBVIOUS
  <2> QED BY <1>2, <2>1 DEF EmptyBureau, BureauType, MessageType, AttemptType
<1>5. /\ \A a \in Agents : b.mb[a] = EmptyMailbox
      /\ \A j \in Jobs : /\ b.attempt[j] = "none" /\ b.last[j] = NoEvent
                         /\ b.replies[j] = <<>>
  BY DEF EmptyBureau
<1> HIDE DEF b
<1>6. FileInv(b)
  <2>1. \A j \in Jobs : Len(b.replies[j]) <= MaxReplies BY <1>5, BureauAssumption
  <2> QED BY <1>2, <1>3, <1>5, <2>1 DEF FileInv, Present
<1>7. Finished(b) = {}
  <2>1. \A e \in Replies : e \in Events /\ "absent" \notin Terminal
    BY EventsAssumption, StatusSets
  <2> QED BY <1>2, <1>5, <2>1 DEF Finished, Foreign
<1>8. b \in Sound({}, Fresh) BY <1>4, <1>5, <1>6, <1>7 DEF Sound
<1> QED BY <1>8 DEF Init, CrashInv, b

(* A file state that some writes of an operation leave. *)
LEMMA CutSound ==
  ASSUME NEW S, NEW ws \in Run(S), CutIn(ws)
  PROVE  bureau' \in S
<1>1. PICK i \in 1..(Len(ws) - 1) : bureau' = ws[i] BY DEF CutIn
<1> QED BY <1>1, WritesIn DEF Run

(* A discard cut short leaves sound files. *)
LEMMA CutDiscardSound ==
  ASSUME NEW F, NEW N, NEW b \in Sound(F, N), NEW a \in Agents, CutInDiscard(b, a)
  PROVE  bureau' \in Sound(F, N)
<1>1. PICK n \in 0..Cardinality(Pending(b.mb[a])) :
        LET c == DiscardRounds(b, a)[n]
        IN  bureau' = c \/ (StaleHead(c, a) /\ CutIn(AbandonWrites(c, a)))
  BY DEF CutInDiscard
<1> DEFINE c == DiscardRounds(b, a)[n]
<1>2. c \in Sound(F, N) BY DiscardSound
<1>3. bureau' = c \/ (StaleHead(c, a) /\ CutIn(AbandonWrites(c, a))) BY <1>1
<1> HIDE DEF c
<1>4. StaleHead(c, a) => AbandonWrites(c, a) \in Run(Sound(F, N)) BY <1>2, RoundRun
<1> QED BY <1>2, <1>3, <1>4, CutSound

(* What a restart leaves of the daemon: the files are as `bureau'`. *)
LEMMA RestartKeeps ==
  ASSUME CrashInv, Restarted
  PROVE  /\ job' \in [Jobs -> {"new", "live", "lost"} \cup Ended]
         /\ driven' \subseteq {j \in Jobs : job'[j] \notin {"new", "lost"}}
         /\ dead' \in BOOLEAN /\ Fresh' = Fresh
<1>1. PICK kept \in SUBSET {j \in Jobs : job[j] # "new"} :
        /\ driven' = kept
        /\ job' = [j \in Jobs |-> IF j \in kept THEN "live"
                                  ELSE IF job[j] = "new" THEN "new" ELSE "lost"]
  BY DEF Restarted
<1>2. \A j \in Jobs : job'[j] = IF j \in kept THEN "live"
                                ELSE IF job[j] = "new" THEN "new" ELSE "lost"
  BY <1>1
<1>3. Fresh' = Fresh BY <1>2 DEF Fresh
<1>4. dead' \in BOOLEAN BY DEF Restarted, Killed
<1> QED BY <1>1, <1>2, <1>3, <1>4

(* A request served keeps the invariant. *)
LEMMA ServeKeeps == CrashInv /\ Serve => CrashInv'
<1> SUFFICES ASSUME CrashInv, Serve PROVE CrashInv' OBVIOUS
<1> USE DEF CrashInv
<1>1. /\ bureau \in Sound(acked, Fresh) /\ bureau.replies \in [Jobs -> Seq(Ended)]
      /\ Verdicts \cup {"cancelled"} \subseteq Ended
      /\ Ended \cap {"new", "live", "lost"} = {}
  BY BureauAssumption DEF Sound, BureauType, Ended
<1>2. ASSUME NEW j \in Jobs, job[j] = "new"
      PROVE  j \in Fresh /\ bureau.attempt[j] = "none"
  BY <1>2 DEF Fresh, Sound
<1>3. ASSUME NEW j \in Jobs, job[j] = "new", job' = [job EXCEPT ![j] = "live"]
      PROVE  /\ Fresh' = Fresh \ {j}
             /\ job' \in [Jobs -> {"new", "live", "lost"} \cup Ended]
             /\ driven \cup {j} \subseteq {i \in Jobs : job'[i] \notin {"new", "lost"}}
  BY <1>3 DEF Fresh
<1>4. ASSUME NEW j \in Jobs, NEW s \in Ended, job[j] # "new",
             job' = [job EXCEPT ![j] = s]
      PROVE  /\ Fresh' = Fresh
             /\ job' \in [Jobs -> {"new", "live", "lost"} \cup Ended]
             /\ driven \subseteq {i \in Jobs : job'[i] \notin {"new", "lost"}}
  BY <1>1, <1>4 DEF Fresh
<1>5. ASSUME NEW j \in Jobs, Submit(j) PROVE CrashInv'
  <2>1. job[j] = "new" /\ RecordSubmission(bureau, j) \in Run(Sound(acked, Fresh \ {j}))
    BY <1>1, <1>2, <1>5, SubmissionRun DEF Submit
  <2>2. Last(RecordSubmission(bureau, j)) \in Sound(acked, Fresh \ {j})
    BY <2>1, WritesIn DEF Run
  <2>3. bureau' \in Sound(acked', Fresh') BY <1>3, <1>5, <2>2 DEF Submit
  <2> QED BY <1>3, <1>5, <2>3 DEF Submit
<1>6. ASSUME NEW j \in Jobs, Ask(j) PROVE CrashInv'
  <2>1. job[j] = "new" /\ AskWrites(bureau, j) \in Run(Sound(acked, Fresh \ {j}))
    BY <1>1, <1>2, <1>6, AskRun DEF Ask
  <2>2. Last(AskWrites(bureau, j)) \in Sound(acked, Fresh \ {j})
    BY <2>1, WritesIn DEF Run
  <2>3. bureau' \in Sound(acked', Fresh') BY <1>3, <1>6, <2>2 DEF Ask
  <2> QED BY <1>3, <1>6, <2>3 DEF Ask
<1>7. ASSUME NEW j \in Jobs \ Fresh, NEW s \in Ended, Len(bureau.replies[j]) < MaxReplies
      PROVE  Last(RecordTerminal(bureau, j, s)) \in Sound(acked, Fresh)
  <2>1. RecordTerminal(bureau, j, s) \in Run(Sound(acked, Fresh))
    BY <1>1, <1>7, TerminalRun
  <2> QED BY <2>1, WritesIn DEF Run
<1>8. ASSUME NEW j \in Jobs, NEW s \in Verdicts, End(j, s) PROVE CrashInv'
  <2>1. j \in driven /\ job[j] # "new" /\ j \notin Fresh /\ s \in Ended
    BY <1>1, <1>8 DEF End, Fresh
  <2>2. bureau' \in Sound(acked, Fresh) BY <1>7, <1>8, <2>1 DEF End
  <2>3. job' = [job EXCEPT ![j] = s] /\ driven' \subseteq driven
        /\ acked' = acked /\ dead' = dead
    BY <1>8 DEF End
  <2> QED BY <1>4, <2>1, <2>2, <2>3
<1>9. ASSUME NEW j \in Jobs, Cancel(j) PROVE CrashInv'
  <2>1. job[j] # "new" /\ j \notin Fresh /\ "cancelled" \in Ended
    BY <1>1, <1>9 DEF Cancel, Fresh
  <2>2. bureau' \in Sound(acked, Fresh) BY <1>7, <1>9, <2>1 DEF Cancel
  <2>3. job' = [job EXCEPT ![j] = "cancelled"] /\ driven' \subseteq driven
        /\ acked' = acked /\ dead' = dead
    BY <1>9 DEF Cancel
  <2> QED BY <1>4, <2>1, <2>2, <2>3
<1>10. ASSUME NEW a \in Agents, ReadQueue(a) PROVE CrashInv'
  <2>1. bureau' \in Sound(acked, Fresh) BY <1>1, <1>10, DiscardSound DEF ReadQueue
  <2> QED BY <1>10, <2>1 DEF ReadQueue, Fresh
<1>11. ASSUME NEW a \in Agents, NEW asked, Ack(a, asked) PROVE CrashInv'
  <2> DEFINE r == HandleAck(bureau, a, asked)
  <2>1. r.bureau \in Sound(acked \cup r.read, Fresh) /\ r.panic \in BOOLEAN
        /\ r.read \subseteq Replies
    BY <1>1, HandleAckSound
  <2>2. bureau' = r.bureau /\ acked' = acked \cup r.read /\ dead' = r.panic
        /\ UNCHANGED <<job, driven>>
    BY <1>11 DEF Ack
  <2> HIDE DEF r
  <2>3. Fresh' = Fresh BY <2>2 DEF Fresh
  <2>4. bureau' \in Sound(acked', Fresh') BY <2>1, <2>2, <2>3
  <2> QED BY <2>1, <2>2, <2>4
<1> QED BY <1>5, <1>6, <1>8, <1>9, <1>10, <1>11 DEF Serve

(* A crash, in whatever operation, keeps the invariant. *)
LEMMA CrashKeeps == CrashInv /\ Crash => CrashInv'
<1> SUFFICES ASSUME CrashInv, Crash PROVE CrashInv' OBVIOUS
<1>0. /\ bureau \in Sound(acked, Fresh) /\ acked \subseteq Replies
      /\ driven \subseteq {j \in Jobs : job[j] \notin {"new", "lost"}}
      /\ Verdicts \cup {"cancelled"} \subseteq Ended
  BY BureauAssumption DEF CrashInv, Ended
<1>1. ASSUME Restarted, bureau' \in Sound(acked', Fresh), acked' \subseteq Replies
      PROVE  CrashInv'
  BY <1>1, RestartKeeps DEF CrashInv
<1>2. CASE CrashBetween BY <1>0, <1>1, <1>2 DEF CrashBetween
<1>3. ASSUME NEW j \in Jobs, job[j] = "new", CutIn(AskWrites(bureau, j)), Killed,
             driven' = {}, UNCHANGED acked,
             job' = [i \in Jobs |-> IF job[i] = "new" /\ i # j THEN "new" ELSE "lost"]
      PROVE  CrashInv'
  <2>1. bureau.attempt[j] = "none" BY <1>0, <1>3 DEF Sound, Fresh
  <2>2. AskWrites(bureau, j) \in Run(Sound(acked, Fresh \ {j})) BY <1>0, <2>1, AskRun
  <2>3. bureau' \in Sound(acked, Fresh \ {j}) BY <1>3, <2>2, CutSound
  <2>4. Fresh' = Fresh \ {j} BY <1>3 DEF Fresh
  <2>5. job' \in [Jobs -> {"new", "live", "lost"} \cup Ended] /\ dead' \in BOOLEAN
    BY <1>3 DEF Killed
  <2> QED BY <1>0, <1>3, <2>3, <2>4, <2>5 DEF CrashInv
<1>4. ASSUME NEW j \in driven, NEW s \in Verdicts \cup {"cancelled"},
             Len(bureau.replies[j]) < MaxReplies,
             CutIn(RecordTerminal(bureau, j, s)), Restarted, UNCHANGED acked
      PROVE  CrashInv'
  <2>1. j \in Jobs \ Fresh /\ s \in Ended BY <1>0 DEF Fresh
  <2>2. RecordTerminal(bureau, j, s) \in Run(Sound(acked, Fresh))
    BY <1>0, <1>4, <2>1, TerminalRun
  <2>3. bureau' \in Sound(acked, Fresh) BY <1>4, <2>2, CutSound
  <2> QED BY <1>0, <1>1, <1>4, <2>3
<1>5. CASE CrashInRecording BY <1>3, <1>4, <1>5 DEF CrashInRecording
<1>6. CASE CrashInAck
  <2>1. PICK a \in Agents, e \in Replies, asked \in Events \cup {NoEvent} :
          LET b == IF HeadPending(bureau.mb[a]) = e THEN bureau
                   ELSE DiscardStaleHeadEvents(bureau, a)
          IN  /\ HandleAck(bureau, a, asked).read = {e}
              /\ CutIn(AckWrites(b, a, e)) \/ CutInDiscard(Last(AckWrites(b, a, e)), a)
              /\ acked' = IF bureau'.mb[a].status[e] \in Terminal
                          THEN acked \cup {e} ELSE acked
    BY <1>6, EventsAssumption DEF CrashInAck
  <2> DEFINE c == DiscardStaleHeadEvents(bureau, a)
             b == IF HeadPending(bureau.mb[a]) = e THEN bureau ELSE c
             ws == AckWrites(b, a, e)
  <2>2. c \in Sound(acked, Fresh) BY <1>0, DiscardSound
  <2>3. HeadPending(bureau.mb[a]) = e \/ HeadPending(c.mb[a]) = e
    <3>1. e \in HandleAck(bureau, a, asked).read BY <2>1
    <3>2. HandleAck(bureau, a, asked).read \subseteq
            {HeadPending(bureau.mb[a]), HeadPending(c.mb[a])}
      BY <1>0, HandleAckSound
    <3> QED BY <3>1, <3>2
  <2>4. CutIn(ws) \/ CutInDiscard(Last(ws), a) BY <2>1
  <2> HIDE DEF c
  <2>5. b \in Sound(acked, Fresh) /\ HeadPending(b.mb[a]) = e BY <1>0, <2>2, <2>3
  <2> HIDE DEF b
  <2>6. ws \in Run(Sound(acked \cup {e}, Fresh)) BY <2>5, AckRun
  <2> HIDE DEF ws
  <2>7. bureau' \in Sound(acked \cup {e}, Fresh)
    <3>1. CASE CutIn(ws) BY <2>6, <3>1, CutSound
    <3>2. CASE CutInDiscard(Last(ws), a)
      <4>1. Last(ws) \in Sound(acked \cup {e}, Fresh) BY <2>6, RunOf
      <4> QED BY <3>2, <4>1, CutDiscardSound
    <3> QED BY <2>4, <3>1, <3>2
  <2>8. CallerOf[JobOf(e)] = a
    <3>1. Belongs(b, a, e) BY <2>5, EventsAssumption, HeadHere
    <3> QED BY <3>1 DEF Belongs
  <2>9. bureau' \in Sound(acked', Fresh)
    <3>1. CASE bureau'.mb[a].status[e] \in Terminal BY <2>1, <2>7, <3>1
    <3>2. CASE bureau'.mb[a].status[e] \notin Terminal
      <4>1. acked' = acked BY <2>1, <3>2
      <4>2. e \notin Finished(bureau') BY <2>8, <3>2 DEF Finished
      <4> QED BY <2>7, <4>1, <4>2 DEF Sound
    <3> QED BY <3>1, <3>2
  <2>10. acked' \subseteq Replies /\ Restarted BY <1>0, <1>6, <2>1 DEF CrashInAck
  <2> QED BY <1>1, <2>9, <2>10
<1>7. CASE CrashInDiscard
  <2>1. PICK a \in Agents : CutInDiscard(bureau, a) BY <1>7 DEF CrashInDiscard
  <2>2. bureau' \in Sound(acked, Fresh) BY <1>0, <2>1, CutDiscardSound
  <2> QED BY <1>0, <1>1, <1>7, <2>2 DEF CrashInDiscard
<1> QED BY <1>2, <1>5, <1>6, <1>7 DEF Crash

(* The invariant holds at every moment of a daemon that may be killed. *)
LEMMA CrashInvHolds == CrashSpec => []CrashInv
<1>1. CrashInv /\ [Serve \/ Crash]_vars => CrashInv'
  <2>1. CASE UNCHANGED vars BY <2>1 DEF vars, CrashInv, Fresh
  <2> QED BY <2>1, ServeKeeps, CrashKeeps
<1> QED BY <1>1, CrashInvInit, PTL DEF CrashSpec

(* The files have the shape of their records, also after a crash between    *)
(* any two writes.                                                         *)
THEOREM TypeCorrect == CrashSpec => []TypeOK
<1>1. CrashInv => TypeOK
  BY DEF CrashInv, Sound, BureauType, FileInv, TypeOK
<1> QED BY <1>1, CrashInvHolds, PTL

(* No crash, repeated end or look at the queue takes a reply from its       *)
(* caller: it is finished only by the ack that read it.                    *)
THEOREM RepliesKept == CrashSpec => []RepliesWaitForReader
<1>1. CrashInv => RepliesWaitForReader
  BY DEF CrashInv, Sound, Finished, Foreign, RepliesWaitForReader
<1> QED BY <1>1, CrashInvHolds, PTL

-----------------------------------------------------------------------------
(* The daemon that is not killed: what a whole operation leaves.            *)

(* What the message, the attempt, the replies and the request of a job tell *)
(* of each other.                                                          *)
JobInv(b, j) ==
  /\ b.message[j] = "none" <=> b.attempt[j] = "none"
  /\ b.message[j] \in Ended <=> b.attempt[j] \in Ended
  /\ b.attempt[j] \in Ended <=> b.replies[j] # <<>>
  /\ b.message[j] = "completed" => Range(b.replies[j]) = {"completed"}
  /\ b.attempt[j] \in {"pending", "running"}
       <=> b.mb[AgentOf[j]].status[RequestOf(j)] \in Live
  /\ b.attempt[j] \in {"pending", "running"} => b.last[j] = RequestOf(j)

(* Every summary is exact. *)
AllExact(b) == \A a \in Agents : Exact(b.mb[a])

(* The files, without crashes: every summary exact, every job in order. *)
Whole(b) == AllExact(b) /\ \A j \in Jobs : JobInv(b, j)

(* Nothing that JobInv speaks of changed for job i, or for any but j. *)
SameJob(b, c, i) ==
  /\ c.message[i] = b.message[i] /\ c.attempt[i] = b.attempt[i]
  /\ c.replies[i] = b.replies[i] /\ c.last[i] = b.last[i]
  /\ c.mb[AgentOf[i]].status[RequestOf(i)] = b.mb[AgentOf[i]].status[RequestOf(i)]
OnlyJob(b, c, j) == \A i \in Jobs \ {j} : SameJob(b, c, i)

(* A job for which nothing changed stays in order. *)
LEMMA SameJobKeeps ==
  ASSUME NEW b, NEW c, NEW i, JobInv(b, i), SameJob(b, c, i)
  PROVE  JobInv(c, i)
BY DEF JobInv, SameJob

(* Two steps that concern one job. *)
LEMMA OnlyJobTrans ==
  ASSUME NEW b, NEW c, NEW d, NEW j, OnlyJob(b, c, j), OnlyJob(c, d, j)
  PROVE  OnlyJob(b, d, j)
BY DEF OnlyJob, SameJob

(* The files are whole if every other job was in order and stays untouched. *)
LEMMA WholeKeeps ==
  ASSUME NEW b, NEW c, NEW j \in Jobs, Whole(b), AllExact(c), OnlyJob(b, c, j), JobInv(c, j)
  PROVE  Whole(c)
BY SameJobKeeps DEF Whole, OnlyJob

(* An operation on an event of job j that keeps its mailbox exact. *)
LEMMA OnMailboxExact ==
  ASSUME NEW b \in BureauType, AllExact(b), NEW a \in Agents, NEW e \in Events,
         NEW m, Exact(m),
         \A f \in Events \ {e} : m.status[f] = b.mb[a].status[f]
  PROVE  LET c == OnMailbox(b, a, e, m)
         IN  /\ AllExact(c) /\ Elsewhere(b, c) /\ OnlyJob(b, c, JobOf(e))
             /\ c.mb[a] = m
             /\ \A x \in Agents : \A f \in Events \ {e} :
                  c.mb[x].status[f] = b.mb[x].status[f]
             /\ \A i \in Jobs : c.last[i] =
                  IF i = JobOf(e) /\ AgentOf[i] = a /\ m.status[e] # b.mb[a].status[e]
                  THEN e ELSE b.last[i]
<1> DEFINE c == OnMailbox(b, a, e, m)
<1>1. m \in MailboxType /\ b.mb \in [Agents -> MailboxType]
  BY DEF Exact, Good, BureauType
<1>2. /\ Elsewhere(b, c) /\ c.mb = [b.mb EXCEPT ![a] = m]
      /\ \A i \in Jobs : c.last[i] =
           IF i = JobOf(e) /\ AgentOf[i] = a /\ m.status[e] # b.mb[a].status[e]
           THEN e ELSE b.last[i]
  <2>1. b \in BureauType /\ m \in MailboxType BY <1>1
  <2> QED BY ONLY <2>1, a \in Agents, e \in Events, OnMailboxIs
<1> HIDE DEF c
<1>3. c.mb[a] = m /\ \A x \in Agents \ {a} : c.mb[x] = b.mb[x] BY <1>1, <1>2
<1>4. AllExact(c) BY <1>3 DEF AllExact
<1>5. \A x \in Agents : \A f \in Events \ {e} : c.mb[x].status[f] = b.mb[x].status[f]
  BY <1>3
<1>6. ASSUME NEW i \in Jobs \ {JobOf(e)} PROVE SameJob(b, c, i)
  <2>1. AgentOf[i] \in Agents /\ RequestOf(i) \in Events \ {e}
    BY RequestJob, BureauAssumption
  <2> QED BY <1>2, <1>5, <2>1 DEF SameJob, Elsewhere
<1>7. OnlyJob(b, c, JobOf(e)) BY <1>6 DEF OnlyJob
<1> QED BY <1>2, <1>3, <1>4, <1>5, <1>7 DEF c

(* The last write of a run to which one more is appended. *)
LEMMA LastOne ==
  ASSUME NEW S, NEW ws \in Run(S), NEW x
  PROVE  Last(ws \o <<x>>) = x
<1> DEFINE T == S \cup {x}
<1>1. S \subseteq T /\ x \in T OBVIOUS
<1> HIDE DEF T
<1>2. ws \in Run(T) BY <1>1, RunGrows
<1>3. <<x>> \in Run(T) /\ Last(<<x>>) = x BY <1>1, RunOf
<1> QED BY <1>2, <1>3, RunOf

(* One reply decides; replies that differ make the message incomplete. *)
LEMMA RepliesDecide ==
  ASSUME NEW r \in Seq(Ended), r # <<>>
  PROVE  /\ ReplyTerminalState(r) \in Ended
         /\ ReplyTerminalState(r) = "completed" => Range(r) = {"completed"}
<1>1. r[1] \in Ended /\ r[1] \in Range(r) /\ Range(r) \subseteq Ended
  <2>1. Len(r) \in Nat /\ Len(r) # 0 /\ DOMAIN r = 1..Len(r) BY EmptySeq, LenProperties
  <2>2. 1 \in DOMAIN r BY <2>1
  <2>3. \A i \in DOMAIN r : r[i] \in Ended BY <2>1, ElementOfSeq
  <2> QED BY <2>2, <2>3 DEF Range
<1>2. IsFiniteSet(Ended)
  <2>1. IsFiniteSet({"completed"}) BY FS_Singleton
  <2>2. IsFiniteSet({"completed"} \cup {"failed"}) BY <2>1, FS_AddElement
  <2>3. IsFiniteSet(({"completed"} \cup {"failed"}) \cup {"incomplete"})
    BY <2>2, FS_AddElement
  <2>4. IsFiniteSet((({"completed"} \cup {"failed"}) \cup {"incomplete"}) \cup {"cancelled"})
    BY <2>3, FS_AddElement
  <2>5. Ended = (({"completed"} \cup {"failed"}) \cup {"incomplete"}) \cup {"cancelled"}
    BY DEF Ended
  <2> QED BY <2>4, <2>5
<1>3. IsFiniteSet(Range(r)) BY <1>1, <1>2, FS_Subset
<1>4. ASSUME Cardinality(Range(r)) = 1 PROVE Range(r) = {r[1]}
  <2>1. PICK x : Range(r) = {x} BY <1>3, <1>4, FS_Singleton
  <2> QED BY <1>1, <2>1
<1> QED BY <1>1, <1>4 DEF ReplyTerminalState, Ended

(* What the submission of a new job leaves. *)
LEMMA SubmissionWhole ==
  ASSUME NEW F, NEW N, NEW b \in Sound(F, N), NEW j \in Jobs, b.attempt[j] = "none",
         Whole(b)
  PROVE  LET c == Last(RecordSubmission(b, j))
         IN  /\ Whole(c) /\ OnlyJob(b, c, j) /\ c.attempt[j] = "pending"
<1> DEFINE M  == N \ {j}
           b1 == [b  EXCEPT !.message[j] = "queued"]
           b2 == [b1 EXCEPT !.attempt[j] = "pending"]
           a  == AgentOf[j]
           e  == RequestOf(j)
           d1 == OnMailbox(b2, a, e, NewEvent(b2.mb[a], e))
           c  == OnMailbox(b2, a, e, Deliver(b2.mb[a], e))
<1>1. /\ b \in Sound(F, M) /\ FileInv(b) /\ JobInv(b, j) /\ AllExact(b)
      /\ b \in BureauType
  BY SoundGrows DEF Sound, Whole
<1>2. "queued" \in MessageType \ {"none"} /\ "pending" \in AttemptType \ {"none"}
  BY DEF MessageType, AttemptType
<1>3. a \in Agents /\ e \in Events \ Replies /\ JobOf(e) = j /\ j \in Jobs \ M
  BY RequestJob, BureauAssumption
<1>4. Last(RecordSubmission(b, j)) = c
  <2>1. RecordSubmission(b, j) = <<b1, b2>> \o <<d1, c>>
    BY DEF RecordSubmission, DeliverWrites
  <2> HIDE DEF b1, b2, d1, c
  <2> DEFINE S == {b1, b2, d1, c}
  <2>2. <<b1, b2>> \in Run(S) /\ <<d1, c>> \in Run(S) /\ Last(<<d1, c>>) = c
    <3>1. b1 \in S /\ b2 \in S /\ d1 \in S /\ c \in S OBVIOUS
    <3> HIDE DEF S
    <3> QED BY <3>1, RunOf
  <2> QED BY <2>1, <2>2, RunOf
<1>5. b1 \in Sound(F, M) /\ b1.message[j] = "queued" BY <1>1, <1>2, MessageSound
<1>6. b2 \in Sound(F, M) BY <1>2, <1>3, <1>5, AttemptSound
<1>7. /\ b2.message = [b.message EXCEPT ![j] = "queued"]
      /\ b2.attempt = [b.attempt EXCEPT ![j] = "pending"]
      /\ b2.mb = b.mb /\ b2.replies = b.replies /\ b2.last = b.last
  BY <1>1 DEF BureauType
<1> HIDE DEF b1, b2, c, M, a, e
<1>8. b2.message[j] = "queued" /\ b2.attempt[j] = "pending" /\ b2.replies[j] = <<>>
  BY <1>1, <1>7 DEF BureauType, JobInv, Ended
<1>9. OnlyJob(b, b2, j) BY <1>1, <1>7 DEF OnlyJob, SameJob, BureauType
<1>10. b2.mb[a].status[e] = "absent"
  BY <1>1, <1>3, <1>7 DEF FileInv, Present, Belongs
<1>11. Exact(b2.mb[a]) /\ AllExact(b2) BY <1>1, <1>3, <1>7 DEF AllExact
<1> DEFINE m == Deliver(b2.mb[a], e)
<1>12. Exact(m) BY <1>3, <1>10, <1>11, DeliverExact
<1>13. m.status = [b2.mb[a].status EXCEPT ![e] = "queued"]
       /\ b2.mb[a].status \in [Events -> Statuses] /\ b2 \in BureauType
  BY <1>3, <1>6, <1>11, DeliverLog DEF Arrives, Exact, Good, MailboxType, Sound
<1>14. c = OnMailbox(b2, a, e, m) BY DEF c
<1> HIDE DEF m
<1>15. m.status[e] = "queued" /\ \A f \in Events \ {e} : m.status[f] = b2.mb[a].status[f]
  BY <1>3, <1>13
<1>16. /\ AllExact(c) /\ Elsewhere(b2, c) /\ OnlyJob(b2, c, JobOf(e)) /\ c.mb[a] = m
       /\ \A i \in Jobs : c.last[i] =
            IF i = JobOf(e) /\ AgentOf[i] = a /\ m.status[e] # b2.mb[a].status[e]
            THEN e ELSE b2.last[i]
  BY <1>3, <1>11, <1>12, <1>13, <1>14, <1>15, OnMailboxExact
<1>17. c.last[j] = e BY <1>3, <1>10, <1>15, <1>16 DEF a
<1>18. /\ c.message[j] = "queued" /\ c.attempt[j] = "pending" /\ c.replies[j] = <<>>
       /\ c.mb[a].status[e] = "queued"
  BY <1>8, <1>15, <1>16 DEF Elsewhere
<1>19. JobInv(c, j)
  BY <1>17, <1>18, StatusSets DEF JobInv, Ended, a, e
<1>20. OnlyJob(b, c, j) BY <1>3, <1>9, <1>16, OnlyJobTrans
<1>21. Whole(c) BY <1>16, <1>19, <1>20, WholeKeeps
<1> QED BY <1>4, <1>18, <1>20, <1>21

(* The status that a claim leaves to a pending event. *)
LEMMA ClaimStatus ==
  ASSUME NEW m, Exact(m), NEW e \in Events, m.status[e] \in Live
  PROVE  /\ Exact(Claim(m, e)) /\ Claim(m, e).status[e] \in Live
         /\ \A f \in Events \ {e} : Claim(m, e).status[f] = m.status[f]
<1> DEFINE n == Claim(m, e)
<1>1. Exact(n) BY ClaimExact
<1>2. m \in MailboxType /\ m.status \in [Events -> Statuses] BY DEF Exact, Good, MailboxType
<1>3. CASE ClaimsAnew(m, e)
  <2>1. LogTo(m, n, e, "delivering") BY <1>2, <1>3, ClaimAnewLog DEF Starts
  <2> QED BY <1>1, <1>2, <2>1, StatusSets DEF LogTo
<1>4. CASE ~ClaimsAnew(m, e)
  <2>1. n = Rebuild(m) BY <1>4 DEF Claim
  <2>2. Kept(m, n) BY <1>2, <2>1, RebuildKept
  <2> QED BY <1>1, <2>2 DEF Kept, SameLog
<1> QED BY <1>3, <1>4

(* What the start of an attempt leaves whose request is the last line. *)
LEMMA StartedWhole ==
  ASSUME NEW F, NEW N, NEW b \in Sound(F, N), NEW j \in Jobs \ N, Whole(b),
         b.attempt[j] = "pending"
  PROVE  LET c == Last(MarkAttemptStarted(b, j))
         IN  /\ Whole(c) /\ OnlyJob(b, c, j) /\ c.attempt[j] # "none"
<1> DEFINE b1 == [b EXCEPT !.attempt[j] = "running"]
           a  == AgentOf[j]
           e  == RequestOf(j)
           ws == IF b.last[j] # NoEvent /\ b.mb[a].status[b.last[j]] \in Claimable
                 THEN <<b1>> \o ClaimWrites(b1, a, b.last[j])
                 ELSE <<b1>>
           d  == Last(ws)
           c  == [d EXCEPT !.message[j] = "running"]
<1>1. /\ JobInv(b, j) /\ AllExact(b) /\ b \in BureauType /\ b.message[j] # "none"
      /\ FileInv(b) /\ a \in Agents /\ e \in Events /\ JobOf(e) = j /\ e # NoEvent
  BY RequestJob, EventsAssumption, BureauAssumption DEF Sound, Whole, FileInv
<1>2. "running" \in MessageType \ {"none"} /\ "running" \in AttemptType \ {"none"}
  BY DEF MessageType, AttemptType
<1>3. b.last[j] = e /\ b.mb[a].status[e] \in Live /\ b.replies[j] = <<>>
  BY <1>1 DEF JobInv, Ended
<1>4. b1 \in Sound(F, N) BY <1>1, <1>2, AttemptSound
<1>5. /\ b1.attempt = [b.attempt EXCEPT ![j] = "running"] /\ b1.message = b.message
      /\ b1.mb = b.mb /\ b1.replies = b.replies /\ b1.last = b.last
  BY <1>1 DEF BureauType
<1>6. MarkAttemptStarted(b, j) = ws \o <<c>>
  BY DEF MarkAttemptStarted, Then
<1> HIDE DEF b1, a, e
<1>7. <<b1>> \in Run(Sound(F, N)) /\ Last(<<b1>>) = b1 BY <1>4, RunOf
<1>8. AllExact(b1) /\ b1.mb[a].status[e] \in Live /\ b1 \in BureauType
  BY <1>1, <1>3, <1>4, <1>5 DEF AllExact, Sound
<1>9. OnlyJob(b, b1, j) /\ b1.attempt[j] = "running"
  BY <1>1, <1>5 DEF OnlyJob, SameJob, BureauType
<1>10. /\ ws \in Run(Sound(F, N)) /\ AllExact(d) /\ OnlyJob(b1, d, j) /\ Elsewhere(b1, d)
       /\ d.last[j] = e /\ d.mb[a].status[e] \in Live
  <2>1. CASE b.mb[a].status[e] \notin Claimable
    <3>1. ws = <<b1>> BY <1>3, <2>1
    <3> HIDE DEF ws
    <3>2. d = b1 BY <1>7, <3>1
    <3> QED BY <1>3, <1>5, <1>7, <1>8, <3>1, <3>2 DEF OnlyJob, SameJob, Elsewhere
  <2>2. CASE b.mb[a].status[e] \in Claimable
    <3> DEFINE m  == Claim(b1.mb[a], e)
               k  == OnMailbox(b1, a, e, m)
               cs == ClaimWrites(b1, a, e)
    <3>1. ws = <<b1>> \o cs BY <1>1, <1>3, <2>2
    <3>2. cs \in Run(Near(F, N, b1)) /\ Last(cs) = k BY <1>1, <1>4, ClaimRun
    <3>3. Near(F, N, b1) \subseteq Sound(F, N) BY DEF Near
    <3> HIDE DEF ws, cs
    <3>4. cs \in Run(Sound(F, N)) BY <3>2, <3>3, RunGrows
    <3>5. ws \in Run(Sound(F, N)) /\ d = k BY <1>7, <3>1, <3>2, <3>4, RunOf
    <3>6. /\ Exact(m) /\ m.status[e] \in Live
          /\ \A f \in Events \ {e} : m.status[f] = b1.mb[a].status[f]
      BY <1>1, <1>8, ClaimStatus DEF AllExact
    <3> HIDE DEF m, d
    <3>7. /\ AllExact(k) /\ Elsewhere(b1, k) /\ OnlyJob(b1, k, JobOf(e))
          /\ k.mb[a] = m
          /\ \A i \in Jobs : k.last[i] =
               IF i = JobOf(e) /\ AgentOf[i] = a /\ m.status[e] # b1.mb[a].status[e]
               THEN e ELSE b1.last[i]
      BY <1>1, <1>8, <3>6, OnMailboxExact
    <3> HIDE DEF k
    <3>8. k.last[j] = e BY <1>3, <1>5, <3>7
    <3> QED BY <1>1, <3>5, <3>6, <3>7, <3>8
  <2> QED BY <2>1, <2>2
<1>11. Last(MarkAttemptStarted(b, j)) = c
  <2> HIDE DEF ws, c
  <2> QED BY <1>6, <1>10, LastOne
<1>12. d \in Sound(F, N)
  <2> HIDE DEF ws
  <2> QED BY <1>10, RunOf
<1> HIDE DEF d
<1>13. /\ c.message = [d.message EXCEPT ![j] = "running"] /\ c.attempt = d.attempt
       /\ c.mb = d.mb /\ c.replies = d.replies /\ c.last = d.last
       /\ d.message \in [Jobs -> MessageType]
  BY <1>12 DEF Sound, BureauType
<1> HIDE DEF c
<1>14. OnlyJob(d, c, j) /\ AllExact(c) BY <1>10, <1>13 DEF OnlyJob, SameJob, AllExact
<1>15. OnlyJob(b, c, j) BY <1>9, <1>10, <1>14, OnlyJobTrans
<1>16. /\ c.message[j] = "running" /\ c.attempt[j] = "running" /\ c.replies[j] = <<>>
       /\ c.last[j] = e /\ c.mb[a].status[e] \in Live
  BY <1>3, <1>5, <1>9, <1>10, <1>13 DEF Elsewhere
<1>17. JobInv(c, j) BY <1>16 DEF JobInv, Ended, a, e
<1>18. Whole(c) BY <1>14, <1>15, <1>17, WholeKeeps
<1> QED BY <1>11, <1>15, <1>16, <1>18

(* What a job that is submitted and started at once leaves. *)
LEMMA AskWhole ==
  ASSUME NEW F, NEW N, NEW b \in Sound(F, N), NEW j \in Jobs, b.attempt[j] = "none",
         Whole(b)
  PROVE  LET c == Last(AskWrites(b, j))
         IN  /\ Whole(c) /\ OnlyJob(b, c, j) /\ c.attempt[j] # "none"
<1> DEFINE ws == RecordSubmission(b, j)
           d  == Last(ws)
           vs == MarkAttemptStarted(d, j)
           c  == Last(vs)
           M  == N \ {j}
<1>1. ws \in Run(Sound(F, M)) /\ d.message[j] # "none" BY SubmissionRun
<1>2. Whole(d) /\ OnlyJob(b, d, j) /\ d.attempt[j] = "pending" BY SubmissionWhole
<1>3. AskWrites(b, j) = ws \o vs BY DEF AskWrites, Then
<1>4. j \in Jobs \ M OBVIOUS
<1> HIDE DEF ws, M
<1>5. d \in Sound(F, M) BY <1>1, RunOf
<1> HIDE DEF d
<1>6. Whole(c) /\ OnlyJob(d, c, j) /\ c.attempt[j] # "none"
  BY <1>2, <1>4, <1>5, StartedWhole
<1>7. vs \in Run(Sound(F, M)) BY <1>1, <1>4, <1>5, StartedRun
<1> HIDE DEF vs
<1>8. Last(AskWrites(b, j)) = c BY <1>1, <1>3, <1>7, RunOf
<1> HIDE DEF c
<1> QED BY <1>2, <1>6, <1>8, OnlyJobTrans

(* The message after it is refreshed. *)
Refreshed(b, j) ==
  IF b.message[j] = "none" \/ b.attempt[j] = "none" THEN b
  ELSE [b EXCEPT !.message[j] = NextMessageState(b, j)]

(* A refresh touches the message of its job, and nothing else. *)
LEMMA RefreshedIs ==
  ASSUME NEW b \in BureauType, NEW j \in Jobs
  PROVE  LET c == Refreshed(b, j)
         IN  /\ RefreshMessageState(b, j) = <<c>>
             /\ c.mb = b.mb /\ c.attempt = b.attempt /\ c.replies = b.replies
             /\ c.last = b.last /\ OnlyJob(b, c, j)
             /\ c.message[j] = IF b.message[j] = "none" \/ b.attempt[j] = "none"
                               THEN b.message[j] ELSE NextMessageState(b, j)
<1> DEFINE c == Refreshed(b, j)
           t == NextMessageState(b, j)
<1>1. RefreshMessageState(b, j) = <<c>> BY DEF RefreshMessageState, Refreshed
<1>2. CASE b.message[j] = "none" \/ b.attempt[j] = "none"
  <2>1. c = b BY <1>2 DEF Refreshed
  <2> HIDE DEF c
  <2> QED BY <1>1, <1>2, <2>1 DEF OnlyJob, SameJob, c
<1>3. CASE ~(b.message[j] = "none" \/ b.attempt[j] = "none")
  <2>1. c = [b EXCEPT !.message[j] = t] BY <1>3 DEF Refreshed
  <2> HIDE DEF c, t
  <2>2. /\ c.message = [b.message EXCEPT ![j] = t] /\ c.mb = b.mb
        /\ c.attempt = b.attempt /\ c.replies = b.replies /\ c.last = b.last
        /\ b.message \in [Jobs -> MessageType]
    BY <2>1 DEF BureauType
  <2>3. OnlyJob(b, c, j) /\ c.message[j] = t BY <2>2 DEF OnlyJob, SameJob
  <2> QED BY <1>1, <1>3, <2>2, <2>3 DEF c, t
<1> QED BY <1>2, <1>3

(* What the end of an attempt leaves: its request is out of the queue. *)
LEMMA AttemptTerminalWhole ==
  ASSUME NEW F, NEW N, NEW b \in Sound(F, N), NEW j \in Jobs \ N, Whole(b),
         b.attempt[j] # "none", NEW s \in Ended
  PROVE  LET c == Last(RecordAttemptTerminal(b, j, s))
         IN  /\ AllExact(c) /\ OnlyJob(b, c, j)
             /\ c.attempt[j] = s /\ c.replies = b.replies /\ c.message[j] # "none"
             /\ c.mb[AgentOf[j]].status[RequestOf(j)] \notin Live
<1> DEFINE a  == AgentOf[j]
           q  == RequestOf(j)
           e  == b.last[j]
           b1 == [b EXCEPT !.attempt[j] = s]
           t  == IF b.mb[a].status[e] \in Claimable /\ s = "cancelled"
                 THEN "abandoned" ELSE "consumed"
           b2 == [b1 EXCEPT !.mb[a] = Rebuild(@)]
           fs == FinishWrites(b1, a, e, t)
           ws == IF e = NoEvent THEN << b1, b2 >>
                 ELSE IF b.mb[a].status[e] \in Live THEN <<b1>> \o fs
                 ELSE <<b1>>
           d  == Last(ws)
           c  == Refreshed(d, j)
<1>1. /\ JobInv(b, j) /\ AllExact(b) /\ b \in BureauType /\ FileInv(b)
      /\ b.message[j] # "none" /\ a \in Agents /\ q \in Events
      /\ e \in Events \cup {NoEvent} /\ t \in Terminal
      /\ s \in AttemptType \ {"none"}
  BY RequestJob, BureauAssumption
  DEF Sound, Whole, FileInv, BureauType, Terminal, AttemptType, Ended
<1>2. /\ b1.attempt = [b.attempt EXCEPT ![j] = s] /\ b1.message = b.message
      /\ b1.mb = b.mb /\ b1.replies = b.replies /\ b1.last = b.last
      /\ b.attempt \in [Jobs -> AttemptType] /\ b.mb \in [Agents -> MailboxType]
  BY <1>1 DEF BureauType
<1>3. b1 \in Sound(F, N) BY <1>1, AttemptSound
<1>4. b1 \in BureauType BY <1>3 DEF Sound
<1>5. RecordAttemptTerminal(b, j, s) = ws \o RefreshMessageState(d, j)
  BY DEF RecordAttemptTerminal, Then
<1>6. b2.mb = [b.mb EXCEPT ![a] = Rebuild(b.mb[a])] /\ Elsewhere(b1, b2)
      /\ b2.last = b.last /\ b2 \in BureauType
  <2> DEFINE m == Rebuild(b1.mb[a])
  <2>1. b1.mb[a] \in MailboxType BY <1>1, <1>2
  <2>2. m \in MailboxType BY <2>1, RebuildKept DEF Kept
  <2>3. b2 = [b1 EXCEPT !.mb = [b1.mb EXCEPT ![a] = m]] BY <1>4 DEF BureauType
  <2> HIDE DEF b1, b2, m
  <2>4. b2 \in BureauType /\ Elsewhere(b1, b2) /\ b2.last = b1.last
        /\ b2.mb = [b1.mb EXCEPT ![a] = m]
    BY <1>1, <1>4, <2>2, <2>3 DEF BureauType, Elsewhere
  <2> QED BY <1>2, <2>4 DEF m
<1>7. e # NoEvent => JobOf(e) = j BY <1>1 DEF FileInv
<1>8. b.mb[a].status[q] \in Live => e = q
  BY <1>1 DEF JobInv
<1> HIDE DEF a, q, e, b1, t, b2
<1>9. OnlyJob(b, b1, j) /\ AllExact(b1) BY <1>1, <1>2 DEF OnlyJob, SameJob, AllExact
<1>10. /\ \E S : ws \in Run(S) /\ b1 \in S
       /\ d \in BureauType /\ AllExact(d) /\ OnlyJob(b1, d, j) /\ Elsewhere(b1, d)
       /\ d.mb[a].status[q] \notin Live
  <2>1. CASE e = NoEvent
    <3> DEFINE S == {b1, b2}
    <3>1. ws = <<b1, b2>> BY <2>1
    <3> HIDE DEF ws
    <3>2. b1 \in S /\ b2 \in S OBVIOUS
    <3> HIDE DEF S
    <3>3. ws \in Run(S) /\ d = b2 BY <3>1, <3>2, RunOf
    <3>4. Exact(b.mb[a]) BY <1>1 DEF AllExact
    <3>5. Kept(b.mb[a], Rebuild(b.mb[a])) /\ Exact(Rebuild(b.mb[a]))
      BY <3>4, RebuildKept, RebuildExact DEF Exact, Good
    <3>6. Rebuild(b.mb[a]).status = b.mb[a].status BY <3>5 DEF Kept, SameLog
    <3> DEFINE m == Rebuild(b.mb[a])
    <3> HIDE DEF m
    <3>7. b2.mb[a] = m /\ \A x \in Agents \ {a} : b2.mb[x] = b.mb[x]
      BY <1>1, <1>2, <1>6 DEF m
    <3>8. Exact(m) /\ m.status = b.mb[a].status BY <3>5, <3>6 DEF m
    <3>9. AllExact(b2) BY <1>1, <3>7, <3>8 DEF AllExact
    <3>10. OnlyJob(b1, b2, j)
      <4>1. \A i \in Jobs : AgentOf[i] \in Agents BY BureauAssumption
      <4> QED BY <1>2, <1>6, <3>7, <3>8, <4>1 DEF OnlyJob, SameJob, Elsewhere
    <3>11. b2.mb[a].status[q] \notin Live
      BY <1>1, <1>8, <2>1, <3>7, <3>8, EventsAssumption
    <3> QED BY <1>6, <3>2, <3>3, <3>9, <3>10, <3>11
  <2>2. CASE e # NoEvent /\ b.mb[a].status[e] \in Live
    <3> DEFINE m == MarkTerminal(b1.mb[a], e, t)
               k == OnMailbox(b1, a, e, m)
    <3>1. ws = <<b1>> \o fs BY <2>2
    <3>2. Exact(b1.mb[a]) /\ b1.mb[a].status[e] \in Live /\ e \in Events
      BY <1>1, <1>2, <1>9, <2>2 DEF AllExact
    <3>3. fs = <<OnMailbox(b1, a, e, TerminalLogged(b1.mb[a], e, t)),
                 OnMailbox(b1, a, e, TerminalReleased(b1.mb[a], e, t)), k>>
      BY DEF FinishWrites
    <3> DEFINE u1 == OnMailbox(b1, a, e, TerminalLogged(b1.mb[a], e, t))
               u2 == OnMailbox(b1, a, e, TerminalReleased(b1.mb[a], e, t))
               S  == {b1, u1, u2, k}
    <3>4. b1 \in S /\ ws \in Run(S) /\ d = k
      <4>1. fs = <<u1, u2, k>> BY <3>3
      <4> HIDE DEF ws, fs, u1, u2, k
      <4>2. b1 \in S /\ u1 \in S /\ u2 \in S /\ k \in S OBVIOUS
      <4> HIDE DEF S
      <4>3. <<b1>> \in Run(S) /\ fs \in Run(S) /\ Last(fs) = k BY <4>1, <4>2, RunOf
      <4> QED BY <3>1, <4>2, <4>3, RunOf
    <3>5. Exact(m) BY <1>1, <3>2, MarkTerminalExact
    <3>6. b1.mb[a].status \in [Events -> Statuses] /\ b1.mb[a] \in MailboxType
      BY <3>2 DEF Exact, Good, MailboxType
    <3>7. m.status = [b1.mb[a].status EXCEPT ![e] = t]
      BY <1>1, <3>2, <3>6, MarkTerminalLog DEF LogTo
    <3> HIDE DEF m, ws, d, S, fs
    <3>8. m.status[e] = t /\ \A f \in Events \ {e} : m.status[f] = b1.mb[a].status[f]
      BY <3>2, <3>6, <3>7
    <3>9. /\ AllExact(k) /\ Elsewhere(b1, k) /\ OnlyJob(b1, k, JobOf(e)) /\ k.mb[a] = m
      BY <1>1, <1>4, <1>9, <3>2, <3>5, <3>8, OnMailboxExact
    <3>11. k \in BureauType BY <1>1, <1>4, <3>2, <3>5, OnMailboxIs DEF Exact, Good
    <3> HIDE DEF k
    <3>10. k.mb[a].status[q] \notin Live
      BY <1>1, <1>2, <1>8, <3>8, <3>9, StatusSets
    <3> QED BY <1>7, <2>2, <3>4, <3>9, <3>10, <3>11
  <2>3. CASE e # NoEvent /\ b.mb[a].status[e] \notin Live
    <3> DEFINE S == {b1}
    <3>1. ws = <<b1>> BY <2>3
    <3> HIDE DEF ws
    <3>2. b1 \in S OBVIOUS
    <3> HIDE DEF S
    <3>3. ws \in Run(S) /\ d = b1 BY <3>1, <3>2, RunOf
    <3>4. d.mb[a].status[q] \notin Live BY <1>2, <1>8, <2>3, <3>3
    <3> QED BY <1>4, <1>9, <3>2, <3>3, <3>4 DEF OnlyJob, SameJob, Elsewhere
  <2> QED BY <2>1, <2>2, <2>3
<1>11. PICK S : ws \in Run(S) BY <1>10
<1> HIDE DEF ws, d
<1>12. /\ RefreshMessageState(d, j) = <<c>>
       /\ c.mb = d.mb /\ c.attempt = d.attempt /\ c.replies = d.replies
       /\ c.last = d.last /\ OnlyJob(d, c, j)
       /\ c.message[j] = IF d.message[j] = "none" \/ d.attempt[j] = "none"
                         THEN d.message[j] ELSE NextMessageState(d, j)
  BY <1>10, RefreshedIs
<1>13. Last(RecordAttemptTerminal(b, j, s)) = c BY <1>5, <1>11, <1>12, LastOne
<1> HIDE DEF c
<1>14. d.message[j] # "none" /\ d.attempt[j] = s /\ d.replies = b.replies
  BY <1>1, <1>2, <1>10 DEF Elsewhere
<1>15. NextMessageState(d, j) # "none"
  <2>1. d.replies[j] = <<>> \/ ReplyTerminalState(d.replies[j]) \in Ended
    BY <1>14, RepliesDecide DEF Sound, BureauType
  <2> QED BY <1>14, <2>1 DEF NextMessageState, Ended
<1>16. c.message[j] # "none" /\ AllExact(c) /\ c.mb[a].status[q] \notin Live
  BY <1>10, <1>12, <1>14, <1>15 DEF AllExact
<1>17. OnlyJob(b, c, j) BY <1>9, <1>10, <1>12, OnlyJobTrans
<1> QED BY <1>12, <1>13, <1>14, <1>16, <1>17 DEF a, q

(* What a reply leaves once the attempt is over and its request gone. *)
LEMMA ReplyWhole ==
  ASSUME NEW F, NEW N, NEW b \in Sound(F, N), NEW j \in Jobs, AllExact(b),
         b.attempt[j] \in Ended, b.message[j] # "none",
         b.mb[AgentOf[j]].status[RequestOf(j)] \notin Live,
         NEW s \in Ended, Len(b.replies[j]) < MaxReplies
  PROVE  LET c == Last(RecordReply(b, j, s))
         IN  AllExact(c) /\ OnlyJob(b, c, j) /\ JobInv(c, j) /\ c.attempt[j] # "none"
<1> DEFINE q  == RequestOf(j)
           b1 == [b EXCEPT !.replies[j] = Append(@, s)]
           ds == QueueReplyDelivery(b1, j)
           ws == <<b1>> \o ds
           d  == Last(ws)
           c  == Refreshed(d, j)
           a  == CallerOf[j]
           e  == <<j, Len(b1.replies[j])>>
<1>1. /\ b \in BureauType /\ FileInv(b) /\ Len(b.replies[j]) \in Nat
      /\ q \in Events /\ q \notin Replies /\ AgentOf[j] \in Agents
      /\ b.replies \in [Jobs -> Seq(Ended)] /\ "none" \notin Ended
  BY LenProperties, RequestJob, BureauAssumption DEF Sound, BureauType, Ended
<1>2. /\ b1 \in Sound(F, N) /\ Len(b1.replies[j]) = Len(b.replies[j]) + 1
      /\ b1.replies = [b.replies EXCEPT ![j] = Append(@, s)]
      /\ b1.replies[j] # <<>> /\ b1.attempt = b.attempt /\ b1.message = b.message
      /\ b1.mb = b.mb /\ b1.last = b.last
  BY ONLY b \in Sound(F, N), j \in Jobs, s \in Ended,
     Len(b.replies[j]) < MaxReplies, ReplySound
<1>3. RecordReply(b, j, s) = ws \o RefreshMessageState(d, j)
  BY DEF RecordReply, Then
<1> HIDE DEF b1, q
<1>4. b1 \in BureauType /\ AllExact(b1) /\ OnlyJob(b, b1, j)
  BY <1>1, <1>2 DEF Sound, AllExact, OnlyJob, SameJob
<1>5. /\ \E S : ws \in Run(S)
      /\ d \in BureauType /\ AllExact(d) /\ OnlyJob(b1, d, j) /\ Elsewhere(b1, d)
      /\ d.mb[AgentOf[j]].status[q] \notin Live
  <2>1. CASE a \notin Agents
    <3> DEFINE S == {b1}
    <3>1. ds = <<b1>> BY <2>1 DEF QueueReplyDelivery
    <3> HIDE DEF ds
    <3>2. b1 \in S OBVIOUS
    <3> HIDE DEF S
    <3>3. <<b1>> \in Run(S) /\ Last(<<b1>>) = b1 BY <3>2, RunOf
    <3>4. ws \in Run(S) /\ d = b1 BY <3>1, <3>3, RunOf
    <3> QED BY <1>2, <1>4, <3>4 DEF OnlyJob, SameJob, Elsewhere, q
  <2>2. CASE a \in Agents
    <3> DEFINE m  == Deliver(b1.mb[a], e)
               u1 == OnMailbox(b1, a, e, NewEvent(b1.mb[a], e))
               k  == OnMailbox(b1, a, e, m)
               S  == {b1, u1, k}
    <3>1. e[2] = Len(b1.replies[j]) /\ e \in Events /\ e \in Replies /\ JobOf(e) = j
      BY <1>1, <1>2, EventAssumption, BureauAssumption
      DEF InboundEvents, ReplyEvents, JobOf
    <3>2. ~Belongs(b, a, e)
      <4> HIDE DEF e
      <4>1. ~(e[2] <= Len(b.replies[j])) BY <1>1, <1>2, <3>1
      <4> QED BY <3>1, <4>1 DEF Belongs
    <3>3. b1.mb[a].status[e] = "absent"
      BY <1>1, <1>2, <2>2, <3>1, <3>2 DEF FileInv, Present
    <3>4. ds = <<u1, k>> BY <2>2 DEF QueueReplyDelivery, DeliverWrites
    <3> HIDE DEF ds, e
    <3>5. \E T : ws \in Run(T) /\ d = k
      <4> HIDE DEF ws, u1, k
      <4>1. b1 \in S /\ u1 \in S /\ k \in S OBVIOUS
      <4> HIDE DEF S
      <4>2. <<b1>> \in Run(S) /\ ds \in Run(S) /\ Last(ds) = k BY <3>4, <4>1, RunOf
      <4>3. ws \in Run(S) /\ d = k BY <4>2, RunOf DEF ws
      <4> QED BY <4>3
    <3> HIDE DEF ws, d
    <3>6. Exact(b1.mb[a]) BY <1>4, <2>2 DEF AllExact
    <3>7. Exact(m) BY <3>1, <3>3, <3>6, DeliverExact
    <3>8. m.status = [b1.mb[a].status EXCEPT ![e] = "queued"]
          /\ b1.mb[a].status \in [Events -> Statuses]
      BY <3>1, <3>6, DeliverLog DEF Arrives, Exact, Good, MailboxType
    <3> HIDE DEF m
    <3>9. \A f \in Events \ {e} : m.status[f] = b1.mb[a].status[f] BY <3>8
    <3>10. /\ AllExact(k) /\ Elsewhere(b1, k) /\ OnlyJob(b1, k, JobOf(e))
           /\ \A x \in Agents : \A f \in Events \ {e} :
                k.mb[x].status[f] = b1.mb[x].status[f]
      <4>1. b1 \in BureauType /\ AllExact(b1) /\ a \in Agents /\ e \in Events
        BY <1>4, <2>2, <3>1
      <4> HIDE DEF a
      <4> QED BY ONLY <3>7, <3>9, <4>1, OnMailboxExact
    <3>11. k \in BureauType
      <4>1. m \in MailboxType BY <3>7 DEF Exact, Good
      <4>2. b1 \in BureauType /\ a \in Agents /\ e \in Events BY <1>4, <2>2, <3>1
      <4> HIDE DEF a
      <4> HIDE DEF k
      <4>3. OnMailbox(b1, a, e, m) \in BureauType BY <4>1, <4>2, OnMailboxIs
      <4> QED BY <4>3 DEF k
    <3> HIDE DEF k
    <3>12. k.mb[AgentOf[j]].status[q] \notin Live
      <4>1. q \in Events \ {e} BY <1>1, <3>1
      <4>2. b1.mb[AgentOf[j]].status[q] \notin Live BY <1>2 DEF q
      <4> QED BY <1>1, <3>10, <4>1, <4>2
    <3>13. OnlyJob(b1, k, j) BY <3>1, <3>10
    <3>14. PICK T : ws \in Run(T) /\ d = k BY <3>5
    <3> QED BY <3>10, <3>11, <3>12, <3>13, <3>14
  <2> QED BY <2>1, <2>2
<1>6. PICK S : ws \in Run(S) BY <1>5
<1> HIDE DEF ws, d
<1>7. /\ RefreshMessageState(d, j) = <<c>>
      /\ c.mb = d.mb /\ c.attempt = d.attempt /\ c.replies = d.replies
      /\ c.last = d.last /\ OnlyJob(d, c, j)
      /\ c.message[j] = IF d.message[j] = "none" \/ d.attempt[j] = "none"
                        THEN d.message[j] ELSE NextMessageState(d, j)
  BY <1>5, RefreshedIs
<1>8. Last(RecordReply(b, j, s)) = c BY <1>3, <1>6, <1>7, LastOne
<1> HIDE DEF c
<1>9. /\ d.message[j] # "none" /\ d.attempt[j] \in Ended /\ d.attempt[j] # "none"
      /\ d.replies[j] \in Seq(Ended) /\ d.replies[j] # <<>>
  BY <1>1, <1>2, <1>4, <1>5 DEF Elsewhere, BureauType
<1>10. c.message[j] = ReplyTerminalState(d.replies[j])
  BY <1>7, <1>9 DEF NextMessageState
<1>11. /\ c.message[j] \in Ended
       /\ c.message[j] = "completed" => Range(c.replies[j]) = {"completed"}
  BY <1>7, <1>9, <1>10, RepliesDecide
<1>12. c.attempt[j] \in Ended /\ c.replies[j] # <<>>
       /\ c.mb[AgentOf[j]].status[RequestOf(j)] \notin Live
  BY <1>5, <1>7, <1>9 DEF q
<1>13. JobInv(c, j) BY <1>11, <1>12 DEF JobInv, Ended
<1>14. AllExact(c) BY <1>5, <1>7 DEF AllExact
<1>15. OnlyJob(b, c, j) BY <1>4, <1>5, <1>7, OnlyJobTrans
<1> QED BY <1>1, <1>8, <1>12, <1>13, <1>14, <1>15

(* What the end of a job leaves, and a further end of it. *)
LEMMA TerminalWhole ==
  ASSUME NEW F, NEW N, NEW b \in Sound(F, N), NEW j \in Jobs \ N, Whole(b),
         b.attempt[j] # "none", NEW s \in Ended, Len(b.replies[j]) < MaxReplies
  PROVE  LET c == Last(RecordTerminal(b, j, s))
         IN  /\ Whole(c) /\ OnlyJob(b, c, j) /\ c.attempt[j] # "none"
<1> DEFINE ws == RecordAttemptTerminal(b, j, s)
           d  == Last(ws)
           vs == RecordReply(d, j, s)
           c  == Last(vs)
           R  == {x \in Sound(F, N) :
                    x.attempt = [b.attempt EXCEPT ![j] = s] /\ x.replies = b.replies}
<1>1. RecordTerminal(b, j, s) = ws \o vs BY DEF RecordTerminal, Then
<1>2. ws \in Run(R) BY AttemptTerminalRun
<1>3. /\ AllExact(d) /\ OnlyJob(b, d, j)
      /\ d.attempt[j] = s /\ d.replies = b.replies /\ d.message[j] # "none"
      /\ d.mb[AgentOf[j]].status[RequestOf(j)] \notin Live
  BY AttemptTerminalWhole
<1>4. R \subseteq Sound(F, N) OBVIOUS
<1> HIDE DEF ws, R
<1>5. d \in Sound(F, N) /\ ws \in Run(Sound(F, N)) BY <1>2, <1>4, RunOf, RunGrows
<1> HIDE DEF d
<1>6. s # "none" /\ Len(d.replies[j]) < MaxReplies BY <1>3 DEF Ended
<1>7. AllExact(c) /\ OnlyJob(d, c, j) /\ JobInv(c, j) /\ c.attempt[j] # "none"
  BY <1>3, <1>5, <1>6, ReplyWhole
<1>8. vs \in Run(Sound(F, N)) BY <1>3, <1>5, <1>6, ReplyRun
<1> HIDE DEF vs
<1>9. Last(RecordTerminal(b, j, s)) = c BY <1>1, <1>5, <1>8, RunOf
<1> HIDE DEF c
<1>10. OnlyJob(b, c, j) BY <1>3, <1>7, OnlyJobTrans
<1>11. Whole(c) BY <1>7, <1>10, WholeKeeps
<1> QED BY <1>7, <1>9, <1>10, <1>11

(* Without crashes no head is stale, and the discard leaves all as it is. *)
LEMMA DiscardIdle ==
  ASSUME NEW F, NEW N, NEW b \in Sound(F, N), NEW a \in Agents, Whole(b)
  PROVE  DiscardStaleHeadEvents(b, a) = b
<1> DEFINE K == Cardinality(Pending(b.mb[a]))
           f == DiscardRounds(b, a)
           T == {n \in 0..K : f[n] # b}
           e == HeadPending(b.mb[a])
<1>1. K \in Nat
  <2>1. b.mb[a] \in MailboxType BY DEF Sound, BureauType
  <2> QED BY <2>1, PendingFinite
<1>2. ~StaleHead(b, a)
  <2>1. SUFFICES ASSUME e # NoEvent PROVE EventIsLive(b, e) BY DEF StaleHead
  <2>2. e \in Events /\ b.mb[a].status[e] \in Live /\ Belongs(b, a, e)
    BY <2>1, HeadHere
  <2> HIDE DEF e
  <2>3. JobOf(e) \in Jobs BY <2>2, EventJob
  <2>4. b.attempt[JobOf(e)] # "none" /\ b.message[JobOf(e)] # "none"
    BY <2>2, <2>3 DEF Belongs, Sound, FileInv
  <2>5. CASE e \in Replies BY <2>2, <2>4, <2>5 DEF EventIsLive, Belongs
  <2>6. CASE e \notin Replies
    <3>1. a = AgentOf[JobOf(e)] BY <2>2, <2>6 DEF Belongs
    <3>2. e = RequestOf(JobOf(e)) BY <2>2, <2>6, EventJob DEF RequestOf
    <3>3. b.mb[AgentOf[JobOf(e)]].status[RequestOf(JobOf(e))] \in Live
      BY <2>2, <3>1, <3>2
    <3>4. b.attempt[JobOf(e)] \in {"pending", "running"}
      BY <2>3, <3>3 DEF Whole, JobInv
    <3> QED BY <2>4, <2>6, <3>4 DEF EventIsLive, Ended
  <2> QED BY <2>5, <2>6
<1>3. f[0] = b /\ \A n \in 1..K : f[n] = Round(f[n - 1], a) BY <1>1, RoundsAre
<1> HIDE DEF f, K, e
<1>4. T = {}
  <2>1. SUFFICES ASSUME T # {} PROVE FALSE OBVIOUS
  <2>2. T \in SUBSET Nat BY <1>1
  <2> HIDE DEF T
  <2>3. PICK x \in T : \A y \in T : x <= y BY <2>1, <2>2, LeastNatural
  <2>4. x \in 0..K /\ f[x] # b BY <2>3 DEF T
  <2>5. x # 0 BY <1>3, <2>4
  <2>6. x - 1 \in 0..K /\ x - 1 \notin T BY <1>1, <2>3, <2>4, <2>5
  <2>7. f[x - 1] = b BY <2>6 DEF T
  <2>8. f[x] = Round(f[x - 1], a) BY <1>1, <1>3, <2>4, <2>5
  <2> QED BY <1>2, <2>4, <2>7, <2>8 DEF Round
<1>5. f[K] = b BY <1>1, <1>4
<1> QED BY <1>5 DEF DiscardStaleHeadEvents, f, K

(* The head that the summary shows is the head of the queue. *)
LEMMA ShownHead ==
  ASSUME NEW m, Exact(m)
  PROVE  m.summary.head.id = HeadPending(m)
BY DEF Exact, SummaryInv, CurrentHead, EmptyHead, HeadOf, HeadPending

(* An ack of what the summary shows reads it, and panics never. *)
LEMMA HandleAckWhole ==
  ASSUME NEW F, NEW N, NEW b \in Sound(F, N), NEW a \in Agents, NEW asked, Whole(b)
  PROVE  LET r == HandleAck(b, a, asked)
         IN  /\ Whole(r.bureau) /\ r.bureau.attempt = b.attempt /\ r.panic = FALSE
<1> DEFINE m == b.mb[a]
           e == m.summary.head.id
           r == HandleAck(b, a, asked)
           n == AckReply(m, e)
           c == OnMailbox(b, a, e, n)
<1>1. Exact(m) /\ AllExact(b) /\ b \in BureauType /\ FileInv(b)
  BY DEF Whole, AllExact, Sound
<1>2. e = HeadPending(m) BY <1>1, ShownHead
<1>3. CASE r = Done(b, {}) BY <1>3 DEF Done, r
<1>4. CASE r # Done(b, {})
  <2>1. e \in Replies /\ e # NoEvent /\ e \in Events /\ asked \in {NoEvent, e}
    BY <1>4, EventsAssumption DEF HandleAck
  <2>2. r = AckHead(b, a, e)
    BY <1>2, <2>1 DEF HandleAck, AckControl
  <2>3. m.status[e] \in Live /\ Belongs(b, a, e) BY <1>2, <2>1, HeadHere
  <2>4. IsHead(m, e) BY <1>1, <1>2, <2>1, HeadPendingIs DEF Exact, Good
  <2>5. AckSucceeds(m, e) BY <1>1, <2>1, <2>4, HeadReplyAcks
  <2>6. r = Done(DiscardStaleHeadEvents(c, a), {e}) BY <2>2, <2>5 DEF AckHead
  <2>7. Exact(n) BY <1>1, <2>1, AckReplyExact
  <2>8. Moved(m, n, e, "consumed")
    BY <1>1, <1>2, <2>1, <2>5, AckReplyOk DEF Sound, FileInv
  <2>9. m.status \in [Events -> Statuses] BY <1>1 DEF Exact, Good, MailboxType
  <2>10. \A f \in Events \ {e} : n.status[f] = m.status[f] BY <2>8, <2>9 DEF Moved
  <2> DEFINE G == F \cup {e}
  <2>11. b \in Sound(G, N) /\ e \in G BY SoundGrows
  <2> HIDE DEF m, n, r, e, G
  <2>12. c \in Near(G, N, b) BY <2>1, <2>3, <2>8, <2>11, OnMailboxNear DEF m
  <2>13. /\ AllExact(c) /\ Elsewhere(b, c) /\ OnlyJob(b, c, JobOf(e))
         /\ \A x \in Agents : \A f \in Events \ {e} :
              c.mb[x].status[f] = b.mb[x].status[f]
    <3>1. \A f \in Events \ {e} : n.status[f] = b.mb[a].status[f] BY <2>10 DEF m
    <3>2. b \in BureauType /\ AllExact(b) /\ e \in Events BY <1>1, <2>1
    <3> QED BY ONLY <2>7, <3>1, <3>2, a \in Agents, OnMailboxExact
  <2> HIDE DEF c
  <2>14. JobInv(c, JobOf(e))
    <3> DEFINE j == JobOf(e)
               q == RequestOf(j)
    <3>1. j \in Jobs /\ q \in Events \ {e} /\ AgentOf[j] \in Agents /\ e[2] \in Nat \ {0}
      BY <2>1, EventJob, RequestJob, BureauAssumption
    <3>2. e[2] <= Len(b.replies[j]) BY <2>1, <2>3 DEF Belongs
    <3> HIDE DEF j
    <3>3. b.replies[j] # <<>>
      <4>1. Len(b.replies[j]) # 0 BY <3>1, <3>2
      <4> QED BY <4>1
    <3>4. JobInv(b, j) BY <3>1 DEF Whole
    <3>5. b.attempt[j] \in Ended BY <3>3, <3>4 DEF JobInv
    <3>6. c.mb[AgentOf[j]].status[q] = b.mb[AgentOf[j]].status[q] BY <2>13, <3>1
    <3>7. JobInv(c, j)
      BY <2>13, <3>4, <3>5, <3>6 DEF JobInv, Elsewhere, Ended
    <3> QED BY <3>7 DEF j
  <2>15. JobOf(e) \in Jobs BY <2>1, EventJob
  <2>16. Whole(c) BY <2>13, <2>14, <2>15, WholeKeeps
  <2>17. c \in Sound(G, N) BY <2>12 DEF Near
  <2>18. DiscardStaleHeadEvents(c, a) = c BY <2>16, <2>17, DiscardIdle
  <2>19. r.bureau = c /\ r.panic = FALSE BY <2>6, <2>18 DEF Done
  <2> QED BY <2>13, <2>16, <2>19 DEF Elsewhere, r
<1> QED BY <1>3, <1>4

-----------------------------------------------------------------------------
(* The daemon that is not killed. *)

LiveInv ==
  /\ CrashInv /\ Whole(bureau) /\ dead = FALSE
  /\ \A j \in Jobs : job[j] # "new" => bureau.attempt[j] # "none"

(* It holds of the daemon's first start. *)
LEMMA LiveInvInit == Init => LiveInv
<1> SUFFICES ASSUME Init PROVE LiveInv OBVIOUS
<1>1. CrashInv BY CrashInvInit
<1>2. /\ \A a \in Agents : bureau.mb[a] = EmptyMailbox
      /\ \A j \in Jobs : /\ bureau.attempt[j] = "none" /\ bureau.message[j] = "none"
                         /\ bureau.replies[j] = <<>> /\ job[j] = "new"
      /\ dead = FALSE
  BY DEF Init, EmptyBureau
<1>3. AllExact(bureau) BY <1>2, EmptyExact DEF AllExact
<1>4. ASSUME NEW j \in Jobs PROVE JobInv(bureau, j)
  <2>1. AgentOf[j] \in Agents /\ RequestOf(j) \in Events
    BY RequestJob, BureauAssumption
  <2>2. bureau.mb[AgentOf[j]].status[RequestOf(j)] = "absent"
    BY <1>2, <2>1 DEF EmptyMailbox
  <2> QED BY <1>2, <2>2, StatusSets DEF JobInv, Ended
<1> QED BY <1>1, <1>2, <1>3, <1>4 DEF LiveInv, Whole

(* Every request served keeps it. *)
LEMMA LiveKeeps == LiveInv /\ Serve => LiveInv'
<1> SUFFICES ASSUME LiveInv, Serve PROVE LiveInv' OBVIOUS
<1>1. /\ CrashInv /\ CrashInv' /\ Whole(bureau) /\ dead = FALSE
      /\ bureau \in Sound(acked, Fresh) /\ job \in [Jobs -> {"new", "live", "lost"} \cup Ended]
      /\ \A j \in Jobs : job[j] # "new" => bureau.attempt[j] # "none"
      /\ driven \subseteq {j \in Jobs : job[j] \notin {"new", "lost"}}
      /\ Verdicts \cup {"cancelled"} \subseteq Ended
  BY ServeKeeps, BureauAssumption DEF LiveInv, CrashInv, Ended
<1>2. ASSUME NEW j \in Jobs, Whole(bureau'), OnlyJob(bureau, bureau', j),
             bureau'.attempt[j] # "none", dead' = dead,
             \A i \in Jobs \ {j} : job'[i] = job[i]
      PROVE  LiveInv'
  BY <1>1, <1>2 DEF LiveInv, OnlyJob, SameJob
<1>3. ASSUME NEW j \in Jobs, Submit(j) PROVE LiveInv'
  <2>1. bureau.attempt[j] = "none" BY <1>1, <1>3 DEF Submit, Sound, Fresh
  <2>2. LET c == Last(RecordSubmission(bureau, j))
        IN  Whole(c) /\ OnlyJob(bureau, c, j) /\ c.attempt[j] = "pending"
    BY <1>1, <2>1, SubmissionWhole
  <2>3. Whole(bureau') /\ OnlyJob(bureau, bureau', j) /\ bureau'.attempt[j] # "none"
    BY <1>3, <2>2 DEF Submit
  <2> QED BY <1>1, <1>2, <1>3, <2>3 DEF Submit
<1>4. ASSUME NEW j \in Jobs, Ask(j) PROVE LiveInv'
  <2>1. bureau.attempt[j] = "none" BY <1>1, <1>4 DEF Ask, Sound, Fresh
  <2>2. LET c == Last(AskWrites(bureau, j))
        IN  Whole(c) /\ OnlyJob(bureau, c, j) /\ c.attempt[j] # "none"
    BY <1>1, <2>1, AskWhole
  <2>3. Whole(bureau') /\ OnlyJob(bureau, bureau', j) /\ bureau'.attempt[j] # "none"
    BY <1>4, <2>2 DEF Ask
  <2> QED BY <1>1, <1>2, <1>4, <2>3 DEF Ask
<1>5. ASSUME NEW j \in Jobs, NEW s \in Ended, job[j] # "new",
             Len(bureau.replies[j]) < MaxReplies,
             bureau' = Last(RecordTerminal(bureau, j, s)),
             dead' = dead, job' = [job EXCEPT ![j] = s]
      PROVE  LiveInv'
  <2>1. j \in Jobs \ Fresh /\ bureau.attempt[j] # "none" BY <1>1, <1>5 DEF Fresh
  <2>2. LET c == Last(RecordTerminal(bureau, j, s))
        IN  Whole(c) /\ OnlyJob(bureau, c, j) /\ c.attempt[j] # "none"
    BY <1>1, <1>5, <2>1, TerminalWhole
  <2>3. Whole(bureau') /\ OnlyJob(bureau, bureau', j) /\ bureau'.attempt[j] # "none"
    BY <1>5, <2>2
  <2> QED BY <1>1, <1>2, <1>5, <2>3
<1>6. ASSUME NEW j \in Jobs, NEW s \in Verdicts, End(j, s) PROVE LiveInv'
  <2>1. job[j] # "new" /\ s \in Ended BY <1>1, <1>6 DEF End
  <2> QED BY <1>5, <1>6, <2>1 DEF End
<1>7. ASSUME NEW j \in Jobs, Cancel(j) PROVE LiveInv'
  <2>1. job[j] # "new" /\ "cancelled" \in Ended BY <1>1, <1>7 DEF Cancel
  <2> QED BY <1>5, <1>7, <2>1 DEF Cancel
<1>8. ASSUME NEW a \in Agents, ReadQueue(a) PROVE LiveInv'
  <2>1. bureau' = bureau BY <1>1, <1>8, DiscardIdle DEF ReadQueue
  <2> QED BY <1>1, <1>8, <2>1 DEF ReadQueue, LiveInv
<1>9. ASSUME NEW a \in Agents, NEW asked, Ack(a, asked) PROVE LiveInv'
  <2> DEFINE r == HandleAck(bureau, a, asked)
  <2>1. Whole(r.bureau) /\ r.bureau.attempt = bureau.attempt /\ r.panic = FALSE
    BY <1>1, HandleAckWhole
  <2>2. bureau' = r.bureau /\ dead' = r.panic /\ job' = job BY <1>9 DEF Ack
  <2> HIDE DEF r
  <2> QED BY <1>1, <2>1, <2>2 DEF LiveInv
<1> QED BY <1>3, <1>4, <1>6, <1>7, <1>8, <1>9 DEF Serve

(* The invariant holds at every moment of a daemon that is not killed. *)
LEMMA LiveInvHolds == Spec => []LiveInv
<1>1. LiveInv /\ [Serve]_vars => LiveInv'
  <2>1. CASE UNCHANGED vars BY <2>1 DEF vars, LiveInv, CrashInv, Fresh
  <2> QED BY <2>1, LiveKeeps
<1> QED BY <1>1, LiveInvInit, PTL DEF Spec

(* The message of a job tells how the job ended, however many decisions,    *)
(* timeouts and cancels end it.                                            *)
THEOREM MessageTells == Spec => []MessageTellsTheEnd
<1>1. LiveInv => MessageTellsTheEnd BY DEF LiveInv, Whole, JobInv, MessageTellsTheEnd
<1> QED BY <1>1, LiveInvHolds, PTL

(* An ended job leaves no request behind in the mailbox of its agent. *)
THEOREM RequestLeaves == Spec => []EndedRequestLeavesQueue
<1>1. LiveInv => EndedRequestLeavesQueue
  BY DEF LiveInv, Whole, JobInv, EndedRequestLeavesQueue, Ended
<1> QED BY <1>1, LiveInvHolds, PTL

(* No acknowledgement, of whatever event, makes the daemon panic. *)
THEOREM AcksNeverPanic == Spec => []AckNeverPanics
<1>1. LiveInv => AckNeverPanics BY DEF LiveInv, AckNeverPanics
<1> QED BY <1>1, LiveInvHolds, PTL
=============================================================================
