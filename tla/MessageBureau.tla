--------------------------- MODULE MessageBureau ---------------------------
(***************************************************************************)
(* The message bureau of the daemon (ccbr-mailbox facade_recording.rs,      *)
(* facade_state.rs, control_queue.rs): for every job one message, one       *)
(* attempt and its replies, and the mailboxes of the agents, in which the   *)
(* request of a job waits for its target and its replies wait for its       *)
(* caller.  The mailboxes are those of MailboxOps.                         *)
(*                                                                         *)
(* Every record is a line appended to a file.  An operation is written as   *)
(* the sequence of the states its writes leave: done in full it ends in the *)
(* last one, cut short by a crash in any of them.                          *)
(***************************************************************************)
EXTENDS MailboxOps, Sequences, SequencesExt

CONSTANTS
  Jobs,        \* job ids; the daemon gives each its own message
  Agents,      \* known_mailboxes: the agents of the configuration
  AgentOf,     \* agent_name of a job
  CallerOf,    \* from_actor of a job
  Verdicts,    \* the statuses a decision or a timeout gives a job
  MaxReplies,  \* bound: replies recorded for one job
  MaxCrashes   \* bound: times the daemon is killed

ASSUME BureauAssumption ==
  /\ IsFiniteSet(Jobs) /\ AgentOf \in [Jobs -> Agents] /\ DOMAIN CallerOf = Jobs
  /\ MaxReplies \in Nat \ {0} /\ MaxCrashes \in Nat
  /\ Verdicts \subseteq {"completed", "failed", "incomplete", "cancelled"}

(* The inbound events of job j: <<j, 0>> is its request, <<j, k>> carries   *)
(* its k-th reply.                                                         *)
ReplyEvents   == Jobs \X (1..MaxReplies)
InboundEvents == Jobs \X (0..MaxReplies)
RequestOf(j)  == <<j, 0>>
JobOf(e)      == e[1]

ASSUME EventAssumption == Events = InboundEvents /\ Replies = ReplyEvents

VARIABLES
  bureau,  \* files: mailboxes, message and attempt states, reply statuses
  job,     \* the dispatcher's view of a job
  driven,  \* jobs that a decision or the timeout may still end
  acked,   \* history: reply events that an ack consumed
  dead,    \* a handler panicked: the lock is poisoned, the accept loop gone
  crashes  \* history: times the daemon was killed

vars == <<bureau, job, driven, acked, dead, crashes>>

Ended       == {"completed", "failed", "incomplete", "cancelled"}
AttemptType == {"none", "pending", "running"} \cup Ended
MessageType == {"none", "queued", "running", "partially_replied"} \cup Ended

EmptyBureau ==
  [mb      |-> [a \in Agents |-> EmptyMailbox],
   message |-> [j \in Jobs |-> "none"],
   attempt |-> [j \in Jobs |-> "none"],
   replies |-> [j \in Jobs |-> <<>>],
   last    |-> [j \in Jobs |-> NoEvent]]
     \* last: event of the last line with j's attempt in the inbox of AgentOf[j]

Init == /\ bureau = EmptyBureau
        /\ job = [j \in Jobs |-> "new"]
        /\ driven = {} /\ acked = {} /\ dead = FALSE /\ crashes = 0

-----------------------------------------------------------------------------
(* Composing writes. *)

Then(ws, Op(_)) == ws \o Op(Last(ws))

(* The mailbox of agent a becomes m by an operation on event e.  A line was *)
(* appended to its inbox if the status of e changed.                       *)
OnMailbox(b, a, e, m) ==
  [b EXCEPT !.mb[a] = m,
            !.last[JobOf(e)] = IF AgentOf[JobOf(e)] = a /\ m.status[e] # b.mb[a].status[e]
                               THEN e ELSE @]

DeliverWrites(b, a, e) == << OnMailbox(b, a, e, NewEvent(b.mb[a], e)),
                             OnMailbox(b, a, e, Deliver(b.mb[a], e)) >>
ClaimWrites(b, a, e) ==
  LET m == b.mb[a]
  IN  (IF ClaimsAnew(m, e) THEN << OnMailbox(b, a, e, ClaimLogged(m, e)),
                                   OnMailbox(b, a, e, ClaimLeased(m, e)) >> ELSE <<>>)
      \o << OnMailbox(b, a, e, Claim(m, e)) >>
FinishWrites(b, a, e, s) ==
  LET m == b.mb[a]
  IN  << OnMailbox(b, a, e, TerminalLogged(m, e, s)),
         OnMailbox(b, a, e, TerminalReleased(m, e, s)),
         OnMailbox(b, a, e, MarkTerminal(m, e, s)) >>

-----------------------------------------------------------------------------
(* facade_state: the state of a message follows its attempt and replies. *)

(* Mutant: the first reply decides. *)
FirstReplyWins(statuses) == statuses[1]

ReplyTerminalState(statuses) ==
  IF Cardinality(Range(statuses)) = 1 THEN statuses[1] ELSE "incomplete"

NextMessageState(b, j) ==
  LET att == b.attempt[j]
      rep == b.replies[j]
  IN  CASE att \notin Ended /\ rep = <<>>  -> "running"
        [] att \notin Ended /\ rep # <<>>  -> "partially_replied"
        [] att \in Ended    /\ rep # <<>>  -> ReplyTerminalState(rep)
        [] att \in Ended    /\ rep = <<>>  -> att

RefreshMessageState(b, j) ==
  << IF b.message[j] = "none" \/ b.attempt[j] = "none" THEN b
     ELSE [b EXCEPT !.message[j] = NextMessageState(b, j)] >>

-----------------------------------------------------------------------------
(* facade_recording. *)

RecordSubmission(b, j) ==
  LET b1 == [b  EXCEPT !.message[j] = "queued"]
      b2 == [b1 EXCEPT !.attempt[j] = "pending"]
  IN  <<b1, b2>> \o DeliverWrites(b2, AgentOf[j], RequestOf(j))

MarkAttemptStarted(b, j) ==
  LET b1 == [b EXCEPT !.attempt[j] = "running"]
      a  == AgentOf[j]
      ws == IF b.last[j] # NoEvent /\ b.mb[a].status[b.last[j]] \in Claimable
            THEN <<b1>> \o ClaimWrites(b1, a, b.last[j])
            ELSE <<b1>>
  IN  Then(ws, LAMBDA c : << [c EXCEPT !.message[j] = "running"] >>)

(* Mutant: a request that was never claimed is left in the mailbox. *)
FinishDelivered(b, j, s) ==
  LET a == AgentOf[j]
      e == b.last[j]
      b1 == [b EXCEPT !.attempt[j] = s]
  IN  Then(IF e # NoEvent /\ b.mb[a].status[e] = "delivering"
           THEN <<b1>> \o FinishWrites(b1, a, e, "consumed") ELSE <<b1>>,
           LAMBDA c : RefreshMessageState(c, j))

(* The event to finish is the one of the last line with this attempt. *)
RecordAttemptTerminal(b, j, s) ==
  LET a  == AgentOf[j]
      e  == b.last[j]
      b1 == [b EXCEPT !.attempt[j] = s]
      ws == IF e = NoEvent THEN << b1, [b1 EXCEPT !.mb[a] = Rebuild(@)] >>
            ELSE IF b.mb[a].status[e] \in Live
            THEN <<b1>> \o FinishWrites(b1, a, e,
                   IF b.mb[a].status[e] \in Claimable /\ s = "cancelled"
                   THEN "abandoned" ELSE "consumed")
            ELSE <<b1>>
  IN  Then(ws, LAMBDA c : RefreshMessageState(c, j))

(* A reply is delivered if its caller has a mailbox. *)
QueueReplyDelivery(b, j) ==
  IF CallerOf[j] \in Agents
  THEN DeliverWrites(b, CallerOf[j], <<j, Len(b.replies[j])>>) ELSE <<b>>
RecordReply(b, j, s) ==
  LET b1 == [b EXCEPT !.replies[j] = Append(@, s)]
  IN  Then(<<b1>> \o QueueReplyDelivery(b1, j), LAMBDA c : RefreshMessageState(c, j))

RecordTerminal(b, j, s) ==
  IF b.attempt[j] = "none" THEN <<b>>
  ELSE Then(RecordAttemptTerminal(b, j, s), LAMBDA c : RecordReply(c, j, s))

-----------------------------------------------------------------------------
(* control_queue: reading and acknowledging a mailbox. *)

(* Mutant: a reply is stale once its attempt is over. *)
LiveWhileAttemptRuns(b, e) == b.attempt[JobOf(e)] \notin Ended

EventIsLive(b, e) ==
  /\ b.message[JobOf(e)] # "none" /\ b.attempt[JobOf(e)] # "none"
  /\ IF e \in Replies THEN e[2] <= Len(b.replies[JobOf(e)])
                          ELSE b.attempt[JobOf(e)] \notin Ended

StaleHead(b, a) ==
  LET head == HeadPending(b.mb[a]) IN head # NoEvent /\ ~EventIsLive(b, head)
AbandonWrites(b, a) == FinishWrites(b, a, HeadPending(b.mb[a]), "abandoned")

(* The loop ends at a live head: the bureau after each of its rounds. *)
DiscardRounds(b, a) ==
  LET round[n \in 0..Cardinality(Pending(b.mb[a]))] ==
        IF n = 0 THEN b
        ELSE IF StaleHead(round[n - 1], a) THEN Last(AbandonWrites(round[n - 1], a))
             ELSE round[n - 1]
  IN  round
DiscardStaleHeadEvents(b, a) == DiscardRounds(b, a)[Cardinality(Pending(b.mb[a]))]

(* What a request leaves: the files, the replies it consumed, a panic. *)
Done(b, read) == [bureau |-> b, read |-> read, panic |-> FALSE]
Panic(b)      == [bureau |-> b, read |-> {},   panic |-> TRUE]

AckHead(b, a, e) ==
  IF AckSucceeds(b.mb[a], e)
  THEN Done(DiscardStaleHeadEvents(OnMailbox(b, a, e, AckReply(b.mb[a], e)), a), {e})
  ELSE Panic(OnMailbox(b, a, e, AckReply(b.mb[a], e)))

AckTerminalTaskRequest(b, a, e) ==
  LET att == b.attempt[JobOf(e)]
      s   == IF att = "cancelled" /\ b.mb[a].status[e] \in Claimable
             THEN "abandoned" ELSE "consumed"
  IN  IF att \notin Ended \cup {"none"} THEN Panic(b)
      ELSE Done(DiscardStaleHeadEvents(Last(FinishWrites(b, a, e, s)), a), {})

(* ack_reply with head_event: `asked` is the event id of the request, which *)
(* may be absent.                                                          *)
AckControl(b, a, asked) ==
  LET head == HeadPending(b.mb[a])
      want == IF asked = NoEvent THEN head ELSE asked
      c    == DiscardStaleHeadEvents(b, a)
      next == HeadPending(c.mb[a])
  IN  IF head # NoEvent /\ head = want
      THEN IF head \in Replies THEN AckHead(b, a, head)
                                   ELSE AckTerminalTaskRequest(b, a, head)
      ELSE IF next \in Replies /\ want \in {NoEvent, next} THEN AckHead(c, a, next)
      ELSE Panic(c)

(* Mutant: the handler forwards every head. *)
AckAnyHead(b, a, asked) ==
  LET shown == b.mb[a].summary.head.id
  IN  IF shown = NoEvent \/ asked \notin {NoEvent, shown} THEN Done(b, {})
      ELSE AckControl(b, a, asked)

(* The handler looks at the head in the summary before it calls ack_reply. *)
HandleAck(b, a, asked) ==
  LET shown == b.mb[a].summary.head.id
  IN  IF shown \notin Replies \/ asked \notin {NoEvent, shown} THEN Done(b, {})
      ELSE AckControl(b, a, asked)

-----------------------------------------------------------------------------
(* The daemon. *)

Submit(j) ==
  /\ ~dead /\ job[j] = "new"
  /\ job' = [job EXCEPT ![j] = "live"] /\ driven' = driven \cup {j}
  /\ bureau' = Last(RecordSubmission(bureau, j))
  /\ UNCHANGED <<acked, dead, crashes>>

AskWrites(b, j) ==
  Then(RecordSubmission(b, j), LAMBDA c : MarkAttemptStarted(c, j))
Ask(j) ==
  /\ ~dead /\ job[j] = "new"
  /\ job' = [job EXCEPT ![j] = "live"] /\ driven' = driven \cup {j}
  /\ bureau' = Last(AskWrites(bureau, j))
  /\ UNCHANGED <<acked, dead, crashes>>

(* A decision of the provider, a verdict of the tracker or the no-progress  *)
(* timeout.  Only the first stops the polling: another end may follow.     *)
End(j, s) ==
  /\ ~dead /\ j \in driven /\ Len(bureau.replies[j]) < MaxReplies
  /\ job' = [job EXCEPT ![j] = s]
  /\ driven' \in {driven, driven \ {j}}
  /\ bureau' = Last(RecordTerminal(bureau, j, s))
  /\ UNCHANGED <<acked, dead, crashes>>

(* A cancel of a job that is cancelled already is recorded once more. *)
Cancel(j) ==
  /\ ~dead /\ job[j] \in {"live", "cancelled"} /\ Len(bureau.replies[j]) < MaxReplies
  /\ job' = [job EXCEPT ![j] = "cancelled"]
  /\ driven' = driven \ {j}
  /\ bureau' = Last(RecordTerminal(bureau, j, "cancelled"))
  /\ UNCHANGED <<acked, dead, crashes>>

Ack(a, asked) ==
  /\ ~dead
  /\ LET r == HandleAck(bureau, a, asked)
     IN  /\ bureau' = r.bureau /\ acked' = acked \cup r.read /\ dead' = r.panic
  /\ UNCHANGED <<job, driven, crashes>>

(* inbox or queue with detail: stale heads are discarded on the way. *)
ReadQueue(a) ==
  /\ ~dead /\ bureau' = DiscardStaleHeadEvents(bureau, a)
  /\ UNCHANGED <<job, driven, acked, dead, crashes>>

Serve ==
  \/ \E j \in Jobs : Submit(j) \/ Ask(j) \/ Cancel(j) \/ \E s \in Verdicts : End(j, s)
  \/ \E a \in Agents : \/ ReadQueue(a)
                       \/ \E asked \in {NoEvent, bureau.mb[a].summary.head.id} :
                            Ack(a, asked)   \* another id is refused without effect

(* The daemon is killed and started again.  It keeps the jobs of the last   *)
(* orderly shutdown and no others (JobLifecycle): any of them.             *)
Killed == crashes < MaxCrashes /\ crashes' = crashes + 1 /\ dead' = FALSE
Restarted ==
  /\ Killed
  /\ \E kept \in SUBSET {j \in Jobs : job[j] # "new"} :
       /\ driven' = kept
       /\ job' = [j \in Jobs |-> IF j \in kept THEN "live"
                                 ELSE IF job[j] = "new" THEN "new" ELSE "lost"]

CrashBetween == Restarted /\ UNCHANGED <<bureau, acked>>

(* Killed inside an operation: some of its writes are there. *)
CutIn(ws) == \E i \in 1..(Len(ws) - 1) : bureau' = ws[i]
CrashInRecording ==
  /\ ~dead /\ UNCHANGED acked
  /\ \/ \E j \in Jobs : /\ job[j] = "new" /\ CutIn(AskWrites(bureau, j))
                        /\ Killed /\ driven' = {}
                        /\ job' = [i \in Jobs |-> IF job[i] = "new" /\ i # j
                                                  THEN "new" ELSE "lost"]
     \/ \E j \in driven : \E s \in Verdicts \cup {"cancelled"} :
          /\ Len(bureau.replies[j]) < MaxReplies
          /\ CutIn(RecordTerminal(bureau, j, s)) /\ Restarted
CutInDiscard(b, a) ==
  \E n \in 0..Cardinality(Pending(b.mb[a])) :
    LET c == DiscardRounds(b, a)[n]
    IN  bureau' = c \/ (StaleHead(c, a) /\ CutIn(AbandonWrites(c, a)))
AckWrites(b, a, e) ==
  Then(IF ClaimsAnew(b.mb[a], e) THEN ClaimWrites(b, a, e) ELSE <<b>>,
       LAMBDA c : FinishWrites(c, a, e, "consumed"))
CrashInAck ==
  /\ ~dead /\ Restarted
  /\ \E a \in Agents : \E e \in Replies : \E asked \in {NoEvent, e} :
       LET b == IF HeadPending(bureau.mb[a]) = e THEN bureau
                ELSE DiscardStaleHeadEvents(bureau, a)
       IN  /\ HandleAck(bureau, a, asked).read = {e}
           /\ CutIn(AckWrites(b, a, e)) \/ CutInDiscard(Last(AckWrites(b, a, e)), a)
           /\ acked' = IF bureau'.mb[a].status[e] \in Terminal THEN acked \cup {e} ELSE acked
CrashInDiscard ==
  /\ ~dead /\ Restarted /\ UNCHANGED acked
  /\ \E a \in Agents : CutInDiscard(bureau, a)

Crash == CrashBetween \/ CrashInRecording \/ CrashInAck \/ CrashInDiscard

Spec      == Init /\ [][Serve]_vars
CrashSpec == Init /\ [][Serve \/ Crash]_vars

(* Every job comes to an end (JobLifecycle: EveryJobSettles), and the agent *)
(* of a mailbox that shows a reply acknowledges it: weak fairness of Ack,   *)
(* with its enabling condition written out.                                *)
ShowsReply(a) == bureau.mb[a].summary.head.id \in Replies
LiveSpec ==
  /\ Spec
  /\ \A j \in Jobs : job[j] = "live" ~> job[j] # "live"
  /\ \A a \in Agents : []<>~ShowsReply(a) \/ []<><<Ack(a, NoEvent)>>_vars

-----------------------------------------------------------------------------
(* Properties. *)

(* The files have the shape of their records. *)
TypeOK ==
  /\ bureau.mb \in [Agents -> MailboxType]
  /\ bureau.message \in [Jobs -> MessageType] /\ bureau.attempt \in [Jobs -> AttemptType]
  /\ bureau.last \in [Jobs -> Events \cup {NoEvent}]
  /\ \A j \in Jobs : Len(bureau.replies[j]) <= MaxReplies
  /\ driven \subseteq {j \in Jobs : job[j] \notin {"new", "lost"}}
  /\ acked \subseteq Replies /\ dead \in BOOLEAN

(* The state of a message, refreshed twice by every end of its job, tells   *)
(* how the job ended: it is final exactly when the attempt is, an ended     *)
(* attempt has a reply, and a message is completed only if no end of the    *)
(* job, however many a late decision, a timeout and a cancel add, was other *)
(* than completed.                                                         *)
MessageTellsTheEnd ==
  \A j \in Jobs :
    /\ bureau.message[j] \in Ended <=> bureau.attempt[j] \in Ended
    /\ bureau.attempt[j] \in Ended <=> bureau.replies[j] # <<>>
    /\ bureau.message[j] = "completed"
         => Range(bureau.replies[j]) = {"completed"}

(* An ended job leaves no request behind in the mailbox of its agent,       *)
(* whether it was claimed (ask) or never was (submit, started by the        *)
(* heartbeat), at the head of the queue or not: the mailbox would stay      *)
(* blocked.                                                                *)
EndedRequestLeavesQueue ==
  \A j \in Jobs : bureau.attempt[j] \in Ended
    => bureau.mb[AgentOf[j]].status[RequestOf(j)] \notin Live

(* A reply stays in the mailbox of its caller until an ack consumes it: a   *)
(* repeated end of the job, a look at the queue, a crash do not lose it.    *)
(* An agent that asks itself is the exception: see the README.             *)
RepliesWaitForReader ==
  \A e \in Replies : LET j == JobOf(e) IN
    /\ CallerOf[j] \in Agents \ {AgentOf[j]}
    /\ bureau.mb[CallerOf[j]].status[e] \in Terminal
    => e \in acked

(* handle_ack checks the head it is shown before it calls the control       *)
(* layer, so that the panics there are never met; one would poison the lock *)
(* of the daemon and end its accept loop.                                  *)
AckNeverPanics == ~dead

(* No mailbox stays blocked: since jobs end, every reply that is delivered  *)
(* comes to the head of its queue and is read, even behind a request of the *)
(* same mailbox that was never claimed.                                    *)
EveryReplyIsRead ==
  \A e \in Replies : \A a \in Agents :
    (bureau.mb[a].status[e] \in Live /\ CallerOf[JobOf(e)] # AgentOf[JobOf(e)])
      ~> e \in acked
=============================================================================
