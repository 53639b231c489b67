---------------------------- MODULE JobLifecycle ----------------------------
(***************************************************************************)
(* A job from its submission to its reply: the dispatcher's job store, the  *)
(* execution service that polls the providers, and the daemon that drives   *)
(* both from its heartbeat and its requests, across orderly restarts (Spec) *)
(* and crashes (CrashSpec).                                                *)
(*                                                                         *)
(* The daemon holds one lock for a whole request and for a whole heartbeat, *)
(* so requests come between heartbeats.  A crash comes anywhere: a          *)
(* heartbeat is several steps, one per durable effect.                     *)
(*                                                                         *)
(* The queues and the active job of an agent are not variables:             *)
(* DispatcherState::rebuild computes them from the store at every change.  *)
(***************************************************************************)
EXTENDS Integers

CONSTANTS
  Jobs,        \* job ids
  Agents,      \* the agents the project's configuration may name
  AgentOf,     \* the agent a job is for: any name, submit accepts them all
  Adapted,     \* agents whose provider has an execution adapter
  MaxBatches,  \* bound: batches of items a provider emits for a job
  MaxReplies   \* bound: replies counted for a job

ASSUME LifecycleAssumption ==
  /\ DOMAIN AgentOf = Jobs
  /\ MaxBatches \in Nat /\ MaxReplies \in Nat \ {0}

VARIABLES
  (* memory of the daemon *)
  up,         \* the daemon runs
  served,     \* agent_names: the agents the dispatcher serves
  phase,      \* of the heartbeat: "idle" between heartbeats, "poll", "apply"
  status,     \* of the jobs; "new": id not used yet, "lost": not in job_store
  older,      \* job_store is ordered: the jobs in front of each one
  active,     \* submissions the execution service polls
  replay,     \* pending_replays: what a restored job still has to deliver
  updates,    \* updates of this poll that are not applied yet
  silent,     \* running jobs whose no-progress timeout is due
  (* files *)
  disk,       \* execution state of each job
  saved,      \* running-jobs.json
  attempts,   \* jobs with an attempt record in the message bureau
  replies,    \* number of replies recorded for each job
  (* history *)
  cancelled,  \* jobs whose cancel request was answered with a receipt
  recovered,  \* jobs that comms_recover gave up
  finished,   \* jobs that were terminal when the last daemon went away
  emitted     \* batches each job's provider emitted

memory  == <<up, served, phase, status, older, active, replay, updates, silent>>
files   == <<disk, saved, attempts, replies>>
history == <<cancelled, recovered, finished, emitted>>
vars    == <<memory, files, history>>

Waiting  == {"accepted", "queued"}
Live     == Waiting \cup {"running"}
Terminal == {"cancelled", "ended"}   \* "ended": completed, failed, incomplete
Statuses == {"new", "lost"} \cup Live \cup Terminal

(* What a poll of a provider delivers, and what the execution state file    *)
(* and a replay keep of it: items, a terminal decision, both or neither.   *)
Payload == {"items", "decision"}
Nothing == [j \in Jobs |-> {}]

(* The job_store, and what running-jobs.json keeps of it. *)
Stored(sta) == {j \in Jobs : sta[j] \notin {"new", "lost"}}
NoneSaved   == [status |-> [j \in Jobs |-> "lost"], older |-> Nothing]

Init ==
  /\ up = TRUE /\ served \in SUBSET Agents /\ phase = "idle"
  /\ status = [j \in Jobs |-> "new"] /\ older = Nothing
  /\ active = {} /\ replay = Nothing /\ updates = Nothing /\ silent = {}
  /\ disk = Nothing /\ saved = NoneSaved /\ attempts = {}
  /\ replies = [j \in Jobs |-> 0]
  /\ cancelled = {} /\ recovered = {} /\ finished = {}
  /\ emitted = [j \in Jobs |-> 0]

-----------------------------------------------------------------------------
(* The dispatcher.  An agent has at most one running job unless ask adds    *)
(* another; its waiting jobs are a queue in the order of the job_store.     *)
(* A job for an agent that the dispatcher does not serve has a queue as     *)
(* well, which tick does not look at.                                      *)

HasActive(a, sta)      == \E j \in Jobs : AgentOf[j] = a /\ sta[j] = "running"
HasOutstanding(a, sta) == \E j \in Jobs : AgentOf[j] = a /\ sta[j] \in Live

InitialStatus(a, sta) == IF HasOutstanding(a, sta) THEN "queued" ELSE "accepted"

NextInQueue(j, sta, old) ==
  /\ sta[j] \in Waiting
  /\ \A k \in old[j] : AgentOf[k] = AgentOf[j] => sta[k] \notin Waiting

(* tick: the first waiting job of every agent that is served and has no     *)
(* running one.                                                            *)
ToStart(sta, old) ==
  {j \in Jobs : /\ AgentOf[j] \in served /\ ~HasActive(AgentOf[j], sta)
                /\ NextInQueue(j, sta, old)}

SetAll(f, S, v) == [j \in Jobs |-> IF j \in S THEN v ELSE f[j]]

(* Mutant: the old record of the job stays where it was. *)
PutAgain(sta, old, j) == [old EXCEPT ![j] = Stored(sta)]

(* append_job, and update of a record: the job goes to the end. *)
PutLast(sta, old, j) ==
  [k \in Jobs |-> IF k = j THEN Stored(sta) \ {j} ELSE old[k] \ {j}]

(* update_job_status: no test of the status the job has. *)
UpdateJobStatus(j, s) == /\ status' = [status EXCEPT ![j] = s]
                         /\ silent' = silent \ {j}

(* The part of the job_store that the jobs of S are. *)
Only(S, old) == [j \in Jobs |-> IF j \in S THEN old[j] \cap S ELSE {}]

(* What persist_running_jobs writes. *)
Unfinished(sta, old) ==
  LET live == {j \in Jobs : sta[j] \in Live}
  IN  [status |-> [j \in Jobs |-> IF j \in live THEN sta[j] ELSE "lost"],
       older  |-> Only(live, old)]

(* The message bureau: record_terminal adds a reply if it knows the job. *)
RecordTerminal(S) ==
  replies' = [j \in Jobs |-> IF j \in S \cap attempts /\ replies[j] < MaxReplies
                             THEN replies[j] + 1 ELSE replies[j]]

(* persist_submission: the execution state file after a poll result. *)
Persisted(result) == {"state"} \cup result

(* The execution service starts to poll the jobs of S. *)
WithAdapter(S) == {j \in S : AgentOf[j] \in Adapted}

(* Mutant: the execution state is not written at the start. *)
StartUnpersisted(S) == active' = active \cup WithAdapter(S) /\ UNCHANGED disk

StartExecution(S) == /\ active' = active \cup WithAdapter(S)
                     /\ disk' = SetAll(disk, WithAdapter(S), Persisted({}))

-----------------------------------------------------------------------------
(* Requests. *)

RequestsServed == up /\ phase = "idle"

(* submit puts the job at the end of the store and records the submission. *)
NewJob(j) == /\ status[j] = "new"
             /\ older' = PutLast(status, older, j)
             /\ attempts' = attempts \cup {j}

Submit(j) ==
  /\ RequestsServed /\ NewJob(j)
  /\ status' = [status EXCEPT ![j] = InitialStatus(AgentOf[j], status)]
  /\ UNCHANGED <<up, served, phase, active, replay, updates, silent, disk, saved,
                 replies, history>>

(* ask submits, starts the execution and marks the job running at once,     *)
(* whatever the agent is doing.                                            *)
Ask(j) ==
  /\ RequestsServed /\ NewJob(j)
  /\ status' = [status EXCEPT ![j] = "running"]
  /\ StartExecution({j})
  /\ UNCHANGED <<up, served, phase, replay, updates, silent, saved, replies, history>>

(* retry of a known job: a new job without an attempt record. *)
Retry(j, n) ==
  /\ RequestsServed /\ j \in Stored(status)
  /\ status[n] = "new" /\ AgentOf[n] = AgentOf[j]
  /\ older' = PutLast(status, older, n)
  /\ status' = [status EXCEPT ![n] = InitialStatus(AgentOf[n], status)]
  /\ UNCHANGED <<up, served, phase, active, replay, updates, silent, files, history>>

(* Mutant: cancel leaves the submission with the execution service. *)
CancelButPoll(j) == /\ replay' = [replay EXCEPT ![j] = {}]
                    /\ disk'   = [disk EXCEPT ![j] = {}]
                    /\ UNCHANGED active

(* cancel tears the execution down first, then asks the dispatcher: a job   *)
(* that ended otherwise is an error, one that is cancelled already gets its *)
(* receipt and one more reply, an unknown one its receipt only.            *)
CancelExecution(j) == /\ active' = active \ {j}
                      /\ replay' = [replay EXCEPT ![j] = {}]
                      /\ disk'   = [disk EXCEPT ![j] = {}]
Cancel(j) ==
  /\ RequestsServed /\ status[j] # "new"
  /\ CancelExecution(j)
  /\ \/ /\ status[j] \in Live
        /\ older' = PutLast(status, older, j)
        /\ UpdateJobStatus(j, "cancelled")
        /\ RecordTerminal({j})
        /\ cancelled' = cancelled \cup {j}
     \/ /\ status[j] = "cancelled"
        /\ RecordTerminal({j})
        /\ cancelled' = cancelled \cup {j}
        /\ UNCHANGED <<older, status, silent>>
     \/ /\ status[j] = "lost"
        /\ cancelled' = cancelled \cup {j}
        /\ UNCHANGED <<older, status, silent, replies>>
     \/ /\ status[j] = "ended"
        /\ UNCHANGED <<older, status, silent, replies, cancelled>>
  /\ UNCHANGED <<up, served, phase, updates, saved, attempts, recovered, finished,
                 emitted>>

(* comms_recover of a running job that the caller holds for stale: the      *)
(* dispatcher cancels it, adds a retry and ticks.  The execution service    *)
(* and the message bureau are not told.                                    *)
Recover(j, n) ==
  /\ RequestsServed /\ status[j] = "running"
  /\ status[n] = "new" /\ AgentOf[n] = AgentOf[j]
  /\ LET gone == [status EXCEPT ![j] = "cancelled"]
         sta  == [gone EXCEPT ![n] = InitialStatus(AgentOf[n], gone)]
     IN  /\ older' = PutLast(gone, PutLast(status, older, j), n)
         /\ status' = SetAll(sta, ToStart(sta, older'), "running")
  /\ silent' = silent \ {j}
  /\ recovered' = recovered \cup {j}
  /\ UNCHANGED <<up, served, phase, active, replay, updates, files, cancelled,
                 finished, emitted>>

(* project_reload, for one agent: it may be added at any time, and removed   *)
(* while it has no outstanding job.                                        *)
AddAgent(a) == a \notin served /\ served' = served \cup {a}

(* Mutant: only a running job keeps its agent. *)
RemoveIdleAgent(a) == a \in served /\ ~HasActive(a, status) /\ served' = served \ {a}

RemoveAgent(a) == a \in served /\ ~HasOutstanding(a, status) /\ served' = served \ {a}

Reload(a) ==
  /\ RequestsServed
  /\ AddAgent(a) \/ RemoveAgent(a)
  /\ UNCHANGED <<up, phase, older, status, active, replay, updates, silent, files, history>>

-----------------------------------------------------------------------------
(* The heartbeat: tick and start, poll, apply the updates, time out. *)

HeartbeatTick ==
  /\ RequestsServed
  /\ status' = SetAll(status, ToStart(status, older), "running")
  /\ StartExecution(ToStart(status, older))
  /\ phase' = "poll"
  /\ UNCHANGED <<up, served, older, replay, updates, silent, saved, attempts, replies,
                 history>>

(* A terminal replay of a job that is not polled is kept, and delivered     *)
(* again by the next heartbeat.                                            *)
DrainPendingReplays ==
  replay' = [j \in Jobs |-> IF "decision" \in replay[j] /\ j \notin active
                            THEN replay[j] ELSE {}]

(* Replays come first; a job with a replay is not polled.  Every result of  *)
(* an adapter is written to disk before the update is emitted; a terminal   *)
(* one ends the polling, the file stays.                                   *)
Poll ==
  /\ phase = "poll"
  /\ \E polled \in SUBSET {j \in active : replay[j] = {}} :
     \E result \in [polled -> SUBSET Payload] :
       LET batch == {j \in polled : "items" \in result[j]}
       IN  /\ \A j \in batch : emitted[j] < MaxBatches
           /\ emitted' = [j \in Jobs |-> emitted[j] + (IF j \in batch THEN 1 ELSE 0)]
           /\ updates' = [j \in Jobs |-> IF j \in polled THEN result[j] ELSE replay[j]]
           /\ disk' = [j \in Jobs |-> IF j \in polled THEN Persisted(result[j])
                                      ELSE disk[j]]
           /\ active' = active \ {j \in polled : "decision" \in result[j]}
  /\ DrainPendingReplays
  /\ phase' = "apply"
  /\ UNCHANGED <<up, served, older, status, silent, saved, attempts, replies,
                 cancelled, recovered, finished>>

(* An update reaches the completion tracker, whose verdict may be terminal  *)
(* before the provider's is, then the dispatcher and the message bureau.    *)
(* No update is refused because its job is terminal already.               *)
Apply(j) ==
  /\ phase = "apply" /\ updates[j] # {}
  /\ \/ /\ \E s \in Terminal : UpdateJobStatus(j, s)
        /\ RecordTerminal({j})
     \/ /\ "decision" \notin updates[j]
        /\ UpdateJobStatus(j, "running")
        /\ UNCHANGED replies
  /\ updates' = [updates EXCEPT ![j] = {}]
  /\ UNCHANGED <<up, served, phase, older, active, replay, disk, saved, attempts, history>>

(* Mutant: no reply is recorded for a job that timed out. *)
TimeoutWithoutReply ==
  /\ phase = "apply" /\ updates = Nothing
  /\ status' = SetAll(status, silent, "ended")
  /\ silent' = {}
  /\ phase' = "idle"
  /\ UNCHANGED <<up, served, older, active, replay, updates, files, history>>

(* The no-progress timeout ends the jobs that are due.  It does not end     *)
(* their execution.                                                        *)
HeartbeatTimeouts ==
  /\ phase = "apply" /\ updates = Nothing
  /\ status' = SetAll(status, silent, "ended")
  /\ RecordTerminal(silent)
  /\ silent' = {}
  /\ phase' = "idle"
  /\ UNCHANGED <<up, served, older, active, replay, updates, disk, saved, attempts, history>>

(* Time: a running job stays silent until its timeout is due.  JobHeartbeat *)
(* says when that is and shows that it comes.                              *)
FallSilent(j) ==
  /\ RequestsServed /\ status[j] = "running" /\ j \notin silent
  /\ silent' = silent \cup {j}
  /\ UNCHANGED <<up, served, phase, older, status, active, replay, updates, files, history>>

-----------------------------------------------------------------------------
(* The daemon goes away and comes back. *)

ForgetMemory ==
  /\ up' = FALSE /\ served' = {} /\ phase' = "idle"
  /\ status' = SetAll(status, Stored(status), "lost") /\ older' = Nothing
  /\ active' = {} /\ replay' = Nothing /\ updates' = Nothing /\ silent' = {}
  /\ finished' = {j \in Jobs : status[j] \in Terminal}
  /\ UNCHANGED <<disk, attempts, replies, cancelled, recovered, emitted>>

(* Mutant: nothing is written when there is nothing to save. *)
SaveIfAny == /\ RequestsServed
             /\ saved' = IF \E j \in Jobs : status[j] \in Live
                         THEN Unfinished(status, older) ELSE saved
             /\ ForgetMemory

Shutdown == RequestsServed /\ saved' = Unfinished(status, older) /\ ForgetMemory
Crash == up /\ UNCHANGED saved /\ ForgetMemory

(* restore_running_jobs: the jobs of running-jobs.json are back, except     *)
(* those for an agent that the new dispatcher does not serve.              *)
Restorable(names) == {j \in Jobs : saved.status[j] \in Live /\ AgentOf[j] \in names}

RestoreRunningJobs(names) ==
  /\ status' = [j \in Jobs |-> IF j \in Restorable(names) THEN saved.status[j]
                               ELSE status[j]]
  /\ older' = Only(Restorable(names), saved.older)

(* restore_submission of each job of S: pending items become a replay, then *)
(* the adapter resumes the submission or refuses to.  A decision without    *)
(* items is "terminal_pending": it is left alone.                          *)
RestoreSubmissions(S) ==
  LET found == {j \in WithAdapter(S) : disk[j] # {}}
      asked == {j \in found : disk[j] \cap Payload # {"decision"}}
  IN  /\ replay' = [j \in Jobs |-> IF j \in found /\ "items" \in disk[j]
                                   THEN disk[j] \cap Payload ELSE {}]
      /\ \E resumed \in SUBSET asked :
           /\ active' = resumed
           /\ disk' = SetAll(disk, asked \ resumed, {})

(* A new daemon reads the configuration, which may have changed, and start  *)
(* restores.  Every result that has a decision to apply counts as restored, *)
(* so no status changes here.                                              *)
Start ==
  /\ ~up /\ up' = TRUE
  /\ \E names \in SUBSET Agents :
       /\ served' = names
       /\ RestoreRunningJobs(names)
       /\ RestoreSubmissions({j \in Restorable(names) : saved.status[j] = "running"})
  /\ UNCHANGED <<phase, updates, silent, saved, attempts, replies, history>>

-----------------------------------------------------------------------------
Request == \E j \in Jobs : \/ Submit(j) \/ Ask(j) \/ Cancel(j)
                           \/ \E n \in Jobs : Retry(j, n) \/ Recover(j, n)
Heartbeat == HeartbeatTick \/ Poll \/ (\E j \in Jobs : Apply(j)) \/ HeartbeatTimeouts
Serve     == Request \/ Heartbeat \/ (\E j \in Jobs : FallSilent(j)) \/ \E a \in Agents : Reload(a)
Next      == Serve \/ Shutdown \/ Start

Spec      == Init /\ [][Next]_vars
CrashSpec == Init /\ [][Next \/ Crash]_vars

(* While the daemon is up its heartbeat threads keep running, and a job     *)
(* that stays silent becomes due (JobHeartbeat: TimeoutIsPrompt).  The       *)
(* second is strong fairness since the clock is looked at once a heartbeat. *)
Fairness == /\ WF_vars(Heartbeat)
            /\ \A j \in Jobs : SF_vars(FallSilent(j))
LiveSpec == Init /\ [][Next]_vars /\ Fairness

-----------------------------------------------------------------------------
(* Properties. *)

(* Types, and: the job_store, also the one in the file, is a total order;   *)
(* what is polled, due or still to be delivered is about stored jobs;       *)
(* updates wait only within a heartbeat; and nothing is in memory while     *)
(* the daemon is down.                                                     *)
Order(old, S) ==
  /\ old \in [Jobs -> SUBSET S]
  /\ \A j \in Jobs : old[j] # {} => j \in S
  /\ \A j \in S : j \notin old[j]
  /\ \A j, k \in S : j # k => (j \in old[k] <=> k \notin old[j])
  /\ \A j, k \in S : j \in old[k] => old[j] \subseteq old[k]
JobStoreOK == status \in [Jobs -> Statuses] /\ Order(older, Stored(status))
MemoryOK ==
  /\ up \in BOOLEAN /\ served \subseteq Agents /\ phase \in {"idle", "poll", "apply"}
  /\ active \subseteq Stored(status)
  /\ silent \subseteq {j \in Jobs : status[j] = "running"}
  /\ replay \in [Jobs -> SUBSET Payload] /\ updates \in [Jobs -> SUBSET Payload]
  /\ \A j \in Jobs : replay[j] # {} \/ updates[j] # {} => j \in Stored(status)
  /\ phase # "apply" => updates = Nothing
  /\ ~up => Stored(status) = {} /\ phase = "idle"
FilesOK ==
  /\ disk \in [Jobs -> SUBSET (Payload \cup {"state"})]
  /\ saved.status \in [Jobs -> Live \cup {"lost"}]
  /\ Order(saved.older, Stored(saved.status))
  /\ attempts \subseteq Jobs /\ replies \in [Jobs -> 0..MaxReplies]
HistoryOK == /\ cancelled \cup recovered \cup finished \subseteq Jobs
             /\ emitted \in [Jobs -> 0..MaxBatches]
TypeOK == JobStoreOK /\ MemoryOK /\ FilesOK /\ HistoryOK

(* No job ends silently: whichever way a submitted job becomes terminal (a  *)
(* decision, a verdict of the tracker, a cancel, the no-progress timeout),  *)
(* a reply has been recorded for its caller.  comms_recover is the          *)
(* exception: it cancels in the dispatcher alone.                          *)
NoSilentEnd ==
  \A j \in attempts \ recovered : status[j] \in Terminal => replies[j] > 0

(* A cancel that was answered with a receipt is final: neither a result     *)
(* that the provider still delivers, nor a replay, nor an orderly restart   *)
(* makes the job live again.                                               *)
CancelIsFinal ==
  \A j \in cancelled : status[j] \in {"cancelled", "lost"}

(* Whatever the execution service polls is on disk, so that a crash at any  *)
(* point leaves a state to resume from.                                    *)
ActiveIsPersisted == \A j \in active : "state" \in disk[j]

(* Every job comes to rest once the daemon is no longer stopped: a waiting   *)
(* job gets its turn, a running one gets its result or times out, a restored *)
(* one too, whether its provider resumes or not, and results that come after *)
(* the end revive a job only for a while.  A job whose agent is not served   *)
(* whenever the job waits may wait for ever; one that ever waited for an     *)
(* agent that is served may not, whatever is reloaded.                      *)
WaitsForever(j) ==
  <>[](status[j] \in Waiting) /\ [](status[j] \in Waiting => AgentOf[j] \notin served)

EveryJobSettles ==
  <>[]up => \A j \in Jobs : <>[](status[j] \notin Live) \/ WaitsForever(j)

(* A start brings back only jobs the previous daemon had not finished, as   *)
(* restore_running_jobs promises.                                          *)
RestoresOnlyUnfinished ==
  [][~up /\ up' => \A j \in finished : status'[j] \notin Live]_vars

(* A start finishes at once a job whose decision is on disk with nothing    *)
(* left to replay, as the comment on the restore loop says.                *)
PendingDecisionApplied ==
  [][~up /\ up' => \A j \in Jobs :
       disk[j] \cap Payload = {"decision"} => status'[j] # "running"]_vars
=============================================================================
