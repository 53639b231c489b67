# A TLA+ verification project for ccb-rust

`ccb-rust` runs several command-line AI agents side by side in tmux panes and
lets them send each other work. A daemon (`ccbrd`) owns the project: it accepts
requests on a Unix socket, queues them as jobs, types them into the agents'
panes, watches for the answers, and delivers the answers as replies into the
mailbox of whoever asked.

This directory models what a message depends on: the daemon processes and what
they hand to one another, the life of a job, the poll that finds its answer in
the logs of codex, the tracker that decides whether it is one, the timeout that
ends a silent job, and the bureau and the mailboxes that bring the reply to
whoever asked. `PROJECT.json` gives, for each definition, the lines of code it stands for.

- [1. The system](#1-the-system)
- [2. The modules](#2-the-modules)
- [3. The runs](#3-the-runs)
- [4. Bounds](#4-bounds)
- [5. Fairness](#5-fairness)
- [6. The proofs](#6-the-proofs)
- [7. Where code and comments disagree](#7-where-code-and-comments-disagree)
- [8. What is left out](#8-what-is-left-out)
- [9. Plan](#9-plan)

## 1. The system

### Components, their state and operations

| component | state | operations |
|---|---|---|
| mailbox kernel (`ccbr-mailbox/src/kernel.rs`) | per agent: an append-only log of inbound events, a lease file, a summary file | deliver, claim, claim_next, consume, abandon, supersede, ack_reply, rewrite_head, rebuild |
| message bureau (`ccbr-mailbox/src/facade_recording.rs`) | append-only logs of messages, attempts and replies | record_submission, record_running, record_terminal |
| control queue (`ccbr-mailbox/src/control_queue.rs`) | none of its own | mailbox_head, inbox, queue, ack, trace |
| dispatcher (`ccbr-daemon/src/services/dispatcher.rs`) | job store in memory, queues and active jobs derived from it, `running-jobs.json` | submit, tick, update_job_status, cancel, retry, comms_recover, persist and restore |
| callback edges (same file, `ccbr-message-bureau`) | log of parent/child edges | register, continue, repair, time out |
| execution service (`ccbr-providers/src/execution/`) | active submissions and pending replays in memory, one state file per job | start, poll, cancel, finish, restore |
| completion tracker and detectors (`ccbr-completion`) | per job: detector state | start, ingest an item, tick, finish |
| job heartbeat (`ccbr-heartbeat/src/engine.rs`, `ccbr-daemon/src/tick.rs`) | per job, in memory: last progress seen, last notice, notice count | evaluate, tick |
| daemon (`ccbr-daemon/src/app.rs`, `socket_server/server.rs`) | all of the above under one mutex | start, heartbeat, request handlers, shutdown |
| daemon process (`main.rs`, `socket_server/server.rs`, `services/ownership.rs`, `services/lifecycle.rs`) | four threads, one lock; socket path, `lifecycle.json`, `ownership-state.json`, `running-jobs.json` | start, serve, stop, shut down |
| codex adapter (`ccbr-providers/src/providers/codex.rs`) | per job: log, offset, anchor, replies seen | poll: guard, refresh, rotate, read, decide, fall back |
| keeper | its own record; the loop is Python outside this repository | restart with backoff |
| supervision, health, registry, namespace | per agent: runtime record, pane, health | respawn, recover, degrade |
| reload | transaction journal, drain intents | plan, apply, roll back, drain |
| storage (`ccbr-storage`) | files | JSON save, JSONL append, lock |

The remaining crates (command line, configuration, provider discovery, tmux
calls, text) keep no state that the others depend on. `PROJECT.json` lists all
of them.

### How they interact

A request thread takes the daemon's mutex for the whole handler; two heartbeat
threads take it for the whole heartbeat. So requests and heartbeats never
interleave, but everything else does:

```
 ask/submit --> dispatcher.submit --> bureau.record_submission --> deliver to the agent's mailbox
 heartbeat  --> dispatcher.tick   --> execution.start            --> state file
            --> execution.poll    --> state file --> tracker --> dispatcher.update_job_status
                                                          --> bureau.record_terminal --> reply --> caller's mailbox
            --> tick_job_heartbeat -----> timeout --> bureau.record_terminal
 cancel     --> execution.cancel  --> dispatcher.cancel --> bureau.record_terminal
 shutdown   --> running-jobs.json            start --> running-jobs.json, state files --> replays
```

The provider (an external program) emits what it likes, when it likes. The
daemon may be killed between any two file writes; there is no journal, and
nothing repairs a mailbox at the next start.

### What is hard

- *Several files, one operation.* A mailbox operation writes log, lease and
  summary one after the other.
- *Counters moved, not recomputed.* The summary is updated from its previous
  value.
- *Late results.* A provider can answer after its job was cancelled, recovered
  or timed out.
- *Restart.* Job records come back from one file, execution states from others,
  written at different times.
- *Leftovers.* The heartbeat state of a job outlives the run it is about.
- *Waiting.* A queued job depends on every way in which the one before it can end.
- *A log that grows while it is read.* Codex writes its log and may change to
  another one; the adapter keeps an offset, an anchor and half an answer. A log
  that ends inside a character cannot be read at all.
- *Two judges.* Adapter and tracker both decide when a job ends; the adapters do
  it in different ways, and not all of them show the tracker an end of a turn.
- *Panics.* A refusal in `submit` or an acknowledge that fails is a panic under
  the one lock of the daemon, which poisons it.
- *Two daemons.* Nothing keeps a second `ccbrd` from starting.

### What makes each component correct

- Mailbox: events of an agent are delivered one at a time in arrival order; a
  finished event stays finished; lease, summary and log agree; a reply at the
  head can be acknowledged; lease versions are never reused.
- Job heartbeat: a silent job is ended, not too early and not too late.
- Jobs: a submitted job never ends without a reply; a cancel is final; what is
  polled is on disk; a restart revives unfinished jobs only; every job comes to rest.
- Bureau and control queue: the state of a message tells how its job ended; an
  ended job leaves no request in a queue; a reply waits until it is read, and is read.
- Tracker: an answer it gives belongs to the session it was asked in, is stable, and is one.
- Codex adapter: the answer is the one a single reading of the whole log gives.
- Daemon process: a stop that was asked for ends the process and is not undone;
  the next daemon gets a new generation and the unfinished jobs.
- Components without a module: section 8.

## 2. The modules

| module | models | used by |
|---|---|---|
| `MailboxOps` | the operations of `MailboxKernelService` as functions from mailbox to mailbox, split at each file write | `MailboxKernel`, `MessageBureau` |
| `FifoDelivery` | abstract: what a mailbox promises | refinement target of `MailboxKernel` |
| `MailboxKernel` | one mailbox under every operation, without and with crashes | `MCMailboxKernel` |
| `MessageBureau` | messages, attempts and replies over the mailboxes of several agents, the control queue and its acknowledge, crashes | `MCMessageBureau` |
| `JobHeartbeat` | heartbeat engine, the daemon's tick and state map, on a clock | `MCJobHeartbeat` |
| `JobLifecycle` | dispatcher, execution service and the daemon's heartbeat, start and shutdown | `MCJobLifecycle` |
| `CompletionOps` | detectors, reply selector and tracker as functions from tracker to tracker | `CompletionTracker`, `CodexPoll` |
| `CompletionTracker` | one tracker under heartbeats, changes of session and a restart | `MCCompletionTracker` |
| `CodexPoll` | one codex job: growing logs, the adapter's poll, the tracker | `MCCodexPoll` |
| `DaemonProcess` | several `ccbrd` processes with their threads, locks and shared files | its own configurations |
| `MailboxOps_proofs` | lemmas: what each mailbox operation does to log, lease and summary | the next two |
| `MailboxKernel_proofs`, `MessageBureau_proofs` | theorems | |
| `JobHeartbeat_proofs`, `JobLifecycle_proofs`, `DaemonProcess_proofs` | theorems | |
| `CompletionTracker_proofs`, `CodexPoll_proofs` | theorems | |

The modules meet at named places. `RecordTerminal` of `JobLifecycle` is one
effect that `MessageBureau` spells out. A decision that `JobLifecycle` takes from
a provider as it comes is what `CodexPoll` and `CompletionTracker` compute. That
a silent job becomes due, a fairness assumption of `JobLifecycle`, is a theorem
of `JobHeartbeat_proofs`; that every job ends, an assumption of `MessageBureau`,
is checked in `JobLifecycle`. `DaemonProcess` has the threads and the order of
start and shutdown that `JobLifecycle` takes as single steps.

### Mailbox

`mb` is a record: `status` and `pos` stand for the log (the last record of an
event is its status, its first record its place), `lease` for the lease file,
`summary` for the summary file. Each kernel method is an operator with the same
name and the same early returns: a claim of a terminal event changes nothing, a
refused claim rebuilds the summary, `mark_terminal` recomputes from scratch when
the previous summary is missing or empty and decrements (saturating) otherwise.
`granted` is a history variable.

Mailbox operations are one step each in `Spec` because the daemon's mutex is
held around them. `CrashSpec` adds, for each operation, the states in which only
a prefix of its writes happened. A crash needs no more than that: nothing of a
mailbox is in memory.

Left out of the data: timestamps, priorities (written, never read by the kernel
when it picks a head), payload references and the wording of reasons.

### Job heartbeat

One job and a clock. `Tick` is the whole of `tick_job_heartbeat` with its
branches as the disjuncts `TickReset`, `TickQuiet`, `TickTimeout`, `TickNotice`;
`EngineAction` is the engine's decision. `Run`, `Progress` and `End` are what
other parts of the daemon do to `updated_at` and the status of the job. `End`
does not touch the heartbeat state, as in the code, so the same job, retried or
restored under its id, meets the notice count of its earlier run.

### Job lifecycle

`status` and `older` are the dispatcher's job store and its order (`rebuild`
computes the queue and the active job of an agent from it, so they are
operators, `NextInQueue` and `HasActive`). `active` and `replay` are the
execution service's two maps, `disk` its state files, `saved` is
`running-jobs.json`, `attempts` and `replies` the part of the message bureau that
decides whether a caller hears of the end.

A heartbeat is `HeartbeatTick`, `Poll`, an `Apply(j)` for each update and
`HeartbeatTimeouts`: a crash may come between them, a request may not
(`RequestsServed`). Requests are `Submit`, `Ask`, `Retry`, `Cancel`, `Recover`
(the stale-running branch of `comms_recover`). `Shutdown`, `Crash` and `Start`
are the daemon's own; `Start` is `restore_running_jobs` followed by
`restore_submission` for each running job.

`served` is the dispatcher's `agent_names`, out of the `Agents` a configuration may
name; a job may be for any name. `Reload(a)` adds an agent, or removes one that has
no outstanding job, between two requests (a reload that changes several agents is
several steps); `Start` reads a configuration that may have changed. `submit` takes
a job for an agent that is not served, and `tick` does not start it (`ToStart`); a
start drops it (`Restorable`). An `ask` to such an agent runs, if the registry has
it: `attach` registers any name, without telling the dispatcher.

`EveryJobSettles` excuses a job only if its agent is served at no moment at which the
job waits (`WaitsForever`): no timeout looks at waiting jobs. One that once waited for
a served agent must settle, whatever is reloaded; the mutant that lets a reload
remove an agent whose jobs only wait breaks it.

Free choices: what a provider delivers in a poll (nothing, items, a decision,
both), whether the completion tracker makes a batch of items terminal before the
provider does, whether an adapter resumes a submission, when a job's timeout is
due. There are no senders: `Ask` is that of a user or of an agent without a
running job; the other one is in `DaemonProcess`.

### Message bureau

`bureau` is all its files: a mailbox of `MailboxOps` for each agent, the state of
each message and attempt, the replies of a job, and `last`, the event a lookup by
attempt finds (`get_latest_for_attempt`). An operation is the sequence of the
states its writes leave; done in full it ends in the last, a crash ends it in any
(`CutIn`). `ReadQueue` and `Ack` are the control queue's. Looking at a queue abandons
stale heads in a loop; `DiscardRounds` is the bureau after each of its rounds, and a
crash leaves one of them or a write of the next (`CutInDiscard`). An acknowledge is
the writes of `AckWrites` and then such a look.

The daemon records a job with `Ask` or `Submit`, ends it with any verdict or a
cancel, as often as the code lets it, and an agent acknowledges what its head
shows. `dead` is the daemon after a panic in `handle_ack`.

`RepliesWaitForReader` and `EveryReplyIsRead` leave out an agent that asks
itself: there the request and the reply are in the same inbox, the lookup by
attempt finds the reply first, and ending the job again consumes it unread.

### Completion

A tracker is a record with a detector (one of five families), the replies the
selector would choose from, and the start time. `IngestItem`, `TickTracker` and
`EffectiveDecision` are the code's. A text is a pair of a session and a word, so
that an answer shows where it was said.

Production runs the `protocol_turn` family for every provider, and its adapters
differ: codex ends a turn with a boundary, gemini and its like with a marker in a
snapshot, claude after a hook, others when the pane is quiet. So
`AdapterDecisions` is any decision at all, with any items or none, and
`job.by` says whose decision ended the job. `known` is false where the tracker's
configuration, which is that of the daemon's start, does not name the agent: then no
tracker exists and the adapter alone decides.

What is claimed follows from that. `CompletedTurnHasReply` is about turns whose
last item is a boundary or an abort: there the tracker has a verdict, and it comes
first (`EffectiveDecision`). A turn that its adapter ends otherwise is the adapter's:
it may be completed without a reply, or with older text, and the model does it.
`AnswerIsOfThisSession` and `SettledMeansStable` are about the tracker's decisions.

In the daemon a tracker is ticked only after an update of its provider
(`tick_all` has no caller), so the request timeout of a tracker never ends the job
of a silent provider; `HeartbeatIdle` is that step.

### Codex

A log is a sequence of entries that codex (`Write`, `WriteMore`, `WriteRest`,
`ChangeSession`) extends by turns; an entry has length 2 and half of it 1, so an
offset may fall inside a line, and `torn` remembers which entries were read while
half written. A half-written line may end inside a character (`cut`): reading the log
then fails, which the poll takes for no entries and the offset 0 (`ReadLogEntries`,
`NewOffset`). Before the anchor that costs nothing, the log is read once more.
After it, the next poll reads the log from its start with the anchor seen, and may
take the end of an earlier turn for that of the request: `astray` marks this, and
`AnswerMatchesLog` does not cover it. The message of an aborted turn is the reply
if nothing was said. `PollSession` is a whole heartbeat for the job: guard, refresh,
rotation, the entries read, the tracker, the end of the job. `FailDelivery` is
the guard's verdict, `PollPane` the fallback to what the pane shows, `Restart` an
orderly restart with the replay of the last poll's items.

Simplified: the submission in memory and on disk are one (every poll that changes
it saves it); whether the pane shows that codex exited, and whether the delivery
timeout has elapsed, is open at every poll, so the guard may fire or not; the session file names the log; `no_wrap` submissions, which production
does not make, are left out.

### Daemon processes

`pc[d]` is the main thread of process `d` between two effects another process or
thread can see; `accept[d]` its accept thread, `beat[d]` its two heartbeat
threads, `lock[d]` who holds its application. The last four variables before the
histories are the files all processes share. A heartbeat is two steps,
`BeatBegins` (lock, load the lifecycle record) and `BeatEnds` (save it, poll,
unlock): in between another process may write. A request is one step, since it
has no effect on a file before its end that anyone reads.

`AskPanics` is `submit` refusing a nested ask: it kills the accept thread, closes
the listener and poisons the lock, and `BeatSkipped` and `ShutdownSkipped` are
what the others then do. `BindFails` is the `expect` in `main`.

Simplified: the line that prints the project id (it takes the lock once) is part
of `Bind`; the two joins are the guard of `PersistRunningJobs`; jobs are known by
their agent, and whether one runs or waits is open; each process starts once; the
CLI's own writes of the lifecycle record are left out.

## 3. The runs

| run | specification | properties | shows |
|---|---|---|---|
| `mailbox_safe` | `MailboxKernel!Spec` | `TypeOK`, `OnlyHeadDelivers`, `SummaryMatchesLog`, `LeaseMatchesDelivery`, `HeadReplyCanBeAcked`, `LeaseVersionsGrow`, `ImplementsFifoDelivery` | delivery is in order and one at a time (and implements `FifoDelivery`), the incremental summary is exact after any sequence of operations, the lease names exactly the event being delivered, an acknowledge cannot fail, no lease version is used twice |
| `bureau_live` | `MessageBureau!LiveSpec` | `MessageTellsTheEnd`, `EndedRequestLeavesQueue`, `AckNeverPanics`, `EveryReplyIsRead` | two agents, one of which also asks itself: however often a job is ended, its message, its request and its replies agree, and each reply is read |
| `bureau_crash` | `MessageBureau!CrashSpec` | `TypeOK`, `RepliesWaitForReader` | two crashes at any write: no reply is lost unread |
| `heartbeat` | `JobHeartbeat!Spec` | `TypeOK`, `TimeoutIsPrompt`, `NoEarlyTimeout` | the timeout is neither early nor late across restarts, leftovers and progress |
| `jobs_live` | `JobLifecycle!LiveSpec` | `TypeOK`, `NoSilentEnd`, `ActiveIsPersisted`, `CancelIsFinal`, `RestoresOnlyUnfinished`, `EveryJobSettles` | an agent that is served or not, added and removed: every end of a submitted job leaves a reply, a cancel answered with a receipt survives late results, replays and restarts, an orderly restart brings back unfinished jobs only, and every job comes to rest (but see `WaitsForever`) |
| `completion` | `CompletionTracker!Spec` | `TypeOK`, `CompletedTurnHasReply`, `AnswerIsOfThisSession`, `SettledMeansStable` | the verdict on any batches of items of all five families beside an adapter that decides as it likes, across a change of session and a restart, with a tracker and without |
| `codex` | `CodexPoll!Spec` | `TypeOK`, `AnswerMatchesLog`, `DeliveredStaysDelivered` | polls cut the log anywhere: the answer is that of one reading unless a read failed after the anchor, and a confirmed delivery never fails |
| `daemon_live` | `DaemonProcess!LiveSpec` | `TypeOK`, `GenerationsDiffer`, `UnfinishedJobsSurvive`, `UnmountedWhenGone`, `StopIsNotUndone`, `StopEnds` | two processes, in succession or at once, with panics and crashes: see section 1 |
| `mailbox_ack`, `jobs_stale`, `jobs_pending`, `daemon_nested` | | one each | expected violations, section 7 |

To repeat one: `tlc -config MailboxKernel_safe.cfg MCMailboxKernel`. Crashes of
the mailbox and of jobs need no run of their own where a theorem covers them for
every instance (section 6).

Every property of a passing run has a mutant in `PROJECT.json`: an operator of
the modules, marked *Mutant* in its comment, that changes a modelled definition
the way a bug in the code would (a lease not removed, a cancel that leaves the
submission with the execution service, a timeout that records no reply, a reply
kept over a change of session, a lifecycle record loaded before the lock is
taken). Each one makes its property fail.

Deadlock is off where the system may stop: all jobs ended (`bureau_crash` at its
bound of crashes, `completion`, `codex`), or all processes ended
(`daemon_live`, `daemon_nested`).

## 4. Bounds

- `MailboxKernel`: four events, two requests and two replies. A queue with a
  head, a second event that becomes the head, and a third that must wait covers
  every comparison the operations make; two replies let the reply counter and the
  depth differ. `MaxLeases = 5` lets each of the four events be claimed and one
  claimed again. Events of one type are interchangeable, so they form symmetry
  sets. `mailbox_ack` needs one request, two replies and a second lease.
- `MessageBureau`: two jobs, two agents. In `bureau_live` agent *a* asks *b* and
  itself, so that a request and two kinds of replies meet in one mailbox, and a
  job may end twice (`MaxReplies = 2`), differently. In `bureau_crash` the agents
  ask each other and the daemon is killed twice: one crash leaves a stale head,
  another cuts its discarding.
- `JobHeartbeat`: `Start = 3`, `Repeat = 2`, three notices, heartbeats at most 2
  apart (so a heartbeat may come late for both intervals), and a clock up to 20,
  which is the promptness bound (3 + 2 + 2·4 = 13) and more than half of another
  run of the job after it.
- `JobLifecycle`: two jobs of one agent (one waits for the other, or is its
  retry). `MaxBatches = 1` batch of items per job: one is enough to revive an
  ended job, to be replayed or to be lost. `MaxReplies` makes the reply counter
  saturate; the property only tells zero from more. The agent may
  be served or not from the start, after a restart and after each reload. The run has
  493 thousand states.
- `CompletionTracker`: two sessions, so that an old reply may be taken for a new
  one; a settle window of 2 on a clock up to 4, so that a reply may change within
  it; a restart. Each family has the kinds of items it tells apart (`KindsOf`):
  for `protocol_turn` a chunk, a snapshot, the boundary, an abort and an error. An
  adapter decides `completed` or `failed`; the outcome of the others is passed on in
  the same way. Two replies are needed only where a reply must change.
- `CodexPoll`: two logs, four entries in all: a prompt, what was said, a change
  of log and an end of turn in the other log is the shortest way to answer with
  the wrong text. It is also enough for the end of an earlier turn to be taken for that
  of the request after a failed read. One line read while half written, one change of
  session, one restart; any number of failed reads. Of the four ends by an abort two
  are in the run (`aborted` without and `failedMsg` with a message): the outcome
  and the message do not depend on one another. The logs are symmetric. The run has
  1.7 million states.
- `DaemonProcess`: two processes are enough for a succession, for two at the same
  time and for one taking the path of the other; one agent whose job comes and
  goes. `daemon_nested` has two agents and one process.

The theorems of section 6 have none of these bounds.

## 5. Fairness

Only the specifications called `LiveSpec` have fairness.

- `JobLifecycle`: `WF_vars(Heartbeat)`. Two threads of the daemon call the
  heartbeat every 1000 ms and every 500 ms. It waits for nothing but the mutex,
  which handlers give back. `SF_vars(FallSilent(j))`: a running job whose record
  does not change becomes due for its timeout, as `TimeoutIsPrompt` says;
  `FallSilent(j)` is disabled while a heartbeat runs, since the clock is looked at
  once a heartbeat, hence strong fairness. `MaxBatches` makes a provider stop at
  some point: one that goes on for ever keeps its job running for ever, in the
  code too. The daemon is up for good in the end (`<>[]up`).
- `MessageBureau`: every job ends (`EveryJobSettles`), and an agent whose mailbox
  shows a reply acknowledges it, as the instructions to the agents ask. There are
  no crashes: after one between two writes a job may be lost for good, and its
  request, which nothing then ends, blocks the mailbox of its agent.
- `DaemonProcess`: each thread of a process that was started is scheduled. Nothing
  is assumed of who starts, signals, calls or kills a daemon. `StopEnds` excuses a
  daemon whose socket path another one took: its own wake-up call goes there, and
  its join never returns.

Nothing is assumed about clients (no fairness on requests, reloads included) or providers (none on
what a poll delivers).

## 6. The proofs

All proofs are checked by TLAPS to the last leaf. Every safety and action property
of the passing runs is a theorem. Nothing is assumed but the named assumptions on
constants:

- `EventsAssumption`: a finite set of events, replies among them, `NoEvent` not.
- `BureauAssumption`, `EventAssumption`: finitely many jobs, each with an agent; the
  verdicts are the four of the code; the events are the requests and replies of the jobs.
- `HeartbeatAssumption`: the values `HeartbeatPolicy::new` accepts, a terminal count
  the engine can reach, and heartbeats no further apart than `Start`, which is 300 s
  against 1 s in the daemon.
- `LifecycleAssumption`: every job is for some agent, served or not; bounds are numbers.
- `CompletionAssumption`, `TrackerAssumption`: windows, timeouts and bounds are
  numbers, the families are the five of the code.
- `CodexAssumption`: finitely many logs; a text of a log or a pane is not the empty text.
- `DistinctNames`, `FiniteDaemons`: finitely many processes, none called `Nobody`.

TLC agrees with the inductive invariants of `MessageBureau`, `CompletionTracker` and
`CodexPoll` on the instances of their runs; they are long enough to deserve that.

Some operators are loops over items, lines or stale heads, written as recursive
functions. What such a function is at its *n*-th argument needs an induction, and the
library's induction theorem takes an operator parameter, which the provers cannot
instantiate. The proofs take the least argument at which the claim fails instead:
`LeastNatural` (from well-founded induction on a relation) gives it, and the round
before it gives the contradiction. `LoopExists` and `IngestLoop` in the modules below
show in the same way that the function exists and is what its equation says.

### `MailboxKernel_proofs`

For any finite set of events and any number of operations:

| theorem | statement |
|---|---|
| `TypeCorrect` | `CrashSpec => []TypeOK` |
| `HeadDelivery` | `CrashSpec => []OnlyHeadDelivers` |
| `FifoRefinement` | `CrashSpec => ImplementsFifoDelivery` |
| `SummaryCorrect` | `Spec => []SummaryMatchesLog` |
| `LeaseCorrect` | `Spec => []LeaseMatchesDelivery` |
| `AckAlwaysPossible` | `Spec => []HeadReplyCanBeAcked` |
| `LeaseVersions` | `Spec => LeaseVersionsGrow` |

*With crashes.* `OnlyHeadDelivers` is not inductive: a new event must come
behind the old ones. The invariant `Good` adds `LogInv` (positions do not exceed
the number of arrivals and are distinct). The argument does not go through the
operations one by one. `StepShape` says that every step, cut short or not, does
one of four things to the log: nothing, a new event at the end, a claim of the
head, or a live event set to queued or a terminal status (an acknowledge makes
the last two at once, to the same event). Each keeps `Good`, and each is a step
or a stutter of `FifoDelivery`. That the head exists for every nonempty set of
pending events is `HeadIsHead`, by the least element of a set of numbers.

*Without crashes.* `Exact` adds that the lease names the event being delivered
(`LeaseInv`) and that the summary is what the log says (`SummaryInv`), including
the lease version, which is the one thing that survives the removal of the lease
file. Every operation is shown to take an exact mailbox to an exact one
(`DeliverExact`, `ClaimAnewExact`, `MarkTerminalExact`, `RewriteHeadExact`,
`AckReplyExact`); the counters need the cardinality theorems of the library.
`VersionStep` is what a step does to the version, and `ExactInv` ties it to the
history variable. The lemmas about single operations are in `MailboxOps_proofs`, since
the bureau needs them too.

### `MessageBureau_proofs`

For any jobs, agents and callers (an agent that asks itself and a caller without a
mailbox among them), any number of replies and any number of crashes:

| theorem | statement |
|---|---|
| `TypeCorrect` | `CrashSpec => []TypeOK` |
| `RepliesKept` | `CrashSpec => []RepliesWaitForReader` |
| `MessageTells` | `Spec => []MessageTellsTheEnd` |
| `RequestLeaves` | `Spec => []EndedRequestLeavesQueue` |
| `AcksNeverPanic` | `Spec => []AckNeverPanics` |

`LiveSpec` implies `Spec`, so the last three cover the specification of the run.

*With crashes* (`CrashInv`). The files are `Sound`: each mailbox keeps the invariant
`Good` of its log and a lease that stands for no other event than the one being
delivered; the replies that are over in the mailbox of a caller other than the
answering agent were all acknowledged; a job that was not submitted has no attempt.
Each operation is a sequence of states, and the lemma of an operation says that every
one of them is sound, so a crash after any write is covered by the same lemma
(`WritesCat` and its like compose the sequences). What protects a reply is that
everything but an acknowledge finishes the event that the lookup by attempt finds,
and that this event is in the mailbox of the agent that answers.

*Without crashes* (`LiveInv`). Soundness is not enough for an acknowledge that cannot
fail. `Whole` adds that every summary is exact and, per job (`JobInv`), that message,
attempt and replies agree and that the request is in the queue exactly while the
attempt is open, where the lookup by attempt finds it. It follows that no head
is ever stale: discarding stale heads does nothing unless a crash came first.

### `JobHeartbeat_proofs`

For every policy and every rate of heartbeats that the assumption admits:

| theorem | statement |
|---|---|
| `TypeCorrect` | `Spec => []TypeOK` |
| `TimeoutPrompt` | `Spec => []TimeoutIsPrompt` |
| `TimeoutNotEarly` | `Spec => NoEarlyTimeout` |

Neither property is inductive, since both are about times the state does not
keep. `IInv` says what the saved state knows about them: a count of *n* stands
for a silence of at least `Start` and *n - 1* repeat intervals (`NoticesOK`);
and at the last heartbeat a running job was in one of three situations: no notice
yet and at most `Start` of silence, a leftover state about an earlier progress
that the next heartbeat resets, or a current state whose last notice is younger
than a repeat interval (`WatchOK`). The products with `Repeat` stay folded
(`Repeats`, `Slack`, `ProductFacts`), which leaves linear arithmetic.

### `JobLifecycle_proofs`

For any jobs and agents, jobs for agents that are not served among them, and any
provider:

| theorem | statement |
|---|---|
| `TypeCorrect` | `CrashSpec => []TypeOK` |
| `NoJobEndsSilently` | `CrashSpec => []NoSilentEnd` |
| `PolledIsPersisted` | `CrashSpec => []ActiveIsPersisted` |
| `CancelFinal` | `Spec => []CancelIsFinal` |
| `OrderlyRestore` | `Spec => RestoresOnlyUnfinished` |

The order of the job store is a relation, `older`, so that "put at the end" needs
no induction: `PutLastOrder` says that it leaves a total order. `CancelFinal`
strengthens its property with `CancelInv`: a cancelled job has no submission,
replay, update or state file left, and while the daemon is down
`running-jobs.json` has neither a cancelled nor a finished job. The second part
is what a crash breaks; `jobs_stale` shows it.

### `DaemonProcess_proofs`

For any number of processes and agents, each process starting, panicking,
overlapping and crashing at will:

| theorem | statement |
|---|---|
| `TypeCorrect` | `Spec => []TypeOK` |
| `GenerationsNeverRepeat` | `Spec => []GenerationsDiffer` |
| `JobsAreHandedOver` | `Spec => []UnfinishedJobsSurvive` |
| `UnmountedAtTheEnd` | `Spec => []UnmountedWhenGone` |
| `StopStays` | `Spec => StopIsNotUndone` |

`ThreadInv` says which threads run where main is and who holds the lock; every
other part needs it, since it is what keeps a request or a heartbeat out of the
steps of a shutdown. `CountInv` bounds the generation by the number of processes
that have one (the only part that needs cardinalities). `SoleInv` is the heart of
`StopStays`: without a second process a heartbeat that is under way holds the
phase that is on disk. `GenerationInv` and `JobsInv` describe the hand-over: the
daemon that runs is one generation ahead of the file, those that ended are at or
below it, and the jobs of the daemon whose generation is in the file are in
`running-jobs.json`, unless a successor is already writing it. They hold of an
orderly succession only, and the properties are stated for one.

### `CompletionTracker_proofs`

For any families, kinds of items, texts and sessions, any settle window and timeout,
any batches of items and any decisions of the adapter:

| theorem | statement |
|---|---|
| `TypeCorrect` | `Spec => []TypeOK` |
| `CompletedHasReply` | `Spec => []CompletedTurnHasReply` |
| `AnswerOfSession` | `Spec => []AnswerIsOfThisSession` |
| `SettledStable` | `Spec => SettledMeansStable` |

`TrackerInv` has three parts. `Trackers(session)`: everything a tracker holds was said
in the session the provider is in, which a change of session breaks and the `rotate`
item that comes with it repairs. `Consistent`: a turn detector that saw a reply has
left one with the selector, so that an empty reply can be replaced; and the anchored
detector compares a text with a digest of a digest, so the comparison never succeeds.
`WindowOk`: its window starts no earlier than the reply last changed. The lemmas are
about one item; the loop over a batch carries them from round to round.

### `CodexPoll_proofs`

For logs of any length and content, any number of changes of session, half-written
lines and restarts, and any way the polls cut the logs:

| theorem | statement |
|---|---|
| `TypeCorrect` | `Spec => []TypeOK` |
| `AnswersMatch` | `Spec => []AnswerMatchesLog` |
| `DeliveredStays` | `Spec => []DeliveredStaysDelivered` |

`AnswersMatch` excepts a job whose log was read again from its start after the anchor
was seen (`astray`): everything the invariant says of an offset is under `~astray`
(`Reading`), which holds again as soon as the log is left. A read that fails
before the anchor leaves a submission that has seen nothing, at the offset 0
(`ReadFails`).

The invariant says that anchor, final reply and last words of a submission are those
of one reading of the lines that begin before its offset, but for some that were torn
(`ScanOk`, `SubInv`); that no turn has ended in these lines; and that the tracker is
quiet while nothing was said. `HandleStep` is one line of the loop, `ReadAllOk` all of
them. An offset inside a line is the delicate point: `EntriesRead` shows that a read
skips nothing but the line that is half written when it is read, or that was, and
`NothingMissed` that the next offset accounts for it. `AnswerIs` compares the two
formulations at the end of a turn: the first end after the first anchor with the
line at which the loop stopped. The items saved for a restart end nothing (`Mild`),
so that a replay only brings the new tracker up to date, and the end of a turn is
decided by its last item (`Ends`).

### Model-checked only

- Liveness under fairness (`EveryJobSettles`, `EveryReplyIsRead`, `StopEnds`): not
  within reach of the prover.
- That the violations of section 7 exist.

Where a theorem is about a bounded model (a clock, a number of entries, replies,
sessions or restarts), the bound is a constant and the theorem holds for all its
values.

## 7. Where code and comments disagree

Four runs are expected to end with a counterexample. Each states what a comment,
a usage text or a test says; `PROJECT.json` quotes it.

1. `mailbox_ack`. Killed between the terminal record and the removal of the
   lease, the daemon leaves a lease on a finished event. Nothing removes it:
   other claims conflict with it, and an acknowledge of the next reply fails for
   ever. The handler's guard against the panic that follows looks at the head
   only. `AckAlwaysPossible` and `AckNeverPanics` say this needs a crash.
2. `jobs_stale`. `running-jobs.json` is written at shutdown and never removed.
   After a crash, a start brings back the jobs of an older shutdown.
3. `jobs_pending`. A decision on disk that was not applied is found at start as
   `terminal_pending`, and dropped: the branch that would apply it is behind one
   that matches first.
4. `daemon_nested`. The usage text sends an agent with a running job to
   `--silence`; neither the CLI nor the ask handler passes it on, so `submit`
   takes the ask for a plain one and panics under the lock.

Other behaviour met while modelling, which the models contain and no run is
about:

- Neither the no-progress timeout nor `comms_recover` ends the execution, and
  `update_job_status` (`dispatcher.rs:2490`) does not look at the old status: a
  later item makes the terminal job running again. `CancelIsFinal` says that a
  cancel request is safe from this, `EveryJobSettles` that the job comes to rest.
- `comms_recover` (`dispatcher.rs:1723`) ticks the dispatcher and its handler
  drops the list of started jobs: the retry is running but was never sent.
- A job that was submitted for an agent the dispatcher does not serve is answered as
  accepted and never starts: `tick` goes over `agent_names` (`dispatcher.rs:2425`),
  and the no-progress timeout over running jobs. These are the default agents where
  the configuration has some (`app.rs:43`).
- A job whose resume was refused keeps its terminal replay, and each heartbeat
  delivers it once more, with one more reply.
- Completion trackers are not ticked for a provider that is silent, so their
  request timeout does nothing then; and the anchored detector starts its window
  again when it meets a reply the second time (two digests of one text).
- Codex: the delivery guard compares the length of the current log with the
  offset in the log polled last (`codex.rs:1152`); the pane fallback ends a job
  without looking whether the prompt was sent or its anchor seen
  (`codex.rs:526`); a fallback log is kept for good.
- Codex: a read that fails after the anchor was seen (the log ends inside a
  character, `codex.rs:471` and `1825`) sets the offset to 0 and keeps the anchor:
  the next poll may answer with an earlier turn. Without `~astray` TLC finds this
  in `AnswerMatchesLog`, with 11 states.
- An adapter that ends a turn without a boundary is believed
  (`app.rs:660`): gemini's `completed` with an empty reply ends the job that way,
  where codex's would be corrected to `incomplete`.
- An agent that a reload added or `attach` registered has no tracker
  (`tracker.rs:61`): its jobs end by their adapter alone.
- The generation is written at an orderly end only, after the lifecycle record
  says unmounted: after a crash, or with two daemons, it is handed out twice.
- `stop-all` leaves the daemon serving; `ccbr-cli/src/services/daemon.rs` sends it
  as "a graceful shutdown".
- The heartbeat thread of the socket server is joined nowhere and may end a job
  after `running-jobs.json` was written; the next daemon has it again.

## 8. What is left out

- *Data.* Prompts, payloads, timestamps where no decision depends on them, log
  texts.
- *Torn writes of the daemon's own files.* A file write is one step, also where an
  append writes a record and its newline separately. (Half-written lines of
  codex's log are modelled.)
- *Clock jumps.* `JobHeartbeat` has a monotonic clock, the code uses wall time.
- *Unreached code.* `acknowledge`, `acknowledge_item` and the daemon-side use of
  `finish` have no effect in the daemon as it is wired. Callback edges, with their
  continuation, repair and timeout, are unreachable: the daemon builds its
  dispatcher without mailbox, control queue and attempt store (`app.rs:176`), and
  the CLI does not send `--callback`.
- *The keeper.* Its loop is Python outside this repository.
- *The other adapters.* They differ from codex's and from each other: opencode and
  kimi report a boundary of their own, gemini, qwen, droid, copilot and codebuddy
  for a done marker in an answer, agy for a quiet pane, claude for a hook and its own
  log. Here they are what they deliver: any items and any decision, in
  `CompletionTracker` and `JobLifecycle`. How each comes to it is not modelled, nor
  is the reliability timeout, which only claude uses.
- *Supervision, health, namespace, start and stop flows, maintenance heartbeat; of a
  reload all but the agents it adds or removes.* Not modelled yet: section 9.
- *I/O.* tmux, git, process clean-up, discovery of providers' files; command line,
  configuration, roles, storage classification, rendering: sequential code over
  texts and files whose state nothing else depends on.

## 9. Plan

1. `Supervision`: recovery transitions of an agent and their backoff, with the
   health monitor's generation and a heartbeat that races a mount.
2. `Reload`, beyond the agents in `JobLifecycle`: the transaction with its journal, rollback and drain intents.
3. `Storage`: JSONL append with torn writes, atomic replace, lock files.
4. `MaintenanceHeartbeat`: its lock across processes, a stale holder.
5. The mapping from `JobLifecycle` with `MessageBureau` to one abstract
   specification, "every ask is answered once it ends", and its proof from the
   invariants of the two.
