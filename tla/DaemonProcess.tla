--------------------------- MODULE DaemonProcess ---------------------------
(***************************************************************************)
(* The ccbrd processes of one project: main.rs, the socket server, and the *)
(* start, heartbeat and shutdown of the application.  Every process has a  *)
(* main thread, an accept thread and two heartbeat threads; they share the *)
(* application behind one lock, which a panic poisons for good.  Nothing   *)
(* stops a second ccbrd from being started while one runs: processes share *)
(* the socket path, lifecycle.json, ownership-state.json and               *)
(* running-jobs.json without a lock, and meet only there.                  *)
(*                                                                         *)
(* A job is known by its agent, and it is left open whether it runs or     *)
(* still waits; what a job goes through is in JobLifecycle.                *)
(***************************************************************************)
EXTENDS Integers, FiniteSets

CONSTANTS Daemons,   \* the processes: each is started at most once
          Agents,    \* the configured agents
          Nobody     \* the socket path when there is no file

ASSUME DistinctNames == Nobody \notin Daemons
ASSUME FiniteDaemons == IsFiniteSet(Daemons)

VARIABLES
  pc,         \* where the main thread of a process is
  accept,     \* its accept thread
  beat,       \* its two heartbeat threads
  lock,       \* who holds the lock of its application
  seen,       \* the phase its heartbeat has loaded and will save
  flag,       \* shutdown_requested of the application
  closing,    \* the shutdown flag of the socket server
  knock,      \* a connection without a request waits at its listener
  jobs,       \* the agents that have an unfinished job
  generation, \* the generation of its ownership, 0 before it has one
  phase,      \* lifecycle.json
  path,       \* the process that bound the socket file
  ownerFile,  \* ownership-state.json
  jobsFile,   \* running-jobs.json
  killedBy,   \* history: the kind of ask that ended the accept thread
  overlapped, \* history: two processes have been alive together
  disturbed   \* history: a process ended without app.shutdown

own    == <<pc, accept, beat, lock, seen, flag, closing, knock, jobs, generation>>
files  == <<phase, path, ownerFile, jobsFile>>
story  == <<killedBy, overlapped, disturbed>>
vars   == <<own, files, story>>

Beats == {"main", "server"}

Phases == {"none", "starting", "mounted", "stopping", "unmounted"}

Steps == {"off", "acquiring", "mounting", "unlinking", "binding", "serving",
          "joining", "halting", "unmounting", "releasing", "ended", "exited"}

TypeOK ==
  /\ pc         \in [Daemons -> Steps]
  /\ accept     \in [Daemons -> {"off", "waiting", "client", "dummy", "done", "dead"}]
  /\ beat       \in [Daemons -> [Beats -> {"off", "sleeping", "beating", "done"}]]
  /\ lock       \in [Daemons -> Beats \cup {"free", "shutdown", "poisoned"}]
  /\ seen       \in [Daemons -> Phases]
  /\ flag       \in [Daemons -> BOOLEAN]
  /\ closing    \in [Daemons -> BOOLEAN]
  /\ knock      \in [Daemons -> BOOLEAN]
  /\ jobs       \in [Daemons -> SUBSET Agents]
  /\ generation \in [Daemons -> 0..Cardinality(Daemons)]
  /\ phase      \in Phases
  /\ path       \in Daemons \cup {Nobody}
  /\ ownerFile  \in 0..Cardinality(Daemons)
  /\ jobsFile   \in SUBSET Agents
  /\ killedBy   \in [Daemons -> {"nothing", "plain ask", "silent ask"}]
  /\ overlapped \in BOOLEAN
  /\ disturbed  \in BOOLEAN

Init ==
  /\ pc         = [d \in Daemons |-> "off"]
  /\ accept     = [d \in Daemons |-> "off"]
  /\ beat       = [d \in Daemons |-> [b \in Beats |-> "off"]]
  /\ lock       = [d \in Daemons |-> "free"]
  /\ seen       = [d \in Daemons |-> "none"]
  /\ flag       = [d \in Daemons |-> FALSE]
  /\ closing    = [d \in Daemons |-> FALSE]
  /\ knock      = [d \in Daemons |-> FALSE]
  /\ jobs       = [d \in Daemons |-> {}]
  /\ generation = [d \in Daemons |-> 0]
  /\ phase      = "none"
  /\ path       = Nobody
  /\ ownerFile  = 0
  /\ jobsFile   = {}
  /\ killedBy   = [d \in Daemons |-> "nothing"]
  /\ overlapped = FALSE
  /\ disturbed  = FALSE

Alive == {d \in Daemons : pc[d] \notin {"off", "exited"}}

Goto(d, from, to) == pc[d] = from /\ pc' = [pc EXCEPT ![d] = to]

\* The end of a process takes its threads, its listener and its memory along;
\* generation and jobs stay on as what they were at the end.
Gone(d) ==
  /\ pc'     = [pc EXCEPT ![d] = "exited"]
  /\ accept' = [accept EXCEPT ![d] = "off"]
  /\ beat'   = [beat EXCEPT ![d] = [b \in Beats |-> "off"]]
  /\ lock'   = [lock EXCEPT ![d] = "free"]
  /\ seen'   = [seen EXCEPT ![d] = "none"]
  /\ knock'  = [knock EXCEPT ![d] = FALSE]
  /\ flag'   = [flag EXCEPT ![d] = FALSE]
  /\ closing' = [closing EXCEPT ![d] = FALSE]
  /\ killedBy' = [killedBy EXCEPT ![d] = "nothing"]
  /\ UNCHANGED <<jobs, generation, files, overlapped>>

---------------------------------------------------------------------------
(* The main thread: app.start *)

\* The record of the previous process gives ids and a deadline, no refusal.
StartBegins(d) ==
  /\ Goto(d, "off", "acquiring")
  /\ phase'      = "starting"
  /\ overlapped' = (overlapped \/ Alive # {})
  /\ UNCHANGED <<accept, beat, lock, seen, flag, closing, knock, jobs, generation,
                 path, ownerFile, jobsFile, killedBy, disturbed>>

\* A process has a fresh instance id, so the ownership on disk is never its own:
\* it takes the next generation, and then the jobs of the last orderly end.
RestoreOrAcquire(d) ==
  /\ Goto(d, "acquiring", "mounting")
  /\ generation' = [generation EXCEPT ![d] = ownerFile + 1]
  /\ jobs'       = [jobs EXCEPT ![d] = jobsFile]
  /\ UNCHANGED <<accept, beat, lock, seen, flag, closing, knock, files, story>>

\* The last write of app.start; main then spawns its heartbeat thread.
Mount(d) ==
  /\ Goto(d, "mounting", "unlinking")
  /\ phase' = "mounted"
  /\ beat'  = [beat EXCEPT ![d]["main"] = "sleeping"]
  /\ UNCHANGED <<accept, lock, seen, flag, closing, knock, jobs, generation,
                 path, ownerFile, jobsFile, story>>

---------------------------------------------------------------------------
(* The main thread: the socket server *)

RemoveSocketFile(d) ==
  /\ Goto(d, "unlinking", "binding")
  /\ path' = Nobody
  /\ UNCHANGED <<accept, beat, lock, seen, flag, closing, knock, jobs, generation,
                 phase, ownerFile, jobsFile, story>>

Bind(d) ==
  /\ Goto(d, "binding", "serving")
  /\ path   = Nobody
  /\ path'  = d
  /\ beat'  = [beat EXCEPT ![d]["server"] = "sleeping"]
  /\ accept' = [accept EXCEPT ![d] = "waiting"]
  /\ UNCHANGED <<lock, seen, flag, closing, knock, jobs, generation,
                 phase, ownerFile, jobsFile, story>>

\* Another process bound the path after this one removed the file: the expect
\* of main panics.
BindFails(d) ==
  /\ pc[d] = "binding"
  /\ path # Nobody
  /\ Gone(d)
  /\ disturbed' = TRUE

\* SIGINT or SIGTERM, once the handler is set.
Signal(d) ==
  /\ pc[d] = "serving"
  /\ ~flag[d]
  /\ flag' = [flag EXCEPT ![d] = TRUE]
  /\ UNCHANGED <<pc, accept, beat, lock, seen, closing, knock, jobs, generation, files, story>>

\* Mutant: nothing wakes the accept thread.
ShutdownQuietly(d) ==
  /\ Goto(d, "serving", "joining")
  /\ flag[d]
  /\ closing' = [closing EXCEPT ![d] = TRUE]
  /\ UNCHANGED <<accept, beat, lock, seen, flag, knock, jobs, generation, files, story>>

\* server.shutdown: the flag of the server, then a connection to the path,
\* whoever listens there.
ServerShutdown(d) ==
  /\ Goto(d, "serving", "joining")
  /\ flag[d]
  /\ closing' = [closing EXCEPT ![d] = TRUE]
  /\ knock'   = [e \in Daemons |->
                   knock[e] \/ (e = path /\ accept[e] \in {"waiting", "client", "dummy"})]
  /\ UNCHANGED <<accept, beat, lock, seen, flag, jobs, generation, files, story>>

---------------------------------------------------------------------------
(* The main thread: app.shutdown, under the lock *)

\* Mutant: the accept thread is not joined.
JoinHeartbeatOnly(d) == beat[d]["main"] = "done"

\* The accept thread, which can be joined after a panic too, and main's heartbeat
\* thread are joined; the server's heartbeat thread is joined nowhere.
Joined(d) == accept[d] \in {"done", "dead"} /\ beat[d]["main"] = "done"

PersistRunningJobs(d) ==
  /\ Joined(d)
  /\ lock[d] = "free"
  /\ Goto(d, "joining", "halting")
  /\ lock'     = [lock EXCEPT ![d] = "shutdown"]
  /\ jobsFile' = jobs[d]
  /\ UNCHANGED <<accept, beat, seen, flag, closing, knock, jobs, generation,
                 phase, path, ownerFile, story>>

\* A poisoned lock is no error to main: the process ends without a shutdown.
ShutdownSkipped(d) ==
  /\ pc[d] = "joining"
  /\ Joined(d)
  /\ lock[d] = "poisoned"
  /\ Gone(d)
  /\ disturbed' = TRUE

StopAll(d) ==
  /\ Goto(d, "halting", "unmounting")
  /\ phase' = "stopping"
  /\ UNCHANGED <<accept, beat, lock, seen, flag, closing, knock, jobs, generation,
                 path, ownerFile, jobsFile, story>>

Unmount(d) ==
  /\ Goto(d, "unmounting", "releasing")
  /\ phase' = "unmounted"
  /\ UNCHANGED <<accept, beat, lock, seen, flag, closing, knock, jobs, generation,
                 path, ownerFile, jobsFile, story>>

\* Mutant: the guard is released first, and save finds nothing to write.
ReleaseFirst(d) ==
  /\ Goto(d, "releasing", "ended")
  /\ lock' = [lock EXCEPT ![d] = "free"]
  /\ UNCHANGED <<accept, beat, seen, flag, closing, knock, jobs, generation, files, story>>

\* Mutant: the generation is bumped at the end as well.
BumpTwice(d) ==
  /\ Goto(d, "releasing", "ended")
  /\ ownerFile' = generation[d] + 1
  /\ lock'      = [lock EXCEPT ![d] = "free"]
  /\ UNCHANGED <<accept, beat, seen, flag, closing, knock, jobs, generation,
                 phase, path, jobsFile, story>>

\* ownership.save, then release: the guard is dropped with the lock.
SaveOwnership(d) ==
  /\ Goto(d, "releasing", "ended")
  /\ ownerFile' = generation[d]
  /\ lock'      = [lock EXCEPT ![d] = "free"]
  /\ UNCHANGED <<accept, beat, seen, flag, closing, knock, jobs, generation,
                 phase, path, jobsFile, story>>

\* The end of main; the server's heartbeat thread may be in the middle of a beat.
Exit(d) ==
  /\ pc[d] = "ended"
  /\ Gone(d)
  /\ UNCHANGED disturbed

Crash(d) ==
  /\ d \in Alive
  /\ Gone(d)
  /\ disturbed' = TRUE

---------------------------------------------------------------------------
(* The heartbeat threads *)

\* Mutant: the record is loaded before the lock is taken.
LoadUnlocked(d, b) ==
  /\ beat[d][b] = "sleeping"
  /\ seen' = [seen EXCEPT ![d] = phase]
  /\ beat' = [beat EXCEPT ![d][b] = "beating"]
  /\ UNCHANGED <<pc, accept, lock, flag, closing, knock, jobs, generation, files, story>>

\* A heartbeat takes the lock and loads lifecycle.json.
BeatBegins(d, b) ==
  /\ beat[d][b] = "sleeping"
  /\ lock[d] = "free"
  /\ lock' = [lock EXCEPT ![d] = b]
  /\ seen' = [seen EXCEPT ![d] = phase]
  /\ beat' = [beat EXCEPT ![d][b] = "beating"]
  /\ UNCHANGED <<pc, accept, flag, closing, knock, jobs, generation, files, story>>

\* The loop of a heartbeat thread looks at its flag after the beat.
Looped(d, b) ==
  IF (IF b = "main" THEN flag[d] ELSE closing[d]) THEN "done" ELSE "sleeping"

\* Mutant: a heartbeat publishes mounted instead of what it has loaded.
PublishMounted(d, b) ==
  /\ beat[d][b] = "beating"
  /\ phase' = "mounted"
  /\ \E rest \in SUBSET jobs[d] : jobs' = [jobs EXCEPT ![d] = rest]
  /\ lock'  = [lock EXCEPT ![d] = "free"]
  /\ seen'  = [seen EXCEPT ![d] = "none"]
  /\ beat'  = [beat EXCEPT ![d][b] = Looped(d, b)]
  /\ UNCHANGED <<pc, accept, flag, closing, knock, generation,
                 path, ownerFile, jobsFile, story>>

\* The record goes back if it was starting or mounted; then the polls, which
\* may end any of the jobs.
BeatEnds(d, b) ==
  /\ beat[d][b] = "beating"
  /\ phase' = IF seen[d] \in {"starting", "mounted"} THEN seen[d] ELSE phase
  /\ \E rest \in SUBSET jobs[d] : jobs' = [jobs EXCEPT ![d] = rest]
  /\ lock'  = [lock EXCEPT ![d] = "free"]
  /\ seen'  = [seen EXCEPT ![d] = "none"]
  /\ beat'  = [beat EXCEPT ![d][b] = Looped(d, b)]
  /\ UNCHANGED <<pc, accept, flag, closing, knock, generation,
                 path, ownerFile, jobsFile, story>>

\* With a poisoned lock the thread goes round without a beat.
BeatSkipped(d, b) ==
  /\ beat[d][b] = "sleeping"
  /\ lock[d] = "poisoned"
  /\ beat' = [beat EXCEPT ![d][b] = Looped(d, b)]
  /\ UNCHANGED <<pc, accept, lock, seen, flag, closing, knock, jobs, generation, files, story>>

---------------------------------------------------------------------------
(* The accept thread *)

\* A connection is accepted: the server's flag is looked at before its request.
Incoming(d, who) ==
  /\ accept[d] = "waiting"
  /\ accept' = [accept EXCEPT ![d] = IF closing[d] THEN "done" ELSE who]

ClientConnects(d) ==
  /\ path = d
  /\ Incoming(d, "client")
  /\ UNCHANGED <<pc, beat, lock, seen, flag, closing, knock, jobs, generation, files, story>>

TakeKnock(d) ==
  /\ knock[d]
  /\ knock' = [knock EXCEPT ![d] = FALSE]
  /\ Incoming(d, "dummy")
  /\ UNCHANGED <<pc, beat, lock, seen, flag, closing, jobs, generation, files, story>>

\* A handler runs under the lock, from the request to the answer.
Handled(d, who) ==
  /\ accept[d] = who
  /\ lock[d] = "free"
  /\ accept' = [accept EXCEPT ![d] = "waiting"]

\* An empty line is answered with an error.  So are a ping and every request
\* that changes nothing of this model.
AnswerDummy(d) ==
  /\ \/ Handled(d, "dummy")
     \/ Handled(d, "client")
  /\ UNCHANGED <<pc, beat, lock, seen, flag, closing, knock, jobs, generation, files, story>>

HandleShutdown(d) ==
  /\ Handled(d, "client")
  /\ flag' = [flag EXCEPT ![d] = TRUE]
  /\ UNCHANGED <<pc, beat, lock, seen, closing, knock, jobs, generation, files, story>>

\* stop-all stops the agents and writes the phase; the daemon goes on serving.
HandleStopAll(d) ==
  /\ Handled(d, "client")
  /\ phase' = "stopping"
  /\ UNCHANGED <<pc, beat, lock, seen, flag, closing, knock, jobs, generation,
                 path, ownerFile, jobsFile, story>>

\* What becomes of the --silence of the command: the CLI does not send it, and
\* the handler would not read it.
SilenceOnSuccess(silent) == FALSE

\* ask, submit and retry give an agent a job; cancel and comms_recover may end it.
HandleJobRequest(d, a) ==
  /\ Handled(d, "client")
  /\ \E rest \in {jobs[d] \cup {a}, jobs[d] \ {a}} : jobs' = [jobs EXCEPT ![d] = rest]
  /\ UNCHANGED <<pc, beat, lock, seen, flag, closing, knock, generation, files, story>>

\* validate_nested_ask_request: a plain ask of an agent whose job runs.
NestedAskRefused(d, from, silent) ==
  /\ ~SilenceOnSuccess(silent)
  /\ from \in jobs[d]

\* A refused ask is a panic of submit under the lock: it unwinds the accept
\* thread, which closes the listener, and poisons the lock.
AskPanics(d, from, silent) ==
  /\ NestedAskRefused(d, from, silent)
  /\ accept[d] = "client"
  /\ lock[d] = "free"
  /\ accept'   = [accept EXCEPT ![d] = "dead"]
  /\ lock'     = [lock EXCEPT ![d] = "poisoned"]
  /\ knock'    = [knock EXCEPT ![d] = FALSE]
  /\ killedBy' = [killedBy EXCEPT ![d] = IF silent THEN "silent ask" ELSE "plain ask"]
  /\ UNCHANGED <<pc, beat, seen, flag, closing, jobs, generation, files, overlapped, disturbed>>

---------------------------------------------------------------------------
MainStep(d) ==
  \/ RestoreOrAcquire(d) \/ Mount(d)
  \/ RemoveSocketFile(d) \/ Bind(d) \/ BindFails(d)
  \/ ServerShutdown(d) \/ PersistRunningJobs(d) \/ ShutdownSkipped(d)
  \/ StopAll(d) \/ Unmount(d) \/ SaveOwnership(d) \/ Exit(d)

BeatStep(d, b) == BeatBegins(d, b) \/ BeatEnds(d, b) \/ BeatSkipped(d, b)

Request(d) ==
  \/ AnswerDummy(d)
  \/ HandleShutdown(d)
  \/ HandleStopAll(d)
  \/ \E a \in Agents : HandleJobRequest(d, a)
  \/ \E from \in Agents, silent \in BOOLEAN : AskPanics(d, from, silent)

AcceptStep(d) == TakeKnock(d) \/ Request(d)

Environment(d) == StartBegins(d) \/ Signal(d) \/ ClientConnects(d) \/ Crash(d)

Next ==
  \E d \in Daemons :
    \/ MainStep(d)
    \/ \E b \in Beats : BeatStep(d, b)
    \/ AcceptStep(d)
    \/ Environment(d)

Spec == Init /\ [][Next]_vars

\* The threads of a process that was started are scheduled; starts, signals,
\* clients and crashes owe nothing.
Fairness ==
  \A d \in Daemons :
    /\ WF_vars(MainStep(d))
    /\ WF_vars(AcceptStep(d))
    /\ \A b \in Beats : WF_vars(BeatStep(d, b))

LiveSpec == Spec /\ Fairness

---------------------------------------------------------------------------
(* Properties *)

\* As long as the daemons of a project followed one another and each ended with
\* app.shutdown.
OrderlySuccession == ~overlapped /\ ~disturbed

\* In an orderly succession no generation is handed out twice, although a daemon
\* writes its generation only at its end (ownership.rs).
GenerationsDiffer ==
  OrderlySuccession =>
    \A d, e \in Daemons :
      d # e /\ generation[d] # 0 => generation[d] # generation[e]

\* In an orderly succession, a job unfinished when the last daemon ended is in the
\* file the next one restores, whatever request or heartbeat was under way
\* when the shutdown was asked for.
UnfinishedJobsSurvive ==
  OrderlySuccession /\ Alive = {} =>
    \A d \in Daemons :
      (\A e \in Daemons : generation[e] <= generation[d]) => jobs[d] \subseteq jobsFile

\* In an orderly succession the lifecycle record says unmounted once every daemon
\* that was started has ended: the CLI waits for that word.
UnmountedWhenGone ==
  OrderlySuccession /\ Alive = {} => phase \in {"none", "unmounted"}

\* A heartbeat that loads and saves the lifecycle record never brings back the
\* phase a stop has left behind: without a second process only a start mounts.
StopIsNotUndone ==
  [][~overlapped' /\ phase \in {"stopping", "unmounted"} /\ phase' # phase
       => \/ phase' \in {"stopping", "unmounted"}
          \/ \E d \in Daemons : pc[d] \in {"off", "mounting"} /\ pc'[d] # pc[d]]_vars

\* A daemon that was asked to stop, by signal or by request, ends, also when a
\* panic took its accept thread and poisoned its lock, unless another daemon took
\* over its socket path.
StopEnds ==
  \A d \in Daemons :
    (pc[d] = "serving" /\ flag[d]) ~> (pc[d] = "exited" \/ path # d)

\* An ask with --silence from an agent that has a running job is served: it never
\* ends the accept thread.
SilentNestedAskIsServed == \A d \in Daemons : killedBy[d] # "silent ask"
=============================================================================
