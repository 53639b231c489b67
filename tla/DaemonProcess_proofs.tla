------------------------ MODULE DaemonProcess_proofs ------------------------
(***************************************************************************)
(* DaemonProcess for any number of processes and agents: the type          *)
(* invariant, and what an orderly succession of daemons keeps.             *)
(***************************************************************************)
EXTENDS DaemonProcess, FiniteSetTheorems, TLAPS

ThreadTypes ==
  /\ pc         \in [Daemons -> Steps]
  /\ accept     \in [Daemons -> {"off", "waiting", "client", "dummy", "done", "dead"}]
  /\ beat       \in [Daemons -> [Beats -> {"off", "sleeping", "beating", "done"}]]
  /\ lock       \in [Daemons -> Beats \cup {"free", "shutdown", "poisoned"}]
  /\ seen       \in [Daemons -> Phases]
  /\ flag       \in [Daemons -> BOOLEAN]
  /\ closing    \in [Daemons -> BOOLEAN]
  /\ knock      \in [Daemons -> BOOLEAN]
  /\ jobs       \in [Daemons -> SUBSET Agents]
  /\ generation \in [Daemons -> Nat]
FileTypes ==
  /\ phase      \in Phases
  /\ path       \in Daemons \cup {Nobody}
  /\ ownerFile  \in Nat
  /\ jobsFile   \in SUBSET Agents
StoryTypes ==
  /\ killedBy   \in [Daemons -> {"nothing", "plain ask", "silent ask"}]
  /\ overlapped \in BOOLEAN
  /\ disturbed  \in BOOLEAN

\* The types, without the bound on generations.
TypeInv == ThreadTypes /\ FileTypes /\ StoryTypes

\* Which threads run where main is, and who holds the lock.
ThreadInv ==
  \A d \in Daemons :
    /\ pc[d] = "off" => jobs[d] = {}
    /\ pc[d] \in {"off", "acquiring"} => generation[d] = 0
    /\ pc[d] \in {"off", "exited", "acquiring", "mounting"} =>
         lock[d] = "free" /\ \A b \in Beats : beat[d][b] = "off"
    /\ pc[d] \in {"off", "exited", "acquiring", "mounting", "unlinking", "binding"} =>
         accept[d] = "off" /\ beat[d]["server"] = "off"
    /\ pc[d] \in {"halting", "unmounting", "releasing", "ended"} =>
         accept[d] \in {"done", "dead"}
    /\ pc[d] \in {"halting", "unmounting", "releasing"} => lock[d] = "shutdown"
    /\ \A b \in Beats : beat[d][b] = "beating" <=> lock[d] = b

\* Every generation was counted up by a process of its own.
Started == {d \in Daemons : generation[d] # 0}
CountInv ==
  /\ ownerFile <= Cardinality(Started)
  /\ \A d \in Daemons : generation[d] <= Cardinality(Started)

\* Without a second process a heartbeat holds the phase that is on disk.
SoleInv ==
  ~overlapped =>
    /\ \A d, e \in Alive : d = e
    /\ \A d \in Daemons, b \in Beats : beat[d][b] = "beating" => seen[d] = phase

\* The daemon that runs is one generation ahead of ownership-state.json.
Running == {"mounting", "unlinking", "binding", "serving", "joining",
            "halting", "unmounting", "releasing"}
GenerationInv ==
  OrderlySuccession =>
    /\ \A d \in Daemons :
         /\ pc[d] \in Running => generation[d] = ownerFile + 1
         /\ pc[d] \in {"ended", "exited"} =>
              generation[d] \in 1..ownerFile
         /\ pc[d] = "ended" => generation[d] = ownerFile
    /\ \A d, e \in Daemons :
         d # e /\ pc[d] \in {"ended", "exited"} /\ pc[e] \in {"ended", "exited"}
           => generation[d] # generation[e]
    /\ ownerFile # 0 => \E d \in Daemons : generation[d] = ownerFile

\* running-jobs.json holds the jobs of the daemon that wrote it last.
Handing == {"halting", "unmounting", "releasing"}
JobsInv ==
  OrderlySuccession =>
    \A d \in Daemons :
      /\ pc[d] \in Handing \cup {"ended"} => jobs[d] \subseteq jobsFile
      /\ pc[d] = "exited" /\ generation[d] = ownerFile
           /\ (\A e \in Daemons : pc[e] \notin Handing) => jobs[d] \subseteq jobsFile

PhaseInv ==
  OrderlySuccession =>
    /\ \A d \in Daemons : pc[d] \in {"releasing", "ended"} => phase = "unmounted"
    /\ Alive = {} => phase \in {"none", "unmounted"}

IInv == TypeInv /\ ThreadInv /\ CountInv /\ SoleInv /\ GenerationInv /\ JobsInv /\ PhaseInv

---------------------------------------------------------------------------
(* One lemma per part: every action keeps it. *)

LEMMA TypeStep ==
  ASSUME TypeInv, [Next]_vars
  PROVE  TypeInv'
<1>1. ASSUME NEW d \in Daemons, StartBegins(d) PROVE TypeInv'
  BY <1>1 DEF StartBegins, Goto, TypeInv, ThreadTypes, FileTypes, StoryTypes, Beats, Phases,
     Steps, files, story
<1>2. ASSUME NEW d \in Daemons, RestoreOrAcquire(d) PROVE TypeInv'
  <2>1. ownerFile + 1 \in Nat
    BY DEF TypeInv, FileTypes
  <2>2. ThreadTypes'
    BY <1>2, <2>1 DEF RestoreOrAcquire, Goto, TypeInv, ThreadTypes, FileTypes, Steps
  <2>3. FileTypes' /\ StoryTypes'
    BY <1>2 DEF RestoreOrAcquire, TypeInv, FileTypes, StoryTypes, files, story
  <2>. QED  BY <2>2, <2>3 DEF TypeInv
<1>3. ASSUME NEW d \in Daemons, Mount(d) PROVE TypeInv'
  BY <1>3 DEF Mount, Goto, TypeInv, ThreadTypes, FileTypes, StoryTypes, Beats, Phases, Steps,
     files, story
<1>4. ASSUME NEW d \in Daemons, RemoveSocketFile(d) PROVE TypeInv'
  BY <1>4 DEF RemoveSocketFile, Goto, TypeInv, ThreadTypes, FileTypes, StoryTypes, Beats,
     Phases, Steps, files, story
<1>5. ASSUME NEW d \in Daemons, Bind(d) PROVE TypeInv'
  BY <1>5 DEF Bind, Goto, TypeInv, ThreadTypes, FileTypes, StoryTypes, Beats, Phases, Steps,
     files, story
<1>6. ASSUME NEW d \in Daemons, BindFails(d) PROVE TypeInv'
  BY <1>6 DEF BindFails, Gone, TypeInv, ThreadTypes, FileTypes, StoryTypes, Beats, Phases,
     Steps, files, story
<1>7. ASSUME NEW d \in Daemons, ServerShutdown(d) PROVE TypeInv'
  BY <1>7 DEF ServerShutdown, Goto, TypeInv, ThreadTypes, FileTypes, StoryTypes, Beats, Phases,
     Steps, files, story
<1>8. ASSUME NEW d \in Daemons, PersistRunningJobs(d) PROVE TypeInv'
  BY <1>8 DEF PersistRunningJobs, Goto, Joined, TypeInv, ThreadTypes, FileTypes, StoryTypes,
     Beats, Phases, Steps, files, story
<1>9. ASSUME NEW d \in Daemons, ShutdownSkipped(d) PROVE TypeInv'
  BY <1>9 DEF ShutdownSkipped, Gone, Joined, TypeInv, ThreadTypes, FileTypes, StoryTypes, Beats,
     Phases, Steps, files, story
<1>10. ASSUME NEW d \in Daemons, StopAll(d) PROVE TypeInv'
  BY <1>10 DEF StopAll, Goto, TypeInv, ThreadTypes, FileTypes, StoryTypes, Beats, Phases, Steps,
     files, story
<1>11. ASSUME NEW d \in Daemons, Unmount(d) PROVE TypeInv'
  BY <1>11 DEF Unmount, Goto, TypeInv, ThreadTypes, FileTypes, StoryTypes, Beats, Phases, Steps,
     files, story
<1>12. ASSUME NEW d \in Daemons, SaveOwnership(d) PROVE TypeInv'
  BY <1>12 DEF SaveOwnership, Goto, TypeInv, ThreadTypes, FileTypes, StoryTypes, Beats, Phases,
     Steps, files, story
<1>13. ASSUME NEW d \in Daemons, Exit(d) PROVE TypeInv'
  BY <1>13 DEF Exit, Gone, TypeInv, ThreadTypes, FileTypes, StoryTypes, Beats, Phases, Steps,
     files, story
<1>14. ASSUME NEW d \in Daemons, Crash(d) PROVE TypeInv'
  BY <1>14 DEF Crash, Gone, TypeInv, ThreadTypes, FileTypes, StoryTypes, Beats, Phases, Steps,
     files, story
<1>15. ASSUME NEW d \in Daemons, Signal(d) PROVE TypeInv'
  BY <1>15 DEF Signal, TypeInv, ThreadTypes, FileTypes, StoryTypes, Beats, Phases, Steps, files,
     story
<1>16. ASSUME NEW d \in Daemons, ClientConnects(d) PROVE TypeInv'
  BY <1>16 DEF ClientConnects, Incoming, TypeInv, ThreadTypes, FileTypes, StoryTypes, Beats,
     Phases, Steps, files, story
<1>17. ASSUME NEW d \in Daemons, TakeKnock(d) PROVE TypeInv'
  BY <1>17 DEF TakeKnock, Incoming, TypeInv, ThreadTypes, FileTypes, StoryTypes, Beats, Phases,
     Steps, files, story
<1>18. ASSUME NEW d \in Daemons, NEW b \in Beats, BeatBegins(d, b) PROVE TypeInv'
  BY <1>18 DEF BeatBegins, TypeInv, ThreadTypes, FileTypes, StoryTypes, Beats, Phases, Steps,
     files, story
<1>19. ASSUME NEW d \in Daemons, NEW b \in Beats, BeatEnds(d, b) PROVE TypeInv'
  BY <1>19 DEF BeatEnds, Looped, TypeInv, ThreadTypes, FileTypes, StoryTypes, Beats, Phases,
     Steps, files, story
<1>20. ASSUME NEW d \in Daemons, NEW b \in Beats, BeatSkipped(d, b) PROVE TypeInv'
  BY <1>20 DEF BeatSkipped, Looped, TypeInv, ThreadTypes, FileTypes, StoryTypes, Beats, Phases,
     Steps, files, story
<1>21. ASSUME NEW d \in Daemons, AnswerDummy(d) PROVE TypeInv'
  BY <1>21 DEF AnswerDummy, Handled, TypeInv, ThreadTypes, FileTypes, StoryTypes, Beats, Phases,
     Steps, files, story
<1>22. ASSUME NEW d \in Daemons, HandleShutdown(d) PROVE TypeInv'
  BY <1>22 DEF HandleShutdown, Handled, TypeInv, ThreadTypes, FileTypes, StoryTypes, Beats,
     Phases, Steps, files, story
<1>23. ASSUME NEW d \in Daemons, HandleStopAll(d) PROVE TypeInv'
  BY <1>23 DEF HandleStopAll, Handled, TypeInv, ThreadTypes, FileTypes, StoryTypes, Beats,
     Phases, Steps, files, story
<1>24. ASSUME NEW d \in Daemons, NEW a \in Agents, HandleJobRequest(d, a)
      PROVE  TypeInv'
  <2>1. jobs' \in [Daemons -> SUBSET Agents]
    BY <1>24 DEF HandleJobRequest, TypeInv, ThreadTypes
  <2>2. accept' \in [Daemons -> {"off", "waiting", "client", "dummy", "done", "dead"}]
    BY <1>24 DEF HandleJobRequest, Handled, TypeInv, ThreadTypes
  <2>3. UNCHANGED <<pc, beat, lock, seen, flag, closing, knock, generation>> /\ UNCHANGED files
        /\ UNCHANGED story
    BY <1>24 DEF HandleJobRequest
  <2>. QED  BY <2>1, <2>2, <2>3 DEF TypeInv, ThreadTypes, FileTypes, StoryTypes, files, story
<1>25. ASSUME NEW d \in Daemons, NEW from \in Agents, NEW silent \in BOOLEAN,
             AskPanics(d, from, silent)
      PROVE  TypeInv'
  BY <1>25 DEF AskPanics, TypeInv, ThreadTypes, FileTypes, StoryTypes, Beats, Phases, Steps,
     files, story
<1>26. CASE UNCHANGED vars
  BY <1>26 DEF TypeInv, ThreadTypes, FileTypes, StoryTypes, Beats, Phases, Steps, files, story,
     vars, own
<1>. QED  BY <1>1, <1>2, <1>3, <1>4, <1>5, <1>6, <1>7, <1>8, <1>9, <1>10, <1>11, <1>12, <1>13,
          <1>14, <1>15, <1>16, <1>17, <1>18, <1>19, <1>20, <1>21, <1>22, <1>23, <1>24, <1>25,
          <1>26 DEF Next, MainStep, BeatStep, AcceptStep, Request, Environment

LEMMA ThreadStep ==
  ASSUME TypeInv, ThreadInv, [Next]_vars
  PROVE  ThreadInv'
<1>1. ASSUME NEW d \in Daemons, StartBegins(d) PROVE ThreadInv'
  BY <1>1 DEF StartBegins, Goto, TypeInv, ThreadTypes, ThreadInv, Beats, Steps, files, story
<1>2. ASSUME NEW d \in Daemons, RestoreOrAcquire(d) PROVE ThreadInv'
  BY <1>2 DEF RestoreOrAcquire, Goto, TypeInv, ThreadTypes, ThreadInv, Beats, Steps, files,
     story
<1>3. ASSUME NEW d \in Daemons, Mount(d) PROVE ThreadInv'
  BY <1>3 DEF Mount, Goto, TypeInv, ThreadTypes, ThreadInv, Beats, Steps, files, story
<1>4. ASSUME NEW d \in Daemons, RemoveSocketFile(d) PROVE ThreadInv'
  BY <1>4 DEF RemoveSocketFile, Goto, TypeInv, ThreadTypes, ThreadInv, Beats, Steps, files,
     story
<1>5. ASSUME NEW d \in Daemons, Bind(d) PROVE ThreadInv'
  <2>1. pc' = [pc EXCEPT ![d] = "serving"] /\ pc[d] = "binding" /\ lock' = lock
        /\ accept' = [accept EXCEPT ![d] = "waiting"] /\ jobs' = jobs /\ generation' = generation
        /\ beat' = [beat EXCEPT ![d]["server"] = "sleeping"]
    BY <1>5 DEF Bind, Goto
  <2>2. lock[d] # "server"
    BY <2>1 DEF ThreadInv, Beats
  <2>. QED  BY <2>1, <2>2 DEF TypeInv, ThreadTypes, ThreadInv, Beats, Steps
<1>6. ASSUME NEW d \in Daemons, BindFails(d) PROVE ThreadInv'
  BY <1>6 DEF BindFails, Gone, TypeInv, ThreadTypes, ThreadInv, Beats, Steps, files, story
<1>7. ASSUME NEW d \in Daemons, ServerShutdown(d) PROVE ThreadInv'
  BY <1>7 DEF ServerShutdown, Goto, TypeInv, ThreadTypes, ThreadInv, Beats, Steps, files, story
<1>8. ASSUME NEW d \in Daemons, PersistRunningJobs(d) PROVE ThreadInv'
  BY <1>8 DEF PersistRunningJobs, Goto, Joined, TypeInv, ThreadTypes, ThreadInv, Beats, Steps,
     files, story
<1>9. ASSUME NEW d \in Daemons, ShutdownSkipped(d) PROVE ThreadInv'
  BY <1>9 DEF ShutdownSkipped, Gone, Joined, TypeInv, ThreadTypes, ThreadInv, Beats, Steps,
     files, story
<1>10. ASSUME NEW d \in Daemons, StopAll(d) PROVE ThreadInv'
  BY <1>10 DEF StopAll, Goto, TypeInv, ThreadTypes, ThreadInv, Beats, Steps, files, story
<1>11. ASSUME NEW d \in Daemons, Unmount(d) PROVE ThreadInv'
  BY <1>11 DEF Unmount, Goto, TypeInv, ThreadTypes, ThreadInv, Beats, Steps, files, story
<1>12. ASSUME NEW d \in Daemons, SaveOwnership(d) PROVE ThreadInv'
  BY <1>12 DEF SaveOwnership, Goto, TypeInv, ThreadTypes, ThreadInv, Beats, Steps, files, story
<1>13. ASSUME NEW d \in Daemons, Exit(d) PROVE ThreadInv'
  BY <1>13 DEF Exit, Gone, TypeInv, ThreadTypes, ThreadInv, Beats, Steps, files, story
<1>14. ASSUME NEW d \in Daemons, Crash(d) PROVE ThreadInv'
  BY <1>14 DEF Crash, Gone, TypeInv, ThreadTypes, ThreadInv, Beats, Steps, files, story
<1>15. ASSUME NEW d \in Daemons, Signal(d) PROVE ThreadInv'
  BY <1>15 DEF Signal, TypeInv, ThreadTypes, ThreadInv, Beats, Steps, files, story
<1>16. ASSUME NEW d \in Daemons, ClientConnects(d) PROVE ThreadInv'
  BY <1>16 DEF ClientConnects, Incoming, TypeInv, ThreadTypes, ThreadInv, Beats, Steps, files,
     story
<1>17. ASSUME NEW d \in Daemons, TakeKnock(d) PROVE ThreadInv'
  BY <1>17 DEF TakeKnock, Incoming, TypeInv, ThreadTypes, ThreadInv, Beats, Steps, files, story
<1>18. ASSUME NEW d \in Daemons, NEW b \in Beats, BeatBegins(d, b) PROVE ThreadInv'
  BY <1>18 DEF BeatBegins, TypeInv, ThreadTypes, ThreadInv, Beats, Steps, files, story
<1>19. ASSUME NEW d \in Daemons, NEW b \in Beats, BeatEnds(d, b) PROVE ThreadInv'
  BY <1>19 DEF BeatEnds, Looped, TypeInv, ThreadTypes, ThreadInv, Beats, Steps, files, story
<1>20. ASSUME NEW d \in Daemons, NEW b \in Beats, BeatSkipped(d, b) PROVE ThreadInv'
  BY <1>20 DEF BeatSkipped, Looped, TypeInv, ThreadTypes, ThreadInv, Beats, Steps, files, story
<1>21. ASSUME NEW d \in Daemons, AnswerDummy(d) PROVE ThreadInv'
  BY <1>21 DEF AnswerDummy, Handled, TypeInv, ThreadTypes, ThreadInv, Beats, Steps, files, story
<1>22. ASSUME NEW d \in Daemons, HandleShutdown(d) PROVE ThreadInv'
  BY <1>22 DEF HandleShutdown, Handled, TypeInv, ThreadTypes, ThreadInv, Beats, Steps, files,
     story
<1>23. ASSUME NEW d \in Daemons, HandleStopAll(d) PROVE ThreadInv'
  BY <1>23 DEF HandleStopAll, Handled, TypeInv, ThreadTypes, ThreadInv, Beats, Steps, files,
     story
<1>24. ASSUME NEW d \in Daemons, NEW a \in Agents, HandleJobRequest(d, a)
      PROVE  ThreadInv'
  BY <1>24 DEF HandleJobRequest, Handled, TypeInv, ThreadTypes, ThreadInv, Beats, Steps, files, story
<1>25. ASSUME NEW d \in Daemons, NEW from \in Agents, NEW silent \in BOOLEAN,
             AskPanics(d, from, silent)
      PROVE  ThreadInv'
  <2>1. /\ accept[d] = "client" /\ accept' = [accept EXCEPT ![d] = "dead"]
        /\ lock[d] = "free" /\ lock' = [lock EXCEPT ![d] = "poisoned"]
        /\ UNCHANGED <<pc, beat, jobs, generation>>
    BY <1>25 DEF AskPanics
  <2>2. pc[d] \notin {"off", "exited", "acquiring", "mounting", "unlinking", "binding",
                   "halting", "unmounting", "releasing", "ended"}
    BY <2>1 DEF ThreadInv
  <2>3. \A b \in Beats : beat[d][b] # "beating"
    BY <2>1 DEF ThreadInv, Beats
  <2>4. /\ lock'[d] = "poisoned" /\ accept'[d] = "dead"
        /\ \A e \in Daemons \ {d} : lock'[e] = lock[e] /\ accept'[e] = accept[e]
    BY <2>1 DEF TypeInv, ThreadTypes
  <2>. QED  BY <2>1, <2>2, <2>3, <2>4 DEF ThreadInv, Beats
<1>26. CASE UNCHANGED vars
  BY <1>26 DEF TypeInv, ThreadTypes, ThreadInv, Beats, Steps, files, story, vars, own
<1>. QED  BY <1>1, <1>2, <1>3, <1>4, <1>5, <1>6, <1>7, <1>8, <1>9, <1>10, <1>11, <1>12, <1>13,
          <1>14, <1>15, <1>16, <1>17, <1>18, <1>19, <1>20, <1>21, <1>22, <1>23, <1>24, <1>25,
          <1>26 DEF Next, MainStep, BeatStep, AcceptStep, Request, Environment

---------------------------------------------------------------------------
\* What no part but the types and the threads looks at.
Quiet(d) ==
  \/ Signal(d) \/ ClientConnects(d) \/ TakeKnock(d) \/ AnswerDummy(d) \/ HandleShutdown(d)
  \/ \E b \in Beats : BeatSkipped(d, b)
  \/ \E from \in Agents, silent \in BOOLEAN : AskPanics(d, from, silent)

LEMMA QuietFrame ==
  ASSUME NEW d \in Daemons, Quiet(d)
  PROVE  UNCHANGED <<pc, seen, jobs, generation, phase, ownerFile, jobsFile, overlapped, disturbed>>
<1>1. ASSUME Signal(d) \/ ClientConnects(d) \/ TakeKnock(d) \/ AnswerDummy(d) \/ HandleShutdown(d)
      PROVE  UNCHANGED <<pc, seen, jobs, generation, phase, ownerFile, jobsFile, overlapped, disturbed>>
  BY <1>1 DEF Signal, ClientConnects, TakeKnock, AnswerDummy, HandleShutdown, files, story
<1>2. ASSUME NEW b \in Beats, BeatSkipped(d, b)
      PROVE  UNCHANGED <<pc, seen, jobs, generation, phase, ownerFile, jobsFile, overlapped, disturbed>>
  BY <1>2 DEF BeatSkipped, files, story
<1>3. ASSUME NEW from \in Agents, NEW silent \in BOOLEAN, AskPanics(d, from, silent)
      PROVE  UNCHANGED <<pc, seen, jobs, generation, phase, ownerFile, jobsFile, overlapped, disturbed>>
  BY <1>3 DEF AskPanics, files, story
<1>. QED  BY <1>1, <1>2, <1>3 DEF Quiet

LEMMA BeatFrame ==
  ASSUME NEW d \in Daemons, NEW b \in Beats, BeatBegins(d, b)
  PROVE  UNCHANGED <<pc, jobs, generation, phase, ownerFile, jobsFile, overlapped, disturbed>>
BY DEF BeatBegins, files, story

LEMMA BeatEndFrame ==
  ASSUME NEW d \in Daemons, NEW b \in Beats, BeatEnds(d, b)
  PROVE  UNCHANGED <<pc, generation, ownerFile, jobsFile, overlapped, disturbed>>
BY DEF BeatEnds, story

LEMMA RequestFrame ==
  ASSUME NEW d \in Daemons, NEW a,
         HandleStopAll(d) \/ HandleJobRequest(d, a)
  PROVE  UNCHANGED <<pc, generation, ownerFile, jobsFile, overlapped, disturbed>>
BY DEF HandleStopAll, HandleJobRequest, files, story

LEMMA CountStep ==
  ASSUME TypeInv, ThreadInv, CountInv, [Next]_vars
  PROVE  CountInv'
<1>0. IsFiniteSet(Started) /\ Cardinality(Started) \in Nat
  BY FiniteDaemons, FS_Subset, FS_CardinalityType DEF Started
<1>1. ASSUME NEW d \in Daemons, RestoreOrAcquire(d) PROVE CountInv'
  <2>1. generation[d] = 0
    BY <1>1 DEF RestoreOrAcquire, Goto, ThreadInv
  <2>2. ownerFile \in Nat /\ generation \in [Daemons -> Nat]
    BY DEF TypeInv, ThreadTypes, FileTypes
  <2>3. Started' = Started \cup {d} /\ d \notin Started
    BY <1>1, <2>1, <2>2 DEF RestoreOrAcquire, Started
  <2>4. Cardinality(Started') = Cardinality(Started) + 1
    BY <1>0, <2>3, FS_AddElement
  <2>5. generation' = [generation EXCEPT ![d] = ownerFile + 1] /\ ownerFile' = ownerFile
    BY <1>1 DEF RestoreOrAcquire, files
  <2>. QED  BY <1>0, <2>2, <2>4, <2>5 DEF CountInv
<1>2. ASSUME NEW d \in Daemons, SaveOwnership(d) PROVE CountInv'
  BY <1>2 DEF SaveOwnership, CountInv, Started
<1>3. ASSUME UNCHANGED <<generation, ownerFile>> PROVE CountInv'
  BY <1>3 DEF CountInv, Started
<1>4. ASSUME NEW d \in Daemons, Quiet(d) PROVE CountInv'
  BY <1>3, <1>4, QuietFrame
<1>5. ASSUME NEW d \in Daemons, NEW b \in Beats, BeatBegins(d, b) \/ BeatEnds(d, b)
      PROVE  CountInv'
  BY <1>3, <1>5, BeatFrame, BeatEndFrame
<1>6. ASSUME NEW d \in Daemons, NEW a,
             HandleStopAll(d) \/ HandleJobRequest(d, a)
      PROVE  CountInv'
  BY <1>3, <1>6, RequestFrame
<1>7. ASSUME NEW d \in Daemons,
             \/ StartBegins(d) \/ Mount(d) \/ RemoveSocketFile(d) \/ Bind(d) \/ ServerShutdown(d)
             \/ PersistRunningJobs(d) \/ StopAll(d) \/ Unmount(d)
      PROVE  CountInv'
  BY <1>3, <1>7 DEF StartBegins, Mount, RemoveSocketFile, Bind, ServerShutdown,
     PersistRunningJobs, StopAll, Unmount, files
<1>8. ASSUME NEW d \in Daemons, BindFails(d) \/ ShutdownSkipped(d) \/ Crash(d) \/ Exit(d)
      PROVE  CountInv'
  BY <1>3, <1>8 DEF BindFails, ShutdownSkipped, Crash, Exit, Gone, files
<1>9. CASE UNCHANGED vars
  BY <1>3, <1>9 DEF vars, own, files
<1>. QED  BY <1>1, <1>2, <1>4, <1>5, <1>6, <1>7, <1>8, <1>9 DEF Next, MainStep, BeatStep,
          AcceptStep, Request, Environment, Quiet

LEMMA SoleStep ==
  ASSUME TypeInv, ThreadInv, SoleInv, [Next]_vars
  PROVE  SoleInv'
<1>0. /\ pc \in [Daemons -> Steps] /\ seen \in [Daemons -> Phases]
      /\ beat \in [Daemons -> [Beats -> {"off", "sleeping", "beating", "done"}]]
  BY DEF TypeInv, ThreadTypes
<1>a. ASSUME NEW d \in Alive, ~overlapped,
             \A b \in Beats : beat[d][b] # "beating"
      PROVE  \A e \in Daemons, b \in Beats : beat[e][b] # "beating"
  BY <1>a DEF SoleInv, Alive, ThreadInv
<1>1. ASSUME NEW d \in Daemons, StartBegins(d) PROVE SoleInv'
  <2>1. ~overlapped' => \A e \in Daemons : pc[e] \in {"off", "exited"}
    BY <1>1 DEF StartBegins, Alive
  <2>2. ~overlapped' => \A e \in Daemons, b \in Beats : beat[e][b] = "off"
    BY <2>1 DEF ThreadInv
  <2>. QED  BY <1>0, <1>1, <2>1, <2>2 DEF StartBegins, Goto, SoleInv, Alive
<1>2. ASSUME NEW d \in Daemons,
             Mount(d) \/ StopAll(d) \/ Unmount(d) \/ HandleStopAll(d)
      PROVE  SoleInv'
  <2>1. d \in Alive
    BY <1>2 DEF Mount, StopAll, Unmount, HandleStopAll, Handled, Goto, ThreadInv, Alive
  <2>2. \A b \in Beats : beat[d][b] # "beating"
    BY <1>2 DEF Mount, StopAll, Unmount, HandleStopAll, Handled, Goto, ThreadInv, Beats
  <2>3. ~overlapped => \A e \in Daemons, b \in Beats : beat[e][b] # "beating"
    BY <1>a, <2>1, <2>2
  <2>4. UNCHANGED overlapped /\ Alive' = Alive
    BY <1>0, <1>2 DEF Mount, StopAll, Unmount, HandleStopAll, Goto, Alive, story
  <2>5. \A e \in Daemons, b \in Beats : beat'[e][b] = "beating" => beat[e][b] = "beating"
    BY <1>0, <1>2 DEF Mount, StopAll, Unmount, HandleStopAll, Beats
  <2>. QED  BY <2>3, <2>4, <2>5 DEF SoleInv
<1>3. ASSUME NEW d \in Daemons, NEW b \in Beats, BeatBegins(d, b) PROVE SoleInv'
  BY <1>0, <1>3 DEF BeatBegins, SoleInv, Alive, files, story
<1>4. ASSUME NEW d \in Daemons, NEW b \in Beats, BeatEnds(d, b) PROVE SoleInv'
  <2>1. UNCHANGED <<pc, overlapped>>
    BY <1>4 DEF BeatEnds, story
  <2>2. ~overlapped => phase' = phase
    BY <1>4 DEF BeatEnds, SoleInv
  <2>3. \A e \in Daemons, c \in Beats :
          beat'[e][c] = "beating" => beat[e][c] = "beating" /\ <<e, c>> # <<d, b>>
    BY <1>0, <1>4 DEF BeatEnds, Looped
  <2>4. \A e \in Daemons, c \in Beats :
          beat'[e][c] = "beating" => e # d
    BY <1>4, <2>3 DEF BeatEnds, ThreadInv
  <2>5. \A e \in Daemons : e # d => seen'[e] = seen[e]
    BY <1>0, <1>4 DEF BeatEnds
  <2>. QED  BY <2>1, <2>2, <2>3, <2>4, <2>5 DEF SoleInv, Alive
<1>5. ASSUME NEW d \in Daemons,
             \/ BindFails(d) \/ ShutdownSkipped(d) \/ Crash(d) \/ Exit(d)
      PROVE  SoleInv'
  <2>1. Gone(d)
    BY <1>5 DEF BindFails, ShutdownSkipped, Crash, Exit
  <2>. QED  BY <1>0, <2>1 DEF Gone, SoleInv, Alive, files
<1>6. ASSUME NEW d \in Daemons,
             \/ RestoreOrAcquire(d) \/ RemoveSocketFile(d) \/ Bind(d) \/ ServerShutdown(d)
             \/ PersistRunningJobs(d) \/ SaveOwnership(d)
      PROVE  SoleInv'
  <2>1. UNCHANGED <<seen, phase, overlapped>> /\ Alive' = Alive
    BY <1>0, <1>6 DEF RestoreOrAcquire, RemoveSocketFile, Bind, ServerShutdown,
       PersistRunningJobs, SaveOwnership, Goto, Alive, files, story
  <2>2. \A e \in Daemons, b \in Beats : beat'[e][b] = "beating" => beat[e][b] = "beating"
    BY <1>0, <1>6 DEF RestoreOrAcquire, RemoveSocketFile, Bind, ServerShutdown,
       PersistRunningJobs, SaveOwnership, Beats
  <2>. QED  BY <2>1, <2>2 DEF SoleInv
<1>7. ASSUME NEW d \in Daemons, NEW b \in Beats, BeatSkipped(d, b) PROVE SoleInv'
  <2>1. \A e \in Daemons, c \in Beats : beat'[e][c] = "beating" => beat[e][c] = "beating"
    BY <1>0, <1>7 DEF BeatSkipped, Looped
  <2>. QED  BY <1>7, <2>1 DEF BeatSkipped, SoleInv, Alive, files, story
<1>8. ASSUME UNCHANGED <<pc, beat, seen, phase, overlapped>> PROVE SoleInv'
  BY <1>8 DEF SoleInv, Alive
<1>9. \/ \E d \in Daemons :
           \/ StartBegins(d) \/ Mount(d) \/ StopAll(d) \/ Unmount(d) \/ HandleStopAll(d)
           \/ BindFails(d) \/ ShutdownSkipped(d) \/ Crash(d) \/ Exit(d)
           \/ RestoreOrAcquire(d) \/ RemoveSocketFile(d) \/ Bind(d) \/ ServerShutdown(d)
           \/ PersistRunningJobs(d) \/ SaveOwnership(d)
           \/ \E b \in Beats : BeatBegins(d, b) \/ BeatEnds(d, b) \/ BeatSkipped(d, b)
      \/ UNCHANGED <<pc, beat, seen, phase, overlapped>>
  BY DEF Next, MainStep, BeatStep, AcceptStep, Request, Environment, Signal, ClientConnects,
     TakeKnock, AnswerDummy, HandleShutdown, HandleJobRequest, AskPanics, files, story, own, vars
<1>. QED  BY <1>1, <1>2, <1>3, <1>4, <1>5, <1>6, <1>7, <1>8, <1>9

LEMMA GenerationStep ==
  ASSUME TypeInv, ThreadInv, SoleInv, GenerationInv, [Next]_vars
  PROVE  GenerationInv'
<1>0. /\ ownerFile \in Nat
      /\ generation \in [Daemons -> Nat]
      /\ pc \in [Daemons -> Steps]
  BY DEF TypeInv, ThreadTypes, FileTypes
<1>1. ASSUME NEW d \in Daemons, StartBegins(d) PROVE GenerationInv'
  BY <1>0, <1>1 DEF StartBegins, Goto, GenerationInv, OrderlySuccession, Running
<1>2. ASSUME NEW d \in Daemons, RestoreOrAcquire(d) PROVE GenerationInv'
  <2>1. generation[d] = 0
    BY <1>2 DEF RestoreOrAcquire, Goto, ThreadInv
  <2>2. OrderlySuccession' => \A e \in Daemons : e # d => pc[e] \in {"off", "exited"}
    BY <1>2 DEF RestoreOrAcquire, Goto, story, OrderlySuccession, SoleInv, Alive
  <2>. QED  BY <1>0, <1>2, <2>1, <2>2
            DEF RestoreOrAcquire, Goto, GenerationInv, OrderlySuccession, Running, files, story
<1>3. ASSUME NEW d \in Daemons,
             \/ Mount(d) \/ RemoveSocketFile(d) \/ Bind(d) \/ ServerShutdown(d)
             \/ PersistRunningJobs(d) \/ StopAll(d) \/ Unmount(d)
      PROVE  GenerationInv'
  <2>1. /\ pc[d] \in Running /\ \E s \in Running : pc' = [pc EXCEPT ![d] = s]
        /\ UNCHANGED <<generation, ownerFile, overlapped, disturbed>>
    BY <1>3 DEF Mount, RemoveSocketFile, Bind, ServerShutdown, PersistRunningJobs, StopAll,
       Unmount, Goto, Running, files, story
  <2>. QED  BY <1>0, <2>1 DEF GenerationInv, OrderlySuccession, Running
<1>4. ASSUME NEW d \in Daemons, SaveOwnership(d) PROVE GenerationInv'
  <2>1. SUFFICES ASSUME OrderlySuccession' PROVE GenerationInv'
    BY DEF GenerationInv
  <2>2. OrderlySuccession
    BY <1>4, <2>1 DEF SaveOwnership, story, OrderlySuccession
  <2>3. \A e \in Daemons : e # d => pc[e] \in {"off", "exited"}
    BY <1>4, <2>2 DEF SaveOwnership, Goto, OrderlySuccession, SoleInv, Alive
  <2>4. generation[d] = ownerFile + 1
    BY <1>4, <2>2 DEF SaveOwnership, Goto, GenerationInv, Running
  <2>5. \A e \in Daemons : pc[e] = "exited" => generation[e] \in 1..ownerFile
    BY <2>2 DEF GenerationInv
  <2>6. /\ pc' = [pc EXCEPT ![d] = "ended"] /\ ownerFile' = ownerFile + 1
        /\ generation' = generation
    BY <1>4, <2>4 DEF SaveOwnership, Goto
  <2>7. \A e \in Daemons :
          /\ pc'[e] \notin Running
          /\ pc'[e] \in {"ended", "exited"} => generation'[e] \in 1..ownerFile'
          /\ pc'[e] = "ended" => generation'[e] = ownerFile'
    BY <1>0, <2>3, <2>4, <2>5, <2>6 DEF Running
  <2>8. \A e, f \in Daemons :
          e # f /\ pc'[e] \in {"ended", "exited"} /\ pc'[f] \in {"ended", "exited"}
            => generation'[e] # generation'[f]
    <3>1. \A e, f \in Daemons :
            e # f /\ pc[e] = "exited" /\ pc[f] = "exited" => generation[e] # generation[f]
      BY <2>2 DEF GenerationInv
    <3>. QED  BY <1>0, <2>3, <2>4, <2>5, <2>6, <3>1
  <2>. QED  BY <2>4, <2>6, <2>7, <2>8 DEF GenerationInv
<1>5. ASSUME NEW d \in Daemons, Exit(d) PROVE GenerationInv'
  BY <1>0, <1>5 DEF Exit, Gone, GenerationInv, OrderlySuccession, Running, files
<1>6. ASSUME NEW d \in Daemons, BindFails(d) \/ ShutdownSkipped(d) \/ Crash(d)
      PROVE  GenerationInv'
  BY <1>6 DEF BindFails, ShutdownSkipped, Crash, GenerationInv, OrderlySuccession
<1>7. ASSUME UNCHANGED <<pc, generation, ownerFile, overlapped, disturbed>> PROVE GenerationInv'
  BY <1>7 DEF GenerationInv, OrderlySuccession
<1>8. ASSUME NEW d \in Daemons, Quiet(d) PROVE GenerationInv'
  BY <1>7, <1>8, QuietFrame
<1>9. ASSUME NEW d \in Daemons, NEW b \in Beats, BeatBegins(d, b) \/ BeatEnds(d, b)
      PROVE  GenerationInv'
  BY <1>7, <1>9, BeatFrame, BeatEndFrame
<1>10. ASSUME NEW d \in Daemons, NEW a,
              HandleStopAll(d) \/ HandleJobRequest(d, a)
       PROVE  GenerationInv'
  BY <1>7, <1>10, RequestFrame
<1>11. CASE UNCHANGED vars
  BY <1>7, <1>11 DEF vars, own, files, story
<1>. QED  BY <1>1, <1>2, <1>3, <1>4, <1>5, <1>6, <1>8, <1>9, <1>10, <1>11
          DEF Next, MainStep, BeatStep, AcceptStep, Request, Environment, Quiet

LEMMA JobsStep ==
  ASSUME TypeInv, ThreadInv, SoleInv, GenerationInv, JobsInv, [Next]_vars
  PROVE  JobsInv'
<1>0. /\ ownerFile \in Nat
      /\ generation \in [Daemons -> Nat]
      /\ pc \in [Daemons -> Steps]
      /\ jobs \in [Daemons -> SUBSET Agents]
  BY DEF TypeInv, ThreadTypes, FileTypes
<1>1. ASSUME NEW d \in Daemons,
             \/ StartBegins(d) \/ Mount(d) \/ RemoveSocketFile(d) \/ Bind(d) \/ ServerShutdown(d)
      PROVE  JobsInv'
  <2>1. /\ pc[d] \notin Handing \cup {"ended", "exited"}
        /\ \E s \in Steps \ (Handing \cup {"ended", "exited"}) : pc' = [pc EXCEPT ![d] = s]
    BY <1>1 DEF StartBegins, Mount, RemoveSocketFile, Bind, ServerShutdown, Goto, Steps, Handing
  <2>2. UNCHANGED <<generation, ownerFile, jobs, jobsFile, disturbed>>
    BY <1>1 DEF StartBegins, Mount, RemoveSocketFile, Bind, ServerShutdown, files, story
  <2>3. ~overlapped' => ~overlapped
    BY <1>1 DEF StartBegins, Mount, RemoveSocketFile, Bind, ServerShutdown, story
  <2>. QED  BY <1>0, <2>1, <2>2, <2>3 DEF JobsInv, OrderlySuccession, Handing
<1>2. ASSUME NEW d \in Daemons, RestoreOrAcquire(d) PROVE JobsInv'
  BY <1>0, <1>2 DEF RestoreOrAcquire, Goto, JobsInv, OrderlySuccession, Handing, files, story
<1>3. ASSUME NEW d \in Daemons, PersistRunningJobs(d) PROVE JobsInv'
  <2>1. OrderlySuccession' => \A e \in Daemons : e # d => pc[e] \in {"off", "exited"}
    BY <1>3 DEF PersistRunningJobs, Goto, story, OrderlySuccession, SoleInv, Alive
  <2>2. /\ pc' = [pc EXCEPT ![d] = "halting"] /\ jobsFile' = jobs[d] /\ jobs' = jobs
    BY <1>3 DEF PersistRunningJobs, Goto
  <2>. QED  BY <1>0, <2>1, <2>2 DEF JobsInv, Handing
<1>4. ASSUME NEW d \in Daemons, StopAll(d) \/ Unmount(d) PROVE JobsInv'
  <2>1. /\ pc[d] \in Handing /\ \E s \in Handing : pc' = [pc EXCEPT ![d] = s]
        /\ UNCHANGED <<generation, ownerFile, jobs, jobsFile, overlapped, disturbed>>
    BY <1>4 DEF StopAll, Unmount, Goto, Handing, story
  <2>. QED  BY <1>0, <2>1 DEF JobsInv, OrderlySuccession, Handing
<1>5. ASSUME NEW d \in Daemons, SaveOwnership(d) PROVE JobsInv'
  <2>1. SUFFICES ASSUME OrderlySuccession' PROVE JobsInv'
    BY DEF JobsInv
  <2>2. OrderlySuccession
    BY <1>5, <2>1 DEF SaveOwnership, story, OrderlySuccession
  <2>3. \A e \in Daemons : e # d => pc[e] \in {"off", "exited"}
    BY <1>5, <2>2 DEF SaveOwnership, Goto, OrderlySuccession, SoleInv, Alive
  <2>4. generation[d] = ownerFile + 1
    BY <1>5, <2>2 DEF SaveOwnership, Goto, GenerationInv, Running
  <2>5. \A e \in Daemons : pc[e] = "exited" => generation[e] \in 1..ownerFile
    BY <2>2 DEF GenerationInv
  <2>6. /\ pc' = [pc EXCEPT ![d] = "ended"] /\ ownerFile' = ownerFile + 1
        /\ generation' = generation /\ jobs' = jobs /\ jobsFile' = jobsFile
    BY <1>5, <2>4 DEF SaveOwnership, Goto
  <2>7. jobs[d] \subseteq jobsFile
    BY <1>5, <2>2 DEF SaveOwnership, Goto, JobsInv, Handing
  <2>8. \A e \in Daemons : pc[e] = "exited" => generation[e] # ownerFile + 1
    BY <1>0, <2>5
  <2>. QED  BY <1>0, <2>3, <2>6, <2>7, <2>8 DEF JobsInv, Handing
<1>6. ASSUME NEW d \in Daemons, Exit(d) PROVE JobsInv'
  BY <1>0, <1>6 DEF Exit, Gone, JobsInv, OrderlySuccession, Handing, files, GenerationInv
<1>7. ASSUME NEW d \in Daemons, BindFails(d) \/ ShutdownSkipped(d) \/ Crash(d)
      PROVE  JobsInv'
  BY <1>7 DEF BindFails, ShutdownSkipped, Crash, JobsInv, OrderlySuccession
<1>8. ASSUME NEW d \in Daemons, NEW b \in Beats, BeatEnds(d, b) PROVE JobsInv'
  <2>1. \A e \in Daemons : jobs'[e] \subseteq jobs[e]
    BY <1>0, <1>8 DEF BeatEnds
  <2>2. UNCHANGED <<pc, jobsFile, generation, ownerFile, overlapped, disturbed>>
    BY <1>8 DEF BeatEnds, story
  <2>. QED  BY <2>1, <2>2 DEF JobsInv, OrderlySuccession
<1>9. ASSUME NEW d \in Daemons, NEW a \in Agents, HandleJobRequest(d, a)
      PROVE  JobsInv'
  <2>1. pc[d] \notin Handing \cup {"ended", "exited"}
    BY <1>9 DEF HandleJobRequest, Handled, ThreadInv, Handing
  <2>2. \A e \in Daemons : e # d => jobs'[e] = jobs[e]
    BY <1>0, <1>9 DEF HandleJobRequest
  <2>3. UNCHANGED <<pc, jobsFile, generation, ownerFile, overlapped, disturbed>>
    BY <1>9 DEF HandleJobRequest, files, story
  <2>. QED  BY <2>1, <2>2, <2>3 DEF JobsInv, OrderlySuccession, Handing
<1>10. ASSUME UNCHANGED <<pc, jobs, jobsFile, generation, ownerFile, overlapped, disturbed>>
       PROVE  JobsInv'
  BY <1>10 DEF JobsInv, OrderlySuccession
<1>11. ASSUME NEW d \in Daemons, Quiet(d) PROVE JobsInv'
  BY <1>10, <1>11, QuietFrame
<1>12. ASSUME NEW d \in Daemons, NEW b \in Beats, BeatBegins(d, b) PROVE JobsInv'
  BY <1>10, <1>12, BeatFrame
<1>13. ASSUME NEW d \in Daemons, HandleStopAll(d) PROVE JobsInv'
  BY <1>10, <1>13 DEF HandleStopAll, story
<1>14. CASE UNCHANGED vars
  BY <1>10, <1>14 DEF vars, own, files, story
<1>. QED  BY <1>1, <1>2, <1>3, <1>4, <1>5, <1>6, <1>7, <1>8, <1>9, <1>11, <1>12, <1>13, <1>14
          DEF Next, MainStep, BeatStep, AcceptStep, Request, Environment, Quiet

LEMMA PhaseStep ==
  ASSUME TypeInv, ThreadInv, SoleInv, PhaseInv, [Next]_vars
  PROVE  PhaseInv'
<1>0. pc \in [Daemons -> Steps]
  BY DEF TypeInv, ThreadTypes
<1>1. ASSUME NEW d \in Daemons, StartBegins(d) PROVE PhaseInv'
  BY <1>0, <1>1 DEF StartBegins, Goto, PhaseInv, OrderlySuccession, Alive
<1>2. ASSUME NEW d \in Daemons, Mount(d) \/ StopAll(d) PROVE PhaseInv'
  <2>1. OrderlySuccession' => \A e \in Daemons : e # d => pc[e] \in {"off", "exited"}
    BY <1>2 DEF Mount, StopAll, Goto, story, OrderlySuccession, SoleInv, Alive
  <2>2. \E s \in {"unlinking", "unmounting"} : pc' = [pc EXCEPT ![d] = s]
    BY <1>2 DEF Mount, StopAll, Goto
  <2>. QED  BY <1>0, <2>1, <2>2 DEF PhaseInv, Alive
<1>3. ASSUME NEW d \in Daemons, Unmount(d) PROVE PhaseInv'
  BY <1>0, <1>3 DEF Unmount, Goto, PhaseInv
<1>4. ASSUME NEW d \in Daemons,
             \/ RestoreOrAcquire(d) \/ RemoveSocketFile(d) \/ Bind(d) \/ ServerShutdown(d)
             \/ PersistRunningJobs(d)
      PROVE  PhaseInv'
  <2>1. /\ \E s \in Steps \ {"off", "releasing", "ended", "exited"} : pc' = [pc EXCEPT ![d] = s]
        /\ UNCHANGED <<phase, overlapped, disturbed>>
    BY <1>4 DEF RestoreOrAcquire, RemoveSocketFile, Bind, ServerShutdown, PersistRunningJobs,
       Goto, Steps, files, story
  <2>. QED  BY <1>0, <2>1 DEF PhaseInv, OrderlySuccession, Alive
<1>5. ASSUME NEW d \in Daemons, SaveOwnership(d) PROVE PhaseInv'
  BY <1>0, <1>5 DEF SaveOwnership, Goto, PhaseInv, OrderlySuccession, Alive, story
<1>6. ASSUME NEW d \in Daemons, Exit(d) PROVE PhaseInv'
  BY <1>0, <1>6 DEF Exit, Gone, PhaseInv, OrderlySuccession, Alive, files
<1>7. ASSUME NEW d \in Daemons, BindFails(d) \/ ShutdownSkipped(d) \/ Crash(d)
      PROVE  PhaseInv'
  BY <1>7 DEF BindFails, ShutdownSkipped, Crash, PhaseInv, OrderlySuccession
<1>8. ASSUME NEW d \in Daemons, NEW b \in Beats, BeatEnds(d, b) PROVE PhaseInv'
  <2>1. UNCHANGED <<pc, overlapped, disturbed>>
    BY <1>8 DEF BeatEnds, story
  <2>2. ~overlapped => phase' = phase
    BY <1>8 DEF BeatEnds, SoleInv
  <2>. QED  BY <2>1, <2>2 DEF PhaseInv, OrderlySuccession, Alive
<1>9. ASSUME NEW d \in Daemons, HandleStopAll(d) PROVE PhaseInv'
  <2>1. pc[d] \notin {"off", "exited", "releasing", "ended"}
    BY <1>9 DEF HandleStopAll, Handled, ThreadInv
  <2>2. OrderlySuccession => \A e \in Daemons : e # d => pc[e] \in {"off", "exited"}
    BY <2>1 DEF OrderlySuccession, SoleInv, Alive
  <2>3. UNCHANGED <<pc, overlapped, disturbed>>
    BY <1>9 DEF HandleStopAll, story
  <2>. QED  BY <2>1, <2>2, <2>3 DEF PhaseInv, OrderlySuccession, Alive
<1>10. ASSUME UNCHANGED <<pc, phase, overlapped, disturbed>> PROVE PhaseInv'
  BY <1>10 DEF PhaseInv, OrderlySuccession, Alive
<1>11. ASSUME NEW d \in Daemons, Quiet(d) PROVE PhaseInv'
  BY <1>10, <1>11, QuietFrame
<1>12. ASSUME NEW d \in Daemons, NEW b \in Beats, BeatBegins(d, b) PROVE PhaseInv'
  BY <1>10, <1>12, BeatFrame
<1>13. ASSUME NEW d \in Daemons, NEW a \in Agents, HandleJobRequest(d, a)
       PROVE  PhaseInv'
  BY <1>10, <1>13 DEF HandleJobRequest, files, story
<1>14. CASE UNCHANGED vars
  BY <1>10, <1>14 DEF vars, own, files, story
<1>. QED  BY <1>1, <1>2, <1>3, <1>4, <1>5, <1>6, <1>7, <1>8, <1>9, <1>11, <1>12, <1>13, <1>14
          DEF Next, MainStep, BeatStep, AcceptStep, Request, Environment, Quiet

---------------------------------------------------------------------------
LEMMA InitInv == ASSUME Init PROVE IInv
<1>1. TypeInv
  BY DEF Init, TypeInv, ThreadTypes, FileTypes, StoryTypes, Steps, Phases, Beats
<1>2. ThreadInv
  BY DEF Init, ThreadInv, Beats
<1>3. Started = {}
  BY DEF Init, Started
<1>4. CountInv
  BY <1>3, FS_EmptySet DEF Init, CountInv
<1>5. Alive = {}
  BY DEF Init, Alive
<1>6. SoleInv
  BY <1>5 DEF Init, SoleInv, Beats
<1>7. GenerationInv /\ JobsInv /\ PhaseInv
  BY DEF Init, GenerationInv, JobsInv, PhaseInv, Running, Handing
<1>. QED  BY <1>1, <1>2, <1>4, <1>6, <1>7 DEF IInv

LEMMA NextInv == ASSUME IInv, [Next]_vars PROVE IInv'
  BY TypeStep, ThreadStep, CountStep, SoleStep, GenerationStep, JobsStep, PhaseStep DEF IInv

LEMMA Invariance == Spec => []IInv
  BY InitInv, NextInv, PTL DEF Spec

---------------------------------------------------------------------------
\* The state of every process, the shared files and the generations keep their
\* types, however many daemons start, overlap, panic and crash (main.rs, app.rs).
THEOREM TypeCorrect == Spec => []TypeOK
<1>1. ASSUME IInv PROVE TypeOK
  <2>1. IsFiniteSet(Started) /\ Cardinality(Started) <= Cardinality(Daemons)
    BY FiniteDaemons, FS_Subset DEF Started
  <2>2. Cardinality(Started) \in Nat /\ Cardinality(Daemons) \in Nat
    BY <2>1, FiniteDaemons, FS_CardinalityType
  <2>3. ownerFile \in 0..Cardinality(Daemons)
    BY <1>1, <2>1, <2>2 DEF IInv, TypeInv, FileTypes, CountInv
  <2>4. \A d \in Daemons : generation[d] \in 0..Cardinality(Daemons)
    BY <1>1, <2>1, <2>2 DEF IInv, TypeInv, ThreadTypes, CountInv
  <2>5. generation \in [Daemons -> 0..Cardinality(Daemons)]
    BY <1>1, <2>4 DEF IInv, TypeInv, ThreadTypes
  <2>. QED  BY <1>1, <2>3, <2>5 DEF IInv, TypeInv, ThreadTypes, FileTypes, StoryTypes, TypeOK
<1>. QED  BY Invariance, <1>1, PTL

\* As long as daemons follow one another and end in order, no generation is handed
\* out twice (ownership.rs).
THEOREM GenerationsNeverRepeat == Spec => []GenerationsDiffer
<1>1. ASSUME IInv, OrderlySuccession,
             NEW d \in Daemons, NEW e \in Daemons, d # e, generation[d] # 0
      PROVE  generation[d] # generation[e]
  <2>. /\ pc[d] \in Running \cup {"off", "acquiring", "ended", "exited"}
       /\ pc[e] \in Running \cup {"off", "acquiring", "ended", "exited"}
    BY <1>1 DEF IInv, TypeInv, ThreadTypes, Steps, Running
  <2>0. ownerFile \in Nat /\ generation[d] \in Nat /\ generation[e] \in Nat
    BY <1>1 DEF IInv, TypeInv, ThreadTypes, FileTypes
  <2>1. pc[d] \notin {"off", "acquiring"}
    BY <1>1 DEF IInv, ThreadInv
  <2>2. CASE pc[e] \in {"off", "acquiring"}
    BY <1>1, <2>2 DEF IInv, ThreadInv
  <2>3. CASE pc[d] \in {"ended", "exited"} /\ pc[e] \in {"ended", "exited"}
    BY <1>1, <2>3 DEF IInv, GenerationInv
  <2>4. CASE pc[d] \in Running /\ pc[e] \in {"ended", "exited"}
    BY <1>1, <2>0, <2>4 DEF IInv, GenerationInv
  <2>5. CASE pc[e] \in Running /\ pc[d] \in {"ended", "exited"}
    BY <1>1, <2>0, <2>5 DEF IInv, GenerationInv
  <2>6. CASE pc[d] \in Running /\ pc[e] \in Running
    BY <1>1, <2>6 DEF IInv, SoleInv, Alive, Running, OrderlySuccession
  <2>. QED  BY <2>1, <2>2, <2>3, <2>4, <2>5, <2>6
<1>2. IInv => GenerationsDiffer
  BY <1>1 DEF GenerationsDiffer
<1>. QED  BY Invariance, <1>2, PTL

\* A job that still ran when the last daemon ended in order is in the file the next
\* one restores (app.rs, main.rs).
THEOREM JobsAreHandedOver == Spec => []UnfinishedJobsSurvive
<1>1. ASSUME IInv, OrderlySuccession, Alive = {}, NEW d \in Daemons,
             \A e \in Daemons : generation[e] <= generation[d]
      PROVE  jobs[d] \subseteq jobsFile
  <2>1. \A e \in Daemons : pc[e] \in {"off", "exited"}
    BY <1>1 DEF Alive
  <2>2. CASE pc[d] = "off"
    BY <1>1, <2>2 DEF IInv, ThreadInv
  <2>3. CASE pc[d] = "exited"
    <3>1. ownerFile \in Nat /\ generation[d] \in Nat
      BY <1>1 DEF IInv, TypeInv, ThreadTypes, FileTypes
    <3>2. generation[d] \in 1..ownerFile
      BY <1>1, <2>3 DEF IInv, GenerationInv
    <3>3. generation[d] = ownerFile
      BY <1>1, <3>1, <3>2 DEF IInv, GenerationInv
    <3>. QED  BY <1>1, <2>1, <2>3, <3>3 DEF IInv, JobsInv, Handing
  <2>. QED  BY <2>1, <2>2, <2>3
<1>2. IInv => UnfinishedJobsSurvive
  BY <1>1 DEF UnfinishedJobsSurvive
<1>. QED  BY Invariance, <1>2, PTL

\* After an orderly succession the lifecycle record says unmounted (app.rs).
THEOREM UnmountedAtTheEnd == Spec => []UnmountedWhenGone
<1>1. IInv => UnmountedWhenGone
  BY DEF IInv, PhaseInv, UnmountedWhenGone
<1>. QED  BY Invariance, <1>1, PTL

\* No heartbeat of a sole daemon undoes a stop in the lifecycle record (app.rs).
THEOREM StopStays == Spec => StopIsNotUndone
<1>1. ASSUME IInv, Next, ~overlapped', phase \in {"stopping", "unmounted"}, phase' # phase
      PROVE  \/ phase' \in {"stopping", "unmounted"}
             \/ \E d \in Daemons : pc[d] \in {"off", "mounting"} /\ pc'[d] # pc[d]
  <2>1. ASSUME NEW d \in Daemons, NEW b \in Beats, BeatEnds(d, b) PROVE phase' = phase
    <3>1. ~overlapped
      BY <1>1, <2>1 DEF BeatEnds, story
    <3>2. seen[d] = phase
      BY <1>1, <2>1, <3>1 DEF IInv, SoleInv, BeatEnds
    <3>. QED  BY <1>1, <2>1, <3>2 DEF BeatEnds
  <2>2. ASSUME NEW d \in Daemons, StartBegins(d) \/ Mount(d)
        PROVE  pc[d] \in {"off", "mounting"} /\ pc'[d] # pc[d]
    BY <1>1, <2>2 DEF StartBegins, Mount, Goto, IInv, TypeInv, ThreadTypes
  <2>3. ASSUME NEW d \in Daemons, StopAll(d) \/ Unmount(d) \/ HandleStopAll(d)
        PROVE  phase' \in {"stopping", "unmounted"}
    BY <2>3 DEF StopAll, Unmount, HandleStopAll
  <2>4. ASSUME NEW d \in Daemons,
               \/ RestoreOrAcquire(d) \/ RemoveSocketFile(d) \/ Bind(d) \/ BindFails(d)
               \/ ServerShutdown(d) \/ PersistRunningJobs(d) \/ ShutdownSkipped(d)
               \/ SaveOwnership(d) \/ Exit(d) \/ Crash(d) \/ Signal(d) \/ ClientConnects(d)
               \/ TakeKnock(d) \/ AnswerDummy(d) \/ HandleShutdown(d)
        PROVE  phase' = phase
    BY <2>4 DEF RestoreOrAcquire, RemoveSocketFile, Bind, BindFails, ServerShutdown,
         PersistRunningJobs, ShutdownSkipped, SaveOwnership, Exit, Crash, Signal,
         ClientConnects, TakeKnock, AnswerDummy, HandleShutdown, Gone, files
  <2>5. ASSUME NEW d \in Daemons, NEW b \in Beats, BeatBegins(d, b) \/ BeatSkipped(d, b)
        PROVE  phase' = phase
    BY <2>5 DEF BeatBegins, BeatSkipped, files
  <2>6. ASSUME NEW d \in Daemons, NEW from \in Agents, NEW silent \in BOOLEAN,
               AskPanics(d, from, silent)
        PROVE  phase' = phase
    BY <2>6 DEF AskPanics, files
  <2>7. ASSUME NEW d \in Daemons, NEW a \in Agents, HandleJobRequest(d, a)
        PROVE  phase' = phase
    BY <2>7 DEF HandleJobRequest, files
  <2>. QED  BY <1>1, <2>1, <2>2, <2>3, <2>4, <2>5, <2>6, <2>7
           DEF Next, MainStep, BeatStep, AcceptStep, Request, Environment
<1>2. IInv /\ [Next]_vars =>
        [~overlapped' /\ phase \in {"stopping", "unmounted"} /\ phase' # phase
           => \/ phase' \in {"stopping", "unmounted"}
              \/ \E d \in Daemons : pc[d] \in {"off", "mounting"} /\ pc'[d] # pc[d]]_vars
  BY <1>1
<1>. QED  BY Invariance, <1>2, PTL DEF Spec, StopIsNotUndone
=============================================================================
