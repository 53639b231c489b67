------------------------ MODULE JobLifecycle_proofs ------------------------
(***************************************************************************)
(* Proofs about the life of a job, for any number of jobs and agents, any   *)
(* behaviour of the providers, and (except for CancelIsFinal) across        *)
(* crashes at any point.                                                   *)
(***************************************************************************)
EXTENDS JobLifecycle, TLAPS

-----------------------------------------------------------------------------
(* The order of the job_store. *)

(* A job that is put at the end, new or not, leaves a total order. *)
LEMMA PutLastOrder ==
  ASSUME NEW sta, NEW old, NEW j \in Jobs, Order(old, Stored(sta))
  PROVE  Order(PutLast(sta, old, j), Stored(sta) \cup {j})
<1> DEFINE S == Stored(sta)
           T == S \cup {j}
           new == PutLast(sta, old, j)
<1>1. new \in [Jobs -> SUBSET T]
  BY DEF PutLast, Order
<1>2. \A k \in Jobs : new[k] = IF k = j THEN S \ {j} ELSE old[k] \ {j}
  BY DEF PutLast
<1>3. S \subseteq Jobs
  BY DEF Stored
<1>4. /\ \A k \in Jobs : old[k] # {} => k \in S
      /\ \A k \in S : k \notin old[k]
      /\ \A k, l \in S : k # l => (k \in old[l] <=> l \notin old[k])
      /\ \A k, l \in S : k \in old[l] => old[k] \subseteq old[l]
      /\ \A k \in Jobs : old[k] \subseteq S
  BY DEF Order
<1> HIDE DEF S, T, new
<1>5. ASSUME NEW k \in Jobs, new[k] # {}
      PROVE  k \in T
  <2>1. CASE k = j  BY <2>1 DEF T
  <2>2. CASE k # j
    <3>1. new[k] = old[k] \ {j} BY <1>2, <2>2
    <3> QED BY <3>1, <1>4, <1>5 DEF T
  <2> QED BY <2>1, <2>2
<1>6. ASSUME NEW k \in T
      PROVE  k \notin new[k]
  <2> k \in Jobs BY <1>3 DEF T
  <2>1. CASE k = j  BY <1>2, <2>1
  <2>2. CASE k # j
    <3>1. new[k] = old[k] \ {j} /\ k \in S BY <1>2, <2>2 DEF T
    <3> QED BY <3>1, <1>4
  <2> QED BY <2>1, <2>2
<1>7. ASSUME NEW k \in T, NEW l \in T, k # l
      PROVE  k \in new[l] <=> l \notin new[k]
  <2> k \in Jobs /\ l \in Jobs BY <1>3 DEF T
  <2>1. CASE k = j  BY <1>2, <1>7, <2>1 DEF T
  <2>2. CASE l = j  BY <1>2, <1>7, <2>2 DEF T
  <2>3. CASE k # j /\ l # j
    <3>1. k \in S /\ l \in S BY <2>3 DEF T
    <3>2. new[k] = old[k] \ {j} /\ new[l] = old[l] \ {j} BY <1>2, <2>3
    <3>3. k \in old[l] <=> l \notin old[k] BY <3>1, <1>4, <1>7
    <3> QED BY <3>2, <3>3, <2>3
  <2> QED BY <2>1, <2>2, <2>3
<1>8. ASSUME NEW k \in T, NEW l \in T, k \in new[l]
      PROVE  new[k] \subseteq new[l]
  <2>1. k \in Jobs /\ l \in Jobs BY <1>3 DEF T
  <2>2. k # j BY <1>2, <1>8, <2>1
  <2>3. new[k] = old[k] \ {j} /\ k \in S BY <1>2, <2>1, <2>2 DEF T
  <2>4. CASE l = j
    <3>1. new[l] = S \ {j} BY <1>2, <2>4
    <3> QED BY <3>1, <2>3, <2>1, <1>4
  <2>5. CASE l # j
    <3>1. new[l] = old[l] \ {j} /\ l \in S BY <1>2, <2>1, <2>5 DEF T
    <3>2. old[k] \subseteq old[l] BY <3>1, <2>3, <1>4, <1>8
    <3> QED BY <3>1, <3>2, <2>3
  <2> QED BY <2>4, <2>5
<1> QED BY <1>1, <1>5, <1>6, <1>7, <1>8 DEF Order, new, T, S

(* A part of an ordered job_store is ordered. *)
LEMMA RestrictOrder ==
  ASSUME NEW old, NEW S, NEW T, S \subseteq Jobs, T \subseteq S, Order(old, S)
  PROVE  Order(Only(T, old), T)
BY DEF Order, Only

LEMMA EmptyOrder == Order(Nothing, {})
BY DEF Order, Nothing

(* Statuses that change within the job_store do not change the job_store. *)
LEMMA StoredSame ==
  ASSUME NEW sta, NEW f, \A j \in Jobs : sta[j] \in {"new", "lost"} <=> f[j] \in {"new", "lost"}
  PROVE  Stored(f) = Stored(sta)
BY DEF Stored

LEMMA SetAllIs ==
  ASSUME NEW f, NEW S, NEW v
  PROVE  \A j \in Jobs : SetAll(f, S, v)[j] = IF j \in S THEN v ELSE f[j]
BY DEF SetAll

LEMMA PutNewOrder ==
  ASSUME JobStoreOK, NEW j \in Jobs, NEW f, Stored(f) = Stored(status) \cup {j}
  PROVE  Order(PutLast(status, older, j), Stored(f))
BY PutLastOrder DEF JobStoreOK

-----------------------------------------------------------------------------
(* The job_store is in order after every step. *)

LEMMA JobStoreStep ==
  ASSUME TypeOK, Next \/ Crash
  PROVE  JobStoreOK'
<1> USE DEF TypeOK, JobStoreOK, Statuses, Live, Waiting, Terminal
<1>1. ASSUME NEW j \in Jobs, Submit(j) PROVE JobStoreOK'
  <2>1. status' \in [Jobs -> Statuses]
    BY <1>1 DEF Submit, InitialStatus
  <2>2. Stored(status') = Stored(status) \cup {j}
    BY <1>1, <2>1 DEF Submit, InitialStatus, Stored
  <2> QED BY <1>1, <2>1, <2>2, PutNewOrder DEF Submit, NewJob
<1>2. ASSUME NEW j \in Jobs, Ask(j) PROVE JobStoreOK'
  <2>1. status' \in [Jobs -> Statuses]
    BY <1>2 DEF Ask
  <2>2. Stored(status') = Stored(status) \cup {j}
    BY <1>2, <2>1 DEF Ask, Stored
  <2> QED BY <1>2, <2>1, <2>2, PutNewOrder DEF Ask, NewJob
<1>3. ASSUME NEW j \in Jobs, NEW n \in Jobs, Retry(j, n) PROVE JobStoreOK'
  <2>1. status' \in [Jobs -> Statuses]
    BY <1>3 DEF Retry, InitialStatus
  <2>2. Stored(status') = Stored(status) \cup {n}
    BY <1>3, <2>1 DEF Retry, InitialStatus, Stored
  <2> QED BY <1>3, <2>1, <2>2, PutNewOrder DEF Retry
<1>4. ASSUME NEW j \in Jobs, Cancel(j) PROVE JobStoreOK'
  <2>1. CASE status' = status /\ older' = older
    BY <2>1 DEF Order, Stored
  <2>2. CASE /\ status[j] \in Live /\ older' = PutLast(status, older, j)
             /\ status' = [status EXCEPT ![j] = "cancelled"]
    <3>1. status' \in [Jobs -> Statuses] BY <2>2
    <3>2. Stored(status') = Stored(status) \cup {j} BY <2>2, <3>1 DEF Stored
    <3> QED BY <2>2, <3>1, <3>2, PutNewOrder
  <2> QED BY <1>4, <2>1, <2>2 DEF Cancel, UpdateJobStatus
<1>5. ASSUME NEW j \in Jobs, NEW n \in Jobs, Recover(j, n) PROVE JobStoreOK'
  <2> DEFINE gone == [status EXCEPT ![j] = "cancelled"]
             sta  == [gone EXCEPT ![n] = InitialStatus(AgentOf[n], gone)]
             go   == ToStart(sta, older')
  <2>1. /\ gone \in [Jobs -> Statuses] /\ sta \in [Jobs -> Statuses]
        /\ status' = SetAll(sta, go, "running") /\ j # n
        /\ older' = PutLast(gone, PutLast(status, older, j), n)
    BY <1>5 DEF Recover, InitialStatus
  <2>2. Stored(gone) = Stored(status) \cup {j}
    BY <1>5 DEF Recover, Stored
  <2>3. Order(PutLast(status, older, j), Stored(gone))
    BY <2>2, PutNewOrder
  <2>4. Order(older', Stored(gone) \cup {n})
    BY <2>1, <2>3, PutLastOrder
  <2>5. \A k \in go : sta[k] \in Waiting /\ k \in Jobs
    BY DEF ToStart, NextInQueue
  <2>6. Stored(sta) = Stored(gone) \cup {n}
    BY <2>1 DEF Stored, InitialStatus
  <2> HIDE DEF gone, sta, go
  <2>7. status' \in [Jobs -> Statuses]
    BY <2>1 DEF SetAll
  <2>8. \A k \in Jobs : status'[k] = IF k \in go THEN "running" ELSE sta[k]
    BY <2>1, SetAllIs
  <2>9. Stored(status') = Stored(sta)
    BY <2>5, <2>8 DEF Stored
  <2> QED BY <2>4, <2>6, <2>7, <2>9
<1>6. ASSUME HeartbeatTick PROVE JobStoreOK'
  <2>1. \A k \in ToStart(status, older) : status[k] \in Waiting /\ k \in Jobs
    BY DEF ToStart, NextInQueue
  <2>2. status' \in [Jobs -> Statuses]
    BY <1>6 DEF HeartbeatTick, SetAll
  <2>3. \A k \in Jobs : status'[k] = IF k \in ToStart(status, older)
                                     THEN "running" ELSE status[k]
    BY <1>6, SetAllIs DEF HeartbeatTick
  <2>4. Stored(status') = Stored(status)
    BY <2>1, <2>3 DEF Stored
  <2> QED BY <1>6, <2>2, <2>4 DEF HeartbeatTick
<1>7. ASSUME Poll PROVE JobStoreOK'
  BY <1>7 DEF Poll, Order, Stored
<1>8. ASSUME NEW j \in Jobs, Apply(j) PROVE JobStoreOK'
  <2>1. PICK s \in Terminal \cup {"running"} : status' = [status EXCEPT ![j] = s]
    BY <1>8 DEF Apply, UpdateJobStatus
  <2>2. j \in Stored(status) BY <1>8 DEF Apply, MemoryOK
  <2>3. status' \in [Jobs -> Statuses] BY <2>1
  <2>4. Stored(status') = Stored(status) BY <2>1, <2>2, <2>3 DEF Stored
  <2> QED BY <1>8, <2>3, <2>4 DEF Apply
<1>9. ASSUME HeartbeatTimeouts PROVE JobStoreOK'
  <2>1. status' \in [Jobs -> Statuses]
    BY <1>9 DEF HeartbeatTimeouts, SetAll
  <2>2. \A k \in Jobs : status'[k] = IF k \in silent THEN "ended" ELSE status[k]
    BY <1>9, SetAllIs DEF HeartbeatTimeouts
  <2>3. Stored(status') = Stored(status)
    BY <2>2 DEF Stored, MemoryOK
  <2> QED BY <1>9, <2>1, <2>3 DEF HeartbeatTimeouts
<1>10. ASSUME NEW j \in Jobs, FallSilent(j) PROVE JobStoreOK'
  BY <1>10 DEF FallSilent, Order, Stored
<1>11. ASSUME ForgetMemory PROVE JobStoreOK'
  <2>1. status' \in [Jobs -> Statuses]
    BY <1>11 DEF ForgetMemory, SetAll
  <2>2. \A k \in Jobs : status'[k] = IF k \in Stored(status) THEN "lost" ELSE status[k]
    BY <1>11, SetAllIs DEF ForgetMemory
  <2>3. Stored(status') = {}
    BY <2>2 DEF Stored
  <2> QED BY <1>11, <2>1, <2>3, EmptyOrder DEF ForgetMemory
<1>12. ASSUME Start PROVE JobStoreOK'
  <2> DEFINE back == Restorable(served')
  <2>1. status' \in [Jobs -> Statuses] /\ older' = Only(back, saved.older)
    BY <1>12 DEF Start, RestoreRunningJobs, Restorable, FilesOK
  <2>2. \A k \in Jobs : status[k] \in {"new", "lost"}
    BY <1>12 DEF Start, MemoryOK, Stored
  <2>3. \A k \in Jobs : status'[k] = IF k \in back THEN saved.status[k]
                               ELSE status[k]
    BY <1>12 DEF Start, RestoreRunningJobs
  <2>4. Stored(status') = back
    BY <2>2, <2>3 DEF Stored, Restorable
  <2>5. back \subseteq Stored(saved.status) /\ Stored(saved.status) \subseteq Jobs
    BY DEF Restorable, Stored
  <2>6. Order(older', back)
    BY <2>1, <2>5, RestrictOrder DEF FilesOK
  <2> QED BY <2>1, <2>4, <2>6
<1>13. ASSUME NEW a \in Agents, Reload(a) PROVE JobStoreOK'
  BY <1>13 DEF Reload, Order, Stored
<1> QED
  BY <1>1, <1>2, <1>3, <1>4, <1>5, <1>6, <1>7, <1>8, <1>9, <1>10, <1>11, <1>12, <1>13
     DEF Next, Serve, Request, Heartbeat, Shutdown, Crash

-----------------------------------------------------------------------------
(* Memory, files and history keep their types. *)

LEMMA MemoryStep ==
  ASSUME TypeOK, Next \/ Crash
  PROVE  MemoryOK'
<1> USE DEF TypeOK, JobStoreOK, MemoryOK, Statuses, Live, Waiting, Terminal, Stored, Nothing
<1>1. ASSUME NEW j \in Jobs, Submit(j) PROVE MemoryOK'
  BY <1>1 DEF Submit, NewJob, RequestsServed, InitialStatus
<1>2. ASSUME NEW j \in Jobs, Ask(j) PROVE MemoryOK'
  BY <1>2 DEF Ask, NewJob, RequestsServed, StartExecution, WithAdapter
<1>3. ASSUME NEW j \in Jobs, NEW n \in Jobs, Retry(j, n) PROVE MemoryOK'
  BY <1>3 DEF Retry, RequestsServed, InitialStatus
<1>4. ASSUME NEW j \in Jobs, Cancel(j) PROVE MemoryOK'
  <2>1. \/ status' = status /\ silent' = silent
        \/ /\ status' = [status EXCEPT ![j] = "cancelled"] /\ silent' = silent \ {j}
    BY <1>4 DEF Cancel, UpdateJobStatus
  <2> QED BY <1>4, <2>1 DEF Cancel, CancelExecution, RequestsServed
<1>5. ASSUME NEW j \in Jobs, NEW n \in Jobs, Recover(j, n) PROVE MemoryOK'
  <2>1. \A k \in Jobs : /\ k \in Stored(status) => status'[k] \notin {"new", "lost"}
                        /\ k # j /\ status[k] = "running" => status'[k] = "running"
    BY <1>5 DEF Recover, SetAll
  <2> QED BY <1>5, <2>1 DEF Recover, RequestsServed
<1>6. ASSUME HeartbeatTick PROVE MemoryOK'
  <2>1. \A k \in Jobs : /\ status[k] \notin {"new", "lost"} => status'[k] \notin {"new", "lost"}
                        /\ status[k] = "running" => status'[k] = "running"
    BY <1>6 DEF HeartbeatTick, SetAll
  <2>2. \A k \in ToStart(status, older) : k \in Jobs /\ status'[k] = "running"
    BY <1>6 DEF HeartbeatTick, SetAll, ToStart
  <2> QED BY <1>6, <2>1, <2>2 DEF HeartbeatTick, RequestsServed, StartExecution, WithAdapter
<1>7. ASSUME Poll PROVE MemoryOK'
  <2>1. active' \subseteq active /\ UNCHANGED <<up, status, silent>>
    BY <1>7 DEF Poll
  <2>2. replay' \in [Jobs -> SUBSET Payload] /\ \A k \in Jobs : replay'[k] \subseteq replay[k]
    BY <1>7 DEF Poll, DrainPendingReplays
  <2>3. /\ updates' \in [Jobs -> SUBSET Payload]
        /\ \A k \in Jobs : updates'[k] # {} => replay[k] # {} \/ k \in active
    BY <1>7 DEF Poll
  <2> QED BY <1>7, <2>1, <2>2, <2>3 DEF Poll
<1>8. ASSUME NEW j \in Jobs, Apply(j) PROVE MemoryOK'
  <2>1. PICK s \in Terminal \cup {"running"} :
          status' = [status EXCEPT ![j] = s] /\ silent' = silent \ {j}
    BY <1>8 DEF Apply, UpdateJobStatus
  <2> QED BY <1>8, <2>1 DEF Apply
<1>9. ASSUME HeartbeatTimeouts PROVE MemoryOK'
  BY <1>9 DEF HeartbeatTimeouts, SetAll
<1>10. ASSUME NEW j \in Jobs, FallSilent(j) PROVE MemoryOK'
  BY <1>10 DEF FallSilent, RequestsServed
<1>11. ASSUME ForgetMemory PROVE MemoryOK'
  BY <1>11 DEF ForgetMemory, SetAll
<1>12. ASSUME Start PROVE MemoryOK'
  <2> DEFINE running == {k \in Restorable(served') : saved.status[k] = "running"}
  <2>1. \A k \in running : k \in Jobs /\ status'[k] = "running"
    BY <1>12 DEF Start, RestoreRunningJobs, Restorable
  <2>2. active' \subseteq running
    BY <1>12 DEF Start, RestoreSubmissions, WithAdapter
  <2>3. /\ replay' \in [Jobs -> SUBSET Payload]
        /\ \A k \in Jobs : replay'[k] # {} => k \in running
    BY <1>12 DEF Start, RestoreSubmissions, WithAdapter
  <2>4. silent = {} /\ updates = Nothing /\ phase' = "idle"
    BY <1>12 DEF Start
  <2> QED BY <1>12, <2>1, <2>2, <2>3, <2>4 DEF Start
<1>13. ASSUME NEW a \in Agents, Reload(a) PROVE MemoryOK'
  BY <1>13 DEF Reload, AddAgent, RemoveAgent, RequestsServed
<1> QED
  BY <1>1, <1>2, <1>3, <1>4, <1>5, <1>6, <1>7, <1>8, <1>9, <1>10, <1>11, <1>12, <1>13
     DEF Next, Serve, Request, Heartbeat, Shutdown, Crash

LEMMA RecordTerminalType ==
  ASSUME NEW S, replies \in [Jobs -> 0..MaxReplies], RecordTerminal(S)
  PROVE  replies' \in [Jobs -> 0..MaxReplies]
BY LifecycleAssumption DEF RecordTerminal

LEMMA FilesStep ==
  ASSUME TypeOK, Next \/ Crash
  PROVE  FilesOK'
<1> USE DEF TypeOK, FilesOK
<1>1. ASSUME NEW j \in Jobs, Submit(j) PROVE FilesOK'
  BY <1>1 DEF Submit, NewJob, Order, Stored
<1>2. ASSUME NEW j \in Jobs, Ask(j) PROVE FilesOK'
  BY <1>2 DEF Ask, NewJob, StartExecution, SetAll, Persisted, Order, Stored
<1>3. ASSUME NEW j \in Jobs, NEW n \in Jobs, Retry(j, n) PROVE FilesOK'
  BY <1>3 DEF Retry, files, Order, Stored
<1>4. ASSUME NEW j \in Jobs, Cancel(j) PROVE FilesOK'
  <2>1. replies' \in [Jobs -> 0..MaxReplies]
    BY <1>4, RecordTerminalType DEF Cancel
  <2> QED BY <1>4, <2>1 DEF Cancel, CancelExecution, Order, Stored
<1>5. ASSUME NEW j \in Jobs, NEW n \in Jobs, Recover(j, n) PROVE FilesOK'
  BY <1>5 DEF Recover, files, Order, Stored
<1>6. ASSUME HeartbeatTick PROVE FilesOK'
  BY <1>6 DEF HeartbeatTick, StartExecution, SetAll, Persisted, Order, Stored
<1>7. ASSUME Poll PROVE FilesOK'
  <2>1. disk' \in [Jobs -> SUBSET (Payload \cup {"state"})]
    BY <1>7 DEF Poll, Persisted
  <2> QED BY <1>7, <2>1 DEF Poll, Order, Stored
<1>8. ASSUME NEW j \in Jobs, Apply(j) PROVE FilesOK'
  <2>1. replies' \in [Jobs -> 0..MaxReplies]
    BY <1>8, RecordTerminalType DEF Apply
  <2> QED BY <1>8, <2>1 DEF Apply, Order, Stored
<1>9. ASSUME HeartbeatTimeouts PROVE FilesOK'
  <2>1. replies' \in [Jobs -> 0..MaxReplies]
    BY <1>9, RecordTerminalType DEF HeartbeatTimeouts
  <2> QED BY <1>9, <2>1 DEF HeartbeatTimeouts, Order, Stored
<1>10. ASSUME NEW j \in Jobs, FallSilent(j) PROVE FilesOK'
  BY <1>10 DEF FallSilent, files, Order, Stored
<1>11. ASSUME Crash PROVE FilesOK'
  BY <1>11 DEF Crash, ForgetMemory, Order, Stored
<1>12. ASSUME Shutdown PROVE FilesOK'
  <2> DEFINE live == {j \in Jobs : status[j] \in Live}
  <2>1. /\ saved'.status = [j \in Jobs |-> IF j \in live THEN status[j] ELSE "lost"]
        /\ saved'.older = Only(live, older)
    BY <1>12 DEF Shutdown, Unfinished
  <2>2. saved'.status \in [Jobs -> Live \cup {"lost"}] BY <2>1
  <2>3. Stored(saved'.status) = live BY <2>1 DEF Stored, Live, Waiting
  <2>4. live \subseteq Stored(status) /\ Stored(status) \subseteq Jobs
    BY DEF Stored, Live, Waiting
  <2>5. Order(saved'.older, live)
    BY <2>1, <2>4, RestrictOrder DEF JobStoreOK
  <2> QED BY <1>12, <2>2, <2>3, <2>5 DEF Shutdown, ForgetMemory
<1>13. ASSUME Start PROVE FilesOK'
  <2>1. disk' \in [Jobs -> SUBSET (Payload \cup {"state"})]
    BY <1>13 DEF Start, RestoreSubmissions, SetAll
  <2> QED BY <1>13, <2>1 DEF Start, Order, Stored
<1>14. ASSUME NEW a \in Agents, Reload(a) PROVE FilesOK'
  BY <1>14 DEF Reload, files, Order, Stored
<1> QED
  BY <1>1, <1>2, <1>3, <1>4, <1>5, <1>6, <1>7, <1>8, <1>9, <1>10, <1>11, <1>12, <1>13, <1>14
     DEF Next, Serve, Request, Heartbeat

LEMMA HistoryStep ==
  ASSUME TypeOK, Next \/ Crash
  PROVE  HistoryOK'
<1> USE DEF TypeOK, HistoryOK
<1>1. ASSUME Poll PROVE HistoryOK'
  <2>1. emitted' \in [Jobs -> 0..MaxBatches]
    BY <1>1, LifecycleAssumption DEF Poll
  <2> QED BY <1>1, <2>1 DEF Poll
<1>2. ASSUME NEW j \in Jobs, Cancel(j) PROVE HistoryOK'
  BY <1>2 DEF Cancel
<1>3. ASSUME NEW j \in Jobs, NEW n \in Jobs, Recover(j, n) PROVE HistoryOK'
  BY <1>3 DEF Recover
<1>4. ASSUME ForgetMemory PROVE HistoryOK'
  BY <1>4 DEF ForgetMemory
<1>5. ASSUME UNCHANGED history PROVE HistoryOK'
  BY <1>5 DEF history
<1> QED
  BY <1>1, <1>2, <1>3, <1>4, <1>5
     DEF Next, Serve, Request, Heartbeat, Crash, Shutdown, Submit, Ask, Retry,
         HeartbeatTick, Apply, HeartbeatTimeouts, FallSilent, Reload, Start

LEMMA TypeInit == Init => TypeOK
<1> SUFFICES ASSUME Init PROVE TypeOK
  OBVIOUS
<1>1. Stored(status) = {} /\ Stored(saved.status) = {}
  BY DEF Init, Stored, NoneSaved
<1>2. JobStoreOK
  BY <1>1, EmptyOrder DEF JobStoreOK, Init, Statuses
<1>3. MemoryOK
  BY <1>1 DEF MemoryOK, Init, Nothing
<1>4. FilesOK
  <2>1. /\ disk = Nothing /\ attempts = {} /\ replies = [j \in Jobs |-> 0]
        /\ saved = [status |-> [j \in Jobs |-> "lost"], older |-> Nothing]
    BY DEF Init, NoneSaved
  <2> QED BY <1>1, <2>1, EmptyOrder, LifecycleAssumption DEF FilesOK, Nothing
<1>5. HistoryOK
  BY LifecycleAssumption DEF HistoryOK, Init
<1> QED BY <1>2, <1>3, <1>4, <1>5 DEF TypeOK

LEMMA TypeStep == TypeOK /\ [Next \/ Crash]_vars => TypeOK'
<1>1. TypeOK /\ (Next \/ Crash) => TypeOK'
  BY JobStoreStep, MemoryStep, FilesStep, HistoryStep DEF TypeOK
<1>2. TypeOK /\ UNCHANGED vars => TypeOK'
  BY DEF vars, memory, files, history, TypeOK, JobStoreOK, MemoryOK, FilesOK, HistoryOK,
         Order, Stored
<1> QED BY <1>1, <1>2

(* Type correctness across crashes: in particular the job_store, moved      *)
(* around by appends, cancels and recoveries, saved and restored, stays a   *)
(* total order, so that every agent has one next job.                      *)
THEOREM TypeCorrect == CrashSpec => []TypeOK
<1> QED BY TypeInit, TypeStep, PTL DEF CrashSpec

-----------------------------------------------------------------------------
(* Every job that is polled has a state on disk.  A file with a result but  *)
(* without a state would be resumed as well, so there must be none.        *)

DiskHasState == \A j \in Jobs : disk[j] # {} => "state" \in disk[j]
PersistInv   == DiskHasState /\ ActiveIsPersisted

LEMMA PersistStep ==
  ASSUME TypeOK, PersistInv, Next \/ Crash
  PROVE  PersistInv'
<1> USE DEF PersistInv, DiskHasState, ActiveIsPersisted
<1>0. /\ disk \in [Jobs -> SUBSET (Payload \cup {"state"})] /\ active \subseteq Jobs
      /\ replay \in [Jobs -> SUBSET Payload]
  BY DEF TypeOK, FilesOK, MemoryOK, Stored
<1>1. ASSUME NEW S \in SUBSET Jobs, StartExecution(S) PROVE PersistInv'
  BY <1>0, <1>1 DEF StartExecution, WithAdapter, SetAll, Persisted
<1>2. ASSUME NEW j \in Jobs, CancelExecution(j) PROVE PersistInv'
  BY <1>0, <1>2 DEF CancelExecution
<1>3. ASSUME Poll PROVE PersistInv'
  <2>1. \A j \in Jobs : disk'[j] = disk[j] \/ "state" \in disk'[j]
    BY <1>0, <1>3 DEF Poll, Persisted
  <2>2. active' \subseteq active
    BY <1>3 DEF Poll
  <2> QED BY <1>0, <2>1, <2>2
<1>4. ASSUME ForgetMemory PROVE PersistInv'
  BY <1>4 DEF ForgetMemory
<1>5. ASSUME Start PROVE PersistInv'
  BY <1>0, <1>5 DEF Start, RestoreSubmissions, WithAdapter, SetAll, Restorable
<1>6. ASSUME UNCHANGED <<active, disk>> PROVE PersistInv'
  BY <1>6
<1>7. ToStart(status, older) \subseteq Jobs
  BY DEF ToStart
<1> QED
  BY <1>1, <1>2, <1>3, <1>4, <1>5, <1>6, <1>7
     DEF Next, Serve, Request, Heartbeat, Shutdown, Crash, files, Submit, Ask, Retry,
         Cancel, Recover, HeartbeatTick, Apply, HeartbeatTimeouts, FallSilent, Reload

(* Whatever is polled can be resumed, wherever the daemon is killed. *)
THEOREM PolledIsPersisted == CrashSpec => []ActiveIsPersisted
<1>1. Init => PersistInv
  BY DEF Init, Nothing, PersistInv, DiskHasState, ActiveIsPersisted
<1>2. TypeOK /\ PersistInv /\ [Next \/ Crash]_vars => PersistInv'
  <2>1. PersistInv /\ UNCHANGED vars => PersistInv'
    BY DEF vars, memory, files, PersistInv, DiskHasState, ActiveIsPersisted
  <2> QED BY <2>1, PersistStep
<1>3. PersistInv => ActiveIsPersisted
  BY DEF PersistInv
<1> QED BY <1>1, <1>2, <1>3, TypeCorrect, PTL DEF CrashSpec

-----------------------------------------------------------------------------
(* No job ends silently.  With the types this is inductive: the reply is    *)
(* recorded in the step that ends the job.                                 *)

LEMMA RecordTerminalReplies ==
  ASSUME TypeOK, NEW S, RecordTerminal(S)
  PROVE  \A j \in Jobs : /\ replies[j] > 0 => replies'[j] > 0
                         /\ j \in S \cap attempts => replies'[j] > 0
<1>1. replies \in [Jobs -> 0..MaxReplies] /\ MaxReplies \in Nat \ {0}
  BY LifecycleAssumption DEF TypeOK, FilesOK
<1> QED BY <1>1 DEF RecordTerminal

LEMMA SilentStep ==
  ASSUME TypeOK, NoSilentEnd, Next \/ Crash
  PROVE  NoSilentEnd'
<1> USE DEF NoSilentEnd, Terminal
<1>0. /\ attempts \subseteq Jobs /\ status \in [Jobs -> Statuses]
      /\ saved.status \in [Jobs -> Live \cup {"lost"}]
  BY DEF TypeOK, FilesOK, JobStoreOK
<1>1. ASSUME NEW j \in Jobs, Submit(j) PROVE NoSilentEnd'
  BY <1>0, <1>1 DEF Submit, NewJob, InitialStatus, history
<1>2. ASSUME NEW j \in Jobs, Ask(j) PROVE NoSilentEnd'
  BY <1>0, <1>2 DEF Ask, NewJob, history
<1>3. ASSUME NEW j \in Jobs, NEW n \in Jobs, Retry(j, n) PROVE NoSilentEnd'
  BY <1>0, <1>3 DEF Retry, InitialStatus, history, files
<1>4. ASSUME NEW j \in Jobs, Cancel(j) PROVE NoSilentEnd'
  <2>1. \A k \in Jobs : k # j => status'[k] = status[k]
    BY <1>0, <1>4 DEF Cancel, UpdateJobStatus
  <2>2. \/ status' = status /\ replies' = replies
        \/ RecordTerminal({j})
    BY <1>4 DEF Cancel
  <2>3. CASE status' = status /\ replies' = replies
    BY <1>0, <1>4, <2>3 DEF Cancel
  <2>4. CASE RecordTerminal({j})
    BY <1>0, <1>4, <2>1, <2>4, RecordTerminalReplies DEF Cancel
  <2> QED BY <2>2, <2>3, <2>4
<1>5. ASSUME NEW j \in Jobs, NEW n \in Jobs, Recover(j, n) PROVE NoSilentEnd'
  <2>1. \A k \in Jobs : k # j /\ status'[k] \in Terminal => status'[k] = status[k]
    BY <1>0, <1>5 DEF Recover, SetAll, InitialStatus
  <2> QED BY <1>0, <1>5, <2>1 DEF Recover, files
<1>6. ASSUME HeartbeatTick PROVE NoSilentEnd'
  BY <1>0, <1>6 DEF HeartbeatTick, SetAll, history
<1>7. ASSUME Poll PROVE NoSilentEnd'
  BY <1>7 DEF Poll
<1>8. ASSUME NEW j \in Jobs, Apply(j) PROVE NoSilentEnd'
  <2>1. \A k \in Jobs : k # j => status'[k] = status[k]
    BY <1>0, <1>8 DEF Apply, UpdateJobStatus
  <2>2. CASE RecordTerminal({j})
    BY <1>0, <1>8, <2>1, <2>2, RecordTerminalReplies DEF Apply, history
  <2>3. CASE UpdateJobStatus(j, "running") /\ replies' = replies
    BY <1>0, <1>8, <2>3 DEF Apply, UpdateJobStatus, history
  <2> QED BY <1>8, <2>2, <2>3 DEF Apply
<1>9. ASSUME HeartbeatTimeouts PROVE NoSilentEnd'
  <2>1. \A k \in Jobs : k \notin silent => status'[k] = status[k]
    BY <1>9 DEF HeartbeatTimeouts, SetAll
  <2> QED BY <1>0, <1>9, <2>1, RecordTerminalReplies DEF HeartbeatTimeouts, history
<1>10. ASSUME NEW j \in Jobs, FallSilent(j) PROVE NoSilentEnd'
  BY <1>10 DEF FallSilent, files, history
<1>11. ASSUME ForgetMemory PROVE NoSilentEnd'
  BY <1>0, <1>11 DEF ForgetMemory, SetAll, Stored, Statuses
<1>12. ASSUME Start PROVE NoSilentEnd'
  BY <1>0, <1>12 DEF Start, RestoreRunningJobs, Restorable, history, Live, Waiting
<1>13. ASSUME NEW a \in Agents, Reload(a) PROVE NoSilentEnd'
  BY <1>13 DEF Reload, files, history
<1> QED
  BY <1>1, <1>2, <1>3, <1>4, <1>5, <1>6, <1>7, <1>8, <1>9, <1>10, <1>11, <1>12, <1>13
     DEF Next, Serve, Request, Heartbeat, Shutdown, Crash

(* A job that was submitted and is over has a reply, also when the daemon   *)
(* was killed in between; comms_recover is the exception.                  *)
THEOREM NoJobEndsSilently == CrashSpec => []NoSilentEnd
<1>1. Init => NoSilentEnd
  BY DEF Init, NoSilentEnd
<1>2. TypeOK /\ NoSilentEnd /\ [Next \/ Crash]_vars => NoSilentEnd'
  <2>1. NoSilentEnd /\ UNCHANGED vars => NoSilentEnd'
    BY DEF vars, memory, files, history, NoSilentEnd
  <2> QED BY <2>1, SilentStep
<1> QED BY <1>1, <1>2, TypeCorrect, PTL DEF CrashSpec

-----------------------------------------------------------------------------
(* Without crashes running-jobs.json is what the last shutdown wrote, and    *)
(* while the daemon is down it names no job that is over.                  *)

Over(j) == saved.status[j] = "lost"
Dropped(j) == j \notin active /\ replay[j] = {} /\ updates[j] = {}
CancelInv ==
  /\ \A j \in cancelled : status[j] \in {"cancelled", "lost"} /\ Dropped(j)
  /\ ~up => \A j \in cancelled \cup finished : Over(j)

LEMMA CancelStep ==
  ASSUME TypeOK, CancelInv, Next
  PROVE  CancelInv'
<1> USE DEF CancelInv, Dropped, Over
<1>0. /\ cancelled \subseteq Jobs /\ finished \subseteq Jobs /\ status \in [Jobs -> Statuses]
      /\ replay \in [Jobs -> SUBSET Payload] /\ updates \in [Jobs -> SUBSET Payload]
      /\ disk \in [Jobs -> SUBSET (Payload \cup {"state"})]
      /\ phase = "idle" => updates = Nothing
      /\ \A j \in Jobs : j \in active => status[j] \notin {"new", "lost"}
      /\ \A j \in Jobs : replay[j] # {} \/ updates[j] # {} => status[j] \notin {"new", "lost"}
      /\ silent \subseteq {j \in Jobs : status[j] = "running"}
  BY DEF TypeOK, FilesOK, MemoryOK, HistoryOK, JobStoreOK, Stored
<1>1. ASSUME NEW j \in Jobs, Submit(j) PROVE CancelInv'
  BY <1>0, <1>1 DEF Submit, NewJob, InitialStatus, history, RequestsServed
<1>2. ASSUME NEW j \in Jobs, Ask(j) PROVE CancelInv'
  BY <1>0, <1>2 DEF Ask, NewJob, history, StartExecution, WithAdapter, RequestsServed
<1>3. ASSUME NEW j \in Jobs, NEW n \in Jobs, Retry(j, n) PROVE CancelInv'
  BY <1>0, <1>3 DEF Retry, InitialStatus, history, files, RequestsServed
<1>4. ASSUME NEW j \in Jobs, Cancel(j) PROVE CancelInv'
  <2>1. up' /\ cancelled' \subseteq cancelled \cup {j}
    BY <1>4 DEF Cancel, RequestsServed
  <2>2. \A k \in Jobs : /\ k # j => status'[k] = status[k]
                        /\ active' \subseteq active \ {j}
                        /\ replay'[k] = IF k = j THEN {} ELSE replay[k]
                        /\ updates'[k] = updates[k]
    BY <1>0, <1>4 DEF Cancel, CancelExecution, UpdateJobStatus
  <2>3. updates[j] = {}
    BY <1>0, <1>4 DEF Cancel, RequestsServed, Nothing
  <2>4. j \in cancelled' => status'[j] \in {"cancelled", "lost"}
    BY <1>0, <1>4 DEF Cancel, UpdateJobStatus
  <2> QED BY <1>0, <2>1, <2>2, <2>3, <2>4
<1>5. ASSUME NEW j \in Jobs, NEW n \in Jobs, Recover(j, n) PROVE CancelInv'
  <2>1. n \notin cancelled /\ j \notin cancelled
    BY <1>0, <1>5 DEF Recover
  <2>2. \A k \in Jobs : k \notin {j, n} /\ status[k] \in {"cancelled", "lost"}
                        => status'[k] = status[k]
    BY <1>0, <1>5 DEF Recover, SetAll, ToStart, NextInQueue, Waiting
  <2> QED BY <1>0, <1>5, <2>1, <2>2 DEF Recover, RequestsServed
<1>6. ASSUME HeartbeatTick PROVE CancelInv'
  <2>1. \A k \in ToStart(status, older) : status[k] \in Waiting
    BY DEF ToStart, NextInQueue
  <2> QED BY <1>0, <1>6, <2>1 DEF HeartbeatTick, SetAll, history, StartExecution, WithAdapter,
                                  RequestsServed, Waiting
<1>7. ASSUME Poll PROVE CancelInv'
  <2>1. \A k \in Jobs : /\ replay'[k] \subseteq replay[k]
                        /\ updates'[k] # {} => replay[k] # {} \/ k \in active
    BY <1>0, <1>7 DEF Poll, DrainPendingReplays
  <2>2. active' \subseteq active /\ UNCHANGED <<status, cancelled, finished, up, saved>>
    BY <1>7 DEF Poll
  <2> QED BY <1>0, <2>1, <2>2
<1>8. ASSUME NEW j \in Jobs, Apply(j) PROVE CancelInv'
  <2>1. j \notin cancelled
    BY <1>8 DEF Apply
  <2>2. \A k \in Jobs : k # j => status'[k] = status[k] /\ updates'[k] = updates[k]
    BY <1>0, <1>8 DEF Apply, UpdateJobStatus
  <2> QED BY <1>0, <1>8, <2>1, <2>2 DEF Apply, history
<1>9. ASSUME HeartbeatTimeouts PROVE CancelInv'
  BY <1>0, <1>9 DEF HeartbeatTimeouts, SetAll, history
<1>10. ASSUME NEW j \in Jobs, FallSilent(j) PROVE CancelInv'
  BY <1>10 DEF FallSilent, files, history
<1>11. ASSUME Shutdown PROVE CancelInv'
  <2>1. \A k \in Jobs : status[k] \notin Live => saved'.status[k] = "lost"
    BY <1>11 DEF Shutdown, Unfinished
  <2>2. \A k \in Jobs : /\ status[k] \in {"cancelled", "lost"} => status'[k] = "lost"
                        /\ replay'[k] = {} /\ updates'[k] = {} /\ k \notin active'
    BY <1>0, <1>11 DEF Shutdown, ForgetMemory, SetAll, Stored, Nothing
  <2>3. \A k \in cancelled' \cup finished' : k \in Jobs /\ status[k] \notin Live
    BY <1>0, <1>11 DEF Shutdown, ForgetMemory, Live, Waiting, Terminal
  <2>4. cancelled' = cancelled
    BY <1>11 DEF Shutdown, ForgetMemory
  <2> QED BY <1>0, <2>1, <2>2, <2>3, <2>4
<1>12. ASSUME Start PROVE CancelInv'
  <2>1. \A k \in Jobs : Over(k) => status'[k] = status[k] /\ k \notin active' /\ replay'[k] = {}
    BY <1>0, <1>12 DEF Start, RestoreRunningJobs, Restorable, RestoreSubmissions, WithAdapter,
                       Live, Waiting
  <2> QED BY <1>0, <1>12, <2>1 DEF Start, history
<1>13. ASSUME NEW a \in Agents, Reload(a) PROVE CancelInv'
  BY <1>13 DEF Reload, files, history, RequestsServed
<1> QED
  BY <1>1, <1>2, <1>3, <1>4, <1>5, <1>6, <1>7, <1>8, <1>9, <1>10, <1>11, <1>12, <1>13
     DEF Next, Serve, Request, Heartbeat

LEMMA CancelAlways == Spec => [](TypeOK /\ CancelInv)
<1>1. Init => CancelInv
  BY DEF Init, CancelInv
<1>2. TypeOK /\ CancelInv /\ [Next]_vars => CancelInv'
  <2>1. CancelInv /\ UNCHANGED vars => CancelInv'
    BY DEF vars, memory, files, history, CancelInv, Dropped, Over
  <2> QED BY <2>1, CancelStep
<1>3. [Next]_vars => [Next \/ Crash]_vars
  OBVIOUS
<1> QED BY <1>1, <1>2, <1>3, TypeInit, TypeStep, PTL DEF Spec

(* A cancel that was answered is final as long as the daemon is stopped in   *)
(* an orderly way.                                                         *)
THEOREM CancelFinal == Spec => []CancelIsFinal
<1>1. CancelInv => CancelIsFinal
  BY DEF CancelInv, CancelIsFinal
<1> QED BY <1>1, CancelAlways, PTL

(* An orderly restart brings back only jobs that were not finished. *)
THEOREM OrderlyRestore == Spec => RestoresOnlyUnfinished
<1>1. ASSUME TypeOK, CancelInv, [Next]_vars, ~up, up'
      PROVE  \A j \in finished : status'[j] \notin Live
  <2>1. Start
    BY <1>1 DEF Next, Serve, Request, Heartbeat, Shutdown, ForgetMemory, Submit, Ask, Retry,
                Cancel, Recover, HeartbeatTick, Poll, Apply, HeartbeatTimeouts, FallSilent,
                Reload, RequestsServed, vars, memory
  <2>2. \A j \in Jobs : status[j] \in {"new", "lost"}
    BY <1>1 DEF TypeOK, MemoryOK, Stored
  <2>3. \A j \in finished : j \in Jobs /\ saved.status[j] = "lost"
    BY <1>1 DEF CancelInv, Over, TypeOK, HistoryOK
  <2> QED BY <2>1, <2>2, <2>3 DEF Start, RestoreRunningJobs, Restorable, Live, Waiting
<1> QED BY <1>1, CancelAlways, PTL DEF RestoresOnlyUnfinished, Spec

=============================================================================
