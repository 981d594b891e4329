--------------------------- MODULE JobRunnerProofs ---------------------------
(***************************************************************************)
(* Proofs about JobRunner for any number of jobs and documents, any caps,  *)
(* any number of restarts and any number of failing writes.                *)
(***************************************************************************)
EXTENDS JobRunner, FiniteSetTheorems, SequenceTheorems, TLAPS

-----------------------------------------------------------------------------
(* The inductive invariant.  It says what each holder of a job knows about   *)
(* the record it will write later, which is what makes the late writes safe. *)

\* The job whose snapshot is copied is still queued when the copy is ready.
PreparedQueued ==
    preparing # NoJob =>
        /\ preparing \in Spawned
        /\ status[preparing] = "queued"
        /\ holder # "free"

\* A monitor's record is running, and its child is gone when it settles.
MonitorKnows(j) ==
    monitor[j] # "none" =>
        /\ j \in Spawned
        /\ status[j] = "running"
        /\ monitor[j] = "draining" => child[j] = "exited"
        /\ monitor[j] = "expired" => child[j] \in {"exited", "stuck"}

\* A worker's record is running, or the worker will look at it again.
WorkerKnows(j) ==
    worker[j] # "none" =>
        /\ j \in Local
        /\ worker[j] = "waiting" => status[j] \in {"queued", "canceled"}
        /\ worker[j] = "executing" => status[j] = "running"

\* A child that may be working belongs to a running record or to the past.
ChildKnown(j) ==
    /\ jobBoot[j] <= boot
    /\ child[j] # "none" => j \in Spawned
    /\ Live(j) /\ jobBoot[j] = boot => status[j] = "running"

IInv ==
    /\ TypeOK
    /\ PreparedQueued
    /\ \A j \in Job : MonitorKnows(j)
    /\ \A j \in Job : WorkerKnows(j)
    /\ \A j \in Job : ChildKnown(j)
    /\ OneActivePerDocument
    /\ CancelWins
    /\ RunningOwned

-----------------------------------------------------------------------------

\* Canceling a queued job leaves a queue.
LEMMA RemovedType ==
    ASSUME NEW q \in Seq(Job), NEW j \in Job
    PROVE  Removed(q, j) \in Seq(Job)
<1>1. CASE \E i \in 1..Len(q) : q[i] = j
  <2> DEFINE n == CHOOSE i \in 1..Len(q) : q[i] = j
  <2>1. n \in 1..Len(q)
    BY <1>1
  <2>. Len(q) \in Nat /\ \A i \in 1..Len(q) : q[i] \in Job
    OBVIOUS
  <2>. HIDE DEF n
  <2>2. SubSeq(q, 1, n - 1) \in Seq(Job)
    <3>1. \A i \in 1..(n - 1) : q[i] \in Job
      BY <2>1
    <3>. QED
      BY <2>1, <3>1, SubSeqProperties
  <2>3. SubSeq(q, n + 1, Len(q)) \in Seq(Job)
    <3>1. \A i \in (n + 1)..Len(q) : q[i] \in Job
      BY <2>1
    <3>. QED
      BY <2>1, <3>1, SubSeqProperties
  <2>4. SubSeq(q, 1, n - 1) \o SubSeq(q, n + 1, Len(q)) \in Seq(Job)
    BY <2>2, <2>3, ConcatProperties
  <2>. QED
    BY <1>1, <2>4 DEF Removed, n
<1>2. CASE ~ \E i \in 1..Len(q) : q[i] = j
  BY <1>2 DEF Removed
<1>. QED
  BY <1>1, <1>2

\* What pop_queued leaves is a queue, and what it takes is a queued job.
LEMMA PopType ==
    ASSUME queue \in Seq(Job), NEW j \in Job, Pop(j)
    PROVE  queue' \in Seq(Job) /\ status[j] = "queued" /\ holder # "free"
<1>1. PICK i \in 1..Len(queue) : Popped(j, i) /\ queue' = SubSeq(queue, i + 1, Len(queue))
  BY DEF Pop
<1>2. \A k \in (i + 1)..Len(queue) : queue[k] \in Job
  OBVIOUS
<1>3. queue' \in Seq(Job)
  BY <1>1, <1>2, SubSeqProperties
<1>. QED
  BY <1>1, <1>3 DEF Pop, Popped

\* A job has a process or a worker of the server, never both.
LEMMA Disjoint == Spawned \cap Local = {}
  BY DEF Spawned, Local, SpawnScope, LocalScope

\* A server that starts with an empty registry.
LEMMA InitInv == Init => IInv
<1> SUFFICES ASSUME Init PROVE IInv
  OBVIOUS
<1> USE ConstantsAssumption DEF Init
<1>1. TypeOK
  BY DEF TypeOK
<1>. QED
  BY <1>1 DEF IInv, PreparedQueued, MonitorKnows, WorkerKnows, ChildKnown, Live, Active,
      ActiveStatus,
     OneActivePerDocument, CancelWins, RunningOwned

\* JobRunner.submit creates the only active record of its document.
LEMMA SubmitInv ==
    ASSUME IInv, NEW j \in Job, Submit(j) PROVE IInv'
<1> USE ConstantsAssumption DEF Submit, IInv, TypeOK, registryVars, pumpVars, taskVars,
    serverVars, Admit, Busy
<1>1. TypeOK'
  <2>1. status' \in [Job -> {"none"} \cup ActiveStatus \cup TerminalStatus]
    BY DEF ActiveStatus, TerminalStatus
  <2>2. pumps' \in [PumpCaller -> Nat]
    BY DEF PumpCaller
  <2>3. queue' \in Seq(Job)
    BY AppendProperties
  <2>. QED
    BY <2>1, <2>2, <2>3
<1>2. PreparedQueued' /\ CancelWins' /\ RunningOwned'
  BY DEF PreparedQueued, CancelWins, RunningOwned, MonitorKnows, WorkerKnows, Spawned,
      Local, SpawnScope, LocalScope, Monitored, Active, ActiveStatus
<1>3. ASSUME NEW k \in Job PROVE MonitorKnows(k)' /\ WorkerKnows(k)'
  BY DEF PreparedQueued, MonitorKnows, WorkerKnows, Spawned, Local, SpawnScope,
      LocalScope, Monitored, Active, ActiveStatus
<1>4. ASSUME NEW k \in Job PROVE ChildKnown(k)'
  BY DEF PreparedQueued, MonitorKnows, WorkerKnows, ChildKnown, RunningOwned, Live,
      Spawned, Local, SpawnScope, LocalScope, Monitored, Active, ActiveStatus
<1>5. OneActivePerDocument'
  BY DEF OneActivePerDocument, PreparedQueued, MonitorKnows, WorkerKnows, Active,
      ActiveStatus
<1>. QED
  BY <1>1, <1>2, <1>3, <1>4, <1>5

\* BlockCompiler.submit and submit_batch do so as well.
LEMMA SubmitLocalInv ==
    ASSUME IInv, NEW j \in Job, SubmitLocal(j) PROVE IInv'
<1> USE ConstantsAssumption DEF SubmitLocal, IInv, TypeOK, registryVars, pumpVars,
    taskVars, serverVars, Admit, Busy
<1>1. TypeOK'
  BY RemovedType DEF ActiveStatus, TerminalStatus, PumpCaller
<1>2. PreparedQueued' /\ CancelWins' /\ RunningOwned'
  BY DEF PreparedQueued, CancelWins, RunningOwned, MonitorKnows, WorkerKnows, Spawned,
      Local, SpawnScope, LocalScope, Monitored, Active, ActiveStatus
<1>3. ASSUME NEW k \in Job PROVE MonitorKnows(k)' /\ WorkerKnows(k)'
  BY DEF PreparedQueued, MonitorKnows, WorkerKnows, Spawned, Local, SpawnScope,
      LocalScope, Monitored, Active, ActiveStatus
<1>4. ASSUME NEW k \in Job PROVE ChildKnown(k)'
  BY DEF PreparedQueued, MonitorKnows, WorkerKnows, ChildKnown, RunningOwned, Live,
      Spawned, Local, SpawnScope, LocalScope, Monitored, Active, ActiveStatus
<1>5. OneActivePerDocument'
  BY DEF OneActivePerDocument, PreparedQueued, MonitorKnows, WorkerKnows, Active,
      ActiveStatus
<1>. QED
  BY <1>1, <1>2, <1>3, <1>4, <1>5

\* Taking the lock changes no record.
LEMMA PumpEnterInv ==
    ASSUME IInv, NEW c \in PumpCaller, PumpEnter(c) PROVE IInv'
<1> USE ConstantsAssumption DEF PumpEnter, IInv, TypeOK, registryVars, pumpVars,
    taskVars, serverVars
<1>1. TypeOK'
  BY RemovedType DEF ActiveStatus, TerminalStatus, PumpCaller
<1>2. PreparedQueued' /\ CancelWins' /\ RunningOwned'
  BY DEF PreparedQueued, CancelWins, RunningOwned, MonitorKnows, WorkerKnows, Spawned,
      Local, SpawnScope, LocalScope, Monitored, Active, ActiveStatus
<1>3. ASSUME NEW k \in Job PROVE MonitorKnows(k)' /\ WorkerKnows(k)'
  BY DEF PreparedQueued, MonitorKnows, WorkerKnows, Spawned, Local, SpawnScope,
      LocalScope, Monitored, Active, ActiveStatus
<1>4. ASSUME NEW k \in Job PROVE ChildKnown(k)'
  BY DEF PreparedQueued, MonitorKnows, WorkerKnows, ChildKnown, RunningOwned, Live,
      Spawned, Local, SpawnScope, LocalScope, Monitored, Active, ActiveStatus
<1>5. OneActivePerDocument'
  BY DEF OneActivePerDocument, PreparedQueued, MonitorKnows, WorkerKnows, Active,
      ActiveStatus
<1>. QED
  BY <1>1, <1>2, <1>3, <1>4, <1>5

\* Nor does giving it back.
LEMMA PumpLeaveInv ==
    ASSUME IInv, PumpLeave PROVE IInv'
<1> USE ConstantsAssumption DEF PumpLeave, IInv, TypeOK, registryVars, pumpVars,
    taskVars, serverVars
<1>1. TypeOK'
  BY RemovedType DEF ActiveStatus, TerminalStatus, PumpCaller
<1>2. PreparedQueued' /\ CancelWins' /\ RunningOwned'
  BY DEF PreparedQueued, CancelWins, RunningOwned, MonitorKnows, WorkerKnows, Spawned,
      Local, SpawnScope, LocalScope, Monitored, Active, ActiveStatus
<1>3. ASSUME NEW k \in Job PROVE MonitorKnows(k)' /\ WorkerKnows(k)'
  BY DEF PreparedQueued, MonitorKnows, WorkerKnows, Spawned, Local, SpawnScope,
      LocalScope, Monitored, Active, ActiveStatus
<1>4. ASSUME NEW k \in Job PROVE ChildKnown(k)'
  BY DEF PreparedQueued, MonitorKnows, WorkerKnows, ChildKnown, RunningOwned, Live,
      Spawned, Local, SpawnScope, LocalScope, Monitored, Active, ActiveStatus
<1>5. OneActivePerDocument'
  BY DEF OneActivePerDocument, PreparedQueued, MonitorKnows, WorkerKnows, Active,
      ActiveStatus
<1>. QED
  BY <1>1, <1>2, <1>3, <1>4, <1>5

\* _start: the record it took from the queue is still queued.
LEMMA StartPipelineInv ==
    ASSUME IInv, NEW j \in Job, StartPipeline(j) PROVE IInv'
<1> USE ConstantsAssumption DEF StartPipeline, IInv, TypeOK, registryVars, pumpVars,
    taskVars, serverVars, Pop, Popped, Launch, Refuse
<1>1. TypeOK'
  <2>1. status' \in [Job -> {"none"} \cup ActiveStatus \cup TerminalStatus]
    BY DEF ActiveStatus, TerminalStatus
  <2>2. queue' \in Seq(Job)
    BY PopType
  <2>3. jobBoot' \in [Job -> Nat]
    OBVIOUS
  <2>. QED
    BY <2>1, <2>2, <2>3
<1>2. PreparedQueued' /\ CancelWins' /\ RunningOwned'
  <2>1. PreparedQueued'
    BY PopType DEF PreparedQueued
  <2>2. CancelWins'
    BY PopType DEF CancelWins
  <2>3. RunningOwned'
    <3>1. CASE Launch(j)
      BY <3>1 DEF RunningOwned
    <3>2. CASE Refuse(j)
      BY <3>2 DEF RunningOwned
    <3>. QED
      BY <3>1, <3>2
  <2>. QED
    BY <2>1, <2>2, <2>3
<1>3. ASSUME NEW k \in Job PROVE MonitorKnows(k)' /\ WorkerKnows(k)'
  BY DEF PreparedQueued, MonitorKnows, WorkerKnows, Spawned, Local, SpawnScope,
      LocalScope, Monitored, Active, ActiveStatus
<1>4. ASSUME NEW k \in Job PROVE ChildKnown(k)'
  BY DEF PreparedQueued, MonitorKnows, WorkerKnows, ChildKnown, RunningOwned, Live,
      Spawned, Local, SpawnScope, LocalScope, Monitored, Active, ActiveStatus
<1>5. OneActivePerDocument'
  <2>1. \A k \in Job : Active(k)' => Active(k)
    BY PopType DEF Active, ActiveStatus
  <2>. QED
    BY <2>1 DEF OneActivePerDocument
<1>. QED
  BY <1>1, <1>2, <1>3, <1>4, <1>5

\* _start_compile, up to the snapshot.
LEMMA StartIsolatedInv ==
    ASSUME IInv, NEW j \in Job, StartIsolated(j) PROVE IInv'
<1> USE ConstantsAssumption DEF StartIsolated, IInv, TypeOK, registryVars, pumpVars,
    taskVars, serverVars, Pop, Popped
<1>1. TypeOK'
  <2>1. queue' \in Seq(Job)
    BY PopType
  <2>. QED
    BY <2>1
<1>2. PreparedQueued' /\ CancelWins' /\ RunningOwned'
  BY DEF PreparedQueued, CancelWins, RunningOwned, MonitorKnows, WorkerKnows, Spawned,
      Local, SpawnScope, LocalScope, Monitored, Active, ActiveStatus
<1>3. ASSUME NEW k \in Job PROVE MonitorKnows(k)' /\ WorkerKnows(k)'
  BY DEF PreparedQueued, MonitorKnows, WorkerKnows, Spawned, Local, SpawnScope,
      LocalScope, Monitored, Active, ActiveStatus
<1>4. ASSUME NEW k \in Job PROVE ChildKnown(k)'
  BY DEF PreparedQueued, MonitorKnows, WorkerKnows, ChildKnown, RunningOwned, Live,
      Spawned, Local, SpawnScope, LocalScope, Monitored, Active, ActiveStatus
<1>5. OneActivePerDocument'
  BY DEF OneActivePerDocument, PreparedQueued, MonitorKnows, WorkerKnows, Active,
      ActiveStatus
<1>. QED
  BY <1>1, <1>2, <1>3, <1>4, <1>5

\* After the snapshot the record is still the queued one.
LEMMA PreparedInv ==
    ASSUME IInv, Prepared PROVE IInv'
<1> USE ConstantsAssumption DEF Prepared, IInv, TypeOK, registryVars, pumpVars,
    taskVars, serverVars, Launch, Refuse
<1>1. TypeOK'
  <2>1. preparing \in Job
    OBVIOUS
  <2>2. status' \in [Job -> {"none"} \cup ActiveStatus \cup TerminalStatus]
    BY <2>1 DEF ActiveStatus, TerminalStatus
  <2>3. jobBoot' \in [Job -> Nat]
    <3>1. boot \in Nat
      OBVIOUS
    <3>2. CASE Launch(preparing)
      BY <2>1, <3>1, <3>2
    <3>3. CASE Refuse(preparing)
      BY <3>3
    <3>. QED
      BY <3>2, <3>3
  <2>. QED
    BY <2>1, <2>2, <2>3
<1>2. PreparedQueued' /\ CancelWins' /\ RunningOwned'
  BY DEF PreparedQueued, CancelWins, RunningOwned, MonitorKnows, WorkerKnows, Spawned,
      Local, SpawnScope, LocalScope, Monitored, Active, ActiveStatus
<1>3. ASSUME NEW k \in Job PROVE MonitorKnows(k)' /\ WorkerKnows(k)'
  BY DEF PreparedQueued, MonitorKnows, WorkerKnows, Spawned, Local, SpawnScope,
      LocalScope, Monitored, Active, ActiveStatus
<1>4. ASSUME NEW k \in Job PROVE ChildKnown(k)'
  BY DEF PreparedQueued, MonitorKnows, WorkerKnows, ChildKnown, RunningOwned, Live,
      Spawned, Local, SpawnScope, LocalScope, Monitored, Active, ActiveStatus
<1>5. OneActivePerDocument'
  <2>1. \A k \in Job : Active(k)' => Active(k)
    BY DEF PreparedQueued, Active, ActiveStatus
  <2>. QED
    BY <2>1 DEF OneActivePerDocument
<1>. QED
  BY <1>1, <1>2, <1>3, <1>4, <1>5

\* A start that raises leaves a child only with a running record.
LEMMA StartFaultInv ==
    ASSUME IInv, NEW j \in Job, StartFault(j) PROVE IInv'
<1> USE ConstantsAssumption DEF StartFault, IInv, TypeOK, registryVars, pumpVars,
    taskVars, serverVars, Pop, Popped
<1>1. TypeOK'
  <2>1. status' \in [Job -> {"none"} \cup ActiveStatus \cup TerminalStatus]
    BY DEF ActiveStatus, TerminalStatus
  <2>2. queue' \in Seq(Job)
    BY PopType
  <2>3. jobBoot' \in [Job -> Nat]
    <3>1. boot \in Nat
      OBVIOUS
    <3>2. CASE jobBoot' = [jobBoot EXCEPT ![j] = boot]
      BY <3>1, <3>2
    <3>. QED
      BY <3>2
  <2>4. child' \in [Job -> {"none", "alive", "stopping", "stuck", "exited"}]
    OBVIOUS
  <2>5. preparing' \in Job \cup {NoJob} /\ faults' \in 0..MaxFaults
    OBVIOUS
  <2>. QED
    BY <2>1, <2>2, <2>3, <2>4, <2>5
<1>2. PreparedQueued' /\ CancelWins' /\ RunningOwned'
  <2>1. PreparedQueued'
    BY PopType DEF PreparedQueued
  <2>2. CancelWins'
    BY PopType DEF CancelWins
  <2>3. RunningOwned'
    BY PopType DEF RunningOwned
  <2>. QED
    BY <2>1, <2>2, <2>3
<1>3. ASSUME NEW k \in Job PROVE MonitorKnows(k)' /\ WorkerKnows(k)'
  BY DEF PreparedQueued, MonitorKnows, WorkerKnows, Spawned, Local, SpawnScope,
      LocalScope, Monitored, Active, ActiveStatus
<1>4. ASSUME NEW k \in Job PROVE ChildKnown(k)'
  BY DEF PreparedQueued, MonitorKnows, WorkerKnows, ChildKnown, RunningOwned, Live,
      Spawned, Local, SpawnScope, LocalScope, Monitored, Active, ActiveStatus
<1>5. OneActivePerDocument'
  <2>1. \A k \in Job : Active(k)' => Active(k)
    <3>1. status[j] = "queued"
      BY PopType DEF PreparedQueued
    <3>. QED
      BY <3>1 DEF Active, ActiveStatus
  <2>. QED
    BY <2>1 DEF OneActivePerDocument
<1>. QED
  BY <1>1, <1>2, <1>3, <1>4, <1>5

\* A child that ends changes no record.
LEMMA ChildExitInv ==
    ASSUME IInv, NEW j \in Job, ChildExit(j) PROVE IInv'
<1> USE ConstantsAssumption DEF ChildExit, IInv, TypeOK, registryVars, pumpVars,
    taskVars, serverVars
<1>1. TypeOK'
  BY RemovedType DEF ActiveStatus, TerminalStatus, PumpCaller
<1>2. PreparedQueued' /\ CancelWins' /\ RunningOwned'
  BY DEF PreparedQueued, CancelWins, RunningOwned, MonitorKnows, WorkerKnows, Spawned,
      Local, SpawnScope, LocalScope, Monitored, Active, ActiveStatus
<1>3. ASSUME NEW k \in Job PROVE MonitorKnows(k)' /\ WorkerKnows(k)'
  BY DEF PreparedQueued, MonitorKnows, WorkerKnows, Spawned, Local, SpawnScope,
      LocalScope, Monitored, Active, ActiveStatus
<1>4. ASSUME NEW k \in Job PROVE ChildKnown(k)'
  BY DEF PreparedQueued, MonitorKnows, WorkerKnows, ChildKnown, RunningOwned, Live,
      Spawned, Local, SpawnScope, LocalScope, Monitored, Active, ActiveStatus
<1>5. OneActivePerDocument'
  BY DEF OneActivePerDocument, PreparedQueued, MonitorKnows, WorkerKnows, Active,
      ActiveStatus
<1>. QED
  BY <1>1, <1>2, <1>3, <1>4, <1>5

\* _wait_exit sees the end of the child.
LEMMA ObserveExitInv ==
    ASSUME IInv, NEW j \in Job, ObserveExit(j) PROVE IInv'
<1> USE ConstantsAssumption DEF ObserveExit, IInv, TypeOK, registryVars, pumpVars,
    taskVars, serverVars
<1>1. TypeOK'
  BY RemovedType DEF ActiveStatus, TerminalStatus, PumpCaller
<1>2. PreparedQueued' /\ CancelWins' /\ RunningOwned'
  BY DEF PreparedQueued, CancelWins, RunningOwned, MonitorKnows, WorkerKnows, Spawned,
      Local, SpawnScope, LocalScope, Monitored, Active, ActiveStatus
<1>3. ASSUME NEW k \in Job PROVE MonitorKnows(k)' /\ WorkerKnows(k)'
  BY DEF PreparedQueued, MonitorKnows, WorkerKnows, Spawned, Local, SpawnScope,
      LocalScope, Monitored, Active, ActiveStatus
<1>4. ASSUME NEW k \in Job PROVE ChildKnown(k)'
  BY DEF PreparedQueued, MonitorKnows, WorkerKnows, ChildKnown, RunningOwned, Live,
      Spawned, Local, SpawnScope, LocalScope, Monitored, Active, ActiveStatus
<1>5. OneActivePerDocument'
  BY DEF OneActivePerDocument, PreparedQueued, MonitorKnows, WorkerKnows, Active,
      ActiveStatus
<1>. QED
  BY <1>1, <1>2, <1>3, <1>4, <1>5

\* _wait_exit sees the deadline.
LEMMA TimeoutInv ==
    ASSUME IInv, NEW j \in Job, Timeout(j) PROVE IInv'
<1> USE ConstantsAssumption DEF Timeout, IInv, TypeOK, registryVars, pumpVars, taskVars,
    serverVars
<1>1. TypeOK'
  BY RemovedType DEF ActiveStatus, TerminalStatus, PumpCaller
<1>2. PreparedQueued' /\ CancelWins' /\ RunningOwned'
  BY DEF PreparedQueued, CancelWins, RunningOwned, MonitorKnows, WorkerKnows, Spawned,
      Local, SpawnScope, LocalScope, Monitored, Active, ActiveStatus
<1>3. ASSUME NEW k \in Job PROVE MonitorKnows(k)' /\ WorkerKnows(k)'
  BY DEF PreparedQueued, MonitorKnows, WorkerKnows, Spawned, Local, SpawnScope,
      LocalScope, Monitored, Active, ActiveStatus
<1>4. ASSUME NEW k \in Job PROVE ChildKnown(k)'
  BY DEF PreparedQueued, MonitorKnows, WorkerKnows, ChildKnown, RunningOwned, Live,
      Spawned, Local, SpawnScope, LocalScope, Monitored, Active, ActiveStatus
<1>5. OneActivePerDocument'
  BY DEF OneActivePerDocument, PreparedQueued, MonitorKnows, WorkerKnows, Active,
      ActiveStatus
<1>. QED
  BY <1>1, <1>2, <1>3, <1>4, <1>5

\* _terminate comes back when nothing works for the job any more.
LEMMA KillReturnsInv ==
    ASSUME IInv, NEW j \in Job, KillReturns(j) PROVE IInv'
<1> USE ConstantsAssumption DEF KillReturns, IInv, TypeOK, registryVars, pumpVars,
    taskVars, serverVars
<1>1. TypeOK'
  BY RemovedType DEF ActiveStatus, TerminalStatus, PumpCaller
<1>2. PreparedQueued' /\ CancelWins' /\ RunningOwned'
  BY DEF PreparedQueued, CancelWins, RunningOwned, MonitorKnows, WorkerKnows, Spawned,
      Local, SpawnScope, LocalScope, Monitored, Active, ActiveStatus
<1>3. ASSUME NEW k \in Job PROVE MonitorKnows(k)' /\ WorkerKnows(k)'
  BY DEF PreparedQueued, MonitorKnows, WorkerKnows, Spawned, Local, SpawnScope,
      LocalScope, Monitored, Active, ActiveStatus
<1>4. ASSUME NEW k \in Job PROVE ChildKnown(k)'
  BY DEF PreparedQueued, MonitorKnows, WorkerKnows, ChildKnown, RunningOwned, Live,
      Spawned, Local, SpawnScope, LocalScope, Monitored, Active, ActiveStatus
<1>5. OneActivePerDocument'
  BY DEF OneActivePerDocument, PreparedQueued, MonitorKnows, WorkerKnows, Active,
      ActiveStatus
<1>. QED
  BY <1>1, <1>2, <1>3, <1>4, <1>5

\* _watch finishes a record whose child is gone.
LEMMA SettleInv ==
    ASSUME IInv, NEW j \in Job, Settle(j) PROVE IInv'
<1> USE ConstantsAssumption DEF Settle, IInv, TypeOK, registryVars, pumpVars, taskVars,
    serverVars, ExitStatus
<1>1. TypeOK'
  <2>1. status' \in [Job -> {"none"} \cup ActiveStatus \cup TerminalStatus]
    BY DEF ActiveStatus, TerminalStatus
  <2>2. pumps' \in [PumpCaller -> Nat]
    BY DEF PumpCaller
  <2>. QED
    BY <2>1, <2>2
<1>2. PreparedQueued' /\ CancelWins' /\ RunningOwned'
  BY DEF PreparedQueued, CancelWins, RunningOwned, MonitorKnows, WorkerKnows, Spawned,
      Local, SpawnScope, LocalScope, Monitored, Active, ActiveStatus
<1>3. ASSUME NEW k \in Job PROVE MonitorKnows(k)' /\ WorkerKnows(k)'
  BY DEF PreparedQueued, MonitorKnows, WorkerKnows, Spawned, Local, SpawnScope,
      LocalScope, Monitored, Active, ActiveStatus
<1>4. ASSUME NEW k \in Job PROVE ChildKnown(k)'
  BY DEF PreparedQueued, MonitorKnows, WorkerKnows, ChildKnown, RunningOwned, Live,
      Spawned, Local, SpawnScope, LocalScope, Monitored, Active, ActiveStatus
<1>5. OneActivePerDocument'
  BY DEF OneActivePerDocument, PreparedQueued, MonitorKnows, WorkerKnows, Active,
      ActiveStatus
<1>. QED
  BY <1>1, <1>2, <1>3, <1>4, <1>5

\* It does so too when it raises.
LEMMA SettleFaultInv ==
    ASSUME IInv, NEW j \in Job, SettleFault(j) PROVE IInv'
<1> USE ConstantsAssumption DEF SettleFault, IInv, TypeOK, registryVars, pumpVars,
    taskVars, serverVars
<1>1. TypeOK'
  <2>1. status' \in [Job -> {"none"} \cup ActiveStatus \cup TerminalStatus]
    BY DEF ActiveStatus, TerminalStatus
  <2>2. pumps' \in [PumpCaller -> Nat]
    BY DEF PumpCaller
  <2>. QED
    BY <2>1, <2>2
<1>2. PreparedQueued' /\ CancelWins' /\ RunningOwned'
  BY DEF PreparedQueued, CancelWins, RunningOwned, MonitorKnows, WorkerKnows, Spawned,
      Local, SpawnScope, LocalScope, Monitored, Active, ActiveStatus
<1>3. ASSUME NEW k \in Job PROVE MonitorKnows(k)' /\ WorkerKnows(k)'
  BY DEF PreparedQueued, MonitorKnows, WorkerKnows, Spawned, Local, SpawnScope,
      LocalScope, Monitored, Active, ActiveStatus
<1>4. ASSUME NEW k \in Job PROVE ChildKnown(k)'
  BY DEF PreparedQueued, MonitorKnows, WorkerKnows, ChildKnown, RunningOwned, Live,
      Spawned, Local, SpawnScope, LocalScope, Monitored, Active, ActiveStatus
<1>5. OneActivePerDocument'
  BY DEF OneActivePerDocument, PreparedQueued, MonitorKnows, WorkerKnows, Active,
      ActiveStatus
<1>. QED
  BY <1>1, <1>2, <1>3, <1>4, <1>5

\* A worker that finds its record canceled leaves it alone.
LEMMA LocalSkipInv ==
    ASSUME IInv, NEW j \in Job, LocalSkip(j) PROVE IInv'
<1> USE ConstantsAssumption DEF LocalSkip, IInv, TypeOK, registryVars, pumpVars,
    taskVars, serverVars
<1>1. TypeOK'
  BY RemovedType DEF ActiveStatus, TerminalStatus, PumpCaller
<1>2. PreparedQueued' /\ CancelWins' /\ RunningOwned'
  BY DEF PreparedQueued, CancelWins, RunningOwned, MonitorKnows, WorkerKnows, Spawned,
      Local, SpawnScope, LocalScope, Monitored, Active, ActiveStatus
<1>3. ASSUME NEW k \in Job PROVE MonitorKnows(k)' /\ WorkerKnows(k)'
  BY DEF PreparedQueued, MonitorKnows, WorkerKnows, Spawned, Local, SpawnScope,
      LocalScope, Monitored, Active, ActiveStatus
<1>4. ASSUME NEW k \in Job PROVE ChildKnown(k)'
  BY DEF PreparedQueued, MonitorKnows, WorkerKnows, ChildKnown, RunningOwned, Live,
      Spawned, Local, SpawnScope, LocalScope, Monitored, Active, ActiveStatus
<1>5. OneActivePerDocument'
  BY DEF OneActivePerDocument, PreparedQueued, MonitorKnows, WorkerKnows, Active,
      ActiveStatus
<1>. QED
  BY <1>1, <1>2, <1>3, <1>4, <1>5

\* A worker that has its permit finds its record queued.
LEMMA LocalBeginInv ==
    ASSUME IInv, NEW j \in Job, LocalBegin(j) PROVE IInv'
<1> USE ConstantsAssumption DEF LocalBegin, IInv, TypeOK, registryVars, pumpVars,
    taskVars, serverVars, LocalPermit
<1>1. TypeOK'
  <2>1. status' \in [Job -> {"none"} \cup ActiveStatus \cup TerminalStatus]
    BY DEF ActiveStatus, TerminalStatus
  <2>. QED
    BY <2>1
<1>2. PreparedQueued' /\ CancelWins' /\ RunningOwned'
  BY DEF PreparedQueued, CancelWins, RunningOwned, MonitorKnows, WorkerKnows, Spawned,
      Local, SpawnScope, LocalScope, Monitored, Active, ActiveStatus
<1>3. ASSUME NEW k \in Job PROVE MonitorKnows(k)' /\ WorkerKnows(k)'
  BY DEF PreparedQueued, MonitorKnows, WorkerKnows, Spawned, Local, SpawnScope,
      LocalScope, Monitored, Active, ActiveStatus
<1>4. ASSUME NEW k \in Job PROVE ChildKnown(k)'
  BY DEF PreparedQueued, MonitorKnows, WorkerKnows, ChildKnown, RunningOwned, Live,
      Spawned, Local, SpawnScope, LocalScope, Monitored, Active, ActiveStatus
<1>5. OneActivePerDocument'
  BY DEF OneActivePerDocument, PreparedQueued, MonitorKnows, WorkerKnows, Active,
      ActiveStatus
<1>. QED
  BY <1>1, <1>2, <1>3, <1>4, <1>5

\* The write that announces the start raises.
LEMMA LocalFaultInv ==
    ASSUME IInv, NEW j \in Job, LocalFault(j) PROVE IInv'
<1> USE ConstantsAssumption DEF LocalFault, IInv, TypeOK, registryVars, pumpVars,
    taskVars, serverVars, LocalPermit
<1>1. TypeOK'
  <2>1. status' \in [Job -> {"none"} \cup ActiveStatus \cup TerminalStatus]
    BY DEF ActiveStatus
  <2>2. jobBoot' \in [Job -> Nat] /\ faults' \in 0..MaxFaults
    OBVIOUS
  <2>3. worker' \in [Job -> {"none", "waiting", "executing"}]
    OBVIOUS
  <2>. QED
    BY <2>1, <2>2, <2>3
<1>2. PreparedQueued' /\ CancelWins' /\ RunningOwned'
  BY DEF PreparedQueued, CancelWins, RunningOwned, MonitorKnows, WorkerKnows, Spawned,
      Local, SpawnScope, LocalScope, Monitored, Active, ActiveStatus
<1>3. ASSUME NEW k \in Job PROVE MonitorKnows(k)' /\ WorkerKnows(k)'
  BY DEF PreparedQueued, MonitorKnows, WorkerKnows, Spawned, Local, SpawnScope,
      LocalScope, Monitored, Active, ActiveStatus
<1>4. ASSUME NEW k \in Job PROVE ChildKnown(k)'
  BY DEF PreparedQueued, MonitorKnows, WorkerKnows, ChildKnown, RunningOwned, Live,
      Spawned, Local, SpawnScope, LocalScope, Monitored, Active, ActiveStatus
<1>5. OneActivePerDocument'
  BY DEF OneActivePerDocument, PreparedQueued, MonitorKnows, WorkerKnows, Active,
      ActiveStatus
<1>. QED
  BY <1>1, <1>2, <1>3, <1>4, <1>5

\* A worker finishes a running record.
LEMMA LocalFinishInv ==
    ASSUME IInv, NEW j \in Job, LocalFinish(j) PROVE IInv'
<1> USE ConstantsAssumption DEF LocalFinish, IInv, TypeOK, registryVars, pumpVars,
    taskVars, serverVars
<1>1. TypeOK'
  BY RemovedType DEF ActiveStatus, TerminalStatus, PumpCaller
<1>2. PreparedQueued' /\ CancelWins' /\ RunningOwned'
  <2>1. j \in Local /\ j \notin Spawned /\ status[j] = "running"
    BY Disjoint DEF WorkerKnows
  <2>2. PreparedQueued'
    BY <2>1 DEF PreparedQueued
  <2>3. CancelWins'
    BY <2>1 DEF CancelWins
  <2>4. RunningOwned'
    BY <2>1 DEF RunningOwned
  <2>. QED
    BY <2>2, <2>3, <2>4
<1>3. ASSUME NEW k \in Job PROVE MonitorKnows(k)' /\ WorkerKnows(k)'
  BY DEF PreparedQueued, MonitorKnows, WorkerKnows, Spawned, Local, SpawnScope,
      LocalScope, Monitored, Active, ActiveStatus
<1>4. ASSUME NEW k \in Job PROVE ChildKnown(k)'
  <2>1. j \notin Spawned
    BY Disjoint DEF WorkerKnows
  <2>2. k = j => child[k] = "none"
    BY <2>1 DEF ChildKnown
  <2>. QED
    BY <2>2 DEF ChildKnown, Live
<1>5. OneActivePerDocument'
  BY DEF OneActivePerDocument, PreparedQueued, MonitorKnows, WorkerKnows, Active,
      ActiveStatus
<1>. QED
  BY <1>1, <1>2, <1>3, <1>4, <1>5

\* The four answers of JobRunner.cancel.
LEMMA CancelInv ==
    ASSUME IInv, NEW j \in Job, Cancel(j) PROVE IInv'
<1> USE ConstantsAssumption DEF Cancel, IInv, TypeOK, registryVars, pumpVars, taskVars,
    serverVars, CancelQueued, CancelRunning, CancelLocal, CancelIgnored
<1>1. TypeOK'
  <2>1. status' \in [Job -> {"none"} \cup ActiveStatus \cup TerminalStatus]
    BY DEF ActiveStatus, TerminalStatus
  <2>2. queue' \in Seq(Job)
    BY RemovedType
  <2>3. cancelReq' \in SUBSET Job
    OBVIOUS
  <2>4. child' \in [Job -> {"none", "alive", "stopping", "stuck", "exited"}]
    OBVIOUS
  <2>. QED
    BY <2>1, <2>2, <2>3, <2>4
<1>2. PreparedQueued' /\ CancelWins' /\ RunningOwned'
  <2>1. PreparedQueued'
    BY DEF PreparedQueued
  <2>2. CancelWins'
    BY Disjoint DEF CancelWins, Spawned, Local, SpawnScope, LocalScope
  <2>3. RunningOwned'
    BY DEF RunningOwned
  <2>. QED
    BY <2>1, <2>2, <2>3
<1>3. ASSUME NEW k \in Job PROVE MonitorKnows(k)' /\ WorkerKnows(k)'
  BY DEF PreparedQueued, MonitorKnows, WorkerKnows, Spawned, Local, SpawnScope,
      LocalScope, Monitored, Active, ActiveStatus
<1>4. ASSUME NEW k \in Job PROVE ChildKnown(k)'
  BY DEF PreparedQueued, MonitorKnows, WorkerKnows, ChildKnown, RunningOwned, Live,
      Spawned, Local, SpawnScope, LocalScope, Monitored, Active, ActiveStatus
<1>5. OneActivePerDocument'
  BY DEF OneActivePerDocument, PreparedQueued, MonitorKnows, WorkerKnows, Active,
      ActiveStatus
<1>. QED
  BY <1>1, <1>2, <1>3, <1>4, <1>5

\* BlockCompiler.shutdown finishes queued records of its own only.
LEMMA StopInv ==
    ASSUME IInv, Stop PROVE IInv'
<1> USE ConstantsAssumption DEF Stop, IInv, TypeOK, registryVars, pumpVars, taskVars,
    serverVars
<1>1. TypeOK'
  <2>1. status' \in [Job -> {"none"} \cup ActiveStatus \cup TerminalStatus]
    BY DEF ActiveStatus, TerminalStatus
  <2>2. cancelReq' \in SUBSET Job
    BY DEF Local
  <2>. QED
    BY <2>1, <2>2
<1>2. PreparedQueued' /\ CancelWins' /\ RunningOwned'
  BY DEF PreparedQueued, CancelWins, RunningOwned, MonitorKnows, WorkerKnows, Spawned,
      Local, SpawnScope, LocalScope, Monitored, Active, ActiveStatus
<1>3. ASSUME NEW k \in Job PROVE MonitorKnows(k)' /\ WorkerKnows(k)'
  BY DEF PreparedQueued, MonitorKnows, WorkerKnows, Spawned, Local, SpawnScope,
      LocalScope, Monitored, Active, ActiveStatus
<1>4. ASSUME NEW k \in Job PROVE ChildKnown(k)'
  BY DEF PreparedQueued, MonitorKnows, WorkerKnows, ChildKnown, RunningOwned, Live,
      Spawned, Local, SpawnScope, LocalScope, Monitored, Active, ActiveStatus
<1>5. OneActivePerDocument'
  BY DEF OneActivePerDocument, PreparedQueued, MonitorKnows, WorkerKnows, Active,
      ActiveStatus
<1>. QED
  BY <1>1, <1>2, <1>3, <1>4, <1>5

\* The end of the event loop drops every holder, and every claim with it.
LEMMA CancelTasksInv ==
    ASSUME IInv, CancelTasks PROVE IInv'
<1> USE ConstantsAssumption DEF CancelTasks, IInv, TypeOK, registryVars, pumpVars,
    taskVars, serverVars, Monitored
<1>1. TypeOK'
  <2>1. Cardinality(Monitored) \in Nat
    BY ConstantsAssumption, FS_Subset, FS_CardinalityType DEF Monitored
  <2>2. pumps' \in [PumpCaller -> Nat]
    BY <2>1
  <2>3. monitor' \in [Job -> {"none", "polling", "killing", "draining", "expired"}]
    OBVIOUS
  <2>. QED
    BY <2>1, <2>2, <2>3
<1>2. PreparedQueued' /\ CancelWins' /\ RunningOwned'
  BY DEF PreparedQueued, CancelWins, RunningOwned, MonitorKnows, WorkerKnows, Spawned,
      Local, SpawnScope, LocalScope, Monitored, Active, ActiveStatus
<1>3. ASSUME NEW k \in Job PROVE MonitorKnows(k)' /\ WorkerKnows(k)'
  BY DEF PreparedQueued, MonitorKnows, WorkerKnows, Spawned, Local, SpawnScope,
      LocalScope, Monitored, Active, ActiveStatus
<1>4. ASSUME NEW k \in Job PROVE ChildKnown(k)'
  BY DEF PreparedQueued, MonitorKnows, WorkerKnows, ChildKnown, RunningOwned, Live,
      Spawned, Local, SpawnScope, LocalScope, Monitored, Active, ActiveStatus
<1>5. OneActivePerDocument'
  BY DEF OneActivePerDocument, PreparedQueued, MonitorKnows, WorkerKnows, Active,
      ActiveStatus
<1>. QED
  BY <1>1, <1>2, <1>3, <1>4, <1>5

\* JobRegistry.load leaves no record active.
LEMMA RestartInv ==
    ASSUME IInv, Restart PROVE IInv'
<1> USE ConstantsAssumption DEF Restart, IInv, TypeOK, registryVars, pumpVars, taskVars,
    serverVars, Recovered
<1>1. TypeOK'
  BY RemovedType DEF ActiveStatus, TerminalStatus, PumpCaller
<1>2. PreparedQueued' /\ CancelWins' /\ RunningOwned'
  BY DEF PreparedQueued, CancelWins, RunningOwned, MonitorKnows, WorkerKnows, Spawned,
      Local, SpawnScope, LocalScope, Monitored, Active, ActiveStatus
<1>3. ASSUME NEW k \in Job PROVE MonitorKnows(k)' /\ WorkerKnows(k)'
  BY DEF PreparedQueued, MonitorKnows, WorkerKnows, Spawned, Local, SpawnScope,
      LocalScope, Monitored, Active, ActiveStatus
<1>4. ASSUME NEW k \in Job PROVE ChildKnown(k)'
  BY DEF PreparedQueued, MonitorKnows, WorkerKnows, ChildKnown, RunningOwned, Live,
      Spawned, Local, SpawnScope, LocalScope, Monitored, Active, ActiveStatus
<1>5. OneActivePerDocument'
  BY DEF OneActivePerDocument, PreparedQueued, MonitorKnows, WorkerKnows, Active,
      ActiveStatus
<1>. QED
  BY <1>1, <1>2, <1>3, <1>4, <1>5

-----------------------------------------------------------------------------

\* The invariant is kept by every step.
LEMMA NextInv == IInv /\ [Next]_vars => IInv'
<1> SUFFICES ASSUME IInv, [Next]_vars PROVE IInv'
  OBVIOUS
<1>1. CASE Pump
  BY <1>1, PumpEnterInv, PumpLeaveInv, PreparedInv, StartPipelineInv,
      StartIsolatedInv DEF Pump
<1>2. ASSUME NEW j \in Job, Client(j) PROVE IInv'
  BY <1>2, SubmitInv, SubmitLocalInv, CancelInv DEF Client
<1>3. ASSUME NEW j \in Job, Watch(j) PROVE IInv'
  BY <1>3, ObserveExitInv, TimeoutInv, KillReturnsInv, SettleInv DEF Watch
<1>4. ASSUME NEW j \in Job, Work(j) PROVE IInv'
  BY <1>4, LocalSkipInv, LocalBeginInv, LocalFinishInv DEF Work
<1>5. ASSUME NEW j \in Job, Fault(j) PROVE IInv'
  BY <1>5, StartFaultInv, SettleFaultInv, LocalFaultInv DEF Fault
<1>6. CASE UNCHANGED vars
  BY <1>6 DEF IInv, TypeOK, PreparedQueued, MonitorKnows, WorkerKnows, ChildKnown, Live,
      Active,
     OneActivePerDocument, CancelWins, RunningOwned, vars, registryVars, pumpVars,
     taskVars, serverVars
<1>. QED
  BY <1>1, <1>2, <1>3, <1>4, <1>5, <1>6, ChildExitInv, StopInv, CancelTasksInv,
      RestartInv DEF Next

\* The invariant holds in every reachable state.
LEMMA SpecInv == Spec => []IInv
  BY InitInv, NextInv, PTL DEF Spec

\* Every variable keeps its type in every behaviour of the job lifecycle.
THEOREM TypeCorrect == Spec => []TypeOK
<1>1. IInv => TypeOK
  BY DEF IInv
<1>. QED
  BY SpecInv, <1>1, PTL

\* A document never has two queued or running jobs (JobRegistry.active_for_did).
THEOREM OneActive == Spec => []OneActivePerDocument
<1>1. IInv => OneActivePerDocument
  BY DEF IInv
<1>. QED
  BY SpecInv, <1>1, PTL

\* A document never has two children of this server at work: a record is only
\* finished when its child is gone, and only then is the document free.
THEOREM OneLiveChild == Spec => []OneLiveChildPerDocument
<1>1. IInv => OneLiveChildPerDocument
  BY DEF IInv, ChildKnown, OneActivePerDocument, OneLiveChildPerDocument, Active,
      ActiveStatus
<1>. QED
  BY SpecInv, <1>1, PTL

\* A recorded cancel is never overwritten by a success (classify_exit).
THEOREM CancelIsFinal == Spec => []CancelWins
<1>1. IInv => CancelWins
  BY DEF IInv
<1>. QED
  BY SpecInv, <1>1, PTL

\* A running record is always the running server's own (JobRegistry.load), so
\* cancel never meets a process it does not own.
THEOREM OwnedRunning == Spec => []RunningOwned
<1>1. IInv => RunningOwned
  BY DEF IInv
<1>. QED
  BY SpecInv, <1>1, PTL

-----------------------------------------------------------------------------
(* Steps that leave every status alone, or move one record. *)

\* No step changes the status of a terminal record.
LEMMA StatusStep ==
    ASSUME IInv, [Next]_vars, NEW j \in Job, Terminal(j) PROVE status'[j] = status[j]
<1> USE DEF IInv, TypeOK, Terminal, TerminalStatus
<1>1. CASE Pump
  <2>1. ASSUME NEW k \in Job, StartPipeline(k) PROVE status'[j] = status[j]
    BY <2>1, PopType DEF StartPipeline, Launch, Refuse
  <2>2. CASE Prepared
    BY <2>2 DEF Prepared, PreparedQueued, Launch, Refuse
  <2>. QED
    BY <1>1, <2>1, <2>2 DEF Pump, PumpEnter, PumpLeave, StartIsolated, registryVars
<1>2. ASSUME NEW k \in Job, Client(k) PROVE status'[j] = status[j]
  BY <1>2 DEF Client, Submit, SubmitLocal, Admit, Cancel, CancelQueued, CancelRunning,
      CancelLocal,
     CancelIgnored
<1>3. ASSUME NEW k \in Job, Watch(k) PROVE status'[j] = status[j]
  BY <1>3 DEF Watch, ObserveExit, Timeout, KillReturns, Settle, MonitorKnows, registryVars
<1>4. ASSUME NEW k \in Job, Work(k) PROVE status'[j] = status[j]
  BY <1>4 DEF Work, LocalSkip, LocalBegin, LocalFinish, LocalPermit, WorkerKnows,
      registryVars
<1>5. ASSUME NEW k \in Job, Fault(k) PROVE status'[j] = status[j]
  <2>1. CASE StartFault(k)
    <3>1. status[k] = "queued"
      BY <2>1, PopType, ConstantsAssumption DEF StartFault, PreparedQueued
    <3>. QED
      BY <2>1, <3>1 DEF StartFault
  <2>2. CASE SettleFault(k) \/ LocalFault(k)
    BY <2>2 DEF SettleFault, LocalFault, LocalPermit, MonitorKnows, WorkerKnows
  <2>. QED
    BY <1>5, <2>1, <2>2 DEF Fault
<1>6. CASE Stop \/ CancelTasks \/ Restart
  BY <1>6 DEF Stop, CancelTasks, Restart, Recovered, Active, ActiveStatus, registryVars
<1>. QED
  BY <1>1, <1>2, <1>3, <1>4, <1>5, <1>6 DEF Next, ChildExit, vars, registryVars

\* No step moves a terminal status, although monitors, workers and pumps decide
\* on a status they read earlier: what each of them knows still holds.
THEOREM Final == Spec => TerminalFinal
<1>1. IInv /\ [Next]_vars => [\A j \in Job : Terminal(j) => status'[j] = status[j]]_vars
  BY StatusStep
<1>. QED
  BY SpecInv, <1>1, PTL DEF Spec, TerminalFinal

-----------------------------------------------------------------------------
(* The cap and the permits. *)

\* Cardinality is monotonic.
LEMMA Subset ==
    ASSUME NEW A, NEW B, IsFiniteSet(B), A \subseteq B
    PROVE  Cardinality(A) \in Nat /\ Cardinality(A) <= Cardinality(B)
  BY FS_Subset, FS_CardinalityType

\* A set grows by at most one when one element enters.
LEMMA OneMore ==
    ASSUME NEW A, NEW B, NEW x, IsFiniteSet(B), A \subseteq B \cup {x}
    PROVE  Cardinality(A) \in Nat /\ Cardinality(A) <= Cardinality(B) + 1
<1>1. IsFiniteSet(B \cup {x}) /\ Cardinality(B \cup {x}) <= Cardinality(B) + 1
  <2>1. IsFiniteSet(B \cup {x})
      /\ (x \notin B => Cardinality(B \cup {x}) = Cardinality(B) + 1)
    BY FS_AddElement
  <2>2. x \in B => B \cup {x} = B
    OBVIOUS
  <2>3. Cardinality(B) \in Nat
    BY FS_CardinalityType
  <2>. QED
    BY <2>1, <2>2, <2>3
<1>. QED
  BY <1>1, Subset, FS_CardinalityType

\* Slots and permits are counted on finite sets.
LEMMA FiniteJobs == IsFiniteSet(Monitored) /\ IsFiniteSet(Executing)
  BY ConstantsAssumption, FS_Subset DEF Monitored, Executing

\* A step that starts no monitor and no worker keeps both bounds.
LEMMA SlotsKept ==
    ASSUME SlotsBounded, Monitored' \subseteq Monitored, preparing' \in {preparing, NoJob},
           Executing' \subseteq Executing
    PROVE  SlotsBounded'
<1>1. Cardinality(Monitored)' \in Nat /\ Cardinality(Monitored)' <= Cardinality(Monitored)
  BY FiniteJobs, Subset
<1>2. Cardinality(Executing)' \in Nat /\ Cardinality(Executing)' <= Cardinality(Executing)
  BY FiniteJobs, Subset
<1>3. Cardinality(Monitored) \in Nat /\ Cardinality(Executing) \in Nat
  BY FiniteJobs, FS_CardinalityType
<1>. QED
  BY <1>1, <1>2, <1>3, ConstantsAssumption DEF SlotsBounded

\* No slot is taken at first.
LEMMA SlotsInit == Init => SlotsBounded
<1> SUFFICES ASSUME Init PROVE SlotsBounded
  OBVIOUS
<1>1. Monitored = {} /\ Executing = {}
  BY DEF Init, Monitored, Executing
<1>. QED
  BY <1>1, FS_EmptySet, ConstantsAssumption DEF Init, SlotsBounded

\* The cap and the permits hold after every step.
LEMMA SlotsStep == IInv /\ SlotsBounded /\ [Next]_vars => SlotsBounded'
<1> SUFFICES ASSUME IInv, SlotsBounded, [Next]_vars PROVE SlotsBounded'
  OBVIOUS
<1> USE DEF IInv, TypeOK
<1>0. Cardinality(Monitored) \in Nat /\ Cardinality(Executing) \in Nat
  BY FiniteJobs, FS_CardinalityType
<1>1. CASE Pump
  <2>1. ASSUME NEW j \in Job, StartPipeline(j) PROVE SlotsBounded'
    <3>1. Monitored' \subseteq Monitored \cup {j} /\ Executing' = Executing
      BY <2>1 DEF StartPipeline, Launch, Refuse, Monitored, Executing, taskVars
    <3>2. Cardinality(Monitored) < MaxConcurrent /\ preparing' = NoJob
      BY <2>1 DEF StartPipeline, Pop, SlotFree
    <3>3. Cardinality(Monitored') \in Nat
      /\ Cardinality(Monitored') <= Cardinality(Monitored) + 1
      BY <3>1, FiniteJobs, OneMore
    <3>. QED
      BY <1>0, <3>1, <3>2, <3>3, ConstantsAssumption DEF SlotsBounded
  <2>2. ASSUME NEW j \in Job, StartIsolated(j) PROVE SlotsBounded'
    <3>1. Monitored' = Monitored /\ Executing' = Executing
      BY <2>2 DEF StartIsolated, Monitored, Executing, taskVars
    <3>2. Cardinality(Monitored) < MaxConcurrent
      BY <2>2 DEF StartIsolated, Pop, SlotFree
    <3>. QED
      BY <1>0, <3>1, <3>2, ConstantsAssumption DEF SlotsBounded
  <2>3. CASE Prepared
    <3>1. Monitored' \subseteq Monitored \cup {preparing} /\ Executing' = Executing
      BY <2>3 DEF Prepared, Launch, Refuse, Monitored, Executing, taskVars
    <3>2. preparing # NoJob /\ preparing' = NoJob
      BY <2>3 DEF Prepared
    <3>3. Cardinality(Monitored') \in Nat
      /\ Cardinality(Monitored') <= Cardinality(Monitored) + 1
      BY <3>1, FiniteJobs, OneMore
    <3>. QED
      BY <1>0, <3>1, <3>2, <3>3, ConstantsAssumption DEF SlotsBounded
  <2>4. ASSUME PumpLeave \/ \E c \in PumpCaller : PumpEnter(c) PROVE SlotsBounded'
    BY <2>4, SlotsKept DEF PumpLeave, PumpEnter, Monitored, Executing, taskVars
  <2>. QED
    BY <1>1, <2>1, <2>2, <2>3, <2>4 DEF Pump
<1>2. ASSUME NEW j \in Job, LocalBegin(j) PROVE SlotsBounded'
  <2>1. Monitored' = Monitored /\ preparing' = preparing
      /\ Executing' \subseteq Executing \cup {j}
    BY <1>2 DEF LocalBegin, Monitored, Executing, pumpVars
  <2>2. Cardinality(Executing) < MaxLocal
    BY <1>2 DEF LocalBegin, LocalPermit
  <2>3. Cardinality(Executing') \in Nat
      /\ Cardinality(Executing') <= Cardinality(Executing) + 1
    BY <2>1, FiniteJobs, OneMore
  <2>. QED
    BY <1>0, <2>1, <2>2, <2>3, ConstantsAssumption DEF SlotsBounded
<1>3. ASSUME NEW j \in Job, Client(j) \/ Watch(j) \/ LocalSkip(j) \/ LocalFinish(j) \/ Fault(j) \/ ChildExit(j)
      PROVE  SlotsBounded'
  <2>1. Monitored' \subseteq Monitored
    BY <1>3 DEF Client, Submit, SubmitLocal, Cancel, Watch, ObserveExit, Timeout,
        KillReturns, Settle,
       LocalSkip, LocalFinish, Fault, StartFault, SettleFault, LocalFault, ChildExit,
       Monitored, taskVars
  <2>2. Executing' \subseteq Executing
    BY <1>3 DEF Client, Submit, SubmitLocal, Cancel, Watch, ObserveExit, Timeout,
        KillReturns, Settle,
       LocalSkip, LocalFinish, Fault, StartFault, SettleFault, LocalFault, ChildExit,
       Executing, taskVars
  <2>3. preparing' \in {preparing, NoJob}
    BY <1>3 DEF Client, Submit, SubmitLocal, Cancel, Watch, ObserveExit, Timeout,
        KillReturns, Settle,
       LocalSkip, LocalFinish, Fault, StartFault, SettleFault, LocalFault, ChildExit,
       pumpVars
  <2>. QED
    BY <2>1, <2>2, <2>3, SlotsKept
<1>4. CASE Stop \/ CancelTasks \/ Restart \/ UNCHANGED vars
  BY <1>4, SlotsKept DEF Stop, CancelTasks, Restart, vars, Monitored, Executing,
      taskVars, pumpVars
<1>. QED
  BY <1>1, <1>2, <1>3, <1>4 DEF Next, Work

\* Neither the cap on children nor the permits of the workers are exceeded.
THEOREM Bounded == Spec => []SlotsBounded
  BY SpecInv, SlotsInit, SlotsStep, PTL DEF Spec

-----------------------------------------------------------------------------
(* JobRunner implements DocumentSlot. *)

\* The slots after a step, with the prime on the status alone.
ActiveNext(k) == status'[k] \in ActiveStatus
BusyNext(d) == \E k \in Job : DocOf[k] = d /\ ActiveNext(k)
SlotNext(d) ==
    IF BusyNext(d) THEN CHOOSE j \in Job : DocOf[j] = d /\ ActiveNext(j) ELSE NoJob

\* The owner of a document's slot, in the next state.
LEMMA SlotPrimed ==
    /\ [d \in Doc |-> SlotOf(d)]' = [d \in Doc |-> SlotNext(d)]
    /\ OneActivePerDocument' =>
          \A j, k \in Job : DocOf[j] = DocOf[k] /\ ActiveNext(j) /\ ActiveNext(k) => j = k
  BY DEF SlotOf, Busy, Active, SlotNext, BusyNext, ActiveNext, OneActivePerDocument

\* An active job is the owner of its document's slot.
LEMMA SlotOfActive ==
    ASSUME OneActivePerDocument, NEW j \in Job, Active(j)
    PROVE  SlotOf(DocOf[j]) = j
  BY DEF OneActivePerDocument, SlotOf, Busy

\* A step that activates no job and creates no record gives slots back.
LEMMA ReleaseStep ==
    ASSUME IInv, \A k \in Job : ActiveNext(k) => Active(k),
           \A k \in Job : status'[k] = "none" <=> status[k] = "none"
    PROVE  \E D \in SUBSET Doc : Slots!Release(D)
<1> DEFINE D == {d \in Doc : ~BusyNext(d)}
<1>1. ASSUME NEW d \in Doc, BusyNext(d) PROVE SlotNext(d) = SlotOf(d)
  <2>1. \A k \in Job : DocOf[k] = d /\ Active(k) => SlotOf(d) = k
    BY SlotOfActive DEF IInv
  <2>2. \A k \in Job : DocOf[k] = d /\ ActiveNext(k) => SlotOf(d) = k
    BY <2>1
  <2>. QED
    BY <1>1, <2>2 DEF SlotNext, BusyNext
<1>2. \A d \in Doc : ~BusyNext(d) => SlotNext(d) = NoJob
  BY DEF SlotNext
<1>3. {j \in Job : status'[j] # "none"} = {j \in Job : status[j] # "none"}
  OBVIOUS
<1>4. [d \in Doc |-> SlotNext(d)] = [d \in Doc |-> IF d \in D THEN NoJob ELSE [c \in Doc |-> SlotOf(c)][d]]
  BY <1>1, <1>2
<1>5. Slots!Release(D)
  BY <1>3, <1>4, SlotPrimed DEF Slots!Release
<1>. QED
  BY <1>5

\* A submission acquires the slot of its document.
LEMMA AcquireStep ==
    ASSUME IInv, NEW j \in Job, Admit(j), status' = [status EXCEPT ![j] = "queued"]
    PROVE  Slots!Acquire(j)
<1> USE ConstantsAssumption DEF IInv, TypeOK
<1>1. ActiveNext(j) /\ \A k \in Job : k # j => (ActiveNext(k) <=> Active(k))
  BY DEF ActiveNext, Active, ActiveStatus
<1>2. DocOf[j] \in Doc /\ SlotOf(DocOf[j]) = NoJob
  BY DEF SlotOf, Admit
<1>3. SlotNext(DocOf[j]) = j
  <2>1. \A k \in Job : DocOf[k] = DocOf[j] /\ ActiveNext(k) => k = j
    BY <1>1 DEF Admit, Busy
  <2>. QED
    BY <1>1, <2>1 DEF SlotNext, BusyNext
<1>4. ASSUME NEW d \in Doc, d # DocOf[j] PROVE SlotNext(d) = SlotOf(d)
  <2>1. \A k \in Job : (DocOf[k] = d /\ ActiveNext(k)) <=> (DocOf[k] = d /\ Active(k))
    BY <1>1, <1>4
  <2>2. (CHOOSE k \in Job : DocOf[k] = d
      /\ ActiveNext(k)) = (CHOOSE k \in Job : DocOf[k] = d /\ Active(k))
    BY <2>1
  <2>. QED
    BY <2>1, <2>2 DEF SlotOf, Busy, SlotNext, BusyNext
<1>5. {k \in Job : status'[k] # "none"} = {k \in Job : status[k] # "none"} \cup {j}
  OBVIOUS
<1>6. j \notin {k \in Job : status[k] # "none"}
  BY DEF Admit
<1>7. [d \in Doc |-> SlotNext(d)] = [[d \in Doc |-> SlotOf(d)] EXCEPT ![DocOf[j]] = j]
  BY <1>2, <1>3, <1>4
<1>. QED
  BY <1>2, <1>5, <1>6, <1>7, SlotPrimed DEF Slots!Acquire

\* Which steps activate a job: the two submissions, and no other.
LEMMA ActiveStep ==
    ASSUME IInv, [Next]_vars, \A j \in Job : ~Submit(j) /\ ~SubmitLocal(j), NEW k \in Job
    PROVE  (ActiveNext(k) => Active(k)) /\ (status'[k] = "none" <=> status[k] = "none")
<1> USE DEF IInv, TypeOK, Active, ActiveNext, ActiveStatus
<1>1. CASE Pump
  <2>1. ASSUME NEW j \in Job, StartPipeline(j) PROVE (ActiveNext(k) => Active(k))
      /\ (status'[k] = "none" <=> status[k] = "none")
    BY <2>1, PopType DEF StartPipeline, Launch, Refuse
  <2>2. CASE Prepared
    BY <2>2 DEF Prepared, PreparedQueued, Launch, Refuse
  <2>. QED
    BY <1>1, <2>1, <2>2 DEF Pump, PumpEnter, PumpLeave, StartIsolated, registryVars
<1>2. ASSUME NEW j \in Job, Cancel(j) PROVE (ActiveNext(k) => Active(k))
      /\ (status'[k] = "none" <=> status[k] = "none")
  BY <1>2 DEF Cancel, CancelQueued, CancelRunning, CancelLocal, CancelIgnored
<1>3. ASSUME NEW j \in Job, Watch(j) PROVE (ActiveNext(k) => Active(k))
      /\ (status'[k] = "none" <=> status[k] = "none")
  BY <1>3 DEF Watch, ObserveExit, Timeout, KillReturns, Settle, ExitStatus,
      MonitorKnows, registryVars
<1>4. ASSUME NEW j \in Job, Work(j) PROVE (ActiveNext(k) => Active(k))
      /\ (status'[k] = "none" <=> status[k] = "none")
  BY <1>4 DEF Work, LocalSkip, LocalBegin, LocalFinish, LocalPermit, WorkerKnows,
      registryVars
<1>5. ASSUME NEW j \in Job, Fault(j) PROVE (ActiveNext(k) => Active(k))
      /\ (status'[k] = "none" <=> status[k] = "none")
  <2>1. CASE StartFault(j)
    <3>1. status[j] = "queued"
      BY <2>1, PopType, ConstantsAssumption DEF StartFault, PreparedQueued
    <3>. QED
      BY <2>1, <3>1 DEF StartFault
  <2>2. CASE SettleFault(j) \/ LocalFault(j)
    BY <2>2 DEF SettleFault, LocalFault, LocalPermit, MonitorKnows, WorkerKnows
  <2>. QED
    BY <1>5, <2>1, <2>2 DEF Fault
<1>6. CASE Stop \/ CancelTasks \/ Restart
  BY <1>6 DEF Stop, CancelTasks, Restart, Recovered, registryVars
<1>. QED
  BY <1>1, <1>2, <1>3, <1>4, <1>5, <1>6 DEF Next, Client, ChildExit, vars, registryVars

\* However the queue, the pumps, the monitors, the workers and the restarts
\* interleave, a document's slot is taken only when free and once per job.
THEOREM Implements == Spec => SlotRefinement
<1>1. Init => Slots!Init
  BY DEF Init, Slots!Init, SlotOf, Busy, Active, ActiveStatus
<1>2. IInv /\ [Next]_vars => [Slots!Next]_(Slots!vars)
  <2> SUFFICES ASSUME IInv, [Next]_vars PROVE Slots!Next
    OBVIOUS
  <2>1. ASSUME NEW j \in Job, Submit(j) \/ SubmitLocal(j) PROVE Slots!Next
    BY <2>1, AcquireStep DEF Submit, SubmitLocal, Slots!Next
  <2>2. CASE \A j \in Job : ~Submit(j) /\ ~SubmitLocal(j)
    BY <2>2, ActiveStep, ReleaseStep DEF Slots!Next
  <2>. QED
    BY <2>1, <2>2
<1>. QED
  BY SpecInv, <1>1, <1>2, PTL DEF Spec, SlotRefinement, Slots!Spec

-----------------------------------------------------------------------------
(* Nothing is lost.  An active record is in the hands that will act on it next; *)
(* which hands these are depends on its scope and status.                      *)

InQueue(q, j) == \E i \in 1..Len(q) : q[i] = j

Held(j) ==
    /\ j \in Spawned /\ status[j] = "queued" => InQueue(queue, j) \/ preparing = j
    /\ j \in Spawned /\ status[j] = "running" => monitor[j] # "none"
    /\ j \in Local /\ Active(j) => worker[j] # "none"

HeldInv == faults = 0 /\ phase # "ending" => \A j \in Job : Held(j)

\* The pump takes a job and skips those before it, which are not queued any more.
LEMMA PopKeeps ==
    ASSUME queue \in Seq(Job), NEW j \in Job, Pop(j),
           NEW k \in Job, k # j, status[k] = "queued", InQueue(queue, k)
    PROVE  InQueue(queue', k)
<1>1. PICK i \in 1..Len(queue) : Popped(j, i) /\ queue' = SubSeq(queue, i + 1, Len(queue))
  BY DEF Pop
<1>2. PICK n \in 1..Len(queue) : queue[n] = k
  BY DEF InQueue
<1>3. n > i
  BY <1>1, <1>2 DEF Popped
<1>4. /\ Len(queue') = Len(queue) - i
      /\ \A m \in 1..Len(queue) - i : queue'[m] = queue[i + m]
  <2>1. \A m \in (i + 1)..Len(queue) : queue[m] \in Job
    OBVIOUS
  <2>. QED
    BY <1>1, <2>1, SubSeqProperties
<1>5. n - i \in 1..Len(queue') /\ queue'[n - i] = k
  BY <1>2, <1>3, <1>4
<1>. QED
  BY <1>5 DEF InQueue

\* A cancel takes its own job out of the queue and no other.
LEMMA RemovedKeeps ==
    ASSUME NEW q \in Seq(Job), NEW j \in Job, NEW k \in Job, k # j, InQueue(q, k)
    PROVE  InQueue(Removed(q, j), k)
<1>1. CASE \E i \in 1..Len(q) : q[i] = j
  <2> DEFINE n == CHOOSE i \in 1..Len(q) : q[i] = j
             front == SubSeq(q, 1, n - 1)
             back == SubSeq(q, n + 1, Len(q))
  <2>1. n \in 1..Len(q) /\ q[n] = j
    BY <1>1
  <2>2. Removed(q, j) = front \o back
    BY <1>1 DEF Removed
  <2> HIDE DEF n
  <2>3. /\ front \in Seq(Job) /\ Len(front) = n - 1
        /\ \A m \in 1..(n - 1) : front[m] = q[m]
    <3>1. \A m \in 1..(n - 1) : q[m] \in Job
      BY <2>1
    <3>. QED
      BY <2>1, <3>1, SubSeqProperties
  <2>4. /\ back \in Seq(Job) /\ Len(back) = Len(q) - n
        /\ \A m \in 1..(Len(q) - n) : back[m] = q[n + m]
    <3>1. \A m \in (n + 1)..Len(q) : q[m] \in Job
      BY <2>1
    <3>. QED
      BY <2>1, <3>1, SubSeqProperties
  <2> HIDE DEF front, back
  <2>5. /\ Len(front \o back) = Len(front) + Len(back)
        /\ \A m \in 1..Len(front) + Len(back) :
               (front \o back)[m] = IF m <= Len(front) THEN front[m] ELSE back[m - Len(front)]
    BY <2>3, <2>4, ConcatProperties
  <2>6. PICK m \in 1..Len(q) : q[m] = k
    BY DEF InQueue
  <2>7. CASE m < n
    <3>1. m \in 1..(n - 1) /\ m \in 1..Len(front) + Len(back) /\ m <= Len(front)
      BY <2>1, <2>3, <2>4, <2>6, <2>7
    <3>. QED
      BY <2>2, <2>3, <2>5, <2>6, <3>1 DEF InQueue
  <2>8. CASE m > n
    <3>1. /\ m - n \in 1..(Len(q) - n) /\ n + (m - n) = m
          /\ m - 1 \in 1..Len(front) + Len(back) /\ ~(m - 1 <= Len(front))
          /\ (m - 1) - Len(front) = m - n
      BY <2>1, <2>3, <2>4, <2>6, <2>8
    <3>2. (front \o back)[m - 1] = k
      BY <2>4, <2>5, <2>6, <3>1
    <3>. QED
      BY <2>2, <2>5, <3>1, <3>2 DEF InQueue
  <2>. QED
    BY <2>1, <2>6, <2>7, <2>8
<1>2. CASE ~ \E i \in 1..Len(q) : q[i] = j
  BY <1>2 DEF Removed
<1>. QED
  BY <1>1, <1>2

\* The steps of the pump: what leaves the queue is prepared, started or finished.
LEMMA HeldPump ==
    ASSUME IInv, Pump, \A k \in Job : Held(k), NEW j \in Job PROVE Held(j)'
<1> USE DEF IInv, TypeOK
<1>0. Spawned' = Spawned /\ Local' = Local /\ (j \in Spawned => j \notin Local) /\ Held(j)
  BY Disjoint DEF Spawned, Local
<1>1. CASE \E c \in PumpCaller : PumpEnter(c)
  BY <1>0, <1>1 DEF PumpEnter, Held, InQueue, Active, registryVars, taskVars
<1>2. CASE PumpLeave
  <2>1. UNCHANGED <<status, monitor, worker, preparing>> /\ preparing = NoJob
    BY <1>2 DEF PumpLeave, registryVars, taskVars
  <2>2. CASE SlotFree
    <3>1. ~(InQueue(queue, j) /\ status[j] = "queued")
      BY <1>2, <2>2 DEF PumpLeave, InQueue
    <3>. QED
      BY <1>0, <2>1, <3>1, ConstantsAssumption DEF Held, Active
  <2>3. CASE ~SlotFree
    BY <1>0, <1>2, <2>1, <2>3 DEF PumpLeave, Held, Active
  <2>. QED
    BY <2>2, <2>3
<1>3. CASE Prepared
  <2>1. /\ preparing \in Job /\ preparing \in Spawned /\ UNCHANGED <<queue, worker>>
        /\ Launch(preparing) \/ Refuse(preparing)
    BY <1>3 DEF Prepared, PreparedQueued, Launch, Refuse, taskVars
  <2>2. CASE j = preparing
    BY <1>0, <2>1, <2>2 DEF Launch, Refuse, Held
  <2>3. CASE j # preparing
    <3>1. status'[j] = status[j] /\ monitor'[j] = monitor[j]
      BY <2>1, <2>3 DEF Launch, Refuse, taskVars
    <3>. QED
      BY <1>0, <2>1, <2>3, <3>1 DEF Held, Active
  <2>. QED
    BY <2>2, <2>3
<1>4. ASSUME NEW k \in Job, StartPipeline(k) PROVE Held(j)'
  <2>1. /\ Pop(k) /\ k \in Spawned /\ UNCHANGED <<preparing, worker>>
        /\ Launch(k) \/ Refuse(k)
    BY <1>4 DEF StartPipeline, Launch, Refuse, taskVars, Spawned, SpawnScope
  <2>2. CASE j = k
    BY <1>0, <2>1, <2>2 DEF Launch, Refuse, Held
  <2>3. CASE j # k
    <3>1. status'[j] = status[j] /\ monitor'[j] = monitor[j]
      BY <2>1, <2>3 DEF Launch, Refuse, taskVars
    <3>2. InQueue(queue, j) /\ status[j] = "queued" => InQueue(queue', j)
      BY <2>1, <2>3, PopKeeps
    <3>. QED
      BY <1>0, <2>1, <3>1, <3>2 DEF Held, Active
  <2>. QED
    BY <2>2, <2>3
<1>5. ASSUME NEW k \in Job, StartIsolated(k) PROVE Held(j)'
  <2>1. /\ Pop(k) /\ preparing' = k /\ preparing = NoJob
        /\ UNCHANGED <<status, monitor, worker>>
    BY <1>5 DEF StartIsolated, Pop, registryVars, taskVars
  <2>2. j # k /\ InQueue(queue, j) /\ status[j] = "queued" => InQueue(queue', j)
    BY <2>1, PopKeeps
  <2>. QED
    BY <1>0, <2>1, <2>2, ConstantsAssumption DEF Held, Active
<1>. QED
  BY <1>1, <1>2, <1>3, <1>4, <1>5 DEF Pump

\* A request puts its job into a hand, a cancel takes it out of one with its status.
LEMMA HeldClient ==
    ASSUME IInv, NEW k \in Job, Client(k), \A n \in Job : Held(n), NEW j \in Job PROVE Held(j)'
<1> USE DEF IInv, TypeOK
<1>0. Spawned' = Spawned /\ Local' = Local /\ (j \in Spawned => j \notin Local) /\ Held(j)
  BY Disjoint DEF Spawned, Local
<1>1. CASE Submit(k)
  <2>1. /\ UNCHANGED <<preparing, monitor, worker>> /\ k \in Spawned
        /\ status' = [status EXCEPT ![k] = "queued"] /\ queue' = Append(queue, k)
    BY <1>1 DEF Submit, taskVars
  <2>2. /\ Len(queue') = Len(queue) + 1 /\ queue'[Len(queue) + 1] = k
        /\ \A i \in 1..Len(queue) : queue'[i] = queue[i]
    BY <2>1, AppendProperties
  <2>3. InQueue(queue', k) /\ (InQueue(queue, j) => InQueue(queue', j))
    <3>1. Len(queue) + 1 \in 1..Len(queue') /\ \A i \in 1..Len(queue) : i \in 1..Len(queue')
      BY <2>2
    <3>. QED
      BY <2>2, <3>1 DEF InQueue
  <2>. QED
    BY <1>0, <2>1, <2>3 DEF Held, Active
<1>2. CASE SubmitLocal(k)
  BY <1>0, <1>2 DEF SubmitLocal, Held, Active, pumpVars
<1>3. CASE Cancel(k)
  <2>1. UNCHANGED <<preparing, monitor, worker>>
    BY <1>3 DEF Cancel
  <2>2. CASE CancelQueued(k)
    <3>1. InQueue(queue, j) /\ j # k => InQueue(queue', j)
      BY <2>2, RemovedKeeps DEF CancelQueued
    <3>. QED
      BY <1>0, <2>1, <2>2, <3>1 DEF CancelQueued, Held, Active, ActiveStatus
  <2>3. CASE UNCHANGED <<status, queue>>
    BY <1>0, <2>1, <2>3 DEF Held, Active
  <2>. QED
    BY <1>3, <2>2, <2>3 DEF Cancel, CancelRunning, CancelLocal, CancelIgnored
<1>. QED
  BY <1>1, <1>2, <1>3 DEF Client

LEMMA HeldNext == IInv /\ HeldInv /\ [Next]_vars => HeldInv'
<1> SUFFICES ASSUME IInv, HeldInv, [Next]_vars, faults' = 0, phase' # "ending", NEW j \in Job
             PROVE  Held(j)'
  BY DEF HeldInv
<1> USE DEF IInv, TypeOK
<1>0. Spawned' = Spawned /\ Local' = Local /\ (j \in Spawned => j \notin Local)
  BY Disjoint DEF Spawned, Local
<1>1. CASE Restart
  <2>1. ~Active(j)'
    BY <1>1 DEF Restart, Recovered, Active, ActiveStatus
  <2>. QED
    BY <2>1 DEF Held, Active, ActiveStatus
<1>2. ASSUME ~Restart PROVE faults = 0 /\ phase # "ending"
  <2>1. faults \in Nat
    BY ConstantsAssumption
  <2>2. ASSUME NEW k \in Job, Fault(k) PROVE FALSE
    BY <2>1, <2>2 DEF Fault, StartFault, SettleFault, LocalFault
  <2>3. CASE Pump
    BY <2>3 DEF Pump, PumpEnter, PumpLeave, Prepared, StartPipeline, StartIsolated, serverVars
  <2>4. ASSUME NEW k \in Job, Client(k) \/ Watch(k) \/ Work(k) \/ ChildExit(k)
        PROVE  UNCHANGED <<faults, phase>>
    BY <2>4 DEF Client, Submit, SubmitLocal, Cancel, Watch, ObserveExit, Timeout, KillReturns,
       Settle, Work, LocalSkip, LocalBegin, LocalFinish, ChildExit, serverVars
  <2>. QED
    BY <1>2, <2>2, <2>3, <2>4 DEF Next, Stop, CancelTasks, vars, serverVars
<1>3. ASSUME ~Restart PROVE \A k \in Job : Held(k)
  BY <1>2, <1>3 DEF HeldInv
<1>4. CASE Pump /\ ~Restart
  BY <1>3, <1>4, HeldPump
<1>5. ASSUME NEW k \in Job, Client(k), ~Restart PROVE Held(j)'
  BY <1>3, <1>5, HeldClient
<1>6. ASSUME NEW k \in Job, Watch(k), ~Restart PROVE Held(j)'
  <2>1. UNCHANGED <<queue, preparing, worker>>
    BY <1>6 DEF Watch, ObserveExit, Timeout, KillReturns, Settle, pumpVars
  <2>2. CASE status'[j] = status[j] /\ (monitor[j] # "none" => monitor'[j] # "none")
    BY <1>0, <1>3, <1>6, <2>1, <2>2 DEF Held, Active
  <2>3. CASE Settle(k) /\ j = k
    <3>1. status'[j] \notin ActiveStatus
      BY <2>3 DEF Settle, ExitStatus, ActiveStatus
    <3>. QED
      BY <3>1 DEF Held, Active, ActiveStatus
  <2>. QED
    BY <1>6, <2>2, <2>3 DEF Watch, ObserveExit, Timeout, KillReturns, Settle, registryVars
<1>7. ASSUME NEW k \in Job, Work(k), ~Restart PROVE Held(j)'
  <2>1. UNCHANGED <<queue, preparing, monitor>>
    BY <1>7 DEF Work, LocalSkip, LocalBegin, LocalFinish, pumpVars
  <2>2. k \in Local
    BY <1>7 DEF Work, LocalSkip, LocalBegin, LocalFinish, LocalPermit, WorkerKnows
  <2>3. CASE j # k
    <3>1. status'[j] = status[j] /\ worker'[j] = worker[j]
      BY <1>7, <2>3 DEF Work, LocalSkip, LocalBegin, LocalFinish, registryVars
    <3>. QED
      BY <1>0, <1>3, <1>7, <2>1, <3>1 DEF Held, Active
  <2>4. CASE j = k
    <3>1. worker'[k] # "none" \/ status'[k] \notin ActiveStatus
      BY <1>7 DEF Work, LocalSkip, LocalBegin, LocalFinish, ActiveStatus, registryVars
    <3>. QED
      BY <1>0, <2>2, <2>4, <3>1 DEF Held, Active
  <2>. QED
    BY <2>3, <2>4
<1>8. ASSUME NEW k \in Job, Fault(k), ~Restart PROVE Held(j)'
  BY <1>2, <1>8 DEF Fault, StartFault, SettleFault, LocalFault
<1>9. CASE Stop /\ ~Restart
  <2>1. UNCHANGED <<queue, preparing, monitor, worker>>
    BY <1>9 DEF Stop, pumpVars, taskVars
  <2>2. status'[j] = status[j] \/ status'[j] = "canceled"
    BY <1>9 DEF Stop
  <2>. QED
    BY <1>0, <1>3, <1>9, <2>1, <2>2 DEF Held, Active, ActiveStatus
<1>10. ASSUME ~Restart, UNCHANGED <<status, queue, preparing, monitor, worker>> PROVE Held(j)'
  BY <1>0, <1>3, <1>10 DEF Held, Active
<1>. QED
  BY <1>1, <1>4, <1>5, <1>6, <1>7, <1>8, <1>9, <1>10
     DEF Next, ChildExit, CancelTasks, vars, registryVars, pumpVars, taskVars

\* No active job is lost between the queue, the pump, the monitors and the workers, for
\* any cancels, timeouts, crashes and stops: only a write that raised can lose one.
THEOREM NoneLost == Spec => []LostOnlyByFault
<1>1. Init => HeldInv
  BY DEF Init, HeldInv, Held, Active, ActiveStatus
<1>2. IInv /\ HeldInv => LostOnlyByFault
  <2> SUFFICES ASSUME HeldInv, faults = 0, phase # "ending", NEW j \in Job, Active(j)
               PROVE  InHand(j)
    BY DEF LostOnlyByFault
  <2>1. Held(j)
    BY DEF HeldInv
  <2>2. j \in Spawned \/ j \in Local
    BY ConstantsAssumption DEF Spawned, Local
  <2>. QED
    BY <2>1, <2>2 DEF Held, InHand, InQueue, Monitored, Active, ActiveStatus
<1>3. IInv /\ HeldInv /\ [Next]_vars => (IInv /\ HeldInv)'
  BY NextInv, HeldNext
<1>. QED
  BY InitInv, <1>1, <1>2, <1>3, PTL DEF Spec

=============================================================================
