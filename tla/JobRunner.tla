------------------------------ MODULE JobRunner ------------------------------
(***************************************************************************)
(* The job lifecycle of "bdt serve": admission, the FIFO of queued jobs,   *)
(* the concurrency cap, the monitored child processes, cancellation, the   *)
(* in-process compile workers, graceful stop, crash and restart.           *)
(*                                                                         *)
(* Source: babeldoc_tools/serve/jobs.py (JobRegistry), runner.py           *)
(* (JobRunner) and the task part of block_compile.py (BlockCompiler).      *)
(*                                                                         *)
(* The server is one asyncio event loop, so a handler runs atomically from *)
(* one suspension to the next.  The suspensions are the registry lock, the *)
(* worker thread that copies a snapshot, the polling of a child, the       *)
(* draining of its pipes and the semaphore of the compile workers; each    *)
(* action below is the code between two of them.                           *)
(***************************************************************************)
EXTENDS Naturals, Sequences, FiniteSets

CONSTANTS
    Job,            \* the submissions clients may make
    Doc,            \* documents
    DocOf,          \* [Job -> Doc]
    ScopeOf,        \* [Job -> Scope]: which code path serves the submission
    MaxConcurrent,  \* MAX_CONCURRENT_JOBS
    MaxLocal,       \* permits of BlockCompiler.semaphore
    MaxBoots,       \* bound: processes of bdt serve in a behaviour
    MaxFaults,      \* bound: writes of a start, a monitor or a worker that raise
    NoJob

\* "pipeline" = run and check, spawned at once; "isolated" = compile and
\* retranslate, spawned after a snapshot copied in a worker thread; the others
\* run in a thread of the server itself.
SpawnScope == {"pipeline", "isolated"}
LocalScope == {"block", "blocks", "export"}
ActiveStatus == {"queued", "running"}
TerminalStatus == {"succeeded", "failed", "canceled", "interrupted"}
\* Who calls _pump: a request that submitted a job, a monitor that finished, a
\* monitor that the event loop canceled.
PumpCaller == {"request", "monitor", "canceled"}

ASSUME ConstantsAssumption ==
    /\ DocOf \in [Job -> Doc]
    /\ ScopeOf \in [Job -> SpawnScope \cup LocalScope]
    /\ MaxConcurrent \in Nat \ {0}
    /\ MaxLocal \in Nat \ {0}
    /\ MaxBoots \in Nat \ {0}
    /\ MaxFaults \in Nat
    /\ NoJob \notin Job
    /\ IsFiniteSet(Job)

VARIABLES
    status,     \* JobRecord.status, "none" before the record exists
    cancelReq,  \* jobs whose cancel_requested_at is set
    jobBoot,    \* JobRecord.boot_id (0 = unset)
    queue,      \* JobRegistry._queue
    pumps,      \* calls of _pump waiting for JobRegistry.lock, by their caller
    holder,     \* the caller of the pump that holds the lock, or "free"
    preparing,  \* the job whose snapshot is being copied under the lock
    monitor,    \* the _watch task of a job in JobRunner._running
    child,      \* the child process group of a job
    worker,     \* the BlockCompiler task of a local job
    boot,       \* the running server process
    phase,      \* "serving"; "stopping": the lifespan handler runs; "ending":
                \* the event loop has canceled its tasks and runs them out
    faults      \* writes that raised so far

registryVars == <<status, cancelReq, jobBoot>>
pumpVars == <<queue, pumps, holder, preparing>>
taskVars == <<monitor, child, worker>>
serverVars == <<boot, phase, faults>>
vars == <<registryVars, pumpVars, taskVars, serverVars>>

Spawned == {j \in Job : ScopeOf[j] \in SpawnScope}
Local == {j \in Job : ScopeOf[j] \in LocalScope}
Active(j) == status[j] \in ActiveStatus
Terminal(j) == status[j] \in TerminalStatus
\* active_for_did
Busy(d) == \E k \in Job : DocOf[k] = d /\ Active(k)
Monitored == {j \in Job : monitor[j] # "none"}
Executing == {j \in Job : worker[j] = "executing"}
\* A child that may still be working for its job; "stuck" is one that SIGKILL
\* did not stop within the grace period.
Live(j) == child[j] \in {"alive", "stopping"}

TypeOK ==
    /\ status \in [Job -> {"none"} \cup ActiveStatus \cup TerminalStatus]
    /\ cancelReq \in SUBSET Job
    /\ jobBoot \in [Job -> Nat]
    /\ queue \in Seq(Job)
    /\ pumps \in [PumpCaller -> Nat]
    /\ holder \in PumpCaller \cup {"free"}
    /\ preparing \in Job \cup {NoJob}
    /\ monitor \in [Job -> {"none", "polling", "killing", "draining", "expired"}]
    /\ child \in [Job -> {"none", "alive", "stopping", "stuck", "exited"}]
    /\ worker \in [Job -> {"none", "waiting", "executing"}]
    /\ boot \in 1..MaxBoots
    /\ phase \in {"serving", "stopping", "ending"}
    /\ faults \in 0..MaxFaults

Init ==
    /\ status = [j \in Job |-> "none"]
    /\ cancelReq = {}
    /\ jobBoot = [j \in Job |-> 0]
    /\ queue = <<>>
    /\ pumps = [c \in PumpCaller |-> 0]
    /\ holder = "free"
    /\ preparing = NoJob
    /\ monitor = [j \in Job |-> "none"]
    /\ child = [j \in Job |-> "none"]
    /\ worker = [j \in Job |-> "none"]
    /\ boot = 1
    /\ phase = "serving"
    /\ faults = 0

-----------------------------------------------------------------------------
(* Admission *)

\* BUG: the document is checked for a running job only, a queued one admitted.
Admit_BusyOnlyRunning(j) ==
    /\ phase = "serving"
    /\ holder = "free"
    /\ status[j] = "none"
    /\ \A k \in Job : DocOf[k] = DocOf[j] => status[k] # "running"

\* The check every submission makes holding the registry lock.
Admit(j) ==
    /\ phase = "serving"
    /\ holder = "free"
    /\ status[j] = "none"
    /\ ~Busy(DocOf[j])

\* JobRunner.submit: create the record, enqueue it, then pump.
Submit(j) ==
    /\ j \in Spawned
    /\ Admit(j)
    /\ status' = [status EXCEPT ![j] = "queued"]
    /\ queue' = Append(queue, j)
    /\ pumps' = [pumps EXCEPT !["request"] = @ + 1]
    /\ UNCHANGED <<cancelReq, jobBoot, holder, preparing, taskVars, serverVars>>

\* BlockCompiler.submit and submit_batch: the record leaves the queue in the
\* same critical section and a task waits for a permit of the semaphore. (The writes of
\* a submission are not among the faults: see README.md.)
SubmitLocal(j) ==
    /\ j \in Local
    /\ Admit(j)
    /\ status' = [status EXCEPT ![j] = "queued"]
    /\ worker' = [worker EXCEPT ![j] = "waiting"]
    /\ UNCHANGED <<cancelReq, jobBoot, pumpVars, monitor, child, serverVars>>

-----------------------------------------------------------------------------
(* Scheduling: _pump holds the registry lock while it fills the free slots. *)

PumpEnter(c) ==
    /\ holder = "free"
    /\ pumps[c] > 0
    /\ holder' = c
    /\ pumps' = [pumps EXCEPT ![c] = @ - 1]
    /\ UNCHANGED <<registryVars, queue, preparing, taskVars, serverVars>>

\* BUG: one slot too many.
SlotFree_OffByOne == Cardinality(Monitored) <= MaxConcurrent

SlotFree == Cardinality(Monitored) < MaxConcurrent

\* The first entry of the queue that is still queued (pop_queued).
Popped(j, i) ==
    /\ i \in 1..Len(queue)
    /\ queue[i] = j
    /\ status[j] = "queued"
    /\ \A k \in 1..(i - 1) : status[queue[k]] # "queued"

\* BUG: the record is popped before the slots are counted.
PumpLeave_PopFirst ==
    /\ holder # "free"
    /\ preparing = NoJob
    /\ \/ ~SlotFree
       \/ \A i \in 1..Len(queue) : status[queue[i]] # "queued"
    /\ holder' = "free"
    /\ queue' = IF queue = <<>> THEN queue ELSE Tail(queue)
    /\ UNCHANGED <<registryVars, preparing, pumps, taskVars, serverVars>>

PumpLeave ==
    /\ holder # "free"
    /\ preparing = NoJob
    /\ \/ ~SlotFree
       \/ \A i \in 1..Len(queue) : status[queue[i]] # "queued"
    /\ holder' = "free"
    /\ queue' = IF SlotFree THEN <<>> ELSE queue
    /\ UNCHANGED <<registryVars, preparing, pumps, taskVars, serverVars>>

\* _launch: mark_started and the monitor task.
Launch(j) ==
    /\ status' = [status EXCEPT ![j] = "running"]
    /\ jobBoot' = [jobBoot EXCEPT ![j] = boot]
    /\ child' = [child EXCEPT ![j] = "alive"]
    /\ monitor' = [monitor EXCEPT ![j] = "polling"]
    /\ UNCHANGED <<cancelReq, worker>>

\* The start is refused: profile gone, invalid input, no snapshot, no spawn.
Refuse(j) ==
    /\ status' = [status EXCEPT ![j] = "failed"]
    /\ UNCHANGED <<cancelReq, jobBoot, taskVars>>

Pop(j) ==
    /\ holder # "free"
    /\ preparing = NoJob
    /\ SlotFree
    /\ \E i \in 1..Len(queue) :
          /\ Popped(j, i)
          /\ queue' = SubSeq(queue, i + 1, Len(queue))

StartPipeline(j) ==
    /\ ScopeOf[j] = "pipeline"
    /\ Pop(j)
    /\ Launch(j) \/ Refuse(j)
    /\ UNCHANGED <<holder, preparing, pumps, serverVars>>

\* prepare_compile and prepare_candidates run in a worker thread; the lock
\* stays with the pump meanwhile.
StartIsolated(j) ==
    /\ ScopeOf[j] = "isolated"
    /\ Pop(j)
    /\ preparing' = j
    /\ UNCHANGED <<registryVars, holder, pumps, taskVars, serverVars>>

Prepared ==
    /\ preparing # NoJob
    /\ preparing' = NoJob
    /\ Launch(preparing) \/ Refuse(preparing)
    /\ UNCHANGED <<queue, holder, pumps, serverVars>>

\* _start catches ToolError and OSError, and not where it handles them. An
\* sqlite3.Error of app.db, or an OSError of the failed state or of the row of
\* a candidate, leaves the pump: before the spawn, or without one, the record
\* stays queued and is in no queue; in mark_started the child runs, the record says
\* running and no monitor exists.
StartFault(j) ==
    /\ faults < MaxFaults
    /\ faults' = faults + 1
    /\ \/ ScopeOf[j] = "pipeline" /\ Pop(j) /\ UNCHANGED preparing
       \/ preparing = j /\ preparing' = NoJob /\ UNCHANGED queue
    /\ holder' = "free"
    /\ \/ UNCHANGED <<status, jobBoot, child>>
       \/ /\ status' = [status EXCEPT ![j] = "running"]
          /\ jobBoot' = [jobBoot EXCEPT ![j] = boot]
          /\ child' = [child EXCEPT ![j] = "alive"]
    /\ UNCHANGED <<cancelReq, pumps, monitor, worker, boot, phase>>

-----------------------------------------------------------------------------
(* Child processes and their monitors (_watch, _wait_exit, _terminate). *)

\* The operating system: a child ends by itself or because it was signalled.
ChildExit(j) ==
    /\ child[j] \in {"alive", "stopping", "stuck"}
    /\ child' = [child EXCEPT ![j] = "exited"]
    /\ UNCHANGED <<registryVars, pumpVars, monitor, worker, serverVars>>

ObserveExit(j) ==
    /\ monitor[j] = "polling"
    /\ child[j] = "exited"
    /\ monitor' = [monitor EXCEPT ![j] = "draining"]
    /\ UNCHANGED <<registryVars, pumpVars, child, worker, serverVars>>

\* The deadline passed: SIGTERM to the process group.
Timeout(j) ==
    /\ monitor[j] = "polling"
    /\ child[j] # "exited"
    /\ monitor' = [monitor EXCEPT ![j] = "killing"]
    /\ child' = [child EXCEPT ![j] = "stopping"]
    /\ UNCHANGED <<registryVars, pumpVars, worker, serverVars>>

\* BUG: the grace period ends without a SIGKILL.
KillReturns_NoKill(j) ==
    /\ monitor[j] = "killing"
    /\ monitor' = [monitor EXCEPT ![j] = "expired"]
    /\ UNCHANGED <<registryVars, pumpVars, child, worker, serverVars>>

\* _terminate returns: the child exited, or SIGKILL's grace passed as well and
\* the child is in an uninterruptible call.
KillReturns(j) ==
    /\ monitor[j] = "killing"
    /\ monitor' = [monitor EXCEPT ![j] = "expired"]
    /\ child' = [child EXCEPT ![j] = IF @ = "exited" THEN "exited" ELSE "stuck"]
    /\ UNCHANGED <<registryVars, pumpVars, worker, serverVars>>

\* BUG: the cancel flag is not looked at when the result is classified.
ExitStatus_NoCancel(j) ==
    IF monitor[j] = "expired" THEN {"failed"} ELSE {"succeeded", "failed"}

\* classify_exit: timeout, then cancel, then the envelope and the exit code.
ExitStatus(j) ==
    CASE monitor[j] = "expired" -> {"failed"}
      [] monitor[j] # "expired" /\ j \in cancelReq -> {"canceled"}
      [] OTHER -> {"succeeded", "failed"}

\* BUG: a finished job wakes nobody up.
Settle_NoPump(j) ==
    /\ monitor[j] \in {"draining", "expired"}
    /\ \E s \in ExitStatus(j) : status' = [status EXCEPT ![j] = s]
    /\ monitor' = [monitor EXCEPT ![j] = "none"]
    /\ UNCHANGED <<cancelReq, jobBoot, pumpVars, child, worker, serverVars>>

\* The pipes are read to the end: the flag is read, the outcome published, the
\* record finished, the slot given back and the queue pumped.
Settle(j) ==
    /\ monitor[j] \in {"draining", "expired"}
    /\ \E s \in ExitStatus(j) : status' = [status EXCEPT ![j] = s]
    /\ monitor' = [monitor EXCEPT ![j] = "none"]
    /\ pumps' = [pumps EXCEPT !["monitor"] = @ + 1]
    /\ UNCHANGED <<cancelReq, jobBoot, queue, holder, preparing, child, worker,
                   serverVars>>

\* An exception in the monitor ends in mark_finished(failed) whatever happened.
SettleFault(j) ==
    /\ faults < MaxFaults
    /\ faults' = faults + 1
    /\ monitor[j] \in {"draining", "expired"}
    /\ status' = [status EXCEPT ![j] = "failed"]
    /\ monitor' = [monitor EXCEPT ![j] = "none"]
    /\ pumps' = [pumps EXCEPT !["monitor"] = @ + 1]
    /\ UNCHANGED <<cancelReq, jobBoot, queue, holder, preparing, child, worker,
                   boot, phase>>

-----------------------------------------------------------------------------
(* Compile workers in the server's own threads (BlockCompiler._run/_execute). *)

\* The record was canceled while the task waited for a permit.
LocalSkip(j) ==
    /\ worker[j] = "waiting"
    /\ status[j] = "canceled"
    /\ worker' = [worker EXCEPT ![j] = "none"]
    /\ UNCHANGED <<registryVars, pumpVars, monitor, child, serverVars>>

LocalPermit(j) ==
    /\ worker[j] = "waiting"
    /\ Cardinality(Executing) < MaxLocal

\* BUG: the task starts whatever became of its record while it waited.
LocalBegin_NoRecheck(j) ==
    /\ LocalPermit(j)
    /\ status' = [status EXCEPT ![j] = "running"]
    /\ jobBoot' = [jobBoot EXCEPT ![j] = boot]
    /\ worker' = [worker EXCEPT ![j] = "executing"]
    /\ UNCHANGED <<cancelReq, pumpVars, monitor, child, serverVars>>

LocalBegin(j) ==
    /\ LocalPermit(j)
    /\ status[j] # "canceled"
    /\ status' = [status EXCEPT ![j] = "running"]
    /\ jobBoot' = [jobBoot EXCEPT ![j] = boot]
    /\ worker' = [worker EXCEPT ![j] = "executing"]
    /\ UNCHANGED <<cancelReq, pumpVars, monitor, child, serverVars>>

\* The write that announces the start raises outside the try block.
LocalFault(j) ==
    /\ faults < MaxFaults
    /\ faults' = faults + 1
    /\ LocalPermit(j)
    /\ status[j] # "canceled"
    /\ status' = [status EXCEPT ![j] = "running"]
    /\ jobBoot' = [jobBoot EXCEPT ![j] = boot]
    /\ worker' = [worker EXCEPT ![j] = "none"]
    /\ UNCHANGED <<cancelReq, pumpVars, monitor, child, boot, phase>>

\* The operation returns, or raises: canceled when the flag is set, else failed.
LocalFinish(j) ==
    /\ worker[j] = "executing"
    /\ worker' = [worker EXCEPT ![j] = "none"]
    /\ \E s \in {"succeeded", IF j \in cancelReq THEN "canceled" ELSE "failed"} :
          status' = [status EXCEPT ![j] = s]
    /\ UNCHANGED <<cancelReq, jobBoot, pumpVars, monitor, child, serverVars>>

-----------------------------------------------------------------------------
(* JobRunner.cancel, from the moment it holds the registry lock.  Canceling a   *)
(* job with a process is answered when its monitor has finished it; the other   *)
(* answers are immediate.                                                       *)

\* _queue.remove in mark_finished; an id is in the queue at most once.
Removed(q, j) ==
    IF \E i \in 1..Len(q) : q[i] = j
    THEN LET i == CHOOSE i \in 1..Len(q) : q[i] = j
         IN  SubSeq(q, 1, i - 1) \o SubSeq(q, i + 1, Len(q))
    ELSE q

CancelQueued(j) ==
    /\ status[j] = "queued"
    /\ cancelReq' = cancelReq \cup {j}
    /\ status' = [status EXCEPT ![j] = "canceled"]
    /\ queue' = Removed(queue, j)
    /\ UNCHANGED child

\* A job with a process handle: the flag, then SIGTERM; the monitor finishes it.
CancelRunning(j) ==
    /\ status[j] = "running"
    /\ j \in Monitored
    /\ cancelReq' = cancelReq \cup {j}
    /\ child' = [child EXCEPT ![j] = IF @ = "alive" THEN "stopping" ELSE @]
    /\ UNCHANGED <<status, queue>>

\* No handle, scope block or export: only the flag, the operation polls it.
CancelLocal(j) ==
    /\ status[j] = "running"
    /\ ScopeOf[j] \in {"block", "export"}
    /\ cancelReq' = cancelReq \cup {j}
    /\ UNCHANGED <<status, queue, child>>

\* No handle, any other scope, record of this server process: returned as it is.
CancelIgnored(j) ==
    /\ status[j] = "running"
    /\ j \notin Monitored
    /\ ScopeOf[j] \notin {"block", "export"}
    /\ jobBoot[j] = boot
    /\ UNCHANGED <<cancelReq, status, queue, child>>

Cancel(j) ==
    /\ phase = "serving"
    /\ holder = "free"
    /\ CancelQueued(j) \/ CancelRunning(j) \/ CancelLocal(j) \/ CancelIgnored(j)
    /\ UNCHANGED <<jobBoot, holder, preparing, pumps, monitor, worker, serverVars>>

-----------------------------------------------------------------------------
(* Graceful stop, crash and restart. *)

\* The lifespan handler runs when no request is in flight any more (a cancel
\* waits for its monitor): BlockCompiler.shutdown, then it waits for the workers.
Stop ==
    /\ phase = "serving"
    /\ boot < MaxBoots
    /\ pumps["request"] = 0 /\ holder # "request"
    /\ Monitored \cap cancelReq = {}
    /\ phase' = "stopping"
    /\ cancelReq' = cancelReq \cup {j \in Local : status[j] = "running"}
    /\ status' = [j \in Job |->
                    IF j \in Local /\ status[j] = "queued" THEN "canceled" ELSE status[j]]
    /\ UNCHANGED <<jobBoot, pumpVars, taskVars, boot, faults>>

\* The workers returned and asyncio.run cancels every task, once.  A monitor
\* records no result, but its finally block drops the handle and pumps; a pump of
\* a finished monitor ends where it waits, for the lock or for a snapshot.
CancelTasks ==
    /\ phase = "stopping"
    /\ \A j \in Job : worker[j] = "none"
    /\ holder # "free" => preparing # NoJob
    /\ phase' = "ending"
    /\ monitor' = [j \in Job |-> "none"]
    /\ pumps' = [c \in PumpCaller |->
                   IF c = "canceled" THEN Cardinality(Monitored) ELSE 0]
    /\ holder' = "free"
    /\ preparing' = NoJob
    /\ UNCHANGED <<registryVars, queue, child, worker, boot, faults>>

\* BUG: only the queued records are settled at start-up.
Recovered_QueuedOnly ==
    [j \in Job |-> IF status[j] = "queued" THEN "interrupted" ELSE status[j]]

\* JobRegistry.load: no active record was started by the new process.
Recovered == [j \in Job |-> IF Active(j) THEN "interrupted" ELSE status[j]]

\* The server dies at any moment, or ends after a stop, and is started again.
\* Children live in sessions of their own and survive it.
Restart ==
    /\ boot < MaxBoots
    /\ boot' = boot + 1
    /\ phase' = "serving"
    /\ status' = Recovered
    /\ queue' = <<>>
    /\ pumps' = [c \in PumpCaller |-> 0]
    /\ holder' = "free"
    /\ preparing' = NoJob
    /\ monitor' = [j \in Job |-> "none"]
    /\ worker' = [j \in Job |-> "none"]
    /\ UNCHANGED <<cancelReq, jobBoot, child, faults>>

-----------------------------------------------------------------------------
Pump ==
    \/ \E c \in PumpCaller : PumpEnter(c)
    \/ PumpLeave
    \/ Prepared
    \/ \E j \in Job : StartPipeline(j) \/ StartIsolated(j)

Watch(j) == ObserveExit(j) \/ Timeout(j) \/ KillReturns(j) \/ Settle(j)

Work(j) == LocalSkip(j) \/ LocalBegin(j) \/ LocalFinish(j)

Client(j) == Submit(j) \/ SubmitLocal(j) \/ Cancel(j)

Fault(j) == StartFault(j) \/ SettleFault(j) \/ LocalFault(j)

\* Everything may be over: terminal records, no process, no boot left.
Next ==
    \/ Pump
    \/ \E j \in Job : Client(j) \/ Watch(j) \/ Work(j) \/ Fault(j)
    \/ \E j \in Job : ChildExit(j)
    \/ Stop
    \/ CancelTasks
    \/ Restart

Spec == Init /\ [][Next]_vars

\* The event loop runs what is ready, deadlines pass, worker threads return.
\* Nothing is assumed of clients, of child processes or of restarts.
Fairness ==
    /\ WF_vars(Pump)
    /\ \A j \in Job : WF_vars(Watch(j)) /\ WF_vars(Work(j))

FairSpec == Spec /\ Fairness

-----------------------------------------------------------------------------
(* Properties *)

\* At most one job of a document is queued or running, whichever of the four
\* submission paths created it and however starts, cancels, stops and restarts
\* interleave (active_for_did: "at most 1 per document").
OneActivePerDocument ==
    \A j, k \in Job : DocOf[j] = DocOf[k] /\ Active(j) /\ Active(k) => j = k

\* The children that are monitored or about to be spawned never exceed the cap,
\* although the slot is counted before a copy in a thread and used after it; the
\* compile workers never exceed the permits.
SlotsBounded ==
    /\ Cardinality(Monitored) + (IF preparing = NoJob THEN 0 ELSE 1) <= MaxConcurrent
    /\ Cardinality(Executing) <= MaxLocal

\* Two children started by this server never work on one document together:
\* a record is finished, and the document freed, only when its child is gone
\* (or survived SIGKILL, "stuck").
OneLiveChildPerDocument ==
    \A j, k \in Job :
        /\ DocOf[j] = DocOf[k]
        /\ jobBoot[j] = boot /\ jobBoot[k] = boot
        /\ Live(j) /\ Live(k)
        => j = k

\* A cancel that was recorded is never overwritten by a success of the child it
\* raced with (classify_exit looks at the flag first, _watch reads it last).
CancelWins == \A j \in Spawned : j \in cancelReq => status[j] # "succeeded"

\* A running record always belongs to the running server: load settled every
\* other one, so the process_not_owned branch of cancel is never taken.
RunningOwned == \A j \in Job : status[j] = "running" => jobBoot[j] = boot

\* A terminal status is final: no late start, exit, timeout, cancel, stop or
\* recovery moves it, although each of them decides on a status read earlier.
TerminalFinal == [][\A j \in Job : Terminal(j) => status'[j] = status[j]]_vars

\* The registry implements the one-slot-per-document abstraction.
SlotOf(d) ==
    IF Busy(d) THEN CHOOSE j \in Job : DocOf[j] = d /\ Active(j) ELSE NoJob

Slots == INSTANCE DocumentSlot WITH
            slot <- [d \in Doc |-> SlotOf(d)],
            used <- {j \in Job : status[j] # "none"}

SlotRefinement == Slots!Spec

\* Somebody will act on the job: it is in the queue, being prepared, monitored,
\* or has a worker.
InHand(j) ==
    \/ \E i \in 1..Len(queue) : queue[i] = j
    \/ preparing = j
    \/ j \in Monitored
    \/ worker[j] # "none"

\* No active job is lost between the queue, the pump, the monitors and the
\* workers: as long as no write to app.db raised, whatever cancels, timeouts,
\* crashes and stops do, each one is in somebody's hands.
LostOnlyByFault ==
    faults = 0 /\ phase # "ending" => \A j \in Job : Active(j) => InHand(j)

\* Every admitted job is decided while the server serves: the queue is pumped
\* whenever a slot is given back, a deadline ends every child, and a canceled
\* or finished job never blocks the ones behind it.
JobDecided ==
    \A j \in Job : Active(j) ~> (~Active(j) \/ phase # "serving")

=============================================================================
