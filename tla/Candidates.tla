----------------------------- MODULE Candidates -----------------------------
(***************************************************************************)
(* Candidates of a retranslated paragraph of one document: a row is added  *)
(* to candidates.json before the job that fills it exists; the job works   *)
(* in an isolated copy; its monitor fills the row or drops it; a user      *)
(* adopts the text into the draft, or rejects the row.                     *)
(*                                                                         *)
(* Source: babeldoc_tools/serve/candidates.py and the retranslate paths of *)
(* runner.py. CandidateStore never suspends while it holds its lock, so a  *)
(* handler runs from one wait for the registry lock, the copying thread or *)
(* the child to the next without another handler in between.               *)
(***************************************************************************)
EXTENDS Naturals, FiniteSets

CONSTANTS
    MaxRows,     \* bound: candidates asked for
    MaxCrashes,  \* bound: ends of the server process
    MaxFaults    \* bound: writes of candidates.json that raise

ASSUME ConstantsAssumption == MaxRows \in Nat /\ MaxCrashes \in Nat /\ MaxFaults \in Nat

Ids == 1..MaxRows

VARIABLES
    up,         \* the server process runs
    nextId,     \* next_id of candidates.json
    status,     \* status of the row, "absent" without one
    target,     \* rows whose candidate_target is filled
    linked,     \* rows whose job_id is attached
    request,    \* the request that asked for the candidate
    job,        \* its retranslate job; "stuck": popped from the FIFO and left queued
    canceling,  \* jobs with cancel_requested_at
    other,      \* another job of the document is active
    copies,     \* candidates-<job_id> directories
    written,    \* history: candidates whose text was written to the draft
    stranded,   \* history: rows whose drop raised
    crashes, faults

rowVars == <<nextId, status, target, linked>>
jobVars == <<job, canceling, other, copies>>
vars == <<up, rowVars, request, jobVars, written, stranded, crashes, faults>>

Active(i) == job[i] \in {"queued", "preparing", "running", "stuck"}
\* active_for_did
Busy == other \/ \E i \in Ids : Active(i)
\* JobRegistry.lock is held while the snapshot of a job is copied.
LockFree == \A i \in Ids : job[i] # "preparing"

Init ==
    /\ up = TRUE
    /\ nextId = 1
    /\ status = [i \in Ids |-> "absent"]
    /\ target = {}
    /\ linked = {}
    /\ request = [i \in Ids |-> "none"]
    /\ job = [i \in Ids |-> "none"]
    /\ canceling = {}
    /\ other = FALSE
    /\ copies = {}
    /\ written = {}
    /\ stranded = {}
    /\ crashes = 0
    /\ faults = 0

Dropped(i) == [status EXCEPT ![i] = "absent"]

-----------------------------------------------------------------------------
(* Generation *)

\* request_retranslate up to runner.submit: the row is there before the job.
Request ==
    /\ up
    /\ ~Busy
    /\ nextId \in Ids
    /\ nextId' = nextId + 1
    /\ status' = [status EXCEPT ![nextId] = "pending"]
    /\ request' = [request EXCEPT ![nextId] = "submitting"]
    /\ UNCHANGED <<up, target, linked, jobVars, written, stranded, crashes, faults>>

\* BUG: the document is not checked again under the lock.
Submit_Unchecked(i) ==
    /\ up
    /\ request[i] = "submitting"
    /\ LockFree
    /\ request' = [request EXCEPT ![i] = "attaching"]
    /\ job' = [job EXCEPT ![i] = "queued"]
    /\ UNCHANGED <<up, rowVars, canceling, other, copies, written, stranded, crashes, faults>>

\* JobRunner.submit under the registry lock; another request may have taken
\* the document since, and the row is dropped again.
Submit(i) ==
    /\ up
    /\ request[i] = "submitting"
    /\ LockFree
    /\ IF Busy
       THEN /\ status' = Dropped(i)
            /\ request' = [request EXCEPT ![i] = "refused"]
            /\ UNCHANGED job
       ELSE /\ request' = [request EXCEPT ![i] = "attaching"]
            /\ job' = [job EXCEPT ![i] = "queued"]
            /\ UNCHANGED status
    /\ UNCHANGED <<up, nextId, target, linked, canceling, other, copies, written, stranded,
                   crashes, faults>>

\* attach_job; the row may be gone by now, which is ignored.
Attach(i) ==
    /\ up
    /\ request[i] = "attaching"
    /\ request' = [request EXCEPT ![i] = "answered"]
    /\ linked' = IF status[i] = "absent" THEN linked ELSE linked \cup {i}
    /\ UNCHANGED <<up, nextId, status, target, jobVars, written, stranded, crashes, faults>>

\* _start_retranslate, prepare_candidates: copies left by earlier processes are
\* swept before the new one is made.
Prepare(i) ==
    /\ up
    /\ job[i] = "queued"
    /\ LockFree
    /\ job' = [job EXCEPT ![i] = "preparing"]
    /\ copies' = {i}
    /\ UNCHANGED <<up, rowVars, request, canceling, other, written, stranded, crashes, faults>>

Launch(i) ==
    /\ up
    /\ job[i] = "preparing"
    /\ job' = [job EXCEPT ![i] = "running"]
    /\ UNCHANGED <<up, rowVars, request, canceling, other, copies, written, stranded,
                   crashes, faults>>

\* The profile is gone, the copy or the spawn fails: the row is dropped, then
\* the job fails. A drop that raises (only ToolError is suppressed) leaves the
\* row, and the job active in nobody's hands.
StartFails(i) ==
    /\ up
    /\ \/ job[i] = "queued" /\ LockFree /\ UNCHANGED copies
       \/ job[i] = "preparing" /\ copies' = copies \ {i}
    /\ \/ /\ status' = Dropped(i)
          /\ job' = [job EXCEPT ![i] = "ended"]
          /\ UNCHANGED <<stranded, faults>>
       \/ /\ faults < MaxFaults
          /\ faults' = faults + 1
          /\ stranded' = stranded \cup {i}
          /\ job' = [job EXCEPT ![i] = "stuck"]
          /\ UNCHANGED status
    /\ UNCHANGED <<up, nextId, target, linked, request, canceling, other, written, crashes>>

\* BUG: the row of a job that is canceled in the queue is not dropped.
CancelQueued_KeepsRow(i) ==
    /\ up
    /\ job[i] \in {"queued", "stuck"}
    /\ LockFree
    /\ job' = [job EXCEPT ![i] = "ended"]
    /\ canceling' = canceling \cup {i}
    /\ UNCHANGED <<up, rowVars, request, other, copies, written, stranded, crashes, faults>>

\* JobRunner.cancel of a job that was not started: nothing will settle it, so
\* the row is dropped here. A write that raises leaves the row behind.
CancelQueued(i) ==
    /\ up
    /\ job[i] \in {"queued", "stuck"}
    /\ LockFree
    /\ job' = [job EXCEPT ![i] = "ended"]
    /\ canceling' = canceling \cup {i}
    /\ \/ /\ status' = Dropped(i)
          /\ UNCHANGED <<stranded, faults>>
       \/ /\ faults < MaxFaults
          /\ faults' = faults + 1
          /\ stranded' = stranded \cup {i}
          /\ UNCHANGED status
    /\ UNCHANGED <<up, nextId, target, linked, request, other, copies, written, crashes>>

CancelRunning(i) ==
    /\ up
    /\ job[i] = "running"
    /\ canceling' = canceling \cup {i}
    /\ UNCHANGED <<up, rowVars, request, job, other, copies, written, stranded, crashes, faults>>

\* settle_candidates after a child that succeeded and returned the paragraph:
\* the row is filled, whatever its status; a row that is gone fails the job.
SettleFilled(i) ==
    /\ up
    /\ job[i] = "running"
    /\ i \notin canceling
    /\ job' = [job EXCEPT ![i] = "ended"]
    /\ copies' = copies \ {i}
    /\ target' = IF status[i] = "absent" THEN target ELSE target \cup {i}
    /\ UNCHANGED <<up, nextId, status, linked, request, canceling, other, written, stranded,
                   crashes, faults>>

\* The child failed, was canceled or left the paragraph out, or the fill
\* raised: the row is dropped; when that raises too, nobody hears of it.
SettleDropped(i) ==
    /\ up
    /\ job[i] = "running"
    /\ job' = [job EXCEPT ![i] = "ended"]
    /\ copies' = copies \ {i}
    /\ \/ /\ status' = Dropped(i)
          /\ UNCHANGED <<stranded, faults>>
       \/ /\ faults < MaxFaults
          /\ faults' = faults + 1
          /\ stranded' = stranded \cup {i}
          /\ UNCHANGED status
    /\ UNCHANGED <<up, nextId, target, linked, request, canceling, other, written, crashes>>

-----------------------------------------------------------------------------
(* Decisions *)

\* BUG: the row is marked before the draft is written.
Adopt_MarkFirst(i) ==
    /\ up
    /\ status[i] = "pending" /\ i \in target
    /\ ~Busy
    /\ status' = [status EXCEPT ![i] = "adopted"]
    /\ \/ /\ written' = written \cup {i}
          /\ UNCHANGED <<up, crashes>>
       \/ /\ crashes < MaxCrashes
          /\ crashes' = crashes + 1
          /\ up' = FALSE
          /\ UNCHANGED written
    /\ UNCHANGED <<nextId, target, linked, request, jobVars, stranded, faults>>

\* CandidateService.adopt: the draft first, then the row; the process may end
\* between the two, or the second write raise.
Adopt(i) ==
    /\ up
    /\ status[i] = "pending" /\ i \in target
    /\ ~Busy
    /\ written' = written \cup {i}
    /\ \/ /\ status' = [status EXCEPT ![i] = "adopted"]
          /\ UNCHANGED <<up, crashes, faults>>
       \/ /\ crashes < MaxCrashes
          /\ crashes' = crashes + 1
          /\ up' = FALSE
          /\ UNCHANGED <<status, faults>>
       \/ /\ faults < MaxFaults
          /\ faults' = faults + 1
          /\ UNCHANGED <<up, status, crashes>>
    /\ UNCHANGED <<nextId, target, linked, request, jobVars, stranded>>

\* CandidateService.reject does not wait for the job that fills the row.
Reject(i) ==
    /\ up
    /\ status[i] = "pending"
    /\ status' = [status EXCEPT ![i] = "rejected"]
    /\ UNCHANGED <<up, nextId, target, linked, request, jobVars, written, stranded, crashes, faults>>

-----------------------------------------------------------------------------
(* The rest of the server *)

\* Another job of the document is admitted, or ends.
OtherJob ==
    /\ up
    /\ \/ ~Busy /\ LockFree /\ other' = TRUE
       \/ other /\ other' = FALSE
    /\ UNCHANGED <<up, rowVars, request, job, canceling, copies, written, stranded, crashes, faults>>

Crash ==
    /\ up
    /\ crashes < MaxCrashes
    /\ crashes' = crashes + 1
    /\ up' = FALSE
    /\ UNCHANGED <<rowVars, request, jobVars, written, stranded, faults>>

\* BUG: every pending row is dropped at startup.
Reconciled_AllPending == [i \in Ids |-> IF status[i] = "pending" THEN "absent" ELSE status[i]]

\* drop_unfinished
Reconciled == [i \in Ids |-> IF status[i] = "pending" /\ i \notin target THEN "absent" ELSE status[i]]

\* JobRegistry.load interrupts the jobs of the last process; reconcile drops
\* the rows they were to fill. Isolated copies stay until the next sweep.
Restart ==
    /\ ~up
    /\ up' = TRUE
    /\ status' = Reconciled
    /\ job' = [i \in Ids |-> IF Active(i) THEN "ended" ELSE job[i]]
    /\ request' = [i \in Ids |-> IF request[i] \in {"submitting", "attaching"} THEN "lost" ELSE request[i]]
    /\ other' = FALSE
    /\ stranded' = {}
    /\ UNCHANGED <<nextId, target, linked, canceling, copies, written, crashes, faults>>

Generation(i) ==
    \/ Submit(i) \/ Attach(i) \/ Prepare(i) \/ Launch(i) \/ StartFails(i)
    \/ CancelQueued(i) \/ CancelRunning(i) \/ SettleFilled(i) \/ SettleDropped(i)

Next ==
    \/ Request
    \/ \E i \in Ids : Generation(i) \/ Adopt(i) \/ Reject(i)
    \/ OtherJob \/ Crash \/ Restart

Spec == Init /\ [][Next]_vars

-----------------------------------------------------------------------------
(* Properties *)

\* Every variable has its type.
TypeOK ==
    /\ up \in BOOLEAN
    /\ nextId \in 1..MaxRows + 1
    /\ status \in [Ids -> {"absent", "pending", "adopted", "rejected"}]
    /\ target \in SUBSET Ids
    /\ linked \in SUBSET Ids
    /\ request \in [Ids -> {"none", "submitting", "attaching", "answered", "refused", "lost"}]
    /\ job \in [Ids -> {"none", "queued", "preparing", "running", "stuck", "ended"}]
    /\ canceling \in SUBSET Ids
    /\ other \in BOOLEAN
    /\ copies \in SUBSET Ids
    /\ written \in SUBSET Ids
    /\ stranded \in SUBSET Ids
    /\ crashes \in 0..MaxCrashes
    /\ faults \in 0..MaxFaults

\* A candidate that is shown as being generated is in somebody's hands: the
\* request that still submits it, or its job. Else it would spin for ever; only
\* a drop that raised leaves one behind, until the next start.
PendingInHand ==
    up => \A i \in Ids :
        status[i] = "pending" /\ i \notin target =>
            request[i] = "submitting" \/ Active(i) \/ i \in stranded

\* An adopted candidate was written to the draft, also when the server ended in
\* the middle of the adoption.
AdoptedWritten == \A i \in Ids : status[i] = "adopted" => i \in written

RowsTruthful == PendingInHand /\ AdoptedWritten

\* A job that runs has its isolated copy: the sweep before the copy of another
\* job never takes it away.
RunningHasCopy == up => \A i \in Ids : job[i] = "running" => i \in copies

\* A candidate that was filled is neither dropped nor emptied, by no settling,
\* cancel or restart, and a decision about it stands.
FilledKept ==
    [][\A i \in Ids : status[i] # "absent" /\ i \in target =>
           /\ i \in target'
           /\ status'[i] # "absent"
           /\ status[i] \in {"adopted", "rejected"} => status'[i] = status[i]]_vars

=============================================================================
