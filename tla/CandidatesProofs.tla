-------------------------- MODULE CandidatesProofs --------------------------
(***************************************************************************)
(* Theorems about Candidates, for every bound.                             *)
(*                                                                         *)
(* The rows are truthful by themselves (RowsTruthful is inductive). That a *)
(* running job keeps its copy rests on the document having one active job; *)
(* that a filled candidate is kept rests on its job being over, so nothing *)
(* that drops a row can reach it.                                          *)
(***************************************************************************)
EXTENDS Candidates, TLAPS

\* One active job per document, counting the job of another kind.
OneActive ==
    /\ \A i, j \in Ids : Active(i) /\ Active(j) => i = j
    /\ other => \A i \in Ids : ~Active(i)

\* From the copying on, a job has its copy.
CopyInv == \A i \in Ids : job[i] \in {"preparing", "running"} => i \in copies

\* Identifiers that were not given out are unused; a job follows its request; a
\* filled row has no job left.
HistoryInv ==
    /\ \A i \in Ids : i >= nextId => i \notin target /\ job[i] = "none" /\ request[i] = "none"
    /\ \A i \in Ids : request[i] = "submitting" => job[i] = "none"
    /\ \A i \in target : ~Active(i) /\ request[i] # "submitting"

LEMMA TypeInit == Init => TypeOK
<1> SUFFICES ASSUME Init PROVE TypeOK
  OBVIOUS
<1>1. 1 \in 1..MaxRows + 1 /\ 0 \in 0..MaxCrashes /\ 0 \in 0..MaxFaults
  BY ConstantsAssumption DEF ConstantsAssumption
<1> QED
  BY <1>1 DEF Init, TypeOK

\* A bounded counter that is below its bound may be raised.
LEMMA Raised == ASSUME NEW max \in Nat, NEW n \in 0..max, n < max PROVE n + 1 \in 0..max
  OBVIOUS

LEMMA TypeNext == TypeOK /\ [Next]_vars => TypeOK'
<1> SUFFICES ASSUME TypeOK, [Next]_vars PROVE TypeOK'
  OBVIOUS
<1> USE ConstantsAssumption DEF ConstantsAssumption, TypeOK, Ids, Dropped
<1>1. CASE Request
  BY <1>1 DEF Request, jobVars
<1>2. ASSUME NEW i \in Ids, Submit(i) PROVE TypeOK'
  BY <1>2 DEF Submit
<1>3. ASSUME NEW i \in Ids, Attach(i) PROVE TypeOK'
  BY <1>3 DEF Attach, jobVars
<1>4. ASSUME NEW i \in Ids, Prepare(i) \/ Launch(i) PROVE TypeOK'
  BY <1>4 DEF Prepare, Launch, rowVars
<1>14. ASSUME NEW i \in Ids, StartFails(i) PROVE TypeOK'
  <2>1. /\ job' \in [Ids -> {"none", "queued", "preparing", "running", "stuck", "ended"}]
        /\ copies' \in SUBSET Ids
    BY <1>14 DEF StartFails
  <2>2. faults' \in 0..MaxFaults
    <3>1. faults' = faults \/ (faults < MaxFaults /\ faults' = faults + 1)
      BY ONLY <1>14 DEF StartFails
    <3> QED
      BY <3>1, Raised
  <2>3. /\ status' \in [Ids -> {"absent", "pending", "adopted", "rejected"}]
        /\ stranded' \in SUBSET Ids
    BY <1>14 DEF StartFails
  <2> QED
    BY <1>14, <2>1, <2>2, <2>3 DEF StartFails
<1>5. ASSUME NEW i \in Ids, CancelQueued(i) PROVE TypeOK'
  <2>1. job' \in [Ids -> {"none", "queued", "preparing", "running", "stuck", "ended"}] /\ canceling' \in SUBSET Ids
    BY <1>5 DEF CancelQueued
  <2>2. faults' \in 0..MaxFaults
    <3>1. faults' = faults \/ (faults < MaxFaults /\ faults' = faults + 1)
      BY ONLY <1>5 DEF CancelQueued
    <3> QED
      BY <3>1, Raised
  <2>4. stranded' \in SUBSET Ids
    BY <1>5 DEF CancelQueued
  <2>3. status' \in [Ids -> {"absent", "pending", "adopted", "rejected"}]
    BY <1>5 DEF CancelQueued
  <2> QED
    BY <1>5, <2>1, <2>2, <2>3, <2>4 DEF CancelQueued
<1>6. ASSUME NEW i \in Ids, CancelRunning(i) \/ SettleFilled(i) PROVE TypeOK'
  BY <1>6 DEF CancelRunning, SettleFilled, rowVars
<1>13. ASSUME NEW i \in Ids, SettleDropped(i) PROVE TypeOK'
  <2>1. job' \in [Ids -> {"none", "queued", "preparing", "running", "stuck", "ended"}] /\ copies' \in SUBSET Ids
    BY <1>13 DEF SettleDropped
  <2>2. faults' \in 0..MaxFaults
    <3>1. faults' = faults \/ (faults < MaxFaults /\ faults' = faults + 1)
      BY ONLY <1>13 DEF SettleDropped
    <3> QED
      BY <3>1, Raised
  <2>4. stranded' \in SUBSET Ids
    BY <1>13 DEF SettleDropped
  <2>3. status' \in [Ids -> {"absent", "pending", "adopted", "rejected"}]
    BY <1>13 DEF SettleDropped
  <2> QED
    BY <1>13, <2>1, <2>2, <2>3, <2>4 DEF SettleDropped
<1>7. ASSUME NEW i \in Ids, Adopt(i) PROVE TypeOK'
  <2>1. status' \in [Ids -> {"absent", "pending", "adopted", "rejected"}] /\ written' \in SUBSET Ids
    BY <1>7 DEF Adopt
  <2>2. /\ faults' = faults \/ (faults < MaxFaults /\ faults' = faults + 1)
        /\ crashes' = crashes \/ (crashes < MaxCrashes /\ crashes' = crashes + 1)
        /\ up' = up \/ up' = FALSE
    BY ONLY <1>7 DEF Adopt
  <2>3. faults' \in 0..MaxFaults /\ crashes' \in 0..MaxCrashes
    BY <2>2, Raised
  <2> QED
    BY <1>7, <2>1, <2>2, <2>3 DEF Adopt, jobVars
<1>8. ASSUME NEW i \in Ids, Reject(i) PROVE TypeOK'
  BY <1>8 DEF Reject, jobVars
<1>9. CASE OtherJob
  BY <1>9 DEF OtherJob, rowVars
<1>10. CASE Crash
  <2>1. crashes' \in 0..MaxCrashes
    BY <1>10 DEF Crash
  <2> QED
    BY <1>10, <2>1 DEF Crash, rowVars, jobVars
<1>11. CASE Restart
  <2>1. Reconciled \in [Ids -> {"absent", "pending", "adopted", "rejected"}]
    BY DEF Reconciled
  <2> QED
    BY <1>11, <2>1 DEF Restart
<1>12. CASE UNCHANGED vars
  BY <1>12 DEF vars, rowVars, jobVars
<1> QED
  BY <1>1, <1>2, <1>3, <1>4, <1>5, <1>6, <1>7, <1>8, <1>9, <1>10, <1>11, <1>12, <1>13, <1>14 DEF Next, Generation

\* Every variable keeps its type: a row, a request and a job of CandidateStore
\* and JobRunner only take the states listed.
THEOREM TypeCorrect == Spec => []TypeOK
<1>1. Init => TypeOK
  BY TypeInit
<1>2. TypeOK /\ [Next]_vars => TypeOK'
  BY TypeNext
<1> QED
  BY <1>1, <1>2, PTL DEF Spec

-----------------------------------------------------------------------------

LEMMA RowsInit == Init => RowsTruthful
  BY DEF Init, RowsTruthful, PendingInHand, AdoptedWritten

LEMMA RowsNext == TypeOK /\ RowsTruthful /\ [Next]_vars => RowsTruthful'
<1> SUFFICES ASSUME TypeOK, RowsTruthful, [Next]_vars PROVE RowsTruthful'
  OBVIOUS
<1> USE DEF TypeOK, RowsTruthful, PendingInHand, AdoptedWritten, Active, Dropped
<1>1. CASE Request
  BY <1>1 DEF Request, jobVars
<1>2. ASSUME NEW i \in Ids, Submit(i) PROVE RowsTruthful'
  BY <1>2 DEF Submit
<1>3. ASSUME NEW i \in Ids, Attach(i) PROVE RowsTruthful'
  BY <1>3 DEF Attach, jobVars
<1>4. ASSUME NEW i \in Ids, Prepare(i) \/ Launch(i) \/ StartFails(i) PROVE RowsTruthful'
  BY <1>4 DEF Prepare, Launch, StartFails, rowVars
<1>5. ASSUME NEW i \in Ids, CancelQueued(i) \/ CancelRunning(i) PROVE RowsTruthful'
  BY <1>5 DEF CancelQueued, CancelRunning, rowVars
<1>6. ASSUME NEW i \in Ids, SettleFilled(i) \/ SettleDropped(i) PROVE RowsTruthful'
  BY <1>6 DEF SettleFilled, SettleDropped
<1>7. ASSUME NEW i \in Ids, Adopt(i) PROVE RowsTruthful'
  BY <1>7 DEF Adopt, jobVars
<1>8. ASSUME NEW i \in Ids, Reject(i) PROVE RowsTruthful'
  BY <1>8 DEF Reject, jobVars
<1>9. CASE OtherJob
  BY <1>9 DEF OtherJob, rowVars
<1>10. CASE Crash
  BY <1>10 DEF Crash, rowVars, jobVars
<1>11. CASE Restart
  BY <1>11 DEF Restart, Reconciled
<1>12. CASE UNCHANGED vars
  BY <1>12 DEF vars, rowVars, jobVars
<1> QED
  BY <1>1, <1>2, <1>3, <1>4, <1>5, <1>6, <1>7, <1>8, <1>9, <1>10, <1>11, <1>12 DEF Next, Generation

\* An unfinished candidate is always in the hands of a request or a job, unless
\* its drop raised, and an adopted one was written to the draft.
THEOREM RowsHold == Spec => []RowsTruthful
<1>1. Init => RowsTruthful
  BY RowsInit
<1>2. TypeOK /\ RowsTruthful /\ [Next]_vars => RowsTruthful'
  BY RowsNext
<1> QED
  BY <1>1, <1>2, TypeCorrect, PTL DEF Spec

-----------------------------------------------------------------------------

CopyParts == OneActive /\ CopyInv

LEMMA CopyNext == TypeOK /\ CopyParts /\ [Next]_vars => CopyParts'
<1> SUFFICES ASSUME TypeOK, CopyParts, [Next]_vars PROVE CopyParts'
  OBVIOUS
<1> USE DEF TypeOK, CopyParts, OneActive, CopyInv, Active
<1>1. CASE Request
  BY <1>1 DEF Request, jobVars
<1>2. ASSUME NEW i \in Ids, Submit(i) PROVE CopyParts'
  BY <1>2 DEF Submit, Busy
<1>3. ASSUME NEW i \in Ids, Attach(i) PROVE CopyParts'
  BY <1>3 DEF Attach, jobVars
<1>4. ASSUME NEW i \in Ids, Prepare(i) PROVE CopyParts'
  BY <1>4 DEF Prepare
<1>5. ASSUME NEW i \in Ids, Launch(i) \/ StartFails(i) PROVE CopyParts'
  BY <1>5 DEF Launch, StartFails
<1>6. ASSUME NEW i \in Ids, CancelQueued(i) \/ CancelRunning(i) PROVE CopyParts'
  BY <1>6 DEF CancelQueued, CancelRunning
<1>7. ASSUME NEW i \in Ids, SettleFilled(i) \/ SettleDropped(i) PROVE CopyParts'
  BY <1>7 DEF SettleFilled, SettleDropped
<1>8. ASSUME NEW i \in Ids, Adopt(i) \/ Reject(i) PROVE CopyParts'
  BY <1>8 DEF Adopt, Reject, jobVars
<1>9. CASE OtherJob
  BY <1>9 DEF OtherJob, Busy
<1>10. CASE Crash
  BY <1>10 DEF Crash, jobVars
<1>11. CASE Restart
  BY <1>11 DEF Restart
<1>12. CASE UNCHANGED vars
  BY <1>12 DEF vars, jobVars
<1> QED
  BY <1>1, <1>2, <1>3, <1>4, <1>5, <1>6, <1>7, <1>8, <1>9, <1>10, <1>11, <1>12 DEF Next, Generation

\* The sweep before a copy never takes the copy of a running job away.
THEOREM CopyHolds == Spec => []RunningHasCopy
<1>1. Init => CopyParts
  BY DEF Init, CopyParts, OneActive, CopyInv, Active
<1>2. TypeOK /\ CopyParts /\ [Next]_vars => CopyParts'
  BY CopyNext
<1>3. CopyParts => RunningHasCopy
  BY DEF CopyParts, CopyInv, RunningHasCopy
<1> QED
  BY <1>1, <1>2, <1>3, TypeCorrect, PTL DEF Spec

-----------------------------------------------------------------------------

LEMMA HistoryNext == TypeOK /\ HistoryInv /\ [Next]_vars => HistoryInv'
<1> SUFFICES ASSUME TypeOK, HistoryInv, [Next]_vars PROVE HistoryInv'
  OBVIOUS
<1> USE ConstantsAssumption DEF ConstantsAssumption, TypeOK, HistoryInv, Active, Ids
<1>1. CASE Request
  BY <1>1 DEF Request, jobVars
<1>2. ASSUME NEW i \in Ids, Submit(i) PROVE HistoryInv'
  BY <1>2 DEF Submit
<1>3. ASSUME NEW i \in Ids, Attach(i) PROVE HistoryInv'
  BY <1>3 DEF Attach, jobVars
<1>4. ASSUME NEW i \in Ids, Prepare(i) \/ Launch(i) \/ StartFails(i) PROVE HistoryInv'
  BY <1>4 DEF Prepare, Launch, StartFails, rowVars
<1>5. ASSUME NEW i \in Ids, CancelQueued(i) \/ CancelRunning(i) PROVE HistoryInv'
  BY <1>5 DEF CancelQueued, CancelRunning, rowVars
<1>6. ASSUME NEW i \in Ids, SettleFilled(i) PROVE HistoryInv'
  BY <1>6 DEF SettleFilled
<1>7. ASSUME NEW i \in Ids, SettleDropped(i) PROVE HistoryInv'
  BY <1>7 DEF SettleDropped
<1>8. ASSUME NEW i \in Ids, Adopt(i) \/ Reject(i) PROVE HistoryInv'
  BY <1>8 DEF Adopt, Reject, jobVars
<1>9. CASE OtherJob
  BY <1>9 DEF OtherJob, rowVars
<1>10. CASE Crash
  BY <1>10 DEF Crash, rowVars, jobVars
<1>11. CASE Restart
  BY <1>11 DEF Restart
<1>12. CASE UNCHANGED vars
  BY <1>12 DEF vars, rowVars, jobVars
<1> QED
  BY <1>1, <1>2, <1>3, <1>4, <1>5, <1>6, <1>7, <1>8, <1>9, <1>10, <1>11, <1>12 DEF Next, Generation

LEMMA HistoryHolds == Spec => []HistoryInv
<1>1. Init => HistoryInv
  BY DEF Init, HistoryInv, Active
<1>2. TypeOK /\ HistoryInv /\ [Next]_vars => HistoryInv'
  BY HistoryNext
<1> QED
  BY <1>1, <1>2, TypeCorrect, PTL DEF Spec

Kept == \A i \in Ids : status[i] # "absent" /\ i \in target =>
           /\ i \in target'
           /\ status'[i] # "absent"
           /\ status[i] \in {"adopted", "rejected"} => status'[i] = status[i]

LEMMA KeptNext == TypeOK /\ HistoryInv /\ [Next]_vars => Kept
<1> SUFFICES ASSUME TypeOK, HistoryInv, [Next]_vars PROVE Kept
  OBVIOUS
<1> USE DEF TypeOK, HistoryInv, Active, Dropped, Kept
<1>1. CASE Request
  BY <1>1 DEF Request, Ids
<1>2. ASSUME NEW i \in Ids, Submit(i) PROVE Kept
  BY <1>2 DEF Submit
<1>3. ASSUME NEW i \in Ids, Attach(i) PROVE Kept
  BY <1>3 DEF Attach
<1>4. ASSUME NEW i \in Ids, Prepare(i) \/ Launch(i) \/ StartFails(i) PROVE Kept
  BY <1>4 DEF Prepare, Launch, StartFails, rowVars
<1>5. ASSUME NEW i \in Ids, CancelQueued(i) \/ CancelRunning(i) PROVE Kept
  BY <1>5 DEF CancelQueued, CancelRunning, rowVars
<1>6. ASSUME NEW i \in Ids, SettleFilled(i) \/ SettleDropped(i) PROVE Kept
  BY <1>6 DEF SettleFilled, SettleDropped
<1>7. ASSUME NEW i \in Ids, Adopt(i) \/ Reject(i) PROVE Kept
  BY <1>7 DEF Adopt, Reject
<1>8. CASE OtherJob \/ Crash
  BY <1>8 DEF OtherJob, Crash, rowVars
<1>9. CASE Restart
  BY <1>9 DEF Restart, Reconciled
<1>10. CASE UNCHANGED vars
  BY <1>10 DEF vars, rowVars
<1> QED
  BY <1>1, <1>2, <1>3, <1>4, <1>5, <1>6, <1>7, <1>8, <1>9, <1>10 DEF Next, Generation

\* A filled candidate and the decision about it outlive every later settling,
\* cancel and restart.
THEOREM FilledHolds == Spec => FilledKept
<1>1. TypeOK /\ HistoryInv /\ [Next]_vars => [Kept]_vars
  BY KeptNext
<1> QED
  BY <1>1, TypeCorrect, HistoryHolds, PTL DEF Spec, FilledKept, Kept

=============================================================================
