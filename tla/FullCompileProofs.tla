-------------------------- MODULE FullCompileProofs --------------------------
(***************************************************************************)
(* The safety properties of FullCompile as theorems, for every limit of    *)
(* the archive and every bound on revisions, restarts and faults, and the  *)
(* refinement of Publication.                                              *)
(***************************************************************************)
EXTENDS FullCompile, FiniteSetTheorems, TLAPS

USE DEF Rev, Built, Raw, Content

-----------------------------------------------------------------------------
(* The inductive invariant *)

\* Only a job that builds is settled.
SettlingBuilds == step # "idle" => job = "building"

\* The revision the readers are told of never runs ahead of the draft.
AnnouncedPast == state.revision <= draft

\* From the replacement to the end of settling the output has the captured
\* revision, unless the child of a run wrote it meanwhile.
OutputCaptured == step # "idle" => output \in Built \cup {captured}

\* The archive works on the revision that was announced just before.
ArchivesAnnounced ==
    step \in {"announced", "cleared", "linked"}
        => state.status = "ok" /\ state.revision = captured

\* The archive lists no revision the draft has not reached.
RowsPast == \A r \in rows : r <= draft

IInv ==
    /\ TypeOK
    /\ SettlingBuilds
    /\ AnnouncedPast
    /\ OutputCaptured
    /\ ArchivesAnnounced
    /\ RowsPast
    /\ SnapshotCurrent
    /\ FreshIsCurrent
    /\ RunningHasJob
    /\ ArchiveFaithful

\* A server that starts with an empty document.
LEMMA StartsInv == Init => IInv
<1>. SUFFICES ASSUME Init PROVE IInv
  OBVIOUS
<1>1. TypeOK
  <2>1. 0 \in Rev /\ 1 \in 1..MaxBoots /\ 0 \in 0..MaxFaults
    BY ConstantsAssumption
  <2>2. state \in [status : {"none", "running", "ok", "failed"},
                  revision : Rev, artifact : BOOLEAN]
    BY <2>1 DEF Init
  <2>3. files \in [Rev -> Content]
    BY DEF Init
  <2>. QED
    BY <2>1, <2>2, <2>3 DEF Init, TypeOK
<1>2. FreshIsCurrent /\ ArchiveFaithful /\ AnnouncedPast
  BY ConstantsAssumption DEF Init, FreshIsCurrent, ArchiveFaithful, AnnouncedPast
<1>3. SettlingBuilds /\ OutputCaptured /\ ArchivesAnnounced /\ RowsPast
  BY DEF Init, SettlingBuilds, OutputCaptured, ArchivesAnnounced, RowsPast
<1>4. SnapshotCurrent /\ RunningHasJob
  BY DEF Init, SnapshotCurrent, RunningHasJob
<1>. QED
  BY <1>1, <1>2, <1>3, <1>4 DEF IInv

\* The invariant is kept by every step: one step of the proof for each action, one
\* below it for each conjunct whose variables the action changes.
LEMMA StepInv == IInv /\ [Next]_vars => IInv'
<1>. SUFFICES ASSUME IInv, [Next]_vars PROVE IInv'
  OBVIOUS
<1>. USE ConstantsAssumption DEF IInv
<1>1. CASE Edit
  <2>1. TypeOK'
    BY <1>1 DEF Edit, jobVars, archiveVars, serverVars, TypeOK
  <2>2. AnnouncedPast'
    BY <1>1 DEF Edit, jobVars, archiveVars, serverVars, AnnouncedPast, TypeOK
  <2>3. RowsPast'
    BY <1>1 DEF Edit, jobVars, archiveVars, serverVars, RowsPast, TypeOK
  <2>4. SnapshotCurrent'
    BY <1>1 DEF Edit, jobVars, archiveVars, serverVars, SnapshotCurrent
  <2>5. FreshIsCurrent'
    BY <1>1 DEF Edit, jobVars, archiveVars, serverVars, FreshIsCurrent,
        AnnouncedPast, Stale, TypeOK
  <2>6. (SettlingBuilds /\ OutputCaptured /\ ArchivesAnnounced /\ RunningHasJob
      /\ ArchiveFaithful)'
    BY <1>1 DEF Edit, jobVars, archiveVars, serverVars, SettlingBuilds,
        OutputCaptured, ArchivesAnnounced, RunningHasJob, ArchiveFaithful
  <2>. QED
    BY <2>1, <2>2, <2>3, <2>4, <2>5, <2>6
<1>2. CASE RequestCompile
  <2>1. TypeOK'
    BY <1>2 DEF RequestCompile, archiveVars, serverVars, TypeOK
  <2>2. SettlingBuilds'
    BY <1>2 DEF RequestCompile, archiveVars, serverVars, SettlingBuilds
  <2>3. SnapshotCurrent'
    BY <1>2 DEF RequestCompile, archiveVars, serverVars, SnapshotCurrent
  <2>4. RunningHasJob'
    BY <1>2 DEF RequestCompile, archiveVars, serverVars, RunningHasJob
  <2>5. (AnnouncedPast /\ OutputCaptured /\ ArchivesAnnounced /\ RowsPast
      /\ FreshIsCurrent /\ ArchiveFaithful)'
    BY <1>2 DEF RequestCompile, archiveVars, serverVars, AnnouncedPast,
        OutputCaptured, ArchivesAnnounced, RowsPast, FreshIsCurrent, ArchiveFaithful,
        Stale
  <2>. QED
    BY <2>1, <2>2, <2>3, <2>4, <2>5
<1>3. CASE Copy
  <2>1. TypeOK'
    BY <1>3 DEF Copy, archiveVars, serverVars, TypeOK, Retained
  <2>2. SettlingBuilds'
    BY <1>3 DEF Copy, archiveVars, serverVars, SettlingBuilds
  <2>3. AnnouncedPast'
    BY <1>3 DEF Copy, archiveVars, serverVars, AnnouncedPast, Retained
  <2>4. OutputCaptured'
    BY <1>3 DEF Copy, archiveVars, serverVars, OutputCaptured
  <2>5. ArchivesAnnounced'
    BY <1>3 DEF Copy, archiveVars, serverVars, ArchivesAnnounced, Retained
  <2>6. SnapshotCurrent'
    BY <1>3 DEF Copy, archiveVars, serverVars, SnapshotCurrent
  <2>7. FreshIsCurrent'
    BY <1>3 DEF Copy, archiveVars, serverVars, FreshIsCurrent, Retained, Stale
  <2>8. RunningHasJob'
    BY <1>3 DEF Copy, archiveVars, serverVars, RunningHasJob, Retained
  <2>9. (RowsPast /\ ArchiveFaithful)'
    BY <1>3 DEF Copy, archiveVars, serverVars, RowsPast, ArchiveFaithful
  <2>. QED
    BY <2>1, <2>2, <2>3, <2>4, <2>5, <2>6, <2>7, <2>8, <2>9
<1>4. CASE Spawn
  <2>1. TypeOK'
    BY <1>4 DEF Spawn, archiveVars, serverVars, TypeOK
  <2>2. SettlingBuilds'
    BY <1>4 DEF Spawn, archiveVars, serverVars, SettlingBuilds
  <2>3. SnapshotCurrent'
    BY <1>4 DEF Spawn, archiveVars, serverVars, SnapshotCurrent
  <2>4. RunningHasJob'
    BY <1>4 DEF Spawn, archiveVars, serverVars, RunningHasJob
  <2>5. (AnnouncedPast /\ OutputCaptured /\ ArchivesAnnounced /\ RowsPast
      /\ FreshIsCurrent /\ ArchiveFaithful)'
    BY <1>4 DEF Spawn, archiveVars, serverVars, AnnouncedPast, OutputCaptured,
        ArchivesAnnounced, RowsPast, FreshIsCurrent, ArchiveFaithful, Stale
  <2>. QED
    BY <2>1, <2>2, <2>3, <2>4, <2>5
<1>5. CASE StartFault
  <2>1. TypeOK'
    BY <1>5 DEF StartFault, archiveVars, TypeOK
  <2>2. SettlingBuilds'
    BY <1>5 DEF StartFault, archiveVars, SettlingBuilds
  <2>3. SnapshotCurrent'
    BY <1>5 DEF StartFault, archiveVars, SnapshotCurrent
  <2>4. RunningHasJob'
    BY <1>5 DEF StartFault, archiveVars, RunningHasJob, TypeOK
  <2>5. (AnnouncedPast /\ OutputCaptured /\ ArchivesAnnounced /\ RowsPast
      /\ FreshIsCurrent /\ ArchiveFaithful)'
    BY <1>5 DEF StartFault, archiveVars, AnnouncedPast, OutputCaptured,
        ArchivesAnnounced, RowsPast, FreshIsCurrent, ArchiveFaithful, Stale
  <2>. QED
    BY <2>1, <2>2, <2>3, <2>4, <2>5
<1>6. CASE Cancel
  <2>1. TypeOK'
    BY <1>6 DEF Cancel, archiveVars, serverVars, TypeOK
  <2>2. SettlingBuilds'
    BY <1>6 DEF Cancel, archiveVars, serverVars, SettlingBuilds
  <2>3. SnapshotCurrent'
    BY <1>6 DEF Cancel, archiveVars, serverVars, SnapshotCurrent
  <2>4. RunningHasJob'
    BY <1>6 DEF Cancel, archiveVars, serverVars, RunningHasJob
  <2>5. (AnnouncedPast /\ OutputCaptured /\ ArchivesAnnounced /\ RowsPast
      /\ FreshIsCurrent /\ ArchiveFaithful)'
    BY <1>6 DEF Cancel, archiveVars, serverVars, AnnouncedPast, OutputCaptured,
        ArchivesAnnounced, RowsPast, FreshIsCurrent, ArchiveFaithful, Stale
  <2>. QED
    BY <2>1, <2>2, <2>3, <2>4, <2>5
<1>7. CASE Fail
  <2>1. TypeOK'
    BY <1>7 DEF Fail, archiveVars, serverVars, TypeOK, Retained
  <2>2. SettlingBuilds'
    BY <1>7 DEF Fail, archiveVars, serverVars, SettlingBuilds
  <2>3. AnnouncedPast'
    BY <1>7 DEF Fail, archiveVars, serverVars, AnnouncedPast, Retained
  <2>4. ArchivesAnnounced'
    BY <1>7 DEF Fail, archiveVars, serverVars, ArchivesAnnounced, Retained
  <2>5. SnapshotCurrent'
    BY <1>7 DEF Fail, archiveVars, serverVars, SnapshotCurrent
  <2>6. FreshIsCurrent'
    BY <1>7 DEF Fail, archiveVars, serverVars, FreshIsCurrent, Retained, Stale
  <2>7. RunningHasJob'
    BY <1>7 DEF Fail, archiveVars, serverVars, RunningHasJob, Retained
  <2>8. (OutputCaptured /\ RowsPast /\ ArchiveFaithful)'
    BY <1>7 DEF Fail, archiveVars, serverVars, OutputCaptured, RowsPast, ArchiveFaithful
  <2>. QED
    BY <2>1, <2>2, <2>3, <2>4, <2>5, <2>6, <2>7, <2>8
<1>8. CASE Replace
  <2>1. TypeOK'
    BY <1>8 DEF Replace, jobVars, archiveVars, serverVars, TypeOK
  <2>2. SettlingBuilds'
    BY <1>8 DEF Replace, jobVars, archiveVars, serverVars, SettlingBuilds
  <2>3. OutputCaptured'
    BY <1>8 DEF Replace, jobVars, archiveVars, serverVars, OutputCaptured
  <2>4. ArchivesAnnounced'
    BY <1>8 DEF Replace, jobVars, archiveVars, serverVars, ArchivesAnnounced
  <2>5. FreshIsCurrent'
    BY <1>8 DEF Replace, jobVars, archiveVars, serverVars, FreshIsCurrent, Stale
  <2>6. (AnnouncedPast /\ RowsPast /\ SnapshotCurrent /\ RunningHasJob /\ ArchiveFaithful)'
    BY <1>8 DEF Replace, jobVars, archiveVars, serverVars, AnnouncedPast, RowsPast,
        SnapshotCurrent, RunningHasJob, ArchiveFaithful
  <2>. QED
    BY <2>1, <2>2, <2>3, <2>4, <2>5, <2>6
<1>9. CASE Announce
  <2>1. TypeOK'
    BY <1>9 DEF Announce, jobVars, archiveVars, serverVars, TypeOK
  <2>2. SettlingBuilds'
    BY <1>9 DEF Announce, jobVars, archiveVars, serverVars, SettlingBuilds
  <2>3. AnnouncedPast'
    BY <1>9 DEF Announce, jobVars, archiveVars, serverVars, AnnouncedPast,
        SettlingBuilds, SnapshotCurrent, TypeOK
  <2>4. OutputCaptured'
    BY <1>9 DEF Announce, jobVars, archiveVars, serverVars, OutputCaptured
  <2>5. ArchivesAnnounced'
    BY <1>9 DEF Announce, jobVars, archiveVars, serverVars, ArchivesAnnounced
  <2>6. FreshIsCurrent'
    BY <1>9 DEF Announce, jobVars, archiveVars, serverVars, FreshIsCurrent,
        OutputCaptured, SettlingBuilds, SnapshotCurrent, Stale, TypeOK
  <2>7. RunningHasJob'
    BY <1>9 DEF Announce, jobVars, archiveVars, serverVars, RunningHasJob
  <2>8. (RowsPast /\ SnapshotCurrent /\ ArchiveFaithful)'
    BY <1>9 DEF Announce, jobVars, archiveVars, serverVars, RowsPast,
        SnapshotCurrent, ArchiveFaithful
  <2>. QED
    BY <2>1, <2>2, <2>3, <2>4, <2>5, <2>6, <2>7, <2>8
<1>10. CASE AnnounceFault
  <2>1. TypeOK'
    BY <1>10 DEF AnnounceFault, archiveVars, TypeOK, Retained
  <2>2. SettlingBuilds'
    BY <1>10 DEF AnnounceFault, archiveVars, SettlingBuilds
  <2>3. AnnouncedPast'
    BY <1>10 DEF AnnounceFault, archiveVars, AnnouncedPast, Retained
  <2>4. OutputCaptured'
    BY <1>10 DEF AnnounceFault, archiveVars, OutputCaptured
  <2>5. ArchivesAnnounced'
    BY <1>10 DEF AnnounceFault, archiveVars, ArchivesAnnounced, Retained
  <2>6. SnapshotCurrent'
    BY <1>10 DEF AnnounceFault, archiveVars, SnapshotCurrent
  <2>7. FreshIsCurrent'
    BY <1>10 DEF AnnounceFault, archiveVars, FreshIsCurrent, Retained, Stale
  <2>8. RunningHasJob'
    BY <1>10 DEF AnnounceFault, archiveVars, RunningHasJob, TypeOK, Retained
  <2>9. (RowsPast /\ ArchiveFaithful)'
    BY <1>10 DEF AnnounceFault, archiveVars, RowsPast, ArchiveFaithful
  <2>. QED
    BY <2>1, <2>2, <2>3, <2>4, <2>5, <2>6, <2>7, <2>8, <2>9
<1>11. CASE ArchiveClear
  <2>1. TypeOK'
    BY <1>11 DEF ArchiveClear, jobVars, serverVars, TypeOK
  <2>2. SettlingBuilds'
    BY <1>11 DEF ArchiveClear, jobVars, serverVars, SettlingBuilds
  <2>3. OutputCaptured'
    BY <1>11 DEF ArchiveClear, jobVars, serverVars, OutputCaptured
  <2>4. ArchivesAnnounced'
    BY <1>11 DEF ArchiveClear, jobVars, serverVars, ArchivesAnnounced
  <2>5. ArchiveFaithful'
    BY <1>11 DEF ArchiveClear, jobVars, serverVars, ArchiveFaithful, TypeOK
  <2>6. (AnnouncedPast /\ RowsPast /\ SnapshotCurrent /\ FreshIsCurrent /\ RunningHasJob)'
    BY <1>11 DEF ArchiveClear, jobVars, serverVars, AnnouncedPast, RowsPast,
        SnapshotCurrent, FreshIsCurrent, RunningHasJob, Stale
  <2>. QED
    BY <2>1, <2>2, <2>3, <2>4, <2>5, <2>6
<1>12. CASE ArchiveLink
  <2>1. TypeOK'
    BY <1>12 DEF ArchiveLink, jobVars, serverVars, TypeOK
  <2>2. SettlingBuilds'
    BY <1>12 DEF ArchiveLink, jobVars, serverVars, SettlingBuilds
  <2>3. OutputCaptured'
    BY <1>12 DEF ArchiveLink, jobVars, serverVars, OutputCaptured
  <2>4. ArchivesAnnounced'
    BY <1>12 DEF ArchiveLink, jobVars, serverVars, ArchivesAnnounced
  <2>5. ArchiveFaithful'
    BY <1>12 DEF ArchiveLink, jobVars, serverVars, ArchiveFaithful, OutputCaptured,
        TypeOK
  <2>6. (AnnouncedPast /\ RowsPast /\ SnapshotCurrent /\ FreshIsCurrent /\ RunningHasJob)'
    BY <1>12 DEF ArchiveLink, jobVars, serverVars, AnnouncedPast, RowsPast,
        SnapshotCurrent, FreshIsCurrent, RunningHasJob, Stale
  <2>. QED
    BY <2>1, <2>2, <2>3, <2>4, <2>5, <2>6
<1>13. CASE ArchiveList
  <2>1. TypeOK'
    BY <1>13 DEF ArchiveList, serverVars, TypeOK, Kept
  <2>2. SettlingBuilds'
    BY <1>13 DEF ArchiveList, serverVars, SettlingBuilds
  <2>3. OutputCaptured'
    BY <1>13 DEF ArchiveList, serverVars, OutputCaptured
  <2>4. ArchivesAnnounced'
    BY <1>13 DEF ArchiveList, serverVars, ArchivesAnnounced
  <2>5. RowsPast'
    BY <1>13 DEF ArchiveList, serverVars, RowsPast, SettlingBuilds, SnapshotCurrent,
        Kept, TypeOK
  <2>6. SnapshotCurrent'
    BY <1>13 DEF ArchiveList, serverVars, SnapshotCurrent
  <2>7. RunningHasJob'
    BY <1>13 DEF ArchiveList, serverVars, RunningHasJob, ArchivesAnnounced
  <2>8. ArchiveFaithful'
    BY <1>13 DEF ArchiveList, serverVars, ArchiveFaithful, TypeOK
  <2>9. (AnnouncedPast /\ FreshIsCurrent)'
    BY <1>13 DEF ArchiveList, serverVars, AnnouncedPast, FreshIsCurrent, Stale
  <2>. QED
    BY <2>1, <2>2, <2>3, <2>4, <2>5, <2>6, <2>7, <2>8, <2>9
<1>14. CASE ArchiveFault
  <2>1. TypeOK'
    BY <1>14 DEF ArchiveFault, archiveVars, TypeOK
  <2>2. SettlingBuilds'
    BY <1>14 DEF ArchiveFault, archiveVars, SettlingBuilds
  <2>3. OutputCaptured'
    BY <1>14 DEF ArchiveFault, archiveVars, OutputCaptured
  <2>4. ArchivesAnnounced'
    BY <1>14 DEF ArchiveFault, archiveVars, ArchivesAnnounced
  <2>5. SnapshotCurrent'
    BY <1>14 DEF ArchiveFault, archiveVars, SnapshotCurrent
  <2>6. RunningHasJob'
    BY <1>14 DEF ArchiveFault, archiveVars, RunningHasJob, TypeOK
  <2>7. (AnnouncedPast /\ RowsPast /\ FreshIsCurrent /\ ArchiveFaithful)'
    BY <1>14 DEF ArchiveFault, archiveVars, AnnouncedPast, RowsPast, FreshIsCurrent,
        ArchiveFaithful, Stale
  <2>. QED
    BY <2>1, <2>2, <2>3, <2>4, <2>5, <2>6, <2>7
<1>15. CASE RequestRun
  <2>1. TypeOK'
    BY <1>15 DEF RequestRun, archiveVars, serverVars, TypeOK
  <2>2. SettlingBuilds'
    BY <1>15 DEF RequestRun, archiveVars, serverVars, SettlingBuilds
  <2>3. SnapshotCurrent'
    BY <1>15 DEF RequestRun, archiveVars, serverVars, SnapshotCurrent
  <2>4. RunningHasJob'
    BY <1>15 DEF RequestRun, archiveVars, serverVars, RunningHasJob
  <2>5. (AnnouncedPast /\ OutputCaptured /\ ArchivesAnnounced /\ RowsPast
      /\ FreshIsCurrent /\ ArchiveFaithful)'
    BY <1>15 DEF RequestRun, archiveVars, serverVars, AnnouncedPast, OutputCaptured,
        ArchivesAnnounced, RowsPast, FreshIsCurrent, ArchiveFaithful, Stale
  <2>. QED
    BY <2>1, <2>2, <2>3, <2>4, <2>5
<1>16. CASE RunWrites
  <2>1. TypeOK'
    BY <1>16 DEF RunWrites, jobVars, serverVars, TypeOK
  <2>2. OutputCaptured'
    BY <1>16 DEF RunWrites, jobVars, serverVars, OutputCaptured
  <2>3. FreshIsCurrent'
    BY <1>16 DEF RunWrites, jobVars, serverVars, FreshIsCurrent, Stale
  <2>4. ArchiveFaithful'
    BY <1>16 DEF RunWrites, jobVars, serverVars, ArchiveFaithful
  <2>5. (SettlingBuilds /\ AnnouncedPast /\ ArchivesAnnounced /\ RowsPast
      /\ SnapshotCurrent /\ RunningHasJob)'
    BY <1>16 DEF RunWrites, jobVars, serverVars, SettlingBuilds, AnnouncedPast,
        ArchivesAnnounced, RowsPast, SnapshotCurrent, RunningHasJob
  <2>. QED
    BY <2>1, <2>2, <2>3, <2>4, <2>5
<1>17. CASE RunEnds
  <2>1. TypeOK'
    BY <1>17 DEF RunEnds, archiveVars, serverVars, TypeOK
  <2>2. SettlingBuilds'
    BY <1>17 DEF RunEnds, archiveVars, serverVars, SettlingBuilds
  <2>3. SnapshotCurrent'
    BY <1>17 DEF RunEnds, archiveVars, serverVars, SnapshotCurrent
  <2>4. RunningHasJob'
    BY <1>17 DEF RunEnds, archiveVars, serverVars, RunningHasJob
  <2>5. (AnnouncedPast /\ OutputCaptured /\ ArchivesAnnounced /\ RowsPast
      /\ FreshIsCurrent /\ ArchiveFaithful)'
    BY <1>17 DEF RunEnds, archiveVars, serverVars, AnnouncedPast, OutputCaptured,
        ArchivesAnnounced, RowsPast, FreshIsCurrent, ArchiveFaithful, Stale
  <2>. QED
    BY <2>1, <2>2, <2>3, <2>4, <2>5
<1>18. CASE OrphanEnds
  <2>1. TypeOK'
    BY <1>18 DEF OrphanEnds, jobVars, archiveVars, serverVars, TypeOK
  <2>2. (SettlingBuilds /\ AnnouncedPast /\ OutputCaptured /\ ArchivesAnnounced
      /\ RowsPast /\ SnapshotCurrent /\ FreshIsCurrent /\ RunningHasJob /\ ArchiveFaithful)'
    BY <1>18 DEF OrphanEnds, jobVars, archiveVars, serverVars, SettlingBuilds,
        AnnouncedPast, OutputCaptured, ArchivesAnnounced, RowsPast, SnapshotCurrent,
        FreshIsCurrent, RunningHasJob, ArchiveFaithful, Stale
  <2>. QED
    BY <2>1, <2>2
<1>19. CASE Restart
  <2>1. TypeOK'
    BY <1>19 DEF Restart, archiveVars, TypeOK, Reconciled, Retained
  <2>2. SettlingBuilds'
    BY <1>19 DEF Restart, archiveVars, SettlingBuilds
  <2>3. AnnouncedPast'
    BY <1>19 DEF Restart, archiveVars, AnnouncedPast, Reconciled, Retained
  <2>4. OutputCaptured'
    BY <1>19 DEF Restart, archiveVars, OutputCaptured
  <2>5. ArchivesAnnounced'
    BY <1>19 DEF Restart, archiveVars, ArchivesAnnounced, Reconciled, Retained
  <2>6. SnapshotCurrent'
    BY <1>19 DEF Restart, archiveVars, SnapshotCurrent
  <2>7. FreshIsCurrent'
    BY <1>19 DEF Restart, archiveVars, FreshIsCurrent, Reconciled, Retained, Stale
  <2>8. RunningHasJob'
    BY <1>19 DEF Restart, archiveVars, RunningHasJob, TypeOK, Reconciled, Retained
  <2>9. (RowsPast /\ ArchiveFaithful)'
    BY <1>19 DEF Restart, archiveVars, RowsPast, ArchiveFaithful
  <2>. QED
    BY <2>1, <2>2, <2>3, <2>4, <2>5, <2>6, <2>7, <2>8, <2>9
<1>20. CASE UNCHANGED vars
  BY <1>20
  DEF vars, jobVars, archiveVars, serverVars, TypeOK, SettlingBuilds, AnnouncedPast,
      OutputCaptured, ArchivesAnnounced, RowsPast, SnapshotCurrent, FreshIsCurrent, Stale,
      RunningHasJob, ArchiveFaithful
<1>. QED
  BY <1>1, <1>2, <1>3, <1>4, <1>5, <1>6, <1>7, <1>8, <1>9, <1>10,
     <1>11, <1>12, <1>13, <1>14, <1>15, <1>16, <1>17, <1>18, <1>19, <1>20
  DEF Next

\* The invariant holds in every reachable state.
LEMMA SpecInv == Spec => []IInv
BY StartsInv, StepInv, PTL DEF Spec

-----------------------------------------------------------------------------
(* The properties *)

\* The variables keep to their types for any limit of the archive and any bounds.
THEOREM TypeCorrect == Spec => []TypeOK
<1>1. IInv => TypeOK
  BY DEF IInv
<1>. QED
  BY <1>1, SpecInv, PTL

\* A PDF of a draft that is announced and not flagged stale (compile_status) is
\* the PDF of the current draft, whatever failed or crashed before.
THEOREM Fresh == Spec => []FreshIsCurrent
<1>1. IInv => FreshIsCurrent
  BY DEF IInv
<1>. QED
  BY <1>1, SpecInv, PTL

\* The draft cannot move between prepare_compile and _publish: the stale_job check
\* of settle_compile never fires as long as every writer of drafts is locked out.
THEOREM SnapshotStays == Spec => []SnapshotCurrent
<1>1. IInv => SnapshotCurrent
  BY DEF IInv
<1>. QED
  BY <1>1, SpecInv, PTL

\* compile.json says "running" only while a compile works, but for failed writes.
THEOREM RunningIsTrue == Spec => []RunningHasJob
<1>1. IInv => RunningHasJob
  BY DEF IInv
<1>. QED
  BY <1>1, SpecInv, PTL

\* No later publication, crash or run puts another draft's PDF under the name of
\* an archived revision (versions.archive).
THEOREM Archived == Spec => []ArchiveFaithful
<1>1. IInv => ArchiveFaithful
  BY DEF IInv
<1>. QED
  BY <1>1, SpecInv, PTL

-----------------------------------------------------------------------------
(* Retention *)

\* The largest revision of a set is among the newest, whatever the limit is.
LEMMA LargestKept ==
    ASSUME NEW R \in SUBSET Nat, NEW n \in R, \A r \in R : r <= n
    PROVE  n \in Kept(R)
<1>1. {q \in R : q > n} = {}
  <2>1. \A q \in R : q \in Nat /\ n \in Nat /\ q <= n
    OBVIOUS
  <2>2. \A q \in R : ~(q > n)
    BY <2>1
  <2>. QED
    BY <2>2
<1>2. Cardinality({q \in R : q > n}) = 0
  BY <1>1, FS_EmptySet
<1>. QED
  BY <1>2, ConstantsAssumption DEF Kept

\* versions.archive never evicts the revision that is announced: it is the one
\* being archived, and no row is newer.
THEOREM VersionStays == Spec => AnnouncedVersionKept
<1>1. ASSUME IInv, [Next]_vars, state.revision \in rows \/ ArchiveList
      PROVE  state.revision \in rows'
  <2>1. CASE ArchiveList
    <3>1. captured = draft /\ state.revision = captured
      BY <1>1, <2>1
      DEF ArchiveList, IInv, SettlingBuilds, SnapshotCurrent, ArchivesAnnounced
    <3>2. rows \cup {captured} \in SUBSET Nat
      BY <1>1, ConstantsAssumption DEF IInv, TypeOK
    <3>3. \A r \in rows \cup {captured} : r <= captured
      BY <1>1, <3>1, <3>2 DEF IInv, RowsPast
    <3>4. captured \in Kept(rows \cup {captured})
      BY <3>2, <3>3, LargestKept
    <3>. QED
      BY <2>1, <3>1, <3>4 DEF ArchiveList
  <2>2. CASE ~ArchiveList
    <3>1. rows' = rows
      BY <1>1, <2>2
      DEF Next, vars, jobVars, archiveVars, serverVars, Edit, RequestCompile, Copy, Spawn,
          StartFault, Cancel, Fail, Replace, Announce, AnnounceFault, ArchiveClear,
          ArchiveLink, ArchiveFault, RequestRun, RunWrites, RunEnds, OrphanEnds, Restart
    <3>. QED
      BY <1>1, <2>2, <3>1
  <2>. QED
    BY <2>1, <2>2
<1>2. IInv /\ [Next]_vars
        => [state.revision \in rows \/ ArchiveList => state.revision \in rows']_vars
  BY <1>1
<1>. QED
  BY <1>2, SpecInv, PTL DEF Spec, AnnouncedVersionKept

-----------------------------------------------------------------------------
(* Refinement *)

\* Every step of the compile, its faults, crashes and retries included, is a step
\* of the publication of draft revisions, or leaves it where it is.
THEOREM Implements == Spec => Publishes
<1>1. Init => Abstract!Init
  BY DEF Init, Abstract!Init
<1>2. IInv /\ [Next]_vars => [Abstract!Next]_(Abstract!vars)
  <2>. SUFFICES ASSUME IInv, [Next]_vars
                PROVE  [Abstract!Next]_(Abstract!vars)
    OBVIOUS
  <2>1. CASE Edit
    BY <2>1 DEF Edit, Abstract!Next, Abstract!Edit
  <2>2. CASE Replace
    BY <2>2 DEF Replace, Abstract!Next, Abstract!Replace
  <2>3. CASE Announce
    <3>1. captured = draft /\ output \in Raw \cup {draft}
      BY <2>3 DEF Announce, IInv, SettlingBuilds, SnapshotCurrent, OutputCaptured
    <3>. QED
      BY <2>3, <3>1 DEF Announce, Abstract!Next, Abstract!Announce
  <2>4. CASE RunWrites
    BY <2>4 DEF RunWrites, Abstract!Next, Abstract!Overwrite
  <2>5. CASE ~(Edit \/ Replace \/ Announce \/ RunWrites)
    <3>1. UNCHANGED <<draft, output>>
      /\ state' \in {state, Retained("running"), Retained("failed")}
      BY <2>5
      DEF Next, vars, jobVars, archiveVars, serverVars, RequestCompile, Copy, Spawn,
          StartFault, Cancel, Fail, AnnounceFault, ArchiveClear, ArchiveLink, ArchiveList,
          ArchiveFault, RequestRun, RunEnds, OrphanEnds, Restart, Reconciled
    <3>2. state'.revision = state.revision
      BY <3>1 DEF Retained
    <3>. QED
      BY <3>1, <3>2 DEF Abstract!vars
  <2>. QED
    BY <2>1, <2>2, <2>3, <2>4, <2>5
<1>. QED
  BY <1>1, <1>2, SpecInv, PTL DEF Spec, Publishes, Abstract!Spec

=============================================================================
