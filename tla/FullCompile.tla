----------------------------- MODULE FullCompile -----------------------------
(***************************************************************************)
(* One document of "bdt serve": its draft revisions, the full compile that *)
(* builds a snapshot and publishes the PDF, the state file the readers     *)
(* trust, the archive of versions, and the pipeline runs that build into   *)
(* the same file.                                                          *)
(*                                                                         *)
(* Source: babeldoc_tools/serve/draft.py, compile.py, versions.py and the  *)
(* part of runner.py that starts and settles a compile.                    *)
(*                                                                         *)
(* Settling is one call on the event loop, so no handler runs between its  *)
(* file operations, but the process may die there and a child may write:   *)
(* "step" is the next operation, and every handler waits for "idle".       *)
(***************************************************************************)
EXTENDS Naturals, FiniteSets

CONSTANTS
    Translation,    \* a PDF a pipeline run built from the workdir: no draft in it
    Torn,           \* a PDF that was cut off while it was being written
    Missing,        \* no file
    MaxVersions,    \* MAX_VERSIONS
    MaxRev,         \* bound: draft revisions
    MaxBoots,       \* bound: processes of bdt serve in a behaviour
    MaxFaults       \* bound: file and database writes that raise

ASSUME ConstantsAssumption ==
    /\ Translation \notin Nat /\ Torn \notin Nat /\ Missing \notin Nat
    /\ MaxVersions \in Nat \ {0}
    /\ MaxRev \in Nat
    /\ MaxBoots \in Nat \ {0}
    /\ MaxFaults \in Nat

Rev == 0..MaxRev
\* A PDF is known by the draft revision in it, or by the lack of one.
Built == {Translation, Torn}
Raw == Built \cup {Missing}
Content == Rev \cup Raw

VARIABLES
    draft,      \* DraftDoc.revision
    job,        \* the active job of the document
    captured,   \* CompilePlan.revision
    cancel,     \* JobRecord.cancel_requested_at is set
    step,       \* progress of settle_compile
    state,      \* compile.json; status "none" = no file
    output,     \* the PDF in <workdir>/output
    files,      \* versions/<revision>.pdf
    rows,       \* the revisions listed in versions.json
    linked,     \* the archived revisions that share the inode of output
    orphan,     \* a pipeline child no job owns any more still builds
    boot,       \* the running server process
    faults      \* writes that raised so far

jobVars == <<job, captured, cancel>>
archiveVars == <<files, rows>>
serverVars == <<boot, faults>>
vars == <<draft, jobVars, step, state, output, archiveVars, linked, orphan, serverVars>>

TypeOK ==
    /\ draft \in Rev
    /\ job \in {"none", "queued", "copied", "building", "lost", "run"}
    /\ captured \in Rev
    /\ cancel \in BOOLEAN
    /\ step \in {"idle", "replaced", "announced", "cleared", "linked"}
    /\ state \in [status : {"none", "running", "ok", "failed"},
                  revision : Rev, artifact : BOOLEAN]
    /\ output \in Content
    /\ files \in [Rev -> Content]
    /\ rows \in SUBSET Rev
    /\ linked \in SUBSET Rev
    /\ orphan \in BOOLEAN
    /\ boot \in 1..MaxBoots
    /\ faults \in 0..MaxFaults

Init ==
    /\ draft = 0
    /\ job = "none"
    /\ captured = 0
    /\ cancel = FALSE
    /\ step = "idle"
    /\ state = [status |-> "none", revision |-> 0, artifact |-> FALSE]
    /\ output = Missing
    /\ files = [r \in Rev |-> Missing]
    /\ rows = {}
    /\ linked = {}
    /\ orphan = FALSE
    /\ boot = 1
    /\ faults = 0

-----------------------------------------------------------------------------
(* Drafts *)

\* BUG: a draft may be edited while a job works on a snapshot of it.
Edit_WhileBusy ==
    /\ step = "idle"
    /\ draft < MaxRev
    /\ draft' = draft + 1
    /\ UNCHANGED <<jobVars, step, state, output, archiveVars, linked, orphan, serverVars>>

\* DraftStore.patch, patch_current and delete behind reject_busy: revision + 1.
Edit ==
    /\ step = "idle"
    /\ job = "none"
    /\ draft < MaxRev
    /\ draft' = draft + 1
    /\ UNCHANGED <<jobVars, step, state, output, archiveVars, linked, orphan, serverVars>>

-----------------------------------------------------------------------------
(* The compile job *)

\* BUG: a failed attempt is recorded with the revision it attempted.
Retained_Attempted(status) ==
    [status |-> status, revision |-> captured, artifact |-> state.artifact]

\* _last_published: every state but "ok" keeps the last published revision.
Retained(status) ==
    [status |-> status, revision |-> state.revision, artifact |-> state.artifact]

RequestCompile ==
    /\ step = "idle"
    /\ job = "none"
    /\ job' = "queued"
    /\ cancel' = FALSE
    /\ UNCHANGED <<draft, captured, step, state, output, archiveVars, linked, orphan, serverVars>>

\* prepare_compile: copy the workdir, read the draft, record the attempt.
Copy ==
    /\ step = "idle"
    /\ job = "queued"
    /\ job' = "copied"
    /\ captured' = draft
    /\ state' = Retained("running")
    /\ UNCHANGED <<draft, cancel, step, output, archiveVars, linked, orphan, serverVars>>

Spawn ==
    /\ step = "idle"
    /\ job = "copied"
    /\ job' = "building"
    /\ UNCHANGED <<draft, captured, cancel, step, state, output, archiveVars, linked,
                   orphan, serverVars>>

\* mark_started raises: the child runs, the record is active, no monitor exists.
StartFault ==
    /\ step = "idle"
    /\ faults < MaxFaults
    /\ faults' = faults + 1
    /\ job = "copied"
    /\ job' = "lost"
    /\ UNCHANGED <<draft, captured, cancel, step, state, output, archiveVars, linked,
                   orphan, boot>>

\* A queued record leaves without a trace, canceled or (its document is gone)
\* refused; with a process only the flag is set.
Cancel ==
    /\ step = "idle"
    /\ \/ job = "queued" /\ job' = "none" /\ UNCHANGED cancel
       \/ job = "building" /\ cancel' = TRUE /\ UNCHANGED job
    /\ UNCHANGED <<draft, captured, step, state, output, archiveVars, linked, orphan, serverVars>>

\* Snapshot or spawn failed; canceled, timed out, build failed, no PDF in the
\* copy, draft moved, or the first replacement raised: nothing was touched.
Fail ==
    /\ step = "idle"
    /\ job \in {"queued", "copied", "building"}
    /\ job' = "none"
    /\ state' = Retained("failed")
    /\ UNCHANGED <<draft, captured, cancel, step, output, archiveVars, linked, orphan, serverVars>>

\* BUG: the bytes are copied over the published file.
Replace_InPlace ==
    /\ step = "idle"
    /\ job = "building"
    /\ ~cancel
    /\ captured = draft
    /\ output' = captured
    /\ files' = [r \in Rev |-> IF r \in linked THEN captured ELSE files[r]]
    /\ step' = "replaced"
    /\ UNCHANGED <<draft, jobVars, state, rows, linked, orphan, serverVars>>

\* _publish: os.replace gives the name to a new inode.
Replace ==
    /\ step = "idle"
    /\ job = "building"
    /\ ~cancel
    /\ captured = draft
    /\ output' = captured
    /\ linked' = {}
    /\ step' = "replaced"
    /\ UNCHANGED <<draft, jobVars, state, archiveVars, orphan, serverVars>>

Announce ==
    /\ step = "replaced"
    /\ state' = [status |-> "ok", revision |-> captured, artifact |-> TRUE]
    /\ step' = "announced"
    /\ UNCHANGED <<draft, jobVars, output, archiveVars, linked, orphan, serverVars>>

\* compile.json cannot be written: publish_failed keeps the old revision, or,
\* when that write raises as well, the file keeps saying "running".
AnnounceFault ==
    /\ step = "replaced"
    /\ faults < MaxFaults
    /\ faults' = faults + 1
    /\ state' \in {Retained("failed"), state}
    /\ job' = "none"
    /\ step' = "idle"
    /\ UNCHANGED <<draft, captured, cancel, output, archiveVars, linked, orphan, boot>>

-----------------------------------------------------------------------------
(* The archive of versions (versions.archive) *)

\* A file of an earlier compile of the same revision is unlinked.
ArchiveClear ==
    /\ step = "announced"
    /\ files' = [files EXCEPT ![captured] = Missing]
    /\ linked' = linked \ {captured}
    /\ step' = "cleared"
    /\ UNCHANGED <<draft, jobVars, state, output, rows, orphan, serverVars>>

\* os.link, or a copy where the file system has no hard links.
ArchiveLink ==
    /\ step = "cleared"
    /\ files' = [files EXCEPT ![captured] = output]
    /\ linked' \in {linked, linked \cup {captured}}
    /\ step' = "linked"
    /\ UNCHANGED <<draft, jobVars, state, output, rows, orphan, serverVars>>

\* BUG: the newest rows beyond the limit are dropped.
Kept_Oldest(R) == {r \in R : Cardinality({q \in R : q < r}) < MaxVersions}

\* The newest MaxVersions rows.
Kept(R) == {r \in R : Cardinality({q \in R : q > r}) < MaxVersions}

\* The manifest, then the files of the rows it dropped (an error there is
\* ignored, and a file that stays is served by no row); the job is over.
ArchiveList ==
    /\ step = "linked"
    /\ rows' = Kept(rows \cup {captured})
    /\ \E dropped \in SUBSET ((rows \cup {captured}) \ rows') :
          /\ files' = [r \in Rev |-> IF r \in dropped THEN Missing ELSE files[r]]
          /\ linked' = linked \ dropped
    /\ job' = "none"
    /\ step' = "idle"
    /\ UNCHANGED <<draft, captured, cancel, state, output, orphan, serverVars>>

\* The archive is best effort: the compile has succeeded all the same.
ArchiveFault ==
    /\ step \in {"announced", "cleared", "linked"}
    /\ faults < MaxFaults
    /\ faults' = faults + 1
    /\ job' = "none"
    /\ step' = "idle"
    /\ UNCHANGED <<draft, captured, cancel, state, output, archiveVars, linked, orphan, boot>>

-----------------------------------------------------------------------------
(* Pipeline runs build into the workdir itself. *)

RequestRun ==
    /\ step = "idle"
    /\ job = "none"
    /\ job' = "run"
    /\ UNCHANGED <<draft, captured, cancel, step, state, output, archiveVars, linked,
                   orphan, serverVars>>

\* PDFCreater copies the finished file over the output: same inode, new bytes,
\* and a child that is killed meanwhile leaves a part of them.  Its fallback, the
\* library's save, makes a new file.
RunWrites ==
    /\ job = "run" \/ orphan
    /\ output' \in Built
    /\ \/ /\ files' = [r \in Rev |-> IF r \in linked THEN output' ELSE files[r]]
          /\ UNCHANGED linked
       \/ linked' = {} /\ UNCHANGED files
    /\ UNCHANGED <<draft, jobVars, step, state, rows, orphan, serverVars>>

\* The monitor finishes the job; a child SIGKILL could not stop lives on.
RunEnds ==
    /\ step = "idle"
    /\ job = "run"
    /\ job' = "none"
    /\ orphan' \in {orphan, TRUE}
    /\ UNCHANGED <<draft, captured, cancel, step, state, output, archiveVars, linked, serverVars>>

OrphanEnds ==
    /\ orphan
    /\ orphan' = FALSE
    /\ UNCHANGED <<draft, jobVars, step, state, output, archiveVars, linked, serverVars>>

-----------------------------------------------------------------------------
(* Crash and restart *)

\* BUG: an attempt the old process left behind is not settled.
Reconciled_None == state

\* CompileService.reconcile: an attempt of the old process has failed.
Reconciled == IF state.status = "running" THEN Retained("failed") ELSE state

\* The process ends anywhere, between two file operations as well; its children
\* live on, and the next process interrupts the job records.
Restart ==
    /\ boot < MaxBoots
    /\ boot' = boot + 1
    /\ job' = "none"
    /\ step' = "idle"
    /\ state' = Reconciled
    /\ orphan' = (orphan \/ job = "run")
    /\ UNCHANGED <<draft, captured, cancel, output, archiveVars, linked, faults>>

-----------------------------------------------------------------------------
Next ==
    \/ Edit \/ RequestCompile \/ Copy \/ Spawn \/ StartFault \/ Cancel \/ Fail
    \/ Replace \/ Announce \/ AnnounceFault
    \/ ArchiveClear \/ ArchiveLink \/ ArchiveList \/ ArchiveFault
    \/ RequestRun \/ RunWrites \/ RunEnds \/ OrphanEnds
    \/ Restart

Spec == Init /\ [][Next]_vars

-----------------------------------------------------------------------------
(* Properties *)

\* compile_status.stale: the reader is told whether the artifact is out of date.
Stale == draft > state.revision

\* A PDF of a draft that is announced and not flagged stale is the PDF of the
\* current draft: no failure, fault, crash or retry makes an older (or a newer,
\* unannounced) one pass for it.
FreshIsCurrent == state.artifact /\ ~Stale /\ output \in Rev => output = draft

\* The draft a compile snapshot was taken of is still the current one when it
\* builds and publishes: edits are locked out for the whole life of the job, so
\* the stale_job check of settle_compile is a second line of defence.
SnapshotCurrent == job \in {"copied", "building"} => captured = draft

\* The state file says "running" only while a compile is at work: whatever fails,
\* is canceled or crashes, the details page never shows a compile that is not.
RunningHasJob ==
    faults = 0 /\ state.status = "running" => job \in {"copied", "building"}

\* Whenever the archive is listed anew, the revision the state file announces is on
\* the list, although retention drops rows and a revision may be published again.
AnnouncedVersionKept ==
    [][state.revision \in rows \/ ArchiveList => state.revision \in rows']_vars

\* versions/<r>.pdf is the PDF of revision r, or was written by a pipeline run:
\* publishing a later revision never reaches the archived bytes, crash or not.
ArchiveFaithful == \A r \in Rev : files[r] \in Rev => files[r] = r

\* The full compile implements the publication of draft revisions.
Abstract == INSTANCE Publication WITH announced <- state.revision, pdf <- output

Publishes == Abstract!Spec

=============================================================================
