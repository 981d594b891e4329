# Verification of SyncPDF

SyncPDF translates scientific PDFs and keeps their layout. `bdt serve` is the
server in the middle of it: it owns the documents, accepts edits of the
translation from a browser, and runs the jobs that turn them into PDFs. `bdt run`
is the pipeline those jobs execute. A desktop app does the same work with an engine
of its own, a resident process behind a queue of papers. This directory holds TLA+
models of the server, of its event feed, of the pipeline and of the app with its engine, the TLC
configurations that check them on small instances, and TLAPS proofs of safety
properties for every instance. Paths below are relative to `src/`.

## 1. The system

| component | source | state it keeps | operations |
|---|---|---|---|
| job registry | `babeldoc_tools/serve/jobs.py` | `JobRecord`s (in `app.db`), FIFO, boot id | create, pop, mark started / cancel requested / finished, load |
| job runner | `.../serve/runner.py` | `_running` (child process + monitor task), registry lock | submit, pump, start, watch, cancel, terminate |
| drafts | `.../serve/draft.py` | draft of a document and its revision | patch, delete, read |
| full compile | `.../serve/compile.py` | `compile.json`, snapshot directories, `output/` | request, prepare, publish, settle, reconcile |
| versions | `.../serve/versions.py` | `versions/<r>.pdf`, `versions.json` | archive, read |
| local compile | `.../serve/block_compile.py` | patches, page assets, exports, previews; worker tasks | submit, batch, export, compose |
| stream preview | `.../serve/stream_preview.py` | worker pool, page state while a run translates | publish page, float, close |
| candidates | `.../serve/candidates.py` | candidate rows | prepare, settle, adopt, drop |
| SQLite, assets | `database.py`, `asset_store.py` | tables, content-addressed files | transactions, put, resolve |
| documents | `store.py`, `uploads.py`, `cleanup.py`, `migrate.py` | work directories | upload, delete, clean, migrate |
| event stream | `routers/events.py`, `web/src/lib/queries.ts`, `web/src/components/events/` | per-connection inbox and cursor; the app's window and the cursor it continues from | page, subscribe, read, drain, reconnect, merge |
| pipeline | `babeldoc_tools/run.py` and the stages | `run_state.json`, stage outputs | parse, translate, apply, build, check, review, fix rounds |
| translation core | `babeldoc/` | PDF IR, caches, thread pools | parsing, typesetting, translating |
| Rust engine | `engine/crates/` | JSONL session, page schedule, asset store | configure, run, cancel, apply_edit, retranslate |
| Electron main | `app/src/main/` | paper queue, sidecar process | enqueue, cancel, restart |
| user interfaces | `web/`, `app/` renderer, `debug_*` | none of their own | |

**Interaction.** HTTP handlers of the server run on one asyncio event loop. They
create job records under the registry lock. `run`, `check`, `compile` and
`retranslate` jobs are child processes (`bdt run`), each with a monitor task;
`block`, `blocks` and `export` jobs are threads of the server behind a
semaphore. A `run` job that translates builds a stream preview in a pool of threads
of the child. A job of a document excludes its other jobs (`active_for_did`) and,
but for the compile of one block, edits of its draft (`reject_busy`). Children
and server share the work directory; a full compile works on a copy and
publishes with `os.replace`, a pipeline run builds in place. Everything that has
to survive the server is in `app.db`, `compile.json`, `versions.json`,
`candidates.json` and the draft file. The app's main process (`engine.ts`,
`library.ts`) sends one paper at a time to the engine (`syncpdf-cli`) through
`sidecar.ts`, which starts it again after a crash; an engine has a thread that reads
requests and a loop that executes them one after the other.

**What is hard.** The single-threaded loop makes the code between two awaits
atomic, and tempts one to forget the awaits: the lock, the thread that copies a
snapshot, the polling of a child, the draining of its pipes, the semaphore.
Timeouts, exits, cancels and the end of the server meet there. Children outlive
the server. Publication is several file operations with a crash possible after
each. Patches are committed in one transaction and the pages that show them in
others, and a stamp may be moved to a page where other blocks are at home. The
threads of a stream preview write back whole rows they share, and decide between
them who publishes a page. A pipeline is resumed in the middle, on files that were
edited since. The app knows of its engine only what comes through two pipes, whose
lines carry no run, and the engine may die between any two of them.
`PROJECT.json` lists these hazards at their lines, with the properties that
watch them, or the reason there is none.

**What makes each part correct.**

- *Registry and runner*: one active job per document; the cap holds; no active job
  is forgotten; a cancel is honoured, and not overwritten by a success it raced;
  terminal statuses are final; a restart leaves nothing active; every admitted
  job is decided.
- *Full compile*: a PDF announced as current is the PDF of the current draft; the
  last published one survives failures; archived versions are what they say.
- *Local compile*: a patch has the text of the draft; a page shows what its
  patches make of it; an export shows the draft.
- *Stream preview*: no committed patch is lost; a page is published when its blocks
  have settled, and every such page is; nothing is written for a job that is over;
  a preview that fails harms nothing but itself.
- *Candidates*: a row that is being generated is in somebody's hands; an adopted one
  is in the draft; a filled one is never lost.
- *Pipeline*: a call succeeds only with a PDF of the current files and the last
  check passed; fix rounds are bounded over all calls.
- *App and engine*: a row of the library says what the queue does; both agree on the run that is outstanding; a cancel reaches its
  run or none; "done" means that the last run was published, with every edit; every
  paper is decided.
- *Event stream*: nothing falls between the pages and the stream; the panel shows one
  run; the last change of a job survives a full inbox; every event is shown.

## 2. Modules

| module | role |
|---|---|
| `JobRunner` | job registry, runner and the tasks of the block compiler; end of the event loop, crash, restart |
| `DocumentSlot` | what the registry promises: one slot per document, taken once, released before reuse |
| `MCJobRunner` | two instances for TLC: one job of each code path, and two jobs with processes on one document |
| `JobRunnerProofs` | inductive invariant, invariance theorems, refinement of `DocumentSlot` |
| `FullCompile` | draft, full compile, state file, archive, and pipeline runs in the same directory |
| `Publication` | what a full compile promises: the announced revision moves only to the current draft |
| `FullCompileProofs` | inductive invariant, invariance theorems, refinement of `Publication` |
| `LocalCompile` | drafts of blocks, patches, floated stamps, page assets, exports |
| `MCLocalCompile` | a document of two blocks on two pages |
| `LocalCompileProofs` | inductive invariant and theorems on patches, pages and exports |
| `StreamPreview` | the preview a job builds while it translates: threads, shared rows, pages, close |
| `MCStreamPreview` | three blocks on two pages and a page without blocks |
| `StreamPreviewProofs` | inductive invariants and theorems on patches and publication |
| `Candidates` | candidates of retranslated paragraphs, their jobs, copies and decisions |
| `CandidatesProofs` | inductive invariants and theorems on rows and copies |
| `RunPipeline` | calls of `bdt run` on one work directory: stages, hashes, resumption, fix rounds |
| `MCRunPipeline` | symmetry and view for TLC |
| `RunPipelineProofs` | inductive invariants and theorems on successful calls and on rounds |
| `EngineQueue` | paper queue, sidecar manager and engine sessions of the desktop app |
| `EngineQueueProofs` | inductive invariants and theorems on the queue, its runs, cancels and results |
| `EventStream` | events of a run and changes of its job on their way into the web app |
| `EventStreamProofs` | inductive invariants and theorems on events, runs and the last job change |

`JobRunner` decides when jobs run; `FullCompile` and `LocalCompile` open the box
of one job and keep of the runner only what their document sees: at most one job
at a time (theorem `OneActive`), canceled, failed or crashed at any point.
`StreamPreview` opens the translating stage of a `run` job, `Candidates` a
`retranslate` job with what precedes and follows it, `RunPipeline` the child process
of either. `EventStream` watches from outside: a run that records events and a registry
whose jobs change are all it sees of the others. `EngineQueue` is a system of its own.

### JobRunner

One action is the code between two suspensions. `Submit`, `SubmitLocal` and
`Cancel` are the handlers from the moment they hold the registry lock.
`PumpEnter ... PumpLeave` is `_pump`, which keeps the lock across
`StartIsolated ... Prepared` (the snapshot copied in a thread). The monitor of a
job goes `polling`, then `draining` (child observed to exit) or `killing` and
`expired` (deadline), and `Settle` is the rest of `_watch`: classify, publish,
finish, drop the handle, pump. `ChildExit` is the operating system; a child may
also survive SIGKILL for a time (`stuck`), as `_terminate` allows for.
`pumps[c]` counts callers waiting for the lock; they are interchangeable but for
what the end of the server does to them. `Stop` is the lifespan handler,
`CancelTasks` what `asyncio.run` does to the remaining tasks, `Restart` a crash
at any moment, or the end of a stop, followed by `JobRegistry.load`.
`StartFault`, `SettleFault` and `LocalFault` are a write that raises: `sqlite3.Error`
of `app.db`, and on the way out of a failed start also `OSError` of the failed state
(`runner.py:884`) or of a candidate's row (`runner.py:1015`), which leave the pump in
the same way. The writes inside a submission are not among these faults (section 3).

### FullCompile

A PDF is known by the draft revision in it (`0..MaxRev`), or is the product of a
pipeline run (`Translation`), or half written (`Torn`), or absent (`Missing`).
`settle_compile` is one call on the event loop, but a sequence of file
operations: `step` is the next one, handlers wait for `idle`, a crash and a
child's writes do not. `linked` is the set of archived revisions that share the
inode of the output. `orphan` is a child the server has given up, or that
outlived it, which may still write.

### LocalCompile

A text is known by the draft revision that wrote it, 0 is the machine
translation. A page asset is the function from blocks to the text the page shows
(`NoText` when the block is elsewhere). `CommitPatch` is the transaction that
stores a patch, `Compose` the one that stores a page; `frozen` is the baseline a
page is composed over, fixed when the page gets its first patch. `End` is every
way a job can stop early: refusal, error, cancel, crash. `Begin` reads the draft
again after `Submit`, whose revision check precedes the lock. The renderers of a
batch work at the same time, those of an export one after the other.

### StreamPreview

One action is the code between two locks or transactions. `main` is the thread that
feeds the translator's output (`Emit`) and then closes the preview (`Join`, `Flush`,
`FlushEnds`). A thread of the pool goes `Take`, `Settle` (a block that is not to be
replaced, or cannot) or `Render`, `ReadRow`, `WriteRow` (the row of the page is read,
changed and written back whole, under the page's lock), then `Publish` for the home
page and the page the stamp landed on, and `Composed` or `ComposeRaises`. `patch` is
what the rows say: the page on which the patch of a block lands. A page asset is the
set of patches it shows. `over` is the job's end as the database knows it, which
every transaction checks. `Start` is the clearing of an earlier job's rows in the
runner.

### Candidates

`CandidateStore` holds its lock without suspending, so a handler is an action from
one wait (registry lock, copying thread, child) to the next: `Request`, `Submit`,
`Attach`; `Prepare`, `Launch` or `StartFails`; `SettleFilled` or `SettleDropped`.
`Adopt` writes the draft and then the row, with a crash or a failed write between
the two as its other outcomes. A drop that raises where a start has failed leaves the
job popped from the FIFO and active (`stuck`). `other` is any other job of the document. `stranded`
and `written` are history: rows whose drop raised, candidates whose text reached the
draft.

### RunPipeline

A file is its content, and so is its hash: what `find_stale_stage` compares is
whether the content differs. One call of `bdt run` is a sequence of actions: the
stage's effect (`RunStage`, `Review`), the record of it taken from the files as they
are then (`Record`), for check the second save (`RecordCheck`), and `Finish`. `Stop`
ends a call anywhere, as a failed stage or as a dead process; `Edit` changes a file
at any time. Reviewer, `--prompt-only` and `--skip-ai-review` are chosen when their
stage is reached. `untrusted` (a stage whose record does not tell what its artifact
holds, because the call ended or a file changed between the two), `edited`,
`demands` and `lost` are history.

### EngineQueue

The main process runs one handler at a time, and `pump` only awaits promises that
are already resolved: a handler and the pump it ends in are one action. Each process
slot holds an engine with the pipe to it, the channel between its threads, its run,
and the lines it has written. `Deliver` is a line that arrives, `Exit` the event
of a process that ended, `Respawn` the timer that starts it again; `Quit`, `AppExit`
and `Start` end and start the app. In the engine, `Read`, `ReadCancel` and `ReadEof`
are the reader thread, the others the main loop. `TakeRun` starts a full run, which
sends `run_started`, or fails before it when pdfium cannot be started (`BeginFull`).
`TakePages` is the recompile of the pages of blocks edited since a run of the same
request, on what that run `retained`: it sends no `run_started`, and gives way to a
full run when it fails (`FallBack`). `Publish` writes the translation, `Finish` ends a
published run and `Fail` any other. Contents are counted: a run has a number, `output`
says which run wrote a translation, how many edits it shows, and whether it is
`partial`, because `load_block_edits` could not read the store or found a style invalid
and went on with a warning. `strayed`, `disowned` and `unstarted` are history: a line
was booked to another run than its own; a paper was removed while its run was
outstanding; a run failed before `run_started` while its paper was still marked as
published.

### EventStream

`written` is the archive of each run (its complete lines), `changes` the status changes
of the document's jobs. The generator of a connection suspends once a turn, while a thread
reads the archive: `Connect` subscribes, `Read` is the thread, `Send` the rest of the turn.
`wire` is what was sent and not received; `Drop` loses it with the connection, and the
browser connects again with the same URL, unless it is answered with another status than
200 (`Refuse`): then its source is closed, until a fetch of the tail or a new run opens
another. A frame is named by the kind of its event and reaches the listener of this
kind; `Unheard` are the events whose kind has none, which the server's cursor passes and
the browser drops (`Deliver`). The app fetches the tail page by page
(`StartFetch`, `FetchPage`, `FetchDone`), opens a stream where the pages ended, and puts
what it delivers on top. An event in a window is a seq mapped to the run it
is of. `mixed` is history: the pages of a tail came from two runs.

## 3. Runs

| run | module | expects | shows |
|---|---|---|---|
| `jobs_safety` | MCJobRunner | pass | five invariants, final statuses, and the refinement of `DocumentSlot` |
| `jobs_live` | MCJobRunner | pass | `OneLiveChildPerDocument`, and `JobDecided` under the fairness below |
| `full_compile` | FullCompile | pass | announced revisions, snapshots, archive, refinement of `Publication` |
| `local_compile` | MCLocalCompile | pass | patches, pages and exports against the draft |
| `export_stale` | MCLocalCompile | violation | an old page published at the current revision |
| `stream_preview` | MCStreamPreview | pass | patches kept, pages published settled and all of them, nothing written after the end |
| `preview_fails` | MCStreamPreview | violation | an exception of the preview fails the translation |
| `candidates` | Candidates | pass | rows in somebody's hands, adopted ones in the draft, filled ones kept |
| `run_pipeline` | MCRunPipeline | pass | successful calls are current and checked, fix rounds bounded |
| `engine_queue` | EngineQueue | pass | the queue holds what the library shows; queue and engine agree; lines, cancels, results and edits reach their paper; every paper is decided |
| `engine_crash` | EngineQueue | violation | a crash fails the papers that wait |
| `event_stream` | EventStream | pass | no event skipped, none of another run, the last job change kept, every event shown |

`TypeOK` is a theorem for every component, and no run spends itself on it. The runs that
expect a violation check what a docstring, a comment or the
documentation says, and the findings in `PROJECT.json` quote the line. Where the
passing properties would run into the same behaviour they say so in their
statement: `LostOnlyByFault` assumes no failed write, `ArchiveFaithful` speaks of
files no pipeline run wrote, `PagesComposed` and `ExportShowsDraft` except
`stranded` pages (a job ended between a patch and its page), `NoPageForgotten` and
`PatchShown` except a preview that raised (`raised`), the properties of
`EngineQueue` but `PaperHeld` and `PaperDecided` end with the first line booked to
another run (`strayed`; `StrayedByEnd` says that this takes the end of an engine or of
the app), `DoneIsPublished` and `DoneShowsEdits` except the runs of `unstarted` and the
latter the translations that are `partial`; those of `EventStream` except a tail put
together of two runs (`mixed`), `NothingSkipped` and `EventShown` also the events that
have no listener (`Unheard`; the former until the pages of the tail have read them), and
`EventShown` an event source that was closed by a refusal. `OverIsFinal` speaks of
translated blocks, patches, pages and previews: the status rows of blocks are still
written after the job's end.

**Known divergences without a run.** The models have these steps too, and the
passing properties except them:

- `_start` (`runner.py:865`) catches `ToolError` and `OSError`, not `sqlite3.Error`: a
  failed write leaves a job active in nobody's hands until a restart
  (`LostOnlyByFault` assumes no failed write).
- `JobRegistry.create` appends to the FIFO before it writes (`jobs.py:471`). When that
  write raises inside a submission, the request fails and the record stays queued and in
  the FIFO: the next pump starts it, and one that a block compile or an export submitted
  (`block_compile.py:824`) is started as a child with a full compile. When the next write
  raises (`save`), it is out of the FIFO and has no worker. The faults of `JobRunner` do
  not reach into a submission, so `LostOnlyByFault` and `TerminalFinal` say nothing of
  such a record.
- A running batch of blocks has no process handle, and `cancel` sets the flag of the
  scopes `block` and `export` only (`runner.py:706`): the request is answered and
  forgotten (`CancelIgnored`), against `routers/jobs.py:337`.
- `fetchEventTail` asks for its pages without a run id (`web/src/lib/queries.ts:215`). A
  run that starts between two pages gives a window with events of both, under the name
  of the new one, and a stream that starts at a cursor of the old one, although
  `queries.ts:193` calls it the largest seq scanned in the run. The next fetch of the
  tail heals it.
- The build records `build_failed` and `target_layout` (`babeldoc_tools/layout.py:107`,
  `:155`), which are not in `KIND_LABELS` (`web/src/lib/humanize.ts:46`). Their frames have
  no listener, as the comments at `humanize.ts:115` and `useEventStream.ts:10` warn, and
  the panel shows these events only when a later fetch of the tail reads them (`Unheard`).
- The mark of a published paper is cleared by `run_started` and `run_finished`
  (`library.ts:269`, `:333`). If an engine ends after `document_finished`, and the next run
  of the paper fails before `run_started` because pdfium cannot be started
  (`run.rs:262` of `syncpdf-pipeline`, although the comment at `:271` has `run_started`
  come first), it is booked done, against the comment at `library.ts:330`, which asks for
  a `document_finished` of this run (`unstarted`; TLC finds this in twenty steps when
  `DoneIsPublished` does not except it).
- A server that is stopped cancels its monitors, whose `finally` pumps the queue
  (`runner.py:1148`) and spawns a queued job that `http-api.md:62` says is only marked
  interrupted.
- A pipeline run writes through the hard link into the archived version
  (`versions.py:254`), against the comment at `versions.py:25`.
- When the write of `compile.json` raises after the PDF was replaced
  (`compile.py:541`), "failed" stands over the new PDF.
- An export starts from the last build, which may show a draft that was deleted since
  (`block_compile.py:1119`).
- `bdt run --from report` succeeds after a review that demanded fixes, and without a
  PDF; a review skipped with `--skip-ai-review` is recorded without inputs, and makes
  a later `--from report` stale.
- `close` of the stream preview gives up the remaining pages when no block of an
  unpublished page got a patch (`stream_preview.py:259`).

**Bounds.** `jobs_*`: four jobs, one for each of the code paths `pipeline`,
`isolated`, `block`, `blocks`, on two documents, so that two jobs compete for
each document, for the cap (1) and for the permits (1); two server processes, so
one stop or crash; one failed write. A third document would only add independent
jobs, and the properties speak of pairs. `jobs_live` replaces the job of one
block by a second job with a process on the same document, which
`OneLiveChildPerDocument` is about; it has one server process and no failed write:
`JobDecided` ends with the server, and children of different server processes are
not compared. `full_compile`: revisions
0..3 with room for two archived versions, so that retention drops one while an
earlier one is published again; three server processes, two failed writes (the
announcement and the write of the failure). `local_compile`: one block that may
float to the page of another, revisions 0..2 (an edit, and its deletion or a
later edit), one rebuild (full compile or run). `stream_preview`: two blocks that share a page, so that two threads compete
for its row and for its publication; a third on another page, onto which stamps
float after it was published; a page without blocks; one fault, and a job that may
end at any time. A third thread and an overridden block were checked apart and add
no case. `candidates`: three rows, so that a copy is swept while another row is
pending; two crashes, so that a restart is followed by another; one failed write.
`run_pipeline`: two contents (a hash is equal or not), one fix round per kind, three
calls, so that a fix follows a review and a resumption follows a failure; one edit of
the translation or of the overrides and one failure. The documents and the PDF change
through the stages only. `engine_queue`: two papers (one runs while one waits), two
process slots (the engine that ended and still has lines, and the next), three calls of
the renderer, so that an edit follows a run and is compiled into its pages, one crash and
one end of the app, one restart by the manager. `engine_crash` needs the first crash only.
`event_stream`: one event to a page and two pages, so that a tail takes several requests
and three events truncate it; two runs, so that the app changes from one to the other;
an inbox of one and two changes, so that it overflows; the second of three events has no listener; two lost or refused
connections, so that a connection is refused after it was lost; two fetches, so that a
tail is replaced under an open stream. All bounds
are guards on counters (`Max...`).

**Views and symmetry.** `stream_preview` is symmetric in the threads, `run_pipeline`
in the contents; neither run checks liveness. `run_pipeline` hides how the last call
ended, which nothing reads later, and
`local_compile` the contents of the last export. No
guard and no invariant of those runs reads what is hidden, and TLC evaluates
action properties on every step it generates, so nothing is lost.

**Deadlock** is checked by `stream_preview`, whose threads wait for one another's
locks; it ends in `Terminated`. In the other runs it is not: with the bounds reached,
every record terminal and no child alive there is nothing to do, in the code as in
the models.

**Fairness** (`FairSpec` of JobRunner): weak fairness of the pump, of the steps
of each monitor and of each worker. The event loop runs every ready task, the
lock of asyncio is fair, a monitor polls with a deadline, and the worker threads
return. Nothing is assumed of clients, of children (`ChildExit` is not fair: the
deadline ends them), of stops and of restarts.

`FairSpec` of EngineQueue: weak fairness of the events of each process (`Deliver`,
`Exit`) and of the timer (`Respawn`), which the event loop of Node delivers in turn;
of the reader thread, which blocks on a pipe only, and of the main loop, whose full runs
and recompiles end, published or not, because model calls have timeouts. Nothing is assumed of the renderer, of
publication, of crashes, and of the app's end.

`FairSpec` of EventStream: weak fairness of the generator (`Connect`, `Read`, `Send`),
which polls as long as its connection stands, of the browser, which dispatches what
arrives and reconnects until it is refused, and of a fetch that was started, whose requests are answered. Nothing is
assumed of runs, jobs, lost connections and further fetches. The models without a fairness
condition state no liveness.

## 4. Proofs

Each theorem below is one of the properties the runs check, for every value of the
constants. Of those only what each module's `ConstantsAssumption` says is assumed:
finite sets of jobs and of papers, functions of the right type, natural bounds, a cap, a number
of permits and an archive limit of at least one, the home of a block among the
pages its stamp may land on, and markers (`NoJob`, `Torn`, `NoText`, `NoPage`...)
that are not values.

**JobRunner**, for any jobs, documents and scopes:

| theorem | statement |
|---|---|
| `TypeCorrect` | `Spec => []TypeOK` |
| `OneActive` | `Spec => []OneActivePerDocument` |
| `OneLiveChild` | `Spec => []OneLiveChildPerDocument` |
| `CancelIsFinal` | `Spec => []CancelWins` |
| `OwnedRunning` | `Spec => []RunningOwned` |
| `Bounded` | `Spec => []SlotsBounded` |
| `Final` | `Spec => TerminalFinal` |
| `Implements` | `Spec => SlotRefinement` |
| `NoneLost` | `Spec => []LostOnlyByFault` |

None of these is inductive alone. The invariant `IInv` adds what each actor
relies on when it acts after a suspension: `PreparedQueued` (the job whose
snapshot is being copied is still queued: cancel needs the lock the pump holds),
`MonitorKnows` (a monitored job is running and has this server's boot id),
`WorkerKnows` (a worker that waits belongs to a queued or canceled record, one
that executes to a running one) and `ChildKnown` (a live child of this boot
belongs to an active record). With these a terminal record has no actor left
that would move it, which is `Final`; a live child occupies its document's slot,
which turns `OneActive` into `OneLiveChild`. `Bounded` and `Implements` rest on
`IInv` with a step each of their own: the cardinality of `Monitored` when one job
enters, and the slot map before and after each action. `NoneLost` adds `HeldInv`, which
says in whose hands a job of each kind and status is: a queued one in the queue or being
prepared, a running one with a monitor, a local one with its worker. It needs two facts
about the queue: a pump skips no entry that is still queued (`PopKeeps`), and a cancel
removes no entry but its own (`RemovedKeeps`).

**FullCompile**, for any archive limit and any number of revisions, server
processes and failed writes:

| theorem | statement |
|---|---|
| `TypeCorrect` | `Spec => []TypeOK` |
| `Fresh` | `Spec => []FreshIsCurrent` |
| `SnapshotStays` | `Spec => []SnapshotCurrent` |
| `RunningIsTrue` | `Spec => []RunningHasJob` |
| `Archived` | `Spec => []ArchiveFaithful` |
| `VersionStays` | `Spec => AnnouncedVersionKept` |
| `Implements` | `Spec => Publishes` |

The strengthening says where in `settle_compile` the server can be:
`SettlingBuilds` (a step pending belongs to a compile that is building),
`OutputCaptured` (from the replacement on the output is the snapshot's PDF, unless
the child of a run wrote it), `ArchivesAnnounced` (the archive works on the
revision announced just before), and `AnnouncedPast` and `RowsPast` (announced and
archived revisions are not ahead of the draft). `VersionStays` needs besides that
retention keeps the largest revision (`LargestKept`, a fact about cardinalities):
no row is newer than the revision being archived, and the limit is not zero.

**LocalCompile**, for any blocks, pages, homes and landing places:

| theorem | statement |
|---|---|
| `TypeCorrect` | `Spec => []TypeOK` |
| `PagesTrue` | `Spec => []PagesComposed` |
| `PatchesTrue` | `Spec => PatchFromDraft` |
| `ExportsTrue` | `Spec => ExportShowsDraft` |

Here `IInv` relates the places a text is in: `JobPast` and `QueuedClean` (what a
job that has not begun may hold), `RenderingCurrent` (while the draft is at the
revision of the job, what the renderers read is what it says), `AssetBased` and
`FrozenHome` (a composed page has a frozen baseline, with the blocks at home on it
and no others) and `ExportDirty` (what an export has yet to compile is in its
list). `PagesTrue` is the reason the baseline is frozen: composing over a page that
shows an earlier patch would leave a floated stamp behind.

**StreamPreview**, for any blocks, pages, scope, threads and faults:

| theorem | statement |
|---|---|
| `TypeCorrect` | `Spec => []TypeOK` |
| `OverHolds` | `Spec => OverIsFinal` |
| `PatchHolds` | `Spec => []PatchKept` |
| `PublishedHolds` | `Spec => []PublishedIsSettled` |
| `ForgottenHolds` | `Spec => []NoPageForgotten` |
| `ShownHolds` | `Spec => []PatchShown` |

Four invariants. `LockInv`: a thread between the read and
the write of a row holds the page's lock, no two do, and its copy is what the row
says (`Fresh`), so that writing it back loses nothing. `PublishInv`: a block is once
in the queue or in one thread's hands (`Single`), a settled block is in nobody's
(`SettledInv`), and a page that is published or being composed has settled blocks
only (`PageInv`). `ServedInv`: while nothing disturbed the preview, a translated block
is settled, queued or in hand, and a page that is complete is published or still on
the list of some thread. The last is why two threads that settle the last blocks of a
page cannot leave it to each other: the one whose transaction is later has the page
on its list after it. `ShownInv`, on top of the first two: while no thread raised and
the job goes on, a committed patch that landed on a page is in the page's picture, in
the picture that some thread composes, or landed on a foreign page that its thread
still has on its list (`Accounted`). A thread leaves such a page out only when the
page is not complete, and then nobody has published it or composes it; at the flush
the pool is idle (`CloseInv`), so only the picture is left.

**Candidates**, for any number of candidates, crashes and failed writes:

| theorem | statement |
|---|---|
| `TypeCorrect` | `Spec => []TypeOK` |
| `RowsHold` | `Spec => []RowsTruthful` |
| `CopyHolds` | `Spec => []RunningHasCopy` |
| `FilledHolds` | `Spec => FilledKept` |

`OneActive` and `CopyInv`: one job of the document is active, so the copy another job
sweeps is nobody's. `HistoryInv` relates a row to its request and its job: a filled
row has a job that ended, and a row whose job can still drop it is not filled.

**RunPipeline**, for any contents, number of rounds, calls, edits and failures:

| theorem | statement |
|---|---|
| `TypeCorrect` | `Spec => []TypeOK` |
| `RoundsHold` | `Spec => []DemandsBounded` |
| `CurrentHolds` | `Spec => OkIsCurrent` |
| `CheckedHolds` | `Spec => OkIsChecked` |

`RoundsInv`: demands are the recorded rounds, those lost and that of the call in
progress. `ApplyInv`, `BuildInv` and `CheckInv` say what the record of a stage is
worth: unless the stage is `untrusted`, the inputs recorded are those its artifact was
made from, and a stage the call has passed is not stale unless a file was edited
meanwhile. A successful call has passed build and check, whether it executed them or
not.

**EventStream**, for any page limit, buffer, runs, events, changes and lost connections:

| theorem | statement |
|---|---|
| `TypeCorrect` | `Spec => []TypeOK` |
| `OneRunShown` | `Spec => []WindowOfRun` |
| `NoGap` | `Spec => []NothingSkipped` |
| `LatestNeverLost` | `Spec => []LatestKept` |

Server and app each keep a run and a position. `Followed` says that they agree whenever
a stream stands: it and the frames on its connection are of the run of the tail.
`SameRun` says what a position is worth: the pages up to it have brought every event of
one run, unless they were mixed, and increments are of the run they are kept for. With
both `NothingSkipped` is inductive: a turn of the generator moves the cursor by the
events it sends, a frame leaves the wire for the window unless nobody listens to its kind, and whatever closes a stream sends the position back to that of the
tail. `LastInLine` follows the last change from the end of the inbox to the end of the
job updates on the wire and into the app; that no older one is behind it is what keeps
it from being overwritten.

**EngineQueue**, for any finite set of papers, any slots for processes, calls, restarts,
crashes and ends of the app:

| theorem | statement |
|---|---|
| `TypeCorrect` | `Spec => []TypeOK` |
| `PapersHeld` | `Spec => []PaperHeld` |
| `StraysHold` | `Spec => []StrayedByEnd` |
| `OutstandingHolds` | `Spec => []CurrentOutstanding` |
| `CancelHolds` | `Spec => []CancelOwnRun` |
| `PublishedHolds` | `Spec => []DoneIsPublished` |
| `EditsHold` | `Spec => []DoneShowsEdits` |

`PaperHeld` is inductive with two facts about types: each paper waits once (`Single`),
so that removing its first place in the queue removes it, and it has a row (`Waits`).
The papers are finitely many because a start puts them in a sequence.

The others rest on `Inv`. `BaseInv` holds always: which process is the
child (`LifeInv`), what the state of the manager says of it (`SidecarInv`), what a current
paper is (`QueueInv`), that an engine reads a `configure` before any run, so that no run
is refused (`ConfInv`), and that nobody has heard of a run not yet asked for (`NumInv`).
Until a line goes astray `FlowInv` holds too. The run of the current paper is in exactly
one of four places, the pipe, the channel, the main loop or the lines, with only its
edits before it and no work behind (`OwnInv`); other processes have no work, or are left
over by a quitting app (`SideInv`), and their lines are not of this run (`HoldInv`). A
cancel that no run follows in the pipe is aimed at the current paper (`AimInv`): it can
overtake the run it follows, but then that run is not yet the engine's and the cancel hits
nothing. `KeepInv` is about the edits. What an engine retains, and the run that it
compiles pages for, is of one paper: it shows all edits of the store but those this
engine has saved since, or it is partial, unless that paper was removed or the next run
is a full one anyway (`PendInv` adds that no edit waits for a paper that is not there). `ShownInv` says what a line is worth: a run that was published,
or a line that says so, stands for a translation of this run with the edits of the store,
or a partial one (`LineInv`). A paper marked published by an earlier run is unmarked by
`run_started` before any other line of a full run arrives, and a recompile finds no mark,
because the run it goes on from has sent its `run_finished`; only a run of `unstarted`
meets a mark that is not its own (`StaleInv`). This is why "done" can trust the mark
(`DoneInv`).
A paper removed during its run (`disowned`) is left out, since its run may still write.
`StrayedByEnd` bounds the other exception: before anything has ended only the child has
lines, all of them of the current run and its `run_finished` the last (`CalmInv`), so
that the queue has no line left to misread when it goes on to the next paper.

Only model-checked: `JobDecided`, `PaperDecided` and `EventShown`, since liveness under fairness and `ENABLED` are out
of the prover's reach; and the statements the violation runs refute. No module
declares a `RECURSIVE` operator and no theorem needs an induction over data.

## 5. Not modelled

- Contents: what a PDF, a translation or a stamp looks like, whether it fits, and
  numeric layout. Properties tell texts apart by the revision that wrote them. This
  is most of the repository by size: the parsers, typesetters and renderers under
  `babeldoc/` and `engine/crates/`, and tables of font metrics and glyph names. They
  keep no state between calls and no order of steps that could go wrong; a model of
  them would be a second implementation.
- The float reservations of the block compiler (geometry), the full preview outside
  `StreamPreview`, and the preview files of the command line.
- Inside an engine's run: the page schedule, the writer, the asset store. Outside it:
  SIGKILL after the grace period of `stop`, engines that outlive the app, a spawn that
  throws synchronously.
- Which paragraph an id means after a new parse: a candidate that was generated before
  it is adopted under the same id after it.
- Event rows and log offsets written beside the state changes, and the stream over the
  event rows of the database (`persistent_stream`). Of the event panel: filters, "load
  earlier", the trimming of the window, heartbeats.
- Uploads, cleanup and migration, sequences of file calls in one handler; HTTP routes
  and views, which translate; user interfaces.

## 6. Plan

Done: (1) `JobRunner` with `DocumentSlot`, (2) `FullCompile` with `Publication`,
(3) `LocalCompile`, (4) `StreamPreview`, (5) `Candidates`, (6) `RunPipeline`,
(7) `EngineQueue` and (8) `EventStream`, each with its proofs: every safety property a
passing run checks is a theorem. What would come next: the engine's page schedule and
asset store.
