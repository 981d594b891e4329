---------------------------- MODULE EngineQueue ----------------------------
(***************************************************************************)
(* The paper queue of the desktop app (engine.ts, library.ts) on one side, *)
(* the resident engine session (main.rs, cmd_run) on the other, and the    *)
(* sidecar manager that joins them by a pipe per direction (sidecar.ts).   *)
(*                                                                         *)
(* The main process runs one handler at a time; pump only awaits a promise *)
(* that is already resolved, so a handler and its pump are one action. An  *)
(* engine is three actors: the reader thread, the serial main loop, and    *)
(* the operating system, which can end it at any time.                     *)
(***************************************************************************)
EXTENDS Naturals, Sequences, SequencesExt, FiniteSets

CONSTANTS
    Docs,          \* papers
    Children,      \* slots for engine processes, reused when drained
    None,          \* no paper, no process
    MaxRestarts,   \* MAX_RESTARTS of sidecar.ts
    MaxAsks,       \* bound: calls of the renderer
    MaxCrashes,    \* bound: engines that end by themselves
    MaxExits       \* bound: ends of the app

ASSUME ConstantsAssumption ==
    /\ IsFiniteSet(Docs)
    /\ None \notin Docs \cup Children
    /\ MaxRestarts \in Nat
    /\ MaxAsks \in Nat
    /\ MaxCrashes \in Nat
    /\ MaxExits \in Nat

VARIABLES
    app,           \* "up", "quitting" (before-quit ran) or "down"
    status,        \* docs.status of the library, "absent" without a row
    published,     \* Library.published
    queue,         \* EngineQueue.queue
    current,       \* EngineQueue.current
    pending,       \* EngineQueue.edits: number of edits not yet sent
    configured,    \* EngineQueue.configured
    sidecar,       \* SidecarManager: state, child, restarts, timer, stopped, lastConfigure
    engine,        \* the processes, with what is in their pipes
    request,       \* number of the last run request
    asked,         \* paper -> number of its last run request
    stored,        \* paper -> edits in its store.db
    output,        \* paper -> the run that wrote translated.pdf, the number of edits it
                   \* shows, and whether it dropped some with a warning
    unstarted,     \* history: runs that failed before run_started, their paper still marked
    strayed,       \* history: a line was booked to another run than its own
    disowned,      \* history: papers removed while their run was outstanding
    asks, crashes, exits

main == <<published, queue, current, pending, configured, sidecar>>
results == <<stored, output, unstarted>>
bounds == <<asks, crashes, exits>>
vars == <<app, status, main, engine, request, asked, results, strayed, disowned, bounds>>

Statuses == {"absent", "new", "queued", "running", "done", "failed", "cancelled"}
Messages == {m \in [type : {"configure", "edit", "run", "cancel"}, doc : Docs \cup {None},
                    n : Nat] : m.type \in {"edit", "run"} => m.doc # None}
Lines == [type : {"run_started", "document_finished", "run_finished"}, n : Nat, ok : BOOLEAN]

\* pages: a recompile of the edited pages only; edits, partial: what it shows once published
NoRun == [doc |-> None, n |-> 0, pages |-> FALSE, edits |-> 0, partial |-> FALSE,
          published |-> FALSE]
Runs == {r \in [doc : Docs \cup {None}, n : Nat, pages : BOOLEAN, edits : Nat,
                partial : BOOLEAN, published : BOOLEAN] : r # NoRun => r.doc # None}
NoOutput == [run |-> 0, edits |-> 0, partial |-> FALSE]
Outputs == [run : Nat, edits : Nat, partial : BOOLEAN]

\* Retained: the state of the last run, if it was published: its paper and what it shows
NotRetained == [doc |-> None, edits |-> 0, partial |-> FALSE]
Retained == [doc : Docs \cup {None}, edits : Nat, partial : BOOLEAN]

Message(type, d, n) == [type |-> type, doc |-> d, n |-> n]
Configure == Message("configure", None, 0)
Line(type, n, ok) == [type |-> type, n |-> n, ok |-> ok]

\* life: none -> alive -> dead (ended) -> gone ('exit' was emitted) -> none
NoEngine == [life |-> "none", pipe |-> <<>>, open |-> FALSE, channel |-> <<>>,
             configure |-> FALSE, retained |-> NotRetained, edited |-> 0, run |-> NoRun,
             cancelled |-> FALSE, eof |-> FALSE, lines |-> <<>>]

NoSidecar == [state |-> "stopped", child |-> None, restarts |-> 0, timer |-> FALSE,
              stopped |-> FALSE, lastConfigure |-> FALSE]

Init ==
    /\ app = "up"
    /\ status = [d \in Docs |-> "absent"]
    /\ published = {}
    /\ queue = <<>>
    /\ current = None
    /\ pending = [d \in Docs |-> 0]
    /\ configured = FALSE
    /\ sidecar = NoSidecar
    /\ engine = [c \in Children |-> NoEngine]
    /\ request = 0
    /\ asked = [d \in Docs |-> 0]
    /\ stored = [d \in Docs |-> 0]
    /\ output = [d \in Docs |-> NoOutput]
    /\ unstarted = {}
    /\ strayed = FALSE
    /\ disowned = {}
    /\ asks = 0 /\ crashes = 0 /\ exits = 0

-----------------------------------------------------------------------------
(* SidecarManager and EngineQueue.pump *)

Free(c) == engine[c].life = "none" \/ (engine[c].life = "gone" /\ engine[c].lines = <<>>)

\* slots are interchangeable: a new process takes some free one
SlotFree == \E c \in Children : Free(c)
FreeSlot == CHOOSE c \in Children : Free(c)

\* spawnChild: the configure of the last session is written first
Spawned(lastConfigure) ==
    [NoEngine EXCEPT !.life = "alive", !.open = TRUE,
                     !.pipe = IF lastConfigure THEN <<Configure>> ELSE <<>>]

\* BUG: the edits are sent after the run.
Requests_RunFirst(d, edits, known) ==
    (IF known THEN <<>> ELSE <<Configure>>) \o <<Message("run", d, request + 1)>>
        \o [i \in 1..edits |-> Message("edit", d, 0)]

\* what pump writes for one paper: configure once per session, its edits, its run
Requests(d, edits, known) ==
    (IF known THEN <<>> ELSE <<Configure>>)
        \o [i \in 1..edits |-> Message("edit", d, 0)]
        \o <<Message("run", d, request + 1)>>

\* BUG: a paper whose send fails is dropped without a status.
FailAll_Dropped(st, q) == st

\* each paper of q is set running, its send throws, and it is failed
FailAll(st, q) == [d \in Docs |-> IF \E i \in 1..Len(q) : q[i] = d THEN "failed" ELSE st[d]]

SendNext(st, q, pend, eng, c, known) ==
    LET d == Head(q)
    IN  /\ status' = [st EXCEPT ![d] = "running"]
        /\ queue' = Tail(q)
        /\ current' = d
        /\ pending' = [pend EXCEPT ![d] = 0]
        /\ configured' = TRUE
        /\ engine' = [eng EXCEPT ![c].pipe = @ \o Requests(d, pend[d], known)]
        /\ request' = request + 1
        /\ asked' = [asked EXCEPT ![d] = request + 1]

\* pump, after a handler that leaves these statuses, queue, current, edits and lines
Pump(st, q, cur, pend, eng) ==
    \/ /\ cur # None \/ q = <<>>
       /\ status' = st /\ queue' = q /\ current' = cur /\ pending' = pend /\ engine' = eng
       /\ UNCHANGED <<configured, sidecar, request, asked>>
    \/ \* the manager says it runs, but has no child until its timer fires: every
       \* send throws, and the catch goes on with the next paper
       /\ cur = None /\ q # <<>>
       /\ sidecar.state = "running" /\ sidecar.child = None
       /\ status' = FailAll(st, q) /\ queue' = <<>> /\ current' = None
       /\ pending' = pend /\ engine' = eng
       /\ UNCHANGED <<configured, sidecar, request, asked>>
    \/ /\ cur = None /\ q # <<>>
       /\ sidecar.state = "running" /\ sidecar.child # None
       /\ SendNext(st, q, pend, eng, sidecar.child, configured)
       /\ sidecar' = [sidecar EXCEPT !.lastConfigure = TRUE]
    \/ \* session.start(): a new process, not configured yet
       /\ cur = None /\ q # <<>>
       /\ sidecar.state # "running"
       /\ SlotFree
       /\ LET c == FreeSlot IN
            /\ SendNext(st, q, pend, [eng EXCEPT ![c] = Spawned(sidecar.lastConfigure)], c, FALSE)
            /\ sidecar' = [sidecar EXCEPT !.state = "running", !.child = c, !.stopped = FALSE,
                                          !.lastConfigure = TRUE]

-----------------------------------------------------------------------------
(* Calls of the renderer (ipc.ts) *)

Ask ==
    /\ app = "up"
    /\ asks < MaxAsks
    /\ asks' = asks + 1
    /\ UNCHANGED <<app, crashes, exits>>

Queued(d) == \E i \in 1..Len(queue) : queue[i] = d

\* addPaths: a new row, queued unless the run of its removed namesake is outstanding
AddPaper(d) ==
    /\ Ask
    /\ status[d] = "absent"
    /\ \/ /\ current = d
          /\ status' = [status EXCEPT ![d] = "new"]
          /\ UNCHANGED <<queue, current, pending, configured, sidecar, engine, request, asked>>
       \/ /\ current # d
          /\ Pump([status EXCEPT ![d] = "queued"], Append(queue, d), current, pending, engine)
    /\ UNCHANGED <<published, results, strayed, disowned>>

Enqueue(d) ==
    /\ Ask
    /\ status[d] # "absent" /\ current # d /\ ~Queued(d)
    /\ Pump([status EXCEPT ![d] = "queued"], Append(queue, d), current, pending, engine)
    /\ UNCHANGED <<published, results, strayed, disowned>>

\* one edit; it joins the run that is queued, or queues one behind the run that runs
Edit(d) ==
    /\ Ask
    /\ status[d] # "absent"
    /\ LET edits == [pending EXCEPT ![d] = @ + 1]
       IN  \/ /\ Queued(d)
              /\ pending' = edits
              /\ UNCHANGED <<status, queue, current, configured, sidecar, engine, request, asked>>
           \/ /\ ~Queued(d) /\ current = d
              /\ Pump(status, Append(queue, d), current, edits, engine)
           \/ /\ ~Queued(d) /\ current # d
              /\ Pump([status EXCEPT ![d] = "queued"], Append(queue, d), current, edits, engine)
    /\ UNCHANGED <<published, results, strayed, disowned>>

\* BUG: the message is sent for a queued paper too.
CancelTo_Both(d, st) ==
    /\ Queued(d) \/ current = d
    /\ queue' = RemoveFirst(queue, d)
    /\ status' = st
    /\ engine' = IF current = None THEN engine
                 ELSE [engine EXCEPT ![sidecar.child].pipe = Append(@, Message("cancel", None, 0))]

\* EngineQueue.cancel: a queued paper leaves the queue, a running one gets a message
CancelTo(d, st) ==
    \/ /\ Queued(d)
       /\ queue' = RemoveFirst(queue, d)
       /\ status' = st
       /\ UNCHANGED engine
    \/ /\ ~Queued(d) /\ current = d
       /\ status' = st
       /\ engine' = [engine EXCEPT ![sidecar.child].pipe = Append(@, Message("cancel", None, 0))]
       /\ UNCHANGED queue

Cancel(d) ==
    /\ Ask
    /\ status[d] # "absent"
    /\ CancelTo(d, [status EXCEPT ![d] = "cancelled"])
    /\ UNCHANGED <<published, current, pending, configured, sidecar, request, asked,
                   results, strayed, disowned>>

\* remove: forget, then delete the row, the store and the translation
RemovePaper(d) ==
    /\ Ask
    /\ status[d] # "absent"
    /\ \/ CancelTo(d, [status EXCEPT ![d] = "absent"])
       \/ /\ ~Queued(d) /\ current # d
          /\ status' = [status EXCEPT ![d] = "absent"]
          /\ UNCHANGED <<queue, engine>>
    /\ pending' = [pending EXCEPT ![d] = 0]
    /\ stored' = [stored EXCEPT ![d] = 0]
    /\ output' = [output EXCEPT ![d] = NoOutput]
    /\ disowned' = IF current = d THEN disowned \cup {d} ELSE disowned
    /\ UNCHANGED <<published, current, configured, sidecar, request, asked, unstarted, strayed>>

-----------------------------------------------------------------------------
(* Events of the engines *)

Serving == app # "down"

\* Library.ingest of run_finished
Verdict(d, ok) ==
    IF d \in published \/ ok THEN "done"
    ELSE IF status[d] = "cancelled" THEN "cancelled" ELSE "failed"

Booked(d, ok) == IF status[d] = "absent" THEN status
                 ELSE [status EXCEPT ![d] = Verdict(d, ok)]

\* BUG: a published paper stays marked.
Marked_Kept(type) == IF type = "document_finished" THEN published \cup {current} ELSE published

\* Library.published after a line of another type
Marked(type) == IF type = "document_finished" THEN published \cup {current}
                ELSE published \ {current}

\* a line of stdout: booked to the current paper, whichever run wrote it
Deliver(c) ==
    /\ Serving
    /\ engine[c].lines # <<>>
    /\ LET line == Head(engine[c].lines)
           rest == [engine EXCEPT ![c].lines = Tail(@)]
       IN  /\ strayed' = (strayed \/ (current # None /\ line.n # request))
           /\ \/ /\ line.type = "run_finished" /\ current # None
                 /\ published' = published \ {current}
                 /\ Pump(Booked(current, line.ok), queue, None, pending, rest)
              \/ /\ line.type # "run_finished" \/ current = None
                 /\ published' = IF current = None THEN published ELSE Marked(line.type)
                 /\ engine' = rest
                 /\ UNCHANGED <<status, queue, current, pending, configured, sidecar,
                                request, asked>>
    /\ UNCHANGED <<app, results, disowned, bounds>>

\* BUG: a crash is not reported to the queue.
CrashEvent_None == UNCHANGED <<status, queue, current>>

\* sidecar_crashed: handleEvent fails the current paper and pumps. The state is still
\* "running" and the child gone, so pump fails the queue as well (see Pump).
CrashEvent ==
    \/ /\ current = None
       /\ UNCHANGED <<status, queue, current>>
    \/ /\ current # None
       /\ status' = FailAll([d \in Docs |-> IF d = current /\ status[d] # "absent"
                                            THEN "failed" ELSE status[d]], queue)
       /\ queue' = <<>>
       /\ current' = None

\* handleExit
Exit(c) ==
    /\ Serving
    /\ engine[c].life = "dead"
    /\ engine' = [engine EXCEPT ![c].life = "gone"]
    /\ \/ /\ sidecar.state = "stopping" \/ sidecar.stopped
          /\ sidecar' = [sidecar EXCEPT !.child = None, !.state = "exited"]
          /\ configured' = FALSE
          /\ UNCHANGED <<status, queue, current>>
       \/ /\ sidecar.state # "stopping" /\ ~sidecar.stopped
          /\ CrashEvent
          /\ \/ /\ sidecar.restarts < MaxRestarts
                /\ sidecar' = [sidecar EXCEPT !.child = None, !.timer = TRUE,
                                              !.restarts = @ + 1]
                /\ UNCHANGED configured
             \/ /\ sidecar.restarts >= MaxRestarts
                /\ sidecar' = [sidecar EXCEPT !.child = None, !.state = "exited"]
                /\ configured' = FALSE
    /\ UNCHANGED <<app, published, pending, request, asked, results, strayed, disowned, bounds>>

\* the timer of handleExit
Respawn ==
    /\ Serving
    /\ sidecar.timer
    /\ \/ /\ sidecar.stopped
          /\ sidecar' = [sidecar EXCEPT !.timer = FALSE]
          /\ UNCHANGED <<engine, configured>>
       \/ /\ ~sidecar.stopped
          /\ SlotFree
          /\ LET c == FreeSlot IN
               /\ engine' = [engine EXCEPT ![c] = Spawned(sidecar.lastConfigure)]
               /\ sidecar' = [sidecar EXCEPT !.timer = FALSE, !.state = "running", !.child = c]
          /\ configured' = FALSE
    /\ UNCHANGED <<app, status, published, queue, current, pending, request, asked, results,
                   strayed, disowned, bounds>>

-----------------------------------------------------------------------------
(* End and start of the app *)

\* before-quit: stop() closes stdin; handlers go on until the process ends
Quit ==
    /\ app = "up"
    /\ exits < MaxExits
    /\ app' = "quitting"
    /\ LET c == sidecar.child
       IN  \/ /\ c = None
              /\ sidecar' = [sidecar EXCEPT !.state = "exited", !.stopped = TRUE]
              /\ configured' = FALSE
              /\ UNCHANGED engine
           \/ /\ c # None
              /\ sidecar' = [sidecar EXCEPT !.state = "stopping", !.stopped = TRUE]
              /\ engine' = [engine EXCEPT ![c].open = FALSE]
              /\ UNCHANGED configured
    /\ UNCHANGED <<status, published, queue, current, pending, request, asked, results, strayed,
                   disowned, bounds>>

\* the process ends (quit or crash); its engines see EOF and their lines reach nobody
AppExit ==
    /\ app # "down"
    /\ exits < MaxExits
    /\ exits' = exits + 1
    /\ app' = "down"
    /\ published' = {} /\ queue' = <<>> /\ current' = None
    /\ pending' = [d \in Docs |-> 0]
    /\ configured' = FALSE
    /\ sidecar' = NoSidecar
    /\ engine' = [c \in Children |-> NoEngine]
    /\ UNCHANGED <<status, request, asked, results, strayed, disowned, asks, crashes>>

\* whenReady: papers that were queued or running are queued again
Start ==
    /\ app = "down"
    /\ app' = "up"
    /\ LET again == {d \in Docs : status[d] \in {"queued", "running"}}
       IN  Pump([d \in Docs |-> IF d \in again THEN "queued" ELSE status[d]],
                SetToSeq(again), None, pending, engine)
    /\ UNCHANGED <<published, results, strayed, disowned, bounds>>

-----------------------------------------------------------------------------
(* The engine: reader thread, main loop, end *)

Alive(c) == engine[c].life = "alive"

EngineOnly == UNCHANGED <<app, status, main, request, asked, strayed, disowned>>

\* the reader handles a cancel itself: it reaches the run in progress, if any
ReadCancel(c) ==
    /\ Alive(c)
    /\ engine[c].pipe # <<>> /\ Head(engine[c].pipe).type = "cancel"
    /\ engine' = [engine EXCEPT ![c].pipe = Tail(@),
                                ![c].cancelled = (@ \/ engine[c].run # NoRun)]
    /\ EngineOnly /\ UNCHANGED <<results, bounds>>

Read(c) ==
    /\ Alive(c)
    /\ engine[c].pipe # <<>> /\ Head(engine[c].pipe).type # "cancel"
    /\ engine' = [engine EXCEPT ![c].pipe = Tail(@),
                                ![c].channel = Append(@, Head(engine[c].pipe))]
    /\ EngineOnly /\ UNCHANGED <<results, bounds>>

ReadEof(c) ==
    /\ Alive(c)
    /\ engine[c].pipe = <<>> /\ ~engine[c].open /\ ~engine[c].eof
    /\ engine' = [engine EXCEPT ![c].eof = TRUE, ![c].cancelled = (@ \/ engine[c].run # NoRun)]
    /\ EngineOnly /\ UNCHANGED <<results, bounds>>

\* the main loop takes the next request when no run is in progress
TakeConfigure(c) ==
    /\ Alive(c) /\ engine[c].run = NoRun
    /\ engine[c].channel # <<>> /\ Head(engine[c].channel).type = "configure"
    /\ engine' = [engine EXCEPT ![c].channel = Tail(@), ![c].configure = TRUE]
    /\ EngineOnly /\ UNCHANGED <<results, bounds>>

\* save_edit; a store that cannot be written only reports edit_failed
TakeEdit(c) ==
    /\ Alive(c) /\ engine[c].run = NoRun
    /\ engine[c].channel # <<>> /\ Head(engine[c].channel).type = "edit"
    /\ \E saved \in {0, 1} :
          /\ engine' = [engine EXCEPT ![c].channel = Tail(@), ![c].edited = @ + saved]
          /\ stored' = [stored EXCEPT ![Head(engine[c].channel).doc] = @ + saved]
    /\ EngineOnly /\ UNCHANGED <<output, unstarted, bounds>>

\* run_retaining: run_started is the first event; without a PdfiumWorker the run has failed
\* before it, and run_finished is all that is sent
BeginFull(c, e, d, n) ==
    \/ /\ engine' = [engine EXCEPT ![c] =
                        [e EXCEPT !.run = [NoRun EXCEPT !.doc = d, !.n = n],
                                  !.lines = Append(@, Line("run_started", n, FALSE))]]
       /\ UNCHANGED unstarted
    \/ /\ engine' = [engine EXCEPT ![c] =
                        [e EXCEPT !.run = NoRun, !.cancelled = FALSE,
                                  !.lines = Append(@, Line("run_finished", n, FALSE))]]
       /\ unstarted' = unstarted \cup (IF d \in published THEN {n} ELSE {})

\* the request leaves the channel; the state of the run before and the edits since are taken
Taken(e) == [e EXCEPT !.channel = Tail(@), !.retained = NotRetained, !.edited = 0,
                      !.cancelled = e.eof]

\* a run without configure is only answered by an error that is not fatal
TakeRun(c) ==
    /\ Alive(c) /\ engine[c].run = NoRun
    /\ engine[c].channel # <<>> /\ Head(engine[c].channel).type = "run"
    /\ LET m == Head(engine[c].channel)
       IN  IF engine[c].configure
           THEN BeginFull(c, Taken(engine[c]), m.doc, m.n)
           ELSE engine' = [engine EXCEPT ![c].channel = Tail(@)] /\ UNCHANGED unstarted
    /\ EngineOnly /\ UNCHANGED <<stored, output, bounds>>

\* the run before was of the same request (covers), and some of its blocks were edited
\* since: only their pages are compiled again, and no run_started is sent
TakePages(c) ==
    /\ Alive(c) /\ engine[c].run = NoRun
    /\ engine[c].channel # <<>> /\ Head(engine[c].channel).type = "run"
    /\ engine[c].configure
    /\ LET m == Head(engine[c].channel)
           kept == engine[c].retained
       IN  /\ kept.doc = m.doc /\ engine[c].edited > 0
           /\ engine' = [engine EXCEPT ![c] =
                            [Taken(@) EXCEPT !.run = [doc |-> m.doc, n |-> m.n, pages |-> TRUE,
                                                      edits |-> kept.edits + engine[c].edited,
                                                      partial |-> kept.partial,
                                                      published |-> FALSE]]]
    /\ EngineOnly /\ UNCHANGED <<results, bounds>>

\* page_recompile_failed: the same run goes on as a full one
FallBack(c) ==
    /\ Alive(c)
    /\ engine[c].run.pages /\ ~engine[c].run.published
    /\ BeginFull(c, engine[c], engine[c].run.doc, engine[c].run.n)
    /\ EngineOnly /\ UNCHANGED <<stored, output, bounds>>

\* load_block_edits: a full run reads all edits of the store, a recompile those of its
\* pages; what cannot be read is dropped with a warning. The store is only written
\* between two runs, or deleted with its paper, so it is read here.
Publish(c) ==
    /\ Alive(c) /\ engine[c].run # NoRun /\ ~engine[c].run.published
    /\ LET run == engine[c].run
           edits == IF run.pages THEN run.edits ELSE stored[run.doc]
       IN  \E dropped \in BOOLEAN :
              /\ dropped => edits > 0
              /\ engine' = [engine EXCEPT
                    ![c].run = [run EXCEPT !.edits = edits, !.partial = @ \/ dropped,
                                           !.published = TRUE],
                    ![c].lines = Append(@, Line("document_finished", run.n, FALSE))]
              /\ output' = [output EXCEPT ![run.doc] = [run |-> run.n, edits |-> edits,
                                                        partial |-> run.partial \/ dropped]]
    /\ EngineOnly /\ UNCHANGED <<stored, unstarted, bounds>>

\* BUG: a run canceled before publication ends without a line.
Fail_Silent(c) ==
    /\ Alive(c) /\ engine[c].run # NoRun /\ ~engine[c].run.published
    /\ engine' = [engine EXCEPT ![c].run = NoRun, ![c].cancelled = FALSE,
                     ![c].lines = IF engine[c].cancelled THEN @
                                  ELSE Append(@, Line("run_finished", engine[c].run.n, FALSE))]
    /\ EngineOnly /\ UNCHANGED <<results, bounds>>

\* BUG: a cancel is answered by a run_finished of its own.
Fail_Twice(c) ==
    /\ Alive(c) /\ engine[c].run # NoRun /\ ~engine[c].run.published
    /\ LET finished == Line("run_finished", engine[c].run.n, FALSE)
       IN  engine' = [engine EXCEPT ![c].run = NoRun, ![c].cancelled = FALSE,
                          ![c].lines = @ \o (IF engine[c].cancelled THEN <<finished, finished>>
                                             ELSE <<finished>>)]
    /\ EngineOnly /\ UNCHANGED <<results, bounds>>

\* an error or a cancel before publication: run_finished all the same
Fail(c) ==
    /\ Alive(c) /\ engine[c].run # NoRun /\ ~engine[c].run.published
    /\ engine' = [engine EXCEPT ![c].run = NoRun, ![c].cancelled = FALSE,
                     ![c].lines = Append(@, Line("run_finished", engine[c].run.n, FALSE))]
    /\ EngineOnly /\ UNCHANGED <<results, bounds>>

\* run_finished of a published run, whose state is retained; ok asks for no quality issue
Finish(c) ==
    /\ Alive(c) /\ engine[c].run.published
    /\ LET run == engine[c].run
       IN  \E ok \in BOOLEAN :
              engine' = [engine EXCEPT
                 ![c].run = NoRun, ![c].cancelled = FALSE,
                 ![c].retained = [doc |-> run.doc, edits |-> run.edits, partial |-> run.partial],
                 ![c].lines = Append(@, Line("run_finished", run.n, ok))]
    /\ EngineOnly /\ UNCHANGED <<results, bounds>>

\* the channel is closed and drained; or the process crashes and what it held is lost
EngineEnd(c) ==
    /\ Alive(c)
    /\ \/ /\ engine[c].eof /\ engine[c].channel = <<>> /\ engine[c].run = NoRun
          /\ UNCHANGED crashes
       \/ /\ crashes < MaxCrashes
          /\ crashes' = crashes + 1
    /\ engine' = [engine EXCEPT ![c] = [NoEngine EXCEPT !.life = "dead",
                                                        !.lines = engine[c].lines]]
    /\ EngineOnly /\ UNCHANGED <<results, asks, exits>>

-----------------------------------------------------------------------------

\* the two threads of an engine
Reader(c) == ReadCancel(c) \/ Read(c) \/ ReadEof(c)
MainLoop(c) == TakeConfigure(c) \/ TakeEdit(c) \/ TakeRun(c) \/ TakePages(c) \/ FallBack(c)
                   \/ Fail(c) \/ Finish(c)

Next ==
    \/ \E d \in Docs : AddPaper(d) \/ Enqueue(d) \/ Edit(d) \/ Cancel(d) \/ RemovePaper(d)
    \/ \E c \in Children : Deliver(c) \/ Exit(c)
    \/ Respawn \/ Quit \/ AppExit \/ Start
    \/ \E c \in Children : Reader(c) \/ MainLoop(c) \/ Publish(c) \/ EngineEnd(c)

Spec == Init /\ [][Next]_vars

\* The event loop delivers lines, exits and timers; an engine reads its pipe, its main
\* loop takes requests and each run ends (model calls have timeouts). Nothing is assumed
\* of the renderer, of publication, of crashes, or of the app ending and starting again.
Fairness ==
    /\ \A c \in Children : /\ WF_vars(Deliver(c))
                           /\ WF_vars(Exit(c))
                           /\ WF_vars(Reader(c))
                           /\ WF_vars(MainLoop(c))
    /\ WF_vars(Respawn)

FairSpec == Spec /\ Fairness

-----------------------------------------------------------------------------
(* Properties *)

Engines ==
    [life : {"none", "alive", "dead", "gone"}, pipe : Seq(Messages), open : BOOLEAN,
     channel : Seq(Messages), configure : BOOLEAN, retained : Retained, edited : Nat,
     run : Runs, cancelled : BOOLEAN, eof : BOOLEAN, lines : Seq(Lines)]

Sidecars ==
    [state : {"stopped", "running", "stopping", "exited"}, child : Children \cup {None},
     restarts : Nat, timer : BOOLEAN, stopped : BOOLEAN, lastConfigure : BOOLEAN]

\* Every variable of the main process and of the engines has its type.
TypeOK ==
    /\ app \in {"up", "quitting", "down"}
    /\ status \in [Docs -> Statuses]
    /\ published \subseteq Docs
    /\ queue \in Seq(Docs)
    /\ current \in Docs \cup {None}
    /\ pending \in [Docs -> Nat]
    /\ configured \in BOOLEAN
    /\ sidecar \in Sidecars
    /\ engine \in [Children -> Engines]
    /\ request \in Nat
    /\ asked \in [Docs -> Nat]
    /\ stored \in [Docs -> Nat]
    /\ output \in [Docs -> Outputs]
    /\ unstarted \subseteq Nat
    /\ strayed \in BOOLEAN
    /\ disowned \subseteq Docs
    /\ asks \in Nat /\ crashes \in Nat /\ exits \in Nat

Of(type, s) == {i \in 1..Len(s) : s[i].type = type}

\* run requests of a process that the queue has not seen the end of
Outstanding(c) ==
    Cardinality(Of("run", engine[c].pipe)) + Cardinality(Of("run", engine[c].channel))
        + (IF engine[c].run = NoRun THEN 0 ELSE 1)
        + Cardinality(Of("run_finished", engine[c].lines))

\* EngineQueue.current is a promise that somebody will end it: while a paper is current
\* there is a child, and the child has exactly one run to finish, or has ended and its
\* exit is on the way. With no current paper the child has no run. A paper that is
\* current without an outstanding run would stop the queue for good. (After a line of an
\* ended process was booked to a later run the two sides disagree: strayed.)
CurrentOutstanding ==
    app = "up" /\ ~strayed =>
        /\ current # None => sidecar.child # None
        /\ sidecar.child # None /\ Alive(sidecar.child) =>
              Outstanding(sidecar.child) = IF current = None THEN 0 ELSE 1

\* The row of a paper is what the user sees and what a start queues again: while the app
\* runs, "queued" means a place in EngineQueue.queue and "running" the current paper,
\* although the same paper may be both, and rows come and go under its id.
PaperHeld ==
    app # "down" => \A d \in Docs : /\ status[d] = "queued" => Queued(d)
                                    /\ status[d] = "running" => current = d

\* A line of stdout names no run, and is booked to the paper that is current. Before an
\* engine has ended or the app quits that is the run that wrote it: the order of the lines
\* of an engine, and one run at a time, are enough.
StrayedByEnd == strayed => app # "up" \/ crashes > 0 \/ exits > 0

\* A cancel reaches the run it was sent for or none: the token of a run is cancelled
\* only if its paper was cancelled or removed, or stdin is closed. The request travels
\* through the channel and the cancel past it, so a cancel read late must not hit the
\* run of the next paper.
CancelOwnRun ==
    \A c \in Children :
        Alive(c) /\ engine[c].run # NoRun /\ engine[c].cancelled /\ ~engine[c].eof /\ ~strayed
            => \/ status[engine[c].run.doc] \in {"cancelled", "absent"}
               \/ engine[c].run.doc \in disowned

\* A paper is shown as done only if the run it was last asked for wrote its translation,
\* whatever crashed, restarted or was cancelled meanwhile. The mark that books it done is
\* cleared by run_started or run_finished; a recompile sends no run_started, and must not
\* find the mark of an earlier run. A run without pdfium may: if the engine of the run
\* before ended between document_finished and run_finished, it is booked done by the mark
\* that is left. These runs (unstarted) are excepted, and no other.
DoneIsPublished ==
    \A d \in Docs : status[d] = "done" /\ ~strayed /\ d \notin disowned
                     /\ asked[d] \notin unstarted
                        => output[d].run = asked[d]

\* The translation of a paper that is done shows every edit its store holds, unless the
\* run that read them warned that it dropped some: edits travel right before the run that
\* applies them, and a recompile of the edited pages finds the others in the state that
\* its engine retained, over crashes, cancels, removals and runs of other papers.
DoneShowsEdits ==
    \A d \in Docs : status[d] = "done" /\ ~strayed /\ d \notin disowned
                     /\ asked[d] \notin unstarted /\ ~output[d].partial
                        => output[d].edits = stored[d]

\* Every paper that waits or runs is decided, however often the engine crashes, unless
\* the app ends first.
PaperDecided ==
    \A d \in Docs : (status[d] \in {"queued", "running"})
                        ~> (status[d] \notin {"queued", "running"} \/ app # "up")

\* "when the engine crashes the current paper is marked failed and the queue goes on":
\* a paper that was never sent to an engine does not fail.
QueuedNeverFails == [][\A d \in Docs : status[d] = "queued" => status'[d] # "failed"]_vars
=============================================================================
