--------------------------- MODULE StreamPreview ---------------------------
(***************************************************************************)
(* The preview that a translation job builds while the translator is still *)
(* writing: each block that arrives is committed and handed to a pool of   *)
(* threads; a thread renders the block, writes its patch into the row of   *)
(* the block's page, and composes a page when its last block has settled.  *)
(*                                                                         *)
(* Source: babeldoc_tools/serve/stream_preview.py (ServeStreamPreview),    *)
(* block_compile.py (compile_block_patch, compose_page_asset,              *)
(* compose_full_preview), translate.py and database.commit_translation.    *)
(*                                                                         *)
(* A patch may float to another page than the block's own (cross-page      *)
(* floating), so a page shows the patches of its blocks that stayed and    *)
(* those of other pages that landed on it.                                 *)
(***************************************************************************)
EXTENDS Naturals, Sequences, SequencesExt, FiniteSets

CONSTANTS
    Blocks,      \* paragraphs of agent/document.md
    Pages,       \* pages of the PDF, some without a block
    Home,        \* [Blocks -> Pages]: _page_of
    Manual,      \* blocks whose translation is overridden in the draft
    Workers,     \* threads of the pool
    MaxFaults,   \* bound: page compositions that raise
    None         \* no block, no page, no thread

ASSUME ConstantsAssumption ==
    /\ Home \in [Blocks -> Pages]
    /\ Manual \subseteq Blocks
    /\ None \notin Blocks \cup Pages \cup Workers
    /\ MaxFaults \in Nat

VARIABLES
    main,        \* the thread that feeds the translator's output and then closes
    translated,  \* rows of translation_blocks of this job
    emitted,     \* TranslationBlocks.seen
    queue,       \* the pool's queue
    worker,      \* what each thread is doing
    lock,        \* PageLocks: the thread that holds the lock of a page
    records,     \* keys of page_records, in the order of their insertion
    timed,       \* keys of page_revisions
    published,   \* pages composed as complete
    raised,      \* some future holds an exception
    settled,     \* compile_blocks.status
    patch,       \* page on which the patch of a block lands, in the row of its home
    rows,        \* pages with a row in local_pages
    picture,     \* page -> the patches its page_asset shows, None without one
    flushed,     \* pages of records that close has gone through
    full,        \* what the composed preview shows, None without one
    output,      \* there is an output PDF of an earlier build
    over,        \* the job was canceled or ended on the server's side
    faults

poolVars == <<queue, worker, lock>>
memory == <<records, timed, published, raised>>
tables == <<settled, patch, rows, picture>>
vars == <<main, translated, emitted, poolVars, memory, tables, flushed, full, output, over, faults>>

Statuses == {"none", "ok", "preview_failed", "not_replaced"}
InScope(p) == {b \in Blocks : Home[b] = p}
Picture == (SUBSET Blocks) \cup {{None}}
NoPicture == {None}
Patches == [Blocks -> Pages \cup {None}]
Idle == [at |-> "idle", block |-> None, land |-> None, todo |-> {}, page |-> None,
         copy |-> [b \in Blocks |-> None], shows |-> {}]
\* Pages left by an earlier job of the document, or none.
Leftover(status) ==
    /\ settled = [b \in Blocks |-> status]
    /\ patch = [b \in Blocks |-> IF status = "ok" THEN Home[b] ELSE None]
    /\ rows = IF status = "ok" THEN {Home[b] : b \in Blocks} ELSE {}
    /\ picture = [p \in Pages |-> IF status = "ok" /\ InScope(p) # {} THEN InScope(p) ELSE NoPicture]

Init ==
    /\ main = "starting"
    /\ translated = {}
    /\ emitted = {}
    /\ queue = <<>>
    /\ worker = [w \in Workers |-> Idle]
    /\ lock = [p \in Pages |-> None]
    /\ records = <<>>
    /\ timed = {}
    /\ published = {}
    /\ raised = FALSE
    /\ Leftover("none") \/ Leftover("ok")
    /\ flushed = 0
    /\ full = NoPicture
    /\ output \in BOOLEAN
    /\ over = FALSE
    /\ faults = 0

-----------------------------------------------------------------------------
(* The server and the main thread of the job *)

\* BUG: the runner clears the pages of the earlier job, not its blocks.
Start_KeepsBlocks ==
    /\ main = "starting"
    /\ main' = "feeding"
    /\ patch' = [b \in Blocks |-> None]
    /\ rows' = {}
    /\ picture' = [p \in Pages |-> NoPicture]
    /\ UNCHANGED <<translated, emitted, poolVars, memory, settled, flushed, full, output, over, faults>>

\* JobRunner._start clears what an earlier job left, then spawns the job.
Start ==
    /\ main = "starting"
    /\ main' = "feeding"
    /\ settled' = [b \in Blocks |-> "none"]
    /\ patch' = [b \in Blocks |-> None]
    /\ rows' = {}
    /\ picture' = [p \in Pages |-> NoPicture]
    /\ UNCHANGED <<translated, emitted, poolVars, memory, flushed, full, output, over, faults>>

\* A cancel request, or an end of the job that the server records.
JobEnds ==
    /\ main # "starting"
    /\ ~over
    /\ over' = TRUE
    /\ UNCHANGED <<main, translated, emitted, poolVars, memory, tables, flushed, full, output, faults>>

\* completed: the block is committed and its preview submitted. A refused
\* commit raises, which fails the translation.
Emit(b) ==
    /\ main = "feeding"
    /\ b \notin emitted
    /\ emitted' = emitted \cup {b}
    /\ IF over
       THEN /\ main' = "failing"
            /\ queue' = <<>>
            /\ UNCHANGED translated
       ELSE /\ translated' = translated \cup ({b} \ Manual)
            /\ queue' = Append(queue, b)
            /\ UNCHANGED main
    /\ UNCHANGED <<worker, lock, memory, tables, flushed, full, output, over, faults>>

\* The translator ends; it may have left blocks out. close(failed) follows: a
\* failure cancels the futures that no thread has taken.
TranslatorEnds ==
    /\ main = "feeding"
    /\ \/ main' = "closing" /\ UNCHANGED queue
       \/ main' = "failing" /\ queue' = <<>>
    /\ UNCHANGED <<translated, emitted, worker, lock, memory, tables, flushed, full, output, over, faults>>

Quiet == queue = <<>> /\ \A w \in Workers : worker[w].at = "idle"

\* pool.shutdown waits; future.result() raises what a thread raised, before
\* the try of close.
Join ==
    /\ main \in {"closing", "failing"}
    /\ Quiet
    /\ main' = CASE main = "failing" -> "failed"
                 [] raised -> "broken"
                 [] OTHER -> "flushing"
    /\ UNCHANGED <<translated, emitted, poolVars, memory, tables, flushed, full, output, over, faults>>

-----------------------------------------------------------------------------
(* Composing a page: compose_page_asset *)

\* The patches that land on a page: its own that stayed, and the foreign ones.
Stamped(p) == {b \in Blocks : patch[b] = p}

\* Without a row the page starts from an output PDF, if there is one.
Composable(p) == p \in rows \/ output

\* The row as it was read is written back with the new page_asset.
Compose(p, copy, shows) ==
    /\ patch' = [b \in Blocks |-> IF Home[b] = p THEN copy[b] ELSE patch[b]]
    /\ rows' = rows \cup {p}
    /\ picture' = [picture EXCEPT ![p] = shows]

\* _page_complete: every block of the page is translated by this job and settled.
Complete_OkOnly(p) ==
    /\ InScope(p) # {}
    /\ InScope(p) \subseteq translated
    /\ \A b \in InScope(p) : settled[b] = "ok"

Complete(p) ==
    /\ InScope(p) # {}
    /\ InScope(p) \subseteq translated
    /\ \A b \in InScope(p) : settled[b] # "none"

-----------------------------------------------------------------------------
(* A thread of the pool: _compile *)

Become(w, state) == worker' = [worker EXCEPT ![w] = state]
At(w, place) == worker[w].at = place
HomeOf(w) == Home[worker[w].block]

\* The thread reads the job before it works; the first block of a page records
\* the page.
Take(w) ==
    /\ At(w, "idle")
    /\ queue # <<>>
    /\ queue' = Tail(queue)
    /\ IF over
       THEN UNCHANGED <<worker, records>>
       ELSE LET b == Head(queue) IN
            /\ Become(w, [Idle EXCEPT !.at = "rendering", !.block = b])
            /\ records' = IF Contains(records, Home[b]) THEN records ELSE Append(records, Home[b])
    /\ UNCHANGED <<main, translated, emitted, lock, timed, published, raised, tables,
                   flushed, full, output, over, faults>>

\* The block is not to be replaced (its label, a single line), or its patch
\* cannot be made: recorded without a check of the job.
Settle(w) ==
    /\ At(w, "rendering")
    /\ \E status \in {"not_replaced", "preview_failed"} :
           settled' = [settled EXCEPT ![worker[w].block] = status]
    /\ Become(w, [worker[w] EXCEPT !.at = "publishing", !.todo = {HomeOf(w)}])
    /\ UNCHANGED <<main, translated, emitted, queue, lock, memory, patch, rows, picture,
                   flushed, full, output, over, faults>>

\* The patch is rendered without a lock; the float planning chose its page.
Render(w) ==
    /\ At(w, "rendering")
    /\ lock[HomeOf(w)] = None
    /\ \E p \in Pages : Become(w, [worker[w] EXCEPT !.at = "rendered", !.land = p])
    /\ UNCHANGED <<main, translated, emitted, queue, lock, memory, tables,
                   flushed, full, output, over, faults>>

\* BUG: the row of the page is read before its lock is taken.
ReadRow_Unlocked(w) ==
    /\ At(w, "rendered")
    /\ Become(w, [worker[w] EXCEPT !.at = "committing", !.copy = patch])
    /\ UNCHANGED <<main, translated, emitted, queue, lock, memory, tables,
                   flushed, full, output, over, faults>>

\* The commit holds the lock of the home page from the read of its row ...
ReadRow(w) ==
    /\ At(w, "rendered")
    /\ lock[HomeOf(w)] = None
    /\ lock' = [lock EXCEPT ![HomeOf(w)] = w]
    /\ Become(w, [worker[w] EXCEPT !.at = "committing", !.copy = patch])
    /\ UNCHANGED <<main, translated, emitted, queue, memory, tables,
                   flushed, full, output, over, faults>>

\* BUG: the transaction does not look at the job.
WriteRow_Unchecked(w) ==
    LET b == worker[w].block
        p == Home[b]
        q == worker[w].land IN
    /\ At(w, "committing")
    /\ lock' = [lock EXCEPT ![p] = None]
    /\ settled' = [settled EXCEPT ![b] = "ok"]
    /\ patch' = [c \in Blocks |-> IF c = b THEN q
                                  ELSE IF Home[c] = p THEN worker[w].copy[c] ELSE patch[c]]
    /\ rows' = rows \cup {p}
    /\ timed' = timed \cup {p}
    /\ Become(w, [Idle EXCEPT !.at = "publishing", !.block = b, !.todo = {p, q}])
    /\ UNCHANGED <<main, translated, emitted, queue, records, published, raised, picture,
                   flushed, full, output, over, faults>>

\* ... to its write, whose transaction checks the job again; a refusal settles
\* the block like any other failure.
WriteRow(w) ==
    LET b == worker[w].block
        p == Home[b]
        q == worker[w].land IN
    /\ At(w, "committing")
    /\ lock' = [lock EXCEPT ![p] = None]
    /\ settled' = [settled EXCEPT ![b] = IF over THEN "preview_failed" ELSE "ok"]
    /\ IF over
       THEN /\ Become(w, [Idle EXCEPT !.at = "publishing", !.block = b, !.todo = {p}])
            /\ UNCHANGED <<patch, rows, timed>>
       ELSE /\ patch' = [c \in Blocks |-> IF c = b THEN q
                                  ELSE IF Home[c] = p THEN worker[w].copy[c] ELSE patch[c]]
            /\ rows' = rows \cup {p}
            /\ timed' = timed \cup {p}
            /\ Become(w, [Idle EXCEPT !.at = "publishing", !.block = b, !.todo = {p, q}])
    /\ UNCHANGED <<main, translated, emitted, queue, records, published, raised, picture,
                   flushed, full, output, over, faults>>

\* BUG: a page that was published is never composed again.
Due_Once(p, foreign) ==
    /\ p \notin published
    /\ Complete(p) \/ (foreign /\ InScope(p) = {})

\* A published page is composed again only for a foreign patch; a page without
\* blocks of its own does not wait for any.
Due(p, foreign) ==
    /\ p \in published => foreign
    /\ Complete(p) \/ (foreign /\ InScope(p) = {})

\* _publish_if_complete, from the lock of the page to the read of its row.
Publish(w) ==
    /\ At(w, "publishing")
    /\ \E p \in worker[w].todo :
        /\ lock[p] = None
        /\ CASE ~Due(p, p # HomeOf(w)) ->
                  /\ Become(w, [worker[w] EXCEPT !.todo = @ \ {p}])
                  /\ UNCHANGED <<lock, raised>>
             [] Due(p, p # HomeOf(w)) /\ ~Composable(p) ->
                  /\ Become(w, Idle)
                  /\ raised' = TRUE
                  /\ UNCHANGED lock
             [] OTHER ->
                  /\ Become(w, [worker[w] EXCEPT !.at = "composing", !.page = p,
                                                 !.copy = patch, !.shows = Stamped(p)])
                  /\ lock' = [lock EXCEPT ![p] = w]
                  /\ UNCHANGED raised
    /\ UNCHANGED <<main, translated, emitted, queue, records, timed, published, tables,
                   flushed, full, output, over, faults>>

\* The composed page is written; its lock is released with it.
Composed(w) ==
    LET p == worker[w].page IN
    /\ At(w, "composing")
    /\ ~over
    /\ Compose(p, worker[w].copy, worker[w].shows)
    /\ published' = published \cup {p}
    /\ lock' = [lock EXCEPT ![p] = None]
    /\ Become(w, [worker[w] EXCEPT !.at = "publishing", !.todo = @ \ {p}, !.page = None,
                                   !.copy = Idle.copy, !.shows = {}])
    /\ UNCHANGED <<main, translated, emitted, queue, records, timed, raised, settled,
                   flushed, full, output, over, faults>>

\* The job is over, or the page cannot be composed (its links do not verify):
\* the exception leaves _compile and is kept by the future.
ComposeRaises(w) ==
    /\ At(w, "composing")
    /\ \/ over /\ UNCHANGED faults
       \/ faults < MaxFaults /\ faults' = faults + 1
    /\ lock' = [lock EXCEPT ![worker[w].page] = None]
    /\ raised' = TRUE
    /\ Become(w, Idle)
    /\ UNCHANGED <<main, translated, emitted, queue, records, timed, published, tables,
                   flushed, full, output, over>>

Finish(w) ==
    /\ At(w, "publishing")
    /\ worker[w].todo = {}
    /\ Become(w, Idle)
    /\ UNCHANGED <<main, translated, emitted, queue, lock, memory, tables,
                   flushed, full, output, over, faults>>

Thread(w) ==
    \/ Take(w) \/ Settle(w) \/ Render(w) \/ ReadRow(w) \/ WriteRow(w)
    \/ Publish(w) \/ Composed(w) \/ ComposeRaises(w) \/ Finish(w)

-----------------------------------------------------------------------------
(* close, after the pool has stopped *)

\* A recorded page that was not published is composed as it is; an exception
\* (no block of it has a time, the job is over, a fault) gives up the rest.
Flush ==
    /\ main = "flushing"
    /\ flushed < Len(records)
    /\ LET p == records[flushed + 1] IN
       \/ /\ p \in published
          /\ flushed' = flushed + 1
          /\ UNCHANGED <<main, tables, faults>>
       \/ /\ p \notin published
          /\ p \in timed /\ ~over
          /\ Compose(p, patch, Stamped(p))
          /\ flushed' = flushed + 1
          /\ UNCHANGED <<main, settled, faults>>
       \/ /\ p \notin published
          /\ \/ (p \notin timed \/ over) /\ UNCHANGED faults
             \/ faults < MaxFaults /\ faults' = faults + 1
          /\ main' = "done"
          /\ UNCHANGED <<flushed, tables>>
    /\ UNCHANGED <<translated, emitted, poolVars, memory, full, output, over>>

Pictured == {p \in Pages : picture[p] # NoPicture}

\* compose_full_preview, when a page was recorded.
FlushEnds ==
    /\ main = "flushing"
    /\ flushed = Len(records)
    /\ main' = "done"
    /\ full' = IF records = <<>> \/ over \/ Pictured = {} THEN full
               ELSE UNION {picture[p] : p \in Pictured}
    /\ UNCHANGED <<translated, emitted, poolVars, memory, tables, flushed, output, over, faults>>

\* The job goes on with its next stage, or its process ends.
Terminated == main \in {"done", "failed", "broken"} /\ UNCHANGED vars

Next ==
    \/ Start \/ JobEnds
    \/ \E b \in Blocks : Emit(b)
    \/ TranslatorEnds \/ Join
    \/ \E w \in Workers : Thread(w)
    \/ Flush \/ FlushEnds
    \/ Terminated

Spec == Init /\ [][Next]_vars

-----------------------------------------------------------------------------
(* Properties *)

\* Every variable has its type.
TypeOK ==
    /\ main \in {"starting", "feeding", "closing", "failing", "flushing", "done", "failed", "broken"}
    /\ translated \in SUBSET Blocks
    /\ emitted \in SUBSET Blocks
    /\ queue \in Seq(Blocks)
    /\ worker \in [Workers ->
           [at : {"idle", "rendering", "rendered", "committing", "publishing", "composing"},
            block : Blocks \cup {None}, land : Pages \cup {None}, todo : SUBSET Pages,
            page : Pages \cup {None}, copy : Patches, shows : SUBSET Blocks]]
    /\ lock \in [Pages -> Workers \cup {None}]
    /\ records \in Seq(Pages)
    /\ timed \in SUBSET Pages
    /\ published \in SUBSET Pages
    /\ raised \in BOOLEAN
    /\ settled \in [Blocks -> Statuses]
    /\ patch \in Patches
    /\ rows \in SUBSET Pages
    /\ picture \in [Pages -> Picture]
    /\ flushed \in 0..Len(records)
    /\ full \in Picture
    /\ output \in BOOLEAN
    /\ over \in BOOLEAN
    /\ faults \in 0..MaxFaults

\* While a job translates, a block whose patch was committed keeps it: the
\* threads of a page, each reading and writing back its whole row, lose none.
PatchKept == main # "starting" => \A b \in Blocks : settled[b] = "ok" => patch[b] # None

\* A page goes out as complete only when every block of it has been dealt with
\* by this job: none is still in the queue or in the hands of a thread that
\* has yet to settle it.
Unsettled(b) ==
    \/ b \notin emitted
    \/ Contains(queue, b)
    \/ \E w \in Workers : worker[w].block = b /\ worker[w].at \in {"rendering", "rendered", "committing"}

PublishedIsSettled ==
    \A p \in published : \A b \in InScope(p) : ~Unsettled(b)

\* Once the threads have nothing left to do, a page whose blocks were all
\* translated and settled has been published: the threads that settle its last
\* blocks together do not each leave it to the other. An exception, the
\* end of the job or a translator that failed excuses it.
NoPageForgotten ==
    Quiet /\ ~raised /\ ~over /\ main \notin {"failing", "failed"} =>
        \A p \in Pages :
            InScope(p) # {} /\ InScope(p) \subseteq translated => p \in published

\* When the preview was closed to its end, the page on which a patch landed
\* shows it, also when the patch floated onto a page that had been published
\* before; a page none of whose blocks arrived is left out.
ClosedToEnd == main = "done" /\ ~raised /\ ~over /\ flushed = Len(records)

PatchShown ==
    ClosedToEnd => \A b \in Blocks :
        LET p == patch[b] IN
        settled[b] = "ok" /\ (Contains(records, p) \/ InScope(p) = {}) => b \in picture[p]

\* Once the job is over no thread and no close writes a page or a preview.
OverIsFinal == [][over => UNCHANGED <<translated, patch, rows, picture, full>>]_vars

\* A preview that cannot be made does not fail the translation (the comment of
\* _compile: preview failure does not corrupt provider output).
PreviewIsHarmless == main = "broken" => over

=============================================================================
