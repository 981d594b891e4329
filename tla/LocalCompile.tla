----------------------------- MODULE LocalCompile -----------------------------
(***************************************************************************)
(* The local compile of one document: drafts of its blocks, the patches    *)
(* stamped for them, the page assets composed from the patches, and the    *)
(* export assembled from the page assets and the last PDF of the pipeline. *)
(*                                                                         *)
(* Source: babeldoc_tools/serve/block_compile.py (BlockCompiler), with the *)
(* drafts of draft.py and the part of runner.py that discards patches.     *)
(*                                                                         *)
(* A text is known by the draft revision that wrote it; 0 is the machine   *)
(* translation, the text of a block the draft says nothing of.             *)
(***************************************************************************)
EXTENDS Naturals, FiniteSets

CONSTANTS
    Block,          \* the paragraphs of the document
    Page,           \* its pages
    Home,           \* [Block -> Page]: the page of the paragraph
    LandsOn,        \* [Block -> SUBSET Page]: where its stamp may be floated to
    NoText,         \* no stamp, no patch
    NoPage,         \* no asset, no baseline
    MaxRev,         \* bound: draft revisions
    MaxRebuilds     \* bound: full compiles and pipeline runs

ASSUME ConstantsAssumption ==
    /\ Home \in [Block -> Page]
    /\ LandsOn \in [Block -> SUBSET Page]
    /\ \A b \in Block : Home[b] \in LandsOn[b]
    /\ NoText \notin Nat
    /\ MaxRev \in Nat
    /\ MaxRebuilds \in Nat

Rev == 0..MaxRev
Stamp == Rev \cup {NoText}
\* What a page shows: the text of each block that is on it.
Picture == [Block -> Stamp]

ASSUME NoPageAssumption == NoPage \notin Picture

VARIABLES
    eligible,   \* the blocks a compile replaces (label and source lines); never changes
    rev,        \* DraftDoc.revision
    text,       \* the text of each block under the current draft
    job,        \* the active job: its scope, revision and phase
    cancel,     \* cancel_requested_at, as job_snapshots has it
    todo,       \* blocks the job still has to compile
    rendering,  \* the text a renderer read from the draft, per block
    patch,      \* local_pages: the input of the patch of each block
    land,       \* local_pages: the page that patch is stamped on
    frozen,     \* local_pages: the baseline a page is composed over
    asset,      \* pages: the composed page, or NoPage
    pages,      \* pages the job has to compose before it is done
    base,       \* the text of each block in the PDF of the last build
    exported,   \* exports: status, revision and the pages of the document
    stranded,   \* history: pages a job left behind with an uncomposed patch
    rebuilds    \* full compiles and runs so far

draftVars == <<rev, text>>
jobVars == <<job, cancel, todo, rendering, pages>>
pageVars == <<patch, land, frozen, asset>>
buildVars == <<base, rebuilds>>
vars == <<eligible, draftVars, jobVars, pageVars, buildVars, exported, stranded>>

Scope == {"block", "blocks", "export"}
Idle == [scope |-> "none", rev |-> 0, phase |-> "queued"]

TypeOK ==
    /\ eligible \in SUBSET Block
    /\ rev \in Rev
    /\ text \in [Block -> Rev]
    /\ job \in [scope : Scope \cup {"none"}, rev : Rev, phase : {"queued", "running"}]
    /\ cancel \in BOOLEAN
    /\ todo \in SUBSET Block
    /\ rendering \in [Block -> Stamp]
    /\ patch \in [Block -> Stamp]
    /\ land \in [Block -> Page]
    /\ frozen \in [Page -> Picture \cup {NoPage}]
    /\ asset \in [Page -> Picture \cup {NoPage}]
    /\ pages \in SUBSET Page
    /\ base \in [Block -> Rev]
    /\ exported \in [status : {"none", "ok", "previous"}, rev : Rev,
                     shows : [Page -> Picture]]
    /\ stranded \in SUBSET Page
    /\ rebuilds \in 0..MaxRebuilds

Nothing == [b \in Block |-> NoText]

Init ==
    /\ eligible \in SUBSET Block
    /\ rev = 0
    /\ text = [b \in Block |-> 0]
    /\ job = Idle
    /\ cancel = FALSE
    /\ todo = {}
    /\ rendering = Nothing
    /\ patch = Nothing
    /\ land = Home
    /\ frozen = [p \in Page |-> NoPage]
    /\ asset = [p \in Page |-> NoPage]
    /\ pages = {}
    /\ base = [b \in Block |-> 0]
    /\ exported = [status |-> "none", rev |-> 0, shows |-> [p \in Page |-> Nothing]]
    /\ stranded = {}
    /\ rebuilds = 0

-----------------------------------------------------------------------------
(* Drafts: reject_busy lets an edit pass while a single block is compiled. *)

Editable == job.scope \in {"none", "block"} /\ rev < MaxRev

Edit(b) ==
    /\ Editable
    /\ rev' = rev + 1
    /\ text' = [text EXCEPT ![b] = rev + 1]
    /\ UNCHANGED <<eligible, jobVars, pageVars, buildVars, exported, stranded>>

DeleteDraft ==
    /\ Editable
    /\ rev' = rev + 1
    /\ text' = [b \in Block |-> 0]
    /\ UNCHANGED <<eligible, jobVars, pageVars, buildVars, exported, stranded>>

-----------------------------------------------------------------------------
(* Submission and start *)

\* BlockCompiler.submit and submit_batch.  The revision was compared with the
\* draft before the registry lock was awaited, so it may be the one before.
Submit(scope, r, B) ==
    /\ job.scope = "none"
    /\ r \in {rev, rev - 1}
    /\ job' = [scope |-> scope, rev |-> r, phase |-> "queued"]
    /\ cancel' = FALSE
    /\ todo' = B
    /\ exported' = IF scope = "export" /\ exported.status # "none"
                   THEN [exported EXCEPT !.status = "previous"]
                   ELSE exported
    /\ UNCHANGED <<eligible, draftVars, rendering, pages, pageVars, buildVars, stranded>>

\* BUG: only the blocks of the draft are looked at.
Dirty_DraftOnly == {b \in Block : text[b] # 0 /\ patch[b] # text[b]}

\* The blocks the draft or a patch knows whose patch has another input.
Known == {b \in Block : text[b] # 0 \/ patch[b] # NoText}
Dirty == {b \in Known : patch[b] # text[b]}

Begin ==
    /\ job.phase = "queued" /\ job.scope # "none"
    /\ job.rev = rev
    /\ job' = [job EXCEPT !.phase = "running"]
    /\ todo' = IF job.scope = "export" THEN Dirty ELSE todo
    /\ UNCHANGED <<eligible, draftVars, cancel, rendering, pages, pageVars, buildVars,
                   exported, stranded>>

\* JobRunner.cancel; for a batch only BlockCompiler.shutdown sets the flag.
Cancel ==
    /\ job.phase = "running"
    /\ cancel' = TRUE
    /\ UNCHANGED <<eligible, draftVars, job, todo, rendering, pages, pageVars, buildVars,
                   exported, stranded>>

-----------------------------------------------------------------------------
(* compile_block_patch: several renderers in a batch, one at a time otherwise. *)

Read(b) ==
    /\ job.phase = "running"
    /\ job.rev = rev
    /\ b \in todo
    /\ b \in eligible
    /\ rendering[b] = NoText
    /\ job.scope = "blocks" \/ (rendering = Nothing /\ pages = {})
    /\ rendering' = [rendering EXCEPT ![b] = text[b]]
    /\ UNCHANGED <<eligible, draftVars, job, cancel, todo, pages, pageVars, buildVars,
                   exported, stranded>>

\* NotReplaced, or in a batch a compile that failed: the block is passed over.
Skip(b) ==
    /\ job.phase = "running"
    /\ b \in todo
    /\ b \notin eligible \/ job.scope = "blocks"
    /\ job.scope = "blocks" \/ pages = {}
    /\ todo' = todo \ {b}
    /\ rendering' = [rendering EXCEPT ![b] = NoText]
    /\ UNCHANGED <<eligible, draftVars, job, cancel, pages, pageVars, buildVars,
                   exported, stranded>>

\* BUG: the page the previous stamp was on is forgotten.
Affected_NotPrevious(b, p) == {Home[b], p}

\* The home page, the page of the new stamp and the page of the previous one.
Affected(b, p) == {Home[b], p, land[b]}

\* The patch and its effect on the pages, once the checks of the transaction passed.
PatchWith(b, p) ==
    /\ patch' = [patch EXCEPT ![b] = rendering[b]]
    /\ land' = [land EXCEPT ![b] = p]
    /\ frozen' = [frozen EXCEPT ![Home[b]] =
                    IF @ # NoPage THEN @
                    ELSE [c \in Block |-> IF Home[c] = Home[b] THEN base[c] ELSE NoText]]
    /\ pages' = pages \cup Affected(b, p)
    /\ todo' = todo \ {b}
    /\ rendering' = [rendering EXCEPT ![b] = NoText]
    /\ UNCHANGED <<eligible, draftVars, job, cancel, asset, buildVars, exported, stranded>>

\* BUG: the transaction does not look at the draft again.
CommitPatch_NoRecheck(b, p) ==
    /\ rendering[b] # NoText
    /\ p \in LandsOn[b]
    /\ ~cancel
    /\ PatchWith(b, p)

CommitPatch(b, p) ==
    /\ rendering[b] # NoText
    /\ p \in LandsOn[b]
    /\ job.rev = rev
    /\ ~cancel
    /\ PatchWith(b, p)

-----------------------------------------------------------------------------
(* Page assets *)

\* The baseline of a page: the one its patches were made over, or, for a page
\* that only received stamps, the PDF of the last build.
Baseline(p) ==
    IF frozen[p] # NoPage THEN frozen[p]
    ELSE [b \in Block |-> IF Home[b] = p THEN base[b] ELSE NoText]

\* The blocks of the page that have a patch are erased, then every patch that
\* lands on it is stamped.
Composed(p) ==
    [b \in Block |->
        IF patch[b] = NoText THEN Baseline(p)[b]
        ELSE IF land[b] = p THEN patch[b] ELSE NoText]

\* compose_page_asset: after its block, or in a batch after all of them.
Compose(p) ==
    /\ job.phase = "running"
    /\ p \in pages
    /\ rendering = Nothing
    /\ job.scope = "blocks" => todo = {}
    /\ job.rev = rev
    /\ ~cancel
    /\ asset' = [asset EXCEPT ![p] = Composed(p)]
    /\ frozen' = [frozen EXCEPT ![p] = Baseline(p)]
    /\ pages' = pages \ {p}
    /\ stranded' = stranded \ {p}
    /\ UNCHANGED <<eligible, draftVars, job, cancel, todo, rendering, patch, land,
                   buildVars, exported>>

-----------------------------------------------------------------------------
(* The end of a job *)

Closed ==
    /\ job' = Idle
    /\ cancel' = FALSE
    /\ todo' = {}
    /\ rendering' = Nothing
    /\ pages' = {}

\* export: the composed pages over the PDF of the last build.
Assembled == [p \in Page |->
    IF asset[p] # NoPage THEN asset[p]
    ELSE [b \in Block |-> IF Home[b] = p THEN base[b] ELSE NoText]]

Publish ==
    /\ job.scope = "export" /\ job.phase = "running"
    /\ todo = {} /\ pages = {} /\ rendering = Nothing
    /\ job.rev = rev
    /\ ~cancel
    /\ exported' = [status |-> "ok", rev |-> job.rev, shows |-> Assembled]
    /\ Closed
    /\ UNCHANGED <<eligible, draftVars, pageVars, buildVars, stranded>>

\* Success, refusal, failure, cancellation, or a server that dies: what was
\* committed stays.
End ==
    /\ job.scope # "none"
    /\ Closed
    /\ stranded' = stranded \cup pages
    /\ UNCHANGED <<eligible, draftVars, pageVars, buildVars, exported>>

-----------------------------------------------------------------------------
(* Full compiles and pipeline runs, in between *)

\* A full compile (FullCompile) published the PDF of the draft.
FullCompiled ==
    /\ job.scope = "none"
    /\ rebuilds < MaxRebuilds
    /\ rebuilds' = rebuilds + 1
    /\ base' = text
    /\ UNCHANGED <<eligible, draftVars, jobVars, pageVars, exported, stranded>>

Discard ==
    /\ patch' = Nothing
    /\ land' = Home
    /\ frozen' = [p \in Page |-> NoPage]
    /\ asset' = [p \in Page |-> NoPage]
    /\ stranded' = {}

\* A run builds from the translations.  One that starts before "apply" discards
\* the patches and pages when it starts, and may fail after that.
Run ==
    /\ job.scope = "none"
    /\ rebuilds < MaxRebuilds
    /\ rebuilds' = rebuilds + 1
    /\ exported' = [exported EXCEPT !.status = IF @ = "none" THEN @ ELSE "previous"]
    /\ Discard \/ UNCHANGED <<pageVars, stranded>>
    /\ base' \in {base, [b \in Block |-> 0]}
    /\ UNCHANGED <<eligible, draftVars, jobVars>>

-----------------------------------------------------------------------------
Next ==
    \/ \E b \in Block : Edit(b) \/ Read(b) \/ Skip(b)
    \/ DeleteDraft
    \/ \E r \in Rev, b \in Block : Submit("block", r, {b})
    \/ \E r \in Rev, B \in SUBSET Block \ {{}} : Submit("blocks", r, B)
    \/ \E r \in Rev : Submit("export", r, {})
    \/ Begin \/ Cancel
    \/ \E b \in Block, p \in Page : CommitPatch(b, p)
    \/ \E p \in Page : Compose(p)
    \/ Publish \/ End
    \/ FullCompiled \/ Run

Spec == Init /\ [][Next]_vars

-----------------------------------------------------------------------------
(* Properties *)

Shows(picture, b) == {<<p, picture[p][b]>> : p \in {q \in Page : picture[q][b] # NoText}}

\* The draft of a block that is in the draft or was patched before is in the
\* picture of the document, once, on the page its stamp landed on.
DraftShown(picture, B) == \A b \in B : Shows(picture, b) = {<<land[b], text[b]>>}

\* A patch enters the database with the text the draft has at that moment,
\* although drafts may be edited while a block is rendered.
PatchFromDraft ==
    [][\A b \in Block : patch'[b] \notin {patch[b], NoText} => patch'[b] = text[b]]_vars

\* A page asset is what its patches make of it, those floated in from other pages
\* and those floated away included, unless the running job is still to compose the
\* page or a job that failed left it behind.
PagesComposed ==
    \A p \in Page \ (pages \cup stranded) :
        IF asset[p] = NoPage
        THEN \A b \in Block : patch[b] # NoText => Home[b] # p /\ land[b] # p
        ELSE \A b \in Block : asset[p][b] = Composed(p)[b]

\* An export published while no page is left behind carries the revision of the
\* draft, although its job was submitted with one read before the lock, and shows
\* the current draft of every block it knows of, each exactly once, drafts deleted
\* meanwhile included.
ExportShowsDraft ==
    [][exported.status # "ok" /\ exported'.status = "ok" /\ stranded = {}
        => exported'.rev = rev /\ DraftShown(exported'.shows, Known \cap eligible)]_vars

\* ARCHITECTURE.md: a failure must not pass an old product for the current
\* revision.  A job that fails between the patch and its page does: the next
\* export finds the patch up to date and takes the old page.
ExportCurrent ==
    exported.status = "ok" /\ exported.rev = rev
        => \A b \in eligible : text[b] # 0 =>
              \E p \in Page : exported.shows[p][b] = text[b]

=============================================================================
