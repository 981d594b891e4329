-------------------------- MODULE LocalCompileProofs --------------------------
(***************************************************************************)
(* The safety properties of LocalCompile as theorems, for every document:  *)
(* any blocks, pages and places a stamp may be floated to.                 *)
(***************************************************************************)
EXTENDS LocalCompile, TLAPS

-----------------------------------------------------------------------------
(* The inductive invariant *)

\* A job was submitted at a revision the draft has had.
JobPast == job.rev <= rev

\* Nothing is rendered and no page is due before a job has begun.
QueuedClean ==
    /\ job.scope = "none" => job.phase = "queued"
    /\ job.phase = "queued" => rendering = Nothing /\ pages = {}

\* As long as the draft is at the revision of the job, what the renderers read is
\* what it says.
RenderingCurrent ==
    job.rev = rev => \A b \in Block : rendering[b] \in {NoText, text[b]}

\* A composed page has a frozen baseline, so that a later build does not change
\* what it was composed over.
AssetBased == \A p \in Page : asset[p] # NoPage => frozen[p] # NoPage

\* The baseline of a page has the blocks that are at home on it.
FrozenHome ==
    \A p \in Page, b \in Block :
        frozen[p] # NoPage /\ Home[b] # p => frozen[p][b] = NoText

\* What an export has yet to compile is in its list.
ExportDirty ==
    job.scope = "export" /\ job.phase = "running" /\ job.rev = rev
        => \A b \in Known \cap eligible : b \in todo \/ patch[b] = text[b]

IInv ==
    /\ TypeOK
    /\ JobPast
    /\ QueuedClean
    /\ RenderingCurrent
    /\ AssetBased
    /\ FrozenHome
    /\ PagesComposed
    /\ ExportDirty

-----------------------------------------------------------------------------
(* What pages are made of *)

\* A baseline is a picture, and so is what is composed over it.
LEMMA PictureType ==
    ASSUME TypeOK, NEW p \in Page
    PROVE  /\ Baseline(p) \in Picture /\ Baseline(p) # NoPage
           /\ Composed(p) \in Picture /\ Composed(p) # NoPage
<1>1. Baseline(p) \in Picture
  BY DEF Baseline, TypeOK, Picture, Stamp
<1>2. Composed(p) \in Picture
  BY <1>1 DEF Composed, TypeOK, Picture, Stamp
<1>. QED
  BY <1>1, <1>2, NoPageAssumption

-----------------------------------------------------------------------------
(* The invariant *)

\* A document that has been built and not been edited.
LEMMA StartsInv == Init => IInv
<1>. SUFFICES ASSUME Init PROVE IInv
  OBVIOUS
<1>1. TypeOK
  <2>1. 0 \in Rev /\ NoText \in Stamp /\ 0 \in 0..MaxRebuilds
    BY ConstantsAssumption DEF Rev, Stamp
  <2>2. Nothing \in Picture
    BY <2>1 DEF Nothing, Picture
  <2>3. /\ text \in [Block -> Rev] /\ base \in [Block -> Rev]
        /\ rendering \in [Block -> Stamp] /\ patch \in [Block -> Stamp]
    BY <2>1, <2>2 DEF Init, Picture
  <2>4. job \in [scope : Scope \cup {"none"}, rev : Rev, phase : {"queued", "running"}]
    BY <2>1 DEF Init, Idle
  <2>5. exported \in [status : {"none", "ok", "previous"}, rev : Rev,
                      shows : [Page -> Picture]]
    BY <2>1, <2>2 DEF Init
  <2>6. land \in [Block -> Page]
    BY ConstantsAssumption DEF Init
  <2>. QED
    BY <2>1, <2>3, <2>4, <2>5, <2>6 DEF Init, TypeOK
<1>2. JobPast /\ QueuedClean /\ ExportDirty
  BY ConstantsAssumption DEF Init, Idle, JobPast, QueuedClean, ExportDirty
<1>3. RenderingCurrent
  BY DEF Init, Nothing, RenderingCurrent
<1>4. AssetBased /\ FrozenHome
  BY DEF Init, AssetBased, FrozenHome
<1>5. PagesComposed
  BY DEF Init, Nothing, PagesComposed
<1>. QED
  BY <1>1, <1>2, <1>3, <1>4, <1>5 DEF IInv

\* The invariant is kept by every step.
LEMMA StepInv == IInv /\ [Next]_vars => IInv'
<1>. SUFFICES ASSUME IInv, [Next]_vars PROVE IInv'
  OBVIOUS
<1>. USE ConstantsAssumption, NoPageAssumption DEF IInv
<1>1. ASSUME NEW b \in Block, Edit(b) PROVE IInv'
  <2>1. TypeOK'
    BY <1>1 DEF Edit, jobVars, pageVars, buildVars, TypeOK, Rev, Stamp, Picture,
        Editable
  <2>2. JobPast'
    BY <1>1 DEF Edit, jobVars, pageVars, buildVars, JobPast, TypeOK, Rev
  <2>3. RenderingCurrent'
    BY <1>1 DEF Edit, jobVars, pageVars, buildVars, RenderingCurrent, JobPast,
        TypeOK, Rev
  <2>4. ExportDirty'
    BY <1>1 DEF Edit, jobVars, pageVars, buildVars, ExportDirty, Editable, JobPast,
        TypeOK, Known, Rev
  <2>5. (QueuedClean /\ AssetBased /\ FrozenHome /\ PagesComposed)'
    BY <1>1 DEF Edit, jobVars, pageVars, buildVars, QueuedClean, AssetBased,
        FrozenHome, PagesComposed, Nothing, Composed, Baseline
  <2>. QED
    BY <2>1, <2>2, <2>3, <2>4, <2>5
<1>2. CASE DeleteDraft
  <2>1. TypeOK'
    BY <1>2 DEF DeleteDraft, jobVars, pageVars, buildVars, TypeOK, Rev, Stamp,
        Picture, Editable
  <2>2. JobPast'
    BY <1>2 DEF DeleteDraft, jobVars, pageVars, buildVars, JobPast, TypeOK, Rev
  <2>3. RenderingCurrent'
    BY <1>2 DEF DeleteDraft, jobVars, pageVars, buildVars, RenderingCurrent, JobPast,
        TypeOK, Rev
  <2>4. ExportDirty'
    BY <1>2 DEF DeleteDraft, jobVars, pageVars, buildVars, ExportDirty, Editable,
        JobPast, TypeOK, Known, Rev
  <2>5. (QueuedClean /\ AssetBased /\ FrozenHome /\ PagesComposed)'
    BY <1>2 DEF DeleteDraft, jobVars, pageVars, buildVars, QueuedClean, AssetBased,
        FrozenHome, PagesComposed, Nothing, Composed, Baseline
  <2>. QED
    BY <2>1, <2>2, <2>3, <2>4, <2>5
<1>3. ASSUME NEW scope \in Scope, NEW r \in Rev, NEW B \in SUBSET Block,
            Submit(scope, r, B) PROVE IInv'
  <2>1. TypeOK'
    BY <1>3 DEF Submit, draftVars, pageVars, buildVars, TypeOK, Rev, Stamp, Picture
  <2>2. JobPast'
    BY <1>3 DEF Submit, draftVars, pageVars, buildVars, JobPast, TypeOK, Rev
  <2>3. QueuedClean'
    BY <1>3 DEF Submit, draftVars, pageVars, buildVars, QueuedClean, Scope, Nothing
  <2>4. RenderingCurrent'
    BY <1>3 DEF Submit, draftVars, pageVars, buildVars, RenderingCurrent,
        QueuedClean, Nothing, TypeOK, Rev
  <2>5. ExportDirty'
    BY <1>3 DEF Submit, draftVars, pageVars, buildVars, ExportDirty, Known
  <2>6. (AssetBased /\ FrozenHome /\ PagesComposed)'
    BY <1>3 DEF Submit, draftVars, pageVars, buildVars, AssetBased, FrozenHome,
        PagesComposed, Composed, Baseline
  <2>. QED
    BY <2>1, <2>2, <2>3, <2>4, <2>5, <2>6
<1>4. CASE Begin
  <2>1. TypeOK'
    BY <1>4 DEF Begin, draftVars, pageVars, buildVars, TypeOK, Rev, Stamp, Picture,
        Dirty, Known, Scope
  <2>2. JobPast'
    BY <1>4 DEF Begin, draftVars, pageVars, buildVars, JobPast, TypeOK, Rev
  <2>3. QueuedClean'
    BY <1>4 DEF Begin, draftVars, pageVars, buildVars, QueuedClean, TypeOK, Nothing,
        Rev
  <2>4. RenderingCurrent'
    BY <1>4 DEF Begin, draftVars, pageVars, buildVars, RenderingCurrent, TypeOK, Rev
  <2>5. ExportDirty'
    BY <1>4 DEF Begin, draftVars, pageVars, buildVars, ExportDirty, Dirty, TypeOK,
        Known, Rev
  <2>6. (AssetBased /\ FrozenHome /\ PagesComposed)'
    BY <1>4 DEF Begin, draftVars, pageVars, buildVars, AssetBased, FrozenHome,
        PagesComposed, Composed, Baseline
  <2>. QED
    BY <2>1, <2>2, <2>3, <2>4, <2>5, <2>6
<1>5. CASE Cancel
  <2>1. TypeOK'
    BY <1>5 DEF Cancel, draftVars, pageVars, buildVars, TypeOK, Rev, Stamp, Picture
  <2>2. (JobPast /\ QueuedClean /\ RenderingCurrent /\ AssetBased /\ FrozenHome
      /\ PagesComposed /\ ExportDirty)'
    BY <1>5 DEF Cancel, draftVars, pageVars, buildVars, JobPast, QueuedClean,
        RenderingCurrent, AssetBased, FrozenHome, PagesComposed, ExportDirty,
        Nothing, Composed, Baseline, Known
  <2>. QED
    BY <2>1, <2>2
<1>6. ASSUME NEW b \in Block, Read(b) PROVE IInv'
  <2>1. TypeOK'
    BY <1>6 DEF Read, draftVars, pageVars, buildVars, TypeOK, Rev, Stamp, Picture
  <2>2. QueuedClean'
    BY <1>6 DEF Read, draftVars, pageVars, buildVars, QueuedClean, TypeOK, Nothing,
        Rev
  <2>3. RenderingCurrent'
    BY <1>6 DEF Read, draftVars, pageVars, buildVars, RenderingCurrent, TypeOK, Rev
  <2>4. (JobPast /\ AssetBased /\ FrozenHome /\ PagesComposed /\ ExportDirty)'
    BY <1>6 DEF Read, draftVars, pageVars, buildVars, JobPast, AssetBased,
        FrozenHome, PagesComposed, ExportDirty, Composed, Baseline, Known
  <2>. QED
    BY <2>1, <2>2, <2>3, <2>4
<1>7. ASSUME NEW b \in Block, Skip(b) PROVE IInv'
  <2>1. TypeOK'
    BY <1>7 DEF Skip, draftVars, pageVars, buildVars, TypeOK, Rev, Stamp, Picture
  <2>2. QueuedClean'
    BY <1>7 DEF Skip, draftVars, pageVars, buildVars, QueuedClean, TypeOK, Nothing,
        Rev
  <2>3. RenderingCurrent'
    BY <1>7 DEF Skip, draftVars, pageVars, buildVars, RenderingCurrent, TypeOK, Rev
  <2>4. ExportDirty'
    BY <1>7 DEF Skip, draftVars, pageVars, buildVars, ExportDirty, TypeOK, Known, Rev
  <2>5. (JobPast /\ AssetBased /\ FrozenHome /\ PagesComposed)'
    BY <1>7 DEF Skip, draftVars, pageVars, buildVars, JobPast, AssetBased,
        FrozenHome, PagesComposed, Composed, Baseline
  <2>. QED
    BY <2>1, <2>2, <2>3, <2>4, <2>5
<1>8. ASSUME NEW b \in Block, NEW p \in Page, CommitPatch(b, p) PROVE IInv'
  <2>1. TypeOK'
    <3>1. patch' \in [Block -> Stamp] /\ rendering' \in [Block -> Stamp]
      BY <1>8 DEF CommitPatch, PatchWith, TypeOK, Stamp
    <3>2. land' \in [Block -> Page]
      BY <1>8 DEF CommitPatch, PatchWith, TypeOK
    <3>3. [c \in Block |-> IF Home[c] = Home[b] THEN base[c] ELSE NoText] \in Picture
      BY DEF TypeOK, Picture, Stamp
    <3>4. frozen' \in [Page -> Picture \cup {NoPage}]
      BY <1>8, <3>3 DEF CommitPatch, PatchWith, TypeOK
    <3>5. pages' \in SUBSET Page /\ todo' \in SUBSET Block
      BY <1>8 DEF CommitPatch, PatchWith, Affected, TypeOK
    <3>. QED
      BY <1>8, <3>1, <3>2, <3>4, <3>5
      DEF CommitPatch, PatchWith, draftVars, buildVars, TypeOK
  <2>2. QueuedClean'
    BY <1>8 DEF CommitPatch, PatchWith, draftVars, buildVars, QueuedClean, TypeOK,
        Nothing, Rev
  <2>3. RenderingCurrent'
    BY <1>8 DEF CommitPatch, PatchWith, draftVars, buildVars, RenderingCurrent,
        TypeOK, Rev
  <2>4. AssetBased'
    BY <1>8 DEF CommitPatch, PatchWith, draftVars, buildVars, AssetBased, TypeOK, Rev
  <2>5. FrozenHome'
    BY <1>8 DEF CommitPatch, PatchWith, draftVars, buildVars, FrozenHome, TypeOK, Rev
  <2>6. PagesComposed'
    <3>. SUFFICES ASSUME NEW q \in Page \ (pages' \cup stranded')
                  PROVE  IF asset'[q] = NoPage
                         THEN \A c \in Block :
                                patch'[c] # NoText => Home[c] # q /\ land'[c] # q
                         ELSE \A c \in Block : asset'[q][c] = Composed(q)'[c]
      BY DEF PagesComposed
    <3>1. /\ q \in Page \ (pages \cup stranded)
          /\ q # Home[b] /\ q # p /\ q # land[b]
      BY <1>8 DEF CommitPatch, PatchWith, Affected
    <3>2. /\ asset' = asset /\ base' = base
          /\ frozen'[q] = frozen[q]
          /\ patch' = [patch EXCEPT ![b] = rendering[b]]
          /\ land' = [land EXCEPT ![b] = p]
      BY <1>8, <3>1 DEF CommitPatch, PatchWith, buildVars, TypeOK
    <3>3. CASE asset[q] = NoPage
      BY <3>1, <3>2, <3>3 DEF PagesComposed, TypeOK
    <3>4. CASE asset[q] # NoPage
      <4>1. frozen[q] # NoPage /\ frozen[q][b] = NoText
        BY <3>1, <3>4 DEF AssetBased, FrozenHome
      <4>2. asset[q][b] = NoText
        BY <3>1, <3>4, <4>1 DEF PagesComposed, Composed, Baseline
      <4>3. rendering[b] # NoText
        BY <1>8 DEF CommitPatch
      <4>4. Composed(q)'[b] = NoText
        BY <3>1, <3>2, <4>3 DEF Composed, TypeOK
      <4>5. \A c \in Block \ {b} : asset[q][c] = Composed(q)'[c]
        BY <3>1, <3>2, <3>4, <4>1 DEF PagesComposed, Composed, Baseline, TypeOK
      <4>. QED
        BY <3>2, <3>4, <4>2, <4>4, <4>5
    <3>. QED
      BY <3>3, <3>4
  <2>7. ExportDirty'
    BY <1>8 DEF CommitPatch, PatchWith, draftVars, buildVars, ExportDirty,
        RenderingCurrent, TypeOK, Known, Rev
  <2>8. (JobPast)'
    BY <1>8 DEF CommitPatch, PatchWith, draftVars, buildVars, JobPast
  <2>. QED
    BY <2>1, <2>2, <2>3, <2>4, <2>5, <2>6, <2>7, <2>8
<1>9. ASSUME NEW p \in Page, Compose(p) PROVE IInv'
  <2>1. TypeOK'
    <3>1. asset' \in [Page -> Picture \cup {NoPage}]
      /\ frozen' \in [Page -> Picture \cup {NoPage}]
      BY <1>9, PictureType DEF Compose, TypeOK
    <3>. QED
      BY <1>9, <3>1 DEF Compose, draftVars, buildVars, TypeOK
  <2>2. QueuedClean'
    BY <1>9 DEF Compose, draftVars, buildVars, QueuedClean, TypeOK, Nothing, Rev
  <2>3. AssetBased'
    BY <1>9, PictureType DEF Compose, AssetBased, TypeOK
  <2>4. FrozenHome'
    <3>1. \A b \in Block : Home[b] # p => Baseline(p)[b] = NoText
      BY DEF Baseline, FrozenHome
    <3>. QED
      BY <1>9, <3>1 DEF Compose, FrozenHome, TypeOK
  <2>5. PagesComposed'
    <3>. SUFFICES ASSUME NEW q \in Page \ (pages' \cup stranded')
                  PROVE  IF asset'[q] = NoPage
                         THEN \A c \in Block :
                                patch'[c] # NoText => Home[c] # q /\ land'[c] # q
                         ELSE \A c \in Block : asset'[q][c] = Composed(q)'[c]
      BY DEF PagesComposed
    <3>1. patch' = patch /\ land' = land /\ base' = base
      BY <1>9 DEF Compose, buildVars
    <3>2. CASE q = p
      <4>1. asset'[q] = Composed(p) /\ frozen'[q] = Baseline(p)
        BY <1>9, <3>2 DEF Compose, TypeOK
      <4>2. Baseline(q)' = Baseline(p)
        BY <4>1, PictureType DEF Baseline
      <4>3. Composed(q)' = Composed(p)
        BY <3>1, <3>2, <4>2 DEF Composed
      <4>. QED
        BY <4>1, <4>3, PictureType
    <3>3. CASE q # p
      <4>1. asset'[q] = asset[q] /\ frozen'[q] = frozen[q]
        BY <1>9, <3>3 DEF Compose, TypeOK
      <4>2. q \in Page \ (pages \cup stranded)
        BY <1>9, <3>3 DEF Compose
      <4>. QED
        BY <3>1, <4>1, <4>2 DEF PagesComposed, Composed, Baseline
    <3>. QED
      BY <3>2, <3>3
  <2>6. (JobPast /\ RenderingCurrent /\ ExportDirty)'
    BY <1>9 DEF Compose, draftVars, buildVars, JobPast, RenderingCurrent,
        ExportDirty, Known
  <2>. QED
    BY <2>1, <2>2, <2>3, <2>4, <2>5, <2>6
<1>10. CASE Publish
  <2>1. TypeOK'
    <3>1. Assembled \in [Page -> Picture]
      BY DEF Assembled, TypeOK, Picture, Stamp
    <3>2. job' \in [scope : Scope \cup {"none"}, rev : Rev, phase : {"queued", "running"}]
      BY <1>10 DEF Publish, Closed, Idle, Rev
    <3>3. exported' \in [status : {"none", "ok", "previous"}, rev : Rev,
                        shows : [Page -> Picture]]
      BY <1>10, <3>1 DEF Publish, TypeOK
    <3>4. rendering' \in [Block -> Stamp]
      BY <1>10 DEF Publish, Closed, Nothing, Stamp
    <3>. QED
      BY <1>10, <3>2, <3>3, <3>4 DEF Publish, Closed, draftVars, pageVars, buildVars,
          TypeOK
  <2>2. JobPast'
    BY <1>10 DEF Publish, Closed, draftVars, pageVars, buildVars, JobPast, Idle,
        TypeOK, Rev
  <2>3. QueuedClean'
    BY <1>10 DEF Publish, Closed, draftVars, pageVars, buildVars, QueuedClean, Idle,
        Nothing
  <2>4. RenderingCurrent'
    BY <1>10 DEF Publish, Closed, draftVars, pageVars, buildVars, RenderingCurrent,
        Nothing
  <2>5. PagesComposed'
    BY <1>10 DEF Publish, Closed, draftVars, pageVars, buildVars, PagesComposed,
        Composed, Baseline
  <2>6. ExportDirty'
    BY <1>10 DEF Publish, Closed, draftVars, pageVars, buildVars, ExportDirty, Idle,
        Known
  <2>7. (AssetBased /\ FrozenHome)'
    BY <1>10 DEF Publish, Closed, draftVars, pageVars, buildVars, AssetBased,
        FrozenHome
  <2>. QED
    BY <2>1, <2>2, <2>3, <2>4, <2>5, <2>6, <2>7
<1>11. CASE End
  <2>1. TypeOK'
    <3>1. job' \in [scope : Scope \cup {"none"}, rev : Rev, phase : {"queued", "running"}]
      BY <1>11 DEF End, Closed, Idle, Rev
    <3>2. rendering' \in [Block -> Stamp]
      BY <1>11 DEF End, Closed, Nothing, Stamp
    <3>. QED
      BY <1>11, <3>1, <3>2 DEF End, Closed, draftVars, pageVars, buildVars, TypeOK
  <2>2. JobPast'
    BY <1>11 DEF End, Closed, draftVars, pageVars, buildVars, JobPast, Idle, TypeOK,
        Rev
  <2>3. QueuedClean'
    BY <1>11 DEF End, Closed, draftVars, pageVars, buildVars, QueuedClean, Idle,
        Nothing
  <2>4. RenderingCurrent'
    BY <1>11 DEF End, Closed, draftVars, pageVars, buildVars, RenderingCurrent,
        Nothing
  <2>5. PagesComposed'
    BY <1>11 DEF End, Closed, draftVars, pageVars, buildVars, PagesComposed,
        Composed, Baseline
  <2>6. ExportDirty'
    BY <1>11 DEF End, Closed, draftVars, pageVars, buildVars, ExportDirty, Idle, Known
  <2>7. (AssetBased /\ FrozenHome)'
    BY <1>11 DEF End, Closed, draftVars, pageVars, buildVars, AssetBased, FrozenHome
  <2>. QED
    BY <2>1, <2>2, <2>3, <2>4, <2>5, <2>6, <2>7
<1>12. CASE FullCompiled
  <2>1. TypeOK'
    BY <1>12 DEF FullCompiled, draftVars, jobVars, pageVars, TypeOK, Rev, Stamp,
        Picture
  <2>2. PagesComposed'
    BY <1>12 DEF FullCompiled, draftVars, jobVars, pageVars, PagesComposed,
        AssetBased, Composed, Baseline
  <2>3. (JobPast /\ QueuedClean /\ RenderingCurrent /\ AssetBased /\ FrozenHome
      /\ ExportDirty)'
    BY <1>12 DEF FullCompiled, draftVars, jobVars, pageVars, JobPast, QueuedClean,
        RenderingCurrent, AssetBased, FrozenHome, ExportDirty, Nothing, Known
  <2>. QED
    BY <2>1, <2>2, <2>3
<1>13. CASE Run
  <2>1. TypeOK'
    <3>1. exported' \in [status : {"none", "ok", "previous"}, rev : Rev,
                        shows : [Page -> Picture]]
      BY <1>13 DEF Run, TypeOK
    <3>2. base' \in [Block -> Rev] /\ rebuilds' \in 0..MaxRebuilds
      BY <1>13 DEF Run, TypeOK, Rev
    <3>3. /\ patch' \in [Block -> Stamp] /\ land' \in [Block -> Page]
          /\ frozen' \in [Page -> Picture \cup {NoPage}]
          /\ asset' \in [Page -> Picture \cup {NoPage}]
          /\ stranded' \in SUBSET Page
      BY <1>13 DEF Run, Discard, Nothing, pageVars, TypeOK, Stamp
    <3>. QED
      BY <1>13, <3>1, <3>2, <3>3 DEF Run, draftVars, jobVars, TypeOK
  <2>2. AssetBased'
    BY <1>13 DEF Run, Discard, draftVars, jobVars, pageVars, AssetBased, TypeOK, Rev
  <2>3. FrozenHome'
    BY <1>13 DEF Run, Discard, draftVars, jobVars, pageVars, FrozenHome
  <2>4. PagesComposed'
    BY <1>13 DEF Run, Discard, draftVars, jobVars, pageVars, PagesComposed,
        AssetBased, Nothing, Composed, Baseline
  <2>5. ExportDirty'
    BY <1>13 DEF Run, Discard, draftVars, jobVars, pageVars, ExportDirty,
        QueuedClean, Nothing, Known
  <2>6. (JobPast /\ QueuedClean /\ RenderingCurrent)'
    BY <1>13 DEF Run, Discard, draftVars, jobVars, pageVars, JobPast, QueuedClean,
        RenderingCurrent, Nothing
  <2>. QED
    BY <2>1, <2>2, <2>3, <2>4, <2>5, <2>6
<1>14. CASE UNCHANGED vars
  BY <1>14
  DEF vars, draftVars, jobVars, pageVars, buildVars, TypeOK, JobPast, QueuedClean,
      RenderingCurrent, AssetBased, FrozenHome, PagesComposed, Composed, Baseline,
      ExportDirty, Known
<1>15. ASSUME \E r \in Rev :
                 \/ \E b \in Block : Submit("block", r, {b})
                 \/ \E B \in SUBSET Block \ {{}} : Submit("blocks", r, B)
                 \/ Submit("export", r, {})
        PROVE  IInv'
  <2>1. {"block", "blocks", "export"} \subseteq Scope
    BY DEF Scope
  <2>2. PICK r \in Rev, scope \in Scope, B \in SUBSET Block : Submit(scope, r, B)
    BY <1>15, <2>1
  <2>. QED
    BY <2>2, <1>3
<1>. QED
  BY <1>1, <1>2, <1>3, <1>4, <1>5, <1>6, <1>7, <1>8, <1>9,
     <1>10, <1>11, <1>12, <1>13, <1>14, <1>15 DEF Next

\* The invariant holds in every reachable state.
LEMMA SpecInv == Spec => []IInv
BY StartsInv, StepInv, PTL DEF Spec

-----------------------------------------------------------------------------
(* The properties *)

\* The variables keep to their types for any document.
THEOREM TypeCorrect == Spec => []TypeOK
<1>1. IInv => TypeOK
  BY DEF IInv
<1>. QED
  BY <1>1, SpecInv, PTL

\* A page asset (compose_page_asset) is what its patches make of it, wherever stamps
\* are floated to and back, but for the pages that are due or were left behind.
THEOREM PagesTrue == Spec => []PagesComposed
<1>1. IInv => PagesComposed
  BY DEF IInv
<1>. QED
  BY <1>1, SpecInv, PTL

\* compile_block_patch never stores a text the draft does not have at that moment.
THEOREM PatchesTrue == Spec => PatchFromDraft
<1>1. ASSUME IInv, [Next]_vars, NEW b \in Block, patch'[b] \notin {patch[b], NoText}
      PROVE  patch'[b] = text[b]
  <2>. USE DEF IInv
  <2>1. CASE \E c \in Block, p \in Page : CommitPatch(c, p)
    <3>1. PICK c \in Block, p \in Page : CommitPatch(c, p)
      BY <2>1
    <3>2. patch' = [patch EXCEPT ![c] = rendering[c]] /\ job.rev = rev
      BY <3>1 DEF CommitPatch, PatchWith
    <3>3. b = c
      BY <1>1, <3>2 DEF TypeOK
    <3>. QED
      BY <1>1, <3>2, <3>3 DEF RenderingCurrent, TypeOK
  <2>2. CASE ~\E c \in Block, p \in Page : CommitPatch(c, p)
    <3>1. patch' = patch \/ patch' = Nothing
      BY <1>1, <2>2
      DEF Next, vars, draftVars, jobVars, pageVars, buildVars, Edit, DeleteDraft, Submit,
          Begin, Cancel, Read, Skip, Compose, Publish, End, FullCompiled, Run, Discard
    <3>. QED
      BY <1>1, <3>1 DEF Nothing
  <2>. QED
    BY <2>1, <2>2
<1>2. IInv /\ [Next]_vars
        => [\A b \in Block : patch'[b] \notin {patch[b], NoText} => patch'[b] = text[b]]_vars
  BY <1>1
<1>. QED
  BY <1>2, SpecInv, PTL DEF Spec, PatchFromDraft

-----------------------------------------------------------------------------
(* Exports *)

\* When nothing is left behind, the pages an export assembles show a block whose
\* patch has the text of the draft once, where its stamp landed.
LEMMA AssembledShows ==
    ASSUME IInv, pages = {}, stranded = {}, NEW b \in Block, patch[b] = text[b]
    PROVE  Shows(Assembled, b) = {<<land[b], text[b]>>}
<1>. USE DEF IInv
<1>1. text[b] # NoText /\ land[b] \in Page
  BY ConstantsAssumption DEF TypeOK, Rev
<1>2. ASSUME NEW p \in Page
      PROVE  Assembled[p][b] = IF land[b] = p THEN text[b] ELSE NoText
  <2>1. CASE asset[p] = NoPage
    BY <1>1, <2>1 DEF PagesComposed, Assembled
  <2>2. CASE asset[p] # NoPage
    BY <1>1, <2>2 DEF PagesComposed, Composed, Assembled
  <2>. QED
    BY <2>1, <2>2
<1>3. {q \in Page : Assembled[q][b] # NoText} = {land[b]}
  BY <1>1, <1>2
<1>. QED
  BY <1>1, <1>2, <1>3 DEF Shows

\* An export carries the revision it shows, and shows the draft of every block it knows
\* of, for any document, any edits
\* before it and any way stamps were floated.
THEOREM ExportsTrue == Spec => ExportShowsDraft
<1>1. ASSUME IInv, [Next]_vars, exported.status # "ok", exported'.status = "ok", stranded = {}
      PROVE  exported'.rev = rev /\ DraftShown(exported'.shows, Known \cap eligible)
  <2>. USE DEF IInv
  <2>1. CASE Publish
    <3>1. /\ exported'.shows = Assembled /\ exported'.rev = job.rev
          /\ pages = {} /\ todo = {} /\ job.rev = rev
          /\ job.scope = "export" /\ job.phase = "running"
      BY <2>1 DEF Publish
    <3>2. ASSUME NEW b \in Known \cap eligible
          PROVE  Shows(Assembled, b) = {<<land[b], text[b]>>}
      <4>1. b \in Block /\ patch[b] = text[b]
        BY <1>1, <3>1 DEF ExportDirty, Known
      <4>. QED
        BY <1>1, <3>1, <4>1, AssembledShows
    <3>. QED
      BY <3>1, <3>2 DEF DraftShown
  <2>2. CASE ~Publish
    <3>1. exported'.status \in {exported.status, "none", "previous"}
      BY <1>1, <2>2
      DEF Next, vars, draftVars, jobVars, pageVars, buildVars, Edit, DeleteDraft, Submit,
          Begin, Cancel, Read, Skip, CommitPatch, PatchWith, Compose, End, FullCompiled,
          Run,
          TypeOK
    <3>. QED
      BY <1>1, <3>1
  <2>. QED
    BY <2>1, <2>2
<1>2. IInv /\ [Next]_vars
        => [exported.status # "ok" /\ exported'.status = "ok" /\ stranded = {}
              => exported'.rev = rev /\ DraftShown(exported'.shows, Known \cap eligible)]_vars
  BY <1>1
<1>. QED
  BY <1>2, SpecInv, PTL DEF Spec, ExportShowsDraft

=============================================================================
