---------------------------- MODULE RunPipeline ----------------------------
(***************************************************************************)
(* bdt run: the stages of one workdir, run in order by run_pipeline, and   *)
(* what agent/run_state.json keeps of them so that a later call can resume *)
(* with --from. Files are contents; a hash is the content itself. Files    *)
(* are edited between the runs and during them (bdt translate --ids, bdt   *)
(* layout-set, an editor). A stage can fail, with or without having        *)
(* written its artifact, and the process can die at any point.             *)
(***************************************************************************)
EXTENDS Naturals, Sequences, FiniteSets

CONSTANTS
    Contents,      \* what a file can hold
    Missing,       \* the file does not exist; also None of a record
    Editable,      \* bound: files that are edited by hand or by the other tools
    MaxFixRounds,  \* MAX_FIX_ROUNDS, the same for both kinds
    MaxRuns,       \* bound: calls of bdt run
    MaxEdits,      \* bound: edits of files
    MaxFaults      \* bound: failed stages and dead processes

ASSUME ConstantsAssumption ==
    /\ Missing \notin Contents \cup {"pass", "needs_fix"}
    /\ MaxFixRounds \in Nat
    /\ MaxRuns \in Nat
    /\ MaxEdits \in Nat
    /\ MaxFaults \in Nat

VARIABLES
    file,          \* input files of the stages -> content
    ir,            \* state.pkl: the translation applied to the IR, Missing when fresh
    applied,       \* apply_report.json exists
    output,        \* the PDF: the translation and the overrides it was built from
    verdict,       \* review_verdict.json: result of the last check that was executed
    recorded,      \* run_state.json, stages: inputs recorded for a stage
    check,         \* run_state.json, quality.check: verdict
    rounds,        \* run_state.json, quality.fix_rounds
    run,           \* the call in progress
    answer,        \* how the last call ended
    edited,        \* history: a file was edited during the call
    untrusted,     \* history: stages whose record does not tell what their artifact holds
    demands,       \* history: kind -> reviews that asked for a fix of that kind
    lost,          \* history: reviews whose round was never recorded
    runs, edits, faults

artifacts == <<ir, applied, output, verdict>>
state == <<recorded, check, rounds>>
histories == <<edited, untrusted, demands, lost>>
vars == <<file, artifacts, state, run, answer, histories, runs, edits, faults>>

\* the record of report is never read, and left out
STAGES == <<"parse", "translate", "apply", "build", "check", "review", "report">>
Stages == {STAGES[i] : i \in 1..7}
Files == {"pdf", "document", "translated", "overrides", "markdown"}
Kinds == {"retranslate", "layout"}
Answers == {"none", "ok", "prompt_only", "stale_upstream", "missing_artifact", "failed", "dead",
            "waiting_for_reviewer", "needs_human_review", "check_needs_fix",
            "reviewer_needs_fix"}
Verdicts == {"pass", "needs_fix"}

\* BUG: the overrides are no input of the later stages.
StageInputs_NoOverrides(s) ==
    CASE s = "parse" -> {"pdf"}
      [] s = "translate" -> {"document", "markdown"}
      [] s = "apply" -> {"document", "translated"}
      [] OTHER -> {"translated"}

StageInputs(s) ==
    CASE s = "parse" -> {"pdf"}
      [] s = "translate" -> {"document", "markdown"}
      [] s = "apply" -> {"document", "translated"}
      [] OTHER -> {"translated", "overrides"}

NoInputs == [f \in Files |-> Missing]
NoOutput == [translated |-> Missing, overrides |-> Missing, exists |-> FALSE]

\* at: index in STAGES, 0 without a call, 8 after the last stage
\* phase: "begin", "ran" (the stage returned), "saved" (check: quality is not saved yet)
\* given: arguments that name a file; they are of no use after translate
NoRun == [at |-> 0, phase |-> "begin", given |-> {},
          check |-> Missing, review |-> Missing, kinds |-> {}, raced |-> FALSE]

Init ==
    /\ file \in [Files -> Contents \cup {Missing}]
    /\ \A f \in Files : (file[f] = Missing) = (f \in {"document", "translated", "overrides"})
    /\ file["pdf"] = file["markdown"]
    /\ ir = Missing
    /\ applied = FALSE
    /\ output = NoOutput
    /\ verdict = Missing
    /\ recorded = [s \in Stages \ {"report"} |-> [ok |-> FALSE, inputs |-> NoInputs]]
    /\ check = Missing
    /\ rounds = [k \in Kinds |-> 0]
    /\ run = NoRun
    /\ answer = "none"
    /\ edited = FALSE
    /\ untrusted = {}
    /\ demands = [k \in Kinds |-> 0]
    /\ lost = 0
    /\ runs = 0 /\ edits = 0 /\ faults = 0

-----------------------------------------------------------------------------
(* The stale check *)

\* _current_input_hashes: the PDF and --markdown are only hashed when they are given
Hashed(given) == (Files \ {"pdf", "markdown"}) \cup given

\* find_stale_stage: a skipped stage with a record that differs from the files
StaleStage(i, given) ==
    /\ recorded[STAGES[i]].ok
    /\ \E f \in StageInputs(STAGES[i]) \cap Hashed(given) :
          recorded[STAGES[i]].inputs[f] # file[f]

FindStale(upto, given) == \E i \in 1..(upto - 1) : StaleStage(i, given)

-----------------------------------------------------------------------------
(* A call: refused, or started *)

Call ==
    /\ run.at = 0
    /\ runs < MaxRuns
    /\ runs' = runs + 1
    /\ UNCHANGED <<file, artifacts, state, histories, edits, faults>>

Refuse ==
    /\ Call
    /\ \E from \in 1..7, given \in SUBSET {"pdf", "markdown"} : FindStale(from, given)
    /\ answer' = "stale_upstream"
    /\ UNCHANGED run

Start(from, given) ==
    /\ Call
    /\ ~FindStale(from, given)
    /\ run' = [NoRun EXCEPT !.at = from, !.given = IF from <= 2 THEN given ELSE {}]
    /\ answer' = "none"

-----------------------------------------------------------------------------
(* The stages *)

Stage == STAGES[run.at]
At(s, phase) == run.at \in 1..7 /\ Stage = s /\ run.phase = phase

End(code) ==
    /\ run' = NoRun
    /\ answer' = code
    /\ edited' = FALSE

\* _preflight: the artifact the stage needs
Ready(s) ==
    CASE s = "parse" -> "pdf" \in run.given /\ file["pdf"] # Missing
      [] s = "translate" -> file["document"] # Missing
      [] s = "apply" -> file["translated"] # Missing
      [] s = "build" -> applied
      [] s = "check" -> output.exists
      [] s = "review" -> verdict # Missing
      [] OTHER -> TRUE

Preflight ==
    /\ run.at \in 1..7 /\ run.phase = "begin"
    /\ ~Ready(Stage)
    /\ End("missing_artifact")
    /\ UNCHANGED <<file, artifacts, state, untrusted, demands, lost, runs, edits, faults>>

\* effects of a stage: the file it writes (\E c), its artifact
Write(f) ==
    \E c \in Contents : file' = [file EXCEPT ![f] = c]

Parse ==
    /\ Write("document")
    /\ ir' = Missing
    /\ untrusted' = untrusted \cup {"apply"}
    /\ UNCHANGED <<applied, output, verdict, demands>>

\* an import or a translator
Translate ==
    /\ \/ "markdown" \in run.given /\ file' = [file EXCEPT !["translated"] = file["markdown"]]
       \/ "markdown" \notin run.given /\ Write("translated")
    /\ UNCHANGED <<artifacts, untrusted, demands>>

Apply ==
    /\ ir' = file["translated"]
    /\ applied' = TRUE
    /\ UNCHANGED <<file, output, verdict, untrusted, demands>>

Build ==
    /\ output' = [translated |-> ir, overrides |-> file["overrides"], exists |-> TRUE]
    /\ UNCHANGED <<file, ir, applied, verdict, untrusted, demands>>

Check ==
    /\ verdict' \in Verdicts
    /\ UNCHANGED <<file, ir, applied, output, untrusted, demands>>

RunStage(s) ==
    /\ At(s, "begin") /\ Ready(s)
    /\ s # "review"
    /\ \/ s = "parse" /\ Parse
       \/ s = "translate" /\ Translate
       \/ s = "apply" /\ Apply
       \/ s = "build" /\ Build
       \/ s = "check" /\ Check
       \/ s = "report" /\ UNCHANGED <<file, artifacts, untrusted, demands>>
    /\ run' = [run EXCEPT !.phase = "ran",
                          !.raced = s = "build" /\ (edited \/ "apply" \in untrusted),
                          !.check = IF s = "check" THEN verdict' ELSE @]
    /\ UNCHANGED <<state, answer, edited, lost, runs, edits, faults>>

-----------------------------------------------------------------------------
(* The review stage *)

AtReview == At("review", "begin") /\ Ready("review")

Inputs(s) == [f \in Files |-> IF f \in StageInputs(s) \cap Hashed(run.given)
                              THEN file[f] ELSE Missing]

Recorded(s, inputs) == [recorded EXCEPT ![s] = [ok |-> TRUE, inputs |-> inputs]]

NextStage(s) == [run EXCEPT !.at = @ + 1, !.phase = "begin", !.raced = FALSE,
                            !.given = IF s = "translate" THEN {} ELSE @]

\* --skip-ai-review: recorded without inputs
SkipReview ==
    /\ At("review", "begin")
    /\ recorded' = Recorded("review", NoInputs)
    /\ run' = NextStage("review")
    /\ UNCHANGED <<file, artifacts, check, rounds, answer, histories, runs, edits, faults>>

\* no reviewer: recorded as waiting (ok is TRUE all the same), the call fails
WaitForReviewer ==
    /\ AtReview
    /\ recorded' = Recorded("review", Inputs("review"))
    /\ End("waiting_for_reviewer")
    /\ UNCHANGED <<file, artifacts, check, rounds, untrusted, demands, lost, runs, edits, faults>>

RoundsExhausted == \E k \in Kinds : rounds[k] >= MaxFixRounds

NeedsHumanReview ==
    /\ AtReview
    /\ RoundsExhausted
    /\ End("needs_human_review")
    /\ UNCHANGED <<file, artifacts, state, untrusted, demands, lost, runs, edits, faults>>

\* the reviewer answers: kinds are those of the findings it does not accept
Review ==
    /\ AtReview
    /\ ~RoundsExhausted
    /\ \E v \in Verdicts, kinds \in SUBSET Kinds :
          /\ v = "pass" => kinds = {}
          /\ run' = [run EXCEPT !.phase = "ran", !.review = v, !.kinds = kinds]
          /\ demands' = [k \in Kinds |-> IF k \in kinds THEN demands[k] + 1 ELSE demands[k]]
    /\ UNCHANGED <<file, artifacts, state, answer, edited, untrusted, lost, runs, edits, faults>>

-----------------------------------------------------------------------------
(* The record of a stage, taken from the files as they are after it *)

Record(s) ==
    /\ At(s, "ran")
    /\ recorded' = IF s = "report" THEN recorded ELSE Recorded(s, Inputs(s))
    /\ untrusted' = IF run.raced THEN untrusted \cup {s} ELSE untrusted \ {s}
    /\ run' = IF s = "check" THEN [run EXCEPT !.phase = "saved"] ELSE NextStage(s)
    /\ UNCHANGED <<file, artifacts, check, rounds, answer, edited, demands, lost, runs, edits,
                   faults>>

\* --prompt-only: translate writes no translation and is recorded as done; the call ends
PromptOnly ==
    /\ At("translate", "begin") /\ Ready("translate")
    /\ "markdown" \notin run.given
    /\ recorded' = Recorded("translate", Inputs("translate"))
    /\ End("prompt_only")
    /\ UNCHANGED <<file, artifacts, check, rounds, untrusted, demands, lost, runs, edits, faults>>

\* the second save: quality.check
RecordCheck ==
    /\ At("check", "saved")
    /\ check' = run.check
    /\ run' = NextStage("check")
    /\ UNCHANGED <<file, artifacts, recorded, rounds, answer, histories, runs, edits, faults>>

-----------------------------------------------------------------------------
(* The end of a call *)

\* BUG: only a check executed by this call counts.
CheckVerdict_Own == run.check

\* the verdict of a check that this call did not execute is the recorded one
CheckVerdict == IF run.check # Missing THEN run.check ELSE check

\* BUG: a round is counted only after a check that passed.
RecordFixRound_IfChecked ==
    [k \in Kinds |-> IF CheckVerdict = "pass" /\ run.review = "needs_fix" /\ k \in run.kinds
                     THEN rounds[k] + 1 ELSE rounds[k]]

RecordFixRound ==
    [k \in Kinds |-> IF run.review = "needs_fix" /\ k \in run.kinds
                     THEN rounds[k] + 1 ELSE rounds[k]]

Finish ==
    /\ run.at = 8
    /\ End(IF CheckVerdict = "needs_fix" THEN "check_needs_fix"
           ELSE IF run.review = "needs_fix" THEN "reviewer_needs_fix" ELSE "ok")
    /\ rounds' = RecordFixRound
    /\ UNCHANGED <<file, artifacts, recorded, check, untrusted, demands, lost, runs, edits, faults>>

\* the stage is executed: no early end before it
Runs == Ready(Stage) /\ (Stage = "review" => ~RoundsExhausted)

\* a stage returns an error, before or after it wrote; or the process dies
Stop(code) ==
    /\ run.at # 0
    /\ faults < MaxFaults
    /\ faults' = faults + 1
    /\ code = "failed" => run.at # 8 /\ run.phase # "saved" /\ (run.phase = "begin" => Runs)
    /\ End(code)
    /\ untrusted' = IF run.phase = "begin" THEN untrusted ELSE untrusted \cup {Stage}
    /\ lost' = IF run.kinds # {} THEN lost + 1 ELSE lost
    /\ UNCHANGED <<file, artifacts, state, demands, runs, edits>>

\* an edit of an input file, also while a stage runs
Edit(f) ==
    /\ edits < MaxEdits
    /\ edits' = edits + 1
    /\ f = "overrides" \/ file[f] # Missing
    /\ f \in Editable
    /\ \E c \in Contents : c # file[f] /\ file' = [file EXCEPT ![f] = c]
    /\ edited' = (run.at # 0)
    /\ run' = [run EXCEPT !.raced = @ \/ (run.phase = "ran" /\ f \in StageInputs(Stage))]
    /\ UNCHANGED <<artifacts, state, answer, untrusted, demands, lost, runs, faults>>

-----------------------------------------------------------------------------

Next ==
    \/ Refuse
    \/ \E from \in 1..7, given \in SUBSET {"pdf", "markdown"} : Start(from, given)
    \/ Preflight
    \/ \E s \in Stages : RunStage(s) \/ Record(s)
    \/ PromptOnly \/ SkipReview \/ WaitForReviewer \/ NeedsHumanReview \/ Review \/ RecordCheck \/ Finish
    \/ \E code \in {"failed", "dead"} : Stop(code)
    \/ \E f \in Files : Edit(f)

Spec == Init /\ [][Next]_vars

-----------------------------------------------------------------------------
(* Properties *)

Calls == [at : 0..8, phase : {"begin", "ran", "saved"}, given : SUBSET {"pdf", "markdown"},
          check : Verdicts \cup {Missing}, review : Verdicts \cup {Missing},
          kinds : SUBSET Kinds, raced : BOOLEAN]

FilesOK ==
    /\ file \in [Files -> Contents \cup {Missing}]
    /\ ir \in Contents \cup {Missing}
    /\ applied \in BOOLEAN
    /\ output \in [translated : Contents \cup {Missing}, overrides : Contents \cup {Missing},
                   exists : BOOLEAN]
    /\ verdict \in Verdicts \cup {Missing}

StateOK ==
    /\ recorded \in [Stages \ {"report"} -> [ok : BOOLEAN, inputs : [Files -> Contents \cup {Missing}]]]
    /\ check \in Verdicts \cup {Missing}
    /\ rounds \in [Kinds -> 0..MaxFixRounds]

HistoryOK ==
    /\ edited \in BOOLEAN
    /\ untrusted \subseteq Stages
    /\ demands \in [Kinds -> Nat]
    /\ lost \in Nat
    /\ runs \in Nat /\ edits \in Nat /\ faults \in Nat

\* Every variable has its type, and no kind of fix has more rounds recorded than its limit.
TypeOK ==
    /\ FilesOK
    /\ StateOK
    /\ run \in Calls
    /\ answer \in Answers
    /\ HistoryOK

Succeeds == run.at # 0 /\ run'.at = 0 /\ answer' = "ok"

\* What a successful run delivers is up to date: with no edit during the run, the PDF was
\* built from the translation and the overrides that are on disk, whichever stages were
\* skipped and whatever earlier runs failed. The stale check has to see to it. (A record
\* is no proof if the file changed while the stage ran: the hash is taken afterwards.)
OkIsCurrent ==
    [][Succeeds /\ recorded["build"].ok /\ ~edited /\ "build" \notin untrusted
        => /\ output.translated = file["translated"]
           /\ output.overrides = file["overrides"]]_vars

\* A run that skips check cannot pass over its verdict: once a check was recorded, a run
\* succeeds only if the last check that was executed passed.
OkIsChecked ==
    [][Succeeds /\ recorded["check"].ok /\ "check" \notin untrusted => verdict = "pass"]_vars

\* A reviewer is asked again only while rounds are left: the reviews of a workdir that
\* demanded a fix of one kind are never more than the limit, over all runs, except those
\* whose round was lost because the run ended before it was recorded.
DemandsBounded == \A k \in Kinds : demands[k] <= MaxFixRounds + lost
=============================================================================
