------------------------- MODULE RunPipelineProofs -------------------------
(* Theorems about RunPipeline, for every set of contents and every bound. *)
EXTENDS RunPipeline, TLAPS

ReviewInv == \A k \in Kinds : k \in run.kinds => rounds[k] < MaxFixRounds /\ run.review = "needs_fix"

PhaseInv ==
    /\ run.at \in {0, 8} => run.phase = "begin"
    /\ run.phase = "saved" => run.at = 5
    /\ run.kinds # {} => run.at \in 6..8 /\ (run.at = 6 => run.phase = "ran")

TypeInv == TypeOK /\ ReviewInv /\ PhaseInv

\* The stages by their index.
LEMMA StageNames ==
    /\ Stages = {"parse", "translate", "apply", "build", "check", "review", "report"}
    /\ \A i \in 1..7 : STAGES[i] \in Stages
    /\ STAGES[1] = "parse" /\ STAGES[2] = "translate" /\ STAGES[3] = "apply"
    /\ STAGES[4] = "build" /\ STAGES[5] = "check" /\ STAGES[6] = "review"
    /\ STAGES[7] = "report"
<1>1. STAGES[1] = "parse" /\ STAGES[2] = "translate" /\ STAGES[3] = "apply"
    /\ STAGES[4] = "build" /\ STAGES[5] = "check" /\ STAGES[6] = "review"
    /\ STAGES[7] = "report"
    BY DEF STAGES
<1>2. 1..7 = {1, 2, 3, 4, 5, 6, 7}
    OBVIOUS
<1>3. QED
    BY <1>1, <1>2 DEF Stages

\* run.at and the name of the stage determine each other.
LEMMA StageIndex ==
    ASSUME run.at \in 1..7
    PROVE  /\ Stage \in Stages
           /\ (Stage = "translate") = (run.at = 2)
           /\ (Stage = "apply") = (run.at = 3)
           /\ (Stage = "build") = (run.at = 4)
           /\ (Stage = "check") = (run.at = 5)
           /\ (Stage = "review") = (run.at = 6)
           /\ (Stage = "parse") = (run.at = 1)
           /\ (Stage = "report") = (run.at = 7)
<1>1. run.at \in {1, 2, 3, 4, 5, 6, 7}
    OBVIOUS
<1>2. QED
    BY <1>1, StageNames DEF Stage


LEMMA InputsType ==
    ASSUME FilesOK, NEW s
    PROVE  Inputs(s) \in [Files -> Contents \cup {Missing}]
BY DEF FilesOK, Inputs

\* The call in progress goes on to its next stage.
LEMMA NextStageType ==
    ASSUME run \in Calls, run.at \in 1..7, NEW s
    PROVE  /\ NextStage(s) \in Calls
           /\ NextStage(s).at = run.at + 1
           /\ NextStage(s).phase = "begin"
           /\ NextStage(s).check = run.check
           /\ NextStage(s).review = run.review
           /\ NextStage(s).kinds = run.kinds
<1> DEFINE g == IF s = "translate" THEN {} ELSE run.given
<1>1. g \in SUBSET {"pdf", "markdown"} /\ run.at + 1 \in 0..8
    BY DEF Calls
<1> HIDE DEF g
<1>2. NextStage(s) = [run EXCEPT !.at = run.at + 1, !.phase = "begin", !.raced = FALSE, !.given = g]
    BY DEF NextStage, g
<1>3. QED
    BY <1>1, <1>2 DEF Calls

LEMMA TypeInit == Init => TypeInv
<1> SUFFICES ASSUME Init PROVE TypeInv
    OBVIOUS
<1> USE ConstantsAssumption DEF Init
<1>1. FilesOK
    BY DEF FilesOK, NoOutput
<1>2. StateOK
    BY DEF StateOK, NoInputs
<1>3. run \in Calls /\ answer \in Answers /\ PhaseInv /\ ReviewInv
    BY DEF NoRun, Calls, Answers, PhaseInv, ReviewInv
<1>4. HistoryOK
    BY DEF HistoryOK
<1>5. QED
    BY <1>1, <1>2, <1>3, <1>4 DEF TypeInv, TypeOK

\* A step keeps the types of the files and the artifacts.
LEMMA FilesNext == FilesOK /\ [Next]_vars => FilesOK'
<1> SUFFICES ASSUME FilesOK, [Next]_vars PROVE FilesOK'
    OBVIOUS
<1> USE DEF FilesOK
<1>1. ASSUME NEW s \in Stages, RunStage(s) PROVE FilesOK'
    <2>1. CASE Parse
        BY <2>1 DEF Parse, Write
    <2>2. CASE Translate
        BY <2>2 DEF Translate, Write, Files, artifacts
    <2>3. CASE Apply
        BY <2>3 DEF Apply, Files
    <2>4. CASE Build
        BY <2>4 DEF Build, Files
    <2>5. CASE Check
        BY <2>5 DEF Check, Verdicts
    <2>6. CASE UNCHANGED <<file, artifacts>>
        BY <2>6 DEF artifacts
    <2>7. QED
        BY <1>1, <2>1, <2>2, <2>3, <2>4, <2>5, <2>6 DEF RunStage
<1>2. ASSUME NEW f \in Files, Edit(f) PROVE FilesOK'
    BY <1>2 DEF Edit, artifacts
<1>3. CASE UNCHANGED <<file, artifacts>>
    BY <1>3 DEF artifacts
<1>4. QED
    BY <1>1, <1>2, <1>3
       DEF Next, Refuse, Start, Call, Preflight, Record, PromptOnly, SkipReview,
           WaitForReviewer, NeedsHumanReview, Review, RecordCheck, Finish, Stop, vars

\* A step keeps the types of run_state.json.
LEMMA StateNext == TypeInv /\ [Next]_vars => StateOK'
<1> SUFFICES ASSUME TypeInv, [Next]_vars PROVE StateOK'
    OBVIOUS
<1> USE ConstantsAssumption DEF TypeInv, TypeOK, StateOK
<1>1. ASSUME NEW s, NEW inputs \in [Files -> Contents \cup {Missing}]
      PROVE  Recorded(s, inputs)
                \in [Stages \ {"report"} -> [ok : BOOLEAN, inputs : [Files -> Contents \cup {Missing}]]]
    BY DEF Recorded
<1>2. ASSUME NEW s \in Stages, Record(s) PROVE StateOK'
    BY <1>1, <1>2, InputsType DEF Record
<1>3. ASSUME PromptOnly PROVE StateOK'
    BY <1>1, <1>3, InputsType DEF PromptOnly
<1>4. ASSUME SkipReview PROVE StateOK'
    <2>1. NoInputs \in [Files -> Contents \cup {Missing}]
        BY DEF NoInputs
    <2>2. QED
        BY <1>1, <1>4, <2>1 DEF SkipReview
<1>5. ASSUME WaitForReviewer PROVE StateOK'
    BY <1>1, <1>5, InputsType DEF WaitForReviewer
<1>6. ASSUME RecordCheck PROVE StateOK'
    BY <1>6 DEF RecordCheck, Calls
<1>7. ASSUME Finish PROVE StateOK'
    BY <1>7 DEF Finish, RecordFixRound, ReviewInv
<1>8. CASE UNCHANGED state
    BY <1>8 DEF state
<1>9. QED
    BY <1>2, <1>3, <1>4, <1>5, <1>6, <1>7, <1>8
       DEF Next, Refuse, Start, Call, Preflight, RunStage, NeedsHumanReview, Review, Stop, Edit,
           vars, state

\* A step keeps the type of the call in progress and of its answer.
LEMMA RunNext ==
    TypeInv /\ [Next]_vars => run' \in Calls /\ answer' \in Answers /\ PhaseInv'
<1> SUFFICES ASSUME TypeInv, [Next]_vars
             PROVE  run' \in Calls /\ answer' \in Answers /\ PhaseInv'
    OBVIOUS
<1> USE DEF TypeInv, TypeOK, PhaseInv
<1>0. NoRun \in Calls /\ NoRun.at = 0 /\ NoRun.phase = "begin" /\ NoRun.kinds = {}
    BY DEF NoRun, Calls
<1>1. ASSUME NEW code \in Answers, End(code)
      PROVE  run' \in Calls /\ answer' \in Answers /\ PhaseInv'
    BY <1>0, <1>1 DEF End
<1>2. ASSUME Refuse PROVE run' \in Calls /\ answer' \in Answers /\ PhaseInv'
    BY <1>2 DEF Refuse, Answers
<1>3. ASSUME NEW from \in 1..7, NEW given \in SUBSET {"pdf", "markdown"}, Start(from, given)
      PROVE  run' \in Calls /\ answer' \in Answers /\ PhaseInv'
    <2> DEFINE g == IF from <= 2 THEN given ELSE {}
    <2>1. g \in SUBSET {"pdf", "markdown"}
        OBVIOUS
    <2> HIDE DEF g
    <2>2. run' = [NoRun EXCEPT !.at = from, !.given = g] /\ answer' = "none"
        BY <1>3 DEF Start, g
    <2>3. run' = [at |-> from, phase |-> "begin", given |-> g, check |-> Missing,
                  review |-> Missing, kinds |-> {}, raced |-> FALSE]
        BY <2>2 DEF NoRun
    <2>4. from \in 0..8
        OBVIOUS
    <2>5. run' \in Calls /\ run'.at = from /\ run'.phase = "begin" /\ run'.kinds = {}
        BY <2>1, <2>3, <2>4 DEF Calls
    <2>6. QED
        BY <2>2, <2>5 DEF Answers
<1>4. ASSUME Preflight PROVE run' \in Calls /\ answer' \in Answers /\ PhaseInv'
    BY <1>1, <1>4 DEF Preflight, Answers
<1>5. ASSUME NEW s \in Stages, RunStage(s)
      PROVE  run' \in Calls /\ answer' \in Answers /\ PhaseInv'
    <2>1. s = "check" => verdict' \in Verdicts
        BY <1>5, StageNames DEF RunStage, Check
    <2>2. run' \in Calls /\ run'.at = run.at /\ run'.phase = "ran" /\ run.at \in 1..7
        BY <1>5, <2>1 DEF RunStage, At, Calls
    <2>3. run'.kinds = run.kinds /\ answer' = answer /\ (run.at = 6 => run.kinds = {})
        BY <1>5 DEF RunStage, At, Calls
    <2>4. QED
        BY <2>2, <2>3, StageIndex
<1>6. ASSUME NEW s \in Stages, Record(s)
      PROVE  run' \in Calls /\ answer' \in Answers /\ PhaseInv'
    <2>1. CASE s = "check"
        BY <1>6, <2>1, StageIndex DEF Record, At, Calls
    <2>2. CASE s # "check"
        BY <1>6, <2>2, NextStageType, StageIndex DEF Record, At
    <2>3. QED
        BY <2>1, <2>2
<1>7. ASSUME PromptOnly PROVE run' \in Calls /\ answer' \in Answers /\ PhaseInv'
    BY <1>1, <1>7 DEF PromptOnly, Answers
<1>8. ASSUME SkipReview PROVE run' \in Calls /\ answer' \in Answers /\ PhaseInv'
    BY <1>8, NextStageType, StageIndex DEF SkipReview, At
<1>9. ASSUME WaitForReviewer PROVE run' \in Calls /\ answer' \in Answers /\ PhaseInv'
    BY <1>1, <1>9 DEF WaitForReviewer, Answers
<1>10. ASSUME NeedsHumanReview PROVE run' \in Calls /\ answer' \in Answers /\ PhaseInv'
    BY <1>1, <1>10 DEF NeedsHumanReview, Answers
<1>11. ASSUME Review PROVE run' \in Calls /\ answer' \in Answers /\ PhaseInv'
    <2>1. run.at = 6 /\ answer' = answer
        BY <1>11, StageIndex DEF Review, AtReview, At
    <2>2. PICK v \in Verdicts, kinds \in SUBSET Kinds :
              run' = [run EXCEPT !.phase = "ran", !.review = v, !.kinds = kinds]
        BY <1>11 DEF Review
    <2>3. run' \in Calls /\ run'.at = run.at /\ run'.phase = "ran"
        BY <2>2 DEF Calls
    <2>4. QED
        BY <2>1, <2>3
<1>12. ASSUME RecordCheck PROVE run' \in Calls /\ answer' \in Answers /\ PhaseInv'
    BY <1>12, NextStageType, StageIndex DEF RecordCheck, At
<1>13. ASSUME Finish PROVE run' \in Calls /\ answer' \in Answers /\ PhaseInv'
    BY <1>1, <1>13 DEF Finish, Answers
<1>14. ASSUME NEW code \in {"failed", "dead"}, Stop(code)
       PROVE  run' \in Calls /\ answer' \in Answers /\ PhaseInv'
    BY <1>1, <1>14 DEF Stop, Answers
<1>15. ASSUME NEW f \in Files, Edit(f)
       PROVE  run' \in Calls /\ answer' \in Answers /\ PhaseInv'
    BY <1>15 DEF Edit, Calls
<1>16. CASE UNCHANGED vars
    BY <1>16 DEF vars
<1>17. QED
    BY <1>2, <1>3, <1>4, <1>5, <1>6, <1>7, <1>8, <1>9, <1>10, <1>11, <1>12, <1>13, <1>14,
       <1>15, <1>16
       DEF Next

\* A review is only asked for while rounds are left, and its demands wait for the end.
LEMMA ReviewNext == TypeInv /\ [Next]_vars => ReviewInv'
<1> SUFFICES ASSUME TypeInv, [Next]_vars PROVE ReviewInv'
    OBVIOUS
<1> USE DEF TypeInv, TypeOK, ReviewInv, StateOK
<1>1. ASSUME run' = NoRun PROVE ReviewInv'
    BY <1>1 DEF NoRun
<1>2. ASSUME run'.kinds = run.kinds, run'.review = run.review, rounds' = rounds PROVE ReviewInv'
    BY <1>2
<1>3. ASSUME NEW from \in 1..7, NEW given \in SUBSET {"pdf", "markdown"}, Start(from, given)
      PROVE  ReviewInv'
    BY <1>3 DEF Start, NoRun
<1>4. ASSUME NEW s \in Stages, RunStage(s) PROVE ReviewInv'
    BY <1>2, <1>4 DEF RunStage, state, Calls
<1>5. ASSUME NEW s \in Stages, Record(s) PROVE ReviewInv'
    BY <1>2, <1>5, NextStageType DEF Record, At, Calls
<1>6. ASSUME SkipReview PROVE ReviewInv'
    BY <1>2, <1>6, NextStageType DEF SkipReview, At
<1>7. ASSUME Review PROVE ReviewInv'
    BY <1>7, ConstantsAssumption DEF Review, RoundsExhausted, Calls, Verdicts, state
<1>8. ASSUME RecordCheck PROVE ReviewInv'
    BY <1>2, <1>8, NextStageType DEF RecordCheck, At
<1>9. ASSUME NEW f \in Files, Edit(f) PROVE ReviewInv'
    BY <1>2, <1>9 DEF Edit, Calls, state
<1>10. ASSUME Refuse \/ UNCHANGED vars PROVE ReviewInv'
    BY <1>10 DEF Refuse, Call, vars, state
<1>11. QED
    BY <1>1, <1>3, <1>4, <1>5, <1>6, <1>7, <1>8, <1>9, <1>10
       DEF Next, Preflight, PromptOnly, WaitForReviewer, NeedsHumanReview, Finish, Stop, End

\* A step keeps the types of the histories and the bounds.
LEMMA HistoryNext == TypeInv /\ [Next]_vars => HistoryOK'
<1> SUFFICES ASSUME TypeInv, [Next]_vars PROVE HistoryOK'
    OBVIOUS
<1> USE ConstantsAssumption DEF TypeInv, TypeOK, HistoryOK
<1>1. ASSUME Refuse PROVE HistoryOK'
    BY <1>1 DEF Refuse, Call, histories
<1>2. ASSUME NEW from \in 1..7, NEW given \in SUBSET {"pdf", "markdown"}, Start(from, given)
      PROVE  HistoryOK'
    BY <1>2 DEF Start, Call, histories
<1>3. ASSUME Preflight \/ PromptOnly \/ WaitForReviewer \/ NeedsHumanReview \/ Finish
      PROVE  HistoryOK'
    BY <1>3 DEF Preflight, PromptOnly, WaitForReviewer, NeedsHumanReview, Finish, End
<1>4. ASSUME NEW s \in Stages, RunStage(s) PROVE HistoryOK'
    <2>1. untrusted' \subseteq Stages /\ demands' = demands
        BY <1>4, StageNames DEF RunStage, Parse, Translate, Apply, Build, Check
    <2>2. QED
        BY <1>4, <2>1 DEF RunStage
<1>5. ASSUME NEW s \in Stages, Record(s) PROVE HistoryOK'
    BY <1>5 DEF Record
<1>6. ASSUME SkipReview \/ RecordCheck PROVE HistoryOK'
    BY <1>6 DEF SkipReview, RecordCheck, histories
<1>7. ASSUME Review PROVE HistoryOK'
    BY <1>7 DEF Review
<1>8. ASSUME NEW code \in {"failed", "dead"}, Stop(code) PROVE HistoryOK'
    <2>1. untrusted' \subseteq Stages
        <3>1. CASE run.phase = "begin"
            BY <1>8, <3>1 DEF Stop
        <3>2. CASE run.phase # "begin"
            <4>1. run.at \in 1..7
                BY <3>2 DEF PhaseInv, Calls
            <4>2. QED
                BY <1>8, <3>2, <4>1, StageIndex DEF Stop
        <3>3. QED
            BY <3>1, <3>2
    <2>2. lost' \in Nat /\ faults' \in Nat /\ edited' = FALSE
        BY <1>8 DEF Stop, End
    <2>3. demands' = demands /\ runs' = runs /\ edits' = edits
        BY <1>8 DEF Stop
    <2>4. QED
        BY <2>1, <2>2, <2>3
<1>9. ASSUME NEW f \in Files, Edit(f) PROVE HistoryOK'
    BY <1>9 DEF Edit
<1>10. CASE UNCHANGED vars
    BY <1>10 DEF vars, histories
<1>11. QED
    BY <1>1, <1>2, <1>3, <1>4, <1>5, <1>6, <1>7, <1>8, <1>9, <1>10 DEF Next

LEMMA TypeNext == TypeInv /\ [Next]_vars => TypeInv'
BY FilesNext, StateNext, RunNext, ReviewNext, HistoryNext DEF TypeInv, TypeOK

\* Type correctness: for any contents, limits and bounds.
THEOREM TypeCorrect == Spec => []TypeOK
<1>1. TypeInv => TypeOK
    BY DEF TypeInv
<1>2. QED
    BY TypeInit, TypeNext, <1>1, PTL DEF Spec

-----------------------------------------------------------------------------
(* The fix rounds.  What a review demanded is recorded, or in the hands of *)
(* the call in progress, or lost with it.                                  *)

Pending(k) == IF k \in run.kinds THEN 1 ELSE 0

RoundsInv == \A k \in Kinds : demands[k] <= rounds[k] + lost + Pending(k)

LEMMA RoundsInit == Init => RoundsInv
BY DEF Init, RoundsInv, Pending, NoRun

LEMMA RoundsNext == TypeInv /\ RoundsInv /\ [Next]_vars => RoundsInv'
<1> SUFFICES ASSUME TypeInv, RoundsInv, [Next]_vars PROVE RoundsInv'
    OBVIOUS
<1> USE DEF RoundsInv, Pending, TypeInv, TypeOK, StateOK, HistoryOK
<1>1. ASSUME run'.kinds = run.kinds \/ run.kinds = {},
             UNCHANGED <<rounds, demands, lost>>
      PROVE  RoundsInv'
    BY <1>1
<1>2. ASSUME NEW s \in Stages, RunStage(s) PROVE RoundsInv'
    <2>1. run'.kinds = run.kinds
        BY <1>2 DEF RunStage, Calls
    <2>2. demands' = demands
        BY <1>2, StageNames DEF RunStage, Parse, Translate, Apply, Build, Check
    <2>3. QED
        BY <1>1, <1>2, <2>1, <2>2 DEF RunStage, state
<1>3. ASSUME NEW s \in Stages, Record(s) PROVE RoundsInv'
    <2>1. run'.kinds = run.kinds
        BY <1>3, NextStageType DEF Record, At, Calls
    <2>2. QED
        BY <1>1, <1>3, <2>1 DEF Record
<1>4. ASSUME SkipReview \/ RecordCheck PROVE RoundsInv'
    <2>1. run'.kinds = run.kinds
        BY <1>4, NextStageType DEF SkipReview, RecordCheck, At
    <2>2. QED
        BY <1>1, <1>4, <2>1 DEF SkipReview, RecordCheck, histories
<1>5. ASSUME Review PROVE RoundsInv'
    <2>1. PICK v \in Verdicts, kinds \in SUBSET Kinds :
              /\ run' = [run EXCEPT !.phase = "ran", !.review = v, !.kinds = kinds]
              /\ demands' = [k \in Kinds |-> IF k \in kinds THEN demands[k] + 1 ELSE demands[k]]
        BY <1>5 DEF Review
    <2>2. run'.kinds = kinds /\ rounds' = rounds /\ lost' = lost
        BY <1>5, <2>1 DEF Review, state, Calls
    <2>3. run.kinds = {}
        BY <1>5, StageIndex DEF Review, AtReview, At, PhaseInv
    <2>4. QED
        BY <2>1, <2>2, <2>3
<1>6. ASSUME Finish PROVE RoundsInv'
    <2>1. \A k \in Kinds : rounds'[k] = rounds[k] + Pending(k)
        BY <1>6 DEF Finish, RecordFixRound, ReviewInv
    <2>2. run'.kinds = {} /\ demands' = demands /\ lost' = lost
        BY <1>6 DEF Finish, End, NoRun
    <2>3. QED
        BY <2>1, <2>2
<1>7. ASSUME NEW code \in {"failed", "dead"}, Stop(code) PROVE RoundsInv'
    <2>1. run'.kinds = {} /\ demands' = demands /\ rounds' = rounds
        BY <1>7 DEF Stop, End, NoRun, state
    <2>2. lost' \in Nat /\ lost' >= lost /\ (run.kinds # {} => lost' = lost + 1)
        BY <1>7 DEF Stop
    <2>3. QED
        BY <2>1, <2>2
<1>8. ASSUME Preflight \/ PromptOnly \/ WaitForReviewer \/ NeedsHumanReview PROVE RoundsInv'
    <2>1. run.kinds = {}
        BY <1>8, StageIndex
           DEF PhaseInv, Preflight, Ready, PromptOnly, WaitForReviewer, NeedsHumanReview, AtReview, At
    <2>2. QED
        BY <1>1, <1>8, <2>1
           DEF Preflight, PromptOnly, WaitForReviewer, NeedsHumanReview, state
<1>9. ASSUME NEW from \in 1..7, NEW given \in SUBSET {"pdf", "markdown"}, Start(from, given)
      PROVE  RoundsInv'
    <2>1. run.kinds = {}
        BY <1>9 DEF Start, Call, PhaseInv
    <2>2. QED
        BY <1>1, <1>9, <2>1 DEF Start, Call, state, histories
<1>10. ASSUME NEW f \in Files, Edit(f) PROVE RoundsInv'
    BY <1>1, <1>10 DEF Edit, Calls, state
<1>11. ASSUME Refuse \/ UNCHANGED vars PROVE RoundsInv'
    BY <1>1, <1>11 DEF Refuse, Call, vars, state, histories
<1>12. QED
    BY <1>2, <1>3, <1>4, <1>5, <1>6, <1>7, <1>8, <1>9, <1>10, <1>11 DEF Next

\* The demands on the reviewer are bounded over all runs of a workdir.
THEOREM RoundsHold == Spec => []DemandsBounded
<1>1. TypeInv /\ RoundsInv => DemandsBounded
    <2> SUFFICES ASSUME TypeInv, RoundsInv, NEW k \in Kinds
                 PROVE  demands[k] <= MaxFixRounds + lost
        BY DEF DemandsBounded
    <2>1. rounds[k] \in 0..MaxFixRounds /\ lost \in Nat /\ demands[k] \in Nat
        BY DEF TypeInv, TypeOK, StateOK, HistoryOK
    <2>2. rounds[k] + Pending(k) <= MaxFixRounds
        BY <2>1, ConstantsAssumption DEF TypeInv, ReviewInv, Pending
    <2>3. Pending(k) \in Nat
        BY DEF Pending
    <2>4. QED
        BY <2>1, <2>2, <2>3, ConstantsAssumption DEF RoundsInv
<1>2. QED
    BY TypeInit, TypeNext, RoundsInit, RoundsNext, <1>1, PTL DEF Spec

-----------------------------------------------------------------------------
(* The PDF.  A record that is trusted tells what its artifact was made of, *)
(* and while nothing is edited the records of the stages that a call has   *)
(* behind it agree with the files.                                         *)

Ran(i) == run.at = i /\ run.phase = "ran"

ApplyInv ==
    /\ recorded["apply"].ok /\ "apply" \notin untrusted /\ ~Ran(3)
         => ir = recorded["apply"].inputs["translated"]
    /\ applied => recorded["apply"].ok \/ "apply" \in untrusted \/ Ran(3)
    /\ Ran(3) /\ ~run.raced => ir = file["translated"]
    /\ run.at \in 4..8 /\ ~edited /\ recorded["apply"].ok
         => recorded["apply"].inputs["translated"] = file["translated"]

BuildInv ==
    /\ recorded["build"].ok /\ "build" \notin untrusted /\ ~Ran(4)
         => /\ output.translated = recorded["build"].inputs["translated"]
            /\ output.overrides = recorded["build"].inputs["overrides"]
    /\ Ran(4) /\ ~run.raced
         => output.translated = file["translated"] /\ output.overrides = file["overrides"]
    /\ run.at \in 5..8 /\ ~edited /\ recorded["build"].ok
         => /\ recorded["build"].inputs["translated"] = file["translated"]
            /\ recorded["build"].inputs["overrides"] = file["overrides"]

(* The check.  A trusted record of it goes with the verdict of the last    *)
(* check that was executed, in the state or still in the call's hands.     *)

Checking == run.at = 5 /\ run.phase \in {"ran", "saved"}

CheckInv ==
    /\ recorded["check"].ok /\ "check" \notin untrusted /\ ~Checking
         => check = verdict /\ verdict # Missing
    /\ Checking => run.check = verdict /\ verdict # Missing
    /\ run.at \in 6..8 /\ run.check # Missing => run.check = verdict
    /\ run.check # Missing => run.at \in 5..8

LEMMA InputsAre ==
    /\ Inputs("apply")["translated"] = file["translated"]
    /\ Inputs("build")["translated"] = file["translated"]
    /\ Inputs("build")["overrides"] = file["overrides"]
BY DEF Inputs, StageInputs, Hashed, Files

\* A record of one stage leaves the others alone.
LEMMA RecordedOther ==
    ASSUME StateOK, NEW s, NEW t \in Stages \ {"report"}, NEW inputs
    PROVE  /\ s # t => Recorded(s, inputs)[t] = recorded[t]
           /\ s = t => Recorded(s, inputs)[t].ok /\ Recorded(s, inputs)[t].inputs = inputs
BY DEF StateOK, Recorded

LEMMA InvsInit == Init => ApplyInv /\ BuildInv /\ CheckInv
BY StageNames DEF Init, ApplyInv, BuildInv, CheckInv, Ran, Checking, NoRun

LEMMA ApplyNext == TypeInv /\ ApplyInv /\ [Next]_vars => ApplyInv'
<1> SUFFICES ASSUME TypeInv, ApplyInv, [Next]_vars PROVE ApplyInv'
    OBVIOUS
<1> USE DEF ApplyInv, Ran
<1>a. StateOK /\ FilesOK /\ run \in Calls /\ PhaseInv
    BY DEF TypeInv, TypeOK
<1>b. "apply" \in Stages \ {"report"}
    BY StageNames
\* a step that ends the call, or does not move it to or from apply
<1>1. ASSUME run' = NoRun, ~Ran(3), UNCHANGED <<ir, applied>>,
             recorded'["apply"] = recorded["apply"],
             ("apply" \in untrusted') = ("apply" \in untrusted)
      PROVE  ApplyInv'
    BY <1>1 DEF NoRun
<1>2. ASSUME NEW s \in Stages, RunStage(s) PROVE ApplyInv'
    <2>1. /\ run'.at = run.at /\ run'.phase = "ran" /\ run.phase = "begin" /\ run.at \in 1..7
          /\ Stage = s
          /\ recorded' = recorded /\ edited' = edited
          /\ s # "build" => ~run'.raced
        BY <1>2, <1>a DEF RunStage, At, Calls, state
    <2>2. CASE s = "parse"
        <3>1. run.at = 1 /\ "apply" \in untrusted' /\ applied' = applied
            BY <1>2, <2>1, <2>2, StageIndex DEF RunStage, Parse
        <3>2. QED
            BY <2>1, <3>1
    <2>3. CASE s = "translate"
        <3>1. run.at = 2 /\ untrusted' = untrusted /\ applied' = applied /\ ir' = ir
            BY <1>2, <2>1, <2>3, StageIndex DEF RunStage, Translate, artifacts
        <3>2. QED
            BY <2>1, <3>1
    <2>4. CASE s = "apply"
        <3>1. run.at = 3 /\ ir' = file["translated"] /\ file' = file
            BY <1>2, <2>1, <2>4, StageIndex DEF RunStage, Apply
        <3>2. QED
            BY <2>1, <3>1
    <2>5. CASE s \notin {"parse", "translate", "apply"}
        <3>1. run.at # 3 /\ UNCHANGED <<file, ir, applied, untrusted>>
            BY <1>2, <2>1, <2>5, StageIndex, StageNames DEF RunStage, Build, Check, artifacts
        <3>2. QED
            BY <2>1, <3>1
    <2>6. QED
        BY <2>2, <2>3, <2>4, <2>5
<1>3. ASSUME NEW s \in Stages, Record(s) PROVE ApplyInv'
    <2>1. /\ run.at \in 1..7 /\ run.phase = "ran" /\ Stage = s
          /\ UNCHANGED <<file, ir, applied, edited>>
        BY <1>3 DEF Record, At, artifacts
    <2>2. CASE s = "apply"
        <3>1. run.at = 3 /\ run'.at = 4 /\ run'.phase = "begin"
            BY <1>3, <1>a, <2>1, <2>2, StageIndex, NextStageType DEF Record
        <3>2. recorded'["apply"].ok /\ recorded'["apply"].inputs["translated"] = file["translated"]
            BY <1>3, <1>a, <1>b, <2>2, InputsAre, RecordedOther DEF Record
        <3>3. run.raced => "apply" \in untrusted'
            BY <1>3, <2>2 DEF Record
        <3>4. QED
            BY <2>1, <3>1, <3>2, <3>3
    <2>3. CASE s # "apply"
        <3>1. recorded'["apply"] = recorded["apply"]
            BY <1>3, <1>a, <1>b, <2>3, RecordedOther DEF Record
        <3>2. ("apply" \in untrusted') = ("apply" \in untrusted)
            BY <1>3, <2>3 DEF Record
        <3>3. run.at # 3 /\ run'.at \in {run.at, run.at + 1} /\ ~(run'.at = 3 /\ run'.phase = "ran")
              /\ (run'.at = run.at \/ run.at # 3)
            BY <1>3, <1>a, <2>1, <2>3, StageIndex, NextStageType DEF Record, Calls
        <3>4. run'.at \in 4..8 => run.at \in 4..8
            BY <2>1, <3>3
        <3>5. QED
            BY <2>1, <3>1, <3>2, <3>3, <3>4
    <2>4. QED
        BY <2>2, <2>3
<1>4. ASSUME PromptOnly PROVE ApplyInv'
    <2>1. recorded'["apply"] = recorded["apply"]
        BY <1>4, <1>a, <1>b, RecordedOther DEF PromptOnly
    <2>2. QED
        BY <1>1, <1>4, <2>1 DEF PromptOnly, At, End, artifacts
<1>5. ASSUME SkipReview PROVE ApplyInv'
    <2>1. recorded'["apply"] = recorded["apply"]
        BY <1>5, <1>a, <1>b, RecordedOther DEF SkipReview
    <2>2. run.at = 6 /\ run'.at = 7 /\ run'.phase = "begin"
        BY <1>5, <1>a, StageIndex, NextStageType DEF SkipReview, At
    <2>3. QED
        BY <1>5, <2>1, <2>2 DEF SkipReview, artifacts, histories
<1>6. ASSUME WaitForReviewer PROVE ApplyInv'
    <2>1. recorded'["apply"] = recorded["apply"]
        BY <1>6, <1>a, <1>b, RecordedOther DEF WaitForReviewer
    <2>2. QED
        BY <1>1, <1>6, <2>1 DEF WaitForReviewer, AtReview, At, End, artifacts
<1>7. ASSUME Preflight \/ NeedsHumanReview PROVE ApplyInv'
    BY <1>1, <1>7 DEF Preflight, NeedsHumanReview, AtReview, At, End, artifacts, state
<1>8. ASSUME Review PROVE ApplyInv'
    <2>1. run.at = 6 /\ run'.at = 6
        BY <1>8, <1>a, StageIndex DEF Review, AtReview, At, Calls
    <2>2. QED
        BY <1>8, <2>1 DEF Review, artifacts, state
<1>9. ASSUME RecordCheck PROVE ApplyInv'
    <2>1. run.at = 5 /\ run'.at = 6 /\ run'.phase = "begin"
        BY <1>9, <1>a, StageIndex, NextStageType DEF RecordCheck, At
    <2>2. QED
        BY <1>9, <2>1 DEF RecordCheck, artifacts, histories
<1>10. ASSUME Finish PROVE ApplyInv'
    BY <1>1, <1>10 DEF Finish, End, artifacts
<1>11. ASSUME NEW code \in {"failed", "dead"}, Stop(code) PROVE ApplyInv'
    <2>1. run' = NoRun /\ UNCHANGED <<ir, applied, recorded>>
        BY <1>11 DEF Stop, End, artifacts, state
    <2>2. CASE Ran(3)
        <3>1. "apply" \in untrusted'
            BY <1>11, <2>2, StageIndex DEF Stop
        <3>2. QED
            BY <2>1, <3>1 DEF NoRun
    <2>3. CASE ~Ran(3)
        <3>1. run.phase # "begin" => Stage # "apply"
            BY <1>a, <2>3, StageIndex DEF PhaseInv, Calls
        <3>2. ("apply" \in untrusted') = ("apply" \in untrusted)
            BY <1>11, <3>1 DEF Stop
        <3>3. QED
            BY <1>1, <2>1, <2>3, <3>2
    <2>4. QED
        BY <2>2, <2>3
<1>12. ASSUME NEW from \in 1..7, NEW given \in SUBSET {"pdf", "markdown"}, Start(from, given)
       PROVE  ApplyInv'
    <2>1. /\ run'.at = from /\ run'.phase = "begin" /\ run.at = 0
          /\ UNCHANGED <<file, ir, applied, recorded, untrusted>>
        BY <1>12 DEF Start, Call, NoRun, artifacts, state, histories
    <2>2. from \in 4..8 /\ recorded["apply"].ok
             => recorded["apply"].inputs["translated"] = file["translated"]
        <3>1. from \in 4..8 => 3 \in 1..(from - 1)
            OBVIOUS
        <3>2. "translated" \in StageInputs("apply") \cap Hashed(given)
            BY DEF StageInputs, Hashed, Files
        <3>3. QED
            BY <1>12, <3>1, <3>2, StageNames DEF Start, FindStale, StaleStage
    <2>3. QED
        BY <2>1, <2>2
<1>13. ASSUME NEW f \in Files, Edit(f) PROVE ApplyInv'
    <2>1. /\ run'.at = run.at /\ run'.phase = run.phase
          /\ UNCHANGED <<ir, applied, recorded, untrusted>>
          /\ f # "translated" => file'["translated"] = file["translated"]
        BY <1>13, <1>a DEF Edit, Calls, artifacts, state, FilesOK
    <2>2. run.at # 0 => edited'
        BY <1>13 DEF Edit
    <2>3. run'.raced = (run.raced \/ (run.phase = "ran" /\ f \in StageInputs(Stage)))
        BY <1>13, <1>a DEF Edit, Calls
    <2>4. Ran(3) /\ ~run'.raced => ~run.raced /\ f # "translated"
        <3>1. Ran(3) => Stage = "apply"
            BY StageIndex
        <3>2. "translated" \in StageInputs("apply")
            BY DEF StageInputs
        <3>3. QED
            BY <2>3, <3>1, <3>2
    <2>5. run.at \in 4..8 => edited'
        BY <2>2
    <2>6. QED
        BY <2>1, <2>4, <2>5
<1>14. ASSUME Refuse \/ UNCHANGED vars PROVE ApplyInv'
    BY <1>14 DEF Refuse, Call, vars, artifacts, state, histories
<1>15. QED
    BY <1>2, <1>3, <1>4, <1>5, <1>6, <1>7, <1>8, <1>9, <1>10, <1>11, <1>12, <1>13, <1>14
       DEF Next

\* When build runs unraced, the IR holds the translation that is on disk.
LEMMA IrCurrent ==
    ASSUME TypeInv, ApplyInv, run.at = 4, run.phase = "begin", applied, ~edited,
           "apply" \notin untrusted
    PROVE  ir = file["translated"]
BY DEF ApplyInv, Ran

LEMMA BuildNext == TypeInv /\ ApplyInv /\ BuildInv /\ [Next]_vars => BuildInv'
<1> SUFFICES ASSUME TypeInv, ApplyInv, BuildInv, [Next]_vars PROVE BuildInv'
    OBVIOUS
<1> USE DEF BuildInv, Ran
<1>a. StateOK /\ FilesOK /\ run \in Calls /\ PhaseInv
    BY DEF TypeInv, TypeOK
<1>b. "build" \in Stages \ {"report"}
    BY StageNames
<1>1. ASSUME run' = NoRun, ~Ran(4), UNCHANGED output,
             recorded'["build"] = recorded["build"],
             ("build" \in untrusted') = ("build" \in untrusted)
      PROVE  BuildInv'
    BY <1>1 DEF NoRun
<1>2. ASSUME NEW s \in Stages, RunStage(s) PROVE BuildInv'
    <2>1. /\ run'.at = run.at /\ run'.phase = "ran" /\ run.phase = "begin" /\ run.at \in 1..7
          /\ Stage = s
          /\ recorded' = recorded /\ edited' = edited
          /\ run'.raced = (s = "build" /\ (edited \/ "apply" \in untrusted))
        BY <1>2, <1>a DEF RunStage, At, Calls, state
    <2>2. CASE s \in {"parse", "translate", "apply"}
        <3>1. run.at \in 1..3 /\ output' = output
            BY <1>2, <2>1, <2>2, StageIndex DEF RunStage, Parse, Translate, Apply, artifacts
        <3>2. ("build" \in untrusted') = ("build" \in untrusted)
            BY <1>2, <2>2, StageNames DEF RunStage, Parse, Translate, Apply
        <3>3. QED
            BY <2>1, <3>1, <3>2
    <2>3. CASE s = "build"
        <3>1. /\ run.at = 4 /\ file' = file /\ untrusted' = untrusted
              /\ output'.translated = ir /\ output'.overrides = file["overrides"] /\ applied
            BY <1>2, <2>1, <2>3, StageIndex DEF RunStage, Build, Ready
        <3>2. ~run'.raced => ir = file["translated"]
            BY <2>1, <2>3, <3>1, IrCurrent
        <3>3. QED
            BY <2>1, <3>1, <3>2
    <2>4. CASE s \notin {"parse", "translate", "apply", "build"}
        <3>1. run.at # 4 /\ UNCHANGED <<file, output, untrusted>>
            BY <1>2, <2>1, <2>4, StageIndex, StageNames DEF RunStage, Check, artifacts
        <3>2. QED
            BY <2>1, <3>1
    <2>5. QED
        BY <2>2, <2>3, <2>4
<1>3. ASSUME NEW s \in Stages, Record(s) PROVE BuildInv'
    <2>1. /\ run.at \in 1..7 /\ run.phase = "ran" /\ Stage = s
          /\ UNCHANGED <<file, output, edited>>
        BY <1>3 DEF Record, At, artifacts
    <2>2. CASE s = "build"
        <3>1. run.at = 4 /\ run'.at = 5 /\ run'.phase = "begin"
            BY <1>3, <1>a, <2>1, <2>2, StageIndex, NextStageType DEF Record
        <3>2. /\ recorded'["build"].inputs["translated"] = file["translated"]
              /\ recorded'["build"].inputs["overrides"] = file["overrides"]
            BY <1>3, <1>a, <1>b, <2>2, InputsAre, RecordedOther DEF Record
        <3>3. run.raced => "build" \in untrusted'
            BY <1>3, <2>2 DEF Record
        <3>4. QED
            BY <2>1, <3>1, <3>2, <3>3
    <2>3. CASE s # "build"
        <3>1. recorded'["build"] = recorded["build"]
            BY <1>3, <1>a, <1>b, <2>3, RecordedOther DEF Record
        <3>2. ("build" \in untrusted') = ("build" \in untrusted)
            BY <1>3, <2>3 DEF Record
        <3>3. /\ run.at # 4 /\ run'.at \in {run.at, run.at + 1}
              /\ ~(run'.at = 4 /\ run'.phase = "ran")
            BY <1>3, <1>a, <2>1, <2>3, StageIndex, NextStageType DEF Record, Calls
        <3>4. run'.at \in 5..8 => run.at \in 5..8
            BY <2>1, <3>3
        <3>5. QED
            BY <2>1, <3>1, <3>2, <3>3, <3>4
    <2>4. QED
        BY <2>2, <2>3
<1>4. ASSUME PromptOnly PROVE BuildInv'
    <2>1. recorded'["build"] = recorded["build"]
        BY <1>4, <1>a, <1>b, RecordedOther DEF PromptOnly
    <2>2. QED
        BY <1>1, <1>4, <2>1 DEF PromptOnly, At, End, artifacts
<1>5. ASSUME SkipReview PROVE BuildInv'
    <2>1. recorded'["build"] = recorded["build"]
        BY <1>5, <1>a, <1>b, RecordedOther DEF SkipReview
    <2>2. run.at = 6 /\ run'.at = 7 /\ run'.phase = "begin"
        BY <1>5, <1>a, StageIndex, NextStageType DEF SkipReview, At
    <2>3. QED
        BY <1>5, <2>1, <2>2 DEF SkipReview, artifacts, histories
<1>6. ASSUME WaitForReviewer PROVE BuildInv'
    <2>1. recorded'["build"] = recorded["build"]
        BY <1>6, <1>a, <1>b, RecordedOther DEF WaitForReviewer
    <2>2. QED
        BY <1>1, <1>6, <2>1 DEF WaitForReviewer, AtReview, At, End, artifacts
<1>7. ASSUME Preflight \/ NeedsHumanReview PROVE BuildInv'
    BY <1>1, <1>7 DEF Preflight, NeedsHumanReview, AtReview, At, End, artifacts, state
<1>8. ASSUME Review PROVE BuildInv'
    <2>1. run.at = 6 /\ run'.at = 6
        BY <1>8, <1>a, StageIndex DEF Review, AtReview, At, Calls
    <2>2. QED
        BY <1>8, <2>1 DEF Review, artifacts, state
<1>9. ASSUME RecordCheck PROVE BuildInv'
    <2>1. run.at = 5 /\ run'.at = 6 /\ run'.phase = "begin"
        BY <1>9, <1>a, StageIndex, NextStageType DEF RecordCheck, At
    <2>2. QED
        BY <1>9, <2>1 DEF RecordCheck, artifacts, histories
<1>10. ASSUME Finish PROVE BuildInv'
    BY <1>1, <1>10 DEF Finish, End, artifacts
<1>11. ASSUME NEW code \in {"failed", "dead"}, Stop(code) PROVE BuildInv'
    <2>1. run' = NoRun /\ UNCHANGED <<output, recorded>>
        BY <1>11 DEF Stop, End, artifacts, state
    <2>2. CASE Ran(4)
        <3>1. "build" \in untrusted'
            BY <1>11, <2>2, StageIndex DEF Stop
        <3>2. QED
            BY <2>1, <3>1 DEF NoRun
    <2>3. CASE ~Ran(4)
        <3>1. run.phase # "begin" => Stage # "build"
            BY <1>a, <2>3, StageIndex DEF PhaseInv, Calls
        <3>2. ("build" \in untrusted') = ("build" \in untrusted)
            BY <1>11, <3>1 DEF Stop
        <3>3. QED
            BY <1>1, <2>1, <2>3, <3>2
    <2>4. QED
        BY <2>2, <2>3
<1>12. ASSUME NEW from \in 1..7, NEW given \in SUBSET {"pdf", "markdown"}, Start(from, given)
       PROVE  BuildInv'
    <2>1. /\ run'.at = from /\ run'.phase = "begin" /\ run.at = 0
          /\ UNCHANGED <<file, output, recorded, untrusted>>
        BY <1>12 DEF Start, Call, NoRun, artifacts, state, histories
    <2>2. from \in 5..8 /\ recorded["build"].ok
             => /\ recorded["build"].inputs["translated"] = file["translated"]
                /\ recorded["build"].inputs["overrides"] = file["overrides"]
        <3>1. from \in 5..8 => 4 \in 1..(from - 1)
            OBVIOUS
        <3>2. {"translated", "overrides"} \subseteq StageInputs("build") \cap Hashed(given)
            BY DEF StageInputs, Hashed, Files
        <3>3. QED
            BY <1>12, <3>1, <3>2, StageNames DEF Start, FindStale, StaleStage
    <2>3. QED
        BY <2>1, <2>2
<1>13. ASSUME NEW f \in Files, Edit(f) PROVE BuildInv'
    <2>1. /\ run'.at = run.at /\ run'.phase = run.phase
          /\ UNCHANGED <<output, recorded, untrusted>>
          /\ f # "translated" => file'["translated"] = file["translated"]
          /\ f # "overrides" => file'["overrides"] = file["overrides"]
        BY <1>13, <1>a DEF Edit, Calls, artifacts, state, FilesOK
    <2>2. run.at # 0 => edited'
        BY <1>13 DEF Edit
    <2>3. run'.raced = (run.raced \/ (run.phase = "ran" /\ f \in StageInputs(Stage)))
        BY <1>13, <1>a DEF Edit, Calls
    <2>4. Ran(4) /\ ~run'.raced => ~run.raced /\ f \notin {"translated", "overrides"}
        <3>1. Ran(4) => Stage = "build"
            BY StageIndex
        <3>2. {"translated", "overrides"} \subseteq StageInputs("build")
            BY DEF StageInputs
        <3>3. QED
            BY <2>3, <3>1, <3>2
    <2>5. run.at \in 5..8 => edited'
        BY <2>2
    <2>6. QED
        BY <2>1, <2>4, <2>5
<1>14. ASSUME Refuse \/ UNCHANGED vars PROVE BuildInv'
    BY <1>14 DEF Refuse, Call, vars, artifacts, state, histories
<1>15. QED
    BY <1>2, <1>3, <1>4, <1>5, <1>6, <1>7, <1>8, <1>9, <1>10, <1>11, <1>12, <1>13, <1>14
       DEF Next

LEMMA CheckNext == TypeInv /\ CheckInv /\ [Next]_vars => CheckInv'
<1> SUFFICES ASSUME TypeInv, CheckInv, [Next]_vars PROVE CheckInv'
    OBVIOUS
<1> USE DEF CheckInv, Checking
<1>a. StateOK /\ FilesOK /\ run \in Calls /\ PhaseInv
    BY DEF TypeInv, TypeOK
<1>b. "check" \in Stages \ {"report"}
    BY StageNames
<1>1. ASSUME run' = NoRun, ~Checking, UNCHANGED <<verdict, check>>,
             recorded'["check"] = recorded["check"],
             ("check" \in untrusted') = ("check" \in untrusted)
      PROVE  CheckInv'
    BY <1>1 DEF NoRun
<1>2. ASSUME NEW s \in Stages, RunStage(s) PROVE CheckInv'
    <2>1. /\ run'.at = run.at /\ run'.phase = "ran" /\ run.phase = "begin" /\ run.at \in 1..7
          /\ Stage = s
          /\ recorded' = recorded /\ check' = check
          /\ run'.check = IF s = "check" THEN verdict' ELSE run.check
        BY <1>2, <1>a DEF RunStage, At, Calls, state
    <2>2. CASE s = "check"
        <3>1. run.at = 5 /\ verdict' \in Verdicts
            BY <1>2, <2>1, <2>2, StageIndex DEF RunStage, Check
        <3>2. QED
            BY <2>1, <2>2, <3>1, ConstantsAssumption DEF Verdicts
    <2>3. CASE s # "check"
        <3>1. run.at # 5 /\ verdict' = verdict
            BY <1>2, <2>1, <2>3, StageIndex, StageNames
               DEF RunStage, Parse, Translate, Apply, Build, artifacts
        <3>2. ("check" \in untrusted') = ("check" \in untrusted)
            BY <1>2, <2>3, StageNames DEF RunStage, Parse, Translate, Apply, Build
        <3>3. QED
            BY <2>1, <2>3, <3>1, <3>2
    <2>4. QED
        BY <2>2, <2>3
<1>3. ASSUME NEW s \in Stages, Record(s) PROVE CheckInv'
    <2>1. /\ run.at \in 1..7 /\ run.phase = "ran" /\ Stage = s
          /\ UNCHANGED <<verdict, check>>
        BY <1>3 DEF Record, At, artifacts
    <2>2. CASE s = "check"
        <3>1. run.at = 5 /\ run'.at = 5 /\ run'.phase = "saved" /\ run'.check = run.check
            BY <1>3, <1>a, <2>1, <2>2, StageIndex DEF Record, Calls
        <3>2. QED
            BY <2>1, <3>1
    <2>3. CASE s # "check"
        <3>1. recorded'["check"] = recorded["check"]
            BY <1>3, <1>a, <1>b, <2>3, RecordedOther DEF Record
        <3>2. ("check" \in untrusted') = ("check" \in untrusted)
            BY <1>3, <2>3 DEF Record
        <3>3. run.at # 5 /\ run'.at = run.at + 1 /\ run'.phase = "begin" /\ run'.check = run.check
            BY <1>3, <1>a, <2>1, <2>3, StageIndex, NextStageType DEF Record
        <3>4. QED
            BY <2>1, <3>1, <3>2, <3>3
    <2>4. QED
        BY <2>2, <2>3
<1>4. ASSUME PromptOnly PROVE CheckInv'
    <2>1. recorded'["check"] = recorded["check"]
        BY <1>4, <1>a, <1>b, RecordedOther DEF PromptOnly
    <2>2. QED
        BY <1>1, <1>4, <2>1 DEF PromptOnly, At, End, artifacts
<1>5. ASSUME SkipReview PROVE CheckInv'
    <2>1. recorded'["check"] = recorded["check"]
        BY <1>5, <1>a, <1>b, RecordedOther DEF SkipReview
    <2>2. run.at = 6 /\ run'.at = 7 /\ run'.phase = "begin" /\ run'.check = run.check
        BY <1>5, <1>a, StageIndex, NextStageType DEF SkipReview, At
    <2>3. QED
        BY <1>5, <2>1, <2>2 DEF SkipReview, artifacts, histories
<1>6. ASSUME WaitForReviewer PROVE CheckInv'
    <2>1. recorded'["check"] = recorded["check"]
        BY <1>6, <1>a, <1>b, RecordedOther DEF WaitForReviewer
    <2>2. QED
        BY <1>1, <1>6, <2>1 DEF WaitForReviewer, AtReview, At, End, artifacts
<1>7. ASSUME Preflight \/ NeedsHumanReview PROVE CheckInv'
    BY <1>1, <1>7 DEF Preflight, NeedsHumanReview, AtReview, At, End, artifacts, state
<1>8. ASSUME Review PROVE CheckInv'
    <2>1. run.at = 6 /\ run'.at = 6 /\ run'.check = run.check
        BY <1>8, <1>a, StageIndex DEF Review, AtReview, At, Calls
    <2>2. QED
        BY <1>8, <2>1 DEF Review, artifacts, state
<1>9. ASSUME RecordCheck PROVE CheckInv'
    <2>1. /\ run.at = 5 /\ run.phase = "saved" /\ run'.at = 6 /\ run'.phase = "begin"
          /\ run'.check = run.check
        BY <1>9, <1>a, StageIndex, NextStageType DEF RecordCheck, At
    <2>2. QED
        BY <1>9, <2>1 DEF RecordCheck, artifacts, histories
<1>10. ASSUME Finish PROVE CheckInv'
    BY <1>1, <1>10 DEF Finish, End, artifacts
<1>11. ASSUME NEW code \in {"failed", "dead"}, Stop(code) PROVE CheckInv'
    <2>1. run' = NoRun /\ UNCHANGED <<verdict, check, recorded>>
        BY <1>11 DEF Stop, End, artifacts, state
    <2>2. CASE Checking
        <3>1. "check" \in untrusted'
            BY <1>11, <2>2, StageIndex DEF Stop
        <3>2. QED
            BY <2>1, <3>1 DEF NoRun
    <2>3. CASE ~Checking
        <3>1. run.phase # "begin" => Stage # "check"
            BY <1>a, <2>3, StageIndex DEF PhaseInv, Calls
        <3>2. ("check" \in untrusted') = ("check" \in untrusted)
            BY <1>11, <3>1 DEF Stop
        <3>3. QED
            BY <1>1, <2>1, <2>3, <3>2
    <2>4. QED
        BY <2>2, <2>3
<1>12. ASSUME NEW from \in 1..7, NEW given \in SUBSET {"pdf", "markdown"}, Start(from, given)
       PROVE  CheckInv'
    <2>1. /\ run'.at = from /\ run'.phase = "begin" /\ run'.check = Missing /\ run.at = 0
          /\ UNCHANGED <<verdict, check, recorded, untrusted>>
        BY <1>12 DEF Start, Call, NoRun, artifacts, state, histories
    <2>2. QED
        BY <2>1
<1>13. ASSUME NEW f \in Files, Edit(f) PROVE CheckInv'
    <2>1. /\ run'.at = run.at /\ run'.phase = run.phase /\ run'.check = run.check
          /\ UNCHANGED <<verdict, check, recorded, untrusted>>
        BY <1>13, <1>a DEF Edit, Calls, artifacts, state
    <2>2. QED
        BY <2>1
<1>14. ASSUME Refuse \/ UNCHANGED vars PROVE CheckInv'
    BY <1>14 DEF Refuse, Call, vars, artifacts, state, histories
<1>15. QED
    BY <1>2, <1>3, <1>4, <1>5, <1>6, <1>7, <1>8, <1>9, <1>10, <1>11, <1>12, <1>13, <1>14
       DEF Next

-----------------------------------------------------------------------------

\* Only the end of a call whose last stage is behind it succeeds.
LEMMA SuccessIsFinish ==
    ASSUME TypeInv, [Next]_vars, Succeeds
    PROVE  run.at = 8 /\ CheckVerdict # "needs_fix"
<1> USE DEF Succeeds
<1>1. run \in Calls
    BY DEF TypeInv, TypeOK
<1>2. ASSUME Finish PROVE run.at = 8 /\ CheckVerdict # "needs_fix"
    BY <1>2 DEF Finish, End
<1>3. ASSUME NEW s \in Stages, RunStage(s) PROVE FALSE
    BY <1>1, <1>3 DEF RunStage, Calls
<1>4. ASSUME NEW s \in Stages, Record(s) PROVE FALSE
    BY <1>1, <1>4, NextStageType DEF Record, At, Calls
<1>5. ASSUME SkipReview \/ RecordCheck PROVE FALSE
    BY <1>1, <1>5, NextStageType DEF SkipReview, RecordCheck, At
<1>6. ASSUME Review PROVE FALSE
    BY <1>1, <1>6 DEF Review, Calls
<1>7. ASSUME NEW f \in Files, Edit(f) PROVE FALSE
    BY <1>1, <1>7 DEF Edit, Calls
<1>8. ASSUME Preflight \/ PromptOnly \/ WaitForReviewer \/ NeedsHumanReview PROVE FALSE
    BY <1>8 DEF Preflight, PromptOnly, WaitForReviewer, NeedsHumanReview, End
<1>9. ASSUME NEW code \in {"failed", "dead"}, Stop(code) PROVE FALSE
    BY <1>9 DEF Stop, End
<1>10. ASSUME NEW from \in 1..7, NEW given \in SUBSET {"pdf", "markdown"}, Start(from, given)
       PROVE  FALSE
    BY <1>10 DEF Start, Call
<1>11. ASSUME Refuse PROVE FALSE
    BY <1>11 DEF Refuse, Call
<1>12. ASSUME UNCHANGED vars PROVE FALSE
    BY <1>12 DEF vars
<1>13. QED
    BY <1>2, <1>3, <1>4, <1>5, <1>6, <1>7, <1>8, <1>9, <1>10, <1>11, <1>12 DEF Next

\* What a successful call delivers was built from the files that are on disk.
THEOREM CurrentHolds == Spec => OkIsCurrent
<1>1. ASSUME TypeInv, ApplyInv, BuildInv, [Next]_vars
      PROVE  [Succeeds /\ recorded["build"].ok /\ ~edited /\ "build" \notin untrusted
                => /\ output.translated = file["translated"]
                   /\ output.overrides = file["overrides"]]_vars
    BY <1>1, SuccessIsFinish DEF BuildInv, Ran
<1>2. QED
    BY TypeInit, TypeNext, InvsInit, ApplyNext, BuildNext, <1>1, PTL DEF Spec, OkIsCurrent

\* A call does not succeed over the verdict of the last check.
THEOREM CheckedHolds == Spec => OkIsChecked
<1>1. ASSUME TypeInv, CheckInv, [Next]_vars
      PROVE  [Succeeds /\ recorded["check"].ok /\ "check" \notin untrusted
                => verdict = "pass"]_vars
    <2> SUFFICES ASSUME Succeeds, recorded["check"].ok, "check" \notin untrusted
                 PROVE  verdict = "pass"
        OBVIOUS
    <2>1. run.at = 8 /\ CheckVerdict # "needs_fix"
        BY <1>1, SuccessIsFinish
    <2>2. check = verdict /\ verdict # Missing /\ (run.check # Missing => run.check = verdict)
        BY <1>1, <2>1 DEF CheckInv, Checking
    <2>3. verdict \in Verdicts
        BY <1>1, <2>2 DEF TypeInv, TypeOK, FilesOK
    <2>4. QED
        BY <2>1, <2>2, <2>3 DEF CheckVerdict, Verdicts
<1>2. QED
    BY TypeInit, TypeNext, InvsInit, CheckNext, <1>1, PTL DEF Spec, OkIsChecked
=============================================================================
