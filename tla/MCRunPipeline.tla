--------------------------- MODULE MCRunPipeline ---------------------------
(* Model checking of RunPipeline: contents are interchangeable. *)
EXTENDS RunPipeline, TLC

Symmetry == Permutations(Contents)

\* how the last call ended has no influence on what follows; the properties that name
\* answer are about the step that sets it
View == <<file, artifacts, state, run, histories, runs, edits, faults>>
=============================================================================
