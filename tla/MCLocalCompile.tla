--------------------------- MODULE MCLocalCompile ---------------------------
(* A small document for LocalCompile: a1 is on page p1, a2 on page p2. *)
EXTENDS LocalCompile, TLC

CONSTANTS a1, a2, p1, p2

MCBlock == {a1, a2}
MCPage == {p1, p2}
\* The stamp of a1 may be floated to p2, where it is composed with the one of a2.
MCHome == (a1 :> p1) @@ (a2 :> p2)
MCLandsOn == (a1 :> {p1, p2}) @@ (a2 :> {p2})

\* No action reads what was exported, but for its status.
MCView == <<eligible, draftVars, jobVars, pageVars, buildVars, exported.status, stranded>>

=============================================================================
