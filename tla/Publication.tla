----------------------------- MODULE Publication -----------------------------
(***************************************************************************)
(* What a full compile promises about the PDF of a document, without jobs, *)
(* snapshots, faults or restarts: draft revisions only grow, the file may  *)
(* be replaced by the PDF of the current draft, and the revision announced *)
(* to the readers moves only to the current draft, once its PDF is there.  *)
(* FullCompile implements this specification (FullCompile!Publishes).      *)
(***************************************************************************)
EXTENDS Naturals

CONSTANT Raw    \* what a pipeline run leaves in the file instead: no draft in it

VARIABLES
    draft,      \* revision of the draft
    announced,  \* revision the readers are told the file has
    pdf         \* revision the file has, or an element of Raw

vars == <<draft, announced, pdf>>

Init ==
    /\ draft = 0
    /\ announced = 0
    /\ pdf \in Raw

Edit ==
    /\ draft' = draft + 1
    /\ UNCHANGED <<announced, pdf>>

Replace ==
    /\ pdf' = draft
    /\ UNCHANGED <<draft, announced>>

Announce ==
    /\ pdf \in Raw \cup {draft}
    /\ announced' = draft
    /\ UNCHANGED <<draft, pdf>>

Overwrite ==
    /\ pdf' \in Raw
    /\ UNCHANGED <<draft, announced>>

Next == Edit \/ Replace \/ Announce \/ Overwrite

Spec == Init /\ [][Next]_vars

=============================================================================
