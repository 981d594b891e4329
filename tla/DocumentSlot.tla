---------------------------- MODULE DocumentSlot ----------------------------
(***************************************************************************)
(* What the job registry promises about a document, without queues, locks, *)
(* processes or restarts: a document has one slot, a job takes a free slot *)
(* once in its life, and the slot is given back before another job has it. *)
(* JobRunner implements this specification (JobRunner!SlotRefinement).     *)
(***************************************************************************)
CONSTANTS Job, Doc, DocOf, NoJob

VARIABLES
    slot,   \* the job that owns each document, or NoJob
    used    \* jobs that took their slot

vars == <<slot, used>>

Init ==
    /\ slot = [d \in Doc |-> NoJob]
    /\ used = {}

Acquire(j) ==
    /\ j \notin used
    /\ slot[DocOf[j]] = NoJob
    /\ slot' = [slot EXCEPT ![DocOf[j]] = j]
    /\ used' = used \cup {j}

\* A finished job gives back one slot, a stop or a restart several at once.
Release(D) ==
    /\ slot' = [d \in Doc |-> IF d \in D THEN NoJob ELSE slot[d]]
    /\ UNCHANGED used

Next ==
    \/ \E j \in Job : Acquire(j)
    \/ \E D \in SUBSET Doc : Release(D)

Spec == Init /\ [][Next]_vars

=============================================================================
