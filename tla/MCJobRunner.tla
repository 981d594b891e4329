---------------------------- MODULE MCJobRunner ----------------------------
(* Small instances of JobRunner for TLC. *)
EXTENDS JobRunner, TLC

CONSTANTS p1, i1, b1, i2, bs2, d1, d2

\* p1 and i2 contend for the cap, b1 and bs2 for the permits; p1 and b1 for the
\* document d1, i2 and bs2 for d2.  All paths of the code are there but "export",
\* which JobRunner treats as "block".
MCJob == {p1, b1, i2, bs2}

\* As above, but two jobs with processes contend for d1.
PairJob == {p1, i1, i2, bs2}

MCDoc == {d1, d2}
Scopes == (p1 :> "pipeline") @@ (i1 :> "isolated") @@ (b1 :> "block")
          @@ (i2 :> "isolated") @@ (bs2 :> "blocks")
MCDocOf == [j \in MCJob |-> IF j \in {p1, b1} THEN d1 ELSE d2]
MCScopeOf == [j \in MCJob |-> Scopes[j]]
PairDocOf == [j \in PairJob |-> IF j \in {p1, i1} THEN d1 ELSE d2]
PairScopeOf == [j \in PairJob |-> Scopes[j]]

=============================================================================
