--------------------------- MODULE MCStreamPreview ---------------------------
(* Two blocks on one page, one on the next, and a page without blocks. *)
EXTENDS StreamPreview, TLC

CONSTANTS a1, a2, b1, p1, p2, p3

MCHome == a1 :> p1 @@ a2 :> p1 @@ b1 :> p2

Symmetry == Permutations(Workers)

==============================================================================
