--------------------------- MODULE MCReviewSession ---------------------------
(* ReviewSession on small instances: one submission of each outcome but    *)
(* dismissal, which the end of a run brings.                               *)
EXTENDS ReviewSession, TLC

CONSTANTS s1, s2

OutcomeDef == (s1 :> "changes") @@ (s2 :> "approved")

Symmetry == Permutations(Doc) \cup Permutations(Server)

=============================================================================
