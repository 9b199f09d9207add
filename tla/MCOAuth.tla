------------------------------- MODULE MCOAuth -------------------------------
(* OAuth on a small instance: the first session's person holds every scope. *)
EXTENDS OAuth, TLC

CONSTANT s1

HeldDef == (s1 :> Scope)

Symmetry == Permutations(Request) \cup Permutations(Token) \cup Permutations(Code)

=============================================================================
