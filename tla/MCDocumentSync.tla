--------------------------- MODULE MCDocumentSync ----------------------------
(* DocumentSync on small instances: two documents, one of them in two      *)
(* versions.                                                               *)
EXTENDS DocumentSync, TLC

CONSTANTS id1, id2, v1, v2, other

MCIdOf == (v1 :> id1) @@ (v2 :> id1) @@ (other :> id2)

=============================================================================
