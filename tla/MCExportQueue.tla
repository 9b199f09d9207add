---------------------------- MODULE MCExportQueue ----------------------------
(* ExportQueue on small instances. *)
EXTENDS ExportQueue, TLC

Symmetry == Permutations(Triggers)

=============================================================================
