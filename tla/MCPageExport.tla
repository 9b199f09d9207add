---------------------------- MODULE MCPageExport ----------------------------
(* PageExport on small instances. *)
EXTENDS PageExport

CONSTANTS a, b, x, y

D(title, content) == [title |-> title, content |-> content]

TwoDocuments == {1, 2}

(* Two documents, the title of one of which may pass to the other.         *)
Shared == <<{D(a, x), D(b, y)}, {D(a, y)}>>

=============================================================================
