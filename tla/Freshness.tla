------------------------------ MODULE Freshness ------------------------------
(***************************************************************************)
(* What the ingest queue promises of one repository, without the queue: a  *)
(* HEAD that moves, a mirror of it that only moves forward and never runs  *)
(* ahead, and promises to bring the mirror at least as far as a given HEAD.*)
(* A promise ends when it is kept or when every attempt to keep it failed. *)
(***************************************************************************)
EXTENDS Naturals

VARIABLES
    head,      \* the commit to mirror
    synced,    \* the commit mirrored
    gaveUp,    \* the HEAD at which the mirror last gave up
    promised,  \* the HEADs asked for and granted
    forfeit    \* a promise was broken by a crash

vars == <<head, synced, gaveUp, promised, forfeit>>

Init ==
    /\ head = 1 /\ synced = 0 /\ gaveUp = 0
    /\ promised = {} /\ forfeit = FALSE

Push ==
    /\ head' = head + 1
    /\ UNCHANGED <<synced, gaveUp, promised, forfeit>>

Promise ==
    /\ \E h \in 1 .. head : promised' = promised \cup {h}
    /\ UNCHANGED <<head, synced, gaveUp, forfeit>>

Sync ==
    /\ synced' \in synced .. head
    /\ UNCHANGED <<head, gaveUp, promised, forfeit>>

GiveUp ==
    /\ gaveUp' = head
    /\ UNCHANGED <<head, synced, promised, forfeit>>

Forfeit ==
    /\ forfeit' = TRUE
    /\ UNCHANGED <<head, synced, gaveUp, promised>>

Next == Push \/ Promise \/ Sync \/ GiveUp \/ Forfeit

Spec == Init /\ [][Next]_vars

=============================================================================
