------------------------------ MODULE MCAccess ------------------------------
(* Access and TrustedKeys on small instances.  They share nothing, so a    *)
(* behaviour runs one of them and leaves the other where it begins.        *)
EXTENDS Access, TrustedKeys, TLC

CONSTANT k1

VARIABLE runs

mcVars == <<runs, accessVars, keyVars>>

MCInit ==
    /\ AccessInit /\ KeysInit
    /\ \/ runs = "access" /\ published = Key /\ verdict.key = k1
       \/ runs = "keys" /\ named = NoId

MCNext ==
    \/ runs = "access" /\ AccessNext /\ UNCHANGED <<runs, keyVars>>
    \/ runs = "keys" /\ KeysNext /\ UNCHANGED <<runs, accessVars>>

Symmetry == Permutations(Reader) \cup Permutations(Id)

MCSpec == MCInit /\ [][MCNext]_mcVars

=============================================================================
