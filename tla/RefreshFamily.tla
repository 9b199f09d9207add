--------------------------- MODULE RefreshFamily ---------------------------
(***************************************************************************)
(* What docz-api's refresh tokens promise, apart from how they are kept: a *)
(* family is born with one usable token, each use replaces that token by   *)
(* one never seen before, and a family that has ended stays ended.  OAuth  *)
(* implements it.                                                          *)
(***************************************************************************)
CONSTANTS Families, Tokens,
          Unborn, Ended     \* two values that are no tokens

VARIABLES
    usable,  \* usable[f]: the family's one usable token, or Unborn, or Ended
    spent    \* the tokens that were usable once

familyVars == <<usable, spent>>

Init ==
    /\ usable = [f \in Families |-> Unborn]
    /\ spent = {}

Unseen(t) == t \notin spent /\ \A f \in Families : usable[f] # t

Start(f) ==
    /\ usable[f] = Unborn
    /\ \E t \in Tokens : Unseen(t) /\ usable' = [usable EXCEPT ![f] = t]
    /\ UNCHANGED spent

Rotate(f) ==
    /\ usable[f] \in Tokens
    /\ \E t \in Tokens : Unseen(t) /\ usable' = [usable EXCEPT ![f] = t]
    /\ spent' = spent \cup {usable[f]}

End(f) ==
    /\ usable[f] \in Tokens
    /\ usable' = [usable EXCEPT ![f] = Ended]
    /\ spent' = spent \cup {usable[f]}

Next == \E f \in Families : Start(f) \/ Rotate(f) \/ End(f)

Spec == Init /\ [][Next]_familyVars

=============================================================================
