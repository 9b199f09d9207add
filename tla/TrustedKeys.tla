---------------------------- MODULE TrustedKeys ----------------------------
(***************************************************************************)
(* The keys docz-api verifies an outside issuer's tokens with              *)
(* (internal/oauth/verify.go): every process keeps the issuer's key set,   *)
(* loads it from the shared cache or the issuer, and fetches it again when *)
(* a token names a key it does not have, once an interval at most.  The    *)
(* issuer adds and withdraws keys when it likes.                           *)
(***************************************************************************)
EXTENDS Integers

CONSTANTS Process, Key,
          Interval,   \* jwksRefreshInterval, in ticks
          KeysTTL,    \* jwksTTL, in ticks
          KeysEnd     \* bound: the last tick looked at

ASSUME KeysAssumption ==
    /\ Interval \in Nat \ {0} /\ KeysTTL \in Nat /\ KeysEnd \in Nat

VARIABLES
    published,  \* the issuer's key set
    since,      \* since[k]: when k was last published
    sharedSet,  \* the cached key set and when it runs out
    keys,       \* keys[p]: the set process p holds, empty before its first load
    refreshed,  \* refreshed[p]: when p last refreshed on an unknown key
    missed,     \* history: processes whose last fetch failed
    verdict,    \* the last token: who checked it, the key it names, the answer
    clock

keyVars == <<published, since, sharedSet, keys, refreshed, missed, verdict, clock>>

LongAgo == -Interval

Verdicts == {"none", "ok", "unknown", "failed"}

KeysTypeOK ==
    /\ published \in (SUBSET Key) \ {{}}
    /\ since \in [Key -> Int]
    /\ sharedSet \in [set : SUBSET Key, expires : Nat]
    /\ keys \in [Process -> SUBSET Key]
    /\ refreshed \in [Process -> Int]
    /\ \A p \in Process : keys[p] = {} => refreshed[p] = LongAgo
    /\ missed \in SUBSET Process
    /\ verdict \in [process : Process, key : Key, answer : Verdicts]
    /\ clock \in 0..KeysEnd

KeysInit ==
    /\ published \in (SUBSET Key) \ {{}}
    /\ since = [k \in Key |-> LongAgo]
    /\ sharedSet = [set |-> {}, expires |-> 0]
    /\ keys = [p \in Process |-> {}]
    /\ refreshed = [p \in Process |-> LongAgo]
    /\ missed = {}
    /\ verdict \in [process : Process, key : Key, answer : {"none"}]
    /\ clock = 0

Cached == IF clock < sharedSet.expires THEN sharedSet.set ELSE {}

(* refresh: the set is fetched and cached; the write may fail unnoticed,   *)
(* the fetch not.                                                          *)
RefreshKeys(p) ==
    \/ /\ keys' = [keys EXCEPT ![p] = published]
       /\ sharedSet' \in {sharedSet, [set |-> published, expires |-> clock + KeysTTL]}
       /\ missed' = missed \ {p}
    \/ /\ missed' = missed \cup {p}
       /\ UNCHANGED <<keys, sharedSet>>

Verified(p, k, answer) ==
    verdict' = [process |-> p, key |-> k, answer |-> answer]

(* A mutant of LoadKeys: the first load counts as a refresh. *)
LoadStamped(p) ==
    /\ refreshed' = [refreshed EXCEPT ![p] = clock]
    /\ IF Cached # {}
       THEN keys' = [keys EXCEPT ![p] = Cached] /\ UNCHANGED <<sharedSet, missed>>
       ELSE RefreshKeys(p)

(* load: from the cache, or else the issuer.  It is no refresh. *)
LoadKeys(p) ==
    /\ IF Cached # {}
       THEN keys' = [keys EXCEPT ![p] = Cached] /\ UNCHANGED <<sharedSet, missed>>
       ELSE RefreshKeys(p)
    /\ UNCHANGED refreshed

(* key, before its lookup: a process that holds nothing loads first.  A    *)
(* token whose key cannot be loaded is refused; else it is looked up, with *)
(* the mutex held all the while.                                           *)
Load(p, k) ==
    /\ keys[p] = {}
    /\ LoadKeys(p)
    /\ IF keys'[p] = {} THEN Verified(p, k, "failed") ELSE UNCHANGED verdict
    /\ UNCHANGED <<published, since, clock>>

Find(p, k) ==
    /\ k \in keys[p]
    /\ Verified(p, k, "ok")
    /\ UNCHANGED <<published, since, sharedSet, keys, refreshed, missed, clock>>

(* An unknown key: the set is refreshed unless it was within the interval, *)
(* and the time of the attempt counts, not its success.                    *)
FindUnknown(p, k) ==
    /\ keys[p] # {} /\ k \notin keys[p]
    /\ IF clock - refreshed[p] >= Interval
       THEN /\ refreshed' = [refreshed EXCEPT ![p] = clock]
            /\ RefreshKeys(p)
            /\ Verified(p, k, IF p \in missed' THEN "failed"
                              ELSE IF k \in keys'[p] THEN "ok" ELSE "unknown")
       ELSE /\ Verified(p, k, "unknown")
            /\ UNCHANGED <<sharedSet, keys, refreshed, missed>>
    /\ UNCHANGED <<published, since, clock>>

Publish(set) ==
    /\ set # published
    /\ published' = set
    /\ since' = [k \in Key |-> IF k \in set \ published THEN clock ELSE since[k]]
    /\ UNCHANGED <<sharedSet, keys, refreshed, missed, verdict, clock>>

RestartProcess(p) ==
    /\ keys[p] # {}
    /\ keys' = [keys EXCEPT ![p] = {}]
    /\ refreshed' = [refreshed EXCEPT ![p] = LongAgo]
    /\ missed' = missed \ {p}
    /\ verdict' = [verdict EXCEPT !.answer = "none"]
    /\ UNCHANGED <<published, since, sharedSet, clock>>

KeysTick ==
    /\ clock < KeysEnd
    /\ clock' = clock + 1
    /\ verdict' = [verdict EXCEPT !.answer = "none"]
    /\ UNCHANGED <<published, since, sharedSet, keys, refreshed, missed>>

KeysNext ==
    \/ \E p \in Process, k \in Key : Load(p, k) \/ Find(p, k) \/ FindUnknown(p, k)
    \/ \E set \in (SUBSET Key) \ {{}} : Publish(set)
    \/ \E p \in Process : RestartProcess(p)
    \/ KeysTick

KeysSpec == KeysInit /\ [][KeysNext]_keyVars

-----------------------------------------------------------------------------
(* "The first load is not a refresh, so a rotation right after startup is  *)
(* still picked up" (verify.go): a token signed with a key the issuer has  *)
(* published for an interval is known to every process that can reach the  *)
(* issuer, whatever unknown keys were presented, and whatever stale set    *)
(* the process had loaded.                                                 *)
PublishedKeyKnown ==
    (verdict.answer = "unknown" /\ verdict.key \in published
       /\ verdict.process \notin missed)
      => clock - since[verdict.key] < Interval

=============================================================================
