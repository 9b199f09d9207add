------------------------ MODULE ReviewSessionProofs ------------------------
(***************************************************************************)
(* Proofs about ReviewSession, for any number of documents, servers,       *)
(* submissions and rounds, as long as no live server lets its lease run    *)
(* out (~Stalls): one server at a time, and one record for each round.     *)
(***************************************************************************)
EXTENDS ReviewSession, TLAPS

Asks(v, d) == call[v][d].stage # "none"
Applies(v, d) == call[v][d].stage = "apply"
Shows(v, d) == page[v][d].state = "open"

(* A server at work has the lease, and none hangs; a page is shown from    *)
(* its opening to the end of the run.                                      *)
ServersAgree ==
    \A v \in Server :
      /\ run[v] # "hung"
      /\ Working(v) => lease = [owner |-> v, live |-> TRUE]
      /\ run[v] \in {"off", "reconcile", "ended"} => \A d \in Doc : ~Shows(v, d)
      /\ run[v] = "open" => \A d \in todo[v] : ~Shows(v, d)

(* A request is taken while the run serves and may outlive it, and what    *)
(* is about to be applied has been recorded for the page that is shown.    *)
CallsAgree ==
    \A v \in Server, d \in Doc :
      /\ Asks(v, d) => /\ run[v] \in {"serve", "end", "ended"}
                       /\ call[v][d].sub \in Submission
      /\ Applies(v, d) => /\ run[v] = "serve" /\ Shows(v, d)
                          /\ record[d][page[v][d].round] = call[v][d].sub

CallsCarry ==
    \A v \in Server, d \in Doc : Asks(v, d) => call[v][d].sub \in Submission

(* No record is ahead of its document's rounds, and the round a server     *)
(* shows, or is about to show, has none.                                   *)
RecordsAgree ==
    /\ \A d \in Doc, n \in Rounds : record[d][n] # None => n <= entry[d].round
    /\ \A v \in Server, d \in Doc :
         /\ (Working(v) /\ Shows(v, d) /\ ~Applies(v, d)) =>
              record[d][page[v][d].round] = None
         /\ (run[v] = "open" /\ d \in todo[v] /\ entry[d].state = "open") =>
              record[d][entry[d].round] = None

(* The inductive invariant. *)
ReviewInv ==
    /\ ReviewTypeOK /\ ServersAgree /\ CallsAgree /\ RecordsAgree
    /\ SessionAgrees

-----------------------------------------------------------------------------
LEMMA EntryIs ==
    ASSUME NEW e \in EntryType
    PROVE  e.state \in States \cup {"none"} /\ e.round \in Rounds /\ e.round \in Nat
BY ReviewAssumption DEF EntryType, Rounds

LEMMA LeaseIs ==
    ASSUME NEW l \in LeaseType, NEW b \in BOOLEAN
    PROVE  [l EXCEPT !.live = b] \in LeaseType
<1>1. l.owner \in Server \cup {None} /\ l = [owner |-> l.owner, live |-> l.live]
    BY Zenon DEF LeaseType
<1>2. [l EXCEPT !.live = b] = [owner |-> l.owner, live |-> b]
    BY <1>1
<1> QED
    BY <1>1, <1>2, Zenon DEF LeaseType

(* What the helpers of the state file return. *)
LEMMA AppliedIs ==
    ASSUME NEW e \in EntryType, NEW event \in States
    PROVE  /\ Applied(e, event).state = event
           /\ Applied(e, event).armed = e.armed
           /\ Applied(e, event).round =
                IF event = "open" /\ e.state # "open" THEN e.round + 1 ELSE e.round
           /\ Applied(e, event).round \in Nat
           /\ event # "open" => Applied(e, event) \in EntryType
           /\ Applied(e, event).round <= LastRound => Applied(e, event) \in EntryType
<1>1. /\ Applied(e, event).state = event
      /\ Applied(e, event).armed = e.armed
      /\ Applied(e, event).round =
           IF event = "open" /\ e.state # "open" THEN e.round + 1 ELSE e.round
    BY DEF Applied, EntryType
<1>2. e.round \in Nat /\ e.round \in Rounds /\ e.round <= LastRound
    BY ReviewAssumption DEF EntryType, Rounds
<1>3. Applied(e, event).round \in Nat
    BY <1>1, <1>2
<1>4. ASSUME Applied(e, event).round \in Rounds PROVE Applied(e, event) \in EntryType
    BY <1>1, <1>4 DEF Applied, EntryType
<1>5. Applied(e, event).round <= LastRound => Applied(e, event).round \in Rounds
    BY <1>3, ReviewAssumption DEF Rounds
<1>6. event # "open" => Applied(e, event).round \in Rounds
    BY <1>1, <1>2
<1> QED
    BY <1>1, <1>3, <1>4, <1>5, <1>6

LEMMA ArmedIs ==
    ASSUME NEW e \in EntryType
    PROVE  /\ Armed(e) \in EntryType
           /\ Armed(e).round = e.round
           /\ Armed(e).state = IF e.state = "open" THEN "open" ELSE "pending"
BY ReviewAssumption DEF Armed, EntryType, Rounds, States

LEMMA OpenMoves ==
    ASSUME NEW event \in {"changes", "approved", "dismissed"}
    PROVE  CanMove("open", event) /\ event \in States /\ event # "open"
BY DEF CanMove, States

LEMMA SettledIs ==
    ASSUME ReviewTypeOK, NEW d \in Doc
    PROVE  /\ Settled(d) \in EntryType
           /\ Settled(d).round = entry[d].round
           /\ Settled(d) = entry[d] \/ Settled(d).state # "open"
           /\ Settled(d).state = "open" => record[d][entry[d].round] = None
           /\ Settled(d).state \in {"changes", "approved"} =>
                \/ Settled(d) = entry[d]
                \/ /\ record[d][entry[d].round] # None
                   /\ OutcomeOf[record[d][entry[d].round]] = Settled(d).state
<1> DEFINE s == record[d][entry[d].round]
<1>1. entry[d] \in EntryType /\ entry[d].round \in Rounds
    BY DEF ReviewTypeOK, EntryType
<1>2. s \in Submission \cup {None}
    BY <1>1 DEF ReviewTypeOK
<1>3. CASE entry[d].state = "open" /\ s # None
    <2>1. OutcomeOf[s] \in {"changes", "approved", "dismissed"}
        BY <1>2, <1>3, ReviewAssumption
    <2>2. Settled(d) = Applied(entry[d], OutcomeOf[s])
        BY <1>3 DEF Settled
    <2>3. OutcomeOf[s] \in States /\ OutcomeOf[s] # "open"
        BY <2>1 DEF States
    <2>4. /\ Settled(d) \in EntryType
          /\ Settled(d).round = entry[d].round
          /\ Settled(d).state = OutcomeOf[s]
        BY <1>1, <2>2, <2>3, AppliedIs
    <2> QED
        BY <1>3, <2>3, <2>4
<1>4. CASE ~(entry[d].state = "open" /\ s # None)
    <2>1. Settled(d) = entry[d]
        BY <1>4 DEF Settled
    <2> QED
        BY <1>1, <1>4, <2>1
<1> QED
    BY <1>3, <1>4

(* Two servers never work at once: the lease names its only holder.        *)
LEMMA OneAtWork ==
    ASSUME ServersAgree, NEW v \in Server, NEW w \in Server, Working(v), Working(w)
    PROVE  v = w
<1>1. lease.owner = v /\ lease.owner = w
    BY DEF ServersAgree
<1> QED
    BY <1>1

LEMMA ReviewInitInv == ReviewInit => ReviewInv
<1> SUFFICES ASSUME ReviewInit PROVE ReviewInv
    OBVIOUS
<1>0. 0 \in Rounds /\ 0 \in 0..LastBytes
    BY ReviewAssumption DEF Rounds
<1>1. ReviewTypeOK
    BY <1>0 DEF ReviewInit, ReviewTypeOK, Unarmed, NoPage, NoCall, Phases, States,
        EntryType, PageType, CallType, LeaseType
<1>2. ServersAgree
    BY DEF ReviewInit, ServersAgree, Working, Shows, NoPage
<1>3. CallsAgree
    BY DEF ReviewInit, CallsAgree, Asks, Applies, NoCall
<1>4. RecordsAgree
    BY DEF ReviewInit, RecordsAgree, Working, Shows, NoPage
<1>5. SessionAgrees
    <2>1. PageIsOpenRound
        BY DEF ReviewInit, PageIsOpenRound, Working, NoPage
    <2>2. StateFollowsRecord
        BY <1>0 DEF ReviewInit, StateFollowsRecord, Unarmed
    <2> QED
        BY <2>1, <2>2 DEF SessionAgrees
<1> QED
    BY <1>1, <1>2, <1>3, <1>4, <1>5 DEF ReviewInv

-----------------------------------------------------------------------------
(* Every step keeps the types; what is applied has an outcome only because *)
(* the call that applies it carries a submission.                          *)
LEMMA TypeStep ==
    ASSUME ReviewTypeOK, CallsCarry, [ReviewNext]_reviewVars
    PROVE  ReviewTypeOK'
<1>entry. entry \in [Doc -> EntryType]
    BY DEF ReviewTypeOK
<1>record. record \in [Doc -> [Rounds -> Submission \cup {None}]]
    BY DEF ReviewTypeOK
<1>lease. lease \in LeaseType
    BY DEF ReviewTypeOK
<1>run. run \in [Server -> Phases]
    BY DEF ReviewTypeOK
<1>todo. todo \in [Server -> SUBSET Doc]
    BY DEF ReviewTypeOK
<1>page. page \in [Server -> [Doc -> PageType]]
    BY DEF ReviewTypeOK
<1>call. call \in [Server -> [Doc -> CallType]]
    BY DEF ReviewTypeOK
<1>0. /\ bytes \in [Doc -> 0..LastBytes]
      /\ read \in [Server -> [Doc -> EntryType]]
      /\ acked \in SUBSET [doc : Doc, round : Rounds, sub : Submission]
      /\ entry \in [Doc -> EntryType]
      /\ record \in [Doc -> [Rounds -> Submission \cup {None}]]
      /\ lease \in LeaseType
      /\ run \in [Server -> Phases]
      /\ todo \in [Server -> SUBSET Doc]
      /\ page \in [Server -> [Doc -> PageType]]
      /\ call \in [Server -> [Doc -> CallType]]
    BY DEF ReviewTypeOK
<1>1. ASSUME NEW d \in Doc, Arm(d) PROVE ReviewTypeOK'
    BY <1>0, <1>1, ArmedIs DEF Arm, ReviewTypeOK
<1>2. ASSUME NEW d \in Doc, Edit(d) PROVE ReviewTypeOK'
    <2>1. bytes[d] + 1 \in 0..LastBytes
        BY <1>0, <1>2, ReviewAssumption DEF Edit
    <2> QED
        BY <1>0, <1>2, <2>1 DEF Edit, ReviewTypeOK
<1>3. ASSUME NEW v \in Server, ServerNext(v) PROVE ReviewTypeOK'
    <2>0. {"reconcile", "open", "serve", "end", "ended", "hung", "dead"} \subseteq Phases
        BY DEF Phases
    <2>1. CASE Acquire(v)
        <3>1. lease' = lease \/ lease' = [owner |-> v, live |-> TRUE]
            BY <2>1 DEF Acquire
        <3>2. run' = [run EXCEPT ![v] = "ended"] \/ run' = [run EXCEPT ![v] = "reconcile"]
            BY <2>1 DEF Acquire
        <3>3. UNCHANGED <<entry, record, bytes, todo, read, page, call, acked>>
            BY <2>1 DEF Acquire
        <3>4. lease' \in LeaseType
            <4>1. [owner |-> v, live |-> TRUE] \in LeaseType
                BY Zenon DEF LeaseType
            <4> QED
                BY <1>lease, <3>1, <4>1
        <3>5. run' \in [Server -> Phases]
            BY <1>0, <2>0, <3>2
        <3> QED
            BY <1>0, <3>3, <3>4, <3>5 DEF ReviewTypeOK
    <2>2. CASE Reconcile(v)
        <3>1. entry' \in [Doc -> EntryType]
            BY <2>2, SettledIs DEF Reconcile
        <3>2. {d \in Doc : Openable(entry'[d])} \in SUBSET Doc
            OBVIOUS
        <3> QED
            BY <1>0, <2>0, <2>2, <3>1, <3>2 DEF Reconcile, ReviewTypeOK
    <2>3. CASE Serve(v) \/ Release(v)
        <3>1. lease' = lease \/ lease' = [owner |-> None, live |-> FALSE]
            BY <2>3 DEF Serve, Release, Released
        <3>2. run' = [run EXCEPT ![v] = "ended"] \/ run' = [run EXCEPT ![v] = "serve"]
            BY <2>3 DEF Serve, Release
        <3>3. UNCHANGED <<entry, record, bytes, todo, read, page, call, acked>>
            BY <2>3 DEF Serve, Release
        <3>4. lease' \in LeaseType
            <4>1. [owner |-> None, live |-> FALSE] \in LeaseType
                BY Zenon DEF LeaseType
            <4> QED
                BY <1>lease, <3>1, <4>1
        <3>5. run' \in [Server -> Phases]
            BY <1>0, <2>0, <3>2
        <3> QED
            BY <1>0, <3>3, <3>4, <3>5 DEF ReviewTypeOK
    <2>4. CASE End(v) \/ Renew(v)
        <3>1. lease' = lease \/ lease' = [lease EXCEPT !.live = TRUE]
            BY <2>4 DEF End, Renew
        <3>2. run' = run \/ run' = [run EXCEPT ![v] = "end"]
            BY <2>4 DEF End, Renew
        <3>3. UNCHANGED <<entry, record, bytes, todo, read, page, call, acked>>
            BY <2>4 DEF End, Renew
        <3>4. lease' \in LeaseType
            BY <1>lease, <3>1, LeaseIs
        <3>5. run' \in [Server -> Phases]
            BY <1>run, <2>0, <3>2
        <3> QED
            BY <1>0, <3>3, <3>4, <3>5 DEF ReviewTypeOK
    <2>5. CASE Crash(v)
        <3>1. NoCall \in CallType
            BY DEF NoCall, CallType
        <3> QED
            BY <1>0, <2>0, <2>5, <3>1 DEF Crash, ReviewTypeOK
    <2>6. ASSUME NEW d \in Doc, Limit(v, d) PROVE ReviewTypeOK'
        <3>1. Applied(entry[d], "dismissed") \in EntryType
            <4>1. entry[d] \in EntryType /\ "dismissed" \in States
                BY <1>0 DEF States
            <4> QED
                BY <4>1, AppliedIs
        <3>2. entry' \in [Doc -> EntryType]
            BY <1>0, <2>6, <3>1 DEF Limit
        <3>3. todo' \in [Server -> SUBSET Doc] /\ run' \in [Server -> Phases]
            <4>1. todo' = todo \/ todo' = [todo EXCEPT ![v] = @ \ {d}]
                BY <2>6 DEF Limit
            <4>2. run' = run \/ run' = [run EXCEPT ![v] = "dead"]
                BY <2>6 DEF Limit
            <4>3. todo[v] \ {d} \in SUBSET Doc
                BY <1>todo
            <4>4. todo' \in [Server -> SUBSET Doc]
                BY <1>todo, <4>1, <4>3
            <4>5. run' \in [Server -> Phases]
                BY <1>run, <2>0, <4>2
            <4> QED
                BY <4>4, <4>5
        <3> QED
            BY <1>0, <2>6, <3>2, <3>3 DEF Limit, ReviewTypeOK
    <2>7. ASSUME NEW d \in Doc, OpenRound(v, d) PROVE ReviewTypeOK'
        <3>1. /\ todo' \in [Server -> SUBSET Doc] /\ run' \in [Server -> Phases]
              /\ UNCHANGED <<record, lease, bytes, read, call, acked>>
            BY <1>0, <2>0, <2>7 DEF OpenRound
        <3>2. CASE UNCHANGED <<entry, page>>
            BY <1>0, <3>1, <3>2 DEF ReviewTypeOK
        <3>3. CASE ~UNCHANGED <<entry, page>>
            <4>1. /\ Applied(entry[d], "open").round <= LastRound
                  /\ entry' = [entry EXCEPT ![d] = Applied(@, "open")]
                BY <2>7, <3>3 DEF OpenRound
            <4>2. PICK b \in 0..bytes[d] : page' = [page EXCEPT ![v][d] =
                    [state |-> "open", round |-> entry'[d].round, bytes |-> b]]
                BY <2>7, <3>3 DEF OpenRound
            <4>3. Applied(entry[d], "open") \in EntryType
                <5>1. entry[d] \in EntryType /\ "open" \in States
                    BY <1>0 DEF States
                <5> QED
                    BY <4>1, <5>1, AppliedIs
            <4>4. b \in 0..LastBytes
                BY <1>0, <4>2, ReviewAssumption
            <4>5. entry' \in [Doc -> EntryType] /\ entry'[d] \in EntryType
                BY <1>0, <4>1, <4>3
            <4>6. [state |-> "open", round |-> entry'[d].round, bytes |-> b] \in PageType
                BY <4>4, <4>5 DEF States, EntryType, PageType
            <4>7. page' \in [Server -> [Doc -> PageType]]
                BY <1>0, <4>2, <4>6
            <4> QED
                BY <3>1, <1>0, <4>5, <4>7 DEF ReviewTypeOK
        <3> QED
            BY <3>2, <3>3
    <2>8. ASSUME NEW d \in Doc, NEW s \in Submission, Submit(v, d, s) PROVE ReviewTypeOK'
        <3>1. [sub |-> s, stage |-> "inspect"] \in CallType
            BY DEF CallType
        <3> QED
            BY <1>0, <2>8, <3>1 DEF Submit, ReviewTypeOK
    <2>9. ASSUME NEW d \in Doc, WriteRecord(v, d) PROVE ReviewTypeOK'
        <3>1. page[v][d].round \in Rounds /\ call[v][d].sub \in Submission \cup {None}
            BY <1>0 DEF PageType, CallType
        <3>2. NoCall \in CallType /\ [call[v][d] EXCEPT !.stage = "apply"] \in CallType
            <4>1. call[v][d] \in CallType
                BY <1>0
            <4> QED
                BY <4>1 DEF NoCall, CallType
        <3>3. call' \in [Server -> [Doc -> CallType]]
            <4>1. \/ call' = [call EXCEPT ![v][d].stage = "apply"]
                  \/ call' = [call EXCEPT ![v][d] = NoCall]
                BY <2>9 DEF WriteRecord
            <4> QED
                BY <1>call, <3>2, <4>1
        <3>4. record' \in [Doc -> [Rounds -> Submission \cup {None}]]
            <4>1. \/ record' = record
                  \/ record' = [record EXCEPT ![d][page[v][d].round] = call[v][d].sub]
                BY <2>9 DEF WriteRecord
            <4> QED
                BY <1>record, <3>1, <4>1
        <3> QED
            BY <1>0, <2>9, <3>3, <3>4 DEF WriteRecord, ReviewTypeOK
    <2>10. ASSUME NEW d \in Doc, ApplyRecord(v, d) PROVE ReviewTypeOK'
        <3>1. NoCall \in CallType
            BY DEF NoCall, CallType
        <3>2. call' \in [Server -> [Doc -> CallType]] /\ UNCHANGED <<record, lease, bytes, todo, read>>
            BY <1>0, <2>10, <3>1 DEF ApplyRecord
        <3>3. CASE UNCHANGED <<entry, page, acked, run>>
            BY <1>0, <3>2, <3>3 DEF ReviewTypeOK
        <3>4. CASE ~UNCHANGED <<entry, page, acked, run>>
            <4> DEFINE s == call[v][d].sub
            <4>1. /\ entry' = [entry EXCEPT ![d] = Applied(@, OutcomeOf[s])]
                  /\ page' = [page EXCEPT ![v][d].state = OutcomeOf[s]]
                  /\ acked' = acked \cup {[doc |-> d, round |-> page[v][d].round, sub |-> s]}
                  /\ run' = run \/ run' = [run EXCEPT ![v] = "end"]
                BY <2>10, <3>4 DEF ApplyRecord
            <4>2. s \in Submission
                BY <2>10 DEF ApplyRecord, CallsCarry, Asks
            <4>3. OutcomeOf[s] \in {"changes", "approved", "dismissed"}
                BY <4>2, ReviewAssumption
            <4>4. Applied(entry[d], OutcomeOf[s]) \in EntryType
                <5>1. entry[d] \in EntryType
                    BY <1>0
                <5> QED
                    BY <4>3, <5>1, AppliedIs, OpenMoves
            <4>5. /\ [page[v][d] EXCEPT !.state = OutcomeOf[s]] \in PageType
                  /\ page[v][d].round \in Rounds
                <5>1. page[v][d] \in PageType
                    BY <1>0
                <5> QED
                    BY <4>3, <5>1 DEF PageType, States
            <4>6. entry' \in [Doc -> EntryType]
                BY <1>0, <4>1, <4>4
            <4>7. page' \in [Server -> [Doc -> PageType]]
                BY <1>0, <4>1, <4>5
            <4>8. run' \in [Server -> Phases]
                BY <1>0, <2>0, <4>1
            <4>9. acked' \in SUBSET [doc : Doc, round : Rounds, sub : Submission]
                BY <1>0, <4>1, <4>2, <4>5
            <4> QED
                BY <1>0, <3>2, <4>6, <4>7, <4>8, <4>9 DEF ReviewTypeOK
        <3> QED
            BY <3>3, <3>4
    <2>11. ASSUME NEW d \in Doc, DismissRest(v, d) PROVE ReviewTypeOK'
        <3>1. Applied(entry[d], "dismissed") \in EntryType
            <4>1. entry[d] \in EntryType /\ "dismissed" \in States
                BY <1>0 DEF States
            <4> QED
                BY <4>1, AppliedIs
        <3>2. [page[v][d] EXCEPT !.state = "dismissed"] \in PageType
            <4>1. page[v][d] \in PageType
                BY <1>0
            <4> QED
                BY <4>1 DEF States, PageType
        <3>3. entry' \in [Doc -> EntryType] /\ page' \in [Server -> [Doc -> PageType]]
            <4>1. \/ entry' = entry
                  \/ entry' = [entry EXCEPT ![d] = Applied(@, "dismissed")]
                BY <2>11 DEF DismissRest
            <4>2. page' = page \/ page' = [page EXCEPT ![v][d].state = "dismissed"]
                BY <2>11 DEF DismissRest
            <4>3. entry' \in [Doc -> EntryType]
                BY <1>entry, <3>1, <4>1
            <4>4. page' \in [Server -> [Doc -> PageType]]
                BY <1>page, <3>2, <4>2
            <4> QED
                BY <4>3, <4>4
        <3>4. run' \in [Server -> Phases]
            <4>1. run' = run \/ run' = [run EXCEPT ![v] = "hung"]
                BY <2>11 DEF DismissRest
            <4> QED
                BY <1>0, <2>0, <4>1
        <3> QED
            BY <1>0, <2>11, <3>3, <3>4 DEF DismissRest, ReviewTypeOK
    <2> QED
        BY <1>3, <2>1, <2>2, <2>3, <2>4, <2>5, <2>6, <2>7, <2>8, <2>9, <2>10, <2>11
        DEF ServerNext
<1>4. CASE Lapse
    <2>1. lease' \in LeaseType
        BY <1>lease, <1>4, LeaseIs DEF Lapse
    <2> QED
        BY <1>0, <1>4, <2>1 DEF Lapse, ReviewTypeOK
<1>5. CASE UNCHANGED reviewVars
    BY <1>0, <1>5 DEF reviewVars, ReviewTypeOK
<1> QED
    BY <1>1, <1>2, <1>3, <1>4, <1>5 DEF ReviewNext

LEMMA CarryStep ==
    ASSUME ReviewTypeOK, CallsCarry, [ReviewNext]_reviewVars
    PROVE  CallsCarry'
<1>1. call \in [Server -> [Doc -> CallType]]
    BY DEF ReviewTypeOK
<1>2. \/ UNCHANGED call
      \/ \E v \in Server : call' = [call EXCEPT ![v] = [d \in Doc |-> NoCall]]
      \/ \E v \in Server, d \in Doc :
           \/ \E s \in Submission : call' = [call EXCEPT ![v][d] = [sub |-> s, stage |-> "inspect"]]
           \/ call[v][d].stage = "inspect" /\ call' = [call EXCEPT ![v][d].stage = "apply"]
           \/ call' = [call EXCEPT ![v][d] = NoCall]
    BY DEF ReviewNext, ServerNext, reviewVars, Arm, Edit, Acquire, Reconcile, Serve, End,
           Release, Renew, Crash, Limit, OpenRound, Submit, WriteRecord, ApplyRecord,
           DismissRest, Lapse
<1>3. CASE UNCHANGED call
    BY <1>3 DEF CallsCarry, Asks
<1>4. ASSUME NEW v \in Server, call' = [call EXCEPT ![v] = [d \in Doc |-> NoCall]]
      PROVE  CallsCarry'
    BY <1>1, <1>4 DEF CallsCarry, Asks, NoCall
<1>5. ASSUME NEW v \in Server, NEW d \in Doc, NEW s \in Submission,
             call' = [call EXCEPT ![v][d] = [sub |-> s, stage |-> "inspect"]]
      PROVE  CallsCarry'
    BY <1>1, <1>5 DEF CallsCarry, Asks
<1>6. ASSUME NEW v \in Server, NEW d \in Doc, call[v][d].stage = "inspect",
             call' = [call EXCEPT ![v][d].stage = "apply"]
      PROVE  CallsCarry'
    <2>1. call'[v][d].sub = call[v][d].sub
        BY <1>1, <1>6 DEF CallType
    <2>2. \A w \in Server, e \in Doc : (w # v \/ e # d) => call'[w][e] = call[w][e]
        BY <1>1, <1>6
    <2> QED
        BY <1>6, <2>1, <2>2 DEF CallsCarry, Asks
<1>7. ASSUME NEW v \in Server, NEW d \in Doc, call' = [call EXCEPT ![v][d] = NoCall]
      PROVE  CallsCarry'
    BY <1>1, <1>7 DEF CallsCarry, Asks, NoCall
<1> QED
    BY <1>2, <1>3, <1>4, <1>5, <1>6, <1>7

-----------------------------------------------------------------------------
(* What each step keeps besides the types. *)
Agree == ServersAgree /\ CallsAgree /\ RecordsAgree /\ SessionAgrees

LEMMA InvFacts ==
    ASSUME ReviewInv
    PROVE  /\ ReviewTypeOK /\ ServersAgree /\ CallsAgree /\ RecordsAgree
           /\ PageIsOpenRound /\ StateFollowsRecord
           /\ \A d \in Doc : entry[d] \in EntryType /\ entry[d].round \in Rounds
           /\ \A v \in Server, d \in Doc :
                /\ page[v][d] \in PageType /\ page[v][d].round \in Rounds
                /\ call[v][d] \in CallType
BY DEF ReviewInv, SessionAgrees, ReviewTypeOK, EntryType, PageType

LEMMA QuietStep ==
    ASSUME ReviewInv, UNCHANGED <<entry, record, lease, run, todo, page, call>>
    PROVE  Agree'
BY DEF ReviewInv, Agree, ServersAgree, CallsAgree, RecordsAgree, SessionAgrees,
       PageIsOpenRound, StateFollowsRecord, Working, Shows, Asks, Applies

(* A hook's arming leaves an open round as it is, and the count. *)
LEMMA ArmStep ==
    ASSUME ReviewInv, NEW d \in Doc, Arm(d)
    PROVE  Agree'
<1>1. /\ entry \in [Doc -> EntryType] /\ entry[d] \in EntryType
      /\ entry' = [entry EXCEPT ![d] = Armed(entry[d])]
    BY DEF ReviewInv, ReviewTypeOK, Arm
<1>2. \A e \in Doc :
        /\ entry'[e].round = entry[e].round
        /\ (entry'[e].state = "open") <=> (entry[e].state = "open")
        /\ entry'[e].state \in {"changes", "approved"} => entry'[e].state = entry[e].state
    BY <1>1, ArmedIs
<1>3. UNCHANGED <<record, lease, run, todo, page, call>>
    BY DEF Arm
<1>4. ServersAgree' /\ CallsAgree'
    BY <1>3 DEF ReviewInv, ServersAgree, CallsAgree, Working, Shows, Asks, Applies
<1>5. RecordsAgree'
    BY <1>2, <1>3 DEF ReviewInv, RecordsAgree, Working, Shows, Applies
<1>6. PageIsOpenRound'
    BY <1>2, <1>3, InvFacts DEF PageIsOpenRound, Working
<1>7. StateFollowsRecord'
    BY <1>2, <1>3, InvFacts DEF StateFollowsRecord
<1> QED
    BY <1>4, <1>5, <1>6, <1>7 DEF Agree, SessionAgrees

(* A lease is taken only when nobody works. *)
LEMMA AcquireStep ==
    ASSUME ReviewInv, NEW v \in Server, Acquire(v)
    PROVE  Agree'
<1> USE InvFacts
<1>0. run[v] = "off" /\ UNCHANGED <<entry, record, todo, page, call>> /\ ~Working(v)
    BY DEF Acquire, Working
<1>run. run \in [Server -> Phases]
    BY DEF ReviewTypeOK
<1>1. CASE Free
    <2>1. lease' = [owner |-> v, live |-> TRUE] /\ run' = [run EXCEPT ![v] = "reconcile"]
        BY <1>1 DEF Acquire
    <2>2. ASSUME NEW w \in Server, Working(w) PROVE FALSE
        <3>1. lease = [owner |-> w, live |-> TRUE]
            BY <2>2 DEF ServersAgree
        <3>2. lease.owner = w /\ lease.live
            BY <3>1
        <3> QED
            BY <1>1, <2>2, <3>2, ReviewAssumption DEF Free, Alive, Working
    <2>3. \A w \in Server : w # v => run'[w] = run[w] /\ ~Working(w)'
        BY <1>run, <2>1, <2>2 DEF Working
    <2>4. run'[v] = "reconcile"
        BY <1>run, <2>1
    <2>5. ServersAgree'
        BY <1>0, <2>1, <2>3, <2>4 DEF ServersAgree, Shows
    <2>6. CallsAgree'
        BY <1>0, <2>3, <2>4 DEF CallsAgree, Shows, Asks, Applies
    <2>7. RecordsAgree'
        BY <1>0, <2>3, <2>4 DEF RecordsAgree, ServersAgree, Shows, Applies
    <2>8. PageIsOpenRound'
        BY <1>0, <2>3, <2>4 DEF PageIsOpenRound, ServersAgree, Shows
    <2>9. StateFollowsRecord'
        BY <1>0, <2>3, <2>4 DEF StateFollowsRecord
    <2> QED
        BY <2>5, <2>6, <2>7, <2>8, <2>9 DEF Agree, SessionAgrees
<1>2. CASE ~Free
    <2>1. lease' = lease /\ run' = [run EXCEPT ![v] = "ended"]
        BY <1>2 DEF Acquire
    <2>2. run'[v] = "ended" /\ \A w \in Server : w # v => run'[w] = run[w]
        BY <1>run, <2>1
    <2>3. ServersAgree'
        BY <1>0, <2>1, <2>2 DEF ServersAgree, Shows, Working
    <2>4. CallsAgree'
        BY <1>0, <2>2 DEF CallsAgree, Shows, Asks, Applies
    <2>5. RecordsAgree'
        BY <1>0, <2>2 DEF RecordsAgree, Shows, Applies, Working
    <2>6. PageIsOpenRound'
        BY <1>0, <2>2 DEF PageIsOpenRound, Working
    <2>7. StateFollowsRecord'
        BY <1>0, <2>2 DEF StateFollowsRecord
    <2> QED
        BY <2>3, <2>4, <2>5, <2>6, <2>7 DEF Agree, SessionAgrees
<1> QED
    BY <1>1, <1>2

(* What a crash left is settled before anything is opened. *)
LEMMA ReconcileStep ==
    ASSUME ReviewInv, NEW v \in Server, Reconcile(v)
    PROVE  Agree'
<1> USE InvFacts
<1>0. /\ run[v] = "reconcile" /\ UNCHANGED <<record, lease, page, call>>
      /\ entry' = [d \in Doc |-> Settled(d)]
      /\ todo' = [todo EXCEPT ![v] = {d \in Doc : Openable(entry'[d])}]
      /\ run' = [run EXCEPT ![v] = "open"]
    BY DEF Reconcile
<1>1. /\ run'[v] = "open" /\ \A w \in Server : w # v => run'[w] = run[w] /\ todo'[w] = todo[w]
      /\ todo'[v] \subseteq Doc
    BY <1>0 DEF ReviewTypeOK
<1>2. \A w \in Server : Working(w) => w = v
    BY <1>0, OneAtWork DEF Working
<1>3. \A d \in Doc : entry'[d] = Settled(d)
    BY <1>0
<1>4. ServersAgree'
    BY <1>0, <1>1 DEF ServersAgree, Shows, Working
<1>5. CallsAgree'
    BY <1>0, <1>1 DEF CallsAgree, Shows, Asks, Applies
<1>6. \A d \in Doc : /\ entry'[d].round = entry[d].round
                     /\ entry'[d].state = "open" => record[d][entry[d].round] = None
    BY <1>3, SettledIs
<1>7. RecordsAgree'
    BY <1>0, <1>1, <1>2, <1>6 DEF RecordsAgree, ServersAgree, Shows, Applies, Working
<1>8. PageIsOpenRound'
    BY <1>0, <1>1, <1>2 DEF PageIsOpenRound, ServersAgree, Shows, Working
<1>9. StateFollowsRecord'
    BY <1>0, <1>1, <1>3, <1>6, SettledIs DEF StateFollowsRecord
<1> QED
    BY <1>4, <1>5, <1>7, <1>8, <1>9 DEF Agree, SessionAgrees

(* A server that stops: what it showed is nobody's page any more, and a    *)
(* record it left without its state waits for the next one.                *)
LEMMA DeathStep ==
    ASSUME ReviewInv, NEW v \in Server, Working(v),
           run' = [run EXCEPT ![v] = "dead"],
           UNCHANGED <<entry, record, lease, page>>,
           \A w \in Server : w # v => todo'[w] = todo[w] /\ call'[w] = call[w],
           \A d \in Doc : call'[v][d].stage = "none"
    PROVE  Agree'
<1> USE InvFacts
<1>1. /\ run'[v] = "dead" /\ ~Working(v)'
      /\ \A w \in Server : w # v => run'[w] = run[w]
    BY DEF ReviewTypeOK, Working
<1>2. \A w \in Server : w # v => ~Working(w)
    BY OneAtWork
<1>3. ServersAgree'
    BY <1>1 DEF ServersAgree, Shows, Working
<1>4. CallsAgree'
    BY <1>1 DEF CallsAgree, Shows, Asks, Applies
<1>5. RecordsAgree'
    BY <1>1, <1>2 DEF RecordsAgree, Shows, Applies, Working
<1>6. PageIsOpenRound'
    BY <1>1, <1>2 DEF PageIsOpenRound, Working
<1>7. \A w \in Server : run'[w] \in {"off", "reconcile", "ended", "dead"}
    <2>1. \A w \in Server : w # v => run[w] \in {"off", "ended", "dead"}
        BY <1>2 DEF ReviewTypeOK, Phases, ServersAgree, Working
    <2> QED
        BY <1>1, <2>1
<1>8. StateFollowsRecord'
    BY <1>7 DEF StateFollowsRecord
<1> QED
    BY <1>3, <1>4, <1>5, <1>6, <1>8 DEF Agree, SessionAgrees

(* A document that had its rounds is dismissed unopened. *)
LEMMA LimitStep ==
    ASSUME ReviewInv, NEW v \in Server, NEW d \in Doc, Limit(v, d)
    PROVE  Agree'
<1> USE InvFacts
<1>0. run[v] = "open" /\ d \in todo[v] /\ UNCHANGED <<record, lease, page, call>> /\ Working(v)
    BY DEF Limit, Working
<1>1. CASE CanMove(entry[d].state, "dismissed")
    <2>1. /\ entry' = [entry EXCEPT ![d] = Applied(entry[d], "dismissed")]
          /\ todo' = [todo EXCEPT ![v] = @ \ {d}] /\ run' = run
        BY <1>1 DEF Limit
    <2>2. "dismissed" \in States
        BY DEF States
    <2>3. /\ entry'[d].state = "dismissed" /\ entry'[d].round = entry[d].round
          /\ \A e \in Doc : e # d => entry'[e] = entry[e]
        BY <2>1, <2>2, AppliedIs DEF ReviewTypeOK
    <2>4. todo'[v] = todo[v] \ {d} /\ \A w \in Server : w # v => todo'[w] = todo[w]
        BY <2>1 DEF ReviewTypeOK
    <2>5. \A w \in Server : Working(w) => w = v
        BY <1>0, OneAtWork
    <2>6. ServersAgree'
        BY <1>0, <2>1, <2>4 DEF ServersAgree, Shows, Working
    <2>7. CallsAgree'
        BY <1>0, <2>1 DEF CallsAgree, Shows, Asks, Applies
    <2>8. RecordsAgree'
        BY <1>0, <2>1, <2>3, <2>4 DEF RecordsAgree, Shows, Applies, Working
    <2>9. PageIsOpenRound'
        BY <1>0, <2>1, <2>3, <2>5 DEF PageIsOpenRound, ServersAgree, Shows, Working
    <2>10. StateFollowsRecord'
        BY <1>0, <2>1, <2>3 DEF StateFollowsRecord
    <2> QED
        BY <2>6, <2>7, <2>8, <2>9, <2>10 DEF Agree, SessionAgrees
<1>2. CASE ~CanMove(entry[d].state, "dismissed")
    <2>1. run' = [run EXCEPT ![v] = "dead"] /\ UNCHANGED <<entry, todo>>
        BY <1>2 DEF Limit
    <2>2. \A e \in Doc : call'[v][e].stage = "none"
        BY <1>0 DEF CallsAgree, Asks
    <2> QED
        BY <1>0, <2>1, <2>2, DeathStep
<1> QED
    BY <1>1, <1>2

(* A round is opened: a new one, ahead of every record, or the one a dead  *)
(* server left open without a record.                                      *)
LEMMA OpenRoundStep ==
    ASSUME ReviewInv, ReviewTypeOK', NEW v \in Server, NEW d \in Doc, OpenRound(v, d)
    PROVE  Agree'
<1> USE InvFacts
<1>0. /\ run[v] = "open" /\ d \in todo[v] /\ UNCHANGED <<record, lease, call>> /\ Working(v)
      /\ todo' = [todo EXCEPT ![v] = @ \ {d}]
    BY DEF OpenRound, Working
<1>1. todo'[v] = todo[v] \ {d} /\ \A w \in Server : w # v => todo'[w] = todo[w]
    BY <1>0 DEF ReviewTypeOK
<1>2. \A w \in Server : Working(w) => w = v
    BY <1>0, OneAtWork
<1>3. CASE UNCHANGED <<entry, page, run>>
    <2>1. ServersAgree' /\ CallsAgree'
        BY <1>0, <1>1, <1>3 DEF ServersAgree, CallsAgree, Shows, Asks, Applies, Working
    <2>2. RecordsAgree'
        BY <1>0, <1>1, <1>3 DEF RecordsAgree, Shows, Applies, Working
    <2>3. PageIsOpenRound' /\ StateFollowsRecord'
        BY <1>0, <1>3 DEF PageIsOpenRound, StateFollowsRecord, Working
    <2> QED
        BY <2>1, <2>2, <2>3 DEF Agree, SessionAgrees
<1>4. CASE run' = [run EXCEPT ![v] = "dead"] /\ UNCHANGED <<entry, page>>
    <2>1. \A e \in Doc : call'[v][e].stage = "none"
        BY <1>0 DEF CallsAgree, Asks
    <2> QED
        BY <1>0, <1>1, <1>4, <2>1, DeathStep
<1>5. CASE /\ CanMove(entry[d].state, "open")
           /\ entry' = [entry EXCEPT ![d] = Applied(@, "open")]
           /\ \E b \in 0..bytes[d] : page' = [page EXCEPT ![v][d] =
                [state |-> "open", round |-> entry'[d].round, bytes |-> b]]
           /\ UNCHANGED run
    <2> DEFINE n == entry'[d].round
    <2>1. PICK b : page' = [page EXCEPT ![v][d] =
                [state |-> "open", round |-> n, bytes |-> b]]
        BY <1>5
    <2>2. /\ page'[v][d].state = "open" /\ page'[v][d].round = n
          /\ \A w \in Server, e \in Doc : (w # v \/ e # d) => page'[w][e] = page[w][e]
        BY <2>1 DEF ReviewTypeOK
    <2>3. "open" \in States
        BY DEF States
    <2>4. /\ entry'[d].state = "open"
          /\ n = IF entry[d].state # "open" THEN entry[d].round + 1 ELSE entry[d].round
          /\ \A e \in Doc : e # d => entry'[e] = entry[e]
        BY <1>5, <2>3, AppliedIs DEF ReviewTypeOK
    <2>. HIDE DEF n
    <2>5. n \in Rounds /\ entry[d].round <= n
        BY <2>4, EntryIs DEF ReviewTypeOK, EntryType, n
    <2>6. record[d][n] = None
        <3>1. CASE entry[d].state = "open"
            BY <1>0, <2>4, <3>1 DEF RecordsAgree
        <3>2. CASE entry[d].state # "open"
            BY <2>4, <2>5, <3>2, EntryIs DEF RecordsAgree
        <3> QED
            BY <3>1, <3>2
    <2>7. ServersAgree'
        BY <1>0, <1>1, <1>5, <2>2 DEF ServersAgree, Shows, Working
    <2>8. CallsAgree'
        BY <1>0, <1>5, <2>2 DEF CallsAgree, Shows, Asks, Applies
    <2>9. RecordsAgree'
        <3>1. \A e \in Doc, m \in Rounds : record'[e][m] # None => m <= entry'[e].round
            BY <1>0, <2>4, <2>5, EntryIs, ReviewAssumption DEF RecordsAgree, Rounds, n
        <3>2. \A w \in Server, e \in Doc :
                (Working(w)' /\ Shows(w, e)' /\ ~Applies(w, e)') =>
                  record'[e][page'[w][e].round] = None
            BY <1>0, <1>5, <2>2, <2>6 DEF RecordsAgree, Shows, Applies, Working
        <3>3. \A w \in Server, e \in Doc :
                (run'[w] = "open" /\ e \in todo'[w] /\ entry'[e].state = "open") =>
                  record'[e][entry'[e].round] = None
            BY <1>0, <1>1, <1>2, <1>5, <2>4 DEF RecordsAgree, Working
        <3> QED
            BY <3>1, <3>2, <3>3 DEF RecordsAgree
    <2>10. PageIsOpenRound'
        BY <1>2, <1>5, <2>2, <2>4 DEF PageIsOpenRound, Working, n
    <2>11. StateFollowsRecord'
        BY <1>0, <1>5, <2>4, <2>6 DEF StateFollowsRecord, n
    <2> QED
        BY <2>7, <2>8, <2>9, <2>10, <2>11 DEF Agree, SessionAgrees
<1> QED
    BY <1>3, <1>4, <1>5 DEF OpenRound

(* The run goes from opening to serving, or from serving to its end. *)
LEMMA ServingStep ==
    ASSUME ReviewInv, NEW v \in Server,
           \/ run[v] = "open" /\ run' = [run EXCEPT ![v] = "serve"]
           \/ run[v] = "serve" /\ ~Busy(v) /\ run' = [run EXCEPT ![v] = "end"],
           UNCHANGED <<entry, record, lease, todo, page, call>>
    PROVE  Agree'
<1> USE InvFacts
<1>1. /\ run'[v] \in {"serve", "end"} /\ run[v] \in {"open", "serve"}
      /\ \A w \in Server : w # v => run'[w] = run[w]
      /\ \A w \in Server : Working(w)' <=> Working(w)
    BY DEF ReviewTypeOK, Working
<1>2. ServersAgree'
    BY <1>1 DEF ServersAgree, Shows
<1>3. CallsAgree'
    BY <1>1 DEF CallsAgree, Shows, Asks, Applies, Busy, ReviewTypeOK
<1>4. RecordsAgree'
    BY <1>1 DEF RecordsAgree, Shows, Applies
<1>5. PageIsOpenRound' /\ StateFollowsRecord'
    BY <1>1 DEF PageIsOpenRound, StateFollowsRecord
<1> QED
    BY <1>2, <1>3, <1>4, <1>5 DEF Agree, SessionAgrees

(* A server that shows nothing any more gives its lease up. *)
LEMMA ReleaseStep ==
    ASSUME ReviewInv, NEW v \in Server, run[v] \in {"open", "end"},
           \A d \in Doc : ~Shows(v, d),
           Released(v), run' = [run EXCEPT ![v] = "ended"],
           UNCHANGED <<entry, record, todo, page, call>>
    PROVE  Agree'
<1> USE InvFacts
<1>1. /\ run'[v] = "ended" /\ ~Working(v)'
      /\ \A w \in Server : w # v => run'[w] = run[w]
    BY DEF ReviewTypeOK, Working
<1>2. \A w \in Server : w # v => ~Working(w) /\ ~Working(w)'
    BY <1>1, OneAtWork DEF Working
<1>3. ServersAgree'
    BY <1>1, <1>2 DEF ServersAgree, Shows
<1>4. CallsAgree'
    BY <1>1 DEF CallsAgree, Shows, Asks, Applies
<1>5. RecordsAgree'
    BY <1>1, <1>2 DEF RecordsAgree, Shows, Applies
<1>6. PageIsOpenRound'
    BY <1>1, <1>2 DEF PageIsOpenRound
<1>7. StateFollowsRecord'
    BY <1>1 DEF StateFollowsRecord
<1> QED
    BY <1>3, <1>4, <1>5, <1>6, <1>7 DEF Agree, SessionAgrees

LEMMA SubmitStep ==
    ASSUME ReviewInv, NEW v \in Server, NEW d \in Doc, NEW s \in Submission, Submit(v, d, s)
    PROVE  Agree'
<1> USE InvFacts
<1>1. /\ run[v] = "serve" /\ ~Busy(v) /\ UNCHANGED <<entry, record, lease, run, todo, page>>
      /\ call' = [call EXCEPT ![v][d] = [sub |-> s, stage |-> "inspect"]]
      /\ call[v][d] = NoCall
    BY DEF Submit
<1>2. /\ call'[v][d].sub = s /\ call'[v][d].stage = "inspect"
      /\ \A w \in Server, e \in Doc : (w # v \/ e # d) => call'[w][e] = call[w][e]
    BY <1>1 DEF ReviewTypeOK
<1>3. \A w \in Server, e \in Doc :
        /\ Applies(w, e)' <=> Applies(w, e)
        /\ Applies(w, e) => call'[w][e] = call[w][e]
    BY <1>1, <1>2 DEF Applies, NoCall
<1>4. ServersAgree'
    BY <1>1 DEF ServersAgree, Shows, Working
<1>5. CallsAgree'
    BY <1>1, <1>2, <1>3 DEF CallsAgree, Shows, Asks
<1>6. RecordsAgree'
    BY <1>1, <1>3 DEF RecordsAgree, Shows, Working
<1>7. PageIsOpenRound'
    BY <1>1 DEF PageIsOpenRound, Working
<1>8. StateFollowsRecord'
    BY <1>1, <1>2 DEF StateFollowsRecord, NoCall
<1> QED
    BY <1>4, <1>5, <1>6, <1>7, <1>8 DEF Agree, SessionAgrees

(* A record is written by the server at work, for the round it shows,      *)
(* which the state file has open and which has no record.                  *)
LEMMA WriteFacts ==
    ASSUME ReviewInv, NEW v \in Server, NEW d \in Doc, WriteRecord(v, d), StillOpen(v, d)
    PROVE  /\ run[v] = "serve" /\ Shows(v, d) /\ call[v][d].sub \in Submission
           /\ entry[d].state = "open" /\ entry[d].round = page[v][d].round
           /\ record[d][page[v][d].round] = None
<1> USE InvFacts
<1>1. Resumes(v) /\ call[v][d].stage = "inspect"
    BY DEF WriteRecord
<1>2. Shows(v, d)
    BY DEF StillOpen, Shows
<1>3. run[v] \in {"serve", "end", "ended"} /\ call[v][d].sub \in Submission
    BY <1>1 DEF CallsAgree, Asks
<1>4. run[v] = "serve"
    BY <1>1, <1>2, <1>3 DEF Resumes, ServersAgree
<1>5. entry[d].state = "open" /\ entry[d].round = page[v][d].round
    BY <1>2, <1>4 DEF PageIsOpenRound, Working, Shows
<1>6. record[d][page[v][d].round] = None
    BY <1>1, <1>2, <1>4 DEF RecordsAgree, Working, Applies
<1> QED
    BY <1>2, <1>3, <1>4, <1>5, <1>6

LEMMA WriteRecordStep ==
    ASSUME ReviewInv, NEW v \in Server, NEW d \in Doc, WriteRecord(v, d)
    PROVE  Agree'
<1> USE InvFacts
<1>0. /\ ~Busy(v) /\ call[v][d].stage = "inspect"
      /\ UNCHANGED <<entry, lease, run, todo, page>>
    BY DEF WriteRecord, Resumes
<1>1. CASE call' = [call EXCEPT ![v][d] = NoCall] /\ UNCHANGED record
    <2>1. /\ call'[v][d].stage = "none"
          /\ \A w \in Server, e \in Doc : (w # v \/ e # d) => call'[w][e] = call[w][e]
        BY <1>1 DEF ReviewTypeOK, NoCall
    <2>2. ServersAgree' /\ PageIsOpenRound'
        BY <1>0 DEF ServersAgree, Shows, PageIsOpenRound, Working
    <2>3. CallsAgree'
        BY <1>0, <1>1, <2>1 DEF CallsAgree, Shows, Asks, Applies
    <2>4. RecordsAgree'
        BY <1>0, <1>1, <2>1 DEF RecordsAgree, Shows, Applies, Working
    <2>5. StateFollowsRecord'
        BY <1>0, <1>1, <2>1 DEF StateFollowsRecord
    <2> QED
        BY <2>2, <2>3, <2>4, <2>5 DEF Agree, SessionAgrees
<1>2. CASE /\ StillOpen(v, d)
           /\ record' = [record EXCEPT ![d][page[v][d].round] = call[v][d].sub]
           /\ call' = [call EXCEPT ![v][d].stage = "apply"]
    <2> DEFINE n == page[v][d].round
               s == call[v][d].sub
    <2>1. /\ run[v] = "serve" /\ Shows(v, d) /\ s \in Submission
          /\ entry[d].state = "open" /\ entry[d].round = n /\ record[d][n] = None
          /\ record' = [record EXCEPT ![d][n] = s]
          /\ call' = [call EXCEPT ![v][d].stage = "apply"]
        BY <1>2, WriteFacts
    <2>2. /\ record'[d][n] = s
          /\ \A e \in Doc, m \in Rounds : (e # d \/ m # n) => record'[e][m] = record[e][m]
        BY <2>1 DEF ReviewTypeOK
    <2>3. /\ call'[v][d] = [sub |-> s, stage |-> "apply"]
          /\ \A w \in Server, e \in Doc : (w # v \/ e # d) => call'[w][e] = call[w][e]
        BY <2>1 DEF ReviewTypeOK, CallType
    <2>4. \A w \in Server : Working(w) => w = v
        BY <2>1, OneAtWork DEF Working
    <2>5. \A w \in Server, e \in Doc : ~Applies(w, e)
        BY <1>0, <2>4 DEF CallsAgree, Applies, Busy, Working
    <2>6. ServersAgree' /\ PageIsOpenRound'
        BY <1>0 DEF ServersAgree, Shows, PageIsOpenRound, Working
    <2>7. CallsAgree'
        BY <1>0, <2>1, <2>2, <2>3, <2>5 DEF CallsAgree, Shows, Asks, Applies
    <2>8. RecordsAgree'
        <3>1. \A e \in Doc, m \in Rounds : record'[e][m] # None => m <= entry'[e].round
            BY <1>0, <2>1, <2>2, EntryIs DEF RecordsAgree
        <3>2. \A w \in Server, e \in Doc :
                /\ (Working(w)' /\ Shows(w, e)' /\ ~Applies(w, e)') =>
                     record'[e][page'[w][e].round] = None
                /\ (run'[w] = "open" /\ e \in todo'[w] /\ entry'[e].state = "open") =>
                     record'[e][entry'[e].round] = None
            BY <1>0, <2>1, <2>2, <2>3, <2>4, <2>5 DEF RecordsAgree, Shows, Applies, Working
        <3> QED
            BY <3>1, <3>2 DEF RecordsAgree
    <2>9. StateFollowsRecord'
        BY <1>0, <2>1, <2>2, <2>3, <2>5 DEF StateFollowsRecord, Applies
    <2> QED
        BY <2>6, <2>7, <2>8, <2>9 DEF Agree, SessionAgrees
<1> QED
    BY <1>1, <1>2 DEF WriteRecord

(* The record's outcome becomes the state: never refused, since the round  *)
(* recorded is the one the state file has open.                            *)
LEMMA ApplyFacts ==
    ASSUME ReviewInv, NEW v \in Server, NEW d \in Doc, ApplyRecord(v, d)
    PROVE  /\ run[v] = "serve" /\ Shows(v, d)
           /\ entry[d].state = "open" /\ entry[d].round = page[v][d].round
           /\ call[v][d].sub \in Submission
           /\ record[d][page[v][d].round] = call[v][d].sub
           /\ OutcomeOf[call[v][d].sub] \in {"changes", "approved", "dismissed"}
           /\ CanMove(entry[d].state, OutcomeOf[call[v][d].sub])
<1> USE InvFacts
<1>1. Applies(v, d)
    BY DEF ApplyRecord, Applies
<1>2. /\ run[v] = "serve" /\ Shows(v, d) /\ call[v][d].sub \in Submission
      /\ record[d][page[v][d].round] = call[v][d].sub
    BY <1>1 DEF CallsAgree, Asks, Applies
<1>3. entry[d].state = "open" /\ entry[d].round = page[v][d].round
    BY <1>2 DEF PageIsOpenRound, Working, Shows
<1>4. OutcomeOf[call[v][d].sub] \in {"changes", "approved", "dismissed"}
    BY <1>2, ReviewAssumption
<1> QED
    BY <1>2, <1>3, <1>4, OpenMoves

LEMMA ApplyRecordStep ==
    ASSUME ReviewInv, NEW v \in Server, NEW d \in Doc, ApplyRecord(v, d)
    PROVE  Agree'
<1> USE InvFacts
<1> DEFINE s == call[v][d].sub
           event == OutcomeOf[s]
<1>0. /\ run[v] = "serve" /\ Shows(v, d) /\ s \in Submission
      /\ entry[d].state = "open" /\ entry[d].round = page[v][d].round
      /\ record[d][page[v][d].round] = s
      /\ event \in {"changes", "approved", "dismissed"}
    BY ApplyFacts
<1>1. /\ entry' = [entry EXCEPT ![d] = Applied(@, event)]
      /\ page' = [page EXCEPT ![v][d].state = event]
      /\ run' = IF \A e \in Doc : page'[v][e].state # "open"
                THEN [run EXCEPT ![v] = "end"] ELSE run
      /\ call' = [call EXCEPT ![v][d] = NoCall]
      /\ UNCHANGED <<record, lease, todo>>
    BY ApplyFacts DEF ApplyRecord
<1> HIDE DEF event
<1>2. event \in States /\ event # "open"
    BY <1>0, OpenMoves
<1>3. /\ entry'[d].state = event /\ entry'[d].round = entry[d].round
      /\ \A e \in Doc : e # d => entry'[e] = entry[e]
    BY <1>1, <1>2, AppliedIs DEF ReviewTypeOK
<1>4. /\ page'[v][d].state = event
      /\ \A w \in Server, e \in Doc : (w # v \/ e # d) => page'[w][e] = page[w][e]
    BY <1>1 DEF ReviewTypeOK, PageType
<1>5. /\ call'[v][d].stage = "none"
      /\ \A w \in Server, e \in Doc : (w # v \/ e # d) => call'[w][e] = call[w][e]
    BY <1>1 DEF ReviewTypeOK, NoCall
<1>6. /\ run'[v] \in {"serve", "end"}
      /\ (\E e \in Doc : page'[v][e].state = "open") => run'[v] = "serve"
      /\ \A w \in Server : w # v => run'[w] = run[w]
      /\ \A w \in Server : Working(w)' <=> Working(w)
    BY <1>0, <1>1 DEF ReviewTypeOK, Working
<1>7. ServersAgree'
    BY <1>1, <1>2, <1>4, <1>6 DEF ServersAgree, Shows
<1>8. CallsAgree'
    BY <1>0, <1>1, <1>4, <1>5, <1>6 DEF CallsAgree, Shows, Asks, Applies
<1>9. RecordsAgree'
    <2>1. \A e \in Doc, m \in Rounds : record'[e][m] # None => m <= entry'[e].round
        BY <1>1, <1>3 DEF RecordsAgree
    <2>2. \A w \in Server, e \in Doc :
            (Working(w)' /\ Shows(w, e)' /\ ~Applies(w, e)') =>
              record'[e][page'[w][e].round] = None
        BY <1>1, <1>2, <1>4, <1>5, <1>6 DEF RecordsAgree, Shows, Applies
    <2>3. \A w \in Server, e \in Doc :
            (run'[w] = "open" /\ e \in todo'[w] /\ entry'[e].state = "open") =>
              record'[e][entry'[e].round] = None
        BY <1>1, <1>2, <1>3, <1>6 DEF RecordsAgree
    <2> QED
        BY <2>1, <2>2, <2>3 DEF RecordsAgree
<1>10. PageIsOpenRound'
    BY <1>0, <1>2, <1>3, <1>4, <1>6, OneAtWork DEF PageIsOpenRound, Working
<1>11. StateFollowsRecord'
    <2>0. UNCHANGED record
        BY <1>1
    <2>1. s # None /\ record'[d][entry'[d].round] = s /\ OutcomeOf[s] = entry'[d].state
        BY <1>0, <1>3, <2>0, ReviewAssumption DEF event
    <2>2. ASSUME NEW e \in Doc, e # d, record[e][entry[e].round] # None, entry[e].state = "open"
          PROVE  \E w \in Server :
                   call'[w][e] = [sub |-> record[e][entry[e].round], stage |-> "apply"]
        BY <1>0, <1>5, <2>2 DEF StateFollowsRecord
    <2>3. \A e \in Doc : (e # d /\ entry[e].state \in {"changes", "approved"}) =>
            /\ record[e][entry[e].round] # None
            /\ OutcomeOf[record[e][entry[e].round]] = entry[e].state
        BY DEF StateFollowsRecord
    <2> QED
        BY <1>2, <1>3, <2>0, <2>1, <2>2, <2>3 DEF StateFollowsRecord
<1> QED
    BY <1>7, <1>8, <1>9, <1>10, <1>11 DEF Agree, SessionAgrees

(* The end of a run dismisses what is still open; no transition is refused *)
(* on the way, so the run does end.                                        *)
LEMMA DismissRestStep ==
    ASSUME ReviewInv, NEW v \in Server, NEW d \in Doc, DismissRest(v, d)
    PROVE  Agree'
<1> USE InvFacts
<1>0. /\ run[v] = "end" /\ Shows(v, d) /\ UNCHANGED <<record, lease, todo, call>>
      /\ entry[d].state = "open" /\ Working(v)
    BY DEF DismissRest, PageIsOpenRound, Working, Shows
<1>1. /\ entry' = [entry EXCEPT ![d] = Applied(@, "dismissed")]
      /\ page' = [page EXCEPT ![v][d].state = "dismissed"]
      /\ run' = run
    BY <1>0, OpenMoves DEF DismissRest
<1>2. "dismissed" \in States
    BY OpenMoves
<1>3. /\ entry'[d].state = "dismissed" /\ entry'[d].round = entry[d].round
      /\ \A e \in Doc : e # d => entry'[e] = entry[e]
    BY <1>1, <1>2, AppliedIs DEF ReviewTypeOK
<1>4. /\ page'[v][d].state = "dismissed"
      /\ \A w \in Server, e \in Doc : (w # v \/ e # d) => page'[w][e] = page[w][e]
    BY <1>1 DEF ReviewTypeOK, PageType
<1>5. ServersAgree'
    BY <1>0, <1>1, <1>4 DEF ServersAgree, Shows, Working
<1>6. CallsAgree'
    BY <1>0, <1>1, <1>4 DEF CallsAgree, Shows, Asks, Applies
<1>7. RecordsAgree'
    BY <1>0, <1>1, <1>3, <1>4 DEF RecordsAgree, Shows, Applies, Working
<1>8. PageIsOpenRound'
    BY <1>0, <1>1, <1>3, <1>4, OneAtWork DEF PageIsOpenRound, Working
<1>9. StateFollowsRecord'
    BY <1>0, <1>1, <1>3 DEF StateFollowsRecord
<1> QED
    BY <1>5, <1>6, <1>7, <1>8, <1>9 DEF Agree, SessionAgrees

(* A lease runs out only under a process that is gone. *)
LEMMA LapseStep ==
    ASSUME ReviewInv, ~Stalls, Lapse
    PROVE  Agree'
<1> USE InvFacts
<1>1. /\ UNCHANGED <<entry, record, run, todo, page, call>>
      /\ run[lease.owner] \in {"hung", "dead"}
    BY DEF Lapse
<1>2. \A w \in Server : ~Working(w) /\ ~Working(w)'
    BY <1>1 DEF ServersAgree, Working
<1>3. ServersAgree' /\ CallsAgree'
    BY <1>1, <1>2 DEF ServersAgree, CallsAgree, Shows, Asks, Applies
<1>4. RecordsAgree' /\ PageIsOpenRound' /\ StateFollowsRecord'
    BY <1>1, <1>2 DEF RecordsAgree, PageIsOpenRound, StateFollowsRecord, Shows, Applies
<1> QED
    BY <1>3, <1>4 DEF Agree, SessionAgrees

LEMMA ReviewNextInv ==
    ASSUME ReviewInv, ~Stalls, [ReviewNext]_reviewVars
    PROVE  ReviewInv'
<1>0. ReviewTypeOK'
    BY TypeStep DEF ReviewInv, CallsAgree, CallsCarry
<1>1. ASSUME NEW d \in Doc, Arm(d) \/ Edit(d) PROVE Agree'
    BY <1>1, ArmStep, QuietStep DEF Edit
<1>2. ASSUME NEW v \in Server, ServerNext(v) PROVE Agree'
    <2>1. CASE Acquire(v) \/ Reconcile(v)
        BY <2>1, AcquireStep, ReconcileStep
    <2>2. CASE Serve(v)
        <3>1. CASE \E d \in Doc : page[v][d].state # "none"
            BY <2>2, <3>1, ServingStep DEF Serve
        <3>2. CASE ~\E d \in Doc : page[v][d].state # "none"
            BY <2>2, <3>2, ReleaseStep DEF Serve, Shows
        <3> QED
            BY <3>1, <3>2
    <2>3. CASE End(v)
        BY <2>3, ServingStep DEF End
    <2>4. CASE Release(v)
        BY <2>4, ReleaseStep DEF Release, Shows
    <2>5. CASE Renew(v)
        <3>1. lease = [owner |-> v, live |-> TRUE]
            BY <2>5 DEF ReviewInv, ServersAgree, Renew, Working
        <3>2. \A b : [[owner |-> v, live |-> b] EXCEPT !.live = b] = [owner |-> v, live |-> b]
            OBVIOUS
        <3>3. lease' = lease
            BY <2>5, <3>1, <3>2, Zenon DEF Renew
        <3> QED
            BY <2>5, <3>3, QuietStep DEF Renew
    <2>6. CASE Crash(v)
        <3>1. Working(v)
            BY <2>6 DEF Crash, Alive, Working, ReviewInv, ReviewTypeOK, Phases, ServersAgree
        <3>2. /\ \A w \in Server : w # v => call'[w] = call[w]
              /\ \A d \in Doc : call'[v][d].stage = "none"
            BY <2>6 DEF Crash, ReviewInv, ReviewTypeOK, NoCall
        <3> QED
            BY <2>6, <3>1, <3>2, DeathStep DEF Crash
    <2>7. ASSUME NEW d \in Doc,
                 \/ Limit(v, d) \/ OpenRound(v, d)
                 \/ \E s \in Submission : Submit(v, d, s)
                 \/ WriteRecord(v, d) \/ ApplyRecord(v, d) \/ DismissRest(v, d)
          PROVE  Agree'
        BY <1>0, <2>7, LimitStep, OpenRoundStep, SubmitStep, WriteRecordStep,
           ApplyRecordStep, DismissRestStep
    <2> QED
        BY <1>2, <2>1, <2>2, <2>3, <2>4, <2>5, <2>6, <2>7 DEF ServerNext
<1>3. ASSUME Lapse PROVE Agree'
    BY <1>3, LapseStep
<1>4. ASSUME UNCHANGED reviewVars PROVE Agree'
    BY <1>4, QuietStep DEF reviewVars
<1>5. Agree'
    BY <1>1, <1>2, <1>3, <1>4 DEF ReviewNext
<1> QED
    BY <1>0, <1>5 DEF Agree, ReviewInv

-----------------------------------------------------------------------------
(* Only a submission writes records, and only its answer acknowledges it.  *)
LEMMA RecordingSteps ==
    ASSUME [ReviewNext]_reviewVars
    PROVE  \/ UNCHANGED <<record, acked>>
           \/ \E v \in Server, d \in Doc : WriteRecord(v, d) \/ ApplyRecord(v, d)
BY DEF ReviewNext, ServerNext, reviewVars, Arm, Edit, Acquire, Reconcile, Serve, End, Release,
       Renew, Crash, Limit, OpenRound, Submit, DismissRest, Lapse

(* What a step writes, it writes for the open round, which had no record.  *)
LEMMA WrittenOnce ==
    ASSUME ReviewInv, [ReviewNext]_reviewVars, NEW d \in Doc, NEW n \in Rounds,
           record'[d][n] # record[d][n]
    PROVE  record[d][n] = None /\ entry[d].state = "open" /\ entry[d].round = n
<1>1. PICK v \in Server, e \in Doc : WriteRecord(v, e) \/ ApplyRecord(v, e)
    BY RecordingSteps
<1>2. WriteRecord(v, e) /\ StillOpen(v, e)
      /\ record' = [record EXCEPT ![e][page[v][e].round] = call[v][e].sub]
    BY <1>1 DEF WriteRecord, ApplyRecord
<1>3. e = d /\ page[v][e].round = n
    BY <1>2 DEF ReviewInv, ReviewTypeOK
<1> QED
    BY <1>2, <1>3, WriteFacts

LEMMA ReplyStep ==
    ASSUME ReviewInv, ReplyMeansRecord, [ReviewNext]_reviewVars
    PROVE  ReplyMeansRecord'
<1>1. ASSUME NEW a \in acked PROVE record'[a.doc][a.round] = a.sub
    <2>1. a.doc \in Doc /\ a.round \in Rounds /\ a.sub \in Submission
        BY DEF ReviewInv, ReviewTypeOK
    <2>2. record[a.doc][a.round] = a.sub
        BY DEF ReplyMeansRecord
    <2> QED
        BY <2>1, <2>2, WrittenOnce, ReviewAssumption
<1>2. ASSUME NEW a \in acked', a \notin acked PROVE record'[a.doc][a.round] = a.sub
    <2>1. PICK v \in Server, d \in Doc : ApplyRecord(v, d)
        BY <1>2, RecordingSteps DEF WriteRecord
    <2>2. /\ a = [doc |-> d, round |-> page[v][d].round, sub |-> call[v][d].sub]
          /\ UNCHANGED record
        BY <1>2, <2>1 DEF ApplyRecord
    <2> QED
        BY <2>1, <2>2, ApplyFacts
<1> QED
    BY <1>1, <1>2 DEF ReplyMeansRecord

-----------------------------------------------------------------------------
(* Every state is of the declared types, also when servers stall. *)
THEOREM ReviewTypeCorrect == ReviewSpec => []ReviewTypeOK
<1>1. ReviewInit => ReviewTypeOK /\ CallsCarry
    BY ReviewInitInv DEF ReviewInv, CallsAgree, CallsCarry
<1>2. ReviewTypeOK /\ CallsCarry /\ [ReviewNext]_reviewVars => (ReviewTypeOK /\ CallsCarry)'
    BY TypeStep, CarryStep
<1> QED
    BY <1>1, <1>2, PTL DEF ReviewSpec

THEOREM ReviewAlwaysInv == ~Stalls => (ReviewSpec => []ReviewInv)
<1> SUFFICES ASSUME ~Stalls PROVE ReviewSpec => []ReviewInv
    OBVIOUS
<1>1. ReviewInv /\ [ReviewNext]_reviewVars => ReviewInv'
    BY ReviewNextInv
<1> QED
    BY <1>1, ReviewInitInv, PTL DEF ReviewSpec

(* "one server owns a session at a time" (state.ts), also across crashes   *)
(* and whatever hooks arm meanwhile (Lease.acquire, Lease.release).        *)
THEOREM OneServerWorks == ~Stalls => (ReviewSpec => []OneServer)
<1>1. ReviewInv => OneServer
    BY OneAtWork DEF ReviewInv, OneServer
<1> QED
    BY <1>1, ReviewAlwaysInv, PTL

(* What a server shows, the state file and the records are the same round  *)
(* (Session.arm, Session.reconcile, Review.recordNow).                     *)
THEOREM PagesStatesAndRecordsAgree == ~Stalls => (ReviewSpec => []SessionAgrees)
<1>1. ReviewInv => SessionAgrees
    BY DEF ReviewInv
<1> QED
    BY <1>1, ReviewAlwaysInv, PTL

(* A round's record is written once, while its round is open               *)
(* (Review.recordNow).                                                     *)
THEOREM RoundsHaveOneRecord == ~Stalls => (ReviewSpec => OneRecord)
<1> SUFFICES ASSUME ~Stalls PROVE ReviewSpec => OneRecord
    OBVIOUS
<1>1. ReviewInv /\ [ReviewNext]_reviewVars =>
        [\A d \in Doc, n \in Rounds :
           record'[d][n] # record[d][n] =>
             /\ record[d][n] = None
             /\ entry[d].state = "open" /\ entry[d].round = n]_reviewVars
    BY WrittenOnce
<1> QED
    BY <1>1, ReviewAlwaysInv, PTL DEF ReviewSpec, OneRecord

(* "A reply always means a record on disk" (round.ts), for ever.           *)
THEOREM RepliesAreRecorded == ~Stalls => (ReviewSpec => []ReplyMeansRecord)
<1> SUFFICES ASSUME ~Stalls PROVE ReviewSpec => []ReplyMeansRecord
    OBVIOUS
<1>1. ReviewInit => ReplyMeansRecord
    BY DEF ReviewInit, ReplyMeansRecord
<1>2. ReviewInv /\ ReplyMeansRecord /\ [ReviewNext]_reviewVars => ReplyMeansRecord'
    BY ReplyStep
<1> QED
    BY <1>1, <1>2, ReviewAlwaysInv, PTL DEF ReviewSpec

=============================================================================
