--------------------------- MODULE ReviewSession ---------------------------
(***************************************************************************)
(* docz-review (ui/review): documents armed for review in a session's      *)
(* state file, servers that take the session's lease, open rounds and      *)
(* record what a person submits.  Servers, hooks that arm documents and    *)
(* people who edit files are processes of their own; a process can die     *)
(* between any two writes, and stall for longer than its lease.            *)
(*                                                                         *)
(* A step under the session's lock is atomic.  Within a server, code       *)
(* between two awaits runs to its end, which is what Busy is about.        *)
(***************************************************************************)
EXTENDS Naturals, FiniteSets

CONSTANTS
    Doc,
    Server,      \* runs of docz-review, each used once
    Submission,  \* submission ids
    OutcomeOf,   \* the outcome a submission carries
    MaxRounds,   \* --max-rounds
    LastRound,   \* bound: the last round looked at
    LastBytes,   \* bound: the last version of a file looked at
    Stalls,      \* whether a live server may let its lease run out
    None

ASSUME ReviewAssumption ==
    /\ OutcomeOf \in [Submission -> {"changes", "approved", "dismissed"}]
    /\ None \notin Server \cup Submission
    /\ MaxRounds \in Nat /\ LastRound \in Nat /\ LastBytes \in Nat
    /\ Stalls \in BOOLEAN

VARIABLES
    entry,   \* state.json: entry[d]
    record,  \* record[d][n]: the submission in round-n.json, or None
    lease,   \* lease.json: whose, and whether it has run out
    bytes,   \* bytes[d]: the version of the file on disk
    run,     \* run[v]: the phase a server is in
    todo,    \* todo[v]: documents still to be opened
    read,    \* read[v]: the entries as reconcile returned them
    page,    \* page[v][d]: what the server holds of d in memory
    call,    \* call[v][d]: the submission being taken, and how far it is
    acked    \* history: the submissions answered as recorded

reviewVars == <<entry, record, lease, bytes, run, todo, read, page, call, acked>>

States == {"pending", "open", "changes", "approved", "dismissed"}

Unarmed == [state |-> "none", round |-> 0, armed |-> 0]
NoPage == [state |-> "none", round |-> 0, bytes |-> 0]
NoCall == [sub |-> None, stage |-> "none"]

Phases == {"off", "reconcile", "open", "serve", "end", "ended", "hung", "dead"}

Rounds == 0..LastRound

EntryType == [state : States \cup {"none"}, round : Rounds, armed : Rounds]
PageType == [state : (States \ {"pending"}) \cup {"none"}, round : Rounds,
             bytes : 0..LastBytes]
CallType == [sub : Submission \cup {None}, stage : {"none", "inspect", "apply"}]
LeaseType == [owner : Server \cup {None}, live : BOOLEAN]

ReviewTypeOK ==
    /\ entry \in [Doc -> EntryType]
    /\ record \in [Doc -> [Rounds -> Submission \cup {None}]]
    /\ lease \in LeaseType
    /\ bytes \in [Doc -> 0..LastBytes]
    /\ run \in [Server -> Phases]
    /\ todo \in [Server -> SUBSET Doc]
    /\ read \in [Server -> [Doc -> EntryType]]
    /\ page \in [Server -> [Doc -> PageType]]
    /\ call \in [Server -> [Doc -> CallType]]
    /\ acked \in SUBSET [doc : Doc, round : Rounds, sub : Submission]

ReviewInit ==
    /\ entry = [d \in Doc |-> Unarmed]
    /\ record = [d \in Doc |-> [n \in Rounds |-> None]]
    /\ lease = [owner |-> None, live |-> FALSE]
    /\ bytes = [d \in Doc |-> 0]
    /\ run = [v \in Server |-> "off"]
    /\ todo = [v \in Server |-> {}]
    /\ read = [v \in Server |-> [d \in Doc |-> Unarmed]]
    /\ page = [v \in Server |-> [d \in Doc |-> NoPage]]
    /\ call = [v \in Server |-> [d \in Doc |-> NoCall]]
    /\ acked = {}

-----------------------------------------------------------------------------
(* nextState, for every event but arm: where it may come from. *)
CanMove(from, event) ==
    CASE event = "open" -> from \in {"pending", "changes", "open"}
      [] event \in {"changes", "approved"} -> from = "open"
      [] event = "dismissed" -> from \in {"open", "pending", "changes"}

(* A mutant of Applied: a document that comes back keeps its round. *)
AppliedInPlace(e, event) ==
    [e EXCEPT !.state = event,
              !.round = IF event = "open" /\ e.state = "pending" THEN @ + 1 ELSE @]

(* Session.apply: opening from anything but open begins the next round. *)
Applied(e, event) ==
    [e EXCEPT !.state = event,
              !.round = IF event = "open" /\ e.state # "open" THEN @ + 1 ELSE @]

Openable(e) == e.state \in {"pending", "changes", "open"}

(* A server between a record's write and its state's change does nothing   *)
(* else, and in the midst of end takes no request up again.                *)
Busy(v) == \E d \in Doc : call[v][d].stage = "apply"

Resumes(v) == run[v] \notin {"end", "dead"} /\ ~Busy(v)

Alive(v) == run[v] \notin {"off", "ended", "dead"}

(* A mutant of Armed: the round under review is put back to pending too. *)
ArmedAnew(e) == [e EXCEPT !.state = "pending", !.armed = e.round]

(* Session.arm: a document under review stays so; the round count is kept. *)
Armed(e) ==
    [e EXCEPT !.state = IF @ = "open" THEN "open" ELSE "pending",
              !.armed = e.round]

Arm(d) ==
    /\ entry' = [entry EXCEPT ![d] = Armed(@)]
    /\ UNCHANGED <<record, lease, bytes, run, todo, read, page, call, acked>>

Edit(d) ==
    /\ bytes[d] < LastBytes
    /\ bytes' = [bytes EXCEPT ![d] = @ + 1]
    /\ UNCHANGED <<entry, record, lease, run, todo, read, page, call, acked>>

(* A mutant of Free: an unexpired lease is enough to refuse, of itself. *)
FreeOfOthers == TRUE

(* Lease.acquire: nobody's, run out, or its holder's process is gone. *)
Free == lease.owner = None \/ ~lease.live \/ ~Alive(lease.owner)

Acquire(v) ==
    /\ run[v] = "off"
    /\ \E d \in Doc : Openable(entry[d])
    /\ IF Free
       THEN /\ lease' = [owner |-> v, live |-> TRUE]
            /\ run' = [run EXCEPT ![v] = "reconcile"]
       ELSE run' = [run EXCEPT ![v] = "ended"] /\ UNCHANGED lease
    /\ UNCHANGED <<entry, record, bytes, todo, read, page, call, acked>>

(* A mutant of Settled: what a crash left open stays open. *)
Unsettled(d) == entry[d]

(* Session.reconcile: an open round whose record is on disk is closed. *)
Settled(d) ==
    LET s == record[d][entry[d].round] IN
    IF entry[d].state = "open" /\ s # None
    THEN Applied(entry[d], OutcomeOf[s]) ELSE entry[d]

Reconcile(v) ==
    /\ run[v] = "reconcile"
    /\ entry' = [d \in Doc |-> Settled(d)]
    /\ read' = [read EXCEPT ![v] = entry']
    /\ todo' = [todo EXCEPT ![v] = {d \in Doc : Openable(entry'[d])}]
    /\ run' = [run EXCEPT ![v] = "open"]
    /\ UNCHANGED <<record, lease, bytes, page, call, acked>>

(* Review.open, the round limit, on the entry as it was read. *)
Limited(v, d) ==
    read[v][d].state # "open" /\ read[v][d].round - read[v][d].armed >= MaxRounds

Limit(v, d) ==
    /\ run[v] = "open" /\ d \in todo[v] /\ Limited(v, d)
    /\ IF CanMove(entry[d].state, "dismissed")
       THEN /\ entry' = [entry EXCEPT ![d] = Applied(@, "dismissed")]
            /\ todo' = [todo EXCEPT ![v] = @ \ {d}]
            /\ UNCHANGED run
       ELSE run' = [run EXCEPT ![v] = "dead"] /\ UNCHANGED <<entry, todo>>
    /\ UNCHANGED <<record, lease, bytes, read, page, call, acked>>

(* Review.open, a round: docz reads the file, or cannot and it is left as  *)
(* it was; the state moves to open.  The page may be older than the file.  *)
OpenRound(v, d) ==
    /\ run[v] = "open" /\ d \in todo[v] /\ ~Limited(v, d)
    /\ todo' = [todo EXCEPT ![v] = @ \ {d}]
    /\ \/ UNCHANGED <<entry, page, run>>
       \/ /\ CanMove(entry[d].state, "open")
          /\ Applied(entry[d], "open").round <= LastRound
          /\ entry' = [entry EXCEPT ![d] = Applied(@, "open")]
          /\ \E b \in 0..bytes[d] :
               page' = [page EXCEPT ![v][d] =
                 [state |-> "open", round |-> entry'[d].round, bytes |-> b]]
          /\ UNCHANGED run
       \/ /\ ~CanMove(entry[d].state, "open")
          /\ run' = [run EXCEPT ![v] = "dead"]
          /\ UNCHANGED <<entry, page>>
    /\ UNCHANGED <<record, lease, bytes, read, call, acked>>

(* Lease.release: only one's own. *)
Released(v) ==
    lease' = IF lease.owner = v THEN [owner |-> None, live |-> FALSE] ELSE lease

Serve(v) ==
    /\ run[v] = "open" /\ todo[v] = {}
    /\ IF \E d \in Doc : page[v][d].state # "none"
       THEN run' = [run EXCEPT ![v] = "serve"] /\ UNCHANGED lease
       ELSE run' = [run EXCEPT ![v] = "ended"] /\ Released(v)
    /\ UNCHANGED <<entry, record, bytes, todo, read, page, call, acked>>

-----------------------------------------------------------------------------
(* recordNow, to its await: a closed round is refused, an id seen before   *)
(* is acknowledged again (neither changes anything).                       *)
Submit(v, d, s) ==
    /\ run[v] = "serve" /\ ~Busy(v)
    /\ call[v][d] = NoCall /\ page[v][d].state = "open"
    /\ \A a \in acked : a.sub # s
    /\ call' = [call EXCEPT ![v][d] = [sub |-> s, stage |-> "inspect"]]
    /\ UNCHANGED <<entry, record, lease, bytes, run, todo, read, page, acked>>

(* A mutant of StillOpen: what was checked before the await is enough. *)
OpenBefore(v, d) == TRUE

StillOpen(v, d) == page[v][d].state = "open"

(* recordNow, after it: stale bytes, a round that was closed meanwhile and *)
(* answers the round never offered are refused; else the record is written.*)
(* The run may have ended and let its lease go before the answer comes.    *)
WriteRecord(v, d) ==
    /\ Resumes(v) /\ call[v][d].stage = "inspect"
    /\ \/ /\ bytes[d] = page[v][d].bytes /\ StillOpen(v, d)
          /\ record' = [record EXCEPT ![d][page[v][d].round] = call[v][d].sub]
          /\ call' = [call EXCEPT ![v][d].stage = "apply"]
       \/ call' = [call EXCEPT ![v][d] = NoCall] /\ UNCHANGED record
    /\ UNCHANGED <<entry, lease, bytes, run, todo, read, page, acked>>

(* The state moves and the submission is answered, or the transition is    *)
(* refused and the answer is a 500.  The last document's outcome ends the  *)
(* run.                                                                    *)
ApplyRecord(v, d) ==
    /\ run[v] # "dead" /\ call[v][d].stage = "apply"
    /\ LET s == call[v][d].sub IN
       IF CanMove(entry[d].state, OutcomeOf[s])
       THEN /\ entry' = [entry EXCEPT ![d] = Applied(@, OutcomeOf[s])]
            /\ page' = [page EXCEPT ![v][d].state = OutcomeOf[s]]
            /\ acked' = acked \cup {[doc |-> d, round |-> page[v][d].round, sub |-> s]}
            /\ run' = IF \A e \in Doc : page'[v][e].state # "open"
                      THEN [run EXCEPT ![v] = "end"] ELSE run
       ELSE UNCHANGED <<entry, page, acked, run>>
    /\ call' = [call EXCEPT ![v][d] = NoCall]
    /\ UNCHANGED <<record, lease, bytes, todo, read>>

(* end: Done, the deadline, the grace period or a signal; or the heartbeat *)
(* finds the lease taken.                                                  *)
End(v) ==
    /\ run[v] = "serve" /\ ~Busy(v)
    /\ run' = [run EXCEPT ![v] = "end"]
    /\ UNCHANGED <<entry, record, lease, bytes, todo, read, page, call, acked>>

(* dismissRest: a refused transition throws, and the run never ends. *)
DismissRest(v, d) ==
    /\ run[v] = "end" /\ page[v][d].state = "open"
    /\ IF CanMove(entry[d].state, "dismissed")
       THEN /\ entry' = [entry EXCEPT ![d] = Applied(@, "dismissed")]
            /\ page' = [page EXCEPT ![v][d].state = "dismissed"]
            /\ UNCHANGED run
       ELSE run' = [run EXCEPT ![v] = "hung"] /\ UNCHANGED <<entry, page>>
    /\ UNCHANGED <<record, lease, bytes, todo, read, call, acked>>

Release(v) ==
    /\ run[v] = "end" /\ \A d \in Doc : page[v][d].state # "open"
    /\ Released(v)
    /\ run' = [run EXCEPT ![v] = "ended"]
    /\ UNCHANGED <<entry, record, bytes, todo, read, page, call, acked>>

Renew(v) ==
    /\ run[v] = "serve" /\ ~Busy(v) /\ lease.owner = v
    /\ lease' = [lease EXCEPT !.live = TRUE]
    /\ UNCHANGED <<entry, record, bytes, run, todo, read, page, call, acked>>

(* The heartbeat renews well before the lease runs out, unless the process *)
(* stalls (a suspended machine, a stopped process) or hangs.               *)
Lapse ==
    /\ lease.owner # None /\ lease.live
    /\ Stalls \/ run[lease.owner] \in {"hung", "dead"}
    /\ lease' = [lease EXCEPT !.live = FALSE]
    /\ UNCHANGED <<entry, record, bytes, run, todo, read, page, call, acked>>

Crash(v) ==
    /\ Alive(v)
    /\ run' = [run EXCEPT ![v] = "dead"]
    /\ call' = [call EXCEPT ![v] = [d \in Doc |-> NoCall]]
    /\ UNCHANGED <<entry, record, lease, bytes, todo, read, page, acked>>

ServerNext(v) ==
    \/ Acquire(v) \/ Reconcile(v) \/ Serve(v) \/ End(v) \/ Release(v)
    \/ Renew(v) \/ Crash(v)
    \/ \E d \in Doc :
         \/ Limit(v, d) \/ OpenRound(v, d)
         \/ \E s \in Submission : Submit(v, d, s)
         \/ WriteRecord(v, d) \/ ApplyRecord(v, d) \/ DismissRest(v, d)

ReviewNext ==
    \/ \E d \in Doc : Arm(d) \/ Edit(d)
    \/ \E v \in Server : ServerNext(v)
    \/ Lapse

ReviewSpec == ReviewInit /\ [][ReviewNext]_reviewVars

-----------------------------------------------------------------------------
(* "A reply always means a record on disk" (round.ts): what a person was   *)
(* told is recorded stays recorded, for the round it was said about.       *)
ReplyMeansRecord == \A a \in acked : record[a.doc][a.round] = a.sub

(* A round's record is written once, by whichever server and after         *)
(* whatever crash, and only while the state file has that round open: a    *)
(* round has one outcome, and one nobody answered has none.                *)
OneRecord ==
    [][\A d \in Doc, n \in Rounds :
         record'[d][n] # record[d][n] =>
           /\ record[d][n] = None
           /\ entry[d].state = "open" /\ entry[d].round = n]_reviewVars

(* "one server owns a session at a time" (state.ts). *)
Working(v) == run[v] \in {"reconcile", "open", "serve", "end"}

OneServer == \A v, w \in Server : Working(v) /\ Working(w) => v = w

(* The page a server still takes answers on is the state file's open       *)
(* round, also after a hook armed the document again.                      *)
PageIsOpenRound ==
    \A v \in Server, d \in Doc :
      (Working(v) /\ page[v][d].state = "open") =>
        entry[d].state = "open" /\ entry[d].round = page[v][d].round

(* The state file says what the round's record says, or a server is about  *)
(* to make it so, or the next one will: the record was left by a crash.    *)
StateFollowsRecord ==
    \A d \in Doc :
      LET s == record[d][entry[d].round] IN
      /\ entry[d].state \in {"changes", "approved"} =>
           s # None /\ OutcomeOf[s] = entry[d].state
      /\ (s # None /\ entry[d].state = "open") =>
           \/ \E v \in Server : call[v][d] = [sub |-> s, stage |-> "apply"]
           \/ \A v \in Server : run[v] \in {"off", "reconcile", "ended", "dead"}

(* What a server shows, what the state file says and what the records say  *)
(* are the same round (Session.update, Review.recordNow).                  *)
SessionAgrees == PageIsOpenRound /\ StateFollowsRecord

=============================================================================
