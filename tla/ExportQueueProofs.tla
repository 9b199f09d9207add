-------------------------- MODULE ExportQueueProofs --------------------------
(***************************************************************************)
(* Proofs about ExportQueue, for any number of triggers, commits, removals *)
(* and retries, and every combination of the queue's options.              *)
(***************************************************************************)
EXTENDS ExportQueue, TLAPS

USE QueueAssumption, ExportAssumption

(***************************************************************************)
(* The inductive invariant.  A row's id is new, its head only moves        *)
(* forward, and no trigger is ahead of the row it is about; when a run has *)
(* compared heads, it had loaded the head it found.                        *)
(***************************************************************************)
RowInv ==
    /\ row = NoRow \/ row.id >= 1
    /\ row.id < nextId /\ compared.id < nextId
    /\ compared.id = row.id /\ row.id # 0 =>
         compared.head <= row.head /\ tried.id = row.id /\ compared.head <= tried.head

AskedInv(t) ==
    call[t] # "idle" =>
      /\ asked[t].id \in 1 .. nextId - 1
      /\ asked[t].id = row.id => asked[t].head <= row.head

RunInv ==
    /\ run.pc = "idle" <=> task # "active"
    /\ run.pc # "idle" => run.n >= 1
    /\ (run.pc = "load" /\ run.n > 1) \/ run.pc \in {"loaded", "writing", "succeeded"} =>
         tried = [id |-> job, head |-> run.head]
    /\ run.pc \in {"done", "skipped", "failed"} => ended # "never"

(* While pages are written nothing says that they are all there.           *)
SyncInv ==
    /\ run.pc = "writing" => sync.status # "succeeded" \/ unrecorded
    /\ run.pc = "succeeded" => shown = run.head
    /\ StatusIsTrue

(* A trigger that met a running export is covered, or that run goes on, or *)
(* a run has ended and left its reason.                                    *)
Awaited(t) == Covered(t) \/ ended # "never" \/ (task = "active" /\ job = asked[t].id)

(* A trigger that met a finished task covers itself in what follows, or    *)
(* another trigger has, or has enqueued an export of another row.          *)
Overtaken(t) == task \in Terminal \cup {"none"} \/ Covered(t) \/ job # asked[t].id

TriggerInv(t) ==
    /\ Claimed(t) \/ call[t] = "reenqueue" => Covered(t)
    /\ call[t] = "inspect" =>
         /\ hit[t] # "none"
         /\ hit[t] \in WillRun => Covered(t)
         /\ hit[t] \in Terminal => Overtaken(t)
    /\ call[t] \in {"inspect", "coalesced"} /\ hit[t] = "active" => Awaited(t)

IInv ==
    /\ TypeOK /\ RowInv /\ RunInv /\ SyncInv
    /\ \A t \in Triggers : AskedInv(t) /\ (t \notin strays => TriggerInv(t))

-----------------------------------------------------------------------------
LEMMA InitIInv == Init => IInv
<1> SUFFICES ASSUME Init PROVE IInv
    OBVIOUS
<1>0. QueueTypeOK
    BY DEF Init, QueueInit, QueueTypeOK, TaskState, CallState
<1> USE DEF Init, QueueInit, NoRow, NoRun, NoSync
<1>1. TypeOK
    <2>1. run \in [pc : Stage, n : 0 .. MaxRuns, head : Nat, conf : Conf]
        BY DEF Stage, Conf
    <2>2. row \in [id : Nat, head : Nat, conf : Conf]
        BY DEF Conf
    <2>3. sync \in [status : Status, head : Nat] /\ shown \in Nat
        BY DEF Status
    <2>4. {tried, gaveUp, compared} \subseteq [id : Nat, head : Nat]
        <3>1. tried \in [id : Nat, head : Nat] /\ gaveUp = tried /\ compared = tried
            OBVIOUS
        <3> QED
            BY <3>1, Zenon
    <2>5. asked \in [Triggers -> [id : Nat, head : Nat]]
        OBVIOUS
    <2> QED
        BY <1>0, <2>1, <2>2, <2>3, <2>4, <2>5 DEF TypeOK
<1>2. RowInv /\ RunInv /\ SyncInv
    BY DEF RowInv, RunInv, SyncInv, StatusIsTrue
<1>3. ASSUME NEW t \in Triggers PROVE AskedInv(t) /\ TriggerInv(t)
    BY DEF AskedInv, TriggerInv, Claimed
<1> QED
    BY <1>1, <1>2, <1>3 DEF IInv

(* What a client's calls may change of the task and of the calls.          *)
LEMMA ClientSteps ==
    ASSUME QueueTypeOK, NEW t \in Triggers, Client(t) \/ Break(t)
    PROVE  /\ QueueTypeOK'
           /\ task' = "active" <=> task = "active"
           /\ \A u \in Triggers \ {t} : call'[u] = call[u] /\ hit'[u] = hit[u]
           /\ call[t] \in Asking /\ call'[t] # "idle"
<1> USE DEF QueueTypeOK, Answer, Create, CallState, Asking, Accepted, TaskState,
            WillRun
<1>1. CASE Enqueue(t)
    BY <1>1 DEF Enqueue
<1>2. CASE Inspect(t)
    BY <1>2 DEF Inspect, ClassifyConflict
<1>3. CASE Clear(t)
    BY <1>3 DEF Clear
<1>4. CASE ReEnqueue(t)
    BY <1>4 DEF ReEnqueue
<1>5. CASE Break(t)
    BY <1>5 DEF Break
<1> QED
    BY <1>1, <1>2, <1>3, <1>4, <1>5 DEF Client

(* What a commit does to the row: its head moves forward, or the row is    *)
(* new, with an id of its own.                                             *)
LEMMA CommitSteps ==
    ASSUME TypeOK, RowInv, Commit
    PROVE  /\ row' \in [id : Nat, head : Nat, conf : Conf] /\ nextId' \in Nat
           /\ row'.id >= 1 /\ row'.id < nextId' /\ nextId <= nextId'
           /\ \/ row'.id = row.id /\ row.head <= row'.head
              \/ row'.id = nextId /\ row.id = 0
<1> USE DEF TypeOK, RowInv
<1> PICK h \in (row.head .. MaxHead) \ {0}, c \in Conf :
        \/ row # NoRow /\ row' = [row EXCEPT !.head = h, !.conf = c] /\ UNCHANGED nextId
        \/ row = NoRow /\ row' = [id |-> nextId, head |-> h, conf |-> c] /\ nextId' = nextId + 1
    BY DEF Commit
<1>0. h \in Nat /\ row.head <= h
    OBVIOUS
<1>1. CASE row # NoRow /\ row' = [row EXCEPT !.head = h, !.conf = c] /\ UNCHANGED nextId
    <2>1. row'.id = row.id /\ row'.head = h /\ row' \in [id : Nat, head : Nat, conf : Conf]
        BY <1>0, <1>1
    <2> QED
        BY <1>0, <1>1, <2>1
<1>2. CASE row = NoRow /\ row' = [id |-> nextId, head |-> h, conf |-> c] /\ nextId' = nextId + 1
    <2>1. row.id = 0 /\ row'.id = nextId /\ row'.head = h
        BY <1>2 DEF NoRow
    <2>2. nextId >= 1
        BY <2>1
    <2>3. row' \in [id : Nat, head : Nat, conf : Conf]
        BY <1>0, <1>2
    <2> QED
        BY <1>0, <1>2, <2>1, <2>2, <2>3
<1> QED
    BY <1>1, <1>2

(* Every step keeps the types. *)
LEMMA NextTypeOK == TypeOK /\ RowInv /\ [Next]_vars => TypeOK'
<1> SUFFICES ASSUME TypeOK, RowInv, [Next]_vars PROVE TypeOK'
    OBVIOUS
<1> DEFINE Row == [id : Nat, head : Nat, conf : Conf]
           Runs == [pc : Stage, n : 0 .. MaxRuns, head : Nat, conf : Conf]
           Syncs == [status : Status, head : Nat]
           Seen == [id : Nat, head : Nat]
<1>0. /\ QueueTypeOK /\ row \in Row /\ nextId \in Nat
      /\ asked \in [Triggers -> Seen] /\ job \in Nat
      /\ run \in Runs /\ sync \in Syncs /\ shown \in Nat
      /\ tried \in Seen /\ gaveUp \in Seen /\ compared \in Seen
      /\ ended \in {"never", "caughtUp", "exhausted", "refused", "failed"}
      /\ strays \subseteq Triggers /\ unrecorded \in BOOLEAN
    BY DEF TypeOK
<1> SUFFICES
      /\ QueueTypeOK' /\ row' \in Row /\ nextId' \in Nat
      /\ asked' \in [Triggers -> Seen] /\ job' \in Nat
      /\ run' \in Runs /\ sync' \in Syncs /\ shown' \in Nat
      /\ tried' \in Seen /\ gaveUp' \in Seen /\ compared' \in Seen
      /\ ended' \in {"never", "caughtUp", "exhausted", "refused", "failed"}
      /\ strays' \subseteq Triggers /\ unrecorded' \in BOOLEAN
    BY DEF TypeOK
<1>1. Version(row) \in Seen /\ NoRow \in Row /\ NoSync \in Syncs /\ NoRun \in Runs
    BY <1>0 DEF Version, NoRow, NoSync, NoRun, Conf, Status, Stage
<1> HIDE DEF Row, Runs, Syncs, Seen
<1> USE DEF queueVars, rows, payload, state, history
<1>2. ASSUME NEW t \in Triggers, Begin(t), NEW v \in Seen, asked' = [asked EXCEPT ![t] = v]
      PROVE  QueueTypeOK' /\ asked' \in [Triggers -> Seen]
    BY <1>0, <1>2 DEF Begin, Answer, QueueTypeOK, CallState, Asking
<1>3. ASSUME NEW t \in Triggers, Ingest(t) PROVE TypeOK'
    <2>1. row' \in Row /\ nextId' \in Nat
        BY <1>3, CommitSteps DEF Ingest, Row
    <2> PICK r \in Row : r = row'
        BY <2>1
    <2>2. Version(r) \in Seen /\ asked' = [asked EXCEPT ![t] = Version(r)]
        BY <1>3 DEF Ingest, Ask, Row, Seen, Version
    <2> QED
        BY <1>0, <1>2, <1>3, <2>1, <2>2 DEF Ingest, TypeOK, Row, Runs, Syncs, Seen
<1>4. CASE IngestDisabled
    <2>1. row' \in Row /\ nextId' \in Nat
        BY <1>4, CommitSteps DEF IngestDisabled, Row
    <2> QED
        BY <1>0, <1>4, <2>1 DEF IngestDisabled, QueueTypeOK
<1>5. ASSUME NEW t \in Triggers, RunExport(t) PROVE TypeOK'
    BY <1>0, <1>1, <1>2, <1>5 DEF RunExport, Ask, TypeOK, Row, Runs, Syncs, Seen
<1>6. CASE Remove
    BY <1>0, <1>1, <1>6 DEF Remove, QueueTypeOK
<1>7. ASSUME NEW t \in Triggers, EnqueueExport(t) PROVE TypeOK'
    <2>1. QueueTypeOK'
        BY <1>0, <1>7, ClientSteps DEF EnqueueExport
    <2>2. job' \in Nat
        BY <1>0, <1>7 DEF EnqueueExport, Seen
    <2>3. strays' \subseteq Triggers
        BY <1>0, <1>7 DEF EnqueueExport, Astray
    <2> QED
        BY <1>0, <1>7, <2>1, <2>2, <2>3 DEF EnqueueExport, TypeOK, Row, Runs, Syncs, Seen
<1>8. CASE Asynq
    BY <1>0, <1>8 DEF Asynq, Forward, Expire, exportVars, QueueTypeOK, TaskState, WillRun
<1>9. ASSUME NEW s \in Stage, GoOn(s) PROVE run' \in Runs
    BY <1>0, <1>9 DEF GoOn, Runs
<1>10. ASSUME NEW s \in Status, RecordState(s) PROVE sync' \in Syncs /\ unrecorded' \in BOOLEAN
    <2>1. CASE Write(s)
        <3>1. run.head \in Nat /\ sync' = [status |-> s, head |-> run.head]
            BY <1>0, <2>1 DEF Write, Runs
        <3>2. sync' \in [status : Status, head : Nat]
            BY <3>1
        <3> QED
            BY <2>1, <3>2 DEF Write, Syncs
    <2> QED
        BY <1>0, <1>10, <2>1 DEF RecordState, WriteFails
<1>11. UNCHANGED queueVars => QueueTypeOK'
    BY <1>0 DEF QueueTypeOK
<1>12. CASE Run
    <2>1. CASE StartExport
        <3>1. QueueTypeOK'
            BY <1>0, <2>1 DEF StartExport, Dequeue, QueueTypeOK, TaskState
        <3>2. run' \in Runs
            <4>1. 1 \in 0 .. MaxRuns /\ "load" \in Stage
                BY DEF Stage
            <4> QED
                BY <1>1, <2>1, <4>1 DEF StartExport, Runs
        <3> QED
            BY <1>0, <2>1, <3>1, <3>2 DEF StartExport
    <2>2. CASE LoadAgain \/ LoadGone
        BY <1>0, <1>1, <1>9, <1>11, <2>2 DEF LoadAgain, LoadGone, Stop, Stage
    <2>3. CASE LoadSnapshot
        <3>1. run' \in Runs
            BY <1>0, <2>3 DEF LoadSnapshot, Runs, Row, Stage
        <3> QED
            BY <1>0, <1>1, <1>11, <2>3, <3>1 DEF LoadSnapshot
    <2>4. CASE Refuse
        <3>1. run.conf \in Status
            BY <1>0, <2>4 DEF Refuse, Runs, Conf, Status
        <3> QED
            BY <1>0, <1>9, <1>10, <1>11, <2>4, <3>1 DEF Refuse, Stop, Stage
    <2>5. CASE StartWriting
        BY <1>0, <1>9, <1>10, <1>11, <2>5 DEF StartWriting, Stage, Status
    <2>6. CASE WriteSome
        BY <1>0, <1>11, <2>6 DEF WriteSome
    <2>7. CASE WriteAll
        BY <1>0, <1>9, <1>11, <2>7 DEF WriteAll, Stage, Runs
    <2>8. CASE WriteBreaks
        BY <1>0, <1>9, <1>11, <2>8 DEF WriteBreaks, Stage
    <2>9. CASE RecordSuccess
        <3>1. sync' \in Syncs /\ unrecorded' \in BOOLEAN
            BY <1>10, <2>9 DEF RecordSuccess, RecordState, Status
        <3>2. run' \in Runs
            <4>1. CASE run.n < MaxRuns /\ run' = [run EXCEPT !.pc = "load", !.n = @ + 1]
                <5>1. run.n + 1 \in 0 .. MaxRuns /\ "load" \in Stage
                    BY <1>0, <4>1 DEF Runs, Stage
                <5> QED
                    BY <1>0, <4>1, <5>1 DEF Runs
            <4> QED
                BY <1>9, <2>9, <4>1 DEF RecordSuccess, Stage
        <3>3. ended' \in {ended, "exhausted", "failed"}
            BY <2>9 DEF RecordSuccess, Stop
        <3> QED
            BY <1>0, <1>11, <2>9, <3>1, <3>2, <3>3 DEF RecordSuccess
    <2>10. CASE RecordFailure
        <3>1. sync' \in Syncs /\ unrecorded' \in BOOLEAN
            BY <1>10, <2>10 DEF RecordFailure, RecordState, Status
        <3>2. run' \in Runs
            BY <1>9, <2>10 DEF RecordFailure, Stage
        <3> QED
            BY <1>0, <1>11, <2>10, <3>1, <3>2 DEF RecordFailure, Stop
    <2>11. CASE FinishExport \/ SkipExport
        <3>1. QueueTypeOK'
            BY <1>0, <2>11 DEF FinishExport, SkipExport, Succeed, Skip, QueueTypeOK,
                               TaskState, Terminal
        <3> QED
            BY <1>0, <1>1, <2>11, <3>1 DEF FinishExport, SkipExport
    <2> QED
        BY <1>12, <2>1, <2>2, <2>3, <2>4, <2>5, <2>6, <2>7, <2>8, <2>9, <2>10, <2>11
           DEF Run
<1>13. CASE FailExport \/ CancelExport
    <2>1. QueueTypeOK'
        BY <1>0, <1>13 DEF FailExport, CancelExport, Fail, Requeue, QueueTypeOK,
                           TaskState, WillRun, Terminal
    <2> QED
        BY <1>0, <1>1, <1>13, <2>1 DEF FailExport, CancelExport, Stop
<1>14. CASE UNCHANGED vars
    BY <1>0, <1>14 DEF vars, exportVars, QueueTypeOK
<1> QED
    BY <1>3, <1>4, <1>5, <1>6, <1>7, <1>8, <1>12, <1>13, <1>14
       DEF Next, TypeOK, Row, Runs, Syncs, Seen

(* Which steps move the row, the history of loads, and the triggers.       *)
LEMMA Writers ==
    ASSUME [Next]_vars
    PROVE  /\ \/ Commit /\ UNCHANGED <<tried, gaveUp, compared>>
              \/ Remove
              \/ UNCHANGED <<row, nextId>>
           /\ LoadAgain \/ UNCHANGED compared
           /\ LoadSnapshot \/ UNCHANGED tried
           /\ gaveUp' \in {gaveUp, Version(row)}
           /\ ended' \in {ended, "caughtUp", "exhausted", "refused", "failed"}
           /\ (\E t \in Triggers : Ingest(t) \/ RunExport(t) \/ EnqueueExport(t))
                \/ UNCHANGED <<call, hit, asked, job, strays>>
<1> USE DEF queueVars, exportVars, rows, payload, state, history
<1>1. CASE \E t \in Triggers : Ingest(t) \/ RunExport(t) \/ EnqueueExport(t)
    BY <1>1 DEF Ingest, RunExport, EnqueueExport
<1>2. CASE IngestDisabled \/ Remove \/ Asynq \/ UNCHANGED vars
    BY <1>2 DEF IngestDisabled, Remove, Asynq, Forward, Expire, vars
<1>3. CASE Run
    BY <1>3 DEF Run, StartExport, LoadAgain, LoadSnapshot, LoadGone, Refuse,
                StartWriting, WriteSome, WriteAll, WriteBreaks, RecordSuccess,
                RecordFailure, FinishExport, SkipExport, Dequeue, Succeed, Skip, Stop
<1>4. CASE FailExport \/ CancelExport
    BY <1>4 DEF Stop, FailExport, CancelExport, Fail, Requeue
<1> QED
    BY <1>1, <1>2, <1>3, <1>4 DEF Next

(* The row keeps its place against what has been loaded and compared.      *)
LEMMA NextRowInv == TypeOK /\ RowInv /\ RunInv /\ [Next]_vars => RowInv'
<1> SUFFICES ASSUME TypeOK, RowInv, RunInv, [Next]_vars PROVE RowInv'
    OBVIOUS
<1> USE DEF RowInv
<1>0. /\ row \in [id : Nat, head : Nat, conf : Conf] /\ nextId \in Nat
      /\ {tried, compared} \subseteq [id : Nat, head : Nat]
    BY DEF TypeOK
<1>1. CASE Commit /\ UNCHANGED <<tried, gaveUp, compared>>
    BY <1>0, <1>1, CommitSteps
<1>2. CASE Remove
    BY <1>0, <1>2 DEF Remove, history, NoRow
<1>3. CASE UNCHANGED <<row, nextId>>
    <2>1. CASE LoadAgain
        BY <1>0, <2>1 DEF LoadAgain, Loading, Moved, Version, rows, TypeOK, RunInv
    <2>2. CASE LoadSnapshot
        BY <1>0, <2>2 DEF LoadSnapshot, Version, rows
    <2>3. CASE UNCHANGED <<tried, compared>>
        BY <1>3, <2>3
    <2> QED
        BY <2>1, <2>2, <2>3, Writers DEF LoadAgain, LoadSnapshot
<1> QED
    BY <1>1, <1>2, <1>3, Writers

(* No trigger gets ahead of the row it is about. *)
LEMMA NextAskedInv ==
    ASSUME TypeOK, RowInv, [Next]_vars, NEW t \in Triggers, AskedInv(t)
    PROVE  AskedInv(t)'
<1> USE DEF AskedInv, RowInv
<1>0. /\ row \in [id : Nat, head : Nat, conf : Conf] /\ nextId \in Nat
      /\ asked[t] \in [id : Nat, head : Nat]
    BY DEF TypeOK
<1>1. CASE call'[t] = call[t] /\ asked'[t] = asked[t]
    <2> PICK a \in [id : Nat, head : Nat] : a = asked[t] /\ a = asked'[t]
        BY <1>0, <1>1
    <2>1. CASE Commit
        BY <1>0, <1>1, <2>1, CommitSteps
    <2>2. CASE Remove
        BY <1>0, <1>1, <2>2 DEF Remove, NoRow
    <2>3. CASE UNCHANGED <<row, nextId>>
        BY <1>0, <1>1, <2>3
    <2> QED
        BY <2>1, <2>2, <2>3, Writers
<1>2. ASSUME NEW u \in Triggers, Ingest(u) PROVE AskedInv(t)'
    <2>1. CASE u = t
        BY <1>0, <1>2, <2>1, CommitSteps DEF Ingest, Ask, Version, TypeOK
    <2>2. CASE u # t
        <3>1. call'[t] = call[t] /\ asked'[t] = asked[t]
            BY <1>2, <2>2 DEF Ingest, Begin, Answer, Ask, TypeOK, QueueTypeOK
        <3> QED
            BY <1>1, <3>1
    <2> QED
        BY <2>1, <2>2
<1>3. ASSUME NEW u \in Triggers, RunExport(u) PROVE AskedInv(t)'
    <2>1. CASE u = t
        BY <1>0, <1>3, <2>1 DEF RunExport, Ask, Version, TypeOK
    <2>2. CASE u # t
        <3>1. call'[t] = call[t] /\ asked'[t] = asked[t]
            BY <1>3, <2>2 DEF RunExport, Begin, Answer, Ask, TypeOK, QueueTypeOK
        <3> QED
            BY <1>1, <3>1
    <2> QED
        BY <2>1, <2>2
<1>4. ASSUME NEW u \in Triggers, EnqueueExport(u) PROVE AskedInv(t)'
    <2>1. asked'[t] = asked[t] /\ row' = row /\ nextId' = nextId
        BY <1>4 DEF EnqueueExport, rows
    <2>2. u = t => call[t] # "idle"
        BY <1>4, ClientSteps DEF EnqueueExport, TypeOK, Asking
    <2>3. u # t => call'[t] = call[t]
        BY <1>4, ClientSteps DEF EnqueueExport, TypeOK
    <2> QED
        BY <2>1, <2>2, <2>3
<1>5. CASE UNCHANGED <<call, hit, asked, job, strays>>
    BY <1>1, <1>5
<1> QED
    BY <1>2, <1>3, <1>4, <1>5, Writers

(* A run has loaded what it compares with, and leaves a reason when it     *)
(* stops.                                                                  *)
LEMMA NextRunInv == TypeOK /\ RunInv /\ [Next]_vars => RunInv'
<1> SUFFICES ASSUME TypeOK, RunInv, [Next]_vars PROVE RunInv'
    OBVIOUS
<1> USE DEF RunInv, queueVars, rows, payload, state, history
<1>0. /\ run \in [pc : Stage, n : 0 .. MaxRuns, head : Nat, conf : Conf] /\ job \in Nat
      /\ row \in [id : Nat, head : Nat, conf : Conf]
    BY DEF TypeOK
<1>1. ASSUME NEW t \in Triggers, EnqueueExport(t) PROVE RunInv'
    <2>1. task' = "active" <=> task = "active"
        BY <1>1, ClientSteps DEF EnqueueExport, TypeOK
    <2>2. UNCHANGED <<run, tried, ended>> /\ (task = "active" => job' = job)
        BY <1>1 DEF EnqueueExport
    <2> QED
        BY <2>1, <2>2
<1>2. CASE \/ \E t \in Triggers : Ingest(t) \/ RunExport(t)
           \/ IngestDisabled \/ Remove \/ Asynq \/ UNCHANGED vars
    BY <1>2 DEF Ingest, Begin, RunExport, IngestDisabled, Remove, Asynq, Forward,
                Expire, IsTerminalTaskState, Terminal, vars, exportVars
<1>3. CASE StartExport
    BY <1>3 DEF StartExport, Dequeue, NoRun
<1>4. CASE LoadAgain \/ LoadGone
    BY <1>0, <1>4 DEF LoadAgain, LoadGone, Loading, GoOn, Stop
<1>5. CASE LoadSnapshot
    BY <1>0, <1>5 DEF LoadSnapshot, Loading, Version
<1>6. CASE Refuse \/ StartWriting \/ WriteSome \/ WriteAll \/ WriteBreaks
    BY <1>0, <1>6 DEF Refuse, StartWriting, WriteSome, WriteAll, WriteBreaks, GoOn,
                      Stop, Failure
<1>7. CASE RecordSuccess
    <2>1. CASE run' = [run EXCEPT !.pc = "load", !.n = @ + 1]
        <3>1. run'.pc = "load" /\ run'.head = run.head /\ run'.n >= 1
            BY <1>0, <1>7, <2>1 DEF RecordSuccess
        <3> QED
            BY <1>7, <3>1 DEF RecordSuccess
    <2>2. CASE \E pc \in {"done", "failed"} : GoOn(pc) /\ ended' # "never"
        BY <1>0, <1>7, <2>2 DEF RecordSuccess, GoOn
    <2> QED
        BY <1>7, <2>1, <2>2 DEF RecordSuccess, Stop
<1>8. CASE RecordFailure
    BY <1>0, <1>8 DEF RecordFailure, GoOn, Stop, Failure
<1>9. CASE FinishExport \/ SkipExport \/ FailExport \/ CancelExport
    BY <1>9 DEF FinishExport, SkipExport, FailExport, CancelExport, Succeed, Skip,
                Fail, Requeue, NoRun
<1> QED
    BY <1>1, <1>2, <1>3, <1>4, <1>5, <1>6, <1>7, <1>8, <1>9 DEF Next, Run

(* Nothing says that the pages are all there while they are written.       *)
LEMMA NextSyncInv == TypeOK /\ SyncInv /\ [Next]_vars => SyncInv'
<1> SUFFICES ASSUME TypeOK, SyncInv, [Next]_vars PROVE SyncInv'
    OBVIOUS
<1> USE DEF SyncInv, StatusIsTrue, queueVars, rows, payload, state, history
<1>0. run \in [pc : Stage, n : 0 .. MaxRuns, head : Nat, conf : Conf]
    BY DEF TypeOK
<1>1. CASE \/ \E t \in Triggers : Ingest(t) \/ RunExport(t) \/ EnqueueExport(t)
           \/ IngestDisabled \/ Asynq \/ UNCHANGED vars
    BY <1>1 DEF Ingest, RunExport, EnqueueExport, IngestDisabled, Asynq, vars, exportVars
<1>2. CASE Remove
    BY <1>2 DEF Remove, NoSync
<1>3. CASE StartExport \/ LoadAgain \/ LoadSnapshot \/ LoadGone
    BY <1>0, <1>3 DEF StartExport, LoadAgain, LoadSnapshot, LoadGone, GoOn, NoRun
<1>4. CASE Refuse
    <2>1. run.conf # "succeeded" /\ run'.pc = "done"
        BY <1>0, <1>4 DEF Refuse, GoOn, Conf
    <2>2. (sync' = sync /\ unrecorded') \/ sync'.status = run.conf
        BY <1>4 DEF Refuse, RecordState, Write, WriteFails
    <2> QED
        BY <1>4, <2>1, <2>2 DEF Refuse
<1>5. CASE StartWriting
    <2>1. run'.pc = "writing"
        BY <1>0, <1>5 DEF StartWriting, GoOn
    <2>2. (sync' = sync /\ unrecorded') \/ sync'.status = "running"
        BY <1>5 DEF StartWriting, RecordState, Write, WriteFails
    <2> QED
        BY <1>5, <2>1, <2>2 DEF StartWriting
<1>6. CASE WriteSome \/ WriteAll \/ WriteBreaks
    BY <1>0, <1>6 DEF WriteSome, WriteAll, WriteBreaks, GoOn, Failure
<1>7. CASE RecordSuccess
    <2>1. run'.pc \in {"load", "done", "failed"} /\ shown' = run.head
        BY <1>0, <1>7 DEF RecordSuccess, GoOn
    <2>2. (sync' = sync /\ unrecorded') \/ sync'.head = run.head
        BY <1>7 DEF RecordSuccess, Write, WriteFails
    <2> QED
        BY <1>7, <2>1, <2>2 DEF RecordSuccess
<1>8. CASE RecordFailure
    <2>1. run'.pc \in {"skipped", "failed"}
        BY <1>0, <1>8 DEF RecordFailure, GoOn
    <2>2. (sync' = sync /\ unrecorded') \/ sync'.status = "failed"
        BY <1>8 DEF RecordFailure, Write, WriteFails
    <2> QED
        BY <1>8, <2>1, <2>2 DEF RecordFailure
<1>9. CASE FinishExport \/ SkipExport \/ FailExport \/ CancelExport
    BY <1>9 DEF FinishExport, SkipExport, FailExport, CancelExport, NoRun
<1> QED
    BY <1>1, <1>2, <1>3, <1>4, <1>5, <1>6, <1>7, <1>8, <1>9 DEF Next, Run

-----------------------------------------------------------------------------
(* What a trigger is about is settled when its call begins, and a call     *)
(* that was cut off stays so.                                              *)
LEMMA Begun ==
    ASSUME TypeOK, [Next]_vars, NEW t \in Triggers, call[t] # "idle"
    PROVE  asked'[t] = asked[t] /\ (call[t] \notin Asking => call'[t] = call[t])
<1>1. ASSUME NEW u \in Triggers, Ingest(u) \/ RunExport(u)
      PROVE  asked'[t] = asked[t] /\ call'[t] = call[t]
    BY <1>1 DEF Ingest, RunExport, Begin, Answer, Ask, TypeOK, QueueTypeOK
<1>2. ASSUME NEW u \in Triggers, EnqueueExport(u)
      PROVE  asked'[t] = asked[t] /\ (call[t] \notin Asking => call'[t] = call[t])
    BY <1>2, ClientSteps DEF EnqueueExport, rows, TypeOK
<1> QED
    BY <1>1, <1>2, Writers

(* The snapshot a trigger is about, once loaded or given up, stays so: a   *)
(* later load is of a later head, or of a row that is not the trigger's.   *)
LEMMA LoadedStays ==
    ASSUME TypeOK, RowInv, [Next]_vars, NEW t \in Triggers,
           call[t] # "idle", AskedInv(t), Loaded(t)
    PROVE  Loaded(t)'
<1> USE DEF Loaded, Reaches, AskedInv, RowInv
<1>0. /\ row \in [id : Nat, head : Nat, conf : Conf] /\ nextId \in Nat
      /\ {tried, gaveUp} \subseteq [id : Nat, head : Nat]
    BY DEF TypeOK
<1> PICK a \in [id : Nat, head : Nat] : a = asked[t] /\ a = asked'[t]
    BY Begun DEF TypeOK
<1>1. CASE Commit /\ UNCHANGED <<tried, gaveUp, compared>>
    BY <1>0, <1>1, CommitSteps
<1>2. CASE Remove
    BY <1>0, <1>2 DEF Remove, NoRow
<1>3. CASE UNCHANGED <<row, nextId>>
    <2>1. tried' \in {tried, Version(row)}
        BY Writers DEF LoadSnapshot
    <2>2. gaveUp' \in {gaveUp, Version(row)}
        BY Writers
    <2>3. a.id = row.id => Reaches(Version(row), t)
        BY DEF Version
    <2> QED
        BY <1>0, <1>3, <2>1, <2>2, <2>3
<1> QED
    BY <1>1, <1>2, <1>3, Writers

(* How a client's call moves the task: not at all, or it deletes it, or it *)
(* creates one where there was none.                                       *)
LEMMA TaskMoves ==
    ASSUME TypeOK, NEW u \in Triggers, EnqueueExport(u)
    PROVE  /\ UNCHANGED <<row, asked, tried, gaveUp, compared, ended, run>>
           /\ strays' = strays \cup Astray(u)
           /\ \A t \in Triggers \ {u} : call'[t] = call[t] /\ hit'[t] = hit[t]
           /\ \/ /\ task' = task /\ job' = job
                 /\ call[u] = "reenqueue" /\ task = "none" => call'[u] = "cutoff"
              \/ /\ task \notin {"none", "active"} /\ task' = "none" /\ job' = job
                 /\ call[u] = "clear" /\ call'[u] \in {"reenqueue", "cutoff"}
              \/ task = "none" /\ task' \in WillRun /\ job' = asked[u].id
<1>1. /\ \A t \in Triggers \ {u} : call'[t] = call[t] /\ hit'[t] = hit[t]
      /\ call[u] \in Asking
    BY ClientSteps DEF EnqueueExport, TypeOK
<1>2. \/ /\ task' = task
         /\ call[u] = "reenqueue" /\ task = "none" => call'[u] = "cutoff"
      \/ /\ task \notin {"none", "active"} /\ task' = "none"
         /\ call[u] = "clear" /\ call'[u] \in {"reenqueue", "cutoff"}
      \/ task = "none" /\ task' \in WillRun
    <2> USE DEF Answer, Create, TypeOK, QueueTypeOK, WillRun
    <2>1. CASE Enqueue(u)
        BY <2>1 DEF Enqueue
    <2>2. CASE Inspect(u)
        BY <2>2 DEF Inspect
    <2>3. CASE Clear(u)
        BY <2>3 DEF Clear
    <2>4. CASE ReEnqueue(u)
        BY <2>4 DEF ReEnqueue
    <2>5. CASE Break(u)
        BY <2>5 DEF Break
    <2> QED
        BY <2>1, <2>2, <2>3, <2>4, <2>5 DEF EnqueueExport, Client
<1>3. "none" \notin WillRun
    BY DEF WillRun
<1> QED
    BY <1>1, <1>2, <1>3 DEF EnqueueExport, rows, history

(* An export that is coming for a trigger comes, whatever another trigger  *)
(* does, unless that makes it another row's.                               *)
LEMMA ClientsKeepComing ==
    ASSUME TypeOK, RunInv, NEW u \in Triggers, EnqueueExport(u),
           NEW t \in Triggers, t \notin Astray(u), Coming(t)
    PROVE  Coming(t)' \/ CutOff'
<1> USE DEF Coming, CutOff
<1>1. UNCHANGED <<asked, run>>
    BY TaskMoves
<1>2. CASE job = asked[t].id /\ (task \in WillRun \/ run.pc = "load")
    <2>0. task \in WillRun \cup {"active"}
        BY <1>2 DEF RunInv
    <2>1. CASE task' = task /\ job' = job
        BY <1>1, <1>2, <2>1
    <2>2. CASE task # "active" /\ task' = "none" /\ call[u] = "clear"
               /\ call'[u] \in {"reenqueue", "cutoff"}
        <3>1. asked[u].id = asked[t].id
            BY <1>2, <2>0, <2>2 DEF Astray
        <3> QED
            BY <1>1, <2>2, <3>1
    <2> QED
        BY <2>0, <2>1, <2>2, TaskMoves DEF WillRun
<1>3. CASE task = "none" /\ \E v \in Triggers : call[v] = "reenqueue" /\ asked[v].id = asked[t].id
    <2> PICK v \in Triggers : call[v] = "reenqueue" /\ asked[v].id = asked[t].id
        BY <1>3
    <2>1. CASE task' = "none"
        <3>1. v # u => call'[v] = "reenqueue"
            BY TaskMoves
        <3>2. v = u => call'[v] = "cutoff"
            BY <1>3, <2>1, TaskMoves DEF WillRun
        <3> QED
            BY <1>1, <2>1, <3>1, <3>2
    <2>2. CASE task' \in WillRun /\ job' = asked[u].id
        <3>1. asked[u].id = asked[t].id
            BY <1>3, <2>2 DEF Astray, WillRun
        <3> QED
            BY <1>1, <2>2, <3>1
    <2> QED
        BY <1>3, <2>1, <2>2, TaskMoves
<1> QED
    BY <1>2, <1>3

(* A trigger once covered stays covered, unless it is made another row's.  *)
LEMMA StaysCovered ==
    ASSUME IInv, [Next]_vars, NEW t \in Triggers, call[t] # "idle",
           t \notin strays', Covered(t)
    PROVE  Covered(t)'
<1> USE DEF IInv, queueVars, rows, payload, state, history
<1>1. asked'[t] = asked[t]
    BY Begun
<1>2. CASE CutOff
    BY <1>2, Begun DEF CutOff, Covered, Asking
<1>3. CASE Loaded(t)
    BY <1>3, LoadedStays DEF Covered
<1>4. CASE Coming(t)
    <2>1. ASSUME NEW u \in Triggers, Ingest(u) \/ RunExport(u) PROVE Coming(t)'
        <3>1. /\ UNCHANGED <<task, job, run>>
              /\ \A v \in Triggers : call[v] = "reenqueue" => call'[v] = "reenqueue"
            BY <2>1 DEF Ingest, RunExport, Begin, Answer, TypeOK, QueueTypeOK
        <3>2. \A v \in Triggers : call[v] = "reenqueue" => asked'[v] = asked[v]
            BY Begun
        <3> QED
            BY <1>1, <1>4, <3>1, <3>2 DEF Coming
    <2>2. ASSUME NEW u \in Triggers, EnqueueExport(u) PROVE Covered(t)'
        BY <1>4, <2>2, ClientsKeepComing, TaskMoves DEF Covered
    <2>3. CASE IngestDisabled \/ Remove \/ UNCHANGED vars
        BY <1>4, <2>3 DEF IngestDisabled, Remove, vars, exportVars, Covered, Coming
    <2>4. CASE Asynq
        BY <1>4, <2>4 DEF Asynq, Forward, Expire, IsTerminalTaskState, exportVars,
                          Covered, Coming, WillRun, Terminal, RunInv
    <2>5. CASE StartExport
        BY <1>4, <2>5 DEF StartExport, Dequeue, Covered, Coming, NoRun, RunInv, TypeOK
    <2>6. CASE run.pc # "idle" /\ Run
        <3>1. job = asked[t].id /\ run.pc = "load"
            BY <1>4, <2>6 DEF Coming, RunInv, WillRun
        <3>2. LoadAgain \/ LoadSnapshot \/ LoadGone
            BY <2>6, <3>1 DEF Run, StartExport, Dequeue, RunInv, Refuse, StartWriting,
                   WriteSome, WriteAll, WriteBreaks, RecordSuccess, RecordFailure,
                   FinishExport, SkipExport, Failure
        <3>3. CASE LoadAgain
            <4>1. Reaches(tried, t)
                BY <3>1, <3>3 DEF LoadAgain, Loading, Moved, RunInv, AskedInv,
                                  Reaches, TypeOK
            <4> QED
                BY <4>1, LoadedStays DEF Loaded, Covered
        <3>4. CASE LoadSnapshot
            BY <1>1, <3>1, <3>4 DEF LoadSnapshot, Loading, Version, AskedInv, Reaches,
                                    Loaded, Covered
        <3>5. CASE LoadGone
            BY <1>1, <3>1, <3>5 DEF LoadGone, Loaded, Covered
        <3> QED
            BY <3>2, <3>3, <3>4, <3>5
    <2>7. CASE FailExport
        <3>1. CASE task' = "retry"
            BY <1>1, <1>4, <2>7, <3>1 DEF FailExport, Fail, Covered, Coming, WillRun
        <3>2. CASE task' = "archived"
            <4>1. gaveUp' = Version(row) /\ row' = row
                BY <2>7, <3>2 DEF FailExport
            <4> QED
                BY <1>1, <4>1 DEF Version, AskedInv, Reaches, Loaded, Covered
        <3> QED
            BY <2>7, <3>1, <3>2 DEF FailExport, Fail
    <2>8. CASE CancelExport
        BY <1>1, <1>4, <2>8 DEF CancelExport, Requeue, Covered, Coming, WillRun
    <2>9. Run => StartExport \/ run.pc # "idle"
        BY DEF Run, LoadAgain, LoadSnapshot, LoadGone, Loading, Refuse, StartWriting,
               WriteSome, WriteAll, WriteBreaks, RecordSuccess, RecordFailure,
               FinishExport, SkipExport, Failure
    <2> QED
        BY <2>1, <2>2, <2>3, <2>4, <2>5, <2>6, <2>7, <2>8, <2>9 DEF Next, Covered
<1> QED
    BY <1>2, <1>3, <1>4 DEF Covered

(* What becomes of a task between two steps.                               *)
LEMMA TaskFates ==
    ASSUME TypeOK, RunInv, [Next]_vars
    PROVE  /\ task = "active" =>
                \/ task' = "active" /\ job' = job
                \/ ended' # "never"
                \/ task' \in WillRun /\ job' = job
           /\ task \in Terminal \cup {"none"} =>
                \/ task' \in Terminal \cup {"none"}
                \/ task' \in WillRun /\ \E u \in Triggers : EnqueueExport(u) /\ job' = asked[u].id
           /\ task \notin {"none"} => job' = job
<1> USE DEF queueVars, rows, payload, state, history
<1>1. ASSUME NEW u \in Triggers, EnqueueExport(u)
      PROVE  /\ task = "active" => task' = "active" /\ job' = job
             /\ task \in Terminal \cup {"none"} =>
                  \/ task' \in Terminal \cup {"none"}
                  \/ task' \in WillRun /\ job' = asked[u].id
             /\ task \notin {"none"} => job' = job
    BY <1>1, TaskMoves
<1>2. CASE \E t \in Triggers : Ingest(t) \/ RunExport(t)
    BY <1>2 DEF Ingest, RunExport, Begin
<1>3. CASE IngestDisabled \/ Remove \/ Asynq \/ UNCHANGED vars
    BY <1>3 DEF IngestDisabled, Remove, Asynq, Forward, Expire, IsTerminalTaskState,
                Terminal, exportVars, vars
<1>4. CASE FinishExport \/ SkipExport
    BY <1>4 DEF FinishExport, SkipExport, Succeed, Skip, RunInv, Terminal
<1>5. CASE Run /\ ~(FinishExport \/ SkipExport)
    BY <1>5 DEF Run, StartExport, LoadAgain, LoadSnapshot, LoadGone, Refuse,
                StartWriting, WriteSome, WriteAll, WriteBreaks, RecordSuccess,
                RecordFailure, Dequeue, Terminal
<1>6. CASE FailExport \/ CancelExport
    BY <1>6 DEF FailExport, CancelExport, Fail, Requeue, Stop, WillRun, Terminal
<1> QED
    BY <1>1, <1>2, <1>3, <1>4, <1>5, <1>6 DEF Next, Run

LEMMA StaysAwaited ==
    ASSUME IInv, [Next]_vars, NEW t \in Triggers, call[t] # "idle",
           t \notin strays', Awaited(t)
    PROVE  Awaited(t)'
<1> USE DEF Awaited
<1>1. asked'[t] = asked[t]
    BY Begun DEF IInv
<1>2. CASE Covered(t)
    BY <1>2, StaysCovered
<1>3. CASE ended # "never"
    BY <1>3, Writers
<1>4. CASE task = "active" /\ job = asked[t].id
    BY <1>1, <1>4, TaskFates DEF IInv, Covered, Coming
<1> QED
    BY <1>2, <1>3, <1>4

LEMMA StaysOvertaken ==
    ASSUME IInv, [Next]_vars, NEW t \in Triggers, call[t] # "idle",
           t \notin strays', Overtaken(t)
    PROVE  Overtaken(t)'
<1> USE DEF Overtaken
<1>1. asked'[t] = asked[t]
    BY Begun DEF IInv
<1>2. CASE Covered(t)
    BY <1>2, StaysCovered
<1>3. CASE task \in Terminal \cup {"none"}
    <2>1. CASE task' \in WillRun /\ job' = asked[t].id
        BY <1>1, <2>1 DEF Covered, Coming
    <2> QED
        BY <1>1, <1>3, <2>1, TaskFates DEF IInv
<1>4. CASE job # asked[t].id /\ task \notin Terminal \cup {"none"}
    BY <1>1, <1>4, TaskFates DEF IInv
<1> QED
    BY <1>2, <1>3, <1>4

(* A step that leaves a trigger's own call alone keeps what holds of it.   *)
LEMMA BystanderInv ==
    ASSUME IInv, [Next]_vars, NEW t \in Triggers, call[t] # "idle",
           call'[t] = call[t], hit'[t] = hit[t], t \notin strays', TriggerInv(t)
    PROVE  TriggerInv(t)'
<1>1. Covered(t) => Covered(t)'
    BY StaysCovered
<1>2. Awaited(t) => Awaited(t)'
    BY StaysAwaited
<1>3. Overtaken(t) => Overtaken(t)'
    BY StaysOvertaken
<1>4. Claimed(t)' => Claimed(t) \/ t \in strays
    BY DEF Claimed
<1>5. t \notin strays
    BY Writers, TaskMoves DEF IInv, Ingest, RunExport, payload
<1> QED
    BY <1>1, <1>2, <1>3, <1>4, <1>5 DEF TriggerInv

(* A trigger's own call: it is covered when its task is created, when it   *)
(* is coalesced onto a task of its row, and from its clear to its second   *)
(* enqueue; it strays when it meets a task of another.                     *)
LEMMA CallerInv ==
    ASSUME IInv, NEW t \in Triggers, EnqueueExport(t), t \notin strays', TriggerInv(t)
    PROVE  TriggerInv(t)'
<1>1. [Next]_vars /\ call[t] # "idle" /\ asked'[t] = asked[t] /\ t \notin Astray(t)
      /\ t \notin strays
    BY ClientSteps, TaskMoves DEF Next, EnqueueExport, IInv, TypeOK, Asking
<1>2. Covered(t) => Covered(t)'
    BY <1>1, StaysCovered
<1>3. Awaited(t) => Awaited(t)'
    BY <1>1, StaysAwaited
<1>4. Covered(t) => Awaited(t)
    BY DEF Awaited
<1> USE DEF Answer, Create, IInv, TypeOK, QueueTypeOK
<1>5. CASE Enqueue(t)
    <2>1. task # "active" => task \in {"none"} \cup WillRun \cup Terminal
        BY DEF TaskState
    <2>2. CASE task = "none"
        <3>1. call'[t] = "enqueued" /\ task' \in WillRun /\ job' = asked[t].id
            BY <1>1, <1>5, <2>2, TaskMoves DEF Enqueue, WillRun
        <3>2. Covered(t)'
            BY <1>1, <3>1 DEF Covered, Coming
        <3> QED
            BY <3>1, <3>2 DEF TriggerInv
    <2>3. CASE task # "none"
        <3>1. call'[t] = "inspect" /\ hit'[t] = task /\ task' = task /\ job' = job
            BY <1>5, <2>3 DEF Enqueue, EnqueueExport
        <3>2. task \in WillRun \cup {"active"} => job = asked[t].id
            BY <1>1, <1>5 DEF Enqueue, Astray
        <3>3. task \in WillRun => Covered(t)'
            BY <1>1, <3>1, <3>2 DEF Covered, Coming
        <3>4. task = "active" => Awaited(t)'
            BY <1>1, <3>1, <3>2 DEF Awaited
        <3>5. task \in Terminal => Overtaken(t)'
            BY <3>1 DEF Overtaken
        <3> QED
            BY <2>3, <3>1, <3>3, <3>4, <3>5 DEF TriggerInv, Claimed
    <2> QED
        BY <2>2, <2>3
<1>6. CASE Inspect(t)
    <2>1. UNCHANGED <<task, hit>> /\ call[t] = "inspect" /\ hit[t] # "none"
        BY <1>1, <1>6 DEF Inspect, TriggerInv
    <2>2. \/ call'[t] \in {"clear", "blind"}
          \/ call'[t] = "gone"
          \/ call'[t] = "coalesced" /\ task \notin Terminal \cup {"none"}
        <3> PICK info \in {task} \cup (IF RedisFails THEN {"unreadable"} ELSE {}) :
                call'[t] = CASE ClassifyConflict(info) = "clearAndRetry" -> "clear"
                             [] info = "none"                            -> "gone"
                             [] info = "unreadable"                      -> "blind"
                             [] OTHER                                    -> "coalesced"
            BY <1>6 DEF Inspect
        <3> DEFINE c == ClassifyConflict(info)
        <3>1. CASE c = "clearAndRetry"
            <4>1. info \notin {"none", "unreadable"}
                BY <3>1 DEF ClassifyConflict
            <4> QED
                BY <3>1, <4>1, Zenon
        <3>2. CASE c # "clearAndRetry" /\ info \in {"none", "unreadable"}
            BY <3>2, Zenon
        <3>3. CASE c # "clearAndRetry" /\ info \notin {"none", "unreadable"}
            <4>1. info = task /\ ~IsTerminalTaskState(info)
                BY <3>3 DEF ClassifyConflict
            <4>2. call'[t] = "coalesced"
                BY <3>3, Zenon
            <4> QED
                BY <3>3, <4>1, <4>2 DEF IsTerminalTaskState
        <3> QED
            BY <3>1, <3>2, <3>3
    <2>3. CASE call'[t] = "coalesced" /\ task \notin Terminal \cup {"none"}
        <3>1. job = asked[t].id
            BY <1>1, <2>1, <2>3 DEF Astray, TaskState
        <3>2. hit[t] # "active" => Covered(t)
            BY <2>1, <2>3, <3>1 DEF TriggerInv, Overtaken, TaskState
        <3> QED
            BY <1>1, <1>2, <1>3, <2>1, <2>3, <3>2 DEF TriggerInv, Claimed
    <2> QED
        BY <1>2, <2>1, <2>2, <2>3 DEF TriggerInv, Claimed
<1>7. CASE Clear(t)
    <2>1. CASE task = "active"
        BY <1>7, <2>1 DEF Clear, TriggerInv, Claimed
    <2>2. CASE task # "active"
        <3>1. call'[t] = "reenqueue" /\ task' = "none"
            BY <1>7, <2>2 DEF Clear
        <3>2. Covered(t)'
            BY <1>1, <3>1 DEF Covered, Coming
        <3> QED
            BY <3>1, <3>2 DEF TriggerInv
    <2> QED
        BY <2>1, <2>2
<1>8. CASE ReEnqueue(t)
    <2>1. Covered(t) /\ call'[t] \in {"enqueued", "coalesced"}
        BY <1>8 DEF ReEnqueue, TriggerInv
    <2> QED
        BY <1>2, <1>3, <1>4, <2>1 DEF TriggerInv
<1>9. CASE Break(t)
    <2>1. call'[t] \in {"failed", "cutoff"}
        BY <1>9 DEF Break
    <2> QED
        BY <2>1 DEF TriggerInv, Claimed
<1> QED
    BY <1>5, <1>6, <1>7, <1>8, <1>9 DEF EnqueueExport, Client

LEMMA NextIInv == IInv /\ [Next]_vars => IInv'
<1> SUFFICES ASSUME IInv, [Next]_vars PROVE IInv'
    OBVIOUS
<1>1. TypeOK' /\ RowInv' /\ RunInv' /\ SyncInv'
    BY NextTypeOK, NextRowInv, NextRunInv, NextSyncInv DEF IInv
<1>2. ASSUME NEW t \in Triggers PROVE AskedInv(t)'
    BY NextAskedInv DEF IInv
<1>3. ASSUME NEW t \in Triggers, t \notin strays' PROVE TriggerInv(t)'
    <2>1. ASSUME NEW u \in Triggers, Ingest(u) \/ RunExport(u) PROVE TriggerInv(t)'
        <3>1. /\ UNCHANGED <<hit, strays>> /\ call[u] = "idle" /\ call'[u] = "enqueue"
              /\ \A v \in Triggers \ {u} : call'[v] = call[v]
            BY <2>1 DEF Ingest, RunExport, Begin, Answer, payload, IInv, TypeOK, QueueTypeOK
        <3>2. CASE call'[t] \in {"idle", "enqueue"}
            BY <3>2 DEF TriggerInv, Claimed
        <3>3. CASE call'[t] \notin {"idle", "enqueue"}
            BY <1>3, <3>1, <3>3, BystanderInv DEF IInv
        <3> QED
            BY <3>2, <3>3
    <2>2. ASSUME NEW u \in Triggers, EnqueueExport(u) PROVE TriggerInv(t)'
        <3>0. t \notin strays
            BY <1>3, <2>2, TaskMoves DEF IInv
        <3>1. CASE u = t
            BY <1>3, <2>2, <3>0, <3>1, CallerInv DEF IInv
        <3>2. CASE u # t
            <4>1. call'[t] = call[t] /\ hit'[t] = hit[t]
                BY <2>2, <3>2, TaskMoves DEF IInv
            <4>2. CASE call[t] = "idle"
                BY <4>1, <4>2 DEF TriggerInv, Claimed
            <4>3. CASE call[t] # "idle"
                BY <1>3, <3>0, <4>1, <4>3, BystanderInv DEF IInv
            <4> QED
                BY <4>2, <4>3
        <3> QED
            BY <3>1, <3>2
    <2>3. CASE UNCHANGED <<call, hit, asked, job, strays>>
        <3>1. CASE call[t] = "idle"
            BY <2>3, <3>1 DEF TriggerInv, Claimed
        <3>2. CASE call[t] # "idle"
            BY <1>3, <2>3, <3>2, BystanderInv DEF IInv
        <3> QED
            BY <3>1, <3>2
    <2> QED
        BY <2>1, <2>2, <2>3, Writers
<1> QED
    BY <1>1, <1>2, <1>3 DEF IInv

LEMMA Invariance == Spec => []IInv
BY InitIInv, NextIInv, PTL DEF Spec

-----------------------------------------------------------------------------
(* No export the queue claims to have covered is lost, whatever the number *)
(* of triggers, commits, removals and retries: a snapshot at least as new  *)
(* as the one it is about is loaded, given up or on its way                *)
(* (EnqueueExport, resolveTaskIDConflict, Service.load).                   *)
THEOREM ExportsAreKept == Spec => []NoExportLost
<1>1. IInv => NoExportLost
    BY DEF IInv, TriggerInv, NoExportLost, Claimed
<1> QED
    BY <1>1, Invariance, PTL

(* A trigger that met a running export is missed only for one of the       *)
(* reasons a run stops going round (Service.Run): when a run that had      *)
(* caught up compared heads, it had loaded the head it found.              *)
THEOREM RerunsCatchUp == Spec => []RerunCatchesUp
<1>1. IInv => RerunCatchesUp
    <2> SUFFICES ASSUME IInv, NEW t \in Triggers \ strays, call[t] = "coalesced",
                        hit[t] = "active", ~Covered(t), task \in Terminal \cup {"none"}
                 PROVE  \/ ended \in {"failed", "refused", "exhausted"}
                        \/ ended = "caughtUp" /\ ~Reaches(compared, t)
        BY DEF RerunCatchesUp
    <2>1. ended # "never"
        BY DEF IInv, TriggerInv, Awaited, Terminal
    <2>2. ~Reaches(compared, t)
        BY DEF IInv, TypeOK, AskedInv, RowInv, Covered, Loaded, Reaches
    <2> QED
        BY <2>1, <2>2 DEF IInv, TypeOK
<1> QED
    BY <1>1, Invariance, PTL

(* The status the API serves is true, however runs were cut short, for any *)
(* number of them (once, recordState, record).                             *)
THEOREM ServedStatusIsTrue == Spec => []StatusIsTrue
<1>1. IInv => StatusIsTrue
    BY DEF IInv, SyncInv
<1> QED
    BY <1>1, Invariance, PTL

(* Every variable of the queue, the worker and the rows keeps its type.    *)
THEOREM TypeCorrect == Spec => []TypeOK
<1>1. IInv => TypeOK
    BY DEF IInv
<1> QED
    BY <1>1, Invariance, PTL
=============================================================================
