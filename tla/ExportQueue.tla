----------------------------- MODULE ExportQueue -----------------------------
(***************************************************************************)
(* The Confluence export queue of one repository: every ingest enqueues an *)
(* export of the row it committed, and the worker runs                     *)
(* internal/export.Service.Run, which loads a snapshot, writes the pages,  *)
(* records the run, and goes round again while the head has moved.         *)
(*                                                                         *)
(* The job names the row by id and carries no head.  What a run does in    *)
(* Confluence is PageExport's; here it succeeds, or fails in a way that a  *)
(* retry may clear, or in one that it cannot.                              *)
(***************************************************************************)
EXTENDS TaskQueue

CONSTANTS
    MaxRuns,     \* maxRuns: how often one task exports
    StoreFails,  \* a write to Postgres may fail
    MaxHead,     \* bound: commits of the default branch
    MaxId        \* bound: how often the repository is onboarded

ASSUME ExportAssumption ==
    /\ {MaxRuns, MaxHead, MaxId} \subseteq Nat \ {0}
    /\ StoreFails \in BOOLEAN

VARIABLES
    row,        \* the repository's row: id, last_synced_sha, config_snapshot
    nextId,     \* repos_id_seq
    asked,      \* asked[t]: the row and the head trigger t is about
    job,        \* the payload of the task that holds the id
    run,        \* the worker's run
    sync,       \* the repository's confluence_syncs row
    shown,      \* the head the pages in Confluence show (skipped ones aside), 0 for a mixture
    tried,      \* history: the last snapshot loaded
    gaveUp,     \* history: the row when the last task used up its retries
    compared,   \* history: the row when a run last found it had not moved
    ended,      \* history: why the last run stopped going round
    strays,     \* history: triggers whose export a task for another row displaced
    unrecorded  \* history: a write of sync failed since the last that did not

exportVars == <<row, nextId, asked, job, run, sync, shown, tried, gaveUp,
                compared, ended, strays, unrecorded>>

vars == <<queueVars, exportVars>>

rows == <<row, nextId, asked>>
payload == <<job, strays>>
state == <<sync, unrecorded>>
history == <<tried, gaveUp, compared, ended>>

Conf == {"allowed", "refused", "disabled"}
Failure == {"transient", "permanent"}
Stage == Failure \cup {"idle", "load", "loaded", "writing", "succeeded",
                        "done", "failed", "skipped"}
Status == {"none", "running", "succeeded", "failed", "refused", "disabled"}

NoRow == [id |-> 0, head |-> 0, conf |-> "disabled"]
NoRun == [pc |-> "idle", n |-> 0, head |-> 0, conf |-> "disabled"]
NoSync == [status |-> "none", head |-> 0]

TypeOK ==
    /\ QueueTypeOK
    /\ row \in [id : Nat, head : Nat, conf : Conf] /\ nextId \in Nat
    /\ asked \in [Triggers -> [id : Nat, head : Nat]]
    /\ job \in Nat
    /\ run \in [pc : Stage, n : 0 .. MaxRuns, head : Nat, conf : Conf]
    /\ sync \in [status : Status, head : Nat]
    /\ shown \in Nat
    /\ {tried, gaveUp, compared} \subseteq [id : Nat, head : Nat]
    /\ ended \in {"never", "caughtUp", "exhausted", "refused", "failed"}
    /\ strays \subseteq Triggers
    /\ unrecorded \in BOOLEAN

Init ==
    /\ QueueInit
    /\ row = NoRow /\ nextId = 1
    /\ asked = [t \in Triggers |-> [id |-> 0, head |-> 0]]
    /\ job = 0 /\ run = NoRun
    /\ sync = NoSync /\ shown = 0
    /\ tried = [id |-> 0, head |-> 0] /\ gaveUp = tried /\ compared = tried /\ ended = "never"
    /\ strays = {} /\ unrecorded = FALSE

-----------------------------------------------------------------------------
(* Ingests, the -export command and removals. *)

(* ReconcileRepo committed the head the row held or a later one.           *)
Commit ==
    \E h \in (row.head .. MaxHead) \ {0}, c \in Conf :
        /\ h = row.head => c = row.conf
        /\ \/ row # NoRow /\ row' = [row EXCEPT !.head = h, !.conf = c]
              /\ UNCHANGED nextId
           \/ row = NoRow /\ nextId <= MaxId
              /\ row' = [id |-> nextId, head |-> h, conf |-> c]
              /\ nextId' = nextId + 1

Version(r) == [id |-> r.id, head |-> r.head]

Ask(t, r) == asked' = [asked EXCEPT ![t] = Version(r)]

(* Service.Run of the ingest, up to enqueueExport. *)
Ingest(t) ==
    /\ Commit
    /\ row'.conf # "disabled"
    /\ Begin(t) /\ Ask(t, row')
    /\ UNCHANGED <<payload, state, history, run, shown>>

IngestDisabled ==
    /\ Commit
    /\ row'.conf = "disabled"
    /\ UNCHANGED <<queueVars, payload, state, history, asked, run, shown>>

RunExport(t) ==
    /\ row # NoRow
    /\ Begin(t) /\ Ask(t, row)
    /\ UNCHANGED <<payload, state, history, row, nextId, run, shown>>

(* The repository is offboarded; its sync row goes with it. *)
Remove ==
    /\ row # NoRow
    /\ row' = NoRow /\ sync' = NoSync
    /\ UNCHANGED <<queueVars, payload, history, nextId, asked, run, shown, unrecorded>>

(* Triggers whose export is now another row's: the one that finds a task   *)
(* for another row where it would enqueue its own, those whose task it     *)
(* clears away, and those whose replacement it forestalls.                 *)
Astray(t) ==
    {u \in Triggers :
        \/ /\ u = t /\ call[t] \in {"enqueue", "inspect"}
           /\ task \in WillRun \cup {"active"} /\ job # asked[t].id
        \/ /\ call[t] = "clear" /\ task \in WillRun /\ task' = "none"
           /\ job = asked[u].id /\ job # asked[t].id
        \/ /\ task = "none" /\ task' # "none" /\ asked[u].id # asked[t].id
           /\ \E v \in Triggers : call[v] = "reenqueue" /\ asked[v].id = asked[u].id}

EnqueueExport(t) ==
    /\ Client(t) \/ Break(t)
    /\ job' = IF task = "none" /\ task' # "none" THEN asked[t].id ELSE job
    /\ strays' = strays \cup Astray(t)
    /\ UNCHANGED <<rows, state, history, run, shown>>

Asynq == (Forward \/ Expire) /\ UNCHANGED exportVars

-----------------------------------------------------------------------------
(* handleExport and Service.Run. *)

GoOn(pc) == run' = [run EXCEPT !.pc = pc]

Stop(why) == ended' = why

StartExport ==
    /\ Dequeue
    /\ run' = [NoRun EXCEPT !.pc = "load", !.n = 1]
    /\ UNCHANGED <<rows, payload, state, history, shown>>

(* A mutant of LoadAgain: the run compares with the head it loaded. *)
NeverMoved ==
    /\ run.pc = "load" /\ run.n > 1
    /\ GoOn("done") /\ Stop("caughtUp") /\ compared' = Version(row)
    /\ UNCHANGED <<queueVars, rows, payload, state, shown, tried, gaveUp>>

Loading == run.pc = "load" /\ row.id = job

Moved == run.n = 1 \/ row.head # run.head

LoadAgain ==
    /\ Loading /\ ~Moved
    /\ GoOn("done") /\ Stop("caughtUp") /\ compared' = Version(row)
    /\ UNCHANGED <<queueVars, rows, payload, state, shown, tried, gaveUp>>

(* ExportInputs, one snapshot. *)
LoadSnapshot ==
    /\ Loading /\ Moved
    /\ run' = [run EXCEPT !.pc = "loaded", !.head = row.head, !.conf = row.conf]
    /\ tried' = Version(row)
    /\ UNCHANGED <<queueVars, rows, payload, state, shown, gaveUp, compared, ended>>

LoadGone ==
    /\ run.pc = "load" /\ row.id # job
    /\ GoOn("skipped") /\ Stop("failed")
    /\ UNCHANGED <<queueVars, rows, payload, state, shown, tried, gaveUp, compared>>

(* A write of the run's sync row, which a row that is gone refuses. *)
Write(status) ==
    /\ row.id = job
    /\ sync' = [status |-> status, head |-> run.head]
    /\ unrecorded' = FALSE

WriteFails ==
    /\ row.id # job \/ StoreFails
    /\ unrecorded' = TRUE /\ UNCHANGED sync

RecordState(status) == Write(status) \/ WriteFails

Refuse ==
    /\ run.pc = "loaded" /\ run.conf # "allowed"
    /\ RecordState(run.conf)
    /\ GoOn("done") /\ Stop("refused")
    /\ UNCHANGED <<queueVars, rows, payload, shown, tried, gaveUp, compared>>

(* A mutant of StartWriting: the run is not marked as running. *)
WriteUnmarked ==
    /\ run.pc = "loaded" /\ run.conf = "allowed"
    /\ GoOn("writing")
    /\ UNCHANGED <<queueVars, rows, payload, state, history, shown>>

StartWriting ==
    /\ run.pc = "loaded" /\ run.conf = "allowed"
    /\ RecordState("running")
    /\ GoOn("writing")
    /\ UNCHANGED <<queueVars, rows, payload, history, shown>>

(* confluence.Export, a page at a time: it may stop after any of them.     *)
WriteSome ==
    /\ run.pc = "writing" /\ shown # run.head
    /\ shown' = 0
    /\ UNCHANGED <<queueVars, rows, payload, state, history, run>>

WriteAll ==
    /\ run.pc = "writing"
    /\ shown' = run.head
    /\ GoOn("succeeded")
    /\ UNCHANGED <<queueVars, rows, payload, state, history>>

WriteBreaks ==
    /\ run.pc = "writing"
    /\ \E f \in Failure : GoOn(f)
    /\ UNCHANGED <<queueVars, rows, payload, state, history, shown>>

(* record, in one transaction; an error of its own is one a retry clears.  *)
RecordSuccess ==
    /\ run.pc = "succeeded"
    /\ \/ /\ Write("succeeded")
          /\ IF run.n < MaxRuns
             THEN run' = [run EXCEPT !.pc = "load", !.n = @ + 1] /\ UNCHANGED ended
             ELSE GoOn("done") /\ Stop("exhausted")
       \/ WriteFails /\ GoOn("failed") /\ Stop("failed")
    /\ UNCHANGED <<queueVars, rows, payload, shown, tried, gaveUp, compared>>

RecordFailure ==
    /\ run.pc \in Failure
    /\ \/ /\ Write("failed")
          /\ GoOn(IF run.pc = "permanent" THEN "skipped" ELSE "failed")
       \/ WriteFails /\ GoOn("failed")
    /\ Stop("failed")
    /\ UNCHANGED <<queueVars, rows, payload, shown, tried, gaveUp, compared>>

FinishExport ==
    /\ run.pc = "done"
    /\ Succeed
    /\ run' = NoRun
    /\ UNCHANGED <<rows, payload, state, history, shown>>

SkipExport ==
    /\ run.pc = "skipped"
    /\ Skip
    /\ run' = NoRun
    /\ UNCHANGED <<rows, payload, state, history, shown>>

(* The run returned an error, or the worker died at any step. *)
FailExport ==
    /\ Fail
    /\ run' = NoRun
    /\ Stop("failed")
    /\ gaveUp' = IF task' = "archived" THEN Version(row) ELSE gaveUp
    /\ UNCHANGED <<rows, payload, state, shown, tried, compared>>

CancelExport ==
    /\ Requeue
    /\ run' = NoRun
    /\ UNCHANGED <<rows, payload, state, history, shown>>

Run ==
    \/ StartExport \/ LoadAgain \/ LoadSnapshot \/ LoadGone \/ Refuse
    \/ StartWriting \/ WriteSome \/ WriteAll \/ WriteBreaks
    \/ RecordSuccess \/ RecordFailure \/ FinishExport \/ SkipExport

Next ==
    \/ \E t \in Triggers : Ingest(t) \/ RunExport(t) \/ EnqueueExport(t)
    \/ IngestDisabled \/ Remove
    \/ Asynq \/ Run \/ FailExport \/ CancelExport

Spec == Init /\ [][Next]_vars

-----------------------------------------------------------------------------
Coming(t) ==
    \/ job = asked[t].id /\ (task \in WillRun \/ run.pc = "load")
    \/ task = "none" /\ \E u \in Triggers :
         call[u] = "reenqueue" /\ asked[u].id = asked[t].id

Reaches(r, t) == r.id = asked[t].id /\ r.head >= asked[t].head

(* The snapshot trigger t is about, or a later one, was loaded, or given   *)
(* up on; or t's row is gone.                                              *)
Loaded(t) == asked[t].id # row.id \/ Reaches(tried, t) \/ Reaches(gaveUp, t)

CutOff == \E u \in Triggers : call[u] = "cutoff"

Covered(t) == Loaded(t) \/ Coming(t) \/ CutOff

Claimed(t) ==
    /\ t \notin strays
    /\ \/ call[t] = "enqueued"
       \/ call[t] = "coalesced" /\ hit[t] # "active"
       \/ call[t] = "gone" /\ hit[t] \in WillRun

(* A trigger answered as enqueued, or as coalesced onto an export that was *)
(* not running, is exported: a snapshot at least as new as the one it is   *)
(* about is loaded or its retries are used up, unless its row goes, a task *)
(* for another row took the place of its own, or a client stopped between  *)
(* clearing a task and enqueuing the next (EnqueueExport, Service.load).   *)
NoExportLost == \A t \in Triggers : Claimed(t) => Covered(t)

(* A trigger coalesced onto a running export is exported by the rerun, and *)
(* is missed only if the run failed for good, was refused, used up its     *)
(* runs, or had already compared heads when the ingest committed           *)
(* (Service.Run).                                                          *)
RerunCatchesUp ==
    \A t \in Triggers \ strays :
        call[t] = "coalesced" /\ hit[t] = "active" /\ ~Covered(t)
            /\ task \in Terminal \cup {"none"} =>
          \/ ended \in {"failed", "refused", "exhausted"}
          \/ ended = "caughtUp" /\ ~Reaches(compared, t)

(* The status the API serves is true: while it says "succeeded", every     *)
(* page in Confluence shows the head it names, however runs were cut       *)
(* short, because a run marks itself running before it writes; unless      *)
(* Postgres refused a write since (once, recordState, record).             *)
StatusIsTrue ==
    sync.status = "succeeded" /\ ~unrecorded => shown = sync.head

(* "An export enqueued while one is active is coalesced onto it, which is  *)
(* why the export reruns itself when the head moved while it ran"          *)
(* (EnqueueExport): with runs left, the head a trigger is about is loaded. *)
CoalescedExportReruns ==
    \A t \in Triggers \ strays :
        /\ call[t] = "coalesced" /\ hit[t] = "active"
        /\ task \in Terminal \cup {"none"} /\ ~CutOff
        /\ ended # "exhausted"
        => Loaded(t)

=============================================================================
