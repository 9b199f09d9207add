----------------------------- MODULE IngestQueue -----------------------------
(***************************************************************************)
(* The ingest queue of one repository: pushes move its HEAD, triggers      *)
(* (webhook deliveries, -onboard) call EnqueueIngest, and the worker runs  *)
(* ingest.Service.Run, which fetches whatever HEAD is when it gets there   *)
(* and commits that snapshot.  The job carries no SHA: "latest-HEAD wins"  *)
(* (internal/queue/job.go) rests on the order of the fetch and the trigger.*)
(***************************************************************************)
EXTENDS TaskQueue

CONSTANTS
    MaxHead,      \* bound: the last commit of the default branch
    MaxRequeues   \* bound: cancelled runs (process shutdowns)

ASSUME IngestAssumption == MaxHead \in Nat \ {0} /\ MaxRequeues \in Nat

VARIABLES
    head,      \* the default branch's HEAD, as a commit number
    want,      \* want[t]: HEAD when trigger t arrived
    stage,     \* how far the active run has come
    fetched,   \* the HEAD the active run fetched
    synced,    \* repos.last_synced_sha: the HEAD Postgres holds
    gaveUp,    \* history: HEAD when asynq last archived the task
    requeues   \* how many runs were cancelled

ingestVars == <<head, want, stage, fetched, synced, gaveUp, requeues>>

vars == <<queueVars, ingestVars>>

Stage == {"idle", "started", "fetched", "committed"}

TypeOK ==
    /\ QueueTypeOK
    /\ head \in Nat
    /\ want \in [Triggers -> Nat]
    /\ stage \in Stage
    /\ fetched \in Nat
    /\ synced \in Nat
    /\ gaveUp \in Nat
    /\ requeues \in Nat

Init ==
    /\ QueueInit
    /\ head = 1
    /\ want = [t \in Triggers |-> 0]
    /\ stage = "idle"
    /\ fetched = 0
    /\ synced = 0
    /\ gaveUp = 0
    /\ requeues = 0

-----------------------------------------------------------------------------
Push ==
    /\ head < MaxHead
    /\ head' = head + 1
    /\ UNCHANGED <<queueVars, want, stage, fetched, synced, gaveUp, requeues>>

Trigger(t) ==
    /\ Begin(t)
    /\ want' = [want EXCEPT ![t] = head]
    /\ UNCHANGED <<head, stage, fetched, synced, gaveUp, requeues>>

EnqueueIngest(t) == (Client(t) \/ Break(t)) /\ UNCHANGED ingestVars

Asynq == (Forward \/ Expire) /\ UNCHANGED ingestVars

StartRun ==
    /\ Dequeue
    /\ stage' = "started"
    /\ UNCHANGED <<head, want, fetched, synced, gaveUp, requeues>>

(* A mutant of FetchSnapshot: the job carries the HEAD of its trigger. *)
FetchTriggered ==
    /\ task = "active" /\ stage = "started"
    /\ stage' = "fetched"
    /\ \E t \in Triggers : call[t] # "idle" /\ fetched' = want[t]
    /\ UNCHANGED <<queueVars, head, want, synced, gaveUp, requeues>>

FetchSnapshot ==
    /\ task = "active" /\ stage = "started"
    /\ stage' = "fetched"
    /\ fetched' = head
    /\ UNCHANGED <<queueVars, head, want, synced, gaveUp, requeues>>

Reconcile ==
    /\ task = "active" /\ stage = "fetched"
    /\ stage' = "committed"
    /\ synced' = fetched
    /\ UNCHANGED <<queueVars, head, want, fetched, gaveUp, requeues>>

FinishRun ==
    /\ stage = "committed"
    /\ Succeed
    /\ stage' = "idle"
    /\ UNCHANGED <<head, want, fetched, synced, gaveUp, requeues>>

(* Any step of Run may fail, and the worker may die between any two, the   *)
(* commit and the acknowledgement included: delivery is at least once.     *)
FailRun ==
    /\ Fail
    /\ stage' = "idle"
    /\ gaveUp' = IF task' = "archived" THEN head ELSE gaveUp
    /\ UNCHANGED <<head, want, fetched, synced, requeues>>

CancelRun ==
    /\ requeues < MaxRequeues
    /\ Requeue
    /\ stage' = "idle"
    /\ requeues' = requeues + 1
    /\ UNCHANGED <<head, want, fetched, synced, gaveUp>>

Run == StartRun \/ FetchSnapshot \/ Reconcile \/ FinishRun

Next ==
    \/ Push
    \/ \E t \in Triggers : Trigger(t) \/ EnqueueIngest(t)
    \/ Asynq
    \/ Run
    \/ FailRun
    \/ CancelRun

Spec == Init /\ [][Next]_vars

(* An HTTP handler that has begun to enqueue goes on, and asynq forwards,  *)
(* hands out and acknowledges tasks for as long as the server runs.        *)
(* Nothing makes GitHub push, a trigger arrive or a task expire, and a run *)
(* may fail as often as asynq allows.                                      *)
Fairness ==
    /\ \A t \in Triggers : WF_vars(Client(t) /\ UNCHANGED ingestVars)
    /\ WF_vars(Forward /\ UNCHANGED ingestVars)
    /\ WF_vars(Run)

FairSpec == Spec /\ Fairness

-----------------------------------------------------------------------------
(* What is still coming for a trigger that wants HEAD h: a run that has    *)
(* not fetched yet or fetched late enough, or a client about to put the    *)
(* task back that it just cleared.                                         *)
Coming(h) ==
    \/ task \in WillRun
    \/ task = "active" /\ (stage = "started" \/ fetched >= h)
    \/ task = "none" /\ \E u \in Triggers : call[u] = "reenqueue"

Answered(h) == synced >= h \/ gaveUp >= h

CutOff == \E u \in Triggers : call[u] = "cutoff"

Covered(h) == Answered(h) \/ Coming(h) \/ CutOff

(* The triggers the code claims to have covered: those it enqueued, and    *)
(* those it coalesced outside the gap documented on EnqueueIngest, where   *)
(* the id was held by an active run when the trigger came.                 *)
Claimed(t) ==
    \/ call[t] = "enqueued"
    \/ call[t] = "coalesced" /\ hit[t] # "active"
    \/ call[t] = "gone" /\ hit[t] \in WillRun

(* A trigger answered as enqueued or coalesced is never lost: until        *)
(* Postgres holds the HEAD it came for (or every retry of a run after it   *)
(* failed), a run that will see that HEAD is coming.  The only exception   *)
(* is a client that stopped after it deleted a finished task and before it *)
(* enqueued the next (EnqueueIngest and resolveTaskIDConflict).            *)
NoTriggerLost == \A t \in Triggers : Claimed(t) => Covered(want[t])

(* The inductive invariant behind it.  A clear in progress deletes the     *)
(* only task, so the trigger that clears is covered by itself; a trigger   *)
(* that conflicted with a finished task is covered as soon as the id is    *)
(* held by another one.                                                    *)
RunInv ==
    /\ head >= 1
    /\ \A t \in Triggers : want[t] <= head
    /\ (stage = "idle") <=> (task # "active")
    /\ fetched <= head /\ synced <= head
    /\ stage = "fetched" => synced <= fetched
    /\ stage = "committed" => synced = fetched

TriggerInv(t) ==
    /\ Claimed(t) => Covered(want[t])
    /\ call[t] = "inspect" =>
         /\ hit[t] # "none"
         /\ hit[t] \in WillRun => Covered(want[t])
         /\ hit[t] \in Terminal => \/ task \in Terminal \cup {"none"}
                                   \/ Covered(want[t])
    /\ call[t] = "reenqueue" => Covered(want[t])
    /\ call[t] # "idle" => want[t] >= 1

IInv == TypeOK /\ RunInv /\ \A t \in Triggers : TriggerInv(t)

(* Every claimed trigger is answered in the end: Postgres catches up with  *)
(* the HEAD it came for, or the run exhausts its retries.                  *)
EveryTriggerAnswered ==
    \A t \in Triggers : Claimed(t) ~> (Answered(want[t]) \/ CutOff)

(***************************************************************************)
(* The abstract specification: every claimed trigger is a promise of the   *)
(* HEAD it came for.                                                       *)
(***************************************************************************)
Promised == {want[t] : t \in {u \in Triggers : Claimed(u)}}

F == INSTANCE Freshness WITH promised <- Promised, forfeit <- CutOff

(* "Latest-HEAD wins" (job.go) over any number of retries, re-runs and     *)
(* cancelled runs: what Postgres holds only moves forward, to a HEAD that  *)
(* existed, and a trigger once claimed stays claimed.                      *)
Fresh == F!Spec

=============================================================================
