------------------------------ MODULE TaskQueue ------------------------------
(***************************************************************************)
(* One task id of the job queue: internal/queue over asynq over Redis.     *)
(*                                                                         *)
(* Every trigger for a repository enqueues under the same task id          *)
(* ("ingest:owner/name", "export:owner/name"), so the queue holds at most  *)
(* one task per repository and kind.  The id stays taken for as long as    *)
(* asynq keeps the task, its terminal states included, and the client      *)
(* finds out what a taken id means in separate round trips to Redis:       *)
(* enqueue, GetTaskInfo, DeleteTask, enqueue again.  Concurrent triggers   *)
(* interleave between any two of them, and so does the worker.             *)
(*                                                                         *)
(* The module has no behaviour of its own: IngestQueue and ExportQueue     *)
(* extend it with what their workers do.                                   *)
(***************************************************************************)
EXTENDS Naturals

CONSTANTS
    Triggers,     \* the calls of EnqueueIngest (or EnqueueExport), one each
    MaxRetry,     \* asynq.MaxRetry(maxRetry)
    Debounced,    \* the task is enqueued with a positive ProcessIn
    Retention,    \* asynq keeps a succeeded task in the completed state
    RedisFails    \* a Redis call, or the process making it, may fail

ASSUME QueueAssumption ==
    /\ MaxRetry \in Nat
    /\ Debounced \in BOOLEAN
    /\ Retention \in BOOLEAN
    /\ RedisFails \in BOOLEAN

VARIABLES
    task,     \* the state of the task holding the id, "none" when it is free
    retried,  \* how often the task has been retried after a failure
    call,     \* call[t]: where trigger t's enqueue call stands
    hit       \* hit[t]: history, the task t's first enqueue conflicted with

queueVars == <<task, retried, call, hit>>

-----------------------------------------------------------------------------
(* The states of an asynq task. *)

WillRun == {"scheduled", "pending", "retry"}

Terminal == {"archived", "completed"}

(* A mutant: an archived task counts as one that will run. *)
OnlyCompleted(s) == s = "completed"

IsTerminalTaskState(s) == s \in Terminal

TaskState == {"none", "active"} \cup WillRun \cup Terminal

(* A call in progress, then the four ways it is answered without an error: *)
(* its own task was enqueued, it was coalesced onto the task it found, the *)
(* conflicting task was gone or unreadable when it was inspected.          *)
Asking == {"enqueue", "inspect", "clear", "reenqueue"}

Accepted == {"enqueued", "coalesced", "gone", "blind"}

(* "failed" is an error to the caller; "cutoff" is one after the finished  *)
(* task was deleted and before its replacement was enqueued.               *)
CallState == {"idle", "failed", "cutoff"} \cup Asking \cup Accepted

QueueTypeOK ==
    /\ task \in TaskState
    /\ retried \in 0 .. MaxRetry
    /\ call \in [Triggers -> CallState]
    /\ hit \in [Triggers -> TaskState]

QueueInit ==
    /\ task = "none"
    /\ retried = 0
    /\ call = [t \in Triggers |-> "idle"]
    /\ hit = [t \in Triggers |-> "none"]

-----------------------------------------------------------------------------
(* The client.  Each action is one round trip to Redis, atomic there.      *)

Answer(t, c) == call' = [call EXCEPT ![t] = c]

(* What asynq stores for a new task. *)
Create ==
    /\ task = "none"
    /\ task' = IF Debounced THEN "scheduled" ELSE "pending"
    /\ retried' = 0

Begin(t) ==
    /\ call[t] = "idle"
    /\ Answer(t, "enqueue")
    /\ UNCHANGED <<task, retried, hit>>

Enqueue(t) ==
    /\ call[t] = "enqueue"
    /\ \/ Create /\ Answer(t, "enqueued") /\ UNCHANGED hit
       \/ /\ task # "none"
          /\ hit' = [hit EXCEPT ![t] = task]
          /\ Answer(t, "inspect")
          /\ UNCHANGED <<task, retried>>

(* A mutant of ClassifyConflict: any task that is there will do. *)
CoalesceAlways(info) == "coalesceTrigger"

(* classifyConflict: info is the inspected state, "none" for a task that   *)
(* is not there any more and "unreadable" for any other error.             *)
ClassifyConflict(info) ==
    IF info \in {"none", "unreadable"} \/ ~IsTerminalTaskState(info)
    THEN "coalesceTrigger" ELSE "clearAndRetry"

Inspect(t) ==
    /\ call[t] = "inspect"
    /\ \E info \in {task} \cup (IF RedisFails THEN {"unreadable"} ELSE {}) :
         Answer(t, CASE ClassifyConflict(info) = "clearAndRetry" -> "clear"
                     [] info = "none"                            -> "gone"
                     [] info = "unreadable"                      -> "blind"
                     [] OTHER                                    -> "coalesced")
    /\ UNCHANGED <<task, retried, hit>>

(* DeleteTask removes whatever holds the id by now, and counts an id that  *)
(* is free as removed; asynq refuses to delete an active task.             *)
Clear(t) ==
    /\ call[t] = "clear"
    /\ \/ task = "active" /\ Answer(t, "failed") /\ UNCHANGED task
       \/ task # "active" /\ Answer(t, "reenqueue") /\ task' = "none"
    /\ UNCHANGED <<retried, hit>>

ReEnqueue(t) ==
    /\ call[t] = "reenqueue"
    /\ \/ Create /\ Answer(t, "enqueued")
       \/ task # "none" /\ Answer(t, "coalesced") /\ UNCHANGED <<task, retried>>
    /\ UNCHANGED hit

(* A Redis call fails, before or after it took effect, or the process that *)
(* makes it stops.                                                         *)
Break(t) ==
    /\ RedisFails
    /\ UNCHANGED hit
    /\ \/ /\ call[t] \in {"enqueue", "clear"}
          /\ Answer(t, "failed")
          /\ UNCHANGED <<task, retried>>
       \/ call[t] = "enqueue" /\ Answer(t, "failed") /\ Create
       \/ /\ call[t] = "clear" /\ task # "active"
          /\ Answer(t, "cutoff")
          /\ task' = "none" /\ UNCHANGED retried
       \/ /\ call[t] = "reenqueue"
          /\ Answer(t, "cutoff")
          /\ UNCHANGED <<task, retried>>
       \/ call[t] = "reenqueue" /\ Answer(t, "failed") /\ Create

Client(t) == Enqueue(t) \/ Inspect(t) \/ Clear(t) \/ ReEnqueue(t)

-----------------------------------------------------------------------------
(* asynq and the worker. *)

Forward ==
    /\ task \in {"scheduled", "retry"}
    /\ task' = "pending"
    /\ UNCHANGED <<retried, call, hit>>

Dequeue ==
    /\ task = "pending"
    /\ task' = "active"
    /\ UNCHANGED <<retried, call, hit>>

(* The handler returned nil. *)
Succeed ==
    /\ task = "active"
    /\ task' = IF Retention THEN "completed" ELSE "none"
    /\ UNCHANGED <<retried, call, hit>>

(* The handler returned an error, or its worker died and the lease ran out. *)
Fail ==
    /\ task = "active"
    /\ IF retried < MaxRetry
       THEN task' = "retry" /\ retried' = retried + 1
       ELSE task' = "archived" /\ UNCHANGED retried
    /\ UNCHANGED <<call, hit>>

(* The handler's context was canceled: isFailure says it is no failure, so *)
(* the task is queued again and no retry is counted against it.            *)
Requeue ==
    /\ task = "active"
    /\ task' = "retry"
    /\ UNCHANGED <<retried, call, hit>>

(* The handler wrapped asynq.SkipRetry. *)
Skip ==
    /\ task = "active"
    /\ task' = "archived"
    /\ UNCHANGED <<retried, call, hit>>

(* asynq drops a finished task at the end of its retention. *)
Expire ==
    /\ IsTerminalTaskState(task)
    /\ task' = "none"
    /\ UNCHANGED <<retried, call, hit>>

=============================================================================
