-------------------------- MODULE IngestQueueProofs --------------------------
(***************************************************************************)
(* Proofs about IngestQueue, for any set of triggers, any number of        *)
(* retries and every combination of the queue's options.                   *)
(***************************************************************************)
EXTENDS IngestQueue, TLAPS

USE QueueAssumption, IngestAssumption

(* The sets of states, and the state predicates a task state falls under.  *)
LEMMA States ==
    /\ Accepted \subseteq CallState /\ Asking \subseteq CallState
    /\ WillRun \subseteq TaskState /\ Terminal \subseteq TaskState
BY DEF Accepted, CallState, Asking, WillRun, Terminal, TaskState

LEMMA InitIInv == Init => IInv
<1> SUFFICES ASSUME Init PROVE IInv
    OBVIOUS
<1>1. TypeOK
    BY DEF Init, QueueInit, TypeOK, QueueTypeOK, TaskState, CallState, Stage
<1>2. RunInv
    BY DEF Init, QueueInit, RunInv
<1>3. ASSUME NEW t \in Triggers PROVE TriggerInv(t)
    BY DEF Init, QueueInit, TriggerInv, Claimed
<1> QED
    BY <1>1, <1>2, <1>3 DEF IInv

-----------------------------------------------------------------------------
(* Every step keeps the types. *)
LEMMA NextTypeOK == TypeOK /\ [Next]_vars => TypeOK'
<1> SUFFICES ASSUME TypeOK, [Next]_vars PROVE TypeOK'
    OBVIOUS
<1> USE DEF TypeOK, QueueTypeOK, queueVars, ingestVars
<1>1. CASE Push
    BY <1>1 DEF Push
<1>2. ASSUME NEW t \in Triggers, Trigger(t) PROVE TypeOK'
    BY <1>2 DEF Trigger, Begin, Answer, CallState, Asking
<1>3. ASSUME NEW t \in Triggers, EnqueueIngest(t) PROVE TypeOK'
    <2> UNCHANGED ingestVars
        BY <1>3 DEF EnqueueIngest
    <2> SUFFICES QueueTypeOK'
        OBVIOUS
    <2> USE DEF Answer, Create, CallState, Asking, Accepted, TaskState, WillRun
    <2>1. CASE Enqueue(t)
        BY <2>1 DEF Enqueue
    <2>2. CASE Inspect(t)
        BY <2>2 DEF Inspect, ClassifyConflict
    <2>3. CASE Clear(t)
        BY <2>3 DEF Clear
    <2>4. CASE ReEnqueue(t)
        BY <2>4 DEF ReEnqueue
    <2>5. CASE Break(t)
        BY <2>5 DEF Break
    <2> QED
        BY <1>3, <2>1, <2>2, <2>3, <2>4, <2>5 DEF EnqueueIngest, Client
<1>4. CASE Asynq
    BY <1>4 DEF Asynq, Forward, Expire, TaskState, WillRun
<1>5. CASE Run
    BY <1>5 DEF Run, StartRun, FetchSnapshot, Reconcile, FinishRun, Dequeue,
                Succeed, TaskState, Terminal, Stage
<1>6. CASE FailRun
    BY <1>6 DEF FailRun, Fail, TaskState, WillRun, Terminal, Stage
<1>7. CASE CancelRun
    BY <1>7 DEF CancelRun, Requeue, TaskState, WillRun, Stage
<1>8. CASE UNCHANGED vars
    BY <1>8 DEF vars
<1> QED
    BY <1>1, <1>2, <1>3, <1>4, <1>5, <1>6, <1>7, <1>8 DEF Next

(* Every step keeps the bounds on the HEADs a run has seen. *)
LEMMA NextRunInv == TypeOK /\ RunInv /\ [Next]_vars => RunInv'
<1> SUFFICES ASSUME TypeOK, RunInv, [Next]_vars PROVE RunInv'
    OBVIOUS
<1> USE DEF TypeOK, QueueTypeOK, RunInv, queueVars, ingestVars
<1>1. CASE Push
    BY <1>1 DEF Push
<1>2. ASSUME NEW t \in Triggers, Trigger(t) PROVE RunInv'
    BY <1>2 DEF Trigger, Begin
<1>3. ASSUME NEW t \in Triggers, EnqueueIngest(t) PROVE RunInv'
    <2>1. task' = "active" <=> task = "active"
        BY <1>3 DEF EnqueueIngest, Client, Enqueue, Inspect, Clear, ReEnqueue,
                    Break, Create
    <2> QED
        BY <1>3, <2>1 DEF EnqueueIngest
<1>4. CASE Asynq
    BY <1>4 DEF Asynq, Forward, Expire, IsTerminalTaskState, Terminal
<1>5. CASE Run
    BY <1>5 DEF Run, StartRun, FetchSnapshot, Reconcile, FinishRun, Dequeue,
                Succeed
<1>6. CASE FailRun
    BY <1>6 DEF FailRun, Fail
<1>7. CASE CancelRun
    BY <1>7 DEF CancelRun, Requeue
<1>8. CASE UNCHANGED vars
    BY <1>8 DEF vars
<1> QED
    BY <1>1, <1>2, <1>3, <1>4, <1>5, <1>6, <1>7, <1>8 DEF Next

-----------------------------------------------------------------------------
(* A HEAD once covered stays covered, whatever happens next: a run that is *)
(* coming fetches it, fails and comes again, or is given up; a client that *)
(* deletes the task is itself about to enqueue another.                    *)
LEMMA StaysCovered ==
    ASSUME TypeOK, RunInv, [Next]_vars,
           NEW h \in Nat, h <= head, Covered(h)
    PROVE  Covered(h)'
<1> USE DEF TypeOK, QueueTypeOK, Covered, Answered, Coming, CutOff,
            queueVars, ingestVars
<1>1. CASE Push
    BY <1>1 DEF Push
<1>2. ASSUME NEW t \in Triggers, Trigger(t) PROVE Covered(h)'
    BY <1>2 DEF Trigger, Begin, Answer
<1>3. ASSUME NEW t \in Triggers, EnqueueIngest(t) PROVE Covered(h)'
    <2> UNCHANGED ingestVars
        BY <1>3 DEF EnqueueIngest
    <2> USE DEF Answer, Create, WillRun
    <2>1. CASE Enqueue(t)
        BY <2>1 DEF Enqueue
    <2>2. CASE Inspect(t)
        BY <2>2 DEF Inspect
    <2>3. CASE Clear(t)
        BY <2>3 DEF Clear
    <2>4. CASE ReEnqueue(t)
        BY <2>4 DEF ReEnqueue
    <2>5. CASE Break(t)
        BY <2>5 DEF Break
    <2> QED
        BY <1>3, <2>1, <2>2, <2>3, <2>4, <2>5 DEF EnqueueIngest, Client
<1>4. CASE Asynq
    BY <1>4 DEF Asynq, Forward, Expire, IsTerminalTaskState, WillRun, Terminal
<1>5. CASE Run
    BY <1>5 DEF Run, StartRun, FetchSnapshot, Reconcile, FinishRun, Dequeue,
                Succeed, RunInv, WillRun
<1>6. CASE FailRun
    BY <1>6 DEF FailRun, Fail, WillRun
<1>7. CASE CancelRun
    BY <1>7 DEF CancelRun, Requeue, WillRun
<1>8. CASE UNCHANGED vars
    BY <1>8 DEF vars
<1> QED
    BY <1>1, <1>2, <1>3, <1>4, <1>5, <1>6, <1>7, <1>8 DEF Next

-----------------------------------------------------------------------------
(* A free or finished id is only ever taken by a task that will run, which *)
(* covers every HEAD there is.                                             *)
LEMMA TakenIdCovers ==
    ASSUME TypeOK, [Next]_vars, task \in Terminal \cup {"none"}, NEW h
    PROVE  task' \in Terminal \cup {"none"} \/ Covered(h)'
<1> USE DEF Covered, Coming, WillRun, Terminal, queueVars, ingestVars
<1>1. CASE Push
    BY <1>1 DEF Push
<1>2. ASSUME NEW u \in Triggers, Trigger(u)
      PROVE  task' \in Terminal \cup {"none"} \/ Covered(h)'
    BY <1>2 DEF Trigger, Begin
<1>3. ASSUME NEW u \in Triggers, EnqueueIngest(u)
      PROVE  task' \in Terminal \cup {"none"} \/ Covered(h)'
    BY <1>3 DEF EnqueueIngest, Client, Enqueue, Inspect, Clear, ReEnqueue,
                Break, Create
<1>4. CASE Asynq
    BY <1>4 DEF Asynq, Forward, Expire
<1>5. CASE Run
    BY <1>5 DEF Run, StartRun, FetchSnapshot, Reconcile, FinishRun, Dequeue,
                Succeed
<1>6. CASE FailRun
    BY <1>6 DEF FailRun, Fail
<1>7. CASE CancelRun
    BY <1>7 DEF CancelRun, Requeue
<1>8. CASE UNCHANGED vars
    BY <1>8 DEF vars
<1> QED
    BY <1>1, <1>2, <1>3, <1>4, <1>5, <1>6, <1>7, <1>8 DEF Next

(* A step that leaves a trigger's own call alone keeps what holds of it.   *)
LEMMA BystanderInv ==
    ASSUME IInv, [Next]_vars, NEW t \in Triggers,
           call'[t] = call[t], hit'[t] = hit[t], want'[t] = want[t]
    PROVE  TriggerInv(t)'
<1> PICK h \in Nat : h = want[t] /\ h = want'[t]
    BY DEF IInv, TypeOK
<1>1. h <= head
    BY DEF IInv, RunInv
<1>2. Covered(h) => Covered(h)'
    BY <1>1, StaysCovered DEF IInv
<1>3. task \in Terminal \cup {"none"} =>
          task' \in Terminal \cup {"none"} \/ Covered(h)'
    BY TakenIdCovers DEF IInv
<1>4. (Covered(h) <=> Covered(want[t])) /\ (Covered(h)' <=> Covered(want[t])')
    BY DEF Covered, Answered, Coming
<1>5. TriggerInv(t)
    BY DEF IInv
<1> QED
    BY <1>2, <1>3, <1>4, <1>5 DEF TriggerInv, Claimed

(* A trigger's own call: it is covered when its task is created, when it   *)
(* is coalesced, and from its clear to its second enqueue.                 *)
LEMMA CallerInv ==
    ASSUME IInv, NEW t \in Triggers, EnqueueIngest(t)
    PROVE  TriggerInv(t)'
<1> PICK h \in Nat : h = want[t] /\ h = want'[t]
    BY DEF IInv, TypeOK, EnqueueIngest, ingestVars
<1>1. h <= head /\ [Next]_vars
    BY DEF IInv, RunInv, Next
<1>2. Covered(h) => Covered(h)'
    BY <1>1, StaysCovered DEF IInv
<1>3. TriggerInv(t) /\ (Covered(h) <=> Covered(want[t]))
                   /\ (Covered(h)' <=> Covered(want[t])')
    BY DEF IInv, Covered, Answered, Coming
<1>4. call[t] # "idle" => h >= 1
    BY DEF IInv, TriggerInv
<1> USE DEF Answer, Create, IInv, TypeOK, QueueTypeOK
<1>5. CASE Enqueue(t)
    <2>1. task # "active" => task \in {"none"} \cup WillRun \cup Terminal
        BY DEF TaskState
    <2>2. CASE task = "none"
        <3>1. call'[t] = "enqueued" /\ task' \in WillRun
            BY <1>5, <2>2 DEF Enqueue, WillRun
        <3>2. Covered(h)'
            BY <3>1 DEF Covered, Coming
        <3> QED
            BY <1>3, <1>4, <1>5, <3>1, <3>2 DEF Enqueue, TriggerInv
    <2>3. CASE task # "none"
        <3>1. call'[t] = "inspect" /\ hit'[t] = task /\ task' = task
            BY <1>5, <2>3 DEF Enqueue
        <3>2. task \in WillRun => Covered(h)'
            BY <3>1 DEF Covered, Coming
        <3> QED
            BY <1>3, <1>4, <1>5, <2>3, <3>1, <3>2 DEF Enqueue, TriggerInv, Claimed
    <2> QED
        BY <2>2, <2>3
<1>6. CASE Inspect(t)
    <2>1. UNCHANGED <<task, hit>> /\ call[t] = "inspect"
        BY <1>6 DEF Inspect
    <2>2. \/ call'[t] \in {"clear", "blind"}
          \/ call'[t] = "gone"
          \/ call'[t] = "coalesced" /\ task \notin Terminal \cup {"none"}
        <3> PICK info \in {task} \cup (IF RedisFails THEN {"unreadable"} ELSE {}) :
                call'[t] = CASE ClassifyConflict(info) = "clearAndRetry" -> "clear"
                             [] info = "none"                            -> "gone"
                             [] info = "unreadable"                      -> "blind"
                             [] OTHER                                    -> "coalesced"
            BY <1>6 DEF Inspect
        <3> DEFINE c == ClassifyConflict(info)
        <3>1. CASE c = "clearAndRetry"
            <4>1. info \notin {"none", "unreadable"}
                BY <3>1 DEF ClassifyConflict
            <4> QED
                BY <3>1, <4>1, Zenon
        <3>2. CASE c # "clearAndRetry" /\ info \in {"none", "unreadable"}
            BY <3>2, Zenon
        <3>3. CASE c # "clearAndRetry" /\ info \notin {"none", "unreadable"}
            <4>1. info = task /\ ~IsTerminalTaskState(info)
                BY <3>3 DEF ClassifyConflict
            <4>2. call'[t] = "coalesced"
                BY <3>3, Zenon
            <4> QED
                BY <3>3, <4>1, <4>2 DEF IsTerminalTaskState
        <3> QED
            BY <3>1, <3>2, <3>3
    <2>3. CASE call'[t] = "coalesced" /\ task \notin Terminal \cup {"none"}
        <3>1. hit[t] # "active" => Covered(h)
            BY <1>3, <2>1, <2>3 DEF TriggerInv, TaskState
        <3> QED
            BY <1>2, <1>3, <1>4, <2>1, <2>3, <3>1 DEF TriggerInv, Claimed
    <2> QED
        BY <1>2, <1>3, <1>4, <2>1, <2>2, <2>3 DEF TriggerInv, Claimed
<1>7. CASE Clear(t)
    <2>1. CASE task = "active"
        BY <1>3, <1>4, <1>7, <2>1 DEF Clear, TriggerInv, Claimed
    <2>2. CASE task # "active"
        <3>1. call'[t] = "reenqueue" /\ task' = "none"
            BY <1>7, <2>2 DEF Clear
        <3>2. Covered(h)'
            BY <3>1 DEF Covered, Coming
        <3> QED
            BY <1>3, <1>4, <1>7, <3>1, <3>2 DEF Clear, TriggerInv, Claimed
    <2> QED
        BY <2>1, <2>2
<1>8. CASE ReEnqueue(t)
    <2>1. call[t] = "reenqueue" /\ Covered(h) /\ call'[t] \in {"enqueued", "coalesced"}
        BY <1>3, <1>8 DEF ReEnqueue, TriggerInv
    <2> QED
        BY <1>2, <1>3, <1>4, <2>1 DEF TriggerInv
<1>9. CASE Break(t)
    <2>1. call'[t] \in {"failed", "cutoff"} /\ call[t] # "idle"
        BY <1>9 DEF Break
    <2> QED
        BY <1>3, <1>4, <2>1 DEF TriggerInv, Claimed
<1> QED
    BY <1>5, <1>6, <1>7, <1>8, <1>9 DEF EnqueueIngest, Client

LEMMA NextIInv == IInv /\ [Next]_vars => IInv'
<1> SUFFICES ASSUME IInv, [Next]_vars PROVE IInv'
    OBVIOUS
<1>1. TypeOK' /\ RunInv'
    BY NextTypeOK, NextRunInv DEF IInv
<1>2. ASSUME NEW t \in Triggers PROVE TriggerInv(t)'
    <2> USE DEF IInv, TypeOK, QueueTypeOK, queueVars, ingestVars
    <2>1. ASSUME NEW u \in Triggers, Trigger(u) PROVE TriggerInv(t)'
        <3>1. CASE u = t
            BY <2>1, <3>1 DEF Trigger, Begin, Answer, TriggerInv, Claimed, RunInv
        <3>2. CASE u # t
            BY <2>1, <3>2, BystanderInv DEF Trigger, Begin, Answer
        <3> QED
            BY <3>1, <3>2
    <2>2. ASSUME NEW u \in Triggers, EnqueueIngest(u) PROVE TriggerInv(t)'
        <3>1. CASE u = t
            BY <2>2, <3>1, CallerInv
        <3>2. CASE u # t
            <4>1. call'[t] = call[t] /\ hit'[t] = hit[t] /\ want'[t] = want[t]
                BY <2>2, <3>2 DEF EnqueueIngest, Client, Enqueue, Inspect,
                                  Clear, ReEnqueue, Break, Answer
            <4> QED
                BY <4>1, BystanderInv
        <3> QED
            BY <3>1, <3>2
    <2>3. CASE Push \/ Asynq \/ Run \/ FailRun \/ CancelRun \/ UNCHANGED vars
        <3>1. UNCHANGED <<call, hit, want>>
            BY <2>3 DEF Push, Asynq, Forward, Expire, Run, StartRun, Dequeue,
                        FetchSnapshot, Reconcile, FinishRun, Succeed, FailRun,
                        Fail, CancelRun, Requeue, vars
        <3> QED
            BY <3>1, BystanderInv
    <2> QED
        BY <2>1, <2>2, <2>3 DEF Next
<1> QED
    BY <1>1, <1>2 DEF IInv

LEMMA Invariance == Spec => []IInv
BY InitIInv, NextIInv, PTL DEF Spec

-----------------------------------------------------------------------------
(* No trigger the code claims to have covered is lost, whatever the number *)
(* of concurrent triggers, retries and cancelled runs (EnqueueIngest,      *)
(* resolveTaskIDConflict).                                                 *)
THEOREM TriggersAreKept == Spec => []NoTriggerLost
<1>1. IInv => NoTriggerLost
    BY DEF IInv, TriggerInv, NoTriggerLost
<1> QED
    BY <1>1, Invariance, PTL

(* Every variable of the queue and of its worker keeps its type.           *)
THEOREM TypeCorrect == Spec => []TypeOK
<1>1. IInv => TypeOK
    BY DEF IInv
<1> QED
    BY <1>1, Invariance, PTL

-----------------------------------------------------------------------------
(* The steps of the queue under the mapping to Freshness. *)
LEMMA InitFresh == Init => F!Init
<1> SUFFICES ASSUME Init PROVE F!Init
    OBVIOUS
<1>1. Promised = {}
    BY DEF Init, QueueInit, Promised, Claimed
<1>2. CutOff = FALSE
    BY DEF Init, QueueInit, CutOff
<1> QED
    BY <1>1, <1>2 DEF Init, F!Init

(* A step that changes no claim, no want of a claimed trigger and no       *)
(* cut-off call is invisible in the promises.                              *)
LEMMA SamePromises ==
    ASSUME UNCHANGED <<call, hit>>, \A t \in Triggers : Claimed(t) => want'[t] = want[t]
    PROVE  Promised' = Promised /\ CutOff' = CutOff
BY DEF Promised, Claimed, CutOff

LEMMA NextFresh == IInv /\ [Next]_vars => [F!Next]_(F!vars)
<1> SUFFICES ASSUME IInv, [Next]_vars PROVE [F!Next]_(F!vars)
    OBVIOUS
<1> USE DEF IInv, TypeOK, QueueTypeOK, queueVars, ingestVars
<1>1. CASE Push
    BY <1>1, SamePromises DEF Push, F!Next, F!Push
<1>2. ASSUME NEW t \in Triggers, Trigger(t) PROVE [F!Next]_(F!vars)
    <2>1. Promised' = Promised
        BY <1>2 DEF Trigger, Begin, Answer, Promised, Claimed
    <2>2. CutOff' = CutOff
        BY <1>2 DEF Trigger, Begin, Answer, CutOff
    <2> QED
        BY <1>2, <2>1, <2>2 DEF Trigger, Begin, F!vars
<1>3. ASSUME NEW t \in Triggers, EnqueueIngest(t) PROVE [F!Next]_(F!vars)
    <2>1. UNCHANGED <<head, want, synced, gaveUp>>
        BY <1>3 DEF EnqueueIngest
    <2>2. /\ call[t] \in {"enqueue", "inspect", "clear", "reenqueue"}
          /\ ~Claimed(t)
          /\ \A u \in Triggers \ {t} : call'[u] = call[u] /\ hit'[u] = hit[u]
        BY <1>3 DEF EnqueueIngest, Client, Enqueue, Inspect, Clear, ReEnqueue,
                    Break, Answer, Claimed
    <2>3. CASE call'[t] = "cutoff"
        <3>1. Promised' = Promised
            BY <2>1, <2>2, <2>3 DEF Promised, Claimed
        <3>2. CutOff' = TRUE
            BY <2>3 DEF CutOff
        <3> QED
            BY <2>1, <3>1, <3>2 DEF F!Next, F!Forfeit
    <2>4. CASE call'[t] # "cutoff"
        <3>1. CutOff' = CutOff
            BY <2>2, <2>4 DEF CutOff
        <3>2. CASE Claimed(t)'
            <4>1. Promised' = Promised \cup {want[t]}
                BY <2>1, <2>2, <3>2 DEF Promised, Claimed
            <4>2. want[t] \in 1 .. head
                BY <2>2 DEF TriggerInv, RunInv
            <4> QED
                BY <2>1, <3>1, <4>1, <4>2 DEF F!Next, F!Promise
        <3>3. CASE ~Claimed(t)'
            <4>1. Promised' = Promised
                BY <2>1, <2>2, <3>3 DEF Promised, Claimed
            <4> QED
                BY <2>1, <3>1, <4>1 DEF F!vars
        <3> QED
            BY <3>2, <3>3
    <2> QED
        BY <2>3, <2>4
<1>4. CASE Asynq
    BY <1>4, SamePromises DEF Asynq, Forward, Expire, F!vars
<1>5. CASE StartRun \/ FetchSnapshot \/ FinishRun \/ CancelRun
    BY <1>5, SamePromises DEF StartRun, Dequeue, FetchSnapshot, FinishRun,
                              Succeed, CancelRun, Requeue, F!vars
<1>6. CASE Reconcile
    <2>1. synced' \in synced .. head /\ UNCHANGED <<head, gaveUp>>
        BY <1>6 DEF Reconcile, RunInv
    <2> QED
        BY <1>6, <2>1, SamePromises DEF Reconcile, F!Next, F!Sync
<1>7. CASE FailRun
    <2>1. Promised' = Promised /\ CutOff' = CutOff
        BY <1>7, SamePromises DEF FailRun, Fail
    <2>2. UNCHANGED <<head, synced>> /\ gaveUp' \in {head, gaveUp}
        BY <1>7 DEF FailRun
    <2> QED
        BY <2>1, <2>2 DEF F!Next, F!GiveUp, F!vars
<1>8. CASE UNCHANGED vars
    BY <1>8, SamePromises DEF vars, F!vars
<1> QED
    BY <1>1, <1>2, <1>3, <1>4, <1>5, <1>6, <1>7, <1>8 DEF Next, Run

(* The queue implements Freshness: Postgres moves forward only, to HEADs   *)
(* that existed, and a claimed trigger stays claimed (latest-HEAD wins).   *)
THEOREM Refinement == Spec => Fresh
<1>1. Init => F!Init
    BY InitFresh
<1>2. IInv /\ [Next]_vars => [F!Next]_(F!vars)
    BY NextFresh
<1> QED
    BY <1>1, <1>2, Invariance, PTL DEF Spec, Fresh, F!Spec

=============================================================================
