---------------------------- MODULE RepoLifecycle ----------------------------
(***************************************************************************)
(* One repository from installation to removal: GitHub's events, the       *)
(* webhook handlers that answer them (internal/webhook), the rows they and *)
(* the ingest write (internal/store), the search index and the worker's    *)
(* run (internal/ingest).  Handlers run concurrently, deliveries arrive in *)
(* any order and may be redelivered, and every step may fail.              *)
(*                                                                         *)
(* The queue is reduced to what a handler tells apart: no task, one that   *)
(* will run, one that is running.  IngestQueue has the rest of it.         *)
(***************************************************************************)
EXTENDS Naturals, Sequences, FiniteSets

CONSTANTS
    Dirs,         \* the values of docs_dir
    MaxCommits,   \* bound: commits of the default branch
    MaxEvents,    \* bound: deliveries GitHub makes
    MaxAttempts,  \* bound: how often one delivery is sent
    MaxInst,      \* bound: how often the App is installed
    Unreliable    \* Postgres, Redis, Meilisearch or a process may fail

CONSTANTS
    NoManifest,   \* "docs_dir" of a commit without a .docz.yaml
    Manifest      \* the path .docz.yaml

ASSUME LifecycleAssumption ==
    /\ NoManifest \notin Dirs /\ Manifest \notin Dirs
    /\ {MaxCommits, MaxEvents, MaxAttempts, MaxInst} \subseteq Nat \ {0}
    /\ Unreliable \in BOOLEAN

VARIABLES
    gh,        \* GitHub: the installation, the grant and the commits' docs_dir
    sent,      \* GitHub: the deliveries so far
    recorded,  \* webhook_deliveries
    hdl,       \* hdl[d][a]: where attempt a at delivery d stands
    inst,      \* installations: the ids with a row
    repo,      \* the repository's row
    nextId,    \* repos_id_seq
    job,       \* the repository's ingest task
    run,       \* the worker's run of it
    index,     \* the repo ids whose documents are all in the search index
    lagged,    \* history: the repo ids that missed an index sync
    moved,     \* history: the repo ids whose row changed its installation
    gaveUp,    \* history: asynq archived the task, and no run succeeded since
    reordered  \* history: an event was handled after a later contrary one

vars == <<gh, sent, recorded, hdl, inst, repo, nextId, job, run, index,
          lagged, moved, gaveUp, reordered>>

github == <<gh, sent>>
rows == <<inst, repo, nextId>>
worker == <<job, run, lagged, moved, gaveUp>>

Deliveries == 1 .. MaxEvents
Attempts == 1 .. MaxAttempts
Insts == 1 .. MaxInst

NoRepo == [id |-> 0, inst |-> 0, head |-> 0, dir |-> NoManifest]
NoRun == [pc |-> "idle", inst |-> 0, head |-> 0, dir |-> NoManifest,
          id |-> 0, upserted |-> FALSE]

Tip == Len(gh.dirs)

(* An attempt is under way, or answered: "refused" and "error" with 500,   *)
(* "replayed" with 200, all others with 202.                               *)
Routing == {"route", "enqueue", "delete", "purge"}
Accepted == {"unknown", "irrelevant", "enqueued", "coalesced", "busy",
             "absent", "offboarded", "unpurged"}
HandlerState == {"idle", "refused", "error", "replayed"} \cup Routing \cup Accepted

Onboarding == {"created", "added"}
Offboarding == {"deleted", "removed"}
EventKind == {"push"} \cup Onboarding \cup Offboarding

DocsDir == Dirs \cup {NoManifest}

TypeOK ==
    /\ gh \in [inst : Insts \cup {0}, installs : Insts \cup {0}, granted : BOOLEAN,
               dirs : Seq(DocsDir)]
    /\ sent \in Seq([kind : EventKind, inst : Insts, at : Nat, touched : Dirs \cup {Manifest}])
    /\ Len(sent) <= MaxEvents
    /\ recorded \subseteq DOMAIN sent
    /\ hdl \in [Deliveries -> [Attempts -> [pc : HandlerState, id : Nat]]]
    /\ inst \subseteq Insts
    /\ repo \in [id : Nat, inst : Insts \cup {0}, head : Nat, dir : DocsDir]
    /\ nextId \in Nat
    /\ job \in [state : {"none", "queued", "active"}, inst : Insts \cup {0}]
    /\ run \in [pc : {"idle", "started", "fetched", "committed", "read"},
                inst : Insts \cup {0}, head : Nat, dir : DocsDir, id : Nat, upserted : BOOLEAN]
    /\ index \cup lagged \cup moved \subseteq Nat
    /\ gaveUp \in BOOLEAN /\ reordered \in BOOLEAN

Init ==
    /\ \E dir \in Dirs \cup {NoManifest} :
         gh = [inst |-> 0, installs |-> 0, granted |-> FALSE, dirs |-> <<dir>>]
    /\ sent = <<>> /\ recorded = {}
    /\ hdl = [d \in Deliveries |-> [a \in Attempts |-> [pc |-> "idle", id |-> 0]]]
    /\ inst = {} /\ repo = NoRepo /\ nextId = 1
    /\ job = [state |-> "none", inst |-> 0] /\ run = NoRun
    /\ index = {} /\ lagged = {} /\ moved = {} /\ gaveUp = FALSE /\ reordered = FALSE

-----------------------------------------------------------------------------
(* GitHub: what its users do, and the delivery each makes. *)

Send(kind, i, at, touched) ==
    /\ Len(sent) < MaxEvents
    /\ sent' = Append(sent, [kind |-> kind, inst |-> i, at |-> at, touched |-> touched])
    /\ UNCHANGED <<recorded, hdl, rows, worker, index, reordered>>

Install ==
    /\ gh.inst = 0 /\ gh.installs < MaxInst
    /\ LET i == gh.installs + 1 IN
         /\ gh' = [gh EXCEPT !.inst = i, !.installs = i, !.granted = TRUE]
         /\ Send("created", i, Tip, Manifest)

Uninstall ==
    /\ gh.inst # 0
    /\ gh' = [gh EXCEPT !.inst = 0, !.granted = FALSE]
    /\ Send("deleted", gh.inst, Tip, Manifest)

Grant ==
    /\ gh.inst # 0 /\ ~gh.granted
    /\ gh' = [gh EXCEPT !.granted = TRUE]
    /\ Send("added", gh.inst, Tip, Manifest)

Revoke ==
    /\ gh.granted
    /\ gh' = [gh EXCEPT !.granted = FALSE]
    /\ Send("removed", gh.inst, Tip, Manifest)

(* A commit changes docs_dir, and then .docz.yaml, or it changes a file.   *)
Push ==
    /\ Tip < MaxCommits /\ gh.granted
    /\ \E dir \in Dirs \cup {NoManifest}, touched \in Dirs \cup {Manifest} :
         /\ dir # gh.dirs[Tip] => touched = Manifest
         /\ gh' = [gh EXCEPT !.dirs = Append(@, dir)]
         /\ Send("push", gh.inst, Tip + 1, touched)

GitHub == Install \/ Uninstall \/ Grant \/ Revoke \/ Push

-----------------------------------------------------------------------------
(* The webhook handlers. *)

At(d, a, pc) == hdl[d][a].pc = pc

GoTo(d, a, pc) == hdl' = [hdl EXCEPT ![d][a].pc = pc]

Begun(d) == \E a \in Attempts : ~At(d, a, "idle")

(* An onboarding (offboarding) is handled after a later event undid it.    *)
Late(d, contrary) ==
    \E e \in DOMAIN sent : e > d /\ sent[e].kind \in contrary /\ Begun(e)

(* A mutant of Record: every attempt is handled. *)
RecordAlways(d, a) ==
    /\ d \in DOMAIN sent /\ At(d, a, "idle")
    /\ a > 1 => ~At(d, a - 1, "idle")
    /\ GoTo(d, a, "route") /\ recorded' = recorded \cup {d}
    /\ UNCHANGED <<github, rows, worker, index, reordered>>

(* ServeHTTP up to route: the delivery id is recorded before it is handled *)
(* and a recorded one is answered as a replay.  RecordDelivery's insert    *)
(* may fail, or fail to report that it succeeded.                          *)
Record(d, a) ==
    /\ d \in DOMAIN sent /\ At(d, a, "idle")
    /\ a > 1 => ~At(d, a - 1, "idle")
    /\ \/ d \notin recorded /\ GoTo(d, a, "route") /\ recorded' = recorded \cup {d}
       \/ d \in recorded /\ GoTo(d, a, "replayed") /\ UNCHANGED recorded
       \/ Unreliable /\ GoTo(d, a, "refused") /\ recorded' \in {recorded, recorded \cup {d}}
    /\ UNCHANGED <<github, rows, worker, index, reordered>>

(* Any step of a handler fails, or its process dies.  The delivery id      *)
(* stays recorded.                                                         *)
FailHandler(d, a) ==
    /\ Unreliable
    /\ hdl[d][a].pc \in Routing
    /\ GoTo(d, a, "error")
    /\ UNCHANGED <<github, recorded, rows, worker, index, reordered>>

ShouldIngest(touched, docsDir) == touched \in {Manifest, docsDir}

(* A mutant of Relevant: the match on docs_dir is lost. *)
ManifestOnly(d) == sent[d].touched = Manifest

Relevant(d) == ShouldIngest(sent[d].touched, repo.dir)

HandlePush(d, a) ==
    /\ At(d, a, "route") /\ sent[d].kind = "push"
    /\ GoTo(d, a, IF repo = NoRepo THEN "unknown"
                  ELSE IF Relevant(d) THEN "enqueue"
                  ELSE "irrelevant")
    /\ UNCHANGED <<github, recorded, rows, worker, index, reordered>>

UpsertInstallation(d, a) ==
    /\ At(d, a, "route") /\ sent[d].kind \in Onboarding
    /\ inst' = inst \cup {sent[d].inst}
    /\ GoTo(d, a, "enqueue")
    /\ reordered' = (reordered \/ Late(d, Offboarding))
    /\ UNCHANGED <<github, recorded, repo, nextId, worker, index>>

(* EnqueueIngest.  A trigger is coalesced onto the task that will run, and *)
(* dropped when the task is running.                                       *)
EnqueueIngest(d, a) ==
    /\ At(d, a, "enqueue")
    /\ \/ /\ job.state = "none" /\ GoTo(d, a, "enqueued")
          /\ job' = [state |-> "queued", inst |-> sent[d].inst]
       \/ job.state = "queued" /\ GoTo(d, a, "coalesced") /\ UNCHANGED job
       \/ job.state = "active" /\ GoTo(d, a, "busy") /\ UNCHANGED job
    /\ UNCHANGED <<github, recorded, rows, run, lagged, moved, gaveUp, index, reordered>>

OffboardRepo(d, a) ==
    /\ At(d, a, "route") /\ sent[d].kind = "removed"
    /\ hdl' = [hdl EXCEPT ![d][a] =
                 [pc |-> IF repo = NoRepo THEN "absent" ELSE "purge", id |-> repo.id]]
    /\ repo' = NoRepo
    /\ reordered' = (reordered \/ Late(d, Onboarding))
    /\ UNCHANGED <<github, recorded, inst, nextId, worker, index>>

OfInstallation(i) == repo # NoRepo /\ repo.inst = i

ListRepoIDs(d, a) ==
    /\ At(d, a, "route") /\ sent[d].kind = "deleted"
    /\ hdl' = [hdl EXCEPT ![d][a] =
                 [pc |-> "delete",
                  id |-> IF OfInstallation(sent[d].inst) THEN repo.id ELSE 0]]
    /\ UNCHANGED <<github, recorded, rows, worker, index, reordered>>

DeleteInstallation(d, a) ==
    /\ At(d, a, "delete")
    /\ inst' = inst \ {sent[d].inst}
    /\ repo' = IF OfInstallation(sent[d].inst) THEN NoRepo ELSE repo
    /\ GoTo(d, a, IF hdl[d][a].id = 0 THEN "offboarded" ELSE "purge")
    /\ reordered' = (reordered \/ Late(d, Onboarding))
    /\ UNCHANGED <<github, recorded, nextId, worker, index>>

PurgeIndex(d, a) ==
    /\ At(d, a, "purge")
    /\ \/ index' = index \ {hdl[d][a].id} /\ GoTo(d, a, "offboarded")
       \/ Unreliable /\ GoTo(d, a, "unpurged") /\ UNCHANGED index
    /\ UNCHANGED <<github, recorded, rows, worker, reordered>>

Handler(d, a) ==
    \/ Record(d, a) \/ HandlePush(d, a)
    \/ UpsertInstallation(d, a) \/ EnqueueIngest(d, a)
    \/ OffboardRepo(d, a) \/ ListRepoIDs(d, a) \/ DeleteInstallation(d, a)
    \/ PurgeIndex(d, a)

-----------------------------------------------------------------------------
(* The worker's run: fetch HEAD, commit it, mirror the change set into the *)
(* search index.                                                           *)

StartRun ==
    /\ job.state = "queued"
    /\ job' = [job EXCEPT !.state = "active"]
    /\ run' = [NoRun EXCEPT !.pc = "started", !.inst = job.inst]
    /\ UNCHANGED <<github, recorded, hdl, rows, index, lagged, moved, gaveUp, reordered>>

CanFetch == gh.granted /\ gh.dirs[Tip] # NoManifest

Fetch ==
    /\ run.pc = "started" /\ CanFetch
    /\ run' = [run EXCEPT !.pc = "fetched", !.head = Tip, !.dir = gh.dirs[Tip]]
    /\ UNCHANGED <<github, recorded, hdl, rows, job, index, lagged, moved, gaveUp, reordered>>

(* Two mutants: no foreign key, and a sequence that hands out an id again. *)
AnyInstallation(i) == i \in Insts

ReusedSequence == nextId

HasInstallation(i) == i \in inst

AdvancedSequence == IF repo = NoRepo THEN nextId + 1 ELSE nextId

(* ReconcileRepo, one transaction: repos.installation_id is a foreign key. *)
(* Only a row that is new, or new at this commit, has documents to index.  *)
Commit ==
    /\ run.pc = "fetched" /\ HasInstallation(run.inst)
    /\ LET id == IF repo = NoRepo THEN nextId ELSE repo.id IN
         /\ repo' = [id |-> id, inst |-> run.inst, head |-> run.head, dir |-> run.dir]
         /\ run' = [run EXCEPT !.pc = "committed", !.id = id, !.upserted = (id = nextId)]
    /\ nextId' = AdvancedSequence
    /\ moved' = IF repo # NoRepo /\ repo.inst # run.inst THEN moved \cup {repo.id} ELSE moved
    /\ gaveUp' = FALSE
    /\ UNCHANGED <<github, recorded, hdl, inst, job, index, lagged, reordered>>

(* upsertedIndexRecords tolerates rows removed since the commit.           *)
ReadRows ==
    /\ run.pc = "committed"
    /\ run' = [run EXCEPT !.pc = "read", !.upserted = @ /\ repo.id = run.id]
    /\ UNCHANGED <<github, recorded, hdl, rows, job, index, lagged, moved, gaveUp, reordered>>

(* The run ends without an error whether or not the index took the records. *)
IndexDocuments ==
    /\ run.pc = "read"
    /\ \/ index' = (IF run.upserted THEN index \cup {run.id} ELSE index) /\ UNCHANGED lagged
       \/ Unreliable /\ run.upserted /\ lagged' = lagged \cup {run.id} /\ UNCHANGED index
    /\ run' = NoRun
    /\ job' = [state |-> "none", inst |-> 0]
    /\ UNCHANGED <<github, recorded, hdl, rows, moved, gaveUp, reordered>>

(* The run fails: asynq queues the task again, with the payload it has, or *)
(* archives it.                                                            *)
FailRun ==
    /\ \/ Unreliable /\ run.pc # "idle"
       \/ run.pc = "started" /\ ~CanFetch
       \/ run.pc = "fetched" /\ ~HasInstallation(run.inst)
    /\ lagged' = IF run.upserted THEN lagged \cup {run.id} ELSE lagged
    /\ run' = NoRun
    /\ \/ job' = [job EXCEPT !.state = "queued"] /\ UNCHANGED gaveUp
       \/ job' = [state |-> "none", inst |-> 0] /\ gaveUp' = TRUE
    /\ UNCHANGED <<github, recorded, hdl, rows, index, moved, reordered>>

Run == StartRun \/ Fetch \/ Commit \/ ReadRows \/ IndexDocuments \/ FailRun

Next ==
    \/ GitHub
    \/ \E d \in Deliveries, a \in Attempts : Handler(d, a) \/ FailHandler(d, a)
    \/ Run

Spec == Init /\ [][Next]_vars

-----------------------------------------------------------------------------
Answer(d) == {hdl[d][a].pc : a \in Attempts}

AnsweredBy(d, pcs) == Answer(d) \cap pcs # {}

(* Redeliveries and duplicates are idempotent: however many attempts at a  *)
(* delivery race, at most one of them gets past RecordDelivery (ServeHTTP).*)
HandledOnce ==
    \A d \in Deliveries : \A a, b \in Attempts :
        {hdl[d][a].pc, hdl[d][b].pc} \subseteq Routing \cup Accepted \cup {"error"} => a = b

(* Uninstalling is final: once a "deleted" delivery is answered, no run    *)
(* under way brings a row of that installation back, because               *)
(* repos.installation_id is a foreign key (offboardInstallation,           *)
(* ReconcileRepo), unless a "created" or "added" of it is handled late.    *)
UninstallIsFinal ==
    \A d \in DOMAIN sent :
        sent[d].kind = "deleted" /\ AnsweredBy(d, {"offboarded", "unpurged"}) /\ ~reordered
            => ~OfInstallation(sent[d].inst)

(* Purging by repo id never takes a live row's documents out of the index, *)
(* whatever re-onboards the repository between the delete and the purge:   *)
(* every row has an id of its own (offboardRepos, offboardInstallation,    *)
(* purgeIndex, syncIndex); unless the row changed its installation, which  *)
(* an uninstall of the old one may have listed.                            *)
LiveRowIndexed ==
    repo # NoRepo /\ run.pc \notin {"committed", "read"} /\ repo.id \notin lagged \cup moved
        => repo.id \in index

Quiet ==
    /\ job.state = "none"
    /\ \A d \in DOMAIN sent : AnsweredBy(d, Accepted) /\ Answer(d) \cap Routing = {}

(* A delivery that was answered and yet asked for nothing: the documented  *)
(* gap of EnqueueIngest, and a push judged by a row that is missing or may *)
(* have another docs_dir than the push's commit.                           *)
Dismissed(d) ==
    \/ AnsweredBy(d, {"busy", "unknown"})
    \/ AnsweredBy(d, {"irrelevant"}) /\ \E c \in DOMAIN gh.dirs : gh.dirs[c] # gh.dirs[sent[d].at]

(* End to end: when every delivery was answered 202 and the queue is empty,*)
(* Postgres holds the HEAD of the last push that matters, unless asynq     *)
(* gave up, a delivery was dismissed, or contrary events were reordered.   *)
SettlesAtHead ==
    Quiet /\ gh.granted /\ ~gaveUp /\ ~reordered
          /\ (\A d \in DOMAIN sent : ~Dismissed(d))
        => \A d \in DOMAIN sent :
             ShouldIngest(sent[d].touched, gh.dirs[sent[d].at]) => repo.head >= sent[d].at

-----------------------------------------------------------------------------
(* What comments and documents say, and the code does not do. *)

(* "Rely on GitHub's own redelivery for transient failures" (DESIGN-0008,  *)
(* decision 9): a redelivery answered as already processed was processed.  *)
RedeliveryRecovers ==
    \A d \in Deliveries :
        AnsweredBy(d, {"replayed"}) => AnsweredBy(d, Accepted \cup Routing)

(* "add the manifest and push to onboard it" (deploy/api/README.md): when  *)
(* every delivery is answered and the queue is empty, the push that adds   *)
(* .docz.yaml to an installed repository has onboarded it.                 *)
ManifestPushOnboards ==
    \A d \in DOMAIN sent :
        /\ Quiet /\ sent[d].kind = "push" /\ d = Len(sent)
        /\ gh.dirs[sent[d].at - 1] = NoManifest
        /\ gh.dirs[sent[d].at] # NoManifest
        => repo # NoRepo

(* "anything under docs_dir/ ... triggers a full re-ingest"                *)
(* (deploy/api/README.md): when every delivery is answered and the queue   *)
(* is empty, an onboarded repository holds each push into the docs_dir of  *)
(* the push's own commit.                                                  *)
DocsPushIngested ==
    \A d \in DOMAIN sent :
        /\ Quiet /\ repo # NoRepo
        /\ AnsweredBy(d, {"irrelevant"}) /\ sent[d].touched = gh.dirs[sent[d].at]
        => repo.head >= sent[d].at

(* "removing a repo offboards it (rows deleted ...)" (deploy/api/README.md)*)
(* : the row stays deleted while the App has no access.                    *)
RemovalIsFinal ==
    \A d \in DOMAIN sent :
        sent[d].kind = "removed" /\ AnsweredBy(d, Accepted) /\ d = Len(sent) => repo = NoRepo

(* "so a missed installation event cannot leave the enqueued ingest        *)
(* without its required foreign key" (handleInstallationRepos): after an   *)
(* onboarding is answered, the task queued has its installation's row.     *)
QueuedRunHasInstallation ==
    \A d \in DOMAIN sent :
        /\ sent[d].kind \in Onboarding /\ AnsweredBy(d, {"enqueued", "coalesced"})
        /\ gh.inst = sent[d].inst /\ job.state = "queued"
        => job.inst \in inst

(* "Postgres (the source of truth) has already dropped the rows"           *)
(* (purgeIndex): an offboarding purges documents whose row is gone.        *)
PurgesDroppedRows ==
    \A d \in Deliveries, a \in Attempts : At(d, a, "purge") => hdl[d][a].id # repo.id

=============================================================================
