---------------------------- MODULE DocumentSync ----------------------------
(***************************************************************************)
(* From HEAD to Postgres to Meilisearch: store.reconcileDocuments makes    *)
(* one repository's document rows match the tree it is given, gated on a   *)
(* hash of each document's bytes, and ingest.syncIndex mirrors the rows    *)
(* that changed into the search index, best-effort, after the commit.      *)
(* reconcileRepoPages and the pages' half of syncIndex work the same way,  *)
(* with the published path for the document id.                            *)
(*                                                                         *)
(* One run at a time: the queue holds one ingest task per repository.      *)
(***************************************************************************)
EXTENDS Naturals

CONSTANTS
    Places,    \* a file's path and the type its directory belongs to, in the
               \* order buildDocuments meets them
    DocIDs,    \* the ids documents carry in their frontmatter
    Contents,  \* the bytes of a document
    IdOf,      \* IdOf[c]: the frontmatter id in the bytes c
    Nothing    \* no file, no row, no index entry

ASSUME SyncAssumption ==
    /\ Places \subseteq Nat
    /\ \A S \in SUBSET Places : S # {} => \E p \in S : \A q \in S : q <= p
    /\ IdOf \in [Contents -> DocIDs]
    /\ Nothing \notin Contents /\ Nothing \notin [place : Places, content : Contents]

VARIABLES
    tree,      \* tree[p]: the document at place p of HEAD
    fetched,   \* the tree the last run fetched
    rows,      \* rows[id]: the document's row in Postgres
    index,     \* index[id]: its entry in the search index
    pc,        \* how far the run has come
    upserted,  \* ReconcileResult.UpsertedDocIDs
    deleted,   \* ReconcileResult.DeletedDocIDs
    records,   \* the rows the run read back for the index
    stale,     \* history: the ids of an interrupted sync, until the next one
    clean      \* history: the last run to end synced the index

vars == <<tree, fetched, rows, index, pc, upserted, deleted, records, stale, clean>>

Tree == [Places -> Contents \cup {Nothing}]
Row == [place : Places, content : Contents]
Table == [DocIDs -> Row \cup {Nothing}]
Stages == {"idle", "fetched", "committed", "pruned", "read"}

TypeOK ==
    /\ tree \in Tree /\ fetched \in Tree
    /\ rows \in Table /\ index \in Table /\ records \in Table
    /\ pc \in Stages
    /\ upserted \subseteq DocIDs /\ deleted \subseteq DocIDs /\ stale \subseteq DocIDs
    /\ clean \in BOOLEAN

Empty == [id \in DocIDs |-> Nothing]

Init ==
    /\ tree \in Tree
    /\ fetched = [p \in Places |-> Nothing]
    /\ rows = Empty /\ index = Empty /\ records = Empty
    /\ pc = "idle" /\ upserted = {} /\ deleted = {}
    /\ stale = {} /\ clean = TRUE

-----------------------------------------------------------------------------
(* The documents of a tree. *)

PlacesOf(t, id) == {p \in Places : t[p] # Nothing /\ IdOf[t[p]] = id}

Unique(t, id) == \A p, q \in PlacesOf(t, id) : p = q

(* The content-hash gate: row r already holds the bytes c. *)
Unchanged(r, c) == r # Nothing /\ r.content = c

(* The files a reconcile writes to the row of id.  The gate compares each  *)
(* with the row as it was before the reconcile, so of two files with one   *)
(* id both may pass it, and the later one is what the row keeps.           *)
Written(t, old, id) == {p \in PlacesOf(t, id) : ~Unchanged(old[id], t[p])}

LastOf(S) == CHOOSE p \in S : \A q \in S : q <= p

(* Two mutants of NewRow: documents that are gone are kept, and documents  *)
(* that are unchanged are not.                                             *)
NewRowKeepsGone(t, old, id) ==
    IF Written(t, old, id) = {} THEN old[id]
    ELSE LET p == LastOf(Written(t, old, id)) IN [place |-> p, content |-> t[p]]

NewRowDropsUnchanged(t, old, id) ==
    IF Written(t, old, id) = {} THEN Nothing
    ELSE LET p == LastOf(Written(t, old, id)) IN [place |-> p, content |-> t[p]]

NewRow(t, old, id) ==
    IF PlacesOf(t, id) = {} THEN Nothing
    ELSE IF Written(t, old, id) = {} THEN old[id]
    ELSE LET p == LastOf(Written(t, old, id)) IN [place |-> p, content |-> t[p]]

-----------------------------------------------------------------------------
(* A push: files are added, edited, moved and removed. *)
Push ==
    /\ tree' \in Tree
    /\ UNCHANGED <<fetched, rows, index, pc, upserted, deleted, records, stale, clean>>

Fetch ==
    /\ pc = "idle"
    /\ fetched' = tree
    /\ pc' = "fetched"
    /\ UNCHANGED <<tree, rows, index, upserted, deleted, records, stale, clean>>

(* reconcileDocuments, in one transaction. *)
Reconcile ==
    /\ pc = "fetched"
    /\ rows' = [id \in DocIDs |-> NewRow(fetched, rows, id)]
    /\ upserted' = {id \in DocIDs : Written(fetched, rows, id) # {}}
    /\ deleted' = {id \in DocIDs : rows[id] # Nothing /\ PlacesOf(fetched, id) = {}}
    /\ pc' = "committed"
    /\ UNCHANGED <<tree, fetched, index, records, stale, clean>>

(* Two mutants of the sync: it deletes nothing; it only refreshes entries. *)
DeleteNothing ==
    /\ pc = "committed"
    /\ pc' = "pruned"
    /\ UNCHANGED <<tree, fetched, rows, index, upserted, deleted, records, stale, clean>>

(* syncIndex: delete, read the rows back, index them. *)
DeleteDocuments ==
    /\ pc = "committed"
    /\ index' = [id \in DocIDs |-> IF id \in deleted THEN Nothing ELSE index[id]]
    /\ pc' = "pruned"
    /\ UNCHANGED <<tree, fetched, rows, upserted, deleted, records, stale, clean>>

GetDocumentsByIDs ==
    /\ pc = "pruned"
    /\ records' = [id \in DocIDs |-> IF id \in upserted THEN rows[id] ELSE Nothing]
    /\ pc' = "read"
    /\ UNCHANGED <<tree, fetched, rows, index, upserted, deleted, stale, clean>>

EndRun ==
    /\ pc' = "idle"
    /\ upserted' = {} /\ deleted' = {} /\ records' = Empty

IndexDocuments ==
    /\ pc = "read"
    /\ index' = [id \in DocIDs |-> IF records[id] # Nothing THEN records[id] ELSE index[id]]
    /\ stale' = stale \ (upserted \cup deleted)
    /\ clean' = TRUE
    /\ EndRun
    /\ UNCHANGED <<tree, fetched, rows>>

(* The fetch, the transaction or a step of the sync fails, or the process  *)
(* dies.  After the commit the ids of the change set are lost: indexSearch *)
(* logs the error, and a retried task finds every hash unchanged.          *)
Interrupt ==
    /\ pc # "idle"
    /\ stale' = stale \cup upserted \cup deleted
    /\ clean' = IF pc = "fetched" THEN clean ELSE FALSE
    /\ EndRun
    /\ UNCHANGED <<tree, fetched, rows, index>>

Run == Fetch \/ Reconcile \/ DeleteDocuments \/ GetDocumentsByIDs \/ IndexDocuments

Next == Push \/ Run \/ Interrupt

Spec == Init /\ [][Next]_vars

-----------------------------------------------------------------------------
Committed == pc \in Stages \ {"idle", "fetched"}

(* A committed reconcile serves HEAD's documents and no others: every id   *)
(* of the tree has a row with the bytes of a file that carries it, and a   *)
(* document that is gone has none (reconcileDocuments).                    *)
RowsServeHead ==
    Committed => \A id \in DocIDs :
        /\ rows[id] = Nothing <=> PlacesOf(fetched, id) = {}
        /\ rows[id] # Nothing =>
             \E p \in PlacesOf(fetched, id) : rows[id].content = fetched[p]

(* Between runs the search index differs from Postgres only in documents   *)
(* whose sync was interrupted, whatever was interrupted before and at      *)
(* which of its steps (syncIndex, upsertedIndexRecords).                   *)
IndexFollowsRows ==
    pc = "idle" => \A id \in DocIDs : id \in stale \/ index[id] = rows[id]

(* "the content-hash gate makes retries idempotent" (handleIngest), for    *)
(* trees that use every id once: reconciling a tree again changes nothing. *)
RetryIsIdempotent ==
    Committed /\ (\A id \in DocIDs : Unique(fetched, id))
        => \A id \in DocIDs : NewRow(fetched, rows, id) = rows[id]

(* The inductive invariant behind IndexFollowsRows: during a run the index *)
(* lags in the change set too, and after its first step no longer in the   *)
(* documents deleted.                                                      *)
Pending == IF pc = "committed" THEN upserted \cup deleted ELSE upserted

SyncInv ==
    /\ pc \in {"idle", "fetched"} => upserted = {} /\ deleted = {}
    /\ \A id \in DocIDs \ (stale \cup Pending) : index[id] = rows[id]
    /\ Committed => /\ \A id \in deleted : rows[id] = Nothing
                    /\ \A id \in upserted : rows[id] # Nothing
    /\ pc \in {"pruned", "read"} => \A id \in deleted : index[id] = Nothing
    /\ pc = "read" =>
         records = [id \in DocIDs |-> IF id \in upserted THEN rows[id] ELSE Nothing]

IInv == TypeOK /\ SyncInv

-----------------------------------------------------------------------------
(* What comments and documents say, and the code does not do. *)

(* "the next reconcile re-indexes the affected documents" (indexSearch):   *)
(* after a run that synced the index, the index is what Postgres holds.    *)
NextReconcileRepairs == pc = "idle" /\ clean => index = rows

(* "drives the DB to match the desired state of one repo at HEAD"          *)
(* (ReconcileRepo): the row of a document has the path and the type of the *)
(* file it is in.                                                          *)
RowsFollowMoves ==
    Committed => \A id \in DocIDs : \A p \in PlacesOf(fetched, id) :
        Unique(fetched, id) => rows[id].place = p

=============================================================================
