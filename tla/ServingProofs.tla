---------------------------- MODULE ServingProofs ----------------------------
(***************************************************************************)
(* What docz-api answers with.  The documents it holds are HEAD's: the     *)
(* type correctness and the safety properties of DocumentSync, for every   *)
(* set of files, ids and contents.  Who is answered: Access, for every set *)
(* of principals, documents and scopes, every time to live and clock.      *)
(* Whose token is believed: TrustedKeys, for every set of processes and    *)
(* keys, and every pace of rotation and refresh.                           *)
(***************************************************************************)
EXTENDS DocumentSync, Access, TrustedKeys, TLAPS

-----------------------------------------------------------------------------
(***************************************************************************)
(* The documents held: DocumentSync.                                       *)
(***************************************************************************)
(* The file a reconcile writes last is one of those it writes. *)
LEMMA LastIsWritten ==
    ASSUME NEW S \in SUBSET Places, S # {}
    PROVE  LastOf(S) \in S
<1>1. \E p \in S : \A q \in S : q <= p
  BY SyncAssumption
<1>. QED
  BY <1>1 DEF LastOf

(* What a reconcile leaves in the row of one document. *)
LEMMA NewRowFacts ==
    ASSUME NEW t \in Tree, NEW old \in Table, NEW id \in DocIDs
    PROVE  /\ NewRow(t, old, id) \in Row \cup {Nothing}
           /\ NewRow(t, old, id) = Nothing <=> PlacesOf(t, id) = {}
           /\ NewRow(t, old, id) # Nothing =>
                \E p \in PlacesOf(t, id) : NewRow(t, old, id).content = t[p]
           /\ Written(t, old, id) = {} /\ ~(old[id] # Nothing /\ PlacesOf(t, id) = {})
                => NewRow(t, old, id) = old[id]
<1>. DEFINE W == Written(t, old, id)
            q == LastOf(W)
<1>1. CASE PlacesOf(t, id) = {}
  BY <1>1 DEF NewRow, Written
<1>2. CASE PlacesOf(t, id) # {} /\ W = {}
  <2>1. NewRow(t, old, id) = old[id]
    BY <1>2 DEF NewRow
  <2>2. PICK p \in PlacesOf(t, id) : TRUE
    BY <1>2
  <2>3. old[id] # Nothing /\ old[id].content = t[p]
    BY <1>2, <2>2 DEF Written, Unchanged
  <2>4. old[id] \in Row \cup {Nothing}
    BY DEF Table
  <2>. QED
    BY <1>2, <2>1, <2>2, <2>3, <2>4
<1>3. CASE W # {}
  <2>1. W \in SUBSET Places /\ W \subseteq PlacesOf(t, id)
    BY DEF Written, PlacesOf
  <2>2. q \in PlacesOf(t, id) /\ q \in Places
    BY <1>3, <2>1, LastIsWritten
  <2>3. t[q] \in Contents
    BY <2>2 DEF PlacesOf, Tree
  <2>4. NewRow(t, old, id) = [place |-> q, content |-> t[q]]
    BY <1>3, <2>2 DEF NewRow
  <2>5. NewRow(t, old, id) \in Row
    BY <2>2, <2>3, <2>4 DEF Row
  <2>6. NewRow(t, old, id) # Nothing /\ NewRow(t, old, id).content = t[q]
    BY <2>4, <2>5, SyncAssumption DEF Row
  <2>. QED
    BY <1>3, <2>2, <2>5, <2>6
<1>. QED
  BY <1>1, <1>2, <1>3

(* A file whose id is its own is hashed against the row it left. *)
LEMMA RetryChangesNothing ==
    ASSUME NEW t \in Tree, NEW old \in Table, NEW id \in DocIDs,
           NEW row, row = old[id], Unique(t, id),
           row = Nothing <=> PlacesOf(t, id) = {},
           row # Nothing => \E p \in PlacesOf(t, id) : row.content = t[p]
    PROVE  NewRow(t, old, id) = old[id]
<1>1. Written(t, old, id) = {}
  BY DEF Written, Unchanged, Unique
<1>. QED
  BY <1>1 DEF NewRow

-----------------------------------------------------------------------------
THEOREM InitIInv == Init => IInv
  BY DEF Init, IInv, TypeOK, SyncInv, Empty, Table, Tree, Stages, Committed, Pending

LEMMA NextTypeOK == TypeOK /\ [Next]_vars => TypeOK'
<1>. SUFFICES ASSUME TypeOK, [Next]_vars PROVE TypeOK'
  OBVIOUS
<1>. USE DEF TypeOK, Stages
<1>1. CASE Push
  BY <1>1 DEF Push
<1>2. CASE Fetch
  BY <1>2 DEF Fetch
<1>3. CASE Reconcile
  <2>1. rows' \in Table
    BY <1>3, NewRowFacts DEF Reconcile, Table
  <2>. QED
    BY <1>3, <2>1 DEF Reconcile
<1>4. CASE DeleteDocuments
  BY <1>4 DEF DeleteDocuments, Table
<1>5. CASE GetDocumentsByIDs
  BY <1>5 DEF GetDocumentsByIDs, Table
<1>6. CASE IndexDocuments
  BY <1>6 DEF IndexDocuments, EndRun, Empty, Table
<1>7. CASE Interrupt
  BY <1>7 DEF Interrupt, EndRun, Empty, Table
<1>8. CASE UNCHANGED vars
  BY <1>8 DEF vars
<1>. QED
  BY <1>1, <1>2, <1>3, <1>4, <1>5, <1>6, <1>7, <1>8 DEF Next, Run

LEMMA NextSyncInv == IInv /\ [Next]_vars => SyncInv'
<1>. SUFFICES ASSUME IInv, [Next]_vars PROVE SyncInv'
  OBVIOUS
<1>. USE DEF IInv, SyncInv, TypeOK, Stages, Committed, Pending
<1>1. CASE Push
  BY <1>1 DEF Push
<1>2. CASE Fetch
  BY <1>2 DEF Fetch
<1>3. CASE Reconcile
  <2>1. ASSUME NEW id \in DocIDs PROVE
          /\ id \in deleted' => rows'[id] = Nothing
          /\ id \in upserted' => rows'[id] # Nothing
          /\ id \notin upserted' \cup deleted' => rows'[id] = rows[id]
    <3>1. rows'[id] = NewRow(fetched, rows, id)
      BY <1>3 DEF Reconcile
    <3>2. id \in upserted' <=> Written(fetched, rows, id) # {}
      BY <1>3 DEF Reconcile
    <3>3. id \in deleted' <=> (rows[id] # Nothing /\ PlacesOf(fetched, id) = {})
      BY <1>3 DEF Reconcile
    <3>4. Written(fetched, rows, id) # {} => PlacesOf(fetched, id) # {}
      BY DEF Written
    <3>. QED
      BY <3>1, <3>2, <3>3, <3>4, NewRowFacts
  <2>2. upserted' \subseteq DocIDs /\ deleted' \subseteq DocIDs
    BY <1>3 DEF Reconcile
  <2>. QED
    BY <1>3, <2>1, <2>2 DEF Reconcile
<1>4. CASE DeleteDocuments
  BY <1>4 DEF DeleteDocuments
<1>5. CASE GetDocumentsByIDs
  BY <1>5 DEF GetDocumentsByIDs
<1>6. CASE IndexDocuments
  <2>1. ASSUME NEW id \in DocIDs, id \notin stale \ (upserted \cup deleted)
        PROVE  index'[id] = rows[id]
    <3>1. index'[id] = IF records[id] # Nothing THEN records[id] ELSE index[id]
      BY <1>6 DEF IndexDocuments
    <3>2. records[id] = IF id \in upserted THEN rows[id] ELSE Nothing
      BY <1>6 DEF IndexDocuments
    <3>3. CASE id \in upserted
      BY <1>6, <3>1, <3>2, <3>3 DEF IndexDocuments
    <3>4. CASE id \in deleted /\ id \notin upserted
      BY <1>6, <3>1, <3>2, <3>4 DEF IndexDocuments
    <3>5. CASE id \notin upserted \cup deleted
      BY <1>6, <2>1, <3>1, <3>2, <3>5 DEF IndexDocuments
    <3>. QED
      BY <3>3, <3>4, <3>5
  <2>. QED
    BY <1>6, <2>1 DEF IndexDocuments, EndRun
<1>7. CASE Interrupt
  BY <1>7 DEF Interrupt, EndRun
<1>8. CASE UNCHANGED vars
  BY <1>8 DEF vars
<1>. QED
  BY <1>1, <1>2, <1>3, <1>4, <1>5, <1>6, <1>7, <1>8 DEF Next, Run

LEMMA NextRowsServeHead == TypeOK /\ RowsServeHead /\ [Next]_vars => RowsServeHead'
<1>. SUFFICES ASSUME TypeOK, RowsServeHead, [Next]_vars PROVE RowsServeHead'
  OBVIOUS
<1>. USE DEF RowsServeHead, Committed, Stages
<1>1. CASE Push
  BY <1>1 DEF Push, PlacesOf
<1>2. CASE Fetch
  BY <1>2 DEF Fetch
<1>3. CASE Reconcile
  <2>1. fetched \in Tree /\ rows \in Table
    BY DEF TypeOK
  <2>2. ASSUME NEW id \in DocIDs PROVE
          /\ rows'[id] = Nothing <=> PlacesOf(fetched, id) = {}
          /\ rows'[id] # Nothing =>
               \E p \in PlacesOf(fetched, id) : rows'[id].content = fetched[p]
    BY <1>3, <2>1, NewRowFacts DEF Reconcile
  <2>. QED
    BY <1>3, <2>2 DEF Reconcile, PlacesOf
<1>4. CASE DeleteDocuments
  BY <1>4 DEF DeleteDocuments, PlacesOf
<1>5. CASE GetDocumentsByIDs
  BY <1>5 DEF GetDocumentsByIDs, PlacesOf
<1>6. CASE IndexDocuments
  BY <1>6 DEF IndexDocuments, EndRun
<1>7. CASE Interrupt
  BY <1>7 DEF Interrupt, EndRun
<1>8. CASE UNCHANGED vars
  BY <1>8 DEF vars, PlacesOf
<1>. QED
  BY <1>1, <1>2, <1>3, <1>4, <1>5, <1>6, <1>7, <1>8 DEF Next, Run

(* The inductive invariant holds in every state. *)
THEOREM Invariance == Spec => [](IInv /\ RowsServeHead)
<1>1. Init => RowsServeHead
  BY DEF Init, RowsServeHead, Committed, Stages
<1>2. IInv /\ RowsServeHead /\ [Next]_vars => (IInv /\ RowsServeHead)'
  BY NextTypeOK, NextSyncInv, NextRowsServeHead DEF IInv
<1>. QED
  BY <1>1, <1>2, InitIInv, PTL DEF Spec

-----------------------------------------------------------------------------
(* A committed reconcile serves HEAD's documents and no others             *)
(* (reconcileDocuments).                                                   *)
THEOREM ServesHead == Spec => []RowsServeHead
  BY Invariance, PTL

(* Between runs the index differs from Postgres only in documents whose    *)
(* sync was interrupted (syncIndex).                                       *)
THEOREM IndexFollows == Spec => []IndexFollowsRows
<1>1. IInv => IndexFollowsRows
  BY DEF IInv, SyncInv, IndexFollowsRows, Pending
<1>. QED
  BY <1>1, Invariance, PTL

(* Reconciling a tree whose ids are unique again changes nothing           *)
(* (handleIngest relies on it to retry).                                   *)
THEOREM RetriesAreIdempotent == Spec => []RetryIsIdempotent
<1>1. IInv /\ RowsServeHead => RetryIsIdempotent
  <2>. SUFFICES ASSUME IInv, RowsServeHead, Committed,
                       NEW id \in DocIDs, Unique(fetched, id)
                PROVE  NewRow(fetched, rows, id) = rows[id]
    BY DEF RetryIsIdempotent
  <2>1. fetched \in Tree /\ rows \in Table
    BY DEF IInv, TypeOK
  <2>2. /\ rows[id] = Nothing <=> PlacesOf(fetched, id) = {}
        /\ rows[id] # Nothing => \E p \in PlacesOf(fetched, id) : rows[id].content = fetched[p]
    BY DEF RowsServeHead
  <2>. QED
    BY <2>1, <2>2, RetryChangesNothing
<1>. QED
  BY <1>1, Invariance, PTL

-----------------------------------------------------------------------------
(***************************************************************************)
(* The documents answered: Access.                                         *)
(***************************************************************************)
(* i was readable with the given scopes at t or after it. *)
ReadableSince(i, scopes, t) ==
    \/ scopesOf[i] \cap scopes # {} /\ now >= t
    \/ \E s \in scopes : lost[i][s] >= t

(* A remembered grant was true when it was queried, which is its time to   *)
(* live and what the query took before it runs out.                        *)
GrantTrue(g) ==
    /\ g.took >= 0 /\ g.expires - TTL <= now
    /\ \A i \in g.ids : ReadableSince(i, g.scopes, g.expires - TTL - g.took)

(* What a request may read, and what it has read, was readable when its    *)
(* grant was queried.                                                      *)
RequestTrue(q) ==
    /\ q.since <= now
    /\ \A i \in q.allowed \cup q.served : ReadableSince(i, q.scopes, q.since - TTL)
    /\ q.stage = "remember" =>
         /\ q.since <= q.queried /\ q.queried <= now
         /\ \A i \in q.allowed : ReadableSince(i, q.scopes, q.queried)

LossInv == \A i \in Id, s \in Scope : lost[i][s] <= now

AccessInv ==
    /\ AccessTypeOK
    /\ LossInv
    /\ \A p \in Principal : GrantTrue(cache[p])
    /\ \A r \in Reader : RequestTrue(reader[r])

LEMMA ConstantFacts ==
    /\ TTL \in Nat /\ TTL > 0 /\ EndTime \in Nat /\ Never \in Int /\ NoId \notin Id
    /\ Granting \subseteq SUBSET Scope /\ {} \notin Granting /\ Holding \subseteq SUBSET Scope
    /\ NoGrant \in GrantType /\ NoRead \in ReadType
<1>1. /\ TTL \in Nat /\ TTL > 0 /\ EndTime \in Nat /\ Never \in Int /\ NoId \notin Id
      /\ Granting \subseteq SUBSET Scope /\ {} \notin Granting /\ Holding \subseteq SUBSET Scope
  BY AccessAssumption DEF Never
<1>2. NoGrant \in GrantType
  BY <1>1 DEF NoGrant, GrantType
<1>3. <<>> \in Seq(Queries)
  OBVIOUS
<1>4. NoRead \in ReadType
  BY <1>1, <1>3 DEF NoRead, ReadType, AccessStages
<1>. QED
  BY <1>1, <1>2, <1>4

(* A handler is a sequence of queries. *)
LEMMA HandlersQuery == Handlers \subseteq Seq(Queries)
<1>1. ASSUME NEW a \in Queries, NEW b \in Queries, NEW c \in Queries,
             NEW d \in Queries, NEW e \in Queries
      PROVE  /\ <<a>> \in Seq(Queries) /\ <<a, b>> \in Seq(Queries)
             /\ <<a, b, c>> \in Seq(Queries) /\ <<a, b, c, d, e>> \in Seq(Queries)
  OBVIOUS
<1>2. {"repo", "rows", "column", "document", "repos", "search"} \subseteq Queries
  BY DEF Queries
<1>. QED
  BY <1>1, <1>2
     DEF Handlers, GetRepo, GetRepoIndex, GetRepoChangelog, ListRepoPages, GetRepoPage,
         ListTypes, ListDocs, GetDoc, GetDocHTML, GetRepoConfluence, ToolListDocs,
         ToolDocument, ToolGetPage, ListRepos, ToolListRepos, SearchDocs, ToolSearchDocs

(* What the world may do to a repository: it loses a scope now, or a time  *)
(* of loss moves on; the clock does not go back.                           *)
LEMMA WorldMoves ==
    ASSUME AccessTypeOK, LossInv, [AccessNext]_accessVars
    PROVE  /\ now' >= now
           /\ \A i \in Id : \A s \in Scope :
                /\ s \in scopesOf[i] => s \in scopesOf'[i] \/ lost'[i][s] >= now
                /\ lost'[i][s] >= lost[i][s]
<1>0. /\ now \in 0..EndTime /\ EndTime \in Nat /\ Never \in Int /\ Never < 0
      /\ \A i \in Id : \A s \in Scope : lost[i][s] \in {Never} \cup 0..EndTime
      /\ scopesOf \in [Id -> SUBSET Scope]
      /\ \A i \in Id : \A s \in Scope : lost[i][s] \in Int
  BY AccessAssumption, ConstantFacts DEF AccessTypeOK, Never
<1>1. CASE UNCHANGED <<scopesOf, lost, now>>
  BY <1>0, <1>1
<1>2. ASSUME NEW i \in Id, NEW scopes, Rescope(i, scopes)
      PROVE  /\ now' = now
             /\ \A j \in Id : j # i => scopesOf'[j] = scopesOf[j] /\ lost'[j] = lost[j]
             /\ scopesOf'[i] = scopes
             /\ \A s \in Scope : lost'[i][s] = IF s \in scopesOf[i] \ scopes THEN now ELSE lost[i][s]
  BY <1>0, <1>2 DEF Rescope, AccessTypeOK
<1>3. ASSUME NEW i \in Id, NEW scopes \in Granting \cup {{}}, Rescope(i, scopes)
      PROVE  /\ now' >= now
             /\ \A j \in Id : \A s \in Scope :
                  /\ s \in scopesOf[j] => s \in scopesOf'[j] \/ lost'[j][s] >= now
                  /\ lost'[j][s] >= lost[j][s]
  <2>1. ASSUME NEW j \in Id, j # i, NEW s \in Scope
        PROVE  /\ s \in scopesOf[j] => s \in scopesOf'[j] \/ lost'[j][s] >= now
               /\ lost'[j][s] >= lost[j][s]
    BY <1>0, <1>2, <1>3, <2>1
  <2>2. ASSUME NEW s \in Scope
        PROVE  /\ s \in scopesOf[i] => s \in scopesOf'[i] \/ lost'[i][s] >= now
               /\ lost'[i][s] >= lost[i][s]
    <3>1. lost[i][s] \in Int /\ lost[i][s] <= now
      BY <1>0 DEF LossInv
    <3>2. /\ now' = now /\ scopesOf'[i] = scopes
          /\ lost'[i][s] = IF s \in scopesOf[i] \ scopes THEN now ELSE lost[i][s]
      BY <1>2, <1>3
    <3>. QED
      BY <1>0, <3>1, <3>2
  <2>. QED
    BY <1>0, <1>2, <1>3, <2>1, <2>2
<1>4. ASSUME NEW i \in Id, Onboard(i)
      PROVE  /\ now' = now /\ lost' = lost
             /\ \A j \in Id : \A s \in Scope : s \in scopesOf[j] => s \in scopesOf'[j]
  BY <1>0, <1>4 DEF Onboard, Exists
<1>5. CASE \E i \in Id : Onboard(i)
  BY <1>0, <1>4, <1>5
<1>6. CASE AccessTick
  BY <1>0, <1>6 DEF AccessTick
<1>7. \/ UNCHANGED <<scopesOf, lost, now>>
      \/ \E i \in Id, scopes \in Granting \cup {{}} : Rescope(i, scopes)
      \/ \E i \in Id : Onboard(i)
      \/ AccessTick
  BY DEF AccessNext, accessVars, Authorize, Handle, ListGranted, Remember,
       ReadFails, ResolveRepo, QueryById, FilterRepos, SearchIndex, Answer, SyncSearch
<1>. QED
  BY <1>1, <1>3, <1>5, <1>6, <1>7


LEMMA ReadableKept ==
    ASSUME AccessTypeOK, AccessTypeOK', LossInv, [AccessNext]_accessVars,
           NEW i \in Id, NEW scopes \in SUBSET Scope, NEW t \in Int, t <= now,
           ReadableSince(i, scopes, t)
    PROVE  ReadableSince(i, scopes, t)'
<1>1. /\ now' >= now
      /\ \A s \in Scope : /\ s \in scopesOf[i] => s \in scopesOf'[i] \/ lost'[i][s] >= now
                          /\ lost'[i][s] >= lost[i][s]
  BY WorldMoves
<1>2. /\ now \in Int /\ \A s \in Scope : lost[i][s] \in Int
      /\ now' \in Int /\ \A s \in Scope : lost'[i][s] \in Int
  <2>1. EndTime \in Nat /\ Never \in Int
    BY ConstantFacts
  <2>. QED
    BY <2>1 DEF AccessTypeOK
<1>3. CASE \E s \in scopes : lost[i][s] >= t
  BY <1>1, <1>2, <1>3 DEF ReadableSince
<1>4. CASE scopesOf[i] \cap scopes # {}
  <2>1. PICK s \in scopes : s \in scopesOf[i]
    BY <1>4
  <2>2. CASE s \in scopesOf'[i]
    BY <1>1, <1>2, <2>1, <2>2 DEF ReadableSince
  <2>3. CASE lost'[i][s] >= now
    BY <1>1, <1>2, <2>1, <2>3 DEF ReadableSince
  <2>. QED
    BY <1>1, <2>1, <2>2, <2>3
<1>. QED
  BY <1>3, <1>4 DEF ReadableSince


LEMMA InitAccessInv == AccessInit => AccessInv
<1>. SUFFICES ASSUME AccessInit PROVE AccessInv
  OBVIOUS
<1>. USE ConstantFacts
<1>1. scopesOf \in [Id -> SUBSET Scope]
  BY DEF AccessInit
<1>2. cache \in [Principal -> GrantType] /\ reader \in [Reader -> ReadType]
  BY DEF AccessInit
<1>3. /\ named \in Id \cup {NoId} /\ (named # NoId => Exists(named))
      /\ indexed \in SUBSET Id
      /\ lost \in [Id -> [Scope -> {Never} \cup 0..EndTime]]
      /\ now \in 0..EndTime
  BY DEF AccessInit
<1>4. AccessTypeOK
  BY <1>1, <1>2, <1>3 DEF AccessTypeOK
<1>5. LossInv
  BY DEF AccessInit, LossInv, Never
<1>6. GrantTrue(NoGrant) /\ RequestTrue(NoRead)
  BY DEF AccessInit, GrantTrue, RequestTrue, NoGrant, NoRead
<1>7. /\ \A p \in Principal : cache[p] = NoGrant
      /\ \A r \in Reader : reader[r] = NoRead
  BY DEF AccessInit
<1>. QED
  BY <1>4, <1>5, <1>6, <1>7 DEF AccessInv

(* A step of the world: neither a grant nor a request is touched. *)
LEMMA WorldStep ==
    ASSUME AccessInv, [AccessNext]_accessVars, UNCHANGED <<cache, reader>>,
           AccessTypeOK', LossInv'
    PROVE  AccessInv'
<1>0. TTL \in Nat /\ EndTime \in Nat /\ now \in Int /\ now' \in Int /\ now' >= now
  BY ConstantFacts, WorldMoves DEF AccessInv, AccessTypeOK
<1>1. ASSUME NEW p \in Principal PROVE GrantTrue(cache[p])'
  <2>1. PICK g \in GrantType : g = cache[p]
    BY DEF AccessInv, AccessTypeOK
  <2>2. g = cache'[p] /\ GrantTrue(g)
    BY <2>1 DEF AccessInv
  <2>3. /\ g.ids \in SUBSET Id /\ g.scopes \in SUBSET Scope
        /\ g.expires \in Int /\ g.took \in Int
    BY <1>0 DEF GrantType
  <2>4. \A i \in g.ids : ReadableSince(i, g.scopes, g.expires - TTL - g.took)'
    BY <1>0, <2>2, <2>3, ReadableKept DEF GrantTrue, AccessInv
  <2>5. g.took >= 0 /\ g.expires - TTL <= now'
    BY <1>0, <2>2, <2>3 DEF GrantTrue
  <2>. QED
    BY <2>2, <2>4, <2>5 DEF GrantTrue
<1>2. ASSUME NEW r \in Reader PROVE RequestTrue(reader[r])'
  <2>1. PICK q \in ReadType : q = reader[r]
    BY DEF AccessInv, AccessTypeOK
  <2>2. q = reader'[r] /\ RequestTrue(q)
    BY <2>1 DEF AccessInv
  <2>3. /\ q.allowed \in SUBSET Id /\ q.served \in SUBSET Id /\ q.scopes \in SUBSET Scope
        /\ q.since \in Int /\ q.queried \in Int
    BY <1>0 DEF ReadType
  <2>4. \A i \in q.allowed \cup q.served : ReadableSince(i, q.scopes, q.since - TTL)'
    BY <1>0, <2>2, <2>3, ReadableKept DEF RequestTrue, AccessInv
  <2>5. q.stage = "remember" => \A i \in q.allowed : ReadableSince(i, q.scopes, q.queried)'
    BY <1>0, <2>2, <2>3, ReadableKept DEF RequestTrue, AccessInv
  <2>. QED
    BY <1>0, <2>2, <2>3, <2>4, <2>5 DEF RequestTrue
<1>. QED
  BY <1>1, <1>2 DEF AccessInv

(* A step of a request: it becomes q, and may remember g. *)
LEMMA RequestStep ==
    ASSUME AccessInv, NEW r \in Reader, NEW q \in ReadType, RequestTrue(q),
           reader' = [reader EXCEPT ![r] = q],
           UNCHANGED <<scopesOf, named, indexed, lost, now>>,
           \/ UNCHANGED cache
           \/ \E p \in Principal : \E g \in GrantType :
                GrantTrue(g) /\ cache' = [cache EXCEPT ![p] = g]
    PROVE  AccessInv'
<1>1. cache \in [Principal -> GrantType] /\ reader \in [Reader -> ReadType]
  BY DEF AccessInv, AccessTypeOK
<1>2. /\ reader' \in [Reader -> ReadType]
      /\ \A s \in Reader : reader'[s] = IF s = r THEN q ELSE reader[s]
  BY <1>1
<1>3. /\ cache' \in [Principal -> GrantType]
      /\ \A p \in Principal : GrantTrue(cache'[p])
  BY <1>1 DEF AccessInv
<1>4. AccessTypeOK' /\ LossInv'
  BY <1>2, <1>3 DEF AccessInv, AccessTypeOK, LossInv, Exists
<1>5. \A s \in Reader : RequestTrue(reader'[s])
  BY <1>2 DEF AccessInv
<1>6. /\ \A p \in Principal : GrantTrue(cache[p])'
      /\ \A s \in Reader : RequestTrue(reader[s])'
  BY <1>3, <1>5 DEF GrantTrue, RequestTrue, ReadableSince
<1>. QED
  BY <1>4, <1>6 DEF AccessInv


LEMMA AuthorizeStep ==
    ASSUME AccessInv, NEW r \in Reader, NEW p \in Principal, NEW scopes \in Holding,
           Authorize(r, p, scopes)
    PROVE  AccessInv'
<1>. DEFINE begun == [NoRead EXCEPT !.principal = p, !.scopes = scopes,
                                    !.since = now, !.stage = "handle"]
            granted == [begun EXCEPT !.allowed = cache[p].ids,
                                     !.since = now - cache[p].took]
            listing == [begun EXCEPT !.stage = "list"]
<1>0. /\ TTL \in Nat /\ EndTime \in Nat /\ now \in 0..EndTime /\ scopes \in SUBSET Scope
      /\ NoRead \in ReadType
      /\ UNCHANGED <<scopesOf, named, indexed, lost, now>>
  BY ConstantFacts DEF AccessInv, AccessTypeOK, Authorize
<1>a. PICK new \in ReadType : /\ new = NoRead /\ new.allowed = {} /\ new.served = {}
  BY <1>0 DEF NoRead
<1>b. begun = [new EXCEPT !.principal = p, !.scopes = scopes, !.since = now, !.stage = "handle"]
  BY <1>a
<1>1. /\ begun \in ReadType /\ begun.since = now /\ begun.allowed = {} /\ begun.served = {}
      /\ begun.stage = "handle" /\ begun.scopes = scopes
  <2>1. now \in Int /\ "handle" \in AccessStages
    BY <1>0 DEF AccessStages
  <2>. HIDE DEF begun
  <2>. QED
    BY <1>0, <1>a, <1>b, <2>1 DEF ReadType
<1>. HIDE DEF begun
<1>2. CASE scopes = {}
  <2>1. reader' = [reader EXCEPT ![r] = begun] /\ UNCHANGED cache
    BY <1>2 DEF Authorize, begun
  <2>2. RequestTrue(begun)
    BY <1>0, <1>1 DEF RequestTrue
  <2>. QED
    BY <1>0, <1>1, <2>1, <2>2, RequestStep
<1>3. CASE scopes # {} /\ Hit(p, scopes)
  <2>1. reader' = [reader EXCEPT ![r] = granted] /\ UNCHANGED cache
    BY <1>3 DEF Authorize, begun
  <2>2. PICK g \in GrantType : g = cache[p]
    BY DEF AccessInv, AccessTypeOK
  <2>3. /\ GrantTrue(g) /\ now < g.expires /\ g.scopes = scopes
        /\ g.ids \in SUBSET Id /\ g.expires \in Int /\ g.took \in Int
    BY <1>0, <1>3, <2>2 DEF AccessInv, Hit, GrantType
  <2>4. /\ granted \in ReadType /\ granted.since = now - g.took /\ granted.allowed = g.ids
        /\ granted.served = {} /\ granted.stage = "handle" /\ granted.scopes = scopes
    <3>1. PICK n \in Int : n = now - g.took
      BY <1>0, <2>3
    <3>2. granted = [begun EXCEPT !.allowed = g.ids, !.since = n]
      BY <2>2, <3>1
    <3>. QED
      BY <1>1, <2>3, <3>1, <3>2 DEF ReadType
  <2>5. \A i \in g.ids : ReadableSince(i, scopes, now - g.took - TTL)
    <3>1. SUFFICES ASSUME NEW i \in g.ids PROVE ReadableSince(i, scopes, now - g.took - TTL)
      OBVIOUS
    <3>2. ReadableSince(i, scopes, g.expires - TTL - g.took)
      BY <2>3 DEF GrantTrue
    <3>3. \A s \in scopes : lost[i][s] \in Int
      BY <1>0, <2>3, ConstantFacts DEF AccessInv, AccessTypeOK
    <3>4. g.took >= 0
      BY <2>3 DEF GrantTrue
    <3>. QED
      BY <1>0, <2>3, <3>2, <3>3, <3>4 DEF ReadableSince
  <2>6. RequestTrue(granted)
    BY <1>0, <2>3, <2>4, <2>5 DEF RequestTrue, GrantTrue
  <2>. HIDE DEF granted
  <2>. QED
    BY <1>0, <2>1, <2>4, <2>6, RequestStep
<1>4. CASE scopes # {} /\ ~Hit(p, scopes)
  <2>1. reader' = [reader EXCEPT ![r] = listing] /\ cache' = [cache EXCEPT ![p] = NoGrant]
    BY <1>4 DEF Authorize, begun
  <2>2. /\ listing \in ReadType /\ listing.since = now /\ listing.allowed = {}
        /\ listing.served = {} /\ listing.stage = "list"
    BY <1>1 DEF ReadType, AccessStages
  <2>3. RequestTrue(listing)
    BY <1>0, <2>2 DEF RequestTrue
  <2>4. NoGrant \in GrantType /\ GrantTrue(NoGrant)
    BY <1>0, ConstantFacts DEF GrantTrue, NoGrant
  <2>. HIDE DEF listing
  <2>. QED
    BY <1>0, <2>1, <2>2, <2>3, <2>4, RequestStep
<1>. QED
  BY <1>2, <1>3, <1>4

LEMMA ListGrantedStep ==
    ASSUME AccessInv, NEW r \in Reader, ListGranted(r)
    PROVE  AccessInv'
<1>1. PICK q \in ReadType : q = reader[r]
  BY DEF AccessInv, AccessTypeOK
<1>. DEFINE asked == [q EXCEPT !.stage = "remember", !.allowed = Granted(q.scopes),
                               !.queried = now]
<1>2. /\ reader' = [reader EXCEPT ![r] = asked]
      /\ UNCHANGED <<scopesOf, named, indexed, lost, cache, now>>
  BY <1>1 DEF ListGranted
<1>3. /\ TTL \in Nat /\ now \in 0..EndTime /\ EndTime \in Nat /\ RequestTrue(q) /\ q.since \in Int
  BY <1>1, ConstantFacts DEF AccessInv, AccessTypeOK, ReadType
<1>4. /\ asked \in ReadType /\ asked.since = q.since /\ asked.allowed = Granted(q.scopes)
      /\ asked.served = q.served /\ asked.stage = "remember" /\ asked.queried = now
      /\ asked.scopes = q.scopes
  BY <1>3 DEF ReadType, AccessStages, Granted
<1>5. RequestTrue(asked)
  BY <1>3, <1>4 DEF RequestTrue, ReadableSince, Granted
<1>. HIDE DEF asked
<1>. QED
  BY <1>2, <1>4, <1>5, RequestStep

LEMMA RememberStep ==
    ASSUME AccessInv, NEW r \in Reader, Remember(r)
    PROVE  AccessInv'
<1>1. PICK q \in ReadType : q = reader[r]
  BY DEF AccessInv, AccessTypeOK
<1>. DEFINE g == [ids |-> q.allowed, scopes |-> q.scopes,
                  expires |-> now + TTL, took |-> now - q.queried]
            granted == [q EXCEPT !.stage = "handle", !.queried = 0,
                                 !.since = q.since - (now - q.queried)]
<1>2. /\ reader' = [reader EXCEPT ![r] = granted]
      /\ cache' = [cache EXCEPT ![q.principal] = g]
      /\ UNCHANGED <<scopesOf, named, indexed, lost, now>>
  BY <1>1 DEF Remember
<1>3. /\ TTL \in Nat /\ now \in 0..EndTime /\ EndTime \in Nat /\ RequestTrue(q)
      /\ q.since \in Int /\ q.queried \in 0..EndTime /\ q.stage = "remember"
      /\ q.allowed \in SUBSET Id /\ q.served \in SUBSET Id /\ q.scopes \in SUBSET Scope
      /\ cache \in [Principal -> GrantType]
  BY <1>1, ConstantFacts DEF AccessInv, AccessTypeOK, ReadType, Remember, At
<1>4. q.since <= q.queried /\ q.queried <= now
  BY <1>3 DEF RequestTrue
<1>5. /\ granted \in ReadType /\ granted.since = q.since - (now - q.queried)
      /\ granted.allowed = q.allowed /\ granted.served = q.served
      /\ granted.stage = "handle" /\ granted.scopes = q.scopes
  <2>1. PICK n \in Int : n = q.since - (now - q.queried)
    BY <1>3
  <2>2. granted = [q EXCEPT !.stage = "handle", !.queried = 0, !.since = n]
    BY <2>1
  <2>3. 0 \in 0..EndTime /\ "handle" \in AccessStages
    BY <1>3 DEF AccessStages
  <2>. HIDE DEF granted
  <2>. QED
    BY <2>1, <2>2, <2>3 DEF ReadType
<1>6. ASSUME NEW i \in q.allowed \cup q.served
      PROVE  ReadableSince(i, q.scopes, q.since - (now - q.queried) - TTL)
  <2>1. \A s \in q.scopes : lost[i][s] \in Int
    BY <1>3, <1>6, ConstantFacts DEF AccessInv, AccessTypeOK
  <2>. QED
    BY <1>3, <1>4, <1>6, <2>1 DEF RequestTrue, ReadableSince
<1>7. RequestTrue(granted)
  BY <1>3, <1>4, <1>5, <1>6 DEF RequestTrue
<1>8. g \in GrantType /\ GrantTrue(g)
  <2>1. g \in GrantType
    BY <1>3 DEF GrantType
  <2>2. now + TTL - TTL - (now - q.queried) = q.queried
    BY <1>3
  <2>3. \A i \in q.allowed : ReadableSince(i, q.scopes, q.queried)
    BY <1>3 DEF RequestTrue
  <2>. QED
    BY <1>3, <1>4, <2>1, <2>2, <2>3 DEF GrantTrue
<1>9. UNCHANGED cache \/ (q.principal \in Principal /\ cache' = [cache EXCEPT ![q.principal] = g])
  BY <1>2, <1>3
<1>. HIDE DEF granted, g
<1>. QED
  BY <1>2, <1>5, <1>7, <1>8, <1>9, RequestStep

(* The rest of a request reads of what it may, or ends. *)
LEMMA ReadStep ==
    ASSUME AccessInv, NEW r \in Reader,
           \/ \E h \in Handlers : Handle(r, h)
           \/ ReadFails(r) \/ ResolveRepo(r) \/ QueryById(r) \/ FilterRepos(r)
           \/ SearchIndex(r) \/ Answer(r)
    PROVE  AccessInv'
<1>1. PICK q \in ReadType : q = reader[r]
  BY DEF AccessInv, AccessTypeOK
<1>2. /\ RequestTrue(q) /\ now \in 0..EndTime
      /\ q.allowed \in SUBSET Id /\ q.served \in SUBSET Id /\ q.todo \in Seq(Queries)
      /\ named \in Id \cup {NoId} /\ indexed \in SUBSET Id
  BY <1>1 DEF AccessInv, AccessTypeOK, ReadType
<1>3. UNCHANGED <<scopesOf, named, indexed, lost, cache, now>>
  BY DEF Handle, ReadFails, ResolveRepo, QueryById, FilterRepos, SearchIndex, Answer
<1>4. ASSUME NEW e \in ReadType, reader' = [reader EXCEPT ![r] = e],
             e.since = q.since, e.scopes = q.scopes, e.stage = "read",
             e.allowed \cup e.served \subseteq q.allowed \cup q.served
      PROVE  AccessInv'
  <2>1. RequestTrue(e)
    BY <1>2, <1>4 DEF RequestTrue
  <2>. QED
    BY <1>3, <1>4, <2>1, RequestStep
<1>5. CASE Stop(r)
  <2>1. NoRead \in ReadType /\ RequestTrue(NoRead)
    BY <1>2, ConstantFacts DEF RequestTrue, NoRead
  <2>. QED
    BY <1>3, <1>5, <2>1, RequestStep DEF Stop
<1>6. ASSUME NEW e \in ReadType, Advance(r, e), q.todo # <<>>,
             e.todo = q.todo, e.since = q.since, e.scopes = q.scopes, e.stage = "read",
             e.allowed \cup e.served \subseteq q.allowed \cup q.served
      PROVE  AccessInv'
  <2>. DEFINE f == [e EXCEPT !.todo = Tail(e.todo)]
  <2>1. Tail(e.todo) \in Seq(Queries)
    BY <1>2, <1>6
  <2>2. /\ f \in ReadType /\ f.since = e.since /\ f.scopes = e.scopes /\ f.stage = e.stage
        /\ f.allowed = e.allowed /\ f.served = e.served
    BY <2>1 DEF ReadType
  <2>3. reader' = [reader EXCEPT ![r] = f]
    BY <1>6 DEF Advance
  <2>. HIDE DEF f
  <2>. QED
    BY <1>4, <1>6, <2>2, <2>3
<1>7. ASSUME NEW h \in Handlers, Handle(r, h) PROVE AccessInv'
  <2>1. h \in Seq(Queries)
    BY HandlersQuery
  <2>. DEFINE e == [q EXCEPT !.stage = "read", !.todo = h]
  <2>2. e \in ReadType /\ e.since = q.since /\ e.scopes = q.scopes /\ e.stage = "read"
        /\ e.allowed = q.allowed /\ e.served = q.served
    BY <2>1 DEF ReadType, AccessStages
  <2>3. reader' = [reader EXCEPT ![r] = e]
    BY <1>1, <1>7 DEF Handle
  <2>. HIDE DEF e
  <2>. QED
    BY <1>4, <2>2, <2>3
<1>8. ASSUME NEW ids \in SUBSET (q.allowed \cup q.served), NEW id \in Id \cup {NoId},
             q.stage = "read", q.todo # <<>>,
             Advance(r, [q EXCEPT !.repo = id, !.served = ids, !.allowed = {}])
      PROVE  AccessInv'
  <2>. DEFINE e == [q EXCEPT !.repo = id, !.served = ids, !.allowed = {}]
  <2>1. e \in ReadType /\ e.since = q.since /\ e.scopes = q.scopes /\ e.stage = "read"
        /\ e.allowed = {} /\ e.served = ids /\ e.todo = q.todo
    BY <1>2, <1>8 DEF ReadType
  <2>2. Advance(r, e)
    BY <1>8
  <2>. HIDE DEF e
  <2>. QED
    BY <1>6, <1>8, <2>1, <2>2
<1>9. CASE ResolveRepo(r) /\ named \in q.allowed
  BY <1>1, <1>2, <1>8, <1>9, ConstantFacts, <1>5 DEF ResolveRepo, Asks, At
<1>10. CASE ResolveRepo(r) /\ named \notin q.allowed
  BY <1>1, <1>5, <1>10 DEF ResolveRepo
<1>11. CASE QueryById(r)
  BY <1>1, <1>5, <1>6, <1>11 DEF QueryById, Asks, At
<1>12. CASE FilterRepos(r) \/ SearchIndex(r)
  <2>1. q.repo \in Id \cup {NoId}
        /\ \A ids : [q EXCEPT !.served = ids, !.allowed = {}]
                      = [q EXCEPT !.repo = q.repo, !.served = ids, !.allowed = {}]
    BY DEF ReadType
  <2>2. PICK ids \in SUBSET q.allowed :
          Advance(r, [q EXCEPT !.served = ids, !.allowed = {}])
    BY <1>1, <1>12 DEF FilterRepos, SearchIndex, FilteredHits
  <2>3. q.stage = "read" /\ q.todo # <<>>
    BY <1>1, <1>12 DEF FilterRepos, SearchIndex, Asks, At
  <2>. QED
    BY <1>8, <2>1, <2>2, <2>3
<1>. QED
  BY <1>5, <1>7, <1>9, <1>10, <1>11, <1>12 DEF ReadFails, Answer

LEMMA AccessInvKept == AccessInv /\ [AccessNext]_accessVars => AccessInv'
<1>. SUFFICES ASSUME AccessInv, [AccessNext]_accessVars PROVE AccessInv'
  OBVIOUS
<1>0. /\ now \in 0..EndTime /\ EndTime \in Nat /\ Never \in Int /\ Never < 0
      /\ scopesOf \in [Id -> SUBSET Scope]
      /\ lost \in [Id -> [Scope -> {Never} \cup 0..EndTime]]
      /\ \A i \in Id, s \in Scope : lost[i][s] \in Int
      /\ Granting \subseteq SUBSET Scope /\ {} \notin Granting
  BY AccessAssumption, ConstantFacts DEF AccessInv, AccessTypeOK, Never
<1>1. ASSUME NEW i \in Id, NEW scopes \in Granting \cup {{}}, Rescope(i, scopes)
      PROVE  AccessInv'
  <2>1. scopesOf' \in [Id -> SUBSET Scope] /\ \A j \in Id : scopesOf'[j] = IF j = i THEN scopes ELSE scopesOf[j]
    BY <1>0, <1>1 DEF Rescope
  <2>2. /\ lost' \in [Id -> [Scope -> {Never} \cup 0..EndTime]]
        /\ \A j \in Id, s \in Scope : lost'[j][s] \in {now, lost[j][s]}
    BY <1>0, <1>1 DEF Rescope
  <2>3. named' \in Id \cup {NoId} /\ (named' # NoId => Exists(named)')
    BY <1>0, <1>1, <2>1, ConstantFacts DEF Rescope, Exists, AccessInv, AccessTypeOK
  <2>4. UNCHANGED <<indexed, cache, reader, now>>
    BY <1>1 DEF Rescope
  <2>5. AccessTypeOK'
    BY <2>1, <2>2, <2>3, <2>4 DEF AccessInv, AccessTypeOK
  <2>6. LossInv'
    BY <1>0, <2>2, <2>4 DEF AccessInv, LossInv
  <2>. QED
    BY <2>4, <2>5, <2>6, WorldStep
<1>2. ASSUME NEW i \in Id, Onboard(i) PROVE AccessInv'
  <2>1. PICK scopes \in Granting : scopesOf' = [scopesOf EXCEPT ![i] = scopes]
    BY <1>2 DEF Onboard
  <2>2. UNCHANGED <<indexed, lost, cache, reader, now>> /\ named' = i
    BY <1>2 DEF Onboard
  <2>3. AccessTypeOK' /\ LossInv'
    BY <1>0, <2>1, <2>2 DEF AccessInv, AccessTypeOK, LossInv, Exists
  <2>. QED
    BY <2>2, <2>3, WorldStep
<1>3. CASE SyncSearch
  <2>1. UNCHANGED <<scopesOf, named, lost, cache, reader, now>> /\ indexed' \in SUBSET Id
    BY <1>3 DEF SyncSearch
  <2>2. AccessTypeOK' /\ LossInv'
    BY <2>1 DEF AccessInv, AccessTypeOK, LossInv, Exists
  <2>. QED
    BY <2>1, <2>2, WorldStep
<1>4. CASE AccessTick
  <2>1. /\ UNCHANGED <<scopesOf, named, indexed, lost, cache, reader>>
        /\ now' \in 0..EndTime /\ now' >= now
    BY <1>0, <1>4 DEF AccessTick
  <2>2. AccessTypeOK' /\ LossInv'
    BY <1>0, <2>1 DEF AccessInv, AccessTypeOK, LossInv, Exists
  <2>. QED
    BY <2>1, <2>2, WorldStep
<1>5. CASE UNCHANGED accessVars
  BY <1>5, WorldStep DEF accessVars, AccessInv, AccessTypeOK, LossInv, Exists
<1>. QED
  BY <1>1, <1>2, <1>3, <1>4, <1>5, AuthorizeStep, ListGrantedStep, RememberStep, ReadStep
     DEF AccessNext

(* A grant that is remembered was true when it was queried, and a request   *)
(* answers from such a grant alone.                                        *)
THEOREM AccessInvariant == AccessSpec => []AccessInv
<1>. QED
  BY InitAccessInv, AccessInvKept, PTL DEF AccessSpec

(* Grants, requests and the index are what the handlers can hold.          *)
THEOREM AccessTypeCorrect == AccessSpec => []AccessTypeOK
<1>1. AccessInv => AccessTypeOK
  BY DEF AccessInv
<1>. QED
  BY <1>1, AccessInvariant, PTL

(* Nobody is answered anything of a repository their scopes did not open   *)
(* within the cache's time to live before the request (authorize, List).   *)
THEOREM AnswersWereReadable == AccessSpec => []AnsweredWasReadable
<1>1. AccessInv => AnsweredWasReadable
  <2>. SUFFICES ASSUME AccessInv, NEW r \in Reader, NEW i \in reader[r].served
                PROVE  \E t \in LastReadable(i, reader[r].scopes) : t >= reader[r].since - TTL
    BY DEF AnsweredWasReadable
  <2>1. i \in Id /\ ReadableSince(i, reader[r].scopes, reader[r].since - TTL)
    BY DEF AccessInv, AccessTypeOK, ReadType, RequestTrue
  <2>2. now >= reader[r].since - TTL
    BY ConstantFacts DEF AccessInv, AccessTypeOK, ReadType, RequestTrue
  <2>. QED
    BY <2>1, <2>2 DEF ReadableSince, LastReadable, Granted
<1>. QED
  BY <1>1, AccessInvariant, PTL

-----------------------------------------------------------------------------
(***************************************************************************)
(* The tokens believed: TrustedKeys.                                       *)
(***************************************************************************)
(***************************************************************************)
(* The inductive invariant.  A key that a process does not hold, although  *)
(* it was published, was published after the process last refreshed; a     *)
(* process that never did, or whose last fetch failed, promises nothing.   *)
(***************************************************************************)
TimesInv ==
    /\ \A k \in Key : since[k] \in LongAgo..clock
    /\ \A p \in Process : refreshed[p] \in LongAgo..clock

HeldInv ==
    \A p \in Process, k \in published :
      p \notin missed /\ k \notin keys[p] => since[k] >= refreshed[p]

VerdictInv == verdict.answer = "unknown" => keys[verdict.process] # {}

KeysInv == KeysTypeOK /\ TimesInv /\ HeldInv /\ VerdictInv /\ PublishedKeyKnown

(* What a process holds, and has missed, after a fetch that may fail. *)
LEMMA RefreshFacts ==
    ASSUME KeysTypeOK, NEW p \in Process, RefreshKeys(p)
    PROVE  /\ keys' \in [Process -> SUBSET Key]
           /\ missed' \in SUBSET Process
           /\ sharedSet' \in [set : SUBSET Key, expires : Nat]
           /\ \A q \in Process : q # p => keys'[q] = keys[q] /\ (q \in missed' <=> q \in missed)
           /\ p \notin missed' => keys'[p] = published
           /\ p \in missed' => keys'[p] = keys[p]
<1>1. /\ published \in SUBSET Key /\ clock \in Nat /\ missed \in SUBSET Process
      /\ keys \in [Process -> SUBSET Key]
      /\ sharedSet \in [set : SUBSET Key, expires : Nat]
  BY KeysAssumption DEF KeysTypeOK
<1>2. [set |-> published, expires |-> clock + KeysTTL] \in [set : SUBSET Key, expires : Nat]
  BY <1>1, KeysAssumption
<1>3. CASE /\ keys' = [keys EXCEPT ![p] = published]
           /\ sharedSet' \in {sharedSet, [set |-> published, expires |-> clock + KeysTTL]}
           /\ missed' = missed \ {p}
  BY <1>1, <1>2, <1>3
<1>4. CASE missed' = missed \cup {p} /\ UNCHANGED <<keys, sharedSet>>
  BY <1>1, <1>4
<1>. QED
  BY <1>3, <1>4 DEF RefreshKeys

LEMMA InitKeysInv == KeysInit => KeysInv
<1>. SUFFICES ASSUME KeysInit PROVE KeysInv
  OBVIOUS
<1>1. LongAgo \in Int /\ LongAgo <= 0
  BY KeysAssumption DEF LongAgo
<1>2. verdict \in [process : Process, key : Key, answer : Verdicts] /\ verdict.answer = "none"
  BY DEF KeysInit, Verdicts
<1>3. KeysTypeOK
  BY <1>1, <1>2, KeysAssumption DEF KeysInit, KeysTypeOK
<1>4. TimesInv /\ HeldInv
  BY <1>1, <1>3 DEF KeysInit, KeysTypeOK, TimesInv, HeldInv
<1>. QED
  BY <1>2, <1>3, <1>4 DEF KeysInv, VerdictInv, PublishedKeyKnown

(* The steps at a process: who it is asked of, and what was read of it. *)
LEMMA LoadStep ==
    ASSUME KeysInv, NEW p \in Process, NEW k \in Key, Load(p, k)
    PROVE  KeysInv'
<1>. USE DEF KeysInv
<1>1. /\ keys[p] = {} /\ UNCHANGED <<published, since, clock, refreshed>>
      /\ keys' \in [Process -> SUBSET Key] /\ missed' \in SUBSET Process
      /\ sharedSet' \in [set : SUBSET Key, expires : Nat]
      /\ \A q \in Process : q # p => keys'[q] = keys[q] /\ (q \in missed' <=> q \in missed)
  <2>1. CASE Cached # {}
    <3>1. Cached \in SUBSET Key
      BY DEF Cached, KeysTypeOK
    <3>. QED
      BY <2>1, <3>1 DEF Load, LoadKeys, KeysTypeOK
  <2>2. CASE Cached = {}
    BY <2>2, RefreshFacts DEF Load, LoadKeys
  <2>. QED
    BY <2>1, <2>2
<1>2. \/ verdict' = [process |-> p, key |-> k, answer |-> "failed"]
      \/ UNCHANGED verdict
  BY DEF Load, Verified
<1>3. refreshed[p] = LongAgo
  BY <1>1 DEF KeysTypeOK
<1>4. KeysTypeOK'
  BY <1>1, <1>2, <1>3 DEF KeysTypeOK, Verdicts
<1>5. TimesInv'
  BY <1>1 DEF TimesInv
<1>6. HeldInv'
  BY <1>1, <1>3 DEF HeldInv, TimesInv, KeysTypeOK
<1>7. (VerdictInv /\ PublishedKeyKnown)'
  <2>1. CASE verdict' = [process |-> p, key |-> k, answer |-> "failed"]
    BY <2>1 DEF VerdictInv, PublishedKeyKnown
  <2>2. CASE UNCHANGED verdict
    BY <1>1, <2>2 DEF VerdictInv, PublishedKeyKnown, KeysTypeOK
  <2>. QED
    BY <1>2, <2>1, <2>2
<1>. QED
  BY <1>4, <1>5, <1>6, <1>7

(* Within the interval a token is refused by the set of the last refresh;  *)
(* after it, by what the issuer publishes now.                             *)
LEMMA FindUnknownStep ==
    ASSUME KeysInv, NEW p \in Process, NEW k \in Key, FindUnknown(p, k)
    PROVE  KeysInv'
<1>. USE DEF KeysInv
<1>. /\ keys[p] # {} /\ k \notin keys[p] /\ UNCHANGED <<published, since, clock>>
     /\ clock \in Nat /\ LongAgo \in Int /\ LongAgo <= 0 /\ published \in SUBSET Key
     /\ published # {} /\ Interval \in Nat
  BY KeysAssumption DEF FindUnknown, KeysTypeOK, LongAgo
<1>1. CASE clock - refreshed[p] >= Interval
  <2>1. /\ refreshed' = [refreshed EXCEPT ![p] = clock] /\ RefreshKeys(p)
        /\ verdict' = [process |-> p, key |-> k,
                       answer |-> IF p \in missed' THEN "failed"
                                  ELSE IF k \in keys'[p] THEN "ok" ELSE "unknown"]
    BY <1>1 DEF FindUnknown, Verified
  <2>2. /\ keys' \in [Process -> SUBSET Key] /\ missed' \in SUBSET Process
        /\ sharedSet' \in [set : SUBSET Key, expires : Nat]
        /\ \A q \in Process : q # p => keys'[q] = keys[q] /\ (q \in missed' <=> q \in missed)
        /\ p \notin missed' => keys'[p] = published
        /\ p \in missed' => keys'[p] = keys[p]
    BY <2>1, RefreshFacts
  <2>3. refreshed' \in [Process -> Int] /\ refreshed'[p] = clock
        /\ \A q \in Process : q # p => refreshed'[q] = refreshed[q]
    BY <2>1 DEF KeysTypeOK
  <2>4. verdict' \in [process : Process, key : Key, answer : Verdicts]
    BY <2>1 DEF Verdicts
  <2>5. KeysTypeOK'
    BY <2>2, <2>3, <2>4 DEF KeysTypeOK
  <2>6. TimesInv'
    BY <2>3 DEF TimesInv
  <2>7. HeldInv'
    BY <2>2, <2>3 DEF HeldInv
  <2>8. (VerdictInv /\ PublishedKeyKnown)'
    BY <2>1, <2>2 DEF VerdictInv, PublishedKeyKnown
  <2>. QED
    BY <2>5, <2>6, <2>7, <2>8
<1>2. CASE ~(clock - refreshed[p] >= Interval)
  <2>1. /\ UNCHANGED <<sharedSet, keys, refreshed, missed>>
        /\ verdict' = [process |-> p, key |-> k, answer |-> "unknown"]
    BY <1>2 DEF FindUnknown, Verified
  <2>2. KeysTypeOK' /\ TimesInv' /\ HeldInv' /\ VerdictInv'
    BY <2>1 DEF KeysTypeOK, TimesInv, HeldInv, VerdictInv, Verdicts
  <2>3. PublishedKeyKnown'
    <3>1. SUFFICES ASSUME k \in published, p \notin missed
                   PROVE  clock - since[k] < Interval
      BY <2>1 DEF PublishedKeyKnown
    <3>2. since[k] >= refreshed[p] /\ since[k] \in Int /\ refreshed[p] \in Int
      BY <3>1 DEF HeldInv, KeysTypeOK
    <3>. QED
      BY <1>2, <3>2
  <2>. QED
    BY <2>2, <2>3
<1>. QED
  BY <1>1, <1>2

LEMMA KeysInvKept == KeysInv /\ [KeysNext]_keyVars => KeysInv'
<1>. SUFFICES ASSUME KeysInv, [KeysNext]_keyVars PROVE KeysInv'
  OBVIOUS
<1>. /\ clock \in Nat /\ LongAgo \in Int /\ LongAgo <= 0 /\ Interval \in Nat \ {0}
     /\ KeysEnd \in Nat
  BY KeysAssumption DEF KeysInv, KeysTypeOK, LongAgo
<1>1. ASSUME NEW p \in Process, NEW k \in Key, Load(p, k) PROVE KeysInv'
  BY <1>1, LoadStep
<1>2. ASSUME NEW p \in Process, NEW k \in Key, Find(p, k) PROVE KeysInv'
  <2>1. verdict' = [process |-> p, key |-> k, answer |-> "ok"]
    BY <1>2 DEF Find, Verified
  <2>. QED
    BY <1>2, <2>1 DEF Find, KeysInv, KeysTypeOK, TimesInv, HeldInv, VerdictInv,
                      PublishedKeyKnown, Verdicts
<1>3. ASSUME NEW p \in Process, NEW k \in Key, FindUnknown(p, k) PROVE KeysInv'
  BY <1>3, FindUnknownStep
<1>4. ASSUME NEW set \in SUBSET Key, set # {}, Publish(set) PROVE KeysInv'
  <2>. USE <1>4 DEF KeysInv
  <2>1. /\ published' = set /\ UNCHANGED <<sharedSet, keys, refreshed, missed, verdict, clock>>
        /\ since' = [k \in Key |-> IF k \in set \ published THEN clock ELSE since[k]]
    BY DEF Publish
  <2>2. /\ since' \in [Key -> Int]
        /\ \A k \in Key : since'[k] = IF k \in set \ published THEN clock ELSE since[k]
    BY <2>1 DEF KeysTypeOK
  <2>3. KeysTypeOK'
    BY <2>1, <2>2 DEF KeysTypeOK
  <2>4. TimesInv'
    BY <2>1, <2>2 DEF TimesInv
  <2>5. HeldInv'
    BY <2>1, <2>2 DEF HeldInv, TimesInv
  <2>6. VerdictInv' /\ PublishedKeyKnown'
    BY <2>1, <2>2 DEF VerdictInv, PublishedKeyKnown, KeysTypeOK
  <2>. QED
    BY <2>3, <2>4, <2>5, <2>6
<1>5. ASSUME NEW p \in Process, RestartProcess(p) PROVE KeysInv'
  <2>. USE <1>5 DEF KeysInv
  <2>1. /\ UNCHANGED <<published, since, sharedSet, clock>>
        /\ keys' \in [Process -> SUBSET Key] /\ refreshed' \in [Process -> Int]
        /\ keys'[p] = {} /\ refreshed'[p] = LongAgo /\ missed' \in SUBSET Process
        /\ \A q \in Process : q # p => /\ keys'[q] = keys[q] /\ refreshed'[q] = refreshed[q]
                                       /\ (q \in missed' <=> q \in missed)
    BY DEF RestartProcess, KeysTypeOK
  <2>2. /\ verdict' \in [process : Process, key : Key, answer : Verdicts]
        /\ verdict'.answer = "none"
    BY DEF RestartProcess, KeysTypeOK, Verdicts
  <2>3. KeysTypeOK'
    BY <2>1, <2>2 DEF KeysTypeOK
  <2>4. TimesInv' /\ HeldInv'
    BY <2>1 DEF TimesInv, HeldInv, KeysTypeOK
  <2>. QED
    BY <2>2, <2>3, <2>4 DEF VerdictInv, PublishedKeyKnown
<1>6. CASE KeysTick
  <2>. USE <1>6 DEF KeysInv
  <2>1. /\ verdict' \in [process : Process, key : Key, answer : Verdicts]
        /\ verdict'.answer = "none"
    BY DEF KeysTick, KeysTypeOK, Verdicts
  <2>2. clock' = clock + 1 /\ clock' \in 0..KeysEnd
        /\ UNCHANGED <<published, since, sharedSet, keys, refreshed, missed>>
    BY DEF KeysTick, KeysTypeOK
  <2>3. KeysTypeOK'
    BY <2>1, <2>2 DEF KeysTypeOK
  <2>4. TimesInv' /\ HeldInv'
    BY <2>2 DEF TimesInv, HeldInv
  <2>. QED
    BY <2>1, <2>3, <2>4 DEF VerdictInv, PublishedKeyKnown
<1>7. CASE UNCHANGED keyVars
  BY <1>7 DEF keyVars, KeysInv, KeysTypeOK, TimesInv, HeldInv, VerdictInv, PublishedKeyKnown
<1>. QED
  BY <1>1, <1>2, <1>3, <1>4, <1>5, <1>6, <1>7 DEF KeysNext

(* A process that lacks a published key last refreshed before the key was  *)
(* published, or could not reach the issuer.                               *)
THEOREM KeysInvariant == KeysSpec => []KeysInv
<1>. QED
  BY InitKeysInv, KeysInvKept, PTL DEF KeysSpec

(* The clock's readings and the sets of keys are what a process can hold.  *)
THEOREM KeysTypeCorrect == KeysSpec => []KeysTypeOK
<1>1. KeysInv => KeysTypeOK
  BY DEF KeysInv
<1>. QED
  BY <1>1, KeysInvariant, PTL

(* A key the issuer has published for an interval is known to every        *)
(* process that can reach the issuer (Keys.Verify, refresh).               *)
THEOREM PublishedKeysAreKnown == KeysSpec => []PublishedKeyKnown
<1>1. KeysInv => PublishedKeyKnown
  BY DEF KeysInv
<1>. QED
  BY <1>1, KeysInvariant, PTL

=============================================================================
