------------------------------- MODULE Access -------------------------------
(***************************************************************************)
(* What a reader of docz-api gets to see: the authorizer's cache of the    *)
(* repositories a principal may read (internal/authorize), and the reads   *)
(* of the HTTP API and the MCP tools behind it, a sequence of queries      *)
(* each, while ingests change a repository's scopes, remove it and onboard *)
(* it again under its old name.                                            *)
(***************************************************************************)
EXTENDS Integers, Sequences, FiniteSets

CONSTANTS
    Reader,      \* requests at a time
    Principal,   \* cache keys: a person by cookie or by token, a machine
    Id,          \* ids, of repositories that in turn bear the one name read
    NoId,
    Scope,     \* access scopes
    Granting,    \* bound: the sets of scopes a repository may ask for
    Holding,     \* bound: the sets of scopes a request may come with
    TTL,         \* AUTHZ_CACHE_TTL, in ticks
    EndTime      \* bound: the last tick looked at

ASSUME AccessAssumption ==
    /\ NoId \notin Id
    /\ Granting \subseteq (SUBSET Scope) \ {{}} /\ Holding \subseteq SUBSET Scope
    /\ TTL \in Nat \ {0} /\ EndTime \in Nat

VARIABLES
    scopesOf,  \* scopesOf[i]: access_scopes of row i; {} when there is no row
    named,     \* the row the name leads to, or NoId
    indexed,   \* ids whose documents are in the search index
    lost,      \* history: lost[i][s]: when i last ceased to be readable with s
    cache,     \* cache[p]: the remembered grant, or NoGrant
    reader,    \* reader[r]: the request's position and what it holds
    now

accessVars == <<scopesOf, named, indexed, lost, cache, reader, now>>

Never == -(2 * EndTime + TTL + 1)

NoGrant == [ids |-> {}, scopes |-> {}, expires |-> 0, took |-> 0]

(* since: history, when the request began, less the time that the query    *)
(* behind its grant took to be remembered.                                 *)
NoRead == [stage |-> "idle", principal |-> NoId, scopes |-> {}, allowed |-> {},
           queried |-> 0, since |-> 0, todo |-> <<>>, repo |-> NoId,
           served |-> {}]

AccessStages == {"idle", "list", "remember", "handle", "read"}
Queries == {"repo", "rows", "column", "document", "repos", "search"}

GrantType == [ids : SUBSET Id, scopes : SUBSET Scope,
              expires : 0..(EndTime + TTL), took : Int]
ReadType == [stage : AccessStages, principal : Principal \cup {NoId},
             scopes : SUBSET Scope, allowed : SUBSET Id, queried : 0..EndTime,
             since : Int, todo : Seq(Queries), repo : Id \cup {NoId},
             served : SUBSET Id]

Exists(i) == scopesOf[i] # {}

(* ListRepoIDsForScopes *)
Granted(scopes) == {i \in Id : scopesOf[i] \cap scopes # {}}

AccessTypeOK ==
    /\ scopesOf \in [Id -> SUBSET Scope]
    /\ named \in Id \cup {NoId} /\ (named # NoId => Exists(named))
    /\ indexed \in SUBSET Id
    /\ lost \in [Id -> [Scope -> {Never} \cup 0..EndTime]]
    /\ cache \in [Principal -> GrantType]
    /\ reader \in [Reader -> ReadType]
    /\ now \in 0..EndTime

AccessInit ==
    /\ scopesOf \in [Id -> Granting \cup {{}}]
    /\ named \in {i \in Id : Exists(i)} \cup {NoId}
    /\ \A i \in Id : Exists(i) => i = named
    /\ indexed = {i \in Id : Exists(i)}
    /\ lost = [i \in Id |-> [s \in Scope |-> Never]]
    /\ cache = [p \in Principal |-> NoGrant]
    /\ reader = [r \in Reader |-> NoRead]
    /\ now = 0

-----------------------------------------------------------------------------
(* The handlers: the queries each makes after the gate, in order.  "repo"  *)
(* is resolveRepo; "document" a row that may be missing; the others return *)
(* what there is for the id resolved before them.                          *)
GetRepo == <<"repo", "rows">>
GetRepoIndex == <<"repo", "column">>
GetRepoChangelog == <<"repo", "column">>
ListRepoPages == <<"repo", "rows">>
GetRepoPage == <<"repo", "document">>
ListTypes == <<"repo", "rows">>
ListDocs == <<"repo", "document", "rows">>
GetDoc == <<"repo", "document", "document">>
GetDocHTML == <<"repo", "document", "document", "rows", "rows">>
GetRepoConfluence == <<"repo", "rows", "rows">>
ToolListDocs == <<"repo", "rows", "rows">>
ToolDocument == <<"repo", "document", "document">>
ToolGetPage == <<"repo", "column">>
ListRepos == <<"repos">>
ToolListRepos == <<"repos">>
SearchDocs == <<"search">>
ToolSearchDocs == <<"search">>

Handlers ==
    {GetRepo, GetRepoIndex, GetRepoChangelog, ListRepoPages, GetRepoPage,
     ListTypes, ListDocs, GetDoc, GetDocHTML, GetRepoConfluence, ToolListDocs,
     ToolDocument, ToolGetPage, ListRepos, ToolListRepos, SearchDocs,
     ToolSearchDocs}

At(r, stage) == reader[r].stage = stage

Stop(r) == reader' = [reader EXCEPT ![r] = NoRead]

(* A mutant of Hit: the principal alone decides. *)
HitAnyScopes(p, scopes) == now < cache[p].expires

(* A mutant of Hit: an entry is good until it is replaced. *)
HitStale(p, scopes) == cache[p].expires > 0 /\ cache[p].scopes = scopes

(* lookup: a grant that is fresh and was computed for the same scopes, or  *)
(* the entry is dropped.                                                   *)
Hit(p, scopes) == now < cache[p].expires /\ cache[p].scopes = scopes

(* Allowed, for a session with the given scopes: none at all reads nothing. *)
Authorize(r, p, scopes) ==
    /\ At(r, "idle")
    /\ LET begun == [NoRead EXCEPT !.principal = p, !.scopes = scopes,
                                   !.since = now, !.stage = "handle"] IN
       IF scopes = {}
       THEN /\ reader' = [reader EXCEPT ![r] = begun]
            /\ UNCHANGED cache
       ELSE IF Hit(p, scopes)
       THEN /\ reader' = [reader EXCEPT ![r] =
                            [begun EXCEPT !.allowed = cache[p].ids,
                                          !.since = now - cache[p].took]]
            /\ UNCHANGED cache
       ELSE /\ reader' = [reader EXCEPT ![r] = [begun EXCEPT !.stage = "list"]]
            /\ cache' = [cache EXCEPT ![p] = NoGrant]
    /\ UNCHANGED <<scopesOf, named, indexed, lost, now>>

ListGranted(r) ==
    /\ At(r, "list")
    /\ reader' = [reader EXCEPT ![r].stage = "remember",
                                ![r].allowed = Granted(reader[r].scopes),
                                ![r].queried = now]
    /\ UNCHANGED <<scopesOf, named, indexed, lost, cache, now>>

(* The time to live begins when the answer is remembered, not when it was  *)
(* true.                                                                   *)
Remember(r) ==
    /\ At(r, "remember")
    /\ LET q == reader[r] IN
       /\ cache' = [cache EXCEPT ![q.principal] =
                      [ids |-> q.allowed, scopes |-> q.scopes,
                       expires |-> now + TTL, took |-> now - q.queried]]
       /\ reader' = [reader EXCEPT ![r].stage = "handle",
                                   ![r].queried = 0,
                                   ![r].since = @ - (now - q.queried)]
    /\ UNCHANGED <<scopesOf, named, indexed, lost, now>>

(* Middleware: the grant is put in the context of the handler routed to. *)
Handle(r, handler) ==
    /\ At(r, "handle")
    /\ reader' = [reader EXCEPT ![r].stage = "read", ![r].todo = handler]
    /\ UNCHANGED <<scopesOf, named, indexed, lost, cache, now>>

(* A query fails, or the client goes away: nothing is answered. *)
ReadFails(r) ==
    /\ ~At(r, "idle")
    /\ Stop(r)
    /\ UNCHANGED <<scopesOf, named, indexed, lost, cache, now>>

Asks(r, query) ==
    At(r, "read") /\ reader[r].todo # <<>> /\ Head(reader[r].todo) = query

Advance(r, q) == reader' = [reader EXCEPT ![r] = [q EXCEPT !.todo = Tail(@)]]

(* A mutant of ResolveRepo: what the name leads to is read. *)
ResolveUnchecked(r) ==
    /\ Asks(r, "repo")
    /\ IF named # NoId
       THEN Advance(r, [reader[r] EXCEPT !.repo = named, !.served = {named},
                                         !.allowed = {}])
       ELSE Stop(r)
    /\ UNCHANGED <<scopesOf, named, indexed, lost, cache, now>>

(* resolveRepo: one that may not be read is answered as one unknown. *)
ResolveRepo(r) ==
    /\ Asks(r, "repo")
    /\ IF named # NoId /\ named \in reader[r].allowed
       THEN Advance(r, [reader[r] EXCEPT !.repo = named, !.served = {named},
                                         !.allowed = {}])
       ELSE Stop(r)
    /\ UNCHANGED <<scopesOf, named, indexed, lost, cache, now>>

(* A query by the id resolved: a row that may be missing ends the request, *)
(* and is missing once the repository is gone; a list may be empty; a      *)
(* column of the row read before is there or not.                          *)
QueryById(r) ==
    /\ \/ Asks(r, "rows") /\ Advance(r, reader[r])
       \/ Asks(r, "column") /\ (Advance(r, reader[r]) \/ Stop(r))
       \/ Asks(r, "document")
            /\ \/ Exists(reader[r].repo) /\ Advance(r, reader[r])
               \/ Stop(r)
    /\ UNCHANGED <<scopesOf, named, indexed, lost, cache, now>>

FilterRepos(r) ==
    /\ Asks(r, "repos")
    /\ Advance(r, [reader[r] EXCEPT !.served =
                     {i \in Id : Exists(i)} \cap reader[r].allowed,
                                    !.allowed = {}])
    /\ UNCHANGED <<scopesOf, named, indexed, lost, cache, now>>

(* A mutant of FilteredHits: no clause for a grant of nothing. *)
HitsOfSome(allowed) == IF allowed = {} THEN indexed ELSE indexed \cap allowed

(* buildFilter: a grant of nothing is a clause nothing matches. *)
FilteredHits(allowed) == indexed \cap allowed

SearchIndex(r) ==
    /\ Asks(r, "search")
    /\ Advance(r, [reader[r] EXCEPT !.served = FilteredHits(reader[r].allowed),
                                    !.allowed = {}])
    /\ UNCHANGED <<scopesOf, named, indexed, lost, cache, now>>

Answer(r) ==
    /\ At(r, "read") /\ reader[r].todo = <<>>
    /\ Stop(r)
    /\ UNCHANGED <<scopesOf, named, indexed, lost, cache, now>>

-----------------------------------------------------------------------------
(* An ingest commits other scopes, or a removal deletes the row (none); the *)
(* index follows later.                                                    *)
Rescope(i, scopes) ==
    /\ Exists(i) /\ scopes # scopesOf[i]
    /\ scopesOf' = [scopesOf EXCEPT ![i] = scopes]
    /\ named' = IF scopes = {} THEN NoId ELSE named
    /\ lost' = [lost EXCEPT ![i] =
         [s \in Scope |-> IF s \in scopesOf[i] \ scopes THEN now ELSE lost[i][s]]]
    /\ UNCHANGED <<indexed, cache, reader, now>>

(* The name is onboarded again: a row with an id never used before. *)
Onboard(i) ==
    /\ named = NoId /\ ~Exists(i) /\ \A s \in Scope : lost[i][s] = Never
    /\ \A r \in Reader : reader[r].repo # i
    /\ \E scopes \in Granting :
         scopesOf' = [scopesOf EXCEPT ![i] = scopes]
    /\ named' = i
    /\ UNCHANGED <<indexed, lost, cache, reader, now>>

SyncSearch ==
    /\ indexed # {i \in Id : Exists(i)}
    /\ indexed' = {i \in Id : Exists(i)}
    /\ UNCHANGED <<scopesOf, named, lost, cache, reader, now>>

AccessTick ==
    /\ now < EndTime
    /\ now' = now + 1
    /\ UNCHANGED <<scopesOf, named, indexed, lost, cache, reader>>

AccessNext ==
    \/ \E r \in Reader :
         \/ \E p \in Principal, scopes \in Holding : Authorize(r, p, scopes)
         \/ \E h \in Handlers : Handle(r, h)
         \/ ListGranted(r) \/ Remember(r) \/ ReadFails(r)
         \/ ResolveRepo(r) \/ QueryById(r) \/ FilterRepos(r) \/ SearchIndex(r)
         \/ Answer(r)
    \/ \E i \in Id, scopes \in Granting \cup {{}} : Rescope(i, scopes)
    \/ \E i \in Id : Onboard(i)
    \/ SyncSearch
    \/ AccessTick

AccessSpec == AccessInit /\ [][AccessNext]_accessVars

-----------------------------------------------------------------------------
LastReadable(i, scopes) ==
    IF i \in Granted(scopes) THEN {now} ELSE {lost[i][s] : s \in scopes}

(* Nobody is answered anything of a repository that their scopes, and not  *)
(* another's of the same principal, did not open within the cache's time   *)
(* to live before the request (longer only by what the query itself took), *)
(* also not when it was removed, onboarded anew or is still indexed.       *)
AnsweredWasReadable ==
    \A r \in Reader : \A i \in reader[r].served :
      \E t \in LastReadable(i, reader[r].scopes) :
        t >= reader[r].since - TTL

=============================================================================
