# docz: a TLA+ development

docz keeps a repository's design documents in order (a CLI and its library), registers
the documents of many repositories and serves them (docz-api), publishes them to
Confluence (both) and takes a person's review of them (docz-review).  This directory
holds TLA+ models of it, the TLC runs that check them on small instances, and proofs,
checked by TLAPS, of what matters most about them for every instance.  Two kinds of
module are here: those in which steps of several actors meet (queue, webhooks, ingest,
exports, pages, authorization, grants, reviews, the files of a repository), and those
that define what docz computes from a configuration or a document and relate the results
of one computation to those of another.

`PROJECT.json` is the index: components, runs, mutants, the source lines each
definition stands for, hazards and theorems.

    tlc -workers 2 -config MCIngestQueue.cfg MCIngestQueue     # a run
    tlapm IngestQueueProofs.tla                                # a proof

## The system

### Components, their state and their operations

| component | state | operations | what makes it correct |
|---|---|---|---|
| Job queue (`internal/queue`) | one asynq task per repository and kind, in Redis, under a task id that is the repository | `EnqueueIngest`, `EnqueueExport`: enqueue; on a conflict inspect, delete a finished task, enqueue again. The worker takes, retries, archives, requeues | no trigger is lost though it is coalesced; the newest HEAD wins |
| Webhooks (`internal/webhook`) | `webhook_deliveries` | verify, record the delivery id, route: push, installation, installation_repositories | once per delivery; an uninstall is final; contrary events do not leave ghosts |
| Ingest (`internal/ingest`) | none of its own | fetch HEAD, classify, `ReconcileRepo`, sync the index, enqueue the export | idempotent, latest HEAD wins, rows and index agree; what is served is what the configuration publishes |
| Store (`internal/store`) | installations, repos, documents, pages, confluence rows, users, refresh tokens, in Postgres | one transaction per reconcile; cascade from installation to repo to documents; one statement per rotation or revocation | rows serve HEAD and nothing else |
| Search (`internal/search`) | documents in Meilisearch | upsert, delete by id, delete by repository | follows the rows |
| Export service (`internal/export`) | the repository's sync row and recorded page ids | `Run`: load a snapshot, refuse or export, record, go round again while the head moved | every committed head is exported or reported; the status is true |
| Confluence reconciler (`pkg/export/confluence`) | pages and content properties in Confluence | plan; find, create, decide, update, stamp, archive | people's pages and edits are safe; the tree mirrors the repository; nothing is written twice |
| Confluence client (`httpclient.go`) | the cloud id, resolved once in a process; a request's retries | resolve, send, wait, send again | a request is applied once; no caller waits for ever |
| Authorization server (`internal/oauth`) | one-use requests and codes in Redis; families of refresh tokens in Postgres | authorize, consent, redeem, refresh, revoke | a code or a token is used once; reuse ends the family; scopes never widen |
| Outside issuers (`oauth/verify.go`) | a key set per process and one in the shared cache | load, refresh on an unknown key | a published key is soon known everywhere |
| Sessions, login (`internal/session`, `authhttp`) | sessions in Redis, login state in a signed cookie | log in, look up | a request reads one value |
| Grants, HTTP API, MCP (`internal/authorize`, `httpapi`, `mcp`) | a cache of what a principal may read, with a time to live | read, each read a sequence of queries | nobody is answered what their scopes did not open |
| GitHub client (`internal/githubapp`) | tokens | resolve HEAD, fetch a tarball | one snapshot of one commit, with every file the ingest publishes |
| Process (`cmd/docz-api`) | none | start server and worker, check Confluence, `-onboard`, `-export` | they stop together |
| Configuration (`pkg/doczcore/config`) | two files | merge, normalise, validate; resolve a type's name | one reading of it, wherever it is read |
| Document library (`pkg/doczcore`) | none | read lines, headings, markers; infer regions; read each kind; validate; number tasks and steps | what one reader says the others say; a writer's output reads as its input did |
| CLI (`cmd`, `docwrite`, `repo`, `index`, `toc`) | the files of a repository | create, update, status, check, init, validate, export | numbers are unique; edits keep the rest of the file |
| Review server (`ui/review`) | a session directory: state file, lease, round records | take, renew and lose the lease; arm; open and record a round | one server at a time; a reply means a record |
| Web UI, charts, plugins, rendering, templates | none | rendering, packaging | not a matter of steps |

### How they interact

GitHub delivers events to the webhook handlers, which write rows and enqueue ingests;
the handlers of several deliveries run at the same time.  The worker, in the same
process, runs an ingest: it fetches whatever HEAD is then, commits it in one
transaction, brings the search index in line outside the transaction, and enqueues an
export.  The worker runs the export, which reads one snapshot of the rows, writes
Confluence a request at a time through the process's one client, and records what it
did.  People edit Confluence, and the CLI exports into it as well.  The handlers, the
worker's runs and the offboarding share the rows, the index and the task without any lock
but Postgres's and Redis's own.  Readers come with tokens of the authorization server or
of an outside issuer; what they may read is computed from the repositories' scopes and
remembered for a time, while ingests change those scopes.  Apart from the service, the
commands of the CLI and the people who edit the same files share them without a lock, and
a review server shares its session's files with hooks, people and a second server.

### Which behaviours are hard

* *Coalescing.* A task id is the repository's, so a trigger may be dropped because
  another task is there; whether that is right depends on the task's state, which is
  read in one round trip and acted on in the next, and on what the running job read.
* *A source of truth and what follows it.* Rows, index and pages are written one after
  the other; a failure or a crash between two leaves them apart, and what is not
  recorded as missing is not made up for.
* *Order.* Deliveries are redelivered, duplicated and reordered.
* *People.* Between an export's read of a page and its write, somebody edits it; between
  a command's read of a file and its write, somebody saves it.
* *Identity.* A row, a page and a document each have several names (owner and name,
  row id, installation id; property key, title, recorded page id), and they are
  reassigned at different times.
* *One use.* Codes, requests, refresh tokens and rounds are taken by handlers that check
  first and write later, on several replicas.
* *Memory.* Grants, keys, the cloud id and a session's state are remembered while what
  they were computed from changes.
* *Two readers of one text.* A document is read by its markers and by its headings, a
  path by the loader, the fetcher and the classifier; a property is that they agree.

## Modules

| module | models | built from |
|---|---|---|
| `TaskQueue` | a task id in asynq and the client's protocol on it (`client.go`), with the worker's acknowledgement (`worker.go`) | |
| `IngestQueue` | ingests of one repository: triggers, pushes, the run | extends `TaskQueue` |
| `Freshness` | abstract: what Postgres holds moves forward to HEADs that existed, and promises made are kept | refined by `IngestQueue` |
| `RepoLifecycle` | one repository from installation to removal: GitHub, deliveries, handlers, rows, index, run | |
| `DocumentSync` | one repository's documents: files to ids, `ReconcileRepo`, `syncIndex` | |
| `ExportQueue` | exports of one repository: triggers after a commit, `Service.Run`, the sync row | extends `TaskQueue` |
| `PageExport` | one repository's pages in Confluence: `confluence.Export` against people and pushes | |
| `ConfluenceClient` | the process's client: the cloud id resolved once, retries, contexts, the startup check | |
| `OAuth` | consent, codes, refresh tokens: every call of every handler to the cache and the database | |
| `RefreshFamily` | abstract: a family of refresh tokens has one usable token, replaced at each use, until it ends | refined by `OAuth` |
| `Access` | the grant cache and the reads behind it, against ingests that rescope, remove and onboard | |
| `TrustedKeys` | the key set of an outside issuer in each process and in the shared cache | composed with `Access` in `MCAccess` |
| `ReviewSession` | docz-review: lease, arming, rounds, records, crashes, a second server | |
| `RepoFiles` | the files of one type and the commands that write them, two at a time, with a person and kills | |
| `ConfigTypes`, `ConfigPaths` | the configuration: merging, resolution of type names; paths, scopes, api and sync blocks | each extends the one before |
| `RepoPages` | from a tree at HEAD to the pages served: what is fetched, classified, routed | extends `ConfigPaths` |
| `ExportPlan` | the pages of an export: selection, titles, keys, parents, narrowing, links | extends `RepoPages` |
| `ConfigRules` | the above applied to one input at a time, with their properties | extends `ExportPlan` |
| `Markdown` | a document as a sequence of lines; fences, comments, headings, slugs, lists, tables, markers, regions | |
| `DocRegions` | regions inferred from headings, `--fix`, the contents table, the index | extends `Markdown` |
| `DocKinds` | the reader of every kind of region | extends `DocRegions` |
| `DocValidate` | `docz validate`: a document's and a repository's findings | extends `DocKinds` |
| `DocTypes` | RFC, ADR, design, investigation: Parse and Validate | extends `DocValidate` |
| `DocPlans`, `DocRunbook` | implementation plans with their tasks, runbooks with their steps | each extends the one before |
| `DocumentRules` | the above applied to one document at a time, with their properties | extends `DocRunbook` |
| `IngestQueueProofs`, `RepoLifecycleProofs`, `ExportQueueProofs`, `OAuthProofs`, `ReviewSessionProofs`, `RepoFilesProofs` | theorems | each extends the module it is about |
| `ServingProofs` | theorems about `DocumentSync`, `Access` and `TrustedKeys` | extends the three |
| `ConfluenceProofs` | theorems about `PageExport` and `ConfluenceClient` | extends the two |
| `MC*` | instances for TLC (`ConfluenceClient` is its own) | extend the module they instantiate |

### State and actions against the code

*TaskQueue.*  `task` is the asynq state of the id (none, pending, scheduled, retry,
active, completed, archived).  `call[t]` is where one call of `EnqueueIngest` or
`EnqueueExport` stands; each of its steps is one request to Redis, so others move
between them: `Enqueue` (the task's creation, or the conflict), `Inspect`
(`GetTaskInfo` and `classifyConflict`), `Clear` (`DeleteTask`), `ReEnqueue`; `Break` is a
call that stops at any of them.  `hit[t]` remembers what was found at the conflict, for
the properties only.  `Dequeue`, `Succeed`, `Fail`, `Requeue`, `Skip` are asynq's answers
to what the handler returned; `Forward` and `Expire` are asynq's own.  `Debounced` is the
ingest's delay (an ingest is scheduled, an export is pending at once), `Retention` whether
asynq keeps finished tasks, `RedisFails` whether requests fail.

*IngestQueue.*  `head` is HEAD, `synced` what Postgres holds, `fetched` what the run
holds, `stage` its step.  `Trigger` begins a call for the HEAD of its moment.

*RepoLifecycle.*  `gh` is GitHub's truth, `sent` its deliveries, `hdl[d][a]` the handler
of attempt `a` at delivery `d`: `Record` inserts the delivery id and routes, and then one
action per store it touches (`HandlePush`, `UpsertInstallation`, `EnqueueIngest`,
`OffboardRepo`, `ListRepoIDs`, `DeleteInstallation`, `PurgeIndex`); `FailHandler` is the
error path of each.  `inst` and `repo` are rows, with the foreign key, the cascade and the
id sequence that an upsert advances.  The run is `StartRun`, `Fetch`, `Commit`, `ReadRows`,
`IndexDocuments`, `FailRun`.  The queue is reduced to none, queued and active.

*DocumentSync.*  `tree` is HEAD's files, `rows` and `index` map document ids to records;
`NewRow` is what `ReconcileRepo` makes of a row, content-hash gate included; the sync is
`DeleteDocuments`, `GetDocumentsByIDs`, `IndexDocuments`; `Interrupt` is a failure or a
crash at any step, after which the change set is gone.

*ExportQueue.*  `row` is the repository's row (id, head, and what its configuration says
of exports), `job` the row id in the payload.  `LoadSnapshot`, `LoadGone` and `LoadAgain`
are `load` and the comparison of heads; `Refuse`, `StartWriting`, `WriteSome`, `WriteAll`,
`WriteBreaks`, `RecordSuccess`, `RecordFailure` are `once`, where every write of the sync
row may fail.  What is written to Confluence is one variable, `shown`.

*PageExport.*  `pages` are the space's pages with title, place (the repository's tree,
its archive, elsewhere), version, body and docz property; a body is a document's text under
a banner (`Rendered`), which the server words otherwise than the CLI.  A run goes through the folder,
then per document `FindPage`, `CreatePage` or `Decide`, `UpdatePage`, `Stamp`, then the
orphans (`ListChildren`, `CheckOrphan`, `ArchivePage`, `Restamp`), then `End`, where the
server records page ids.  Each of these is one or more requests with nothing between them
that others could see.  `FailItem` and `FailOrphan` are failing requests, `Interrupt` a
cancelled context, `Crash` a process that stops.  `Push`, `Edit`, `Move` and `WritePage`
come between any two.

*ConfluenceClient.*  `gate` is the `sync.Once` of `gateway` with the error it remembers;
`call[c]` is one call of an exporter or of the startup check: `EnterOnce`, `Send`, the
site's answer, `Sleep` after a 429; `ctx[c]` is its context, which may end at any moment.
`site` is up, down, limiting or rejecting, as it likes, `weather` times.

*OAuth.*  `pending`, `cached`, `memory` are the cache (requests, codes, what a redeemed
code began), `code` and `token` what was minted and the rows of `oauth_refresh_tokens`.
`req[r]` is a handler with what it has read: it is a sequence of calls, each atomic
(`GETDEL`, one SQL statement), and the handlers interleave between any two.  `Authorize`,
`GetAuthorization`, `Bind`, `DecideAuthorization`, `TakePending`, `MintCode` are the
consent; `RedeemCode`, `TakeCode`, `NewFamily`, `RememberRedeemed` a redemption;
`Refresh`, `RotateRefreshToken`, `Revoke`, `RevokeRefreshFamily` the rest.  `Fails` is an
error of any call, `Time` is every expiry, `Restart` a new process with a narrower scope
map.  `known` is what reached a client, which may send it any number of times.

*Access.*  `scopesOf`, `named` and `indexed` are the rows and the index, which ingests
change; `cache[p]` is the grant of `Authorizer`, `reader[r]` a request and the queries it
still has to make.  `now` is time, in units of the smallest difference that matters.
*TrustedKeys.*  `keys[p]` is a process's set, `sharedSet` the cached one, `published` the
issuer's.  The two share no variable and are checked side by side.

*ReviewSession.*  `entry[d]` is `state.json`, `record[d][n]` is `round-n.json`, `lease` is
`lease.json`; `run[v]`, `todo[v]`, `read[v]`, `page[v]` and `call[v]` are a server's
memory.  A step under the session's lock is one action; `Crash` may come between any two
writes, and with `Stalls` a holder may pause for longer than its lease.  A request waits
for docz at one place (`Submit` to `WriteRecord`) and may come back from there after the run
has ended; from the record to the state's change (`Busy`) and from `End` to `Release` the
server does nothing else, though hooks and crashes may come between.

*RepoFiles.*  `files` maps names to documents, `index` is the README; `run[p]` is a command
and its locals.  Each read and each half of a write (`Open` truncates, `Fill` writes) is an
action.  The histories say what each file should hold and which files changed under a
command that had read them.

*The rules modules.*  There the state is one `input` and the `output` of the operation its
kind names; all else is operators, one per function of the code.  A path is the sequence of
its segments, a document a sequence of lines, a line a record of what a reader can tell
apart, a heading's text a word of a small set, so that spelling is abstracted and the
control of the readers is not: fences, comments, levels, the order of rules, which of two
regions wins.  `MCConfigRules` and `MCDocumentRules` enumerate the inputs: documents are
all sequences of pieces up to a size, and every document that differs from a valid plan or
runbook by one line dropped or put in.

## Runs

Two workers finish each in about four minutes or less.

| run | question | instance |
|---|---|---|
| `ingest_queue` | is a claimed trigger ever lost; does the queue implement `Freshness`; is every claimed trigger answered in the end | three triggers, two HEADs, one retry, one cancelled run, under `Fairness` |
| `repo_lifecycle` | do deliveries act once, is an uninstall final, is a live row's index complete, does Postgres settle at HEAD | three events, each delivered twice, two commits, two values of docs_dir (symmetric), everything failing |
| `document_sync` | do rows serve HEAD, does the index follow, are retries idempotent | two places, two ids, one of them with two contents; any sequence of pushes, unbounded |
| `export_queue` | is an export ever lost, is the recorded status true, does an export that met a running one come | two triggers (symmetric), two heads, a removal and a re-onboarding, two runs per task, one retry, everything failing |
| `page_export` | are people's pages and edits safe, does a clean run mirror the repository, does the next one write nothing | two documents, the title of one of which may pass to the other; three runs in any of the three modes, two pushes, one act of people |
| `confluence_client` | is a request ever applied twice, does every call return | two exports and the startup check, one retry, two changes of the site, one restart, under `ClientFairness` |
| `oauth` | does a code begin one family, can a replay revoke it, do scopes stay, is a request decided once; do the rows implement `RefreshFamily` | two handlers, one request, one session, one code, three tokens, one scope beyond `public:read` |
| `access` | is anybody answered what their scopes did not open; is a published key known | one reader, two rows that take one name, two scopes, a time to live of one; beside it one process, two keys, an interval of two |
| `review_session` | does a reply mean a record, is there one server, one record to a round, one truth of a round | two documents, two servers, one round to a submission, two rounds, one edit of each file, crashes |
| `repo_files` | are numbers distinct, do changes survive, is the index true and the prose kept | two processes, two commands, two slugs, two statuses, three numbers, one edit, one kill |
| `config_rules` | is a configuration read alike everywhere; is what is served what is published; does a plan hold | 125 thousand inputs: two files over two types, up to three scopes, three declared types, trees of up to three of twelve files, four documents with every option |
| `document_rules` | does a document read alike by its markers and by its headings; do writers settle; do ids lead to their items; is nothing passed over | some eighty thousand documents of every type |

### What the properties say, and what they except

*NoTriggerLost* and *NoExportLost* except a client that stopped between clearing a task
and enqueuing the next (`CutOff`), which nothing in the code can mend, and a trigger that
found the task active, which `EnqueueIngest` documents; *NoExportLost* also triggers whose
task one of another row displaced (`strays`).  *LiveRowIndexed* excepts rows whose sync
failed (`lagged`) or that a reinstallation took over (`moved`), *UninstallIsFinal*
deliveries of contrary events handled out of order (`reordered`).  *SettlesAtHead* names the
deliveries it does not count (`Dismissed`, `reordered`, `gaveUp`).  *RerunCatchesUp* lists
every reason for which an export that met a running one is missed.  *NoSilentOverwrite*
excepts pages of which the archiving hid that they had been written after their property,
by a person or by a run that stopped, and that were not written since (`masked`, with the
property's version the page's); *CleanRunMirrors* asks of such pages the title and the
place only.  *CleanRunMirrors* and *SecondRunQuiet* except recorded ids that two documents
at HEAD share (`Entangled`), and assume titles that differ (`Distinct`).  *SecondRunQuiet*
is about runs of the server after one of the server, or of the CLI, forced or not, after one
of the CLI, since the two word the banner differently.  *ReplayCanRevoke* excepts codes whose memory a failure,
an expiry or a restart lost (`forgotten`), *DecidedOnce* requests that a session bound
after their decision (`rebound`).  *AnsweredWasReadable* allows what was readable within
the cache's time to live before the request.  *NumbersDistinct* and *ChangesKept* except
two creations at a time (`collided`), files a person deleted under a command
(`vanished`), and files that changed under a command that had read them (`exposed`): no
command locks anything, and these are the exact cases in which that shows.

The properties of the rules modules are conjunctions, each part with a comment of its own:

* *ConfigurationsAgree*: a repository's file wins over the global one, field by field
  (`LoadPrecedence`); the ingest reads what the CLI reads (`IngestReadsTheSame`); scopes
  normalise to a fixed point (`ScopesSettle`); a token resolves to one type
  (`TokensResolve`).
* *PagesAreServed*: one page per path, withheld files stay out, what is published was
  fetched, docs_dir's segments are consumed, routes differ, and links of the site lead to
  pages.
* *PlansHold*: a narrowed run writes a part of the full one, with the same keys, titles and
  parents; parents come first; what is excluded stays out; links lead to pages of the plan
  or to the source.
* *MarkersKeepReading*: the markers `--fix` writes hold the lines the regions were inferred
  over (`MarkedAsInferred`); inferred regions nest; a document made from a template migrates
  to the template's regions; a document parses to the same and has the same findings before
  and after `--fix`.
* *WritersSettle*: a second `--fix` changes nothing; the contents table is stale exactly
  when an update would change it; anchors differ; an index settles.
* *ItemsAddressed*: every task's id and line lead to it, whatever was ticked before; step
  ids differ.
* *RulesHold*: an unclosed region is reported; a plan or a runbook found clear is read whole;
  a new document passes; types are checked independently.

### Properties the code does not have

Each of these is what a comment or a document of the repository says, or what one would
expect, stated in the module named and violated by the instance named: take the run's
configuration, change the constants as given, drop the symmetry, and check the property
alone (`UnchangedCostsNoWrite` and `RetryClears` under PROPERTY).

| property | module | constants changed | what happens |
|---|---|---|---|
| `AtMostOneMatch` | `MCConfigRules` | `Switches <- OnOrOff` | a token may name a type that is off and an alias of one that is on (`config.go`) |
| `DocsDirIsConsumed` | `MCConfigRules` | `DocsDirs <- DocsRootToo` | with docs_dir `.` a page's route keeps a segment it should not |
| `ExcludedStaysOut` | `MCConfigRules` | `Excludes <- TwoSlashes` | `rfc//` is normalised to `rfc/`, which excludes nothing |
| `FetchFeedsPages` | `MCConfigRules` | `DocsDirs <- DocsAnySpelling` | the fetch takes docs_dir as spelled, the classifier cleaned |
| `QueuedRunHasInstallation` | `MCRepoLifecycle` | `MaxCommits = 1`, `MaxAttempts = 1`, `MaxInst = 2`, `Unreliable = FALSE` | after a reinstallation the onboarding is coalesced onto a task with the old installation id |
| `PurgesDroppedRows` | `MCRepoLifecycle` | the same | an uninstall purges the index of a row that moved to the new installation |
| `ManifestPushOnboards` | `MCRepoLifecycle` | `MaxEvents = 2`, `MaxAttempts = 1`, `Unreliable = FALSE` | the push that adds `.docz.yaml` to an installed repository does not onboard it |
| `DocsPushIngested` | `MCRepoLifecycle` | `MaxCommits = 3`, `MaxAttempts = 1`, `Unreliable = FALSE` | a push into a docs_dir that was just moved is judged by the row's old one |
| `RedeliveryRecovers` | `MCRepoLifecycle` | `MaxCommits = 1`, `MaxEvents = 1` | the redelivery of a failed delivery is answered and dropped |
| `RemovalIsFinal` | `MCRepoLifecycle` | `MaxCommits = 1`, `MaxEvents = 2`, `MaxAttempts = 1`, `Unreliable = FALSE` | a run that fetched before its repository was removed inserts the row again |
| `RowsFollowMoves` | `MCDocumentSync` | none | a document moved without an edit keeps the path and type it had |
| `NextReconcileRepairs` | `MCDocumentSync` | none | a failed index sync is not made up for by the next reconcile |
| `CoalescedExportReruns` | `MCExportQueue` | `RedisFails = FALSE`, `StoreFails = FALSE`, `MaxId = 1` | an export coalesced onto one that fails for good is not made |
| `UnchangedCostsNoWrite` | `MCPageExport` | `Distinct = FALSE`, `Modes = {"cli"}`, `MaxRuns = 2`, `MaxPushes = 0`, `MaxActs = 0` | two `api:` pages with one heading overwrite each other in every run |
| `EveryDocumentHasItsPage` | `MCPageExport` | `Modes = {"server"}`, `MaxActs = 0` | the server records one page for two documents, renames it back and forth, and leaves one of them without a page |
| `RetryClears` | `ConfluenceClient` | `Exporter = {e1}`, `MaxRestarts = 0` | the once keeps the error of a first resolution that failed for the life of the process |
| `ReplyMeansRecord` | `MCReviewSession` | `Stalls = TRUE`, `Doc = {d1}` | a holder that stalls past its lease answers for a record another server wrote over |
| `NeverOverlap` | `MCDocumentRules` | `Fixes`: documents of one type whose headings have no blank line above them | a child is given a parent that ends on the line above it |
| `NeverDisagree` | `MCDocumentRules` | `Contents` of up to six pieces | a fence between the contents table's markers: the check sees the region, the update does not |
| `SkippedIsReported` | `MCDocumentRules` | none | a region that is passed over for its place is reported by no rule |
| `StepIdsAddress` | `MCDocumentRules` | `Tokens <- AnyToken` | a procedure `1.1` and the first step of procedure `1` have one id |

### Bounds

Named in the modules: `MaxHead`, `MaxRequeues`, `MaxRetry`, `MaxCommits`, `MaxEvents`,
`MaxAttempts`, `MaxInst`, `MaxId`, `MaxRuns`, `MaxPushes`, `MaxActs`, `MaxRetries`,
`MaxWeather`, `MaxRestarts`, `EndTime`, `KeysEnd`, `MaxRounds`, `LastRound`, `LastBytes`,
`MaxNumber`, `MaxCommands`, `MaxEdits`, `MaxKills`.

* Three triggers are the least with which one clears a task, a second re-enqueues and a
  third conflicts with the new task; the proof covers any number.
* Two HEADs tell an old one from a new one.  `MaxRetry = 1` has a retry and an archived
  task.  The code's `maxRuns` is 3; with 2 a task both goes round again and uses them up.
* Three events are a state, its contrary and a push, or an onboarding between the two
  halves of an offboarding; two attempts are a duplicate.
* `document_sync` has no bound on its behaviours, only on files.
* Three exports are an export, one that finds the page changed, archived or taken over,
  and one that brings it back; one act of people suffices for any race with one page.
* `Disturb` ends people's acts and pushes with the last run, after which nothing that they
  do is looked at.
* Two handlers are every race for one code or one token; three tokens are a first, its
  successor and the successor's, or a second family's that must not come.  The proofs
  cover any number of everything.
* Two rows that take one name in turn are a repository removed and onboarded anew; a time
  to live of one unit tells a grant in time from one that ran out.
* Two commands side by side are every race for one file; three numbers are the two that
  exist and the next.
* A document of four pieces has a region, one inside it, one after it and a line that
  breaks one of them; a plan or runbook with one line dropped or put in reaches every rule
  of its type.

`CHECK_DEADLOCK FALSE` is said where the bounds end every behaviour, or the system may
rest; `document_sync` checks for deadlock.

### Fairness

`ingest_queue` has `FairSpec`.  `serveWithWorker` starts the HTTP server and the worker
together and stops both when either ends, so while the process is up a handler that has
begun goes on (`Client`), asynq's forwarder runs on its interval (`Forward`), and the
worker takes and finishes tasks (`Run`).  No fairness is assumed of pushes, triggers,
expiry, cancellation or success: a run may fail until its retries are used up, and the
property accepts that outcome.

`confluence_client` has `ClientFairSpec`.  Each caller is a goroutine, so it goes on
(`EnterOnce`, `Send`, `Sleep`: a timer that runs out; `Begin`: the worker takes the next
export; `CheckGitHub` and `Checked`: the start goes on).  `Answered` is strongly fair: a
site that is able to answer again and again does, and one that never is runs into the
client's timeout.  Nothing is assumed of the site's behaviour.

The other runs state safety only; nothing in their code promises progress that another
party cannot withhold.

## Proofs

`IngestQueueProofs`, for any set of triggers, retry limit and configuration:

* `TypeCorrect`: `Spec => []TypeOK`.
* `TriggersAreKept`: `Spec => []NoTriggerLost`.  `NoTriggerLost` is not inductive: a call
  between its inspection and its answer claims nothing yet.  `IInv` adds what each stage
  of a call knows (`TriggerInv`: a client that re-enqueues is covered by itself; one that
  inspects after a conflict with a task that would run is covered already; one that
  conflicted with a finished task is covered as soon as another holds the id) and what the
  run knows (`RunInv`).  Each action preserves each part.
* `Refinement`: `Spec => F!Spec`, the queue implements `Freshness`, with the promises
  mapped to the HEADs of claimed triggers.

`ServingProofs`, what is served, in three parts.  `DocumentSync`, for any places, ids and
contents:

* `Invariance`: `IInv`, which says during a run in which documents the index may lag.
* `ServesHead`, `IndexFollows`, `RetriesAreIdempotent`: the three invariants of the run.

`Access`, for any readers, principals, rows, scopes and time to live:

* `AccessInvariant`: `AccessInv`.  A history says for each row when it last lost each scope,
  never later than now (`LossInv`); `ReadableSince` says that a row was readable at some
  moment since another.  A remembered grant was true when it was queried, which is its time
  to live, and what the query took, before it runs out (`GrantTrue`); so what a request may
  read and has read was readable at most a time to live before it began (`RequestTrue`).
  Whatever the world does, what was readable since a moment stays so (`ReadableKept`,
  `WorldMoves`).
* `AnswersWereReadable` (`AnsweredWasReadable`) and `AccessTypeCorrect`.

`TrustedKeys`, for any processes, keys and intervals:

* `KeysInvariant`: `KeysInv`.  `HeldInv`: a key that is published and that a process does
  not hold was published after the process last refreshed, unless its fetch failed since.
* `PublishedKeysAreKnown` (`PublishedKeyKnown`) and `KeysTypeCorrect`.

`RepoLifecycleProofs`, for any number of commits, deliveries, attempts and installations,
and any values of docs_dir:

* `Invariance`: `IInv`.  Its parts are what GitHub keeps of its own order (`SentInv`:
  commits only add, an installation's "deleted" is its last delivery, while the App has
  access some onboarding has no offboarding after it), what an attempt may be doing by the
  kind of its delivery (`AttemptInv`, `KindInv`), the row against the id sequence and the
  branch (`RowInv`), what a run under way is ahead of (`RunInv`), and three arguments:
  - `PurgeInv`: a listed row id that is still the row's belongs to the installation being
    removed, or the row has moved to another one; so a purge is of a row that is gone.
    With `RunInv` this makes `LiveRowIndexed` inductive.
  - `UninstallInv`: behind the delete neither the installation nor a row of it is left, and
    the foreign key keeps a run from bringing one back.
  - `CoverInv`: a delivery that was taken into the queue is covered, by the task queued, by
    the run before its commit, by the row, or by an onboarding still to come.
* `DeliveriesAreHandledOnce`, `UninstallsAreFinal`, `LiveRowsStayIndexed`, `TypeCorrect`,
  and `RowsSettleAtHead`: with nothing queued and every delivery answered, only the row is
  left to cover the last push (`CoveredIsSettled`).

Three statements changed for their proofs.  `LiveRowIndexed` was true of one installation
only: an uninstall lists a row that a reinstallation then takes over, hence the history
`moved` and the exception (the counterexample is `PurgesDroppedRows`).
`UninstallIsFinal` now also covers an offboarding whose purge failed.  `SettlesAtHead`
had a guard that the proof showed to be superfluous.

`ExportQueueProofs`, for any number of triggers, commits, removals and retries:

* `Invariance`: `IInv`.  `NoExportLost` is `TriggerInv`'s argument with the row id added: a
  trigger that met a finished task covers itself when it re-enqueues, unless a task of
  another row holds the id by then (`Overtaken`), which is what `strays` remembers; the
  attempt at the proof showed that `strays` had been too narrow, and missed triggers whose
  replacement a task for another row forestalls.  `RerunCatchesUp` needs what a run knows
  when it compares heads (`RunInv`, `RowInv`: it has tried what it found, and rows do not
  go back), `StatusIsTrue` that nothing says "succeeded" while pages are written (`SyncInv`).
* `ExportsAreKept`, `RerunsCatchUp`, `ServedStatusIsTrue`, `TypeCorrect`.

`ConfluenceProofs`, in two parts.  `PageExport`, for any documents, titles and contents, any
number of runs, pushes and acts of people, and every mode:

* `Invariance`: `IInv`.  `Own` says of every page that docz's property is on docz's page, is
  not ahead of it, and has its version only where nobody edited it or archiving masked the
  edit; `Known` says what the run knows of the page it is at, between its requests: without
  `--force` an update is of a page with docz's property, which has the version the run
  found unless the edit is reported; a stamp is of a page the run wrote, which somebody may
  have edited since, and then its version is higher.
* `EditsAreKept` and `PeoplesPagesAreLeft`: the two action properties, from `IInv` and from
  what a step changes of which page (`ChangedPages`).  `TypeCorrect`.
* `CleanRunsMirror` and `SecondRunsWriteNothing`, under two hypotheses: the titles of the
  documents at HEAD differ (`Distinct`), and no two documents ever have both title and
  content in common (`Apart`).  A document's title has its id in it and a page made from a
  file names it in its banner, so the second always holds; the first does not for `api:`
  pages with one heading, and there the properties fail (see the table above).  The argument
  is `MInv`, which holds beside `IInv` (`MirrorInvariance`):
  - no two pages have one title (`TitlesDiffer`), and a property that has its page's version
    says what the page is, unless archiving hid otherwise (`Truthful`);
  - in a run that nobody disturbs, each document with a good result has its page
    (`Fresh`: in the tree, with the title, property and body that are due), or another
    document took that page by a recorded id (`Taken`), which `End` records, so that two
    ids are shared and the repository is `Entangled` (`QuietRun`, `ResultsAgree`);
  - what else is in the tree with a key that is gone (`Stray`) is among the orphans still
    to be looked at;
  - after a clean run there is a fresh page for every document and no stray one, and the
    only update a further run comes to is one Confluence refuses for its title
    (`SettledInv`, `NothingToWrite`).

The statements changed for these proofs.  `CleanRunMirrors` was false on an instance larger
than the run's: an update stops before its property, the document is removed and its page
archived with the stale hash, somebody moves the page back, and the document returns with
the older content, which the run takes for unchanged though the body is another.  So
`masked`, which marked only people's edits, now marks every page whose property was out of
date when it was archived, and the property excepts it.  In turn `NoSilentOverwrite` excepts
such a page only as long as nobody wrote it since, and `Entangled` counts documents at HEAD
only: both are stronger than before.  And the bodies had no banner, which made `SecondRunQuiet`
hold of a run of the CLI after one of the server, which in the code rewrites every page.

`ConfluenceClient`, for any number of exports, retries, changes of the site and restarts:

* `RequestsAreAppliedOnce` and `CloudIdIsResolvedOnce`, from `ClientInv`: a call under way
  has had nothing applied, and the one caller that asks for the cloud id holds the gate.
  The second is stated for the proof; no run checks it.

`OAuthProofs`, for any number of handlers, requests, sessions, codes, tokens and scopes:

* `Invariant`: `IInv` is inductive.  It adds to the properties what a handler holds between
  two calls (`HandlerInv`: the token it judged is a row, the code it inserts was minted, the
  scopes it rotates to were granted), what rows say of their family (`RowInv`), that what is
  remembered of a code is the family that code began (`NameInv`), and the argument for one
  redemption: a code is in the cache, or in the hands of one handler, or redeemed
  (`CachedInv`, `TakenInv`), and only the handler that holds it inserts a family.
* `CodeRedeemedOnce`, `OneUsableToken`, `RevocationIsFinal`, `ScopesStayGranted`,
  `ReplayFindsTheFamily`, `OneDecision`, `TypeCorrect`.  `ReplayFindsTheFamily` rests on
  who writes `memory` (`MemoryWriters`) and on how a handler that is to remember or to
  revoke stops doing so (`Leaving`).
* `RowsImplementFamilies`: the rows implement `RefreshFamily`.  `UsableToken` maps a family
  to its one live token, or to its end once it was revoked, whatever its rows say; that the
  token is one is `OneLiveToken`, `SpentTokens` are the tokens that were replaced, and a
  rotation that another request overtook is a stuttering step.

`ReviewSessionProofs`, for any number of documents, servers, submissions and rounds:

* `ReviewAlwaysInv`: `ReviewInv`.  Who works holds the lease (`ServersAgree`), so two never
  do; a request outlives its run only where its page is closed, and what is about to be
  applied is what the record says (`CallsAgree`); no record is ahead of its document's
  rounds, and the round that is shown or about to be opened has none (`RecordsAgree`), which
  is what reconciling after a crash is for.  `SessionAgrees` is part of the induction: it is
  why no transition is refused (`ApplyFacts`, `DismissRestStep`).
* `OneServerWorks`, `PagesStatesAndRecordsAgree`, `RoundsHaveOneRecord`,
  `RepliesAreRecorded`, all under the hypothesis `~Stalls`, and `ReviewTypeCorrect` without
  it.  The hypothesis is the code's own: a lease of 90 seconds is renewed every 15 while the
  server serves, and nothing else guards a record.  A process that is suspended for longer,
  or whose docz takes longer to read what it opens, is outside of it, and there
  `ReplyMeansRecord` fails (see the table above).

`RepoFilesProofs`, for any number of processes, commands, slugs, edits and kills, and any
statuses:

* `Invariance`: `IInv`, in three groups.  What a command knows of its own: what it read can
  be read and has the number of its name, and what it is about to write as well
  (`CommandInv`); where nobody deleted a file under it, the file it is to write is there
  (`PresentInv`).  Numbers: unless two creations met, the number a creation holds is above
  every file's (`NumberInv`), and one process at a time holds one (`ApartInv`).  Contents:
  every file's id is its name's number (`FilesInv`); a command's copy of a file that nobody
  changed under it is what the file should hold (`CopyInv`, `SaidInv`), the rows of an
  index under way are those of the files it lists (`FreshInv`), and its prose is the
  person's (`BodyInv`, `WordsInv`).
* `NumbersStayDistinct`, `ChangesStay`, `ReadmeStays` (`NumbersDistinct`, `ChangesKept`,
  `ReadmeKept`) and `TypeCorrect`.  `Bystander` is the lemma for the processes that do not
  step: what another's write does to a command's copy is to put the file among those
  `exposed` to it.

They rest on the modules' assumptions (`QueueAssumption`, `IngestAssumption` and so on,
each in the module that declares its constants), which TLC evaluates in every run, and on
nothing else.

Every safety property of the state machines' runs is proved.  Only model-checked:
`EveryTriggerAnswered` and `EveryCallReturns`, since liveness under fairness is beyond the
prover; and the properties of `ConfigRules` and `DocumentRules`, whose readers are recursive
in places and whose truth for every input is an induction over documents and paths, which it
cannot follow either.

## What is left out

* Data: bodies, titles and payloads are model values; rendering and signature checks are
  not modelled.  In the rules modules a word is one of a few, inline markup is its words.
* `RepoLifecycle`: several repositories (they share an installation's row and nothing
  else), suspension events (ignored by the code), doc types and pages.
* `PageExport`: the Archive page's own creation, the tree of type pages, inline comments,
  dry runs, another repository's pages (the code refuses them by the property), and two
  exporters at once, which Confluence's version check serialises.
* `ExportQueue`: an unreadable config snapshot, which ingest cannot write.
* `OAuth`: PKCE, client and redirect checks (a request that fails one changes nothing but
  what its model action says), the access token's signature.
* `Access`: filters and paging; the rate limiter.
* `RepoFiles`: flags, hooks and git; the directory of one type stands for each.
* Components with status `not_modelled` in `PROJECT.json`, each with its reason.

Seen while modelling, apart from the table above:

* `Clear` deletes what holds the id by then, which may be a task enqueued after the
  inspection (`client.go:169-199`); the trigger that clears re-enqueues, so nothing is
  lost, but the payload is the later one's.
* A push between an onboarding's fetch and its commit finds no row and is dismissed
  (`events.go:82-89`).
* Two files with one document id alternate between runs (`reconcile.go:134`).
* A crash after a page is created or updated and before its property is written makes
  docz skip its own page as somebody else's until `--force` (`reconcile.go:231`); one
  after the folder's creation makes every later run refuse it (`folder.go:147`).
* A rename exported by the CLI, which has no recorded ids, leaves the old page in the
  tree, where its key keeps it from being archived (`orphans.go:87`).
* Two documents that exchange titles fail with a `TitleError` in every run of the server,
  each waiting for the other's title.
* Archiving hides that a page was written after its property: an earlier edit is
  overwritten when the document returns, and a page whose property a stopped run left
  behind is taken for unchanged if it returns with its older content (`orphans.go:119`).
* The server's banner says that edits are overwritten, the CLI's that they are kept
  (`macros.go:126`, `plan.go:109`), and the banner is hashed with the page: exports by the one
  after the other rewrite every page, though no document changed.
* The suggested spelling of an index marker is `<!--index:start-->`, which the index's own
  reader does not take; the check of the contents table ignores `toc.enabled`.
* `--fix` refuses a document that ends in an open code block, whatever stands above it.
* Fences are tracked inside HTML comments by one reader (markers) and not by the other
  (headings); `SetTaskState` ticks a box that stands in a code block.
* A procedure of a runbook without a heading is dropped without a finding.

## Plan

Done: the queue and its refinement, the lifecycle of a repository, documents and index,
the export queue, the pages, the client, authorization and its refinement, grants and keys,
the review session, the commands over files, the configuration, the pages and the plan, and
the reading, writing and checking of documents; and the proof of every safety property of a
state machine.  Next, in this order:

1. A composition of `IngestQueue` and `ExportQueue`: a push is exported in the end, or one
   of the named reasons holds.
2. Inline comments carried over an update of their page; several documents of one type
   page.
3. An abstract specification of the pages, a space that mirrors HEAD step by step, with
   `PageExport` shown to implement it.
