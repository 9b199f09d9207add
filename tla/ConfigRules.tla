---------------------------- MODULE ConfigRules ----------------------------
(***************************************************************************)
(* The configuration's rules and what is computed from them, applied to    *)
(* one input at a time: an input is drawn, the operation of its kind is    *)
(* run, and the properties relate the output to the input.                 *)
(*                                                                         *)
(*   "load"     the two configuration files of a command                   *)
(*   "access"   the entries of access.scopes                               *)
(*   "resolve"  a set of declared types                                    *)
(*   "pages"    a configuration and a tree, ingested                       *)
(*   "plan"     a configuration, a tree and the options of an export       *)
(***************************************************************************)
EXTENDS ExportPlan

CONSTANTS Loads, Accesses, Resolves, Pages, Plans      \* the inputs of each kind

VARIABLES input, output
vars == <<input, output>>

None == [kind |-> "none"]

Tokens(types) ==
    UNION {ResolutionTokens(types, k) : k \in DOMAIN types} \union {"inv", "INV", "gd", "memo"}

Init ==
    /\ input \in Loads \union Accesses \union Resolves \union Pages \union Plans
    /\ output = None

LoadFiles ==
    /\ input.kind = "load" /\ output = None
    /\ output' = [kind |-> "load", types |-> Load(input.global, input.repo),
                  alone |-> ParseBytes(input.repo)]
    /\ UNCHANGED input

ReadScopes ==
    /\ input.kind = "access" /\ output = None
    /\ LET Of(scopes) == [kind |-> "access", scopes |-> scopes, valid |-> ValidateAccess(scopes)]
       IN  output' = Of(NormalizeAccess(input.scopes))
    /\ UNCHANGED input

ResolveTokens ==
    /\ input.kind = "resolve" /\ output = None
    /\ output' = [kind |-> "resolve", valid |-> ValidTypes(input.types),
                  names |-> [t \in Tokens(input.types) |-> ResolveType(input.types, t)]]
    /\ UNCHANGED input

Ingest ==
    /\ input.kind = "pages" /\ output = None
    /\ LET Of(cfg, valid, blobs) ==
               [kind |-> "pages", valid |-> valid, cfg |-> cfg,
                pages |-> IF valid THEN BuildPages(cfg, blobs) ELSE {},
                landing |-> FetchedLanding(input.tree, input.raw),
                changelog |-> FetchedChangelog(input.tree, input.raw),
                documents |-> IF valid THEN Documents(cfg, blobs, input.front) ELSE {}]
           Parsed(cfg) == Of(cfg, Validates(cfg), Fetched(input.tree, input.raw))
       IN  output' = Parsed(Config(input.raw))
    /\ UNCHANGED input

PlanExport ==
    /\ input.kind = "plan" /\ output = None
    /\ LET Of(cfg, valid, opts) ==
               [kind |-> "plan", valid |-> valid, cfg |-> cfg,
                plans |-> IF ~ valid THEN << >>
                          ELSE [n \in 1 .. 2 |-> BuildPlan(cfg, opts[n], input.docs, input.files)]]
           Parsed(cfg) ==
               Of(cfg, Validates(cfg) /\ ValidateSync(cfg.types, cfg.api.on, cfg.sync),
                  <<[types |-> << >>, ids |-> << >>], input.opts>>)
       IN  output' = Parsed(Config(input.raw))
    /\ UNCHANGED input

Next == LoadFiles \/ ReadScopes \/ ResolveTokens \/ Ingest \/ PlanExport
Spec == Init /\ [][Next]_vars

Did(kind) == output.kind = kind

-----------------------------------------------------------------------------
(***************************************************************************)
(* Loading.                                                                *)
(***************************************************************************)
Listed(file, name) == name \in Mentioned(file)
Writes(file, name, f) == Listed(file, name) /\ f \in DOMAIN Entries(file)[name]

\* The repository's value, else the user's, else the built-in one, else the zero value.
Expected(global, repo, name, f) ==
    CASE Writes(repo, name, f) -> Entries(repo)[name][f]
      [] ~ Writes(repo, name, f) /\ Writes(global, name, f) -> Entries(global)[name][f]
      [] OTHER -> IF f = "on" /\ (Listed(repo, name) \/ Listed(global, name)) THEN FALSE
                  ELSE IF name \in DocTypeNames THEN DefaultTypes[name][f] ELSE Zero[f]

(***************************************************************************)
(* Load: every field of every loaded type comes from the repository's      *)
(* file, else from the user's, else from the registry - but a type a file  *)
(* lists without `enabled` is off - and a types map in the repository's    *)
(* file is exactly the set of types.                                       *)
(***************************************************************************)
LoadPrecedence ==
    Did("load") =>
        LET types == output.types
        IN  /\ DOMAIN types =
                 IF input.repo = NoTypes THEN DocTypeNames \union Mentioned(input.global)
                 ELSE Mentioned(input.repo)
            /\ \A name \in DOMAIN types, f \in DOMAIN Zero :
                 types[name][f] = Expected(input.global, input.repo, name, f)

(***************************************************************************)
(* ParseBytes, which an ingest runs on the file of a commit, reads what    *)
(* the commands read of it where the user has no file of their own.        *)
(***************************************************************************)
IngestReadsTheSame ==
    Did("load") /\ input.global = NoTypes => output.alone = output.types

(***************************************************************************)
(* access.scopes as loaded: reading it again changes nothing, only a list  *)
(* of blanks opens a repository that does not name public:read, and what   *)
(* Validate accepts no two entries of the file spell in one way.           *)
(***************************************************************************)
PublicRead == <<"public", "read">>
Fold1(scope) == [j \in DOMAIN scope |-> Lower(scope[j])]
ScopesSettle ==
    Did("access") =>
        LET listed == {Fold1(s) : s \in Range(input.scopes)} \ {Empty}
        IN  /\ NormalizeAccess(output.scopes) = output.scopes
            /\ Range(output.scopes) = IF listed = {} THEN {PublicRead} ELSE listed
            /\ output.valid <=> \A s \in Range(output.scopes) : ValidateScope(s)

(***************************************************************************)
(* resolveType against Validate: in a validated configuration whose        *)
(* declared types are all enabled, every token of a type resolves to that  *)
(* type and no other, in any order Go ranges over the map.                 *)
(***************************************************************************)
TokensResolve ==
    Did("resolve") /\ output.valid /\ (\A k \in DOMAIN input.types : input.types[k].on) =>
        \A k \in DOMAIN input.types :
            \A t \in ResolutionTokens(input.types, k) \ {""} : output.names[t] = {k}

(***************************************************************************)
(* config.go:374: "Ambiguous aliases/prefixes across types are rejected by *)
(* Validate, so at most one match is expected at the alias and prefix      *)
(* tiers".  Validate compares the enabled types only, resolveType all.     *)
(***************************************************************************)
AtMostOneMatch ==
    Did("resolve") /\ output.valid =>
        \A t \in DOMAIN output.names : Cardinality(output.names[t]) <= 1

-----------------------------------------------------------------------------
(***************************************************************************)
(* Pages.                                                                  *)
(***************************************************************************)
Paths == {g.path : g \in output.pages}
FilesOf == {g.file : g \in output.pages}

\* The repository's pages have distinct addresses, and no file has two.
OnePagePerPath ==
    Did("pages") => /\ Cardinality(Paths) = Cardinality(output.pages)
                    /\ Cardinality(FilesOf) = Cardinality(output.pages)

\* Whatever the exclude entry's spelling, no page is served of a file under it.
WithheldStaysOut ==
    Did("pages") =>
        \A g \in output.pages :
            /\ g.file # output.cfg.api.landing
            /\ \A e \in {Templates} \union input.raw.api.exclude :
                 ~ IsPrefix(Clean(input.raw.docsDir \o e), g.file)
            /\ \A d \in TypeDirs(output.cfg) : ~ IsPrefix(d, g.file)

(***************************************************************************)
(* The fetch works from hints, before the configuration is parsed: it has  *)
(* downloaded every file the parsed configuration publishes (api.go:262,   *)
(* "the docs every consumer resolves them to").                            *)
(***************************************************************************)
FetchFeedsPages ==
    Did("pages") /\ output.valid =>
        /\ output.pages = BuildPages(output.cfg, input.tree)
        /\ output.cfg.api.on => output.landing = input.tree \intersect {output.cfg.api.landing}
        /\ output.cfg.changelogOn =>
             output.changelog = input.tree \intersect {output.cfg.changelog}

\* Everything under docs_dir that nothing withholds is served.
DocsDirIsConsumed ==
    Did("pages") /\ output.valid /\ output.cfg.api.on =>
        \A p \in input.tree :
            /\ IsMarkdown(Base(p)) /\ IsUnderDir(p, NormalizedDocsDir(input.raw.docsDir))
            /\ p # output.cfg.api.landing
            /\ ~ Excluded(output.cfg, p) /\ ~ InTypeDir(output.cfg, p)
            => p \in FilesOf

(***************************************************************************)
(* The route of a page from outside docs_dir is none a document could have: *)
(* its first segment resolves to no enabled type (checkReservedSegment).   *)
(***************************************************************************)
RoutesDistinct ==
    Did("pages") =>
        \A g \in output.pages :
            ~ UnderDir(g.file, DocsRoot(output.cfg)) =>
                LET types == output.cfg.types
                    first == IF g.path[1] \in DOMAIN Decoded1 THEN Decoded1[g.path[1]][1]
                             ELSE g.path[1]
                IN  ResolveType(types, first) \intersect EnabledTypes(types) = {}

(***************************************************************************)
(* A relative link of a page has one address on the site at most; a link   *)
(* to a served page or to a document of the same ingest has one, and it is *)
(* that page's or that document's (siteResolver).                          *)
(***************************************************************************)
SiteTargets == {<<"x.md">>, <<"index.md">>, <<"..", "index.md">>, <<"..", "rfc", "0001-a.md">>,
                <<"..", "..", "x.md">>, <<"..", "..", "..", "x.md">>}
SiteLinksLead ==
    Did("pages") /\ output.valid =>
        \A from \in FilesOf, l \in SiteTargets :
            LET Leads(to, file) ==
                    /\ Cardinality(to) <= 1
                    /\ \A g \in output.pages : g.file = file => to = {<<"pages">> \o g.path}
                    /\ file \in output.documents \ FilesOf => to = {<<"rfc", "0001">>}
            IN  Leads(SiteResolver(output.cfg, output.pages, from, l), Clean(Dir(from) \o l))

-----------------------------------------------------------------------------
(***************************************************************************)
(* Export plans.                                                           *)
(***************************************************************************)
Planned == Did("plan") /\ output.valid /\ \A n \in 1 .. 2 : ~ IsFault(output.plans[n])
FullPlan == output.plans[1]
Plan == output.plans[2]

(***************************************************************************)
(* A run narrowed by types or ids writes pages of the full run, the same   *)
(* under the same parents, and takes the full run's keys, titles and link  *)
(* targets for granted: it archives nothing for being narrow.              *)
(***************************************************************************)
NarrowRunIsPart ==
    Planned =>
        /\ Range(Plan.items) \subseteq Range(FullPlan.items)
        /\ Plan.keys = FullPlan.keys
        /\ Plan.titles = FullPlan.titles
        /\ Plan.targets = FullPlan.targets

\* A page is written after its parent, which the same run writes.
ParentsFirst ==
    Planned =>
        \A i \in DOMAIN Plan.items :
            Plan.items[i].parent # NoParent =>
                \E j \in 1 .. i - 1 : Plan.items[j].key = Plan.items[i].parent

\* No document or type index under an excluded directory is written or linked to as a page.
ExcludedStaysOut ==
    Planned =>
        \A t \in Plan.targets \union
                 {[file |-> it.source, title |-> it.title] : it \in Range(Plan.items)} :
            \A e \in input.raw.sync.exclude :
                t.file # output.cfg.api.landing /\ t.file \notin Range(output.cfg.api.docs) =>
                    ~ IsPrefix(Clean(input.raw.docsDir \o e), t.file)

(***************************************************************************)
(* A link never leads outside the repository nor to a document that does   *)
(* not exist, and a narrowed run places it where a full run does.          *)
(***************************************************************************)
LinkTargets == {<<"0002-b.md">>, <<"..", "adr", "0001-a.md">>, <<"..", "adr">>,
                <<"..", "..", "..", "x.md">>, <<"..", "rfc", "README.md">>}
LinksHold ==
    Planned =>
        \A from \in {it.source : it \in Range(Plan.items)} \ {Empty}, l \in LinkTargets :
            LET Holds(to) ==
                    /\ to = ResolveLink(output.cfg, FullPlan, input.files, from, l)
                    /\ \A r \in to : r[1] = "source" =>
                         /\ r[2] # ".."
                         /\ IsDoczFile(Base(r)) /\ Dir(Tail(r)) \in TypeDirs(output.cfg)
                            => Tail(r) \in input.files
            IN  Holds(ResolveLink(output.cfg, Plan, input.files, from, l))

-----------------------------------------------------------------------------
(***************************************************************************)
(* A configuration means one thing, to every command, to an ingest and in  *)
(* every order Go may range over its types (Load, ParseBytes, resolveType).*)
(***************************************************************************)
ConfigurationsAgree == LoadPrecedence /\ IngestReadsTheSame /\ ScopesSettle /\ TokensResolve

(***************************************************************************)
(* The pages served are the ones the configuration publishes, each at an   *)
(* address of its own, and none it withholds (fetch, buildPages).          *)
(***************************************************************************)
PagesAreServed ==
    OnePagePerPath /\ WithheldStaysOut /\ FetchFeedsPages /\ DocsDirIsConsumed
    /\ RoutesDistinct /\ SiteLinksLead

(***************************************************************************)
(* An export's plan writes parents first, nothing that is excluded, and,   *)
(* narrowed, a part of what the whole writes (buildPlan, resolver).        *)
(***************************************************************************)
PlansHold == NarrowRunIsPart /\ ParentsFirst /\ ExcludedStaysOut /\ LinksHold

=============================================================================
