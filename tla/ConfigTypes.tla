---------------------------- MODULE ConfigTypes ----------------------------
(***************************************************************************)
(* The document types of a configuration (pkg/doczcore/config): how the    *)
(* files are merged over the built-in registry, and how a token a user     *)
(* types is resolved to one of the declared types.                         *)
(*                                                                         *)
(* A type's record keeps one field of each kind the loader treats apart:   *)
(* the switch `on` (a bool), the string `dir` and the list `statuses`.     *)
(* Of a token only its letters and their case matter: Lower folds it.      *)
(***************************************************************************)
EXTENDS FiniteSets, SequencesExt

(***************************************************************************)
(* The built-in types, in the registry's order (doctype.go).               *)
(***************************************************************************)
BuiltIn(name, aliases, prefix, on, optIn) ==
    [name |-> name, aliases |-> aliases, prefix |-> prefix, on |-> on, optIn |-> optIn]

AllDocTypes ==
    << BuiltIn("rfc", {}, "RFC", TRUE, FALSE),
       BuiltIn("adr", {}, "ADR", TRUE, FALSE),
       BuiltIn("design", {}, "DESIGN", TRUE, FALSE),
       BuiltIn("impl", {"implementation"}, "IMPL", TRUE, TRUE),
       BuiltIn("investigation", {"inv"}, "INV", TRUE, FALSE),
       BuiltIn("runbook", {"rb"}, "RUNBOOK", FALSE, FALSE) >>

DocTypeNames == {def.name : def \in Range(AllDocTypes)}
Definition(name) == CHOOSE def \in Range(AllDocTypes) : def.name = name

Folded == [RFC |-> "rfc", ADR |-> "adr", DESIGN |-> "design", IMPL |-> "impl",
           INV |-> "inv", RUNBOOK |-> "runbook", Guide |-> "guide", GD |-> "gd",
           INDEX |-> "index", Docs |-> "docs", Team |-> "team"]
Lower(token) == IF token \in DOMAIN Folded THEN Folded[token] ELSE token

DefaultConfig(name) ==
    LET def == Definition(name)
    IN  [on |-> def.on, dir |-> name, statuses |-> "default",
         aliases |-> {}, prefix |-> def.prefix]
DefaultTypes == [name \in DocTypeNames |-> DefaultConfig(name)]

(***************************************************************************)
(* Reading the files.  Of a file only its `types` key is kept: {} when it  *)
(* has none, or the set of the one map from names to entries, each a       *)
(* record of the fields it mentions.                                       *)
(***************************************************************************)
NoTypes == {}

Entries(file) == IF file = NoTypes THEN << >> ELSE CHOOSE map \in file : TRUE
Mentioned(file) == DOMAIN Entries(file)

\* Mutant.
MergeUserLast(dst, src) ==
    [name \in Mentioned(dst) \union Mentioned(src) |->
        CASE name \notin Mentioned(src) -> Entries(dst)[name]
          [] name \notin Mentioned(dst) -> Entries(src)[name]
          [] OTHER -> Entries(dst)[name] @@ Entries(src)[name]]

\* mergeMaps: the second file's keys win, maps are merged key by key.
MergeMaps(dst, src) ==
    [name \in Mentioned(dst) \union Mentioned(src) |->
        CASE name \notin Mentioned(src) -> Entries(dst)[name]
          [] name \notin Mentioned(dst) -> Entries(src)[name]
          [] OTHER -> Entries(src)[name] @@ Entries(dst)[name]]

\* yaml.v3 decodes an entry into a fresh zero value, whatever the map held.
Zero == [on |-> FALSE, dir |-> "", statuses |-> "nil"]
Decoded(entry) == entry @@ Zero
DecodeOver(defaults, settings) ==
    [name \in DOMAIN defaults \union DOMAIN settings |->
        IF name \in DOMAIN settings
        THEN Decoded(settings[name])
        ELSE [f \in DOMAIN Zero |-> defaults[name][f]]]

\* applyTypesReplaceOnPresence: a types map in the repository's file replaces the set.
ReplaceOnPresence(types, file) ==
    IF file = NoTypes THEN types
    ELSE [name \in Mentioned(file) \intersect DOMAIN types |-> types[name]]

\* fillTypeFieldDefaults: empty strings and nil lists of built-in types; never a bool.
FillTypeFieldDefaults(types) ==
    [name \in DOMAIN types |->
        IF name \notin DocTypeNames THEN types[name]
        ELSE [types[name] EXCEPT
                !.dir = IF @ = "" THEN DefaultTypes[name].dir ELSE @,
                !.statuses = IF @ = "nil" THEN DefaultTypes[name].statuses ELSE @]]

Load(global, repo) ==
    FillTypeFieldDefaults(
        ReplaceOnPresence(DecodeOver(DefaultTypes, MergeMaps(global, repo)), repo))

\* Mutant.
ParseUnfilled(file) ==
    ReplaceOnPresence(DecodeOver(DefaultTypes, MergeMaps(NoTypes, file)), file)

\* A single file, named on the command line or read from a commit (ParseBytes).
ParseBytes(file) ==
    FillTypeFieldDefaults(
        ReplaceOnPresence(DecodeOver(DefaultTypes, MergeMaps(NoTypes, file)), file))

(***************************************************************************)
(* Resolving a token.                                                      *)
(***************************************************************************)
EnabledTypes(types) == {name \in DOMAIN types : types[name].on}

\* The built-ins in the registry's order, then a repository's own types, sorted.
CustomNames == <<"guide", "memo">>
EnabledList(types) ==
    SelectSeq([i \in DOMAIN AllDocTypes |-> AllDocTypes[i].name] \o CustomNames,
              LAMBDA name : name \in EnabledTypes(types))

DefaultExportTypes(types) ==
    SelectSeq(EnabledList(types), LAMBDA name :
        ~ \E def \in Range(AllDocTypes) :
            /\ Lower(name) \in {def.name} \union def.aliases
            /\ def.optIn)

RegistryAliases(name) ==
    IF name \in DocTypeNames THEN Definition(name).aliases ELSE {}
AliasOf(token) == {name \in DocTypeNames : token \in RegistryAliases(name)}

\* What resolveType may return: Go ranges over the map in any order.
ResolveType(types, token) ==
    LET Tiers(low) ==
            << {low}, AliasOf(low),
               {k \in DOMAIN types : \E a \in types[k].aliases : Lower(a) = low},
               {k \in DOMAIN types : types[k].prefix # "" /\ Lower(types[k].prefix) = low} >>
        First(done, tier) == IF done # {} THEN done ELSE tier \intersect DOMAIN types
    IN  FoldLeft(First, {}, Tiers(Lower(token)))

\* Mutant.
OwnTokens(types, name) == {name, types[name].prefix} \union types[name].aliases

ResolutionTokens(types, name) ==
    {name, types[name].prefix} \union types[name].aliases \union RegistryAliases(name)

ValidateResolution(types) ==
    \A a, b \in EnabledTypes(types) :
        a # b => {Lower(t) : t \in ResolutionTokens(types, a)}
                  \intersect {Lower(t) : t \in ResolutionTokens(types, b)} \subseteq {""}

\* The part of Validate that is about types.
ValidTypes(types) ==
    /\ \A name \in EnabledTypes(types) : types[name].statuses \notin {"empty", "nil"}
    /\ ValidateResolution(types)
=============================================================================
