--------------------------- MODULE MCConfigRules ---------------------------
EXTENDS ConfigRules

CONSTANTS DocsDirs,      \* how docs_dir may be spelled
          Switches,      \* whether a declared type may be off
          Excludes       \* how an exclude entry may be spelled

Docs == {<<"docs">>, <<".", "docs">>, <<"docs", "">>}
DocsAnySpelling == Docs \union {<<"docs", ".">>, <<"docs", "a", "..">>}
DocsRootToo == {<<"docs">>, <<".">>}
AllOn == {TRUE}
OnOrOff == BOOLEAN
OneSlash == {<<"rfc">>, <<"rfc", "">>, <<".", "rfc", "0001-a.md">>}
TwoSlashes == OneSlash \union {<<"rfc", "", "">>}

Entry(d) ==
    UNION {[on : BOOLEAN, dir : {d}, statuses : {"empty"}], [on : BOOLEAN, dir : {d}],
           [on : BOOLEAN, statuses : {"empty"}], [dir : {d}], [statuses : {"empty"}],
           [on : BOOLEAN], {<< >>}}
File(d) == {NoTypes} \union UNION {{{map} : map \in [ns -> Entry(d)]} : ns \in SUBSET {"rfc", "guide"}}
MCLoads == {[kind |-> "load", global |-> g, repo |-> r] : g \in File("g"), r \in File("r")}

Written == {<<"">>, <<"public", "read">>, <<"Team", "read">>, <<"team", "read">>,
            <<"confluence", "write">>, <<"team", "write">>, <<"team">>}
MCAccesses == {[kind |-> "access", scopes |-> ss] : ss \in UNION {[1 .. n -> Written] : n \in 0 .. 3}}

Declared == [on : Switches, statuses : {"some"}, aliases : {{}, {"inv"}, {"GD", "rb"}},
             prefix : {"", "INV", "GD"}, dir : {<<"d">>}]
MCResolves ==
    {[kind |-> "resolve", types |-> ts] :
        ts \in UNION {[ns -> Declared] : ns \in SUBSET {"investigation", "guide", "memo"}}}

Type(dir, prefix, aliases) ==
    [on |-> TRUE, statuses |-> "some", aliases |-> aliases, prefix |-> prefix, dir |-> dir]
OneType == ("rfc" :> Type(<<"rfc">>, "RFC", {}))
ThreeTypes == OneType @@ ("investigation" :> Type(<<"inv-dir">>, "INV", {}))
                      @@ ("guide" :> [Type(<<"a">>, "GD", {"index"}) EXCEPT !.on = FALSE])
NoSync == [on |-> FALSE]
Api(on, landing, exclude, docs) ==
    [on |-> on, landing |-> landing, exclude |-> exclude, docs |-> docs]
Raw(docsDir, types, api, changelog) ==
    [docsDir |-> docsDir, types |-> types, api |-> api, changelogOn |-> TRUE,
     changelog |-> changelog, sync |-> NoSync]

Files == {<<"docs", "index.md">>, <<"docs", "g", "README.md">>, <<"docs", "g", "index.md">>,
          <<"docs", "g", "x.md">>, <<"docs", "rfc", "0001-a.md">>, <<"docs", "rfc", "README.md">>,
          <<"docs", "templates", "x.md">>, <<"x.md">>, <<"g", "x.md">>, <<"rfc%2Fx.md">>,
          <<"inv", "x.md">>, <<"CHANGELOG.md">>}
Trees == {t \in SUBSET Files : Cardinality(t) <= 3}
Apis ==
    {Api(FALSE, Empty, {}, << >>)} \union
    {Api(TRUE, l, e, d) :
        l \in {Empty, <<"docs", "g", "README.md">>},
        e \in {{}, {<<"g", "">>}},
        d \in {<< >>, << <<".", "x.md">>, <<"g", "x.md">> >>, << <<"rfc%2Fx.md">> >>,
               << <<"inv", "x.md">> >>, << <<"docs", "templates", "x.md">> >>}}
MCPages ==
    {[kind |-> "pages", raw |-> Raw(d, ts, api, c), tree |-> t, front |-> {<<"docs", "rfc", "0001-a.md">>}] :
        d \in DocsDirs, ts \in {OneType, ThreeTypes}, api \in Apis, c \in {<<".", "x.md">>},
        t \in Trees}

PlanTypes == [k \in {"rfc", "adr", "impl"} |-> Type(<<k>>, "", {})]
PlanDocs ==
    << [id |-> "ADR-1", type |-> "adr", path |-> <<"docs", "adr", "0001-a.md">>],
       [id |-> "IMPL-1", type |-> "impl", path |-> <<"docs", "impl", "0001-a.md">>],
       [id |-> "RFC-1", type |-> "rfc", path |-> <<"docs", "rfc", "0001-a.md">>],
       [id |-> "RFC-2", type |-> "rfc", path |-> <<"docs", "rfc", "0002-b.md">>] >>
DocPath(d) == d.path
Syncs ==
    [on : {TRUE}, site : {"https host"}, space : {"S"}, folder : {""}, parent : {"P"},
     layout : {"folder", "page"}, types : {<< >>, <<"rfc", "impl">>, <<"adr", "adr">>},
     exclude : {{e} : e \in Excludes} \union {{}}, apiPages : BOOLEAN, viewer : {"auto"}]
Options ==
    {[types |-> ts, ids |-> << >>] : ts \in {<< >>, <<"rfc">>, <<"impl", "adr">>}}
        \union {[types |-> << >>, ids |-> is] :
                    is \in {<<"RFC-2">>, <<"RFC-2", "RFC-1">>, <<"IMPL-1", "ADR-1">>, <<"X-1">>}}
MCPlans ==
    {[kind |-> "plan",
      raw |-> [Raw(<<".", "docs">>, PlanTypes,
                   Api(TRUE, Empty, {}, << <<"x.md">> >>), Empty) EXCEPT !.sync = NormalizeSync(s)],
      docs |-> docs, opts |-> o,
      files |-> {DocPath(d) : d \in Range(docs)} \union extra] :
        s \in Syncs, o \in Options, extra \in {{}, {<<"x.md">>}, {<<"x.md">>, <<"docs", "index.md">>}},
        docs \in {PlanDocs, Tail(PlanDocs), Front(PlanDocs)}}
=============================================================================
