----------------------------- MODULE ExportPlan ----------------------------
(***************************************************************************)
(* What one Confluence export writes (pkg/export/confluence/plan.go): the  *)
(* pages of a run, their keys, titles and parents, what a narrowed run     *)
(* keeps of a full one, and where a relative link leads.                   *)
(*                                                                         *)
(* `docs` is the documents in the tree in the order of their ids, each     *)
(* [id, type, path]; `files` is every file the export can read.            *)
(***************************************************************************)
EXTENDS RepoPages

ParentKey == <<"docz:parent">>
TypeKey(name) == <<"docz:type:", name>>
PageKey(rel) == <<"docz:page:">> \o rel
NoParent == << >>

(***************************************************************************)
(* Selecting documents.                                                    *)
(***************************************************************************)
PlanExcluded(cfg, p) ==
    /\ UnderDir(p, DocsRoot(cfg))
    /\ \E e \in cfg.sync.exclude : IsPrefix(e, Relative(cfg, p))

Readme(cfg, name) == Join(TypeDir(cfg, name), <<README>>)

Fault(kind) == [error |-> kind]
IsFault(r) == "error" \in DOMAIN r

\* The types a list of tokens names, without repeats, or what is wrong with the list.
AddName(cfg, types, k) ==
    IF ~ cfg.types[k].on THEN Fault("type disabled")
    ELSE [types |-> IF k \in Range(types) THEN types ELSE Append(types, k)]
AddFound(cfg, done, found) ==
    IF IsFault(done) THEN done
    ELSE IF found = {} THEN Fault("unknown type")
    ELSE AddName(cfg, done.types, CHOOSE k \in found : TRUE)
CanonicalTypes(cfg, tokens) ==
    IF tokens = << >> THEN [types |-> DefaultExportTypes(cfg.types)]
    ELSE FoldLeft(LAMBDA done, t : AddFound(cfg, done, ResolveType(cfg.types, t)),
                  [types |-> << >>], tokens)

\* The types a full run exports; an excluded README leaves its type out.
Exported(cfg, r) ==
    IF IsFault(r) THEN r
    ELSE [types |-> SelectSeq(r.types, LAMBDA k : ~ PlanExcluded(cfg, Readme(cfg, k)))]
AllTypes(cfg) == Exported(cfg, CanonicalTypes(cfg, cfg.sync.types))

DocsOfType(docs, name) == SelectSeq(docs, LAMBDA d : d.type = name)
\* Mutant.
ListEveryDoc(cfg, docs, types) ==
    FlattenSeq([i \in DOMAIN types |-> DocsOfType(docs, types[i])])

ListDocs(cfg, docs, types) ==
    SelectSeq(FlattenSeq([i \in DOMAIN types |-> DocsOfType(docs, types[i])]),
              LAMBDA d : ~ PlanExcluded(cfg, d.path))

OrderTypes(types, allTypes) == SelectSeq(allTypes, LAMBDA k : k \in types)

SelectTypes(r, all, allTypes) ==
    IF IsFault(r) THEN r
    ELSE IF \E k \in Range(r.types) : k \notin Range(allTypes) THEN Fault("not exported")
    ELSE [docs |-> SelectSeq(all, LAMBDA d : d.type \in Range(r.types)),
          types |-> OrderTypes(Range(r.types), allTypes)]

\* Each id is looked up among the listed documents, then in its own type's directory.
AddDoc(cfg, done, named, allTypes) ==
    CASE IsFault(done) -> done
      [] ~ IsFault(done) /\ named = << >> -> Fault("not found")
      [] OTHER -> CASE ~ cfg.types[named[1].type].on -> Fault("type disabled")
                    [] PlanExcluded(cfg, named[1].path) -> done
                    [] OTHER -> IF named[1].type \notin Range(allTypes)
                                THEN Fault("not exported")
                                ELSE [docs |-> Append(done.docs, named[1])]
TypesOf(r, allTypes) ==
    IF IsFault(r) THEN r
    ELSE [docs |-> r.docs, types |-> OrderTypes({d.type : d \in Range(r.docs)}, allTypes)]
SelectIDs(cfg, ids, docs, allTypes) ==
    LET Add(done, id) ==
            AddDoc(cfg, done, SelectSeq(docs, LAMBDA d : d.id = id), allTypes)
    IN  TypesOf(FoldLeft(Add, [docs |-> << >>], ids), allTypes)

SelectDocs(cfg, opts, docs, all, allTypes) ==
    IF opts.ids # << >> THEN SelectIDs(cfg, opts.ids, docs, allTypes)
    ELSE IF opts.types = << >> THEN [docs |-> all, types |-> allTypes]
    ELSE SelectTypes(CanonicalTypes(cfg, opts.types), all, allTypes)

(***************************************************************************)
(* The pages.  In the folder layout every title carries the folder's.      *)
(***************************************************************************)
Titled(cfg, title) == IF cfg.sync.layout = "page" THEN title ELSE <<"folder">> \o title
Item(cfg, key, title, source, parent) ==
    [key |-> key, title |-> Titled(cfg, title), source |-> source, parent |-> parent]

Top(cfg) == IF cfg.sync.layout = "page" THEN ParentKey ELSE NoParent
ParentItem(cfg, files) ==
    [key |-> ParentKey, parent |-> NoParent,
     title |-> IF cfg.sync.layout = "page" THEN <<cfg.sync.parent>> ELSE <<"folder">>,
     source |-> IF cfg.sync.apiPages /\ cfg.api.landing \in files \ {Empty}
                THEN cfg.api.landing ELSE Empty]
TypePage(cfg, name) == Item(cfg, TypeKey(name), <<name>>, Readme(cfg, name), Top(cfg))
DocItem(cfg, d) == Item(cfg, <<d.id>>, <<d.id>>, d.path, TypeKey(d.type))
PageItem(cfg, rel) == Item(cfg, PageKey(rel), rel, rel, Top(cfg))

AddPages(cfg) ==
    IF cfg.sync.apiPages
    THEN [i \in DOMAIN cfg.api.docs |-> PageItem(cfg, cfg.api.docs[i])] ELSE << >>

\* Mutant.
SectionBackwards(cfg, docs, name) ==
    FoldLeft(LAMBDA items, d : Append(items, DocItem(cfg, d)), << >>, DocsOfType(docs, name))
        \o <<TypePage(cfg, name)>>

\* A type's page, then its documents.
Section(cfg, docs, name) ==
    FoldLeft(LAMBDA items, d : Append(items, DocItem(cfg, d)),
             <<TypePage(cfg, name)>>, DocsOfType(docs, name))

\* Mutant.
KnownSelected(cfg, items, extra, types, all) == items

\* Every page of a full run, written by this one or not.
Known(cfg, items, extra, types, all) ==
    items \union extra \union {TypePage(cfg, k) : k \in types} \union {DocItem(cfg, d) : d \in all}

Items(cfg, opts, files, sel, extra) ==
    <<ParentItem(cfg, files)>>
        \o FlattenSeq([i \in DOMAIN sel.types |-> Section(cfg, sel.docs, sel.types[i])])
        \o (IF opts.types = << >> /\ opts.ids = << >> THEN extra ELSE << >>)
WithKnown(items, known) ==
    [items |-> items,
     keys |-> {it.key : it \in known},
     titles |-> {it.title : it \in known},
     targets |-> {[file |-> it.source, title |-> it.title] :
                     it \in {x \in known : x.source # Empty}}]

BuildPlan(cfg, opts, docs, files) ==
    LET Of(items, extra, every, all) ==
            IF \E i \in DOMAIN extra : extra[i].source \notin files THEN Fault("missing page")
            ELSE WithKnown(items, Known(cfg, Range(items), Range(extra),
                                        Range(every.types), Range(all)))
        Selected(sel, every, all) ==
            IF IsFault(sel) THEN sel
            ELSE Of(Items(cfg, opts, files, sel, AddPages(cfg)), AddPages(cfg), every, all)
        Listed(every, all) ==
            Selected(SelectDocs(cfg, opts, docs, all, every.types), every, all)
        Over(every) ==
            IF IsFault(every) THEN every
            ELSE Listed(every, ListDocs(cfg, docs, every.types))
    IN  Over(AllTypes(cfg))

(***************************************************************************)
(* Where a relative link of an exported page leads: to an exported page,   *)
(* or else, by internal/export/links.go, to the file at its source, unless *)
(* it leaves the repository or names a document that does not exist.       *)
(***************************************************************************)
\* Mutant.
NeverMissing(cfg, files, p) == FALSE

MissingDocument(cfg, files, p) ==
    Dir(p) \in TypeDirs(cfg) /\ IsDoczFile(Base(p)) /\ p \notin files

SourceLink(cfg, files, p) ==
    IF p[1] = ".." \/ MissingDocument(cfg, files, p) THEN {} ELSE {<<"source">> \o p}

LinkedPages(plan, file) ==
    {<<"page">> \o t.title : t \in {x \in plan.targets : x.file = file}}
LinkAt(cfg, plan, files, p) ==
    IF LinkedPages(plan, p) # {} THEN LinkedPages(plan, p)
    ELSE IF LinkedPages(plan, Join(p, <<README>>)) # {}
    THEN LinkedPages(plan, Join(p, <<README>>))
    ELSE SourceLink(cfg, files, p)
ResolveLink(cfg, plan, files, from, target) ==
    LinkAt(cfg, plan, files, Clean(Dir(from) \o target))
=============================================================================
