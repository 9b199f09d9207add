---------------------------- MODULE DocValidate ----------------------------
(***************************************************************************)
(* What `docz validate` reports of a document (validate.Document) and of a *)
(* repository (repo.Validate).                                             *)
(*                                                                         *)
(* A document's front is what its frontmatter says, a set: {} without one. *)
(* Its id is a prefix, a number and its digits (prefix "" when it has none *)
(* or is malformed); name is the number in its file's name (0 if the name  *)
(* is no docz name).  A type's settings are its prefix, width and statuses.*)
(***************************************************************************)
EXTENDS DocKinds

(***************************************************************************)
(* Markers: an end without a start, a start without an end, one not in the *)
(* canonical spelling, and those inside a fence, which are text.           *)
(***************************************************************************)
\* Mutant: the first start of the kind is the one an end takes.
TakeFirst(doc, state, line) ==
    LET open == {i \in state.open : doc[i].kind = doc[line].kind}
    IN  IF open = {} THEN [state EXCEPT !.out = @ \union {Finding("marker.stray-end", doc[line].kind, line)}]
        ELSE [state EXCEPT !.open = @ \ {Min0(open)}]

TakeEnd(doc, state, line) ==
    LET open == {i \in state.open : doc[i].kind = doc[line].kind}
    IN  IF open = {} THEN [state EXCEPT !.out = @ \union {Finding("marker.stray-end", doc[line].kind, line)}]
        ELSE [state EXCEPT !.open = @ \ {Max0(open)}]

CheckMarkersInFences(doc) ==
    LET inside == {i \in DOMAIN doc : /\ doc[i].form = "marker" /\ doc[i].kind \notin Reserved
                                      /\ Blocks(doc, TRUE, FALSE)[i] = "fence"}
    IN  When(inside # {}, Finding("marker.in-fence", "", Min0(inside)))

CheckMarkers(doc) ==
    LET Take(state, line) ==
            IF doc[line].role = "start" THEN [state EXCEPT !.open = @ \union {line}]
            ELSE TakeEnd(doc, state, line)
        read == FoldLeft(Take, [open |-> {}, out |-> {}], Markers(doc))
    IN  read.out \union CheckMarkersInFences(doc)
        \union {Finding("marker.unclosed", doc[i].kind, i) : i \in read.open}
        \union {Finding("marker.spelling", doc[i].kind, i) :
                    i \in {m \in Range(Markers(doc)) : ~ doc[m].ok}}

(***************************************************************************)
(* Regions, against the schema: the pairs of a kind and its parent.        *)
(***************************************************************************)
Placed(regions) == {[kind |-> regions[i].kind, parent |-> ParentKind(regions, i)] : i \in DOMAIN regions}

Catalogue ==
    Reserved \union {"references", "open-questions", "decisions", "summary", "alternatives",
        "context", "criteria", "testing", "problem", "proposal", "risks", "decision", "consequences",
        "overview", "background", "detailed-design", "api-changes", "data-model", "rollout",
        "question", "hypothesis", "recommendation", "approach", "environment", "findings",
        "conclusion", "objective", "scope", "tasks", "file-changes", "dependencies",
        "last-verified", "steps", "rollback", "escalation"} \union ListKinds \union Repeatable

CheckMissing(regions, schema) ==
    {Finding("region.missing", want.kind, 0) :
        want \in {w \in schema \ Placed(regions) : w.kind \notin Reserved}}

ParentStart(regions, i) == {p.start : p \in Parent(regions, i)}
CheckSingletons(regions) ==
    {Finding("region.duplicate-singleton", regions[i].kind, regions[i].start) :
        i \in {k \in DOMAIN regions :
            /\ regions[k].kind \in Catalogue \ Repeatable
            /\ \E j \in 1 .. k - 1 : /\ regions[j].kind = regions[k].kind
                                     /\ ParentStart(regions, j) = ParentStart(regions, k)}}

CheckParents(regions, schema) ==
    LET Wants(kind) == {w.parent : w \in {v \in schema : v.kind = kind}}
    IN  {Finding("region.wrong-parent", regions[i].kind, regions[i].start) :
            i \in {k \in DOMAIN regions : /\ Wants(regions[k].kind) # {}
                                          /\ ParentKind(regions, k) \notin Wants(regions[k].kind)}}

CheckRegions(regions, schema) ==
    CheckMissing(regions, schema) \union CheckSingletons(regions) \union CheckParents(regions, schema)

CheckContent(doc, regions) ==
    UNION {Check(Body(doc, r), r) : r \in {q \in Range(regions) : q.closed}}

(***************************************************************************)
(* The table of contents.  freshToC cuts the rewritten document at the     *)
(* first marker text it holds, fenced or not.                              *)
(***************************************************************************)
Trimmed(lines) ==
    LET full == {i \in DOMAIN lines : lines[i].form # "blank"}
    IN  IF full = {} THEN << >> ELSE SubSeq(lines, Min0(full), Max0(full))

FreshToC(updated) ==
    LET starts == {i \in DOMAIN updated : updated[i] = Mark("toc", "start", TRUE)}
        ends == {i \in DOMAIN updated : i > Min0(starts) /\ updated[i] = Mark("toc", "end", TRUE)}
    IN  IF ends = {} THEN << >> ELSE Trimmed(SubSeq(updated, Min0(starts) + 1, Min0(ends) - 1))

CheckToC(doc, schema, minHeadings) ==
    LET Drifted(tocs, current) ==
            current # << >> /\ \E u \in UpdatedIn(doc, tocs, minHeadings) : FreshToC(u) # current
        Of(tocs) ==
            IF tocs = << >>
            THEN When(\E w \in schema : w.kind = "toc", Finding("toc.missing", "toc", 0))
            ELSE When(Drifted(tocs, Trimmed(Body(doc, tocs[1]))),
                      Finding("toc.stale", "toc", tocs[1].start))
    IN  Of(OfKind(doc, "toc"))

\* Mutant: the pair that is still empty is not looked at.
NoDrift(doc, minHeadings, enabled, reported) == {}

\* repo.tocDrift: what checkToC leaves, when docz keeps the table at all.
TocDrift(doc, minHeadings, enabled, reported) ==
    LET Of(tocs) ==
            When(/\ enabled /\ ~ \E f \in reported : f.code = "toc.stale"
                 /\ \E u \in UpdatedIn(doc, tocs, minHeadings) : u # doc,
                 Finding("toc.stale", "toc", IF tocs = << >> THEN 0 ELSE tocs[1].start))
    IN  Of(OfKind(doc, "toc"))

(***************************************************************************)
(* Frontmatter and the file's name.                                        *)
(***************************************************************************)
RECURSIVE Digits(_)
Digits(n) == IF n < 10 THEN 1 ELSE 1 + Digits(n \div 10)
Padded(n, width) == IF Digits(n) > width THEN Digits(n) ELSE width

CheckID(front, type) ==
    IF front.prefix = "" THEN {Finding("frontmatter.id-prefix", "", 1)}
    ELSE When(type.prefix # "" /\ front.prefix # type.prefix, Finding("frontmatter.id-prefix", "", 1))
         \union When(type.width > 0 /\ front.digits # type.width, Finding("frontmatter.id-number", "", 1))

CheckStatus(front, type) ==
    When(type.statuses # {} /\ front.status \notin type.statuses, Finding("frontmatter.status", "", 1))

CheckFilename(front, name) ==
    When(name = 0 \/ (front.prefix # "" /\ front.number # name), Finding("file.name", "", 0))

CheckFrontmatter(front, type, name) ==
    IF front = {} THEN {Finding("frontmatter.missing", "", 1)}
    ELSE UNION {CheckID(f, type) \union CheckStatus(f, type) \union CheckFilename(f, name)
                \union When(~ f.dated, Finding("frontmatter.created", "", 1))
                \union When(~ f.titled, Finding("frontmatter.title", "", 1))
                \union When(f.schema = "Bad", Finding("schema.name", "", 1)) : f \in front}

(***************************************************************************)
(* validate.Document over the lines, and the two makers of a new document: *)
(* `docz create` and the template check, which number, name and render it  *)
(* alike.                                                                  *)
(***************************************************************************)
DocumentFindings(doc, regions, schema, minHeadings) ==
    CheckMarkers(doc) \union CheckRegions(regions, schema) \union CheckContent(doc, regions)
    \union CheckToC(doc, schema, minHeadings)
    \union When(~ Marked(doc), Finding("region.inferred", "", 0))

\* Mutant: the number is not padded.
RenderBare(type, number) ==
    [prefix |-> type.prefix, number |-> number, digits |-> Digits(number),
     status |-> type.first, dated |-> TRUE, titled |-> TRUE, schema |-> ""]
Rendered(type, number) ==
    [prefix |-> type.prefix, number |-> number, digits |-> Padded(number, type.width),
     status |-> type.first, dated |-> TRUE, titled |-> TRUE, schema |-> ""]
CreatedFindings(type, number) == CheckFrontmatter({Rendered(type, number)}, type, number)

(***************************************************************************)
(* A run over a repository: each type's template, then its documents.  A   *)
(* schema is resolved by name once; a type whose own name resolves to none *)
(* takes its template's, or the generic one, past the cache.               *)
(*                                                                         *)
(* repo.schemas are the skeletons found by name; repo.types the templates  *)
(* of the types, {} for a type that has none and gets the generic one.     *)
(***************************************************************************)
Skeleton(repo, name) == IF name \in DOMAIN repo.schemas THEN {repo.schemas[name]} ELSE {}
Template(repo, type) ==
    IF repo.types[type] = {} THEN repo.schemas["default"] ELSE CHOOSE t \in repo.types[type] : TRUE

\* Mutant: the type's own schema is kept in the cache, under its name.
SchemaCached(repo, cache, name, type) ==
    LET hit == IF name \in DOMAIN cache THEN cache[name] ELSE Skeleton(repo, name)
        own == IF hit = {} /\ name = type THEN {Template(repo, type)} ELSE hit
    IN  [cache |-> (name :> own) @@ cache, schema |-> own]

SchemaFor(repo, cache, name, type) ==
    LET hit == IF name \in DOMAIN cache THEN cache[name] ELSE Skeleton(repo, name)
        own == IF hit = {} /\ name = type THEN {Template(repo, type)} ELSE hit
    IN  [cache |-> (name :> hit) @@ cache, schema |-> own]

\* What one document (or template, doc 0) is checked against, {} when unresolved.
CheckType(repo, state, type) ==
    LET Take(s, doc) ==
            LET name == IF doc.schema = "" THEN type ELSE doc.schema
                got == SchemaFor(repo, s.cache, name, type)
            IN  [cache |-> got.cache, report |-> s.report \union {[doc |-> doc, type |-> type, schema |-> got.schema]}]
    IN  FoldLeft(Take, state, <<[schema |-> ""]>> \o repo.docs[type])

ValidateTypes(repo, names) ==
    FoldLeft(LAMBDA s, type : CheckType(repo, s, type), [cache |-> << >>, report |-> {}], names).report

\* Whether the README of a type is not what `docz update` would write: a set, {} for no file.
IndexDrifted(readme, table) ==
    readme = {} \/ \E r \in readme : \E s \in SpliceRegion(r, table) : s # r
=============================================================================
