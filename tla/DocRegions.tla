----------------------------- MODULE DocRegions -----------------------------
(***************************************************************************)
(* The regions of a document without markers, inferred from its headings   *)
(* (kinds/infer.go); the pass that writes them into it, `docz validate     *)
(* --fix` (repo/regions.go); and the two regions docz itself fills, the    *)
(* table of contents (toc) and the index table of a README (index).        *)
(*                                                                         *)
(* A heading rule's `text` is the whole heading, or << >> in a prefix      *)
(* rule, whose `prefix` is <<word>>, for "word token:", or <<word, ":">>.  *)
(***************************************************************************)
EXTENDS Markdown

Reserved == {"toc", "index"}
Key(line) == <<line.word, line.token, line.tail, ToString(line.number)>>
Rule(kind, level, text, prefix, parent) ==
    [kind |-> kind, level |-> level, text |-> text, prefix |-> prefix, parent |-> parent]

\* The rule of a heading that is one word.
Sub(kind, level, word, parent) == Rule(kind, level, <<word, "", "", "0">>, << >>, parent)
Section(kind, word) == Sub(kind, 2, word, "")

SharedDefaults ==
    << Section("references", "references"), Section("open-questions", "open questions"),
       Section("decisions", "decisions") >>

HeadingsIn(tmpl, region) == SelectSeq(Headings(tmpl), LAMBDA h : h > region.start /\ h < region.end)

\* Mutant: every kind stands at the top level.
TopRule(tmpl, regions, i) ==
    LET h == tmpl[HeadingsIn(tmpl, regions[i])[1]]
    IN  Rule(regions[i].kind, h.level, IF h.note THEN << >> ELSE Key(h), IF h.note THEN <<h.word, ":">> ELSE << >>, "")

\* The rule of a region: its first heading, up to a placeholder in it.
RuleOf(tmpl, regions, i) ==
    LET h == tmpl[HeadingsIn(tmpl, regions[i])[1]]
        prefix == IF ~ h.note THEN << >>
                  ELSE IF h.token = "" THEN <<h.word, ":">> ELSE <<h.word>>
    IN  Rule(regions[i].kind, h.level, IF h.note THEN << >> ELSE Key(h),
             prefix, ParentKind(regions, i))

\* One rule for each kind under each parent: its first region with a heading.
SpecFromTemplate(tmpl) ==
    LET Same(regions, i, j) == /\ regions[i].kind = regions[j].kind
                               /\ ParentKind(regions, i) = ParentKind(regions, j)
        First(regions, named) ==
            InOrder({i \in named : ~ \E j \in named : j < i /\ Same(regions, i, j)})
        Rules(regions, first) == [k \in DOMAIN first |-> RuleOf(tmpl, regions, first[k])]
        With(regions, named) ==
            Rules(regions, First(regions, named))
            \o SelectSeq(SharedDefaults, LAMBDA d : \A i \in named : d.kind # regions[i].kind)
        Of(regions) == With(regions, {i \in DOMAIN regions : HeadingsIn(tmpl, regions[i]) # << >>})
    IN  Of(Regions(tmpl))

(***************************************************************************)
(* Matching a heading: a rule's whole text first, then a prefix.  The set  *)
(* of the one rule that matches, or {}.                                    *)
(***************************************************************************)
Prefixed(rule, h) ==
    /\ rule.prefix # << >> /\ rule.prefix[1] = h.word /\ h.tail # ""
    /\ IF Len(rule.prefix) = 2 THEN h.token = "" ELSE h.token \notin {"", "1/2"}

MatchRule(spec, h) ==
    LET at == {i \in DOMAIN spec : spec[i].level = h.level}
        exact == {i \in at : spec[i].text = Key(h)}
        prefix == {i \in at : Prefixed(spec[i], h)}
    IN  IF exact # {} THEN {spec[Min0(exact)]}
        ELSE IF prefix # {} THEN {spec[Min0(prefix)]} ELSE {}

Parents(spec, kind) == {r.parent : r \in {q \in Range(spec) : q.kind = kind}} \ {""}
TopLevel(spec, kind) == \E r \in Range(spec) : r.kind = kind /\ r.parent = ""

Descends(spec, kind, ancestor) ==
    LET Up(kinds, rule) ==
            IF rule.kind \in kinds THEN kinds \union ({rule.parent} \ {""}) ELSE kinds
        Climb(kinds, i) == Once(kinds, LAMBDA ks : FoldLeft(Up, ks, spec))
    IN  ancestor \in FoldLeft(Climb, {kind}, [i \in DOMAIN spec |-> i])

(***************************************************************************)
(* Inference: a span runs to the next heading as shallow, or to a deeper   *)
(* one whose region this one cannot hold, without its trailing blank lines *)
(* and break; then children are nested and parents run to their last one.  *)
(***************************************************************************)
\* Mutant: by level alone.
ByLevel(doc, spec, h, kind) ==
    LET stops == {g \in LinesOf(doc, {"head"}, TRUE) : g > h /\ doc[g].level <= doc[h].level}
        end == IF stops = {} THEN Len(doc) ELSE Min0(stops) - 1
    IN  Max0({k \in h..end : k = h \/ doc[k].form \notin {"blank", "break"}})

SpanEnd(doc, spec, h, kind) ==
    LET Full(end) == Max0({k \in h..end : k = h \/ doc[k].form \notin {"blank", "break"}})
        Before(stops) == IF stops = {} THEN Len(doc) ELSE Min0(stops) - 1
    IN  Full(Before({g \in LinesOf(doc, {"head"}, TRUE) :
                        /\ g > h
                        /\ \/ doc[g].level <= doc[h].level
                           \/ \E r \in MatchRule(spec, doc[g]) : ~ Descends(spec, r.kind, kind)}))

NestOne(spec, rs, i) ==
    LET hosts == {j \in DOMAIN rs : /\ rs[j].kind \in Parents(spec, rs[i].kind)
                                    /\ rs[j].start <= rs[i].start /\ rs[j].end >= rs[i].start}
        host == Min0(hosts)
    IN  IF hosts = {} THEN rs
        ELSE [rs EXCEPT ![i].depth = rs[host].depth + 1,
                        ![host].end = IF @ < rs[i].end THEN rs[i].end ELSE @]

Nest(spec, rs) ==
    LET Step(acc, i) == Once(acc, LAMBDA a : NestOne(spec, a, i))
        nested == FoldLeft(Step, rs, [i \in DOMAIN rs |-> i])
    IN  SelectSeq(nested, LAMBDA r : \/ r.depth > 0 \/ TopLevel(spec, r.kind)
                                     \/ Parents(spec, r.kind) = {})

Marked(doc) == \E i \in LinesOf(doc, {"marker"}, FALSE) : doc[i].kind \notin Reserved

InferRegions(doc, spec) ==
    LET KindOf(h) == (CHOOSE r \in MatchRule(spec, doc[h]) : TRUE).kind
        Span(h, kind) == Region(kind, TRUE, 0, SpanEnd(doc, spec, h, kind) + 1, h - 1)
        Spans(opening) == << >> \o [i \in DOMAIN opening |-> Span(opening[i], KindOf(opening[i]))]
    IN  IF Marked(doc) THEN << >>
        ELSE Once(Spans(SelectSeq(Headings(doc), LAMBDA h : MatchRule(spec, doc[h]) # {})),
                  LAMBDA spans : Nest(spec, spans))

ResolveRegions(doc, spec) == IF Marked(doc) THEN Regions(doc) ELSE InferRegions(doc, spec)

(***************************************************************************)
(* InsertRegions on one document: lenient markers are respelled, and a     *)
(* document without markers is given those of its inferred regions.        *)
(***************************************************************************)
Canonicalize(doc) ==
    [i \in DOMAIN doc |-> IF i \in LinesOf(doc, {"marker"}, FALSE)
                          THEN Mark(doc[i].kind, doc[i].role, TRUE) ELSE doc[i]]

\* The regions that open above a line, or close below it, in the order of their depth; and
\* the markers of a list of them.
OpenAbove(regions, n) ==
    SortSeq(InOrder({i \in DOMAIN regions : n = regions[i].start + 1}),
            LAMBDA i, j : regions[i].depth < regions[j].depth)
CloseBelow(regions, n) ==
    SortSeq(InOrder({i \in DOMAIN regions : n = regions[i].end - 1}),
            LAMBDA i, j : regions[i].depth < regions[j].depth)
MarksOf(regions, list, role) == [k \in DOMAIN list |-> Mark(regions[list[k]].kind, role, TRUE)]

\* Mutants: the closers of one line as the openers, outermost first; the openers one line
\* lower; the closers in another spelling than the reader's.
SpliceFlat(doc, regions) ==
    FlattenSeq([n \in DOMAIN doc |->
        MarksOf(regions, OpenAbove(regions, n), "start") \o <<doc[n]>>
        \o MarksOf(regions, CloseBelow(regions, n), "end")])
SpliceBelow(doc, regions) ==
    FlattenSeq([n \in DOMAIN doc |->
        <<doc[n]>> \o MarksOf(regions, OpenAbove(regions, n), "start")
        \o Reverse(MarksOf(regions, CloseBelow(regions, n), "end"))])
SpliceLoose(doc, regions) ==
    FlattenSeq([n \in DOMAIN doc |->
        MarksOf(regions, OpenAbove(regions, n), "start") \o <<doc[n]>>
        \o Reverse([k \in DOMAIN CloseBelow(regions, n) |->
                        Mark(regions[CloseBelow(regions, n)[k]].kind, "end", FALSE)])])

SpliceMarkers(doc, regions) ==
    FlattenSeq([n \in DOMAIN doc |->
        MarksOf(regions, OpenAbove(regions, n), "start") \o <<doc[n]>>
        \o Reverse(MarksOf(regions, CloseBelow(regions, n), "end"))])

DoczRegions(doc) == SelectSeq(Regions(doc), LAMBDA r : r.kind \notin Reserved)

SpansReadBack(doc, out, want) ==
    LET Alike(got) == /\ Len(got) = Len(want)
                      /\ \A i \in DOMAIN got : /\ got[i].kind = want[i].kind
                                               /\ got[i].depth = want[i].depth /\ got[i].closed
    IN  IF Marked(doc) THEN Regions(out) = want ELSE Alike(DoczRegions(out))

\* Changed, Unchanged, or an error: the file is written only when changed.
Written(doc, out, regions) ==
    IF out = doc THEN [result |-> "unchanged", out |-> doc]
    ELSE IF SpansReadBack(doc, out, regions) THEN [result |-> "changed", out |-> out]
    ELSE [result |-> "malformed", out |-> doc]
WithMarkers(doc, regions) ==
    IF Marked(doc) THEN Canonicalize(doc) ELSE SpliceMarkers(Canonicalize(doc), regions)
InsertRegions(doc, spec) ==
    LET Into(regions) == Written(doc, WithMarkers(doc, regions), regions)
    IN  Into(ResolveRegions(doc, spec))

(***************************************************************************)
(* The table of contents: the first toc region, when it is closed, holds   *)
(* an entry for each heading below it, if there are enough of them.        *)
(***************************************************************************)
GenerateToC(below, minHeadings) ==
    LET Entries(heads, least, slugs) ==
            [i \in DOMAIN heads |-> Item(2 * (below[heads[i]].level - least), FALSE, slugs[i])]
        Of(heads) ==
            IF heads = << >> \/ Len(heads) < minHeadings THEN << >>
            ELSE <<Note>> \o Entries(heads, Min0({below[h].level : h \in Range(heads)}), Slugs(below))
                 \o <<Note>>
    IN  Of(Headings(below))

Replaced(doc, region, lines) ==
    SubSeq(doc, 1, region.start - 1) \o lines \o SubSeq(doc, region.end + 1, Len(doc))
ToCWith(entries) == <<Mark("toc", "start", TRUE)>> \o entries \o <<Mark("toc", "end", TRUE)>>
OfKind(doc, kind) == SelectSeq(Regions(doc), LAMBDA r : r.kind = kind)

\* The set of the rewritten document, or {} when there is no region to fill.
UpdatedIn(doc, tocs, minHeadings) ==
    IF tocs = << >> \/ ~ tocs[1].closed THEN {}
    ELSE LET below == SubSeq(doc, tocs[1].end + 1, Len(doc))
         IN  {Replaced(doc, tocs[1], ToCWith(GenerateToC(below, minHeadings)))}
UpdateToC(doc, minHeadings) == UpdatedIn(doc, OfKind(doc, "toc"), minHeadings)

(***************************************************************************)
(* The index of a README: the table goes into the first closed index       *)
(* region; a README is created from the type's header, which may bring its *)
(* own trailing pair; one without a pair is left alone ({}).               *)
(***************************************************************************)
IndexPair == <<Mark("index", "start", TRUE), Mark("index", "end", TRUE)>>

HasTrailingPair(header) ==
    LET Trailing(rs) == /\ rs # << >> /\ Last(rs).kind = "index" /\ Last(rs).closed
                        /\ \A i \in Last(rs).end + 1 .. Len(header) : header[i].form = "blank"
    IN  Trailing(Regions(header))

\* Mutant.
ScaffoldAlways(header) == header \o IndexPair
Scaffold(header) == IF HasTrailingPair(header) THEN header ELSE header \o IndexPair

Indexes(readme) == SelectSeq(OfKind(readme, "index"), LAMBDA r : r.closed)
TableWith(table) == <<IndexPair[1]>> \o table \o <<IndexPair[2]>>

SpliceRegion(readme, table) ==
    LET First(indexes) == SubSeq(indexes, 1, 1)
    IN  {Replaced(readme, r, TableWith(table)) : r \in Range(First(Indexes(readme)))}

Created(header, table) ==
    LET Filled(readme, spliced) == IF spliced = {} THEN {readme} ELSE spliced
        Of(readme) == Filled(readme, SpliceRegion(readme, table))
    IN  Of(Scaffold(header))
=============================================================================
