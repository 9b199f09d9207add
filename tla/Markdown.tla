------------------------------ MODULE Markdown ------------------------------
(***************************************************************************)
(* A document as docparse reads it: a sequence of lines, each of one form, *)
(* each ended by a newline.  A line keeps what a reader of docparse can    *)
(* tell apart: a marker its kind, role and spelling, a heading its level   *)
(* and text, a list item its indent and words, a table row its cells.      *)
(* Lines are numbered from 1, as in the code.                              *)
(***************************************************************************)
EXTENDS Integers, FiniteSets, SequencesExt

Blank == [cells |-> << >>, form |-> "blank", indent |-> 0, kind |-> "", level |-> 0,
          note |-> FALSE, number |-> 0, ok |-> TRUE, ordered |-> FALSE, role |-> "",
          tail |-> "", text |-> << >>, token |-> "", word |-> ""]

Mark(kind, role, canonical) ==
    [Blank EXCEPT !.form = "marker", !.kind = kind, !.role = role, !.ok = canonical]
Fence == [Blank EXCEPT !.form = "fence"]
Opener == [Blank EXCEPT !.form = "opener"]      \* "<!-- ...", closed on a later line
Closer == [Blank EXCEPT !.form = "closer"]      \* "... -->"
Note == [Blank EXCEPT !.form = "note"]          \* "<!-- ... -->"
Break == [Blank EXCEPT !.form = "break"]        \* "---"
Text(indent, text) == [Blank EXCEPT !.form = "text", !.indent = indent, !.text = text]
Labelled(label, text) == [Text(0, text) EXCEPT !.kind = label]      \* "**Label:** text"
Quote(word, choice) == [Blank EXCEPT !.form = "quote", !.word = word, !.token = choice]
Item(indent, ordered, text) ==
    [Blank EXCEPT !.form = "item", !.indent = indent, !.ordered = ordered, !.text = text]
Task(indent, checked, text) ==
    [Blank EXCEPT !.form = "task", !.indent = indent, !.ok = checked, !.text = text]
Row(cells) == [Blank EXCEPT !.form = "row", !.cells = cells]
Delimiter == [Row(<<"-", "-">>) EXCEPT !.ordered = TRUE]

\* A heading "word", "word token: tail" or "word: tail"; colon is kept in tail ("" for none),
\* note says that it holds a comment, as a template's placeholder does.
Heading(level, word, token, tail) ==
    [Blank EXCEPT !.form = "head", !.level = level, !.word = word, !.token = token,
                  !.tail = tail, !.note = (tail = ":")]
Question(number) == [Heading(3, "", "", "") EXCEPT !.number = number]

\* Op(value), the value evaluated once whatever use Op makes of it.
Once(value, Op(_)) == CHOOSE result \in {Op(v) : v \in {value}} : TRUE

Min0(S) == CHOOSE x \in S : \A y \in S : x <= y
Max0(S) == CHOOSE x \in S : \A y \in S : x >= y

(***************************************************************************)
(* Blocks.  A fence is toggled by its lines; a comment that a line opens   *)
(* and leaves open ends on the first line that holds "-->", a marker too.  *)
(* Every reader skips fenced lines; Headings, TaskItems and Title skip     *)
(* comment blocks as well (blockSkipper).                                  *)
(***************************************************************************)
Closes(line) == line.form \in {"closer", "note", "marker"}

\* The reader's state after each line: in a fence, in a comment, or in prose.
Blocks(doc, fences, comments) ==
    LET Move(state, line) ==
            CASE state = "comment" -> IF Closes(line) THEN "prose" ELSE "comment"
              [] state # "comment" /\ fences /\ line.form = "fence" ->
                    IF state = "fence" THEN "prose" ELSE "fence"
              [] state = "prose" /\ comments /\ line.form = "opener" -> "comment"
              [] OTHER -> state
        after[i \in 0..Len(doc)] == IF i = 0 THEN "prose" ELSE Move(after[i - 1], doc[i])
    IN  after
Read(doc, forms, fences, comments) ==
    LET InProse(after) == {i \in DOMAIN doc : /\ doc[i].form \in forms
                                              /\ after[i - 1] = "prose" /\ after[i] = "prose"}
    IN  InProse(Blocks(doc, fences, comments))

\* The numbers of the lines of some forms that a reader sees.
LinesOf(doc, forms, comments) == Read(doc, forms, TRUE, comments)

InOrder(lines) == SelectSeq([i \in 1..Max0(lines \union {0}) |-> i], LAMBDA i : i \in lines)

Markers(doc) == InOrder(LinesOf(doc, {"marker"}, FALSE))
Headings(doc) == InOrder(LinesOf(doc, {"head"}, TRUE))
TaskItems(doc) == InOrder(LinesOf(doc, {"task"}, TRUE))
ListItems(doc) == InOrder(LinesOf(doc, {"item", "task"}, FALSE))

\* A checkbox is a list item whose words begin with its box.
Words(line) == IF line.form = "task" THEN <<"[ ]">> \o line.text ELSE line.text

(***************************************************************************)
(* Tables: a row, a delimiter row, and the rows that follow.               *)
(***************************************************************************)
IsRow(line) == line.form = "row"
TableEnd(doc, i) == Max0({j \in i + 1 .. Len(doc) : \A k \in i..j : IsRow(doc[k])})

Tables(doc) ==
    LET Outermost(heads) == {i \in heads : \A h \in heads : h < i => TableEnd(doc, h) < i}
    IN  InOrder(Outermost({i \in LinesOf(doc, {"row"}, FALSE) :
                              i < Len(doc) /\ IsRow(doc[i + 1]) /\ doc[i + 1].ordered}))
RowsOf(doc, i) == SubSeq(doc, i + 2, TableEnd(doc, i))

(***************************************************************************)
(* Regions: from a start marker to the end marker of its kind, nested as   *)
(* the markers are.  An end marker closes the innermost open region of its *)
(* kind; the ones inside it are given up there, unclosed.  An end marker   *)
(* that no open region matches is ignored, a region still open at the end  *)
(* of the document runs to it.                                             *)
(***************************************************************************)
Region(kind, closed, depth, end, start) ==
    [kind |-> kind, closed |-> closed, depth |-> depth, end |-> end, start |-> start]
Given(doc, stack, from, line) ==
    {Region(doc[stack[i]].kind, FALSE, i - 1, line, stack[i]) : i \in from..Len(stack)}

Close(doc, state, line) ==
    LET stack == state.stack
        open == {i \in DOMAIN stack : doc[stack[i]].kind = doc[line].kind}
        at == Max0(open)
    IN  IF open = {} THEN state
        ELSE [out |-> state.out \union Given(doc, stack, at + 1, line) \union
                      {Region(doc[line].kind, TRUE, at - 1, line, stack[at])},
              stack |-> SubSeq(stack, 1, at - 1)]

ByStart(regions) ==
    LET starts == InOrder({r.start : r \in regions})
    IN  [i \in DOMAIN starts |-> CHOOSE r \in regions : r.start = starts[i]]
Regions(doc) ==
    LET Take(state, line) ==
            IF doc[line].role = "start" THEN [state EXCEPT !.stack = Append(@, line)]
            ELSE Close(doc, state, line)
        Left(read) == read.out \union Given(doc, read.stack, 1, Len(doc) + 1)
    IN  ByStart(Left(FoldLeft(Take, [out |-> {}, stack |-> << >>], Markers(doc))))

\* RegionBytes: the lines strictly between the markers.
Body(doc, region) == SubSeq(doc, region.start + 1, region.end - 1)

\* The innermost region one level up that holds regions[i].
Parent(regions, i) ==
    {regions[j] : j \in {k \in 1 .. i - 1 :
        /\ regions[i].depth > 0
        /\ regions[k].depth = regions[i].depth - 1
        /\ regions[k].start < regions[i].start /\ regions[k].end >= regions[i].end}}
ParentKind(regions, i) ==
    IF Parent(regions, i) = {} THEN ""
    ELSE (CHOOSE p \in Parent(regions, i) : \A q \in Parent(regions, i) : q.start <= p.start).kind

(***************************************************************************)
(* Anchors: the slug of each heading in order, made unique by a counter    *)
(* kept for the slug it repeats.  A slug is a sequence of words.           *)
(***************************************************************************)
Slug(line) == SelectSeq(<<line.word, line.token, line.tail>>, LAMBDA w : w \notin {"", ":"})

\* Mutant: only the repeated slug is remembered, not the one made for it.
ForgetResult(taken, slug) ==
    IF slug \notin DOMAIN taken THEN [result |-> slug, taken |-> (slug :> 0) @@ taken]
    ELSE [result |-> Append(slug, ToString(taken[slug] + 1)),
          taken |-> [taken EXCEPT ![slug] = @ + 1]]

UniqueSlug(taken, slug) ==
    IF slug \notin DOMAIN taken THEN [result |-> slug, taken |-> (slug :> 0) @@ taken]
    ELSE LET free == {n \in taken[slug] + 1 .. taken[slug] + Cardinality(DOMAIN taken) :
                          Append(slug, ToString(n)) \notin DOMAIN taken}
             result == Append(slug, ToString(Min0(free)))
         IN  [result |-> result, taken |-> (result :> 0) @@ [taken EXCEPT ![slug] = Min0(free)]]

Slugs(doc) ==
    LET Take(state, line) ==
            LET unique == UniqueSlug(state.taken, Slug(doc[line]))
            IN  [taken |-> unique.taken, out |-> Append(state.out, unique.result)]
    IN  FoldLeft(Take, [taken |-> << >>, out |-> << >>], Headings(doc)).out
=============================================================================
