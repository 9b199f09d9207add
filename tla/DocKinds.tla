------------------------------ MODULE DocKinds ------------------------------
(***************************************************************************)
(* What a region of each kind holds (pkg/doczcore/kinds), and the rule the *)
(* validator applies to it (validate/kindrule.go).  Readers take the       *)
(* region's lines and number what they find in it, line 1 its heading;     *)
(* the Shift functions add the region's start.                             *)
(***************************************************************************)
EXTENDS DocRegions

BodyLines(region) == IF region = << >> THEN << >> ELSE Tail(region)

\* Mutant: the markers inside a region are prose.
ProseMarked(lines) ==
    Read(lines, {"closer", "break", "text", "quote", "item", "task", "row", "fence", "head", "marker"}, FALSE, TRUE)

\* stripComments, which knows no fences: the lines with something left on them.
Prose(lines) ==
    Read(lines, {"closer", "break", "text", "quote", "item", "task", "row", "fence", "head"}, FALSE, TRUE)
IsEmpty(region) == Prose(BodyLines(region)) = {}

Shift(found, at) ==
    [i \in DOMAIN found |-> [f \in DOMAIN found[i] |->
        IF f \in {"line", "last"} THEN found[i][f] + at.start ELSE found[i][f]]]

(***************************************************************************)
(* Lists: an item with the deeper lines below it, up to a blank line.      *)
(***************************************************************************)
Folds(lines, starts, i, n) ==
    /\ n <= Len(lines) /\ lines[n].form # "blank" /\ n \notin starts
    /\ lines[n].indent > lines[i].indent
FoldEnd(lines, starts, i) == Max0({n \in i..Len(lines) : \A k \in i + 1 .. n : Folds(lines, starts, i, k)})

\* `off` is what is added to a line's number: 1 where the heading was dropped.
FoldLines(lines, off) ==
    LET items == ListItems(lines)
        Folded(i) ==
            LET end == FoldEnd(lines, Range(items), i)
            IN  [indent |-> lines[i].indent, ordered |-> lines[i].ordered,
                 text |-> Words(lines[i]) \o FlattenSeq([k \in 1 .. end - i |-> lines[i + k].text]),
                 line |-> i + off]
    IN  [k \in DOMAIN items |-> Folded(items[k])]
TopItems(region) == SelectSeq(FoldLines(BodyLines(region), 1), LAMBDA it : it.indent = 0)

Items(region) == SelectSeq(TopItems(region), LAMBDA it : it.text # << >>)
References(region) == Items(region)
HasLink(item) == "link" \in Range(item.text)

Uncheck(item) == [item EXCEPT !.text = IF @ # << >> /\ @[1] = "[ ]" THEN Tail(@) ELSE @]
Criteria(region) ==
    LET bullets == SelectSeq(TopItems(region), LAMBDA it : ~ it.ordered)
    IN  SelectSeq([i \in DOMAIN bullets |-> Uncheck(bullets[i])], LAMBDA it : it.text # << >>)

(***************************************************************************)
(* Level-3 sections: questions with their options and resolution, and      *)
(* alternatives, which may be bullets instead.                             *)
(***************************************************************************)
Sections(region) ==
    LET lines == BodyLines(region)
        End(heads, i) == IF i < Len(heads) THEN heads[i + 1] - 1 ELSE Len(lines)
        At(heads) == [i \in DOMAIN heads |-> [number |-> lines[heads[i]].number, line |-> heads[i] + 1,
                                              last |-> End(heads, i) + 1]]
    IN  At(SelectSeq(Headings(lines), LAMBDA h : lines[h].level = 3))

Letters == {"a)", "b)"}
Within(section, line) == line > section.line /\ line <= section.last
Resolutions(region, s) ==
    {n \in DOMAIN region : /\ Within(s, n) /\ region[n].form = "quote"
                           /\ region[n].word = "Resolved"}

OpenQuestions(region) ==
    LET OptionsIn(s) == SelectSeq(TopItems(region), LAMBDA it :
                            Within(s, it.line) /\ it.text # << >> /\ it.text[1] \in Letters)
        Resolved(s) == IF Resolutions(region, s) = {} THEN << >>
                       ELSE <<Min0(Resolutions(region, s))>>
        Of(asked) == [i \in DOMAIN asked |->
            [number |-> asked[i].number, line |-> asked[i].line,
             options |-> OptionsIn(asked[i]), resolved |-> Resolved(asked[i])]]
    IN  Of(SelectSeq(Sections(region), LAMBDA s : s.number > 0))

ShiftQuestions(asked, at) ==
    [i \in DOMAIN asked |->
        [asked[i] EXCEPT !.line = @ + at.start, !.options = Shift(@, at),
                         !.resolved = [k \in DOMAIN @ |-> @[k] + at.start]]]

Alternatives(region) ==
    LET Else(sections) == IF sections # << >> THEN sections ELSE Items(region)
    IN  Else(Sections(region))

Column(table, name) == {i \in DOMAIN table.cells : table.cells[i] = name}
Numeral(cell) == IF cell \in {"1", "2"} THEN (IF cell = "1" THEN 1 ELSE 2) ELSE 0

\* The rows of the first table with both columns that are wide enough; 0 for no number.
Decisions(region) ==
    LET lines == BodyLines(region)
        At(t, name) == Min0(Column(lines[t], name))
        Wanted(t) == Column(lines[t], "question") # {} /\ Column(lines[t], "resolution") # {}
        Wide(t, r) == {At(t, "question"), At(t, "resolution")} \subseteq DOMAIN lines[r].cells
        Number(t, r) == IF Column(lines[t], "#") = {} THEN 0 ELSE Numeral(lines[r].cells[At(t, "#")])
        Read1(t, rows) == [i \in DOMAIN rows |-> [number |-> Number(t, rows[i]), line |-> rows[i] + 1]]
        Rows(t) == InOrder({r \in t + 2 .. TableEnd(lines, t) : Wide(t, r)})
        First(tables) == IF tables = << >> THEN << >> ELSE Read1(tables[1], Rows(tables[1]))
    IN  First(SelectSeq(Tables(lines), Wanted))

\* The value of the first "**label:**" line: the set of its words, or {} without one.
Field(region, label) ==
    LET at == {i \in DOMAIN BodyLines(region) : BodyLines(region)[i].kind = label
                                                /\ BodyLines(region)[i].form = "text"}
    IN  IF at = {} THEN {} ELSE {BodyLines(region)[Min0(at)].text}

(***************************************************************************)
(* The catalogue: which kinds a document holds once, and what each is      *)
(* checked for.  A finding is a code at a line.                            *)
(***************************************************************************)
Repeatable == {"phase", "procedure", "scenario"}
ListKinds == {"positive", "negative", "neutral", "goals", "non-goals", "in-scope",
              "out-of-scope", "when", "prerequisites", "verification"}
TableColumns ==
    ("risks" :> {"risk", "mitigation"}) @@ ("environment" :> {"component"})
    @@ ("file-changes" :> {"file", "action", "description"})
    @@ ("last-verified" :> {"date", "pr", "commit", "verified by"})
    @@ ("escalation" :> {"who", "when", "how"})
Finding(code, kind, line) == [kind |-> kind, line |-> line, code |-> code]
When(condition, finding) == IF condition THEN {finding} ELSE {}

CheckReferences(region, at) ==
    LET refs == References(region)
    IN  {Finding("references.no-link", "references", at.start + refs[i].line) :
            i \in {k \in DOMAIN refs : ~ HasLink(refs[k])}}

QuestionFindings(asked, at) ==
    LET Before(i) == IF i = 1 THEN 0 ELSE asked[i - 1].number
    IN  {Finding("open-questions.numbering", "open-questions", at.start + asked[i].line) :
            i \in {k \in DOMAIN asked : asked[k].number <= Before(k)}} \union
        {Finding("open-questions.no-options", "open-questions", at.start + asked[i].line) :
            i \in {k \in DOMAIN asked : asked[k].options = << >>}}
CheckOpenQuestions(region, at) == QuestionFindings(OpenQuestions(region), at)

CheckTasks(region, at) ==
    LET tasks == Range(TaskItems(region))
        items == Range(ListItems(region)) \ tasks
    IN  {Finding("tasks.nested-checkbox", "tasks", at.start + i) :
            i \in {k \in tasks : region[k].indent > 0}} \union
        {Finding("tasks.not-checkbox", "tasks", at.start + i) :
            i \in {k \in items : region[k].indent = 0 /\ Words(region[k]) # << >>}}

CheckCriteria(region, at) ==
    When(ListItems(region) # << >> /\ Criteria(region) = << >>,
         Finding("content.not-bullets", "criteria", at.start + ListItems(region)[1]))

CheckItems(region, at, kind) ==
    When(ListItems(region) = << >> /\ ~ IsEmpty(region),
         Finding("content.not-bullets", kind, at.start))

CheckOrderedList(region, at) ==
    LET bullets == {i \in Range(ListItems(region)) :
                        region[i].indent = 0 /\ ~ region[i].ordered /\ Words(region[i]) # << >>}
    IN  When(bullets # {}, Finding("content.not-ordered", "approach", at.start + Min0(bullets)))

CheckSteps(region, at) ==
    LET items == ListItems(region)
    IN  When(items # << >> /\ \A i \in Range(items) : ~ region[i].ordered,
             Finding("steps.not-ordered", "steps", at.start + items[1]))

CheckTable(region, at, kind, columns) ==
    LET tables == Tables(region)
    IN  IF tables = << >>
        THEN When(~ IsEmpty(region), Finding("content.no-table", kind, at.start))
        ELSE When(~ columns \subseteq Range(region[tables[1]].cells),
                  Finding("content.table-columns", kind, at.start + tables[1]))

Check(region, at) ==
    CASE at.kind = "references" -> CheckReferences(region, at)
      [] at.kind = "open-questions" -> CheckOpenQuestions(region, at)
      [] at.kind = "tasks" -> CheckTasks(region, at)
      [] at.kind = "criteria" -> CheckCriteria(region, at)
      [] at.kind \in ListKinds -> CheckItems(region, at, at.kind)
      [] at.kind = "approach" -> CheckOrderedList(region, at)
      [] at.kind = "steps" -> CheckSteps(region, at)
      [] at.kind \in DOMAIN TableColumns -> CheckTable(region, at, at.kind, TableColumns[at.kind])
      [] OTHER -> {}
=============================================================================
