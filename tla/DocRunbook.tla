----------------------------- MODULE DocRunbook -----------------------------
(***************************************************************************)
(* A runbook: the walk that turns the lines of a steps region into         *)
(* numbered steps with their commands (runbook/walk.go), the procedures    *)
(* and scenarios they belong to, and the rules of the type.                *)
(***************************************************************************)
EXTENDS DocPlans

(***************************************************************************)
(* The walk.  Steps are kept in the order of their lines, which is the     *)
(* order Steps() lists them in; `up` is a step's parent, 0 for none.  The  *)
(* stack holds the open steps, `expecting` the one whose expected output   *)
(* is being read, `fence` the one an open code block belongs to.           *)
(***************************************************************************)
Closed(state, indent) ==
    LET open == SelectSeq(state.stack, LAMBDA i : state.steps[i].indent < indent)
    IN  [state EXCEPT !.stack = open, !.expecting = @ \intersect Range(open)]

\* Mutant: a line extends the innermost open step alone.
TouchTop(state, n) ==
    IF state.stack = << >> THEN state ELSE [state EXCEPT !.steps[Last(state.stack)].end = n]

Touched(state, n) ==
    [state EXCEPT !.steps = [i \in DOMAIN @ |->
        IF i \in Range(state.stack) THEN [@[i] EXCEPT !.end = n] ELSE @[i]]]

Top(state) == IF state.stack = << >> THEN 0 ELSE Last(state.stack)
Added(state, field, line) ==
    IF Top(state) = 0 THEN state
    ELSE [state EXCEPT !.steps[Top(state)].parts = IF field = "parts" THEN Append(@, line) ELSE @,
                       !.steps[Top(state)].expected = IF field = "expected" THEN Append(@, line) ELSE @]

\* Mutant: a rollback's steps are numbered as the procedure's are.
NumberAlike(state, line, n, root) ==
    LET up == Top(state)
        base == IF up = 0 THEN root.prefix ELSE state.steps[up].id
        siblings == {i \in DOMAIN state.steps : state.steps[i].up = up}
    IN  [id |-> Append(base, ToString(Cardinality(siblings) + 1)), line |-> n, end |-> n, indent |-> line.indent, up |-> up,
         parts |-> << line >>, expected |-> << >>, commands |-> << >>]

NewStep(state, line, n, root) ==
    LET up == Top(state)
        siblings == {i \in DOMAIN state.steps : state.steps[i].up = up}
        base == IF up = 0 THEN root.prefix ELSE state.steps[up].id
        number == IF up = 0 /\ root.rollback THEN "R" \o ToString(Cardinality(siblings) + 1)
                  ELSE ToString(Cardinality(siblings) + 1)
    IN  [id |-> Append(base, number), line |-> n, end |-> n, indent |-> line.indent, up |-> up,
         parts |-> << line >>, expected |-> << >>, commands |-> << >>]

Pushed(state, step) ==
    [state EXCEPT !.steps = Append(@, step), !.stack = Append(@, Len(state.steps) + 1)]

CloseFence(state) ==
    [state EXCEPT !.fence = {}, !.body = << >>,
                  !.steps = [i \in DOMAIN @ |-> IF i \in state.fence
                                THEN [@[i] EXCEPT !.commands = Append(@, state.body)] ELSE @[i]]]
InFence(state, line, n) ==
    IF line.form = "fence" THEN CloseFence(Touched(state, n))
    ELSE Touched([state EXCEPT !.body = Append(@, line)], n)

WalkItem(state, line, n, root) ==
    LET shut == Closed([state EXCEPT !.expecting = {}], line.indent)
    IN  IF line.ordered THEN Touched(Pushed(shut, NewStep(shut, line, n, root)), n)
        ELSE Added(Touched(shut, n), "parts", line)

WalkText(state, line, n) ==
    LET shut == Touched(Closed(state, line.indent), n)
    IN  IF line.kind = "Expected"
        THEN [shut EXCEPT !.expecting = {Top(shut)} \ {0},
                          !.steps = [i \in DOMAIN @ |-> IF i = Top(shut)
                                        THEN [@[i] EXCEPT !.expected = <<line>>] ELSE @[i]]]
        ELSE Added(shut, IF Top(shut) \in shut.expecting THEN "expected" ELSE "parts", line)

WalkLine(state, line, n, root) ==
    CASE state.fence # {} -> InFence(state, line, n)
      [] line.form = "fence" ->
            Touched([state EXCEPT !.fence = {Top(state)}, !.body = << >>, !.expecting = {}], n)
      [] line.form = "blank" -> [state EXCEPT !.expecting = {}]
      [] line.form \in {"item", "task"} -> WalkItem(state, line, n, root)
      [] line.form = "head" -> [state EXCEPT !.stack = << >>, !.expecting = {}]
      [] OTHER -> WalkText(state, line, n)

ParseSteps(doc, at, root) ==
    LET start == [steps |-> << >>, stack |-> << >>, expecting |-> {}, fence |-> {}, body |-> << >>]
        walked == FoldLeft(LAMBDA s, n : WalkLine(s, doc[at.start + n], at.start + n, root), start,
                           [n \in DOMAIN Body(doc, at) |-> n])
    IN  CloseFence(walked).steps

(***************************************************************************)
(* Procedures and scenarios, the parts of a runbook that hold steps.       *)
(***************************************************************************)
ProcedureHeading(line) == line.word = "procedure" /\ line.token # "1/2" /\ line.tail # ""
ScenarioHeading(line) == line.word = "scenario" /\ line.token = "" /\ line.tail # ""
HeadsPart(kind, line) ==
    \/ kind = "procedure" /\ ProcedureHeading(line)
    \/ kind = "scenario" /\ ScenarioHeading(line)
TokenOf(line, index) == IF line.token = "" THEN ToString(index) ELSE line.token

Parts(doc, regions, kind) ==
    LET Part(i, line, children) ==
            [line |-> line, children |-> children,
             description |-> Description(doc, regions[i], line, children)]
        Of(i) == IF regions[i].kind = kind /\ regions[i].depth = 0 /\ regions[i].closed
                 THEN {Part(i, h, Children(regions, i)) :
                          h \in {l \in Heading3(doc, regions[i]) : HeadsPart(kind, doc[l])}}
                 ELSE {}
    IN  FlattenSeq([i \in DOMAIN regions |-> SetToSeq(Of(i))])

StepsIn(doc, at, prefix, rollback) ==
    IF at = << >> THEN << >> ELSE ParseSteps(doc, at[1], [prefix |-> prefix, rollback |-> rollback])

ReadProcedure(doc, part, token) ==
    [token |-> token, line |-> part.line, title |-> Title(doc[part.line]), description |-> part.description,
     steps |-> StepsIn(doc, ClosedOf(part.children, "steps"), Atoms(token), FALSE),
     rollback |-> StepsIn(doc, Reverse(ClosedOf(part.children, "rollback")), Atoms(token), TRUE)]
Procedures(doc, parts) ==
    [k \in DOMAIN parts |-> ReadProcedure(doc, parts[k], TokenOf(doc[parts[k].line], k))]

Scenarios(doc, parts) ==
    [k \in DOMAIN parts |->
        [line |-> parts[k].line, symptom |-> Title(doc[parts[k].line]), index |-> k,
         steps |-> StepsIn(doc, ClosedOf(parts[k].children, "steps"), << "S" \o ToString(k) >>, FALSE)]]

RunbookOf(procedures, scenarios) ==
    [procedures |-> procedures, scenarios |-> scenarios, again |-> DuplicateToken(procedures)]
RunbookIn(doc, regions) ==
    RunbookOf(Procedures(doc, Parts(doc, regions, "procedure")),
              Scenarios(doc, Parts(doc, regions, "scenario")))
ParseRunbook(doc) == RunbookIn(doc, ResolveRegions(doc, RunbookHeadings))

\* Steps(): the procedures' steps and rollbacks, then the scenarios' steps.
StepsOf(runbook) ==
    FlattenSeq([i \in DOMAIN runbook.procedures |->
                    runbook.procedures[i].steps \o runbook.procedures[i].rollback])
    \o FlattenSeq([i \in DOMAIN runbook.scenarios |-> runbook.scenarios[i].steps])

(***************************************************************************)
(* The rules of the type.                                                  *)
(***************************************************************************)
TopRegions(regions, kind) == SelectSeq(ClosedOf(regions, kind), LAMBDA r : r.depth = 0)

\* A field with the lines that continue it, up to a blank, a label or a table.
LongField(region, label) ==
    LET Stops(n) == region[n].form \in {"blank", "row", "marker"} \/ region[n].kind # ""
        at == Min0({n \in DOMAIN region : region[n].kind = label /\ region[n].form = "text"})
        end == Max0({n \in at..Len(region) : \A k \in at + 1 .. n : ~ Stops(k)})
    IN  IF Field(region, label) = {} THEN << >>
        ELSE FlattenSeq([k \in 1 .. end - at + 1 |-> region[at + k - 1].text])

\* The first row of the Last Verified table, unless it is blank: {} or one.
LastVerified(doc, regions) ==
    LET Cell(names, row, name) ==
            LET at == Column(names, name) \intersect DOMAIN row.cells
            IN  IF at = {} THEN "" ELSE row.cells[Max0(at)]
        Row1(names, row, line) ==
            IF \A c \in DOMAIN row.cells : row.cells[c] = "" THEN {}
            ELSE {[date |-> Cell(names, row, "date"), pr |-> Cell(names, row, "pr"),
                   commit |-> Cell(names, row, "commit"), by |-> Cell(names, row, "verified by"),
                   line |-> line]}
        First(region, start, tables) ==
            IF tables = << >> \/ RowsOf(region, tables[1]) = << >> THEN {}
            ELSE Row1(region[tables[1]], region[tables[1] + 2], start + tables[1] + 2)
        In(region, start) == First(region, start, Tables(region))
        Of(of) == IF of = << >> THEN {} ELSE In(Body(doc, Last(of)), Last(of).start)
    IN  Of(TopRegions(regions, "last-verified"))

CheckVerified(v) ==
    LET At(code) == Finding(code, "last-verified", v.line)
    IN  When(v.date = "bad", At("runbook.last-verified.bad-date"))
        \union When(v.pr = "bad", At("runbook.last-verified.bad-pr"))
        \union When(v.commit = "bad", At("runbook.last-verified.bad-commit"))
        \union When(v.date # "" /\ v.by = "", At("runbook.last-verified.no-verifier"))

EmptySteps(doc, steps) ==
    {Finding("runbook.step.empty", "steps", steps[i].line) :
        i \in {k \in DOMAIN steps : doc[steps[k].line].text = << >>}}

\* Bullets no deeper than the shallowest numbered item of a steps region.
StepLevelBullets(region, at) ==
    LET items == Range(ListItems(region))
        numbered == {i \in items : region[i].ordered}
        level == Min0({region[i].indent : i \in numbered})
    IN  IF numbered = {} THEN {}
        ELSE {Finding("runbook.step.unordered", "steps", at.start + i) :
                i \in {k \in items : ~ region[k].ordered /\ region[k].indent <= level}}

ValidateRunbook(doc, front, regions, runbook, verified) ==
    LET overview == ClosedOf(regions, "overview")
        owner == TopRegions(regions, "overview")
        tables == ClosedOf(regions, "last-verified")
        OfProcedure(p) ==
            When(p.title = "", Finding("runbook.procedure.no-title", "procedure", p.line))
            \union When(p.steps = << >>, Finding("runbook.procedure.no-steps", "procedure", p.line))
            \union EmptySteps(doc, p.steps) \union EmptySteps(doc, p.rollback)
        OfScenario(s) ==
            When(s.symptom = "", Finding("runbook.scenario.no-symptom", "scenario", s.line))
            \union When(s.steps = << >>, Finding("runbook.scenario.no-steps", "scenario", s.line))
            \union EmptySteps(doc, s.steps)
        rows == IF tables = << >> \/ Tables(Body(doc, tables[1])) = << >> THEN << >>
                ELSE RowsOf(Body(doc, tables[1]), Tables(Body(doc, tables[1]))[1])
    IN  IF runbook.again # {}
        THEN {Finding("runbook.procedure.duplicate-token", "procedure", line) : line \in runbook.again}
        ELSE When(/\ overview # << >>
                  /\ owner = << >> \/ LongField(Body(doc, Last(owner)), "Owner") = << >>,
                  Finding("runbook.overview.no-owner", "overview", overview[1].start))
             \union When(Len(rows) > 1, Finding("runbook.last-verified.extra-rows", "last-verified", tables[1].start))
             \union UNION {CheckVerified(v) : v \in verified}
             \union When(front.status = "Active" /\ verified = {},
                         Finding("runbook.last-verified.missing", "last-verified", 0))
             \union When(front.status = "Active" /\ runbook.procedures = << >> /\ runbook.scenarios = << >>,
                         Finding("runbook.status.no-procedure", "", 0))
             \union UNION {OfProcedure(p) : p \in Range(runbook.procedures)}
             \union UNION {OfScenario(s) : s \in Range(runbook.scenarios)}
             \union UNION {StepLevelBullets(Body(doc, r), r) : r \in Range(ClosedOf(regions, "steps"))}
=============================================================================
