------------------------------ MODULE DocPlans ------------------------------
(***************************************************************************)
(* The documents that address their items: an implementation plan, whose   *)
(* tasks are numbered within their phase (impl), a runbook, whose steps    *)
(* are numbered within their procedure or scenario (runbook), and the      *)
(* writer that checks a task off by its line (docwrite.SetTaskState).      *)
(*                                                                         *)
(* An id is a sequence of what its dots separate; Atoms is a heading's     *)
(* token cut at its dots, Fold its case folded.                            *)
(***************************************************************************)
EXTENDS DocTypes

Atoms(token) == IF token = "1.1" THEN <<"1", "1">> ELSE <<token>>
Fold(token) == IF token = "a" THEN "A" ELSE token

ImplHeadings ==
    << Section("objective", "objective"), Section("scope", "scope"),
       Sub("in-scope", 3, "in scope", "scope"), Sub("out-of-scope", 3, "out of scope", "scope"),
       Rule("phase", 3, << >>, <<"phase">>, ""), Sub("tasks", 4, "tasks", "phase"),
       Sub("criteria", 4, "success criteria", "phase"), Section("file-changes", "file changes"),
       Section("testing", "testing plan"), Section("dependencies", "dependencies") >>
    \o SharedDefaults
RunbookHeadings ==
    << Section("last-verified", "last verified"), Section("overview", "overview"),
       Section("when", "when to use"), Section("prerequisites", "prerequisites"),
       Rule("procedure", 3, << >>, <<"procedure">>, ""), Sub("steps", 4, "steps", "procedure"),
       Sub("verification", 4, "verification", "procedure"), Sub("rollback", 4, "rollback", "procedure"),
       Rule("scenario", 3, << >>, <<"scenario", ":">>, ""), Sub("steps", 4, "steps", "scenario"),
       Section("escalation", "escalation") >> \o SharedDefaults

(***************************************************************************)
(* A phase, procedure or scenario: a region, its first level-3 heading,    *)
(* its children one level down, and the prose before the first of them.    *)
(***************************************************************************)
Heading3(doc, region) ==
    LET heads == {h \in Range(Headings(Body(doc, region))) : doc[region.start + h].level = 3}
    IN  IF heads = {} THEN {} ELSE {region.start + Min0(heads)}
Title(line) == IF line.tail = ":" THEN "" ELSE line.tail

\* Mutant: the children of the parts that follow are children too.
ChildrenBelow(regions, i) ==
    SelectSeq(SubSeq(regions, i + 1, Len(regions)),
              LAMBDA r : r.depth = regions[i].depth + 1 /\ r.closed)

Children(regions, i) ==
    SelectSeq(SubSeq(regions, i + 1, Len(regions)),
              LAMBDA r : r.start <= regions[i].end /\ r.depth = regions[i].depth + 1 /\ r.closed)
Between(doc, region, line, children) ==
    SubSeq(doc, line + 1, (IF children = << >> THEN region.end ELSE children[1].start) - 1)
Description(doc, region, line, children) ==
    LET lines == Between(doc, region, line, children) IN {lines[i] : i \in Prose(lines)}

\* The second line that claims a token already claimed, {} for none.
DuplicateToken(parts) ==
    LET twice == {i \in DOMAIN parts : \E j \in DOMAIN parts : j > i /\ Fold(parts[j].token) = Fold(parts[i].token)}
        again == {j \in DOMAIN parts : j > Min0(twice) /\ Fold(parts[j].token) = Fold(parts[Min0(twice)].token)}
    IN  IF twice = {} THEN {} ELSE {parts[Min0(again)].line}

(***************************************************************************)
(* Tasks: the checkboxes at column 0 of a tasks region, numbered in order, *)
(* each with the deeper lines below it up to a blank line or the next item.*)
(***************************************************************************)
VerifyLine(line) == line.form = "text" /\ line.text # << >> /\ line.text[1] = "verify"
After(words, word) == SubSeq(words, SelectInSeq(words, LAMBDA w : w = word) + 1, Len(words))
Before(words, word) == SubSeq(words, 1, SelectInSeq(words, LAMBDA w : w = word) - 1)
Has(words, word) == word \in Range(words)

BuildTask(region, starts, item, offset, id) ==
    LET end == FoldEnd(region, starts, item)
        below == [k \in 1 .. end - item |-> item + k]
        verify == SelectSeq(below, LAMBDA n : VerifyLine(region[n]) /\ Len(region[n].text) > 1)
        parts == <<item>> \o SelectSeq(below, LAMBDA n : ~ VerifyLine(region[n]))
        Deferring == SelectSeq(parts, LAMBDA n : Has(region[n].text, "deferred"))
        Struck(words) == words # << >> /\ words[1] = "~~" /\ Has(words, "skipped")
        Kept(words) == IF Struck(words) THEN Tail(Before(words, "skipped")) ELSE words
        Undeferred(kept) == IF Has(kept, "deferred") THEN Before(kept, "deferred") ELSE kept
        Built(words, deferring) ==
            [id |-> id, checked |-> region[item].ok, line |-> offset + item, end |-> offset + end,
             text |-> Undeferred(Kept(words)),
             verify |-> IF verify = << >> THEN << >> ELSE Tail(region[verify[1]].text),
             deferred |-> IF deferring = << >> THEN {}
                          ELSE {[note |-> After(words, "deferred"), line |-> offset + deferring[1]]},
             skipped |-> IF Struck(words) THEN {[note |-> After(words, "skipped"), line |-> offset + item]}
                         ELSE {}]
    IN  Built(FlattenSeq([k \in DOMAIN parts |-> region[parts[k]].text]), Deferring)

ParseTasks(doc, at, token) ==
    LET region == Body(doc, at)
        items == TaskItems(region)
        starts == Range(ListItems(region)) \union Range(items)
        own == SelectSeq(items, LAMBDA i : region[i].indent = 0)
    IN  [k \in DOMAIN own |->
            BuildTask(region, starts, own[k], at.start, Append(Atoms(token), ToString(k)))]

PhaseHeading(line) == line.word = "phase" /\ line.token \notin {"", "1/2"} /\ line.tail # ""

ParsePhase(doc, regions, i) ==
    LET heads == {h \in Heading3(doc, regions[i]) : PhaseHeading(doc[h])}
        Of(line) ==
            LET children == Children(regions, i)
                tasks == ClosedOf(children, "tasks")
                criteria == ClosedOf(children, "criteria")
            IN  [token |-> doc[line].token, title |-> Title(doc[line]), line |-> line,
                 description |-> Description(doc, regions[i], line, children),
                 tasks |-> IF tasks = << >> THEN << >> ELSE ParseTasks(doc, Last(tasks), doc[line].token),
                 criteria |-> IF criteria = << >> THEN << >>
                              ELSE Shift(Criteria(Body(doc, Last(criteria))), Last(criteria))]
    IN  IF heads = {} THEN << >> ELSE <<Of(CHOOSE h \in heads : TRUE)>>

PhaseRegions(regions) ==
    SelectSeq([i \in DOMAIN regions |-> i],
              LAMBDA i : regions[i].kind = "phase" /\ regions[i].depth = 0 /\ regions[i].closed)

\* The phases, and the error that makes Parse refuse them ("" for none).
PlanOf(phases) ==
    LET again == DuplicateToken(phases)
    IN  [phases |-> phases, again |-> again,
         error |-> IF phases = << >> THEN "no phases" ELSE IF again # {} THEN "duplicate" ELSE ""]
PhasesIn(doc, regions) ==
    LET at == PhaseRegions(regions)
    IN  PlanOf(FlattenSeq([k \in DOMAIN at |-> ParsePhase(doc, regions, at[k])]))
ParsePhases(doc) == PhasesIn(doc, ResolveRegions(doc, ImplHeadings))

Tasks(plan) == FlattenSeq([i \in DOMAIN plan.phases |-> plan.phases[i].tasks])
Progress(plan) ==
    LET counted == SelectSeq(Tasks(plan), LAMBDA t : t.skipped = {})
    IN  [done |-> Len(SelectSeq(counted, LAMBDA t : t.checked)), total |-> Len(counted)]

TaskFindings(doc, task) ==
    When(task.text = << >>, Finding("impl.task.empty", "tasks", task.line))
    \union When(/\ task.verify = << >>
                /\ \E n \in task.line + 1 .. task.end : VerifyLine(doc[n]),
                Finding("impl.task.verify-no-command", "tasks", task.line))
    \union {Finding("impl.task.skipped-no-note", "tasks", s.line) :
                s \in {m \in task.skipped : m.note = << >>}}

ValidateImpl(doc, regions, plan) ==
    LET read == {plan.phases[i].line : i \in DOMAIN plan.phases}
        lost == {i \in Range(PhaseRegions(regions)) : Heading3(doc, regions[i]) \intersect read = {}}
        OfPhase(p) ==
            When(p.title = "", Finding("impl.phase.no-title", "phase", p.line))
            \union When(p.tasks = << >>, Finding("impl.phase.no-tasks", "phase", p.line))
            \union UNION {TaskFindings(doc, t) : t \in Range(p.tasks)}
    IN  CASE plan.error = "no phases" -> {Finding("impl.parse", "", 0)}
          [] plan.error = "duplicate" ->
                {Finding("impl.phase.duplicate-token", "phase", line) : line \in plan.again}
          [] OTHER -> {Finding("impl.phase.no-heading", "phase", regions[i].start) : i \in lost}
                      \union UNION {OfPhase(p) : p \in Range(plan.phases)}

\* The other fields of a plan: prose, lists, the file table and the testing boxes.
ImplFields(doc, regions) ==
    LET Of(kind) == ClosedOf(regions, kind)
        ReadLast(kind, Reader(_, _)) ==
            IF Of(kind) = << >> THEN << >> ELSE Reader(Body(doc, Last(Of(kind))), Last(Of(kind)))
        Boxes(region, at) ==
            LET items == TaskItems(region) IN [k \in DOMAIN items |-> at.start + items[k]]
        Changes(region, at) == TableRows(region, at, {1, 3})
        List(region, at) == Shift(Items(region), at)
        Ids(region, at) == IF Field(region, "Implements") = {} THEN << >>
                           ELSE SelectSeq(CHOOSE w \in Field(region, "Implements") : TRUE, LAMBDA w : w \in IDs)
    IN  [implements |-> ReadLast("objective", Ids), inScope |-> ReadLast("in-scope", List),
         outOfScope |-> ReadLast("out-of-scope", List), fileChanges |-> ReadLast("file-changes", Changes),
         testing |-> ReadLast("testing", Boxes),
         shared |-> [k \in {"open-questions", "decisions", "references"} |-> ReadKind(doc, regions, k)]]
ParseImpl(doc) == ImplFields(doc, ResolveRegions(doc, ImplHeadings))

(***************************************************************************)
(* SetTaskState: the box of one line is set, when that line is one and is  *)
(* not set already; every other line is kept.                              *)
(***************************************************************************)
\* Mutant: the line is counted from 0.
SetNextLine(doc, line, checked) ==
    IF line \notin 1 .. Len(doc) - 1 THEN [result |-> "range", out |-> doc]
    ELSE IF doc[line + 1].form # "task" THEN [result |-> "not a task", out |-> doc]
    ELSE [result |-> "set", out |-> [doc EXCEPT ![line + 1].ok = checked]]

SetTaskState(doc, line, checked) ==
    IF line \notin 1 .. Len(doc) + 1 THEN [result |-> "range", out |-> doc]
    ELSE IF line > Len(doc) \/ doc[line].form # "task" THEN [result |-> "not a task", out |-> doc]
    ELSE IF doc[line].ok = checked THEN [result |-> "already", out |-> doc]
    ELSE [result |-> "set", out |-> [doc EXCEPT ![line].ok = checked]]
=============================================================================
