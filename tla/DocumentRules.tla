--------------------------- MODULE DocumentRules ---------------------------
(***************************************************************************)
(* The readers, the writers and the checks of a document, applied to one   *)
(* input at a time, as ConfigRules does for the configuration.             *)
(*                                                                         *)
(*   "fix"      a document of a type, put through `docz validate --fix`    *)
(*   "template" a template, migrating a document made from it              *)
(*   "mark"     a document with markers of its own, validated              *)
(*   "toc"      a document, put through the update of its contents table   *)
(*   "index"    a README's header and table, created and updated           *)
(*   "plan"     an implementation plan, its tasks ticked one by one        *)
(*   "runbook"  a runbook, its steps addressed                             *)
(*   "create"   a type and the number of its next document                 *)
(*   "run"      the types of a repository, validated in some order         *)
(***************************************************************************)
EXTENDS DocRunbook

\* The inputs of each kind.  A pool has the pieces, of a few lines each, its documents are
\* put together from, and how many at most; Plans and Runbooks also take whole documents.
CONSTANTS Fixes, Templates, Marks, Contents, Indices, PlanPool, Plans, RunbookPool, Runbooks, Creations, Runs

VARIABLES input, output
vars == <<input, output>>

None == [kind |-> "none"]

HeadingsOf(type) ==
    CASE type = "rfc" -> RFCHeadings [] type = "adr" -> ADRHeadings [] type = "design" -> DesignHeadings
      [] type = "inv" -> InvestigationHeadings [] type = "impl" -> ImplHeadings
      [] type = "runbook" -> RunbookHeadings
SchemaOf(type) == {[kind |-> r.kind, parent |-> r.parent] : r \in Range(HeadingsOf(type))}

TypeFindings(type, doc, front, regions) ==
    CASE front # {} /\ type = "impl" -> ValidateImpl(doc, regions, PhasesIn(doc, regions))
      [] front # {} /\ type = "runbook" ->
            UNION {ValidateRunbook(doc, f, regions, RunbookIn(doc, regions), LastVerified(doc, regions)) :
                     f \in front}
      [] OTHER -> TypedFindings(type, doc, front, regions, ParseIn(doc, regions, HeadingsOf(type)))
AllFindings(doc, type, front) ==
    LET Of(regions) == DocumentFindings(doc, regions, SchemaOf(type), 1)
                       \union TypeFindings(type, doc, front, regions)
    IN  Of(ResolveRegions(doc, HeadingsOf(type)))

\* A marked procedure around the lines of its steps, with a rollback of one step.
Procedure(token, steps) ==
    <<Mark("procedure", "start", TRUE), Heading(3, "procedure", token, "x"), Mark("steps", "start", TRUE)>>
    \o steps \o <<Mark("steps", "end", TRUE), Mark("rollback", "start", TRUE), Item(0, TRUE, <<"r">>),
                  Mark("rollback", "end", TRUE), Mark("procedure", "end", TRUE)>>

Init ==
    /\ output = None
    /\ \/ \E pool \in Fixes, n \in 1..5 : \E s \in [1..n -> pool.pieces], front \in pool.fronts :
              n <= pool.size /\ input = [kind |-> "fix", type |-> pool.type, doc |-> FlattenSeq(s), front |-> front]
       \/ \E n \in 1..Templates.size : \E s \in [1..n -> Templates.pieces] :
              input = [kind |-> "template", doc |-> FlattenSeq(s)]
       \/ \E n \in 1..Marks.size : \E s \in [1..n -> Marks.pieces] :
              input = [kind |-> "mark", doc |-> FlattenSeq(s)]
       \/ \E n \in 1..Contents.size : \E s \in [1..n -> Contents.pieces], min \in {0, 2} :
              input = [kind |-> "toc", doc |-> FlattenSeq(s), min |-> min]
       \/ \E n \in 1..Indices.size : \E s \in [1..n -> Indices.pieces] :
              input = [kind |-> "index", header |-> FlattenSeq(s), table |-> Indices.table]
       \/ \E n \in 1..PlanPool.size : \E s \in [1..n -> PlanPool.pieces] :
              input = [kind |-> "plan", doc |-> FlattenSeq(s)]
       \/ \E plan \in Plans : \E doc \in plan : input = [kind |-> "plan", doc |-> doc]
       \/ \E n \in 1..RunbookPool.size : \E s \in [1..n -> RunbookPool.pieces], token \in RunbookPool.tokens :
              input = [kind |-> "runbook", doc |-> Procedure(token, FlattenSeq(s))]
       \/ \E book \in Runbooks : input = [kind |-> "runbook", doc |-> book]
       \/ input \in Creations
       \/ input \in Runs

Unmarked(doc) == SelectSeq(doc, LAMBDA line : line.form # "marker")

Apply(kind, result) ==
    /\ input.kind = kind /\ output = None
    /\ output' = result
    /\ UNCHANGED input

Fixed(headings, fixed, findings) ==
    [kind |-> "fix", regions |-> ResolveRegions(input.doc, headings),
     fixed |-> fixed, again |-> InsertRegions(fixed.out, headings),
     before |-> findings[input.doc], after |-> findings[fixed.out]]
Fix ==
    LET Reported(doc) == [d \in {input.doc, doc} |-> AllFindings(d, input.type, input.front)]
        With(headings, fixed) == Fixed(headings, fixed, Reported(fixed.out))
        Of(headings) == With(headings, InsertRegions(input.doc, headings))
    IN  Apply("fix", Of(HeadingsOf(input.type)))

Migrate ==
    LET With(spec) == [kind |-> "template", spec |-> spec,
                       fixed |-> InsertRegions(Unmarked(input.doc), spec)]
    IN  Apply("template", With(SpecFromTemplate(input.doc)))

Validate ==
    Apply("mark", [kind |-> "mark", regions |-> Regions(input.doc), findings |-> CheckMarkers(input.doc)])

UpdateContents ==
    LET With(reported) ==
            [kind |-> "toc", updated |-> UpdateToC(input.doc, input.min),
             findings |-> reported \union TocDrift(input.doc, input.min, TRUE, reported),
             slugs |-> Slugs(input.doc)]
    IN  Apply("toc", With(CheckToC(input.doc, {}, input.min)))

UpdateIndex ==
    LET created == CHOOSE r \in Created(input.header, input.table) : TRUE
    IN  Apply("index", [kind |-> "index", created |-> created,
                        again |-> SpliceRegion(created, input.table),
                        drifted |-> IndexDrifted({created}, input.table)])

Ticked(plan) ==
    [i \in DOMAIN Tasks(plan) |->
        SetTaskState(input.doc, Tasks(plan)[i].line, ~ Tasks(plan)[i].checked)]
Tick ==
    LET Read1(plan) ==
            [kind |-> "plan", plan |-> plan, fields |-> ParseImpl(input.doc),
             findings |-> AllFindings(input.doc, "impl", {[id |-> "", status |-> "Draft"]}),
             ticked |-> Ticked(plan)]
    IN  Apply("plan", Read1(ParsePhases(input.doc)))

Address ==
    Apply("runbook", [kind |-> "runbook", runbook |-> ParseRunbook(input.doc),
                      findings |-> AllFindings(input.doc, "runbook", {[id |-> "", status |-> "Active"]})])

Create ==
    Apply("create", [kind |-> "create", findings |-> CreatedFindings(input.type, input.number)])

Run ==
    Apply("run", [kind |-> "run", report |-> ValidateTypes(input.repo, input.types)])

Next == Fix \/ Migrate \/ Validate \/ UpdateContents \/ UpdateIndex \/ Tick \/ Address \/ Create \/ Run
Spec == Init /\ [][Next]_vars

Did(kind) == output.kind = kind

-----------------------------------------------------------------------------
(***************************************************************************)
(* `docz validate --fix`.                                                  *)
(***************************************************************************)
SpanOf(doc, region) == Unmarked(SubSeq(doc, region.start + 1, region.end - 1))

(***************************************************************************)
(* Where a blank line stands above every heading, InsertRegions gives up   *)
(* only on a document that ends in an open code block, and the markers it  *)
(* writes hold the lines the regions were inferred over: a reader of the   *)
(* markers sees what a reader of the headings saw.                         *)
(***************************************************************************)
OpenBlock(doc) == Blocks(doc, TRUE, FALSE)[Len(doc)] = "fence"
Spaced(doc) == \A i \in 2..Len(doc) : doc[i].form = "head" => doc[i - 1].form = "blank"
MarkedAsInferred ==
    Did("fix") =>
        /\ output.fixed.result = "malformed" => OpenBlock(input.doc) \/ ~ Spaced(input.doc)
        /\ Unmarked(output.fixed.out) = Unmarked(input.doc)
        /\ output.fixed.result # "malformed" /\ ~ Marked(input.doc) =>
             LET got == DoczRegions(output.fixed.out)
             IN  /\ Len(got) = Len(output.regions)
                 /\ \A i \in DOMAIN got :
                        SpanOf(output.fixed.out, got[i]) = SpanOf(input.doc, output.regions[i])

(***************************************************************************)
(* A second --fix finds nothing to do, whatever the first one wrote.       *)
(***************************************************************************)
FixSettles ==
    Did("fix") /\ output.fixed.result # "malformed" =>
        output.again = [result |-> "unchanged", out |-> output.fixed.out]

(***************************************************************************)
(* The spans inferred from headings nest as markers do: two of them are    *)
(* disjoint, or one holds the other and is less deep.                      *)
(***************************************************************************)
Nested(regions) ==
    \A i, j \in DOMAIN regions :
        i < j => \/ regions[j].start >= regions[i].end - 1
                 \/ regions[j].end <= regions[i].end /\ regions[j].depth > regions[i].depth
InferredNest == Did("fix") /\ Spaced(input.doc) /\ ~ Marked(input.doc) => Nested(output.regions)

(***************************************************************************)
(* kinds/infer.go:316-321: the rule on deeper headings keeps two regions   *)
(* from overlapping; a child may still be given a parent that ends on the  *)
(* line above it.                                                          *)
(***************************************************************************)
NeverOverlap == Did("fix") /\ ~ Marked(input.doc) => Nested(output.regions)

(***************************************************************************)
(* The rules say the same of a document before and after its markers are   *)
(* written, but for the two findings --fix is there to settle: how many    *)
(* findings of each code and kind, the type's own rules included.          *)
(***************************************************************************)
Settled == {"region.inferred", "marker.spelling"}
Tally(findings) ==
    LET kept == {f \in findings : f.code \notin Settled}
    IN  [ck \in {<<f.code, f.kind>> : f \in kept} |-> Cardinality({f \in kept : <<f.code, f.kind>> = ck})]
FixKeepsFindings == Did("fix") => Tally(output.before) = Tally(output.after)

(***************************************************************************)
(* What a type's Parse reads from the markers is what it read from the     *)
(* headings: every field the same, its lines the same lines.               *)
(***************************************************************************)
ReadBack(doc, reading) ==
    [i \in DOMAIN reading |->
        IF "line" \notin DOMAIN reading[i] THEN <<reading[i]>>
        ELSE <<doc[reading[i].line],
               IF "last" \in DOMAIN reading[i]
               THEN Unmarked(SubSeq(doc, reading[i].line, reading[i].last)) ELSE << >>,
               IF "options" \in DOMAIN reading[i]
               THEN [k \in DOMAIN reading[i].options |-> doc[reading[i].options[k].line]] ELSE << >> >>]
ReadAlike(docs, parsed) ==
    \A kind \in DOMAIN parsed[1] : ReadBack(docs[1], parsed[1][kind]) = ReadBack(docs[2], parsed[2][kind])
ParseSurvivesFix ==
    LET docs == <<input.doc, output.fixed.out>>
        Parsed(headings) == <<Parse(docs[1], headings), Parse(docs[2], headings)>>
    IN  Did("fix") => ReadAlike(docs, Parsed(HeadingsOf(input.type)))

(***************************************************************************)
(* A document made from a template and left without its markers is given   *)
(* them back as the template has them, as long as no two headings of the   *)
(* template read alike and every region ends where a heading says that its *)
(* section does.                                                           *)
(***************************************************************************)
Describes(tmpl) ==
    /\ \A i, j \in Range(Headings(tmpl)) : tmpl[i] = tmpl[j] => i = j
    /\ \A r \in Range(Regions(tmpl)) :
         LET rest == {n \in r.end..Len(tmpl) : tmpl[n].form \notin {"blank", "marker"}}
             next == Min0(rest)
         IN  rest # {} => /\ tmpl[next].form = "head"
                          /\ \/ tmpl[next].level <= tmpl[r.start + 1].level
                             \/ tmpl[next - 1].role = "start"
MigratesAsTemplate ==
    Did("template") /\ Describes(input.doc) => output.fixed.out = input.doc

-----------------------------------------------------------------------------
(***************************************************************************)
(* Markers.  A region whose content Validate passes over, because it is    *)
(* never closed, is one the marker rules report at its start.              *)
(***************************************************************************)
Alone(doc) == \A i, j \in LinesOf(doc, {"marker"}, FALSE) : doc[i].kind = doc[j].kind
Reports(findings, region) == Finding("marker.unclosed", region.kind, region.start) \in findings
UnclosedIsReported ==
    Did("mark") /\ Alone(input.doc) =>
        \A i \in DOMAIN output.regions :
            output.regions[i].closed <=> ~ Reports(output.findings, output.regions[i])

(***************************************************************************)
(* validate/region.go:206-209: an unclosed region is not checked, because  *)
(* the marker.unclosed error already says what to fix.                     *)
(***************************************************************************)
SkippedIsReported ==
    Did("mark") =>
        \A i \in DOMAIN output.regions :
            output.regions[i].closed \/ Reports(output.findings, output.regions[i])

-----------------------------------------------------------------------------
(***************************************************************************)
(* The contents table.  toc.stale is reported exactly when `docz update`   *)
(* would change the file, and `docz update` settles it in one run.         *)
(***************************************************************************)
Stale(findings) == \E f \in findings : f.code = "toc.stale"
Fenced(doc) == \E i \in DOMAIN doc : doc[i].form = "marker" /\ i \notin LinesOf(doc, {"marker"}, FALSE)
Agrees == /\ Stale(output.findings) <=> \E u \in output.updated : u # input.doc
          /\ \A u \in output.updated : UpdateToC(u, input.min) = {u} /\ ~ Stale(CheckToC(u, {}, input.min))
StaleMeansUpdate == Did("toc") /\ ~ Fenced(input.doc) => Agrees

(***************************************************************************)
(* validate/document.go:99: the contents come from the same code, so a     *)
(* finding and `docz update` can never disagree.                           *)
(***************************************************************************)
NeverDisagree == Did("toc") => Agrees

(***************************************************************************)
(* Every heading has an anchor of its own, even where one heading reads as *)
(* another one's anchor with its counter.                                  *)
(***************************************************************************)
SlugsDistinct ==
    Did("toc") => \A i, j \in DOMAIN output.slugs : output.slugs[i] = output.slugs[j] => i = j

(***************************************************************************)
(* A README made from a header holds one index, its table in it, whatever  *)
(* markers the header brings; the next update leaves it as it is.          *)
(***************************************************************************)
IndexSettles ==
    Did("index") =>
        /\ output.again = {output.created} /\ ~ output.drifted
        /\ \E r \in Range(Indexes(output.created)) : Body(output.created, r) = input.table
        /\ Len(Indexes(output.created)) <= Len(Indexes(input.header)) + (IF HasTrailingPair(input.header) THEN 0 ELSE 1)

-----------------------------------------------------------------------------
(***************************************************************************)
(* Plans.  A plan Parse accepts gives every task an id of its own.         *)
(***************************************************************************)
Distinct(items) == \A i, j \in DOMAIN items : items[i].id = items[j].id => i = j
Unclear == {"region.duplicate-singleton", "region.wrong-parent", "marker.unclosed",
            "marker.stray-end", "impl.phase.no-heading"}
Clear(findings) == ~ \E f \in findings : f.code \in Unclear

(***************************************************************************)
(* Ticking the line Parse gives for a task changes that task and nothing   *)
(* else in the plan: same ids, same text, progress one further or one back.*)
(***************************************************************************)
TaskAddressed ==
    Did("plan") /\ output.plan.error = "" =>
        LET tasks == Tasks(output.plan)
            Leads(i, after) ==
                    /\ output.ticked[i].result = "set"
                    /\ Tasks(after) = [tasks EXCEPT ![i].checked = ~ @]
                    /\ Progress(after).total = Progress(output.plan).total
                    /\ ParseImpl(output.ticked[i].out) = output.fields
        IN  \A i \in DOMAIN tasks : Leads(i, ParsePhases(output.ticked[i].out))

(***************************************************************************)
(* A plan in which the rules find nothing unclear has every box at column  *)
(* 0 of its tasks regions in its phases, each once and under its own id,   *)
(* so Progress counts them all.                                            *)
(***************************************************************************)
BoxesAt(doc, regions, kind) ==
    UNION {LET body == Body(doc, r)
           IN  {r.start + i : i \in {k \in Range(TaskItems(body)) : body[k].indent = 0}} :
               r \in Range(ClosedOf(regions, kind))}
ClearPlanIsWhole ==
    Did("plan") /\ output.plan.error = "" /\ Clear(output.findings) =>
        LET tasks == Tasks(output.plan)
        IN  /\ {tasks[i].line : i \in DOMAIN tasks}
                 = BoxesAt(input.doc, ResolveRegions(input.doc, ImplHeadings), "tasks")
            /\ Distinct(tasks)

(***************************************************************************)
(* Runbooks.  Where no token holds a dot or reads as a scenario's, every   *)
(* step of a runbook Parse accepts has an id of its own.                   *)
(***************************************************************************)
Plain(runbook) ==
    \A i \in DOMAIN runbook.procedures :
        Len(Atoms(runbook.procedures[i].token)) = 1 /\ runbook.procedures[i].token # "S1"
StepIdsDistinct ==
    Did("runbook") /\ output.runbook.again = {} /\ Plain(output.runbook) =>
        Distinct(StepsOf(output.runbook))

(***************************************************************************)
(* runbook/parse.go:354-356: duplicate tokens are refused because they     *)
(* would make step ids ambiguous; distinct ones may still.                 *)
(***************************************************************************)
StepIdsAddress ==
    Did("runbook") /\ output.runbook.again = {} => Distinct(StepsOf(output.runbook))

(***************************************************************************)
(* A runbook in which the rules find nothing unclear and every part has    *)
(* its heading (no rule asks for it, as impl.phase.no-heading does in a    *)
(* plan) has every numbered item of its steps regions as a step, within    *)
(* its parent's lines.                                                     *)
(***************************************************************************)
Headed(regions, runbook) ==
    Len(TopRegions(regions, "procedure")) = Len(runbook.procedures)
    /\ Len(TopRegions(regions, "scenario")) = Len(runbook.scenarios)
ClearRunbookIsWhole ==
    LET regions == ResolveRegions(input.doc, RunbookHeadings)
        steps == StepsOf(output.runbook)
    IN  Did("runbook") /\ output.runbook.again = {} /\ Clear(output.findings)
        /\ Headed(regions, output.runbook) =>
        LET Numbered(r) == {r.start + i : i \in {k \in Range(ListItems(Body(input.doc, r))) :
                                                    Body(input.doc, r)[k].ordered}}
        IN  /\ UNION {Numbered(r) : r \in Range(ClosedOf(regions, "steps"))}
                 \subseteq {steps[i].line : i \in DOMAIN steps}
            /\ \A i, j \in DOMAIN steps :
                 IsStrictPrefix(steps[i].id, steps[j].id) =>
                     steps[i].line < steps[j].line /\ steps[i].end >= steps[j].end

-----------------------------------------------------------------------------
(***************************************************************************)
(* A document `docz create` has just written passes the rules on its own   *)
(* frontmatter and name, as long as its number fits the type's width.      *)
(***************************************************************************)
CreatedIsValid ==
    Did("create") /\ Digits(input.number) <= input.type.width => output.findings = {}

(***************************************************************************)
(* What a document is checked against does not depend on the types and     *)
(* documents checked before it, though all of them share one cache.        *)
(***************************************************************************)
CheckedAlone ==
    Did("run") =>
        \A r \in output.report :
            LET name == IF r.doc.schema = "" THEN r.type ELSE r.doc.schema
            IN  r.schema = SchemaFor(input.repo, << >>, name, r.type).schema

-----------------------------------------------------------------------------
(***************************************************************************)
(* `docz validate --fix` writes down how the document was read and changes *)
(* nothing about how it is read (InsertRegionsIn).                         *)
(***************************************************************************)
MarkersKeepReading ==
    MarkedAsInferred /\ InferredNest /\ MigratesAsTemplate /\ ParseSurvivesFix /\ FixKeepsFindings

(***************************************************************************)
(* What a command writes into a document is what the next one finds in     *)
(* order: markers, the contents table and its anchors, the index.          *)
(***************************************************************************)
WritersSettle == FixSettles /\ StaleMeansUpdate /\ SlugsDistinct /\ IndexSettles

(***************************************************************************)
(* An id or a line Parse gives for a task or a step leads to that one      *)
(* (impl.Task, runbook.Step, SetTaskState).                                *)
(***************************************************************************)
ItemsAddressed == TaskAddressed /\ StepIdsDistinct

(***************************************************************************)
(* The rules pass over nothing: what they leave unread they report, a plan *)
(* or runbook they find clear is read whole, a new document passes them,   *)
(* and what ran before makes no difference (repo.Validate).                *)
(***************************************************************************)
RulesHold ==
    UnclosedIsReported /\ ClearPlanIsWhole /\ ClearRunbookIsWhole /\ CreatedIsValid /\ CheckedAlone

=============================================================================
