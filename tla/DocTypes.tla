------------------------------ MODULE DocTypes ------------------------------
(***************************************************************************)
(* The typed documents without plans: an RFC, an ADR, a design, an         *)
(* investigation.  Parse reads each closed region into the field of its    *)
(* kind, the last region of a kind winning; Validate applies the type's    *)
(* own rules to what was read.                                             *)
(*                                                                         *)
(* front is a set, {} for a document without frontmatter, whose element    *)
(* has the document's id and status; a document is parsed with the         *)
(* headings of its own type when it has no markers.                        *)
(***************************************************************************)
EXTENDS DocValidate

RFCHeadings ==
    << Section("summary", "summary"), Section("problem", "problem statement"),
       Section("proposal", "proposed solution"), Section("alternatives", "alternatives considered"),
       Section("risks", "risks and mitigations"), Section("criteria", "success criteria") >>
    \o SharedDefaults
ADRHeadings ==
    << Section("summary", "summary"), Section("context", "context"), Section("decision", "decision"),
       Section("consequences", "consequences"), Sub("positive", 3, "positive", "consequences"),
       Sub("negative", 3, "negative", "consequences"), Sub("neutral", 3, "neutral", "consequences"),
       Section("alternatives", "alternatives considered") >> \o SharedDefaults
DesignHeadings ==
    << Section("overview", "overview"), Sub("goals", 3, "goals", ""), Sub("non-goals", 3, "non-goals", ""),
       Section("background", "background"), Section("detailed-design", "detailed design"),
       Section("api-changes", "api / interface changes"), Section("data-model", "data model"),
       Section("testing", "testing strategy"), Section("rollout", "migration / rollout plan") >>
    \o SharedDefaults
InvestigationHeadings ==
    << Section("question", "question"), Section("hypothesis", "hypothesis"), Section("context", "context"),
       Section("approach", "approach"), Section("environment", "environment"),
       Section("findings", "findings"), Section("conclusion", "conclusion"),
       Section("recommendation", "recommendation") >> \o SharedDefaults

(***************************************************************************)
(* How a kind is read: as prose unless it is listed.                       *)
(***************************************************************************)
Forms ==
    [kind \in {"goals", "non-goals", "positive", "negative", "neutral", "approach"} |-> "items"]
    @@ ("alternatives" :> "alternatives") @@ ("open-questions" :> "questions")
    @@ ("decisions" :> "decisions") @@ ("references" :> "references") @@ ("criteria" :> "criteria")
    @@ ("risks" :> "table") @@ ("environment" :> "table") @@ ("findings" :> "sections")

\* The rows of the first table with something in one of some columns.
TableRows(region, at, columns) ==
    LET Said(r) == \E c \in columns \intersect DOMAIN region[r].cells : region[r].cells[c] # ""
        Under(t) == InOrder({r \in t + 2 .. TableEnd(region, t) : Said(r)})
        Read1(rows) ==
            [i \in DOMAIN rows |-> [cells |-> region[rows[i]].cells, line |-> at.start + rows[i]]]
        First(tables) == IF tables = << >> THEN << >> ELSE Read1(Under(tables[1]))
    IN  First(Tables(region))

ProseOf(region) ==
    LET lines == InOrder(Prose(BodyLines(region)))
    IN  [i \in DOMAIN lines |-> BodyLines(region)[lines[i]]]

ReadAs(form, region, at) ==
    CASE form = "items" -> Shift(Items(region), at)
      [] form = "alternatives" -> Shift(Alternatives(region), at)
      [] form = "questions" -> ShiftQuestions(OpenQuestions(region), at)
      [] form = "decisions" -> Shift(Decisions(region), at)
      [] form = "references" -> Shift(References(region), at)
      [] form = "criteria" -> Shift(Criteria(region), at)
      [] form = "table" -> TableRows(region, at, 1..4)
      [] form = "sections" -> Shift(Sections(region), at)
      [] OTHER -> ProseOf(region)

FormOf(kind) == IF kind \in DOMAIN Forms THEN Forms[kind] ELSE "prose"
ClosedOf(regions, kind) == SelectSeq(regions, LAMBDA r : r.kind = kind /\ r.closed)

ReadKind(doc, regions, kind) ==
    LET of == ClosedOf(regions, kind)
    IN  IF of = << >> THEN << >> ELSE ReadAs(FormOf(kind), Body(doc, Last(of)), Last(of))

ParseIn(doc, regions, headings) ==
    [kind \in {headings[i].kind : i \in DOMAIN headings} |-> ReadKind(doc, regions, kind)]
Parse(doc, headings) == ParseIn(doc, ResolveRegions(doc, headings), headings)

\* The value of a field of the last region of a kind, << >> without one.
FieldOf(doc, regions, kind, label) ==
    LET of == ClosedOf(regions, kind)
        found == IF of = << >> THEN {} ELSE Field(Body(doc, Last(of)), label)
    IN  IF found = {} THEN << >> ELSE CHOOSE words \in found : TRUE

\* The line of a section: its first region's heading, 0 for none.
SectionLine(doc, regions, kind) ==
    LET of == ClosedOf(regions, kind)
        heads == Headings(Body(doc, of[1]))
    IN  IF of = << >> THEN 0 ELSE of[1].start + (IF heads = << >> THEN 0 ELSE heads[1])

(***************************************************************************)
(* The rules of each type.                                                 *)
(***************************************************************************)
Unresolved(questions) == {i \in DOMAIN questions : questions[i].resolved = << >>}
StillOpen(code, questions) ==
    {Finding(code, "open-questions", questions[i].line) : i \in Unresolved(questions)}

ValidateRFC(doc, front, regions, parsed) ==
    LET Unmitigated(row) == 4 \notin DOMAIN row.cells \/ row.cells[4] = ""
    IN  When(parsed["alternatives"] = << >> /\ ClosedOf(regions, "alternatives") # << >>,
             Finding("rfc.alternatives.empty", "alternatives", SectionLine(doc, regions, "alternatives")))
        \union {Finding("rfc.risks.no-mitigation", "risks", row.line) :
                    row \in {r \in Range(parsed["risks"]) : Unmitigated(r)}}
        \union (IF front.status = "Accepted"
                THEN StillOpen("rfc.status.open-question", parsed["open-questions"]) ELSE {})

IDs == {"ADR-1", "ADR-2"}
Named(lines) == UNION {Range(lines[i].text) \intersect IDs : i \in DOMAIN lines}

ValidateADR(doc, front, regions, parsed) ==
    LET others == UNION {Named(parsed[k]) : k \in {"summary", "context", "references"}} \ {front.id}
    IN  When(front.status = "Accepted" /\ parsed["decision"] = << >>,
             Finding("adr.decision.empty", "decision", SectionLine(doc, regions, "decision")))
        \union When(\A k \in {"positive", "negative", "neutral"} : parsed[k] = << >>,
             Finding("adr.consequences.empty", "consequences", SectionLine(doc, regions, "consequences")))
        \union When(front.status = "Superseded" /\ others = {},
             Finding("adr.superseded.no-reference", "references", SectionLine(doc, regions, "references")))

ValidateDesign(doc, front, regions, parsed) ==
    LET asked == parsed["open-questions"]
        rows == parsed["decisions"]
        decided == {rows[i].number : i \in DOMAIN rows} \ {0}
        numbers == {asked[i].number : i \in DOMAIN asked}
        Lost == {i \in DOMAIN asked : asked[i].resolved # << >> /\ asked[i].number \notin decided}
        Orphan == {i \in DOMAIN rows : rows[i].number \notin numbers}
    IN  When(ClosedOf(regions, "goals") # << >> /\ parsed["goals"] = << >>,
             Finding("design.goals.empty", "goals", SectionLine(doc, regions, "goals")))
        \union (IF front.status \in {"Approved", "Implemented"}
                THEN StillOpen("design.status.open-question", asked) ELSE {})
        \union (IF ClosedOf(regions, "decisions") = << >> THEN {}
                ELSE {Finding("design.decisions.mismatch", "open-questions", asked[i].line) : i \in Lost}
                     \union {Finding("design.decisions.mismatch", "decisions", rows[i].line) : i \in Orphan})

Verdict(answer) == answer # << >> /\ answer[1] \in {"Yes", "No", "Inconclusive"}
ValidateInvestigation(doc, front, regions, parsed) ==
    LET answer == FieldOf(doc, regions, "conclusion", "Answer")
        At(kind) == IF ClosedOf(regions, kind) = << >> THEN 0 ELSE ClosedOf(regions, kind)[1].start
    IN  When(/\ ClosedOf(regions, "context") # << >>
             /\ FieldOf(doc, regions, "context", "Triggered by") = << >>,
             Finding("inv.context.no-trigger", "context", At("context")))
        \union When(answer = << >> /\ front.status = "Concluded",
             Finding("inv.conclusion.no-answer", "conclusion", At("conclusion")))
        \union When(answer # << >> /\ ~ Verdict(answer),
             Finding("inv.conclusion.verdict", "conclusion", At("conclusion")))

TypedFindings(type, doc, front, regions, parsed) ==
    IF front = {} THEN {Finding(type \o ".parse", "", 0)}
    ELSE UNION {CASE type = "rfc" -> ValidateRFC(doc, f, regions, parsed)
                  [] type = "adr" -> ValidateADR(doc, f, regions, parsed)
                  [] type = "design" -> ValidateDesign(doc, f, regions, parsed)
                  [] type = "inv" -> ValidateInvestigation(doc, f, regions, parsed) : f \in front}
=============================================================================
