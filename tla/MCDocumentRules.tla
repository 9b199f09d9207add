-------------------------- MODULE MCDocumentRules --------------------------
EXTENDS DocumentRules

CONSTANTS Tokens      \* the tokens of a runbook's procedures

PlainTokens == {"", "1", "2", "a"}
AnyToken == PlainTokens \union {"1.1", "S1"}

H(level, word) == Heading(level, word, "", "")
One(line) == <<line>>
Empty == [size |-> 0, pieces |-> {}, table |-> << >>, tokens |-> {}]

ImplPieces ==
    {<<Blank, H(2, "scope")>>, <<Blank, H(3, "in scope")>>, <<Blank, H(3, "notes")>>, <<Blank, H(4, "tasks")>>,
     <<Blank, Heading(3, "phase", "1", "x")>>, <<Blank, Heading(3, "phase", "2", ":")>>,
     <<Task(0, FALSE, <<"w">>)>>, <<Blank>>, <<Fence>>}
RunbookPieces ==
    {<<Blank, H(3, "procedures")>>, <<Blank, H(4, "steps")>>, <<Blank, H(4, "rollback")>>, <<Blank, Heading(3, "procedure", "", "x")>>,
     <<Blank, Heading(3, "scenario", "", "x")>>, <<Item(0, TRUE, <<"s">>), Break>>, <<Item(0, FALSE, << >>)>>}
RFCPieces ==
    {<<Blank, H(2, "alternatives considered")>>, <<Blank, H(2, "open questions")>>, <<Blank, H(2, "risks and mitigations")>>,
     <<Blank, H(3, "other")>>, <<Question(1), Quote("Resolved", "a)")>>, <<Question(2)>>,
     <<Item(0, FALSE, <<"a)">>)>>, <<Row(<<"risk", "mitigation">>), Delimiter, Row(<<"r", "">>)>>, <<Note>>}
ADRPieces ==
    {<<Blank, H(2, "decision")>>, <<Blank, H(2, "consequences")>>, <<Blank, H(3, "positive")>>, <<Blank, H(2, "context")>>,
     <<Blank, H(2, "references")>>, <<Text(0, <<"ADR-1", "ADR-2">>)>>, <<Text(0, <<"ADR-1">>)>>,
     <<Item(0, FALSE, <<"w", "link">>), Text(2, <<"w">>)>>, <<Fence>>}
DesignPieces ==
    {<<Blank, H(3, "goals")>>, <<Blank, H(2, "open questions")>>, <<Blank, H(2, "decisions")>>,
     <<Question(1), Quote("Resolved", "a)")>>, <<Question(2)>>, <<Item(0, FALSE, <<"a)">>)>>,
     <<Row(<<"#", "question", "resolution">>), Delimiter, Row(<<"1", "q", "r">>), Row(<<"x", "q", "r">>)>>}
InvPieces ==
    {<<Blank, H(2, "context")>>, <<Blank, H(2, "conclusion")>>, <<Blank, H(2, "findings")>>, <<Blank, H(3, "one"), Text(0, <<"w">>)>>,
     <<Labelled("Triggered by", <<"w">>)>>, <<Labelled("Answer", <<"Yes">>)>>,
     <<Labelled("Answer", <<"Maybe">>)>>, <<Note>>, <<Blank>>}

Fronts(statuses) == {{[id |-> "ADR-1", status |-> s]} : s \in statuses}
Pool(type, pieces, size, statuses) ==
    [type |-> type, pieces |-> pieces, size |-> size, fronts |-> Fronts(statuses)]
NoFront(type, pieces) == [Pool(type, pieces, 2, {}) EXCEPT !.fronts = {{}}]
MarkPieces ==
    {One(Mark("phase", "start", FALSE)), One(Mark("phase", "end", TRUE)), One(Heading(3, "phase", "1", "x")),
     <<Fence>>, <<Blank>>}
MCFixes ==
    {Pool("impl", ImplPieces, 4, {"Draft"}), Pool("impl", MarkPieces, 4, {"Draft"}),
     Pool("runbook", RunbookPieces, 4, {"Active"}), Pool("rfc", RFCPieces, 3, {"Accepted"}),
     Pool("adr", ADRPieces, 3, {"Accepted", "Superseded"}), Pool("design", DesignPieces, 4, {"Approved"}),
     Pool("inv", InvPieces, 3, {"Concluded"}),
     NoFront("impl", ImplPieces), NoFront("rfc", RFCPieces)}
\* A region's section, its lines and the parts inside it.
Marked1(kind, heading, lines) ==
    <<Mark(kind, "start", TRUE), heading>> \o lines \o <<Mark(kind, "end", TRUE)>>
Prose1 == <<Blank, Text(0, <<"w">>)>>
MCTemplates ==
    [size |-> 4, pieces |-> {t \o <<Blank>> : t \in
        {Marked1("scope", H(2, "scope"), Prose1), Marked1("goals", H(3, "goals"), Prose1),
         Marked1("scope", H(2, "scope"), <<Blank>> \o Marked1("goals", H(3, "goals"), Prose1)),
         Marked1("testing", H(2, "testing"), <<Blank, H(3, "other")>> \o Prose1),
         Marked1("phase", Heading(3, "phase", "", ":"), <<Blank>> \o Marked1("tasks", H(4, "tasks"), Prose1)),
         <<H(2, "other")>> \o Prose1, <<H(3, "more")>> \o Prose1, Prose1}}]
MCMarks ==
    [size |-> 5, pieces |-> {<<Fence>>} \union
        {One(Mark(k, r, TRUE)) : k \in {"goals", "tasks"}, r \in {"start", "end"}}]
MCContents ==
    [size |-> 4, pieces |->
        {<<Fence>>, <<H(2, "a")>>, <<Heading(3, "a", "1", "")>>, <<Item(0, FALSE, <<"a">>)>>,
         One(Mark("toc", "start", TRUE)), One(Mark("toc", "end", FALSE))}]
MCIndices ==
    [size |-> 4, table |-> <<Row(<<"ID">>), Delimiter, Row(<<"RFC-1">>)>>,
     pieces |-> {<<Blank>>, <<Text(0, <<"w">>)>>, <<Fence, Fence>>, One(IndexPair[1]), One(IndexPair[2])}]

\* Plans: two phases with their markers, whole or with a line dropped, twice over or put in.
Phase(token, lines) ==
    <<Mark("phase", "start", TRUE), Heading(3, "phase", token, "x"), Mark("tasks", "start", TRUE), H(4, "tasks")>>
    \o lines \o <<Mark("tasks", "end", TRUE), Mark("phase", "end", TRUE)>>
Jobs ==
    {<<Task(0, FALSE, <<"w">>), Text(2, <<"verify", "command">>), Task(2, TRUE, <<"w">>)>>,
     <<Task(0, TRUE, <<"~~", "w", "skipped">>), Task(0, TRUE, <<"w", "deferred">>), Text(2, <<"why">>)>>,
     <<Item(0, TRUE, <<"w">>), Fence, Task(0, FALSE, <<"w">>), Fence, Task(0, FALSE, << >>)>>}
Extra ==
    {Blank, Fence, Opener, Closer, H(4, "tasks"), H(2, "testing plan"), Task(0, FALSE, <<"v">>),
     Heading(3, "phase", "A", "x"), Heading(3, "phase", "1/2", "x"),
     Mark("tasks", "start", TRUE), Mark("tasks", "end", TRUE), Mark("phase", "start", TRUE),
     Mark("phase", "end", TRUE), Mark("testing", "start", TRUE), Mark("testing", "end", TRUE)}
Bounds ==
    {Mark(kind, role, TRUE) : kind \in {"tasks", "phase"}, role \in {"start", "end"}}
Dropped(doc, i) == SubSeq(doc, 1, i - 1) \o SubSeq(doc, i + 1, Len(doc))
Put(doc, i, line) == SubSeq(doc, 1, i) \o <<line>> \o SubSeq(doc, i + 1, Len(doc))
Edited(doc, extra) ==
    {doc} \union {Dropped(doc, i) : i \in DOMAIN doc} \union {Put(doc, i, line) : i \in 0..Len(doc), line \in extra}
WholePlans == {Phase("1", j) \o Phase(t, k) : j, k \in Jobs, t \in {"1", "2", "a"}}
MCPlanPool == [size |-> 3, pieces |-> ImplPieces]
MCPlans ==
    {Edited(p, Extra) : p \in WholePlans}
    \union {Edited(d, Bounds) : d \in Edited(Phase("1", <<Task(0, FALSE, <<"w">>)>>), Extra)}

Expected(indent) == [Text(indent, <<"w">>) EXCEPT !.kind = "Expected"]
Scenario(steps) ==
    <<Mark("scenario", "start", TRUE), Heading(3, "scenario", "", "x"), Mark("steps", "start", TRUE)>>
    \o steps \o <<Mark("steps", "end", TRUE), Mark("scenario", "end", TRUE)>>
StepPieces ==
    {<<Item(0, TRUE, <<"s">>)>>, <<Item(2, TRUE, <<"s">>)>>, <<Item(4, TRUE, << >>)>>, <<Item(2, FALSE, <<"b">>)>>,
     <<Fence, Text(2, <<"c">>), Fence>>, <<Expected(2), Text(2, <<"w">>)>>, <<H(4, "steps")>>}
MCRunbookPool == [size |-> 4, pieces |-> StepPieces, tokens |-> {"1"}]
SomeSteps == {<<Item(0, TRUE, <<"s">>), Item(2, TRUE, <<"s">>)>>, <<Item(2, TRUE, <<"s">>), Item(0, TRUE, <<"s">>)>>}
Overview ==
    {<<Mark("overview", "start", TRUE), Labelled("Owner", <<"w">>), Mark("overview", "end", TRUE),
       Mark("last-verified", "start", TRUE), Row(<<"date", "pr", "commit", "verified by">>), Delimiter,
       Row(<<"bad", "bad", "", "">>), Mark("last-verified", "end", TRUE)>>}
MoreMarks ==
    {Mark("steps", "start", TRUE), Mark("steps", "end", TRUE), Mark("procedure", "start", TRUE),
     Mark("procedure", "end", TRUE), Item(0, TRUE, <<"t">>)}
MCRunbooks ==
    {Procedure(t, s) \o Procedure(u, r) \o Scenario(s) : t, u \in Tokens, s, r \in SomeSteps}
    \union UNION {Edited(Procedure("1", s) \o Scenario(s), Extra \union MoreMarks) : s \in SomeSteps}
    \union {o \o Scenario(s) : s \in SomeSteps, o \in Overview}

MCCreations ==
    {[kind |-> "create", number |-> n,
      type |-> [prefix |-> p, width |-> w, statuses |-> {"Draft", "Done"}, first |-> "Draft"]] :
        n \in {1, 9, 10, 99, 100}, p \in {"RFC"}, w \in 1..3}

DocsOf == UNION {[1..k -> [schema : {"", "a", "b", "other"}]] : k \in 0..2}
Known(names) == [n \in names |-> n]
MCRuns ==
    {[kind |-> "run", types |-> order,
      repo |-> [schemas |-> Known({"default"} \union s), types |-> [t \in {"a", "b"} |-> own[t]],
                docs |-> [t \in {"a", "b"} |-> docs[t]]]] :
        order \in {<<"a", "b">>, <<"b", "a">>}, s \in SUBSET {"a", "other"},
        own \in [{"a", "b"} -> {{}, {"template"}}], docs \in [{"a", "b"} -> DocsOf]}
=============================================================================
