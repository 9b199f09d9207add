SPECIFICATION Spec
CONSTANTS
    Tokens <- PlainTokens
    Fixes <- MCFixes
    Templates <- MCTemplates
    Marks <- MCMarks
    Contents <- MCContents
    Indices <- MCIndices
    PlanPool <- MCPlanPool
    Plans <- MCPlans
    RunbookPool <- MCRunbookPool
    Runbooks <- MCRunbooks
    Creations <- MCCreations
    Runs <- MCRuns
CHECK_DEADLOCK FALSE
INVARIANTS
    MarkersKeepReading
    WritersSettle
    ItemsAddressed
    RulesHold
