SPECIFICATION Spec
CONSTANTS
    DocsDirs <- Docs
    Switches <- AllOn
    Excludes <- OneSlash
    Loads <- MCLoads
    Accesses <- MCAccesses
    Resolves <- MCResolves
    Pages <- MCPages
    Plans <- MCPlans
CHECK_DEADLOCK FALSE
INVARIANTS
    ConfigurationsAgree
    PagesAreServed
    PlansHold
