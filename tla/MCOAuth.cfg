\* Two handlers at a time, one authorization request, one session, one code, three tokens, one scope beyond public:read.
SPECIFICATION Spec
CONSTANTS
    s1 = s1
    Request = {r1, r2}
    Authz = {a1}
    Session = {s1}
    Code = {c1}
    Token = {t1, t2, t3}
    Scope = {team}
    Public = public
    Held <- HeldDef
    None = none
SYMMETRY Symmetry
CHECK_DEADLOCK FALSE
INVARIANTS
    CodeBeginsOneFamily
    ReplayCanRevoke
    ScopeNeverWidens
    DecidedOnce

    
