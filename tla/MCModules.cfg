SPECIFICATION ModulesSpec
CONSTANTS
    Call = {a, b}
    Spending = {a, b}
    Tries = 2
    MaxPages = 2
    Delay = 2
    MaxCredits = 1
    Limits = {1, 2}
    Caller = {c1, c2}
    Ip = {i1, i2}
    Attempts = 2
    MaxNs = 3
INVARIANTS
    SpacedGrants
    CreditsKept
    
PROPERTIES
    CallsEnd
    CheckEnds
\* Calls and checks end.
CHECK_DEADLOCK FALSE
