SPECIFICATION StoringSpec
CONSTANTS
    Reporter <- MCReporter
    MayReport <- MCMayReport
    Lossy = {"get_naptr", "leakix_domain", "hunterio"}
    Name <- MCName
    Properties <- MCProperties
    Target = "b"
    AnchorOf <- MCAnchorOf
    Function = {"f", "g"}
    Input <- MCInput
    Limit = {0, 1}
    MaxPackets = 2
    MaxSessions = 2
    MaxFailures = 1
    Unresolved = 999999
INVARIANTS
    NothingLost
    StoredAsDeclared
    NoIslands
    DepthIsEarned
    ReachedIsRun
PROPERTY Delivers
\* A packet is stored or dropped, and sessions are bounded.
CHECK_DEADLOCK FALSE
