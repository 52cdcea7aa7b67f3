SPECIFICATION HostSpec
CONSTANTS
    Pid = {p1, p2, p3}
    MaxAlive = 2
    Process = {q1, q2}
    Project = {x}
    MaxRows = 2
    Updating = {u1, u2, u3}
    f = f
    g = g
    h = h
    Func <- MCFunc
    Late <- MCLate
    Module <- MCModule
    RuleFile = {f, g}
    RuleName <- MCRuleName
    Other <- MCOther
    Contents <- MCContents
    None = None
    MaxEdits = 3
INVARIANTS
    OlderRunKept
    FreshTemp
    OrphansGo
    ListedAsStored
    DeletedStaysDeleted
    BinarySurvives
    ChoicesSurvive
    PacesSurvive
    BootRepairs
    LoadCatchesUp
    ChangesAreReported
\* Every process may have ended, or work on an update that is done.
CHECK_DEADLOCK FALSE
