SPECIFICATION Spec
CONSTANTS
    h = h
    d = d
    s = s
    t = t
    a = a
    Domain = {h, d}
    Sub = {s}
    Mail = {}
    Home = h
    AnchorOf <- MCAnchorOf
    RuleSets <- HomeRules
    Project = {p1}
    None = None
    MaxEdits = 0
    MaxResults = 1
INVARIANT BlockedIsNotRun
