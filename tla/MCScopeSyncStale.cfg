SPECIFICATION Spec
CONSTANTS
    h = h
    d = d
    s = s
    t = t
    a = a
    Domain = {h, d}
    Sub = {t}
    Mail = {a}
    Home = h
    AnchorOf <- MCAnchorOf
    RuleSets <- NameRules
    Project = {p1}
    None = None
    MaxEdits = 1
    MaxResults = 1
PROPERTY RunEndsInStep
