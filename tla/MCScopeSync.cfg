SPECIFICATION Spec
CONSTANTS
    h = h
    d = d
    s = s
    t = t
    a = a
    Domain = {h, d}
    Sub = {t}
    Mail = {a}
    Home = h
    AnchorOf <- MCAnchorOf
    RuleSets <- NameRules
    Project = {p1}
    None = None
    MaxEdits = 2
    MaxResults = 1
INVARIANT IInv
PROPERTIES UnblockedOnlyByAllow AllowedTakesPrecedence RunLeavesNothing
