SPECIFICATION FairSpec
CONSTANTS
    Unit = {u1, u2, u3, u4}
    MaxEdits = 1
INVARIANTS
    Accounting
    NoSendOnClosed
    NoReuseBeforeReturn
    QuietScopeCheck
PROPERTIES
    QuiescesSafely
    RunReturns
    EveryUnitSettles
    Quiesces
\* A run that stops short fails RunReturns, which says more than a deadlock.
CHECK_DEADLOCK FALSE
