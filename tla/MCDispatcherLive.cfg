SPECIFICATION ReturningSpec
CONSTANTS
    e = e
    f1 = f1
    Entity <- MCEntity
    EntityOf <- MCEntityOf
    Item = {i1, i2}
    Fn = {f1}
    Slots = 1
    Limit <- MCLimit
    MaxPauses = 1
PROPERTIES
    ItemsSettle
    KeysExpire
    DemandMet
\* Deadlock is checked with the safety properties; here a run that stops
\* short has to fail a liveness property.
CHECK_DEADLOCK FALSE
