SPECIFICATION FairSpec
CONSTANTS
    e = e
    f1 = f1
    Entity <- OwnEntity
    EntityOf <- OwnEntityOf
    Item = {i1, i2}
    Fn = {f1}
    Slots = 2
    Limit <- MCLimit
    MaxPauses = 0
PROPERTY CallsConclude
