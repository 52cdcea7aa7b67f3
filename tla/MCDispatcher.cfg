SPECIFICATION Spec
CONSTANTS
    e = e
    f1 = f1
    Entity <- MCEntity
    EntityOf <- MCEntityOf
    Item = {i1, i2}
    Fn = {f1, f2}
    Slots = 2
    Limit <- MCLimit
    MaxPauses = 0
SYMMETRY ItemSymmetry
INVARIANTS
    OneOwnerPerKey
    TokensAccounted
    NoTwinExecution
