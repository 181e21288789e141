SPECIFICATION Spec
CONSTANTS
    Items = {i1, i2}
    Messages = {m1, m2}
    MaxOpen = 1
    MaxActs = 3
SYMMETRY Symmetry
INVARIANTS
    TypeOK
    ReadsItsWrites
    AssignableIsTheRest
    LaunchedIsAssignedOrTold
CHECK_DEADLOCK FALSE
