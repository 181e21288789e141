SPECIFICATION Spec
CONSTANTS
    Charts = {a, b, c, d}
    Intervals = {i1, i2}
    Renderers = {r1, r2}
    MaxLoads = 2
    MaxActs = 4
SYMMETRY Symmetry
INVARIANTS
    TypeOK
    NothingHiddenForEver
    ShownAsSaved
    StackIsDrawn
CHECK_DEADLOCK FALSE
