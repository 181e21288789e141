SPECIFICATION Spec
CONSTANTS
    Widgets = {w1, w2}
    Titles = {t1}
    Configs = {c1}
    MaxLoads = 1
    MaxEdits = 2
SYMMETRY Symmetry
INVARIANT DragOnlyInEditMode
CHECK_DEADLOCK FALSE
