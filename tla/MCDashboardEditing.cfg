SPECIFICATION FairSpec
CONSTANTS
    Widgets = {w1}
    Titles = {t1, t2}
    Configs = {c1, c2}
    MaxLoads = 2
    MaxEdits = 5
INVARIANTS
    TypeOK
    LockAgreement
    NoDragWhileEditing
    RemovedMeansGone
    NoUnsavedTitle
PROPERTY EventuallyShowsStored
CHECK_DEADLOCK FALSE
