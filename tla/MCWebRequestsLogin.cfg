CONSTANTS
    Programs <- MCPrograms
    SameAddress <- MCSameAddress
    Grants <- MCGrants
    MaxClicks = 2
    MaxChanges = 1
SPECIFICATION Spec
INVARIANTS LoginFindsPage
CHECK_DEADLOCK FALSE
