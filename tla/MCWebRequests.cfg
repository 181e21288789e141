CONSTANTS
    Programs <- MCPrograms
    SameAddress <- MCSameAddress
    Grants <- MCGrants
    MaxClicks = 2
    MaxChanges = 1
SPECIFICATION FairSpec
INVARIANTS TypeOK SuccessMeansDone FailureIsTold MessagesArrive
PROPERTIES LoginLeadsBack NavigationEnds
CHECK_DEADLOCK FALSE
