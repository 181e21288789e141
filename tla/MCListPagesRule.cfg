SPECIFICATION Spec
CONSTANTS
    Items = {i1}
    Messages = {m1}
    MaxOpen = 2
    MaxActs = 2
INVARIANT RuleUpdatesAreShown
CHECK_DEADLOCK FALSE
