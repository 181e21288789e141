\* A field without its term, in the middle of a query.
SPECIFICATION Spec
CONSTANTS
    Characters <- MCCharacters
    Chunks <- MCWords
    Fields <- MCFields
    MaxTyped = 4
INVARIANTS
    ErrorsAreReported
CHECK_DEADLOCK FALSE
