\* Five chunks of a term, signs, spaces, quotes, brackets and two words.
SPECIFICATION Spec
CONSTANTS
    Characters <- MCCharacters
    Chunks <- MCWords
    Fields <- MCFields
    MaxTyped = 5
INVARIANTS
    TypeOK
    TokensTile
    AcceptsTheLanguage
    DumpInOrder
    LosslessDump
    CompletionKeepsQuery
CHECK_DEADLOCK FALSE
