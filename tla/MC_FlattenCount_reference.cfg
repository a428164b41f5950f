CONSTANTS
    noKey = noKey
    NoKey <- noKey
    Keys <- MCKeys
    CountKeys <- MCCountKeys
    Inputs <- MCInputs
SPECIFICATION Spec
INVARIANT FlattenMatchesReference
CHECK_DEADLOCK FALSE
