SPECIFICATION Spec
CONSTANTS
    Layout <- OneByOne
    Cube = TRUE
    MaxOps = 3
INVARIANTS
    CompiledFirst
    HeardIsTheAnswer
    NothingLeft
PROPERTY
    EveryRankFinishes
CHECK_DEADLOCK FALSE
