SPECIFICATION Spec
CONSTANTS
    Layout <- TwoByTwo
    Cube = FALSE
    MaxOps = 2
INVARIANT
    EveryWaiterIsTold
CHECK_DEADLOCK FALSE
