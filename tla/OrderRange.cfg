SPECIFICATION Spec
CONSTANTS
    Requests = {r1}
    ItemNumbers = {0, 1}
    AmountNumbers = {2, 3, 5}
    MaxInt = 3
    AmountLimit = 2
    DefaultAmount = 1
INVARIANT OverLimitRefused
CHECK_DEADLOCK FALSE
