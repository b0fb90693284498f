CONSTANTS
    o1 = o1
    o2 = o2
    MaxAttempts = 3
    Texts = {1, 2}
    Ops = {o1, o2}
    MaxHandoffs = 2
    MaxOps = 3
SPECIFICATION Spec
INVARIANTS ClosedIsSilent
CHECK_DEADLOCK FALSE
