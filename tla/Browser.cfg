CONSTANTS
    o1 = o1
    o2 = o2
    MaxAttempts = 3
    Texts = {1, 2}
    Ops = {o1, o2}
    MaxHandoffs = 2
    MaxOps = 4
SPECIFICATION Spec
INVARIANTS TypeOK LoneMicrophone LoneApprovalPublishes LonePageAgrees
SYMMETRY Symmetry
CHECK_DEADLOCK FALSE
