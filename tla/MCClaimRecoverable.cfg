SPECIFICATION Spec
CONSTANTS
    limits <- SmallLimits
    wire <- SmallWire
    Unchecked = 3
    MaxJudgingCriteria = 2
    Lengths = {0, 1, 2, 3}
CHECK_DEADLOCK FALSE
INVARIANT
    AcceptedIsRecoverable
