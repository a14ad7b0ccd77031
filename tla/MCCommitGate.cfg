SPECIFICATION Spec
CONSTANTS
    spec <- SoloSpec
    MaxCandidates = 4
    Callers = {c1, c2}
    Boots = {1}
    Payloads = {1, 2}
    Verdicts = {}
    FailureKinds = {}
    MaxGeneration = 2
    MaxExecution = 1
    MaxEpoch = 1
    MaxParticipantGeneration = 1
    MaxCandidateGeneration = 2
    MaxRetainedResults = 1
INVARIANTS
    TypeOK
    GateInv
    ExactlyOnce
    CancelExcludesCommit
PROPERTIES
    ImplementsResultLog
CHECK_DEADLOCK FALSE
