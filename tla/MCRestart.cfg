SPECIFICATION Spec
CONSTANTS
    spec <- SoloSpec
    MaxCandidates = 4
    Callers = {c1}
    Boots = {1}
    Payloads = {1}
    Verdicts = {}
    FailureKinds = {}
    MaxGeneration = 1
    MaxExecution = 2
    MaxEpoch = 2
    MaxParticipantGeneration = 2
    MaxCandidateGeneration = 2
    MaxRetainedResults = 1
INVARIANTS
    PublishedIsDecision
    PreparedInv
CHECK_DEADLOCK FALSE
