SPECIFICATION Spec
CONSTANTS
    spec <- RetryJudgedSpec
    MaxCandidates = 4
    Callers = {}
    Boots = {1, 2}
    Payloads = {1}
    Verdicts <- JudgeVerdicts
    FailureKinds = {"unavailable"}
    MaxGeneration = 1
    MaxExecution = 1
    MaxEpoch = 2
    MaxParticipantGeneration = 2
    MaxCandidateGeneration = 3
    MaxRetainedResults = 1
INVARIANTS
    AttemptBudget
    NoOrphanedDispatch
    InFlightHasNoEvidence
    EvidenceInv
    DispatchInv
CHECK_DEADLOCK FALSE
