SPECIFICATION FairSpec
CONSTANTS
    spec <- JudgedSpec
    MaxCandidates = 4
    Callers = {c1}
    Boots = {1}
    Payloads = {1, 2}
    Verdicts <- JudgeVerdicts
    FailureKinds = {}
    MaxGeneration = 1
    MaxExecution = 1
    MaxEpoch = 1
    MaxParticipantGeneration = 1
    MaxCandidateGeneration = 2
    MaxRetainedResults = 1
INVARIANTS
    SelectionMatchesResult
    EvidenceIntegrity
    SelectionInv
PROPERTIES
    SettlesUnlessAskedAgain
    FallbackIsAuthorized
CHECK_DEADLOCK FALSE
