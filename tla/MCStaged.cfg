SPECIFICATION FairSpec
CONSTANTS
    spec <- StagedSpec
    MaxCandidates = 4
    Callers = {}
    Boots = {1}
    Payloads = {0, 1}
    Verdicts = {}
    FailureKinds = {"unavailable"}
    MaxGeneration = 1
    MaxExecution = 1
    MaxEpoch = 1
    MaxParticipantGeneration = 1
    MaxCandidateGeneration = 2
    MaxRetainedResults = 1
INVARIANTS
    SequentialDiscipline
    StageBarrier
    AdvanceIdempotent
    FallbackReplacesPrimaries
PROPERTIES
    Settles
CHECK_DEADLOCK FALSE
