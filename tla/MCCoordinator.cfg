SPECIFICATION CoordinatorFairSpec
CONSTANTS
    spec <- PairSpec
    MaxCandidates = 4
    Callers = {l1}
    EventThread = l1
    Clients = {"controller", "operator"}
    Requests <- ControllerAndOperator
    Bindings <- PairBindings
    Boots = {1, 2}
    Payloads = {1}
    Verdicts <- VerifierVerdicts
    FailureKinds = {"unavailable"}
    MaxGeneration = 1
    MaxExecution = 1
    MaxEpoch = 3
    MaxParticipantGeneration = 4
    MaxCandidateGeneration = 2
    MaxRetainedResults = 1
    MaxCrashes = 1
INVARIANTS
    RegisteredIsConnected
    WaitingIsDurable
    DeploymentInv
PROPERTIES
    DurableIsFinal
    AnsweredUnlessStranded
CHECK_DEADLOCK FALSE
