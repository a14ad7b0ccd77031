SPECIFICATION CoordinatorSpec
CONSTANTS
    spec <- SoloSpec
    MaxCandidates = 4
    Callers = {l1}
    EventThread = l1
    Clients = {"controller","operator"}
    Requests <- ControllerAndOperator
    Bindings <- SoloBindings
    Boots = {1, 2}
    Payloads = {1}
    Verdicts = {}
    FailureKinds = {}
    MaxGeneration = 2
    MaxExecution = 1
    MaxEpoch = 3
    MaxParticipantGeneration = 4
    MaxCandidateGeneration = 2
    MaxRetainedResults = 1
    MaxCrashes = 0
CHECK_DEADLOCK FALSE
INVARIANT DispatchedToHolder
