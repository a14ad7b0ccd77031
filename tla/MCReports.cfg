SPECIFICATION Spec
CONSTANTS
    MaxVotes = 3
    MaxField = 3
INVARIANTS
    DuplicateVotesAreInert
    ArbitrationMatchesReference
PROPERTIES
    VotingKeepsQuorum
CHECK_DEADLOCK FALSE
