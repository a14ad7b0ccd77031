SPECIFICATION FairSpec
CONSTANTS
    Senders = {s1, s2}
    Sizes = {0, 2, 3}
    MaxFrames = 1
    max_frame_bytes = 11
    Chunk = 20
CHECK_DEADLOCK FALSE
INVARIANTS
    DeliveredIntact
    NoFalseRefusal
PROPERTY
    Delivery
