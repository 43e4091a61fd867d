\* A pipe of two places and five frames: full, empty and closed on either side.
SPECIFICATION FairSpec
CONSTANTS
    Capacity = 2
    MaxFrames = 5
INVARIANTS
    TypeOK
    SemaphoreExact
    NeverSpins
    NoLostWakeup
    NeverBothAsleep
PROPERTIES
    FramesKept
    FramesArrive
    SenderReleased
    EndReached
\* Both ends dropped is the end.
CHECK_DEADLOCK FALSE
