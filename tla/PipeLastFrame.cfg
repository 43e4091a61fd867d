\* The sender pushes and closes between the reader's pop and its look at closed.
SPECIFICATION Spec
CONSTANTS
    Capacity = 2
    MaxFrames = 2
INVARIANT
    EofAfterLastFrame
\* Both ends dropped is the end.
CHECK_DEADLOCK FALSE
