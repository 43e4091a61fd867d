\* A flushing shutdown ends without closing the transport.
SPECIFICATION Spec
CONSTANTS
    h1 = h1
    h2 = h2
    Handles <- TwoHandles
    Receiver = Receiver
    Capacity = 1
    MaxSends <- OneEach
    Kinds <- MostKinds
    HasReqs = TRUE
INVARIANT
    GracefulCloses
\* All handles dropped and the runner gone is the end.
CHECK_DEADLOCK FALSE
