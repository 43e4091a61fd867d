\* Two handles, a channel of two, three directives of one handle and one of the
\* other, the Receiver and its drop: full and closed channels,
\* racing shutdowns, messages behind a close directive, failed writes, an abort.
SPECIFICATION FairSpec
CONSTANTS
    h1 = h1
    h2 = h2
    Handles <- TwoHandles
    Receiver = Receiver
    Capacity = 2
    MaxSends <- UnevenSends
    Kinds <- MostKinds
    HasReqs = TRUE
INVARIANTS
    TypeOK
    ExitSeals
PROPERTIES
    ShutdownIsFinal
    ExpiryInOrder
    OutboxKept
    ShutdownCompletes
    SendersReleased
\* All handles dropped and the runner gone is the end.
CHECK_DEADLOCK FALSE
