\* Two requests, two ids, two attempts: collisions, reuse of an id, duplicated
\* and late responses, failed writes and both ways of expiring.
SPECIFICATION Spec
CONSTANTS
    c1 = c1
    c2 = c2
    c3 = c3
    i1 = i1
    i2 = i2
    Calls <- TwoCalls
    Ids <- TwoIds
    MaxRetry = 2
    ReceiverHoldsCore = TRUE
    NoCall = NoCall
    NoId = NoId
SYMMETRY CallSymmetry
INVARIANTS
    TypeOK
    RegistryExact
    NoLostWakeup
    SlotNotTaken
    AnswerIsOwn
    WriteFailedIsUnsent
    WriterLeavesNobody
PROPERTIES
    PromiseKept
\* Calls are made once, so a connection comes to rest.
CHECK_DEADLOCK FALSE
