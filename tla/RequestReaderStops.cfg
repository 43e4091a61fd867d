\* The reader of a client stops and nobody expires the table.
SPECIFICATION FairSpec
CONSTANTS
    c1 = c1
    c2 = c2
    c3 = c3
    i1 = i1
    i2 = i2
    Calls <- TwoCalls
    Ids <- OneId
    MaxRetry = 2
    ReceiverHoldsCore = FALSE
    NoCall = NoCall
    NoId = NoId
PROPERTY
    ReaderStopReleases
\* Calls are made once, so a connection comes to rest.
CHECK_DEADLOCK FALSE
