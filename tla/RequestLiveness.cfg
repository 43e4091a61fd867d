\* One request and both runners: the sleeping task comes back.
SPECIFICATION FairSpec
CONSTANTS
    c1 = c1
    c2 = c2
    c3 = c3
    i1 = i1
    i2 = i2
    Calls <- OneCall
    Ids <- OneId
    MaxRetry = 2
    ReceiverHoldsCore = TRUE
    NoCall = NoCall
    NoId = NoId
PROPERTIES
    ExpiryReleases
    NewsReleases
    WriterExitReleases
\* Calls are made once, so a connection comes to rest.
CHECK_DEADLOCK FALSE
