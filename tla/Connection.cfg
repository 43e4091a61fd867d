\* Two places that hold a reference, two frames, two directives.
SPECIFICATION FairSpec
CONSTANTS
    Owners <- TwoOwners
    MaxFrames = 2
    MaxSends = 2
INVARIANTS
    TypeOK
    RestMeansEnded
PROPERTIES
    LifetimeKept
    OrphanEnds
\* Runners and handles gone is the end.
CHECK_DEADLOCK FALSE
