\* Three constants that compile and two that do not, one handler pushed by
\* hand, five paths, and every order of four calls of the builder.
SPECIFICATION Spec
CONSTANTS
    None = None
    ALL = ALL
    Svc <- Prods
    Routes <- AllRoutes
    Custom <- ByHand
    Paths <- AllPaths
    Wrapped = 99
    MaxCalls = 4
INVARIANTS
    TypeOK
    LeadsRight
    InstallServes
\* A router that panicked stays so.
CHECK_DEADLOCK FALSE
