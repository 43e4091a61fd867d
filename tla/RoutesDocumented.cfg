\* A constant without default routes loses the routes it lists.
SPECIFICATION Spec
CONSTANTS
    None = None
    ALL = ALL
    Svc <- Prods
    Routes <- OtherRoutes
    Custom = {}
    Paths <- AllPaths
    Wrapped = 99
    MaxCalls = 2
INVARIANT
    RoutesDocumented
CHECK_DEADLOCK FALSE
