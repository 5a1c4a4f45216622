\* Two runs of the client, with two gateways and two prefixes.
CONSTANTS
    Gateways = {g1, g2}
    Prefixes = {p1, p2}
    MaxRuns = 1
SPECIFICATION Spec
INVARIANTS
    TypeOK
    RoutesAlone
    CleanEnd
    BypassWhileRouted
PROPERTIES
    StopReturns
CHECK_DEADLOCK FALSE
