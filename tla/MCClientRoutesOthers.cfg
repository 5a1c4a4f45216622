\* One run of the client, and bypass routes that others have added before.
CONSTANTS
    Gateways = {g1, g2}
    Prefixes = {p1, p2}
    MaxRuns = 0
SPECIFICATION Spec
INVARIANTS
    OthersKept
CHECK_DEADLOCK FALSE
