\* What reset_for_next_client() does.
CONSTANTS
    Apps = {"server"}
    MaxClients = 5
    PoolCapacity = 3
    Conns = {c1, c2}
    NoConn = NoConn
    MaxFrames = 0
    MaxPackets = 1
SPECIFICATION UnracedSpec
PROPERTIES
    ResetClosesConnection
CHECK_DEADLOCK FALSE
