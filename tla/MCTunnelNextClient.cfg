\* A client after one whose handshake failed.
CONSTANTS
    Apps = {"server"}
    MaxClients = 5
    PoolCapacity = 3
    Conns = {c1, c2}
    NoConn = NoConn
    MaxFrames = 0
    MaxPackets = 0
SPECIFICATION UnracedSpec
PROPERTIES
    NextClientServed
CHECK_DEADLOCK FALSE
