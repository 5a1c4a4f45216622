\* Two clients one after the other or together, and a signal at any moment; one
\* client where close() of the handler was under way when connect() began.
CONSTANTS
    Apps = {"server"}
    MaxClients = 5
    PoolCapacity = 1
    Conns = {c1, c2}
    NoConn = NoConn
    MaxFrames = 0
    MaxPackets = 2
SPECIFICATION MCSpec
SYMMETRY MCSymmetry
INVARIANTS
    SendSlot
    OpenChannelHasStream
    EstablishedHasChannel
CHECK_DEADLOCK FALSE
