\* Server and VPN client with one connection: every call returns.
CONSTANTS
    Apps = {"server", "vpn"}
    MaxClients = 5
    PoolCapacity = 1
    Conns = {c1}
    NoConn = NoConn
    MaxFrames = 1
    MaxPackets = 2
SPECIFICATION UnracedSpec
PROPERTIES
    ConnectedClientServed
    DeadClientNoticed
    ImplementsEngine
CHECK_DEADLOCK FALSE
