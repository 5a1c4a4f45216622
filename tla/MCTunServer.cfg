\* The three programs, a transport that may fail at any call, a signal at any
\* moment; the server with a TUN device and with an interface of single steps.
CONSTANTS
    Apps = {"server", "client", "vpn"}
    MaxClients = 3
    PoolCapacity = 2
    Fds = {f1, f2}
    NoFd = NoFd
SPECIFICATION ServerSpec
INVARIANTS
    PoolBounded
    SendOnlyOverOpenChannel
    StoppedIsClean
    ClientEndsStopped
    OnlyOwnDescriptor
    TunClosed
PROPERTIES
    StopEndsLoop
    ServerRecovers
CHECK_DEADLOCK FALSE
