\* The VPN client and Ctrl+C at any moment.
CONSTANTS
    Apps = {"vpn"}
    MaxClients = 1
    PoolCapacity = 3
SPECIFICATION Spec
PROPERTIES
    NoRoundAfterCtrlC
CHECK_DEADLOCK FALSE
