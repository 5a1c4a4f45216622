\* The client process may be started again while the server keeps running.
CONSTANTS
    MaxSeals <- MCMaxSeals
    MaxRestarts = 1
SPECIFICATION Spec
INVARIANTS
    TypeOK
    OpenedOnceInOrder
    RefusedInFirstRun
PROPERTIES
    DeliverySpec
CHECK_DEADLOCK FALSE
