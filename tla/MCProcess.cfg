SPECIFICATION ProcessSpec
CONSTANTS
    Objects = {"client", "server"}
    MaxLinks = 3
    MaxPending = 2
INVARIANTS ApiCounted NoCallAfterClose LinkAlive NoStalePayload
CHECK_DEADLOCK FALSE
