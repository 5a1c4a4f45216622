\* The client process may be started again while the server keeps running.
CONSTANTS
    MaxSeals <- MCMaxSeals
    MaxRestarts = 1
SPECIFICATION Spec
INVARIANTS
    RefusedOnlyIfOvertaken
CHECK_DEADLOCK FALSE
