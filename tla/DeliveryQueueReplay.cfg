SPECIFICATION Spec
CONSTANTS
    Entries = {1}
    Recoveries = {11}
    BestEffort = {}
    MaxRetries = 2
    MaxLives = 2
CHECK_DEADLOCK FALSE
INVARIANT DeliveredIsNotReplayed
