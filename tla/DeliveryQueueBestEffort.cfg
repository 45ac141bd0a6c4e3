SPECIFICATION Spec
CONSTANTS
    Entries = {1}
    Recoveries = {11}
    BestEffort = {1}
    MaxRetries = 2
    MaxLives = 2
CHECK_DEADLOCK FALSE
INVARIANT RecoveryAcksOnlyTheDelivered
