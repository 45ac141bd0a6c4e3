\* Finding: a message that arrives while a full batch runs is taken off with the batch.
SPECIFICATION Spec
CONSTANTS
    Messages = {1, 2, 3}
    TargetOf <- MCTargetOf
    Modes = {"collect"}
    DropPolicies = {"summarize"}
    Cap = 1
    Objects = {1, 2}
    MaxClears = 0
    NoQueue = 0
CHECK_DEADLOCK FALSE
INVARIANT NothingIsLost
