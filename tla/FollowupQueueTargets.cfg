\* Finding: a message to another target slips into a batch.
SPECIFICATION Spec
CONSTANTS
    Messages = {1, 2, 3}
    TargetOf <- MCTargetOf
    Modes = {"collect"}
    DropPolicies = {"summarize"}
    Cap = 3
    Objects = {1, 2}
    MaxClears = 0
    NoQueue = 0
CHECK_DEADLOCK FALSE
INVARIANT BatchesHaveOneTarget
