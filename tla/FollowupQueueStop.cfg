\* Finding: a drain that outlives its queue deletes the queue of the messages after it.
SPECIFICATION Spec
CONSTANTS
    Messages = {1, 2, 3}
    TargetOf <- MCTargetOf
    Modes = {"followup"}
    DropPolicies = {"new"}
    Cap = 2
    Objects = {1, 2}
    MaxClears = 1
    NoQueue = 0
CHECK_DEADLOCK FALSE
INVARIANT NothingIsStranded
