\* Finding: the turn that tells the overflow summary takes a waiting message with it.
SPECIFICATION Spec
CONSTANTS
    Messages = {1, 2, 3, 4}
    TargetOf <- MCTargetOf
    Modes = {"followup"}
    DropPolicies = {"summarize"}
    Cap = 2
    Objects = {1, 2}
    MaxClears = 0
    NoQueue = 0
CHECK_DEADLOCK FALSE
PROPERTY SummaryTurnTakesNoMessage
