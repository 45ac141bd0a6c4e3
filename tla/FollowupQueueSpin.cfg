\* Finding: a count of dropped messages without a waiting one keeps the drain spinning.
SPECIFICATION FairSpec
CONSTANTS
    Messages = {1, 2, 3}
    TargetOf <- MCTargetOf
    Modes = {"followup"}
    DropPolicies = {"summarize"}
    Cap = 1
    Objects = {1, 2}
    MaxClears = 0
    NoQueue = 0
CHECK_DEADLOCK FALSE
PROPERTY DrainAlwaysRests
