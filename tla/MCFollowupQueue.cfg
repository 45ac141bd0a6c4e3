\* Overflow under every drop policy, a clear, redeliveries, failing turns.  It ends when all messages are spent.
SPECIFICATION FairSpec
CONSTANTS
    Messages = {1, 2, 3, 4}
    TargetOf <- MCTargetOf
    Modes = {"collect", "followup"}
    DropPolicies = {"summarize", "old", "new"}
    Cap = 2
    Objects = {1, 2}
    MaxClears = 1
    NoQueue = 0
CHECK_DEADLOCK FALSE
INVARIANT WaitsOnce
INVARIANT NothingIsAbandoned
INVARIANT NothingVanishes
PROPERTY TurnsCarryWaitingMessages
PROPERTY WaitingIsAnswered
PROPERTY DrainComesToRest
