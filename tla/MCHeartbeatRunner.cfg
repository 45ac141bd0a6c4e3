\* Two lives of the gateway, two agents, one pause; it ends when the last runner is stopped.
SPECIFICATION FairRunnerSpec
CONSTANTS
    Agents = {"main", "ops"}
    Targets = {"main", "ops", "all"}
    Configs <- AllOrNone
    Requested <- WakeAll
    Priorities = {1, 2}
    Batches = {1}
    MaxLives = 2
    MaxToggles = 1
CHECK_DEADLOCK FALSE
INVARIANT IntervalIsArmed
PROPERTY DueIsServed
