\* An orchestrator that can be replaced once and its leaf; one steer, kill, sweep or crash.
SPECIFICATION RegSpec
CONSTANTS
    Runs = {"orch1", "orch2", "leaf1"}
    Sessions = {"orch", "leaf"}
    Root = "main"
    Home <- MCHome
    Requester <- MCRequester
    Deleting = {"leaf"}
    Archived = {"leaf"}
    Persistent = {}
    MaxRetries = 2
    Erring = {"leaf1"}
    Outlasting = {"orch1"}
    Expiring = {"orch1"}
    MaxEvents = 1
CHECK_DEADLOCK FALSE
INVARIANT AnnouncedOnce
INVARIANT InterruptedStaysSilent
INVARIANT EndedRunIsInHand
PROPERTY FailuresAreFinal
