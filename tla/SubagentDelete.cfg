\* DeleteModeIsRetried is violated: a failed announce deletes the session it is retried from.
SPECIFICATION RegSpec
CONSTANTS
    Runs = {"orch1", "orch2", "leaf1"}
    Sessions = {"orch", "leaf"}
    Root = "main"
    Home <- MCHome
    Requester <- MCRequester
    Deleting = {"leaf"}
    Archived = {}
    Persistent = {}
    MaxRetries = 2
    Erring = {"orch1"}
    Outlasting = {}
    Expiring = {"orch1", "orch2"}
    MaxEvents = 0
CHECK_DEADLOCK FALSE
INVARIANT DeleteModeIsRetried
