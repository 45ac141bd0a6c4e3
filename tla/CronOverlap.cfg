\* Disabling and enabling a job while it runs lets it run twice at once.
SPECIFICATION CronSpec
CONSTANTS
    Jobs = {"every", "once"}
    Kind <- MCKind
    When <- MCWhen
    DeleteAfterRun = {}
    Backoff <- MCBackoff
    MaxAttempts = 1
    MaxImmediate = 1
    Results = {"ok", "transient"}
    Services = {1}
    Stored = {"every"}
    Outlasting = {}
    Edited = {"every"}
    Manuals = {1}
    JobOf <- MCJobOf
    MaxConcurrent = 1
    MaxTime = 3
    MaxEvents = 2
    NoStore = NoStore
INVARIANT NoOverlap
CHECK_DEADLOCK FALSE
