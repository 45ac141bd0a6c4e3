\* A call of add advances the due slot of another job.
SPECIFICATION CronSpec
CONSTANTS
    Jobs = {"every", "once"}
    Kind <- MCKind
    When <- MCWhen
    DeleteAfterRun = {}
    Backoff <- MCBackoff
    MaxAttempts = 1
    MaxImmediate = 1
    Results = {"ok", "transient"}
    Services = {1}
    Stored = {"every"}
    Outlasting = {}
    Edited = {}
    Manuals = {}
    JobOf <- MCJobOf
    MaxConcurrent = 1
    MaxTime = 3
    MaxEvents = 1
    NoStore = NoStore
PROPERTY NoSlotIsSkipped
CHECK_DEADLOCK FALSE
