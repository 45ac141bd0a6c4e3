\* A one-shot whose run a crash cut short runs again after the restart.
SPECIFICATION CronSpec
CONSTANTS
    Jobs = {"every", "once"}
    Kind <- MCKind
    When <- MCWhen
    DeleteAfterRun = {}
    Backoff <- MCBackoff
    MaxAttempts = 1
    MaxImmediate = 1
    Results = {"ok", "transient"}
    Services = {1}
    Stored = {"every", "once"}
    Outlasting = {}
    Edited = {}
    Manuals = {}
    JobOf <- MCJobOf
    MaxConcurrent = 1
    MaxTime = 3
    MaxEvents = 1
    NoStore = NoStore
PROPERTY InterruptedOneShotsStay
CHECK_DEADLOCK FALSE
