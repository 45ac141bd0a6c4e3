\* One service, a job every two ticks that two manual runs may take, and a one-shot that is added.
SPECIFICATION FairCronSpec
CONSTANTS
    Jobs = {"every", "once"}
    Kind <- MCKind
    When <- MCWhen
    DeleteAfterRun = {}
    Backoff <- MCBackoff
    MaxAttempts = 1
    MaxImmediate = 1
    Results = {"ok", "transient"}
    Services = {1}
    Stored = {"every"}
    Outlasting = {"once"}
    Edited = {"once"}
    Manuals = {1, 2}
    JobOf <- MCJobOf
    MaxConcurrent = 2
    MaxTime = 3
    MaxEvents = 2
    NoStore = NoStore
INVARIANT OneExecutionPerJob
INVARIANT SchedulerLives
PROPERTY SlotsAreRun
PROPERTY OneShotsDoNotRepeat
PROPERTY DueJobsRun
CHECK_DEADLOCK FALSE
