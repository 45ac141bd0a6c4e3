\* Two lanes, three slots that are resubmitted for ever: a lane can be full, over its lowered
\* limit and backed up, and a reset meets running and queued commands.  No symmetry: liveness.
SPECIFICATION FairSpec
CONSTANTS
    Lanes = {main, cron}
    Tasks = {t1, t2, t3}
    Waiters = {w1}
    MaxConcurrency = 2
    MaxGeneration = 1
    NoLane = NoLane
INVARIANT ActiveIsCurrent
INVARIANT WorkConserving
PROPERTY StartsWithinLimit
PROPERTY NoOvertaking
PROPERTY DrainedMeansSettled
PROPERTY QueuedCommandLeaves
PROPERTY WaiterReturns
