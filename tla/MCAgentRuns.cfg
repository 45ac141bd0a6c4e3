\* Three runs of one session, so that two can wait for a turn: an inbound one and two manual
\* cron runs, which also compete for the cron lane.
SPECIFICATION FairAgentSpec
CONSTANTS
    Lanes <- MCLanes
    Tasks <- Slots
    Runs = {"chat1", "cron1", "cron2"}
    Sessions = {"alice"}
    GlobalLanes = {"main", "cron", "nested"}
    SessionOf <- MCOneSession
    LaneOf <- MCLaneOf
    NoRun = NoRun
    MaxAttempts = 1
    Waiters = {}
    MaxConcurrency = 2
    MaxGeneration = 0
    NoLane = NoLane
INVARIANT OneRunPerSession
PROPERTY ImplementsTurns
PROPERTY RunReturns
