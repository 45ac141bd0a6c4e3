\* Two runs of one session across a restart.  The process exits, so TLC sees deadlocks.
SPECIFICATION FairLoopSpec
CONSTANTS
    Lanes <- MCLanes
    Tasks <- Slots
    Runs = {"alice1", "alice2"}
    Sessions = {"alice"}
    GlobalLanes = {"main"}
    SessionOf <- MCSessionOf
    LaneOf <- MCLaneOf
    NoRun = NoRun
    MaxAttempts = 1
    Waiters = {"drain"}
    MaxConcurrency = 1
    MaxGeneration = 1
    NoLane = NoLane
    MaxPollers = 1
CHECK_DEADLOCK FALSE
INVARIANT OneRunPerSessionAndLife
PROPERTY CleanHandover
PROPERTY ImplementsTurnsOfLives
PROPERTY ShutdownEnds
