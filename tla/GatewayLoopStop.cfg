\* Finding: a stop signal during a restart's shutdown is ignored.
SPECIFICATION FairLoopSpec
CONSTANTS
    Lanes <- MCLanes
    Tasks <- Slots
    Runs = {"alice1"}
    Sessions = {"alice"}
    GlobalLanes = {"main"}
    SessionOf <- MCSessionOf
    LaneOf <- MCLaneOf
    NoRun = NoRun
    MaxAttempts = 1
    Waiters = {"drain"}
    MaxConcurrency = 1
    MaxGeneration = 1
    NoLane = NoLane
    MaxPollers = 1
CHECK_DEADLOCK FALSE
PROPERTY StopIsHonoured
