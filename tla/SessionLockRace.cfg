\* Two callers judge the file that a crash left; the slower one removes the lock of the faster.
SPECIFICATION LockSpec
CONSTANTS
    Procs = {1, 2}
    Clients = {"turn", "compact", "cli"}
    ProcOf <- MCProcOf
    Reentrant = {"turn", "compact", "cli"}
    Patient = {"cli"}
    Gateways = {}
    StartTimes = TRUE
    LongHolds = FALSE
    MaxEvents = 1
INVARIANT AlwaysSingleWriter
CHECK_DEADLOCK FALSE
