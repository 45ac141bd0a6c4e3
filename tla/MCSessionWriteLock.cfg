\* A gateway with two callers, a second process with one, on Linux.
SPECIFICATION FairLockSpec
CONSTANTS
    Procs = {1, 2}
    Clients = {"turn", "compact", "cli"}
    ProcOf <- MCProcOf
    Reentrant = {"turn", "compact", "cli"}
    Patient = {"cli"}
    Gateways = {1}
    StartTimes = TRUE
    LongHolds = FALSE
    MaxEvents = 1
INVARIANT SingleWriter
INVARIANT JudgementIsSound
PROPERTY SomebodyGetsIn
CHECK_DEADLOCK FALSE
