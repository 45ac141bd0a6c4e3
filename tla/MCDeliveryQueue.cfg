\* Two entries, one of them best effort, two recovery passes that can overlap, one restart (a
\* crash or one in process).  It ends when the lives are spent.
SPECIFICATION Spec
CONSTANTS
    Entries = {1, 2}
    Recoveries = {r1, r2}
    BestEffort = {2}
    MaxRetries = 2
    MaxLives = 2
CHECK_DEADLOCK FALSE
INVARIANT AcceptedIsKept
INVARIANT ClosedStaysClosed
INVARIANT GivenUpIsEarned
SYMMETRY AnyPass
