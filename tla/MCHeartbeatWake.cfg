\* Two targets, two lives of the gateway, batches that outlive a handover.
SPECIFICATION FairWakeSpec
CONSTANTS
    Targets = {"all", "main"}
    Priorities = {1, 3}
    Batches = {1, 2, 3}
    MaxLives = 2
INVARIANT PendingIsTimed
INVARIANT BatchesAreSerial
PROPERTY WakeIsServed
