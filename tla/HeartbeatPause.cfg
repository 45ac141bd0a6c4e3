\* Finding: heartbeats that were paused for an interval do not resume.
SPECIFICATION FairRunnerSpec
CONSTANTS
    Agents = {"main"}
    Targets = {"main", "all"}
    Configs <- AnyConfig
    Requested <- AnyWake
    Priorities = {1, 2}
    Batches = {1, 2}
    MaxLives = 1
    MaxToggles = 2
PROPERTY HeartbeatsResume
