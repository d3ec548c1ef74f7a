\* Deployments, stores and clusters: commands that fail, are killed, repeat.
CONSTANTS
    MaxOperations = 2
    MaxFaults = 2
    MaxImages = 2
    MaxAttempts = 2
    MaxCommands = 3
    MaxTroubles = 1
    MaxRenewals = 1
    MaxDocuments = 2
    MaxValues = 2
    MaxChanges = 1
SPECIFICATION AnySpec
INVARIANTS AllTypeOK WayForward Unlocked
PROPERTIES
    PassedMeansProvided
    RestoredMeansRestored
    RerunKeepsLogins
    RefusedBeforeEffects
    Resumed
    RestoredTogether
    ClusterDone
    NothingLeft
    Served
    Retains
CHECK_DEADLOCK FALSE
