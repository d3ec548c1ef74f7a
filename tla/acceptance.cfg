\* One script each; steps fail, scripts are killed, phases are repeated.
CONSTANTS
    MaxPods = 4
    MaxOperations = 4
    MaxTroubles = 1
    MaxFaults = 1
    MaxKills = 1
    MaxCandidates = 2
    Rebuilds = FALSE
SPECIFICATION AnySpec
INVARIANTS AllTypeOK NothingMissing EvidenceTrue
PROPERTIES SearchReplaced Recovered KeepsItsEnvironment FollowerGone
CHECK_DEADLOCK FALSE
