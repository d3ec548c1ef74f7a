\* One operator; calls fail, answers are lost, a signal ends an attempt.
CONSTANTS
    Operator = {"ann"}
    MaxAttempts = 3
    MaxFaults = 2
    MaxInterrupts = 1
    Ambiguous = TRUE
SPECIFICATION Spec
INVARIANTS TypeOK PredecessorKept
PROPERTIES
    PassedMeansDone
    RestoredMeansRestored
    RegularCompensation
    FailuresLeaveAWayForward
