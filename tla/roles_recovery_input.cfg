\* A rotation fails, and so does its recovery.
CONSTANTS
    Operator = {"ann"}
    MaxAttempts = 3
    MaxFaults = 2
    MaxInterrupts = 0
    Ambiguous = FALSE
SPECIFICATION Spec
PROPERTIES RecoveryInputUsable
