\* One call fails although it was applied.
CONSTANTS
    Operator = {"ann"}
    MaxAttempts = 2
    MaxFaults = 1
    MaxInterrupts = 0
    Ambiguous = TRUE
SPECIFICATION Spec
PROPERTIES CompensatedMeansUndone
