\* dashboard-service: NewWorker fails.
CONSTANTS
    Service = {"dashboard"}
    Request = {}
SPECIFICATION Spec
INVARIANT FailureCleansProjection
CHECK_DEADLOCK FALSE
