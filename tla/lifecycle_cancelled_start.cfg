\* dashboard-service: cancelled while it starts.
CONSTANTS
    Service = {"dashboard"}
    Request = {}
SPECIFICATION Spec
PROPERTY CleanStop
CHECK_DEADLOCK FALSE
