\* Two workers of overlapping processes share one partition.
CONSTANTS
    w1 = w1
    w2 = w2
    p1 = p1
    p2 = p2
    n1 = n1
    n2 = n2
    Worker = {w1, w2}
    Partition = {p1}
    Number = {n1}
    Subscription <- CommonSubscription
    Keyed <- OnePartition
    Shape = {"valid"}
    Decode <- DecodeShape
    MaxPoll = 2
    MaxLog = 2
    MaxEvents = 3
    MaxRestarts <- OneStops
    MaxRebalances = 1
SPECIFICATION Spec
INVARIANT Accounted
PROPERTY CommitMonotone
CHECK_DEADLOCK FALSE
