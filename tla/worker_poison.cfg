\* One worker, two partitions: poison records, crashes, shutdowns.
CONSTANTS
    w1 = w1
    w2 = w2
    p1 = p1
    p2 = p2
    n1 = n1
    n2 = n2
    Worker = {w1}
    Partition = {p1, p2}
    Number = {n1, n2}
    Subscription <- CommonSubscription
    Keyed <- OwnPartition
    Shape = {"valid", "noPolicy"}
    Decode <- DecodeShape
    MaxPoll = 2
    MaxLog = 2
    MaxEvents = 3
    MaxRestarts <- OneStops
    MaxRebalances = 0
SPECIFICATION Spec
INVARIANTS TypeOK AtLeastOnce
PROPERTY CollateralBounded
CHECK_DEADLOCK FALSE
