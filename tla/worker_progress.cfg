\* Progress of one worker through crashes, shutdowns and rebalances.
CONSTANTS
    w1 = w1
    w2 = w2
    p1 = p1
    p2 = p2
    n1 = n1
    n2 = n2
    Worker = {w1}
    Partition = {p1}
    Number = {n1}
    Subscription <- CommonSubscription
    Keyed <- OnePartition
    Shape = {"valid", "noPolicy", "badField"}
    Decode <- DecodeShape
    MaxPoll = 2
    MaxLog = 2
    MaxEvents = 2
    MaxRestarts <- OneStops
    MaxRebalances = 1
SPECIFICATION FairSpec
PROPERTY NeverBlocked
CHECK_DEADLOCK FALSE
