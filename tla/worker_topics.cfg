\* Two topics about one policy number, a worker each, one search index.
CONSTANTS
    w1 = w1
    w2 = w2
    p1 = p1
    p2 = p2
    n1 = n1
    n2 = n2
    Worker = {w1, w2}
    Partition = {p1, p2}
    Number = {n1}
    Subscription <- TopicSubscription
    Keyed <- EveryPartition
    Shape = {"valid", "badField"}
    Decode <- SearchShape
    MaxPoll = 2
    MaxLog = 2
    MaxEvents = 3
    MaxRestarts <- OneStops
    MaxRebalances = 0
SPECIFICATION Spec
INVARIANT Converged
CHECK_DEADLOCK FALSE
