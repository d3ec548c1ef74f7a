------------------------ MODULE MCPolicyEventWorker ------------------------
(* Small instances of PolicyEventWorker.                                   *)
EXTENDS PolicyEventWorker, TLC

CONSTANTS w1, w2, p1, p2, n1, n2

\* Every worker consumes every partition.
CommonSubscription == [w \in Worker |-> Partition]

\* policy-search-service: one worker of the registered, one of the terminated
\* topic, with a partition each.
TopicSubscription == (w1 :> {p1}) @@ (w2 :> {p2})

\* One partition for all numbers, one per number, or one in every topic.
OnePartition == [n \in Number |-> {p1}]
OwnPartition == (n1 :> {p1}) @@ (n2 :> {p2})
EveryPartition == [n \in Number |-> Partition]

\* Only w1 is ever stopped, or any worker may be, once.
OneStops == [w \in Worker |-> IF w = w1 THEN 1 ELSE 0]
NoneStops == [w \in Worker |-> 0]

DecodeShape == [s \in Shape |-> DashboardDecode[s]]
SearchShape == [s \in Shape |-> SearchDecode[s]]

=============================================================================
