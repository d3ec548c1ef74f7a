------------------------- MODULE PolicyEventWorker -------------------------
(***************************************************************************)
(* The Kafka projection workers of dashboard-service and of                *)
(* policy-search-service: one group member per worker, each subscribed to  *)
(* one topic, each replacing whole Elasticsearch documents named by the    *)
(* policy number.  The two consumer.go files have the same control; they   *)
(* differ in what they decode, which is the constant Decode.               *)
(*                                                                         *)
(* A record is processed synchronously, one batch at a time, under         *)
(* franz-go's auto-commit: a batch becomes committable when the next poll  *)
(* starts, and the final commit of a shutdown takes every polled record.   *)
(*                                                                         *)
(* Offsets count from 1: log[p][o] is the record at offset o and           *)
(* committed[p] is the number of records the group has committed.          *)
(***************************************************************************)
EXTENDS Integers, Sequences, FiniteSets

CONSTANTS
    Worker,         \* group members (one Worker value of one process)
    Partition,      \* partitions of every topic of the service
    Subscription,   \* Worker -> the partitions of the topic it consumes
    Number,         \* policy numbers, the Kafka keys and document ids
    Keyed,          \* Number -> the partitions its events are keyed to
    Shape,          \* shapes of a record value, see DashboardDecode
    Decode,         \* Shape -> outcome of decode
    MaxPoll,        \* maxRecords of one poll
    MaxLog,         \* bound: records per partition
    MaxEvents,      \* bound: records in all partitions
    MaxRestarts,    \* bound: Worker -> its starts after a crash or shutdown
    MaxRebalances   \* bound: revocations and expired sessions

NoOwner == "no owner"   \* an unassigned partition
NoDoc == <<>>           \* a document that does not exist

Outcome == {"event", "failure", "malformed"}

ASSUME PartitionAssumption == IsFiniteSet(Partition)
ASSUME SubscriptionAssumption == Subscription \in [Worker -> SUBSET Partition]
ASSUME KeyedAssumption == Keyed \in [Number -> SUBSET Partition]
ASSUME DecodeAssumption == Decode \in [Shape -> Outcome]
ASSUME BoundsAssumption ==
    /\ MaxPoll \in Nat \ {0}
    /\ MaxLog \in Nat
    /\ MaxEvents \in Nat
    /\ MaxRestarts \in [Worker -> Nat]
    /\ MaxRebalances \in Nat
ASSUME NoOwnerAssumption == NoOwner \notin Worker

\* Broker: partition logs, committed offsets and partition ownership.
VARIABLES log, committed, owner
\* Worker: control point, cancelled context, final commit attempted; per
\* partition the committable offset, the last handled and the last polled.
VARIABLES pc, cancelled, shut, head, cursor, position
\* Elasticsearch: the record each document holds, and requests whose client
\* has given up but that the cluster may still apply.
VARIABLES doc, late
\* History: what happened to each record.
VARIABLES written, skipped, failed, abandoned, dropped, overdue
\* Counters for the bounds.
VARIABLES restarts, rebalances

brokerVars == <<log, committed, owner>>
workerVars == <<pc, cancelled, shut, head, cursor, position>>
indexVars == <<doc, late>>
historyVars == <<written, skipped, failed, abandoned, dropped, overdue>>
counterVars == <<restarts, rebalances>>
vars == <<brokerVars, workerVars, indexVars, historyVars, counterVars>>

-----------------------------------------------------------------------------

(***************************************************************************)
(* decode of dashboard-service: a missing policy or number is a handler    *)
(* failure, every other defect makes the record malformed.                 *)
(***************************************************************************)
DashboardDecode ==
    [valid |-> "event", noPolicy |-> "failure", noNumber |-> "failure",
     badField |-> "malformed", badEnvelope |-> "malformed"]

\* decode of policy-search-service: an empty number is accepted.
SearchDecode == [DashboardDecode EXCEPT !.noNumber = "event"]

Offset == 1 .. MaxLog
Ref == Partition \X Offset
Record == [shape : Shape, number : Number]

OutcomeOf(p, o) == Decode[log[p][o].shape]
IsEvent(r) == OutcomeOf(r[1], r[2]) = "event"
Owned(w) == {p \in Partition : owner[p] = w}

\* The polled records of partitions that worker w has not handled.
Unhandled(w) ==
    {r \in Ref : cursor[w][r[1]] < r[2] /\ r[2] <= position[w][r[1]]}

\* What is settled has been written, or given up for a reason.
Settled == written \cup skipped \cup failed \cup abandoned \cup dropped

\* Mutant: the broker's -1 for "no committed offset" taken as a position.
MutantZero == [p \in Partition |-> -1]
Zero == [p \in Partition |-> 0]

\* NewWorker: the group starts at the earliest offset, nothing is assigned.
Init ==
    /\ log = [p \in Partition |-> <<>>]
    /\ committed = Zero
    /\ owner = [p \in Partition |-> NoOwner]
    /\ pc = [w \in Worker |-> "idle"]
    /\ cancelled = [w \in Worker |-> FALSE]
    /\ shut = [w \in Worker |-> FALSE]
    /\ head = [w \in Worker |-> Zero]
    /\ cursor = [w \in Worker |-> Zero]
    /\ position = [w \in Worker |-> Zero]
    /\ doc = [n \in Number |-> NoDoc]
    /\ late = {}
    /\ written = {} /\ skipped = {} /\ failed = {}
    /\ abandoned = {} /\ dropped = {} /\ overdue = {}
    /\ restarts = [w \in Worker |-> 0] /\ rebalances = 0

-----------------------------------------------------------------------------
(* The producer and the broker.                                            *)

\* policy-service publishes an event of number n, keyed by the number.
Produce(p, n, s) ==
    /\ Len(log[p]) < MaxLog
    /\ Cardinality({r \in Ref : r[2] <= Len(log[r[1]])}) < MaxEvents
    /\ p \in Keyed[n]
    /\ log' = [log EXCEPT ![p] = Append(@, [shape |-> s, number |-> n])]
    /\ UNCHANGED <<committed, owner, workerVars, indexVars, historyVars,
                   counterVars>>

\* Where an assigned partition resumes: at the committed offset, at the
\* earliest record when there is none.
MutantResumeAtEnd(p) == IF committed[p] = 0 THEN Len(log[p]) ELSE committed[p]
MutantResumeAtStart(p) == 0
ResumeAt(p) == committed[p]

\* The coordinator gives p to w.  A member that handles a batch blocks the
\* rebalance (BlockRebalanceOnPoll).
Assign(w, p) ==
    /\ owner[p] = NoOwner
    /\ p \in Subscription[w]
    /\ pc[w] = "idle" /\ ~shut[w]
    /\ owner' = [owner EXCEPT ![p] = w]
    /\ head' = [head EXCEPT ![w][p] = ResumeAt(p)]
    /\ cursor' = [cursor EXCEPT ![w][p] = ResumeAt(p)]
    /\ position' = [position EXCEPT ![w][p] = ResumeAt(p)]
    /\ UNCHANGED <<log, committed, pc, cancelled, shut, indexVars,
                   historyVars, counterVars>>

Release(w) == owner' = [p \in Partition |-> IF owner[p] = w THEN NoOwner
                                                            ELSE owner[p]]

\* A rebalance takes every partition of w between two batches.  The user
\* callback on revocation replaces franz-go's commit: nothing is committed.
Revoke(w) ==
    /\ Owned(w) # {}
    /\ pc[w] \in {"idle", "stopped"}
    /\ rebalances < MaxRebalances
    /\ rebalances' = rebalances + 1
    /\ Release(w)
    /\ UNCHANGED <<log, committed, workerVars, indexVars, historyVars,
                   restarts>>

\* The session of w expires, or its batch outlives the rebalance timeout: the
\* coordinator fences it, w finds out only after the batch.  A process that
\* is down always expires.
Expire(w) ==
    /\ Owned(w) # {}
    /\ \/ pc[w] = "down" /\ UNCHANGED rebalances
       \/ /\ pc[w] # "down"
          /\ rebalances < MaxRebalances
          /\ rebalances' = rebalances + 1
    /\ Release(w)
    /\ UNCHANGED <<log, committed, workerVars, indexVars, historyVars,
                   restarts>>

\* The auto-commit loop commits the records of the batches before the last
\* poll.  The broker refuses a fenced member.
AutoCommit(w) ==
    /\ pc[w] # "down" /\ ~shut[w]
    /\ committed' = [p \in Partition |->
                        IF owner[p] = w THEN head[w][p] ELSE committed[p]]
    /\ committed' # committed
    /\ UNCHANGED <<log, owner, workerVars, indexVars, historyVars,
                   counterVars>>

-----------------------------------------------------------------------------
(* Worker.Run.                                                             *)

\* Mutant: no limit on the records of one poll.
MutantPolled(w, next) ==
    \A p \in Partition :
       /\ position[w][p] <= next[p] /\ next[p] <= Len(log[p])
       /\ owner[p] # w => next[p] = position[w][p]

\* Records that a poll of w may return: the positions after the poll.
Polled(w, next) ==
    /\ \A p \in Partition :
          /\ position[w][p] <= next[p] /\ next[p] <= Len(log[p])
          /\ owner[p] # w => next[p] = position[w][p]
    /\ Cardinality({r \in Ref : position[w][r[1]] < r[2] /\ r[2] <= next[r[1]]})
          <= MaxPoll

\* Mutant: the records of this poll become committable at once.
MutantStartPoll(w, next) ==
    /\ head' = [head EXCEPT ![w] = next]
    /\ position' = [position EXCEPT ![w] = next]

\* Every owned record polled before becomes committable as a poll starts.
StartPoll(w, next) ==
    /\ head' = [head EXCEPT ![w] = position[w]]
    /\ position' = [position EXCEPT ![w] = next]

\* One poll with a live context.  An empty poll goes round the loop.
Poll(w) ==
    /\ pc[w] = "idle" /\ ~cancelled[w]
    /\ \E next \in [Partition -> 0 .. MaxLog] :
          /\ Polled(w, next)
          /\ StartPoll(w, next)
          /\ pc' = [pc EXCEPT ![w] = IF next = position[w] THEN "idle"
                                                           ELSE "handling"]
    /\ UNCHANGED <<brokerVars, cancelled, shut, cursor, indexVars,
                   historyVars, counterVars>>

\* The context ends during the poll: Run returns and never looks at what the
\* poll returned, although the client counts it as consumed.
PollCancelled(w) ==
    /\ pc[w] = "idle" /\ cancelled[w] /\ ~shut[w]
    /\ \E next \in [Partition -> 0 .. MaxLog] :
          /\ Polled(w, next)
          /\ StartPoll(w, next)
          /\ cursor' = [cursor EXCEPT ![w] = next]
          /\ dropped' = dropped \cup
                {r \in Ref : position[w][r[1]] < r[2] /\ r[2] <= next[r[1]]}
    /\ pc' = [pc EXCEPT ![w] = "stopped"]
    /\ UNCHANGED <<brokerVars, cancelled, shut, indexVars, written, skipped,
                   failed, abandoned, overdue, counterVars>>

\* The loop condition sees the cancelled context before another poll.
StopRun(w) ==
    /\ pc[w] = "idle" /\ cancelled[w]
    /\ pc' = [pc EXCEPT ![w] = "stopped"]
    /\ UNCHANGED <<brokerVars, cancelled, shut, head, cursor, position,
                   indexVars, historyVars, counterVars>>

\* w handles offset o of p next: a fetch lists a partition's records in
\* order and one partition after the other.
Handles(w, p, o) ==
    /\ pc[w] = "handling"
    /\ <<p, o>> \in Unhandled(w)
    /\ o = cursor[w][p] + 1
    /\ \A q \in Partition \ {p} :
          cursor[w][q] \in {head[w][q], position[w][q]}

\* After a record: the next one, or AllowRebalance at the end of the batch.
ContinueAt(w, cur) ==
    /\ cursor' = [cursor EXCEPT ![w] = cur]
    /\ pc' = [pc EXCEPT ![w] = IF cur = position[w] THEN "idle"
                                                    ELSE "handling"]

\* The loop's continue and break.
NextRecord(w, p, o) == ContinueAt(w, [cursor[w] EXCEPT ![p] = o])
MutantBreakBatch(w, r) ==  \* retries the record in place
    /\ ContinueAt(w, cursor[w])
    /\ failed' = failed \cup {r}
    /\ UNCHANGED abandoned
BreakBatch(w, r) ==
    /\ ContinueAt(w, position[w])
    /\ failed' = failed \cup {r}
    /\ abandoned' = abandoned \cup (Unhandled(w) \ {r})

SkipMalformed(w, p, o) ==
    /\ Handles(w, p, o)
    /\ OutcomeOf(p, o) = "malformed"
    /\ skipped' = skipped \cup {<<p, o>>}
    /\ NextRecord(w, p, o)
    /\ UNCHANGED <<brokerVars, cancelled, shut, head, position, indexVars,
                   written, failed, abandoned, dropped, overdue, counterVars>>

FailDecode(w, p, o) ==
    /\ Handles(w, p, o)
    /\ OutcomeOf(p, o) = "failure"
    /\ BreakBatch(w, <<p, o>>)
    /\ UNCHANGED <<brokerVars, cancelled, shut, head, position, indexVars,
                   written, skipped, dropped, overdue, counterVars>>

\* Mutant: an existing document is kept.
MutantReplace(r) ==
    /\ doc' = [doc EXCEPT ![log[r[1]][r[2]].number] =
                            IF @ = NoDoc THEN r ELSE @]
    /\ written' = written \cup {r}

\* ReplacePolicy has replaced the document with the contents of record r.
Replace(r) ==
    /\ doc' = [doc EXCEPT ![log[r[1]][r[2]].number] = r]
    /\ written' = written \cup {r}

\* The client stops waiting for a request the cluster may still apply.
GiveUp(r) ==
    /\ late' = late \cup {r}
    /\ overdue' = overdue \cup {r}

\* ProjectPolicy succeeds: only with a live context, its error is returned
\* even when the document has been replaced.
Project(w, p, o) ==
    /\ Handles(w, p, o)
    /\ OutcomeOf(p, o) = "event"
    /\ ~cancelled[w]
    /\ Replace(<<p, o>>)
    /\ NextRecord(w, p, o)
    /\ UNCHANGED <<brokerVars, cancelled, shut, head, position, late,
                   skipped, failed, abandoned, dropped, overdue, counterVars>>

\* ProjectPolicy fails: rejected or unreachable, applied with its answer
\* lost, timed out or cancelled, or given up and still on its way.
FailProject(w, p, o) ==
    /\ Handles(w, p, o)
    /\ OutcomeOf(p, o) = "event"
    /\ BreakBatch(w, <<p, o>>)
    /\ \/ UNCHANGED <<indexVars, written, overdue>>
       \/ Replace(<<p, o>>) /\ UNCHANGED <<late, overdue>>
       \/ GiveUp(<<p, o>>) /\ UNCHANGED <<doc, written>>
    /\ UNCHANGED <<brokerVars, cancelled, shut, head, position, skipped,
                   dropped, counterVars>>

\* Elasticsearch applies, or loses, a request its client gave up.
LateWrite(r) ==
    /\ r \in late
    /\ late' = late \ {r}
    /\ Replace(r) \/ UNCHANGED <<doc, written>>
    /\ UNCHANGED <<brokerVars, workerVars, skipped, failed, abandoned,
                   dropped, overdue, counterVars>>

-----------------------------------------------------------------------------
(* Shutdown, crash and restart of the process.                             *)

Cancel(w) ==
    /\ pc[w] \in {"idle", "handling"} /\ ~cancelled[w]
    /\ restarts[w] < MaxRestarts[w]
    /\ cancelled' = [cancelled EXCEPT ![w] = TRUE]
    /\ UNCHANGED <<brokerVars, pc, shut, head, cursor, position, indexVars,
                   historyVars, counterVars>>

\* Worker.Shutdown: commit every polled record, let rebalances go, close.  It
\* runs after Run has returned or after the graceful deadline has passed with
\* Run still busy.  The commit may fail; a close that outlives the deadline
\* leaves the member in the group until its session expires.
Shutdown(w) ==
    /\ cancelled[w] /\ ~shut[w]
    /\ pc[w] \in {"stopped", "idle", "handling"}
    /\ shut' = [shut EXCEPT ![w] = TRUE]
    /\ \/ /\ committed' = [p \in Partition |->
                IF owner[p] = w THEN position[w][p] ELSE committed[p]]
          /\ dropped' = dropped \cup {r \in Unhandled(w) : owner[r[1]] = w}
       \/ UNCHANGED <<committed, dropped>>
    /\ Release(w) \/ UNCHANGED owner
    /\ UNCHANGED <<log, pc, cancelled, head, cursor, position, indexVars,
                   written, skipped, failed, abandoned, overdue, counterVars>>

\* The process ends: killed at any time, perhaps with a request on its way,
\* or by itself after Shutdown.
Exit(w) ==
    /\ pc[w] # "down"
    /\ shut[w] \/ restarts[w] < MaxRestarts[w]
    /\ pc' = [pc EXCEPT ![w] = "down"]
    /\ \/ UNCHANGED <<late, overdue>>
       \/ \E r \in Ref : Handles(w, r[1], r[2]) /\ IsEvent(r) /\ GiveUp(r)
    /\ UNCHANGED <<brokerVars, cancelled, shut, head, cursor, position, doc,
                   written, skipped, failed, abandoned, dropped,
                   counterVars>>

\* A new process; it gets partitions once the old member's session expired.
Start(w) ==
    /\ pc[w] = "down" /\ Owned(w) = {}
    /\ restarts[w] < MaxRestarts[w]
    /\ restarts' = [restarts EXCEPT ![w] = @ + 1]
    /\ pc' = [pc EXCEPT ![w] = "idle"]
    /\ cancelled' = [cancelled EXCEPT ![w] = FALSE]
    /\ shut' = [shut EXCEPT ![w] = FALSE]
    /\ head' = [head EXCEPT ![w] = Zero]
    /\ cursor' = [cursor EXCEPT ![w] = Zero]
    /\ position' = [position EXCEPT ![w] = Zero]
    /\ UNCHANGED <<brokerVars, indexVars, historyVars, rebalances>>

-----------------------------------------------------------------------------

Handle(w) ==
    \E p \in Partition, o \in Offset :
        \/ SkipMalformed(w, p, o)
        \/ FailDecode(w, p, o)
        \/ Project(w, p, o)
        \/ FailProject(w, p, o)

Next ==
    \/ \E p \in Partition, n \in Number, s \in Shape : Produce(p, n, s)
    \/ \E w \in Worker, p \in Partition : Assign(w, p)
    \/ \E w \in Worker :
          \/ Revoke(w) \/ Expire(w) \/ AutoCommit(w)
          \/ Poll(w) \/ PollCancelled(w) \/ StopRun(w) \/ Handle(w)
          \/ Cancel(w) \/ Shutdown(w) \/ Exit(w) \/ Start(w)
    \/ \E r \in Ref : LateWrite(r)

Spec == Init /\ [][Next]_vars
-----------------------------------------------------------------------------
(* Properties.                                                             *)

TypeOK ==
    /\ log \in [Partition -> Seq(Record)]
    /\ \A p \in Partition : Len(log[p]) <= MaxLog
    /\ committed \in [Partition -> Nat]
    /\ owner \in [Partition -> Worker \cup {NoOwner}]
    /\ pc \in [Worker -> {"idle", "handling", "stopped", "down"}]
    /\ cancelled \in [Worker -> BOOLEAN]
    /\ shut \in [Worker -> BOOLEAN]
    /\ head \in [Worker -> [Partition -> Nat]]
    /\ cursor \in [Worker -> [Partition -> Nat]]
    /\ position \in [Worker -> [Partition -> Nat]]
    /\ doc \in [Number -> Ref \cup {NoDoc}]
    /\ late \subseteq Ref
    /\ written \subseteq Ref
    /\ skipped \subseteq Ref
    /\ failed \subseteq Ref
    /\ abandoned \subseteq Ref
    /\ dropped \subseteq Ref
    /\ overdue \subseteq Ref
    /\ restarts \in [Worker -> Nat]
    /\ rebalances \in Nat

\* The records the group will not be given again.
Consumed == {r \in Ref : r[2] <= committed[r[1]]}

\* Every committed record has been handled by some worker, or was given up
\* for a reason the code knows: malformed, handler failure, stopped batch, or
\* polled by a worker that was shutting down (Run, Shutdown).
Accounted == Consumed \subseteq Settled

\* Crashes, expired sessions, rebalances and failed commits never lose an
\* event: without a handler failure and without a poll that a shutdown cut
\* off, every committed event has reached its document at least once.
AtLeastOnce ==
    failed = {} /\ dropped = {} =>
        \A r \in Consumed : IsEvent(r) => r \in written

\* A failed record takes down at most the rest of its batch: fewer than MaxPoll
\* records at once, and of its own partition only those after it (Run's break).
CollateralBounded ==
    [][abandoned' # abandoned =>
          /\ Cardinality(abandoned' \ abandoned) < MaxPoll
          /\ \E f \in failed' : \A r \in abandoned' \ abandoned :
                r[1] = f[1] => f[2] < r[2]]_vars

\* A committed offset never goes back: a fenced member's late commit, the
\* auto-commit and the final commit all move forward.
CommitMonotone ==
    [][\A p \in Partition : committed[p] <= committed'[p]]_vars

\* Partition p is consumed to its end by its only subscriber, which polls.
Seen(p) ==
    \E w \in Worker :
       /\ owner[p] = w
       /\ \A v \in Worker \ {w} : p \notin Subscription[v]
       /\ pc[w] = "idle" /\ position[w][p] = Len(log[p])

EventsOf(p, n) == {o \in 1 .. Len(log[p]) : log[p][o].number = n
                                            /\ IsEvent(<<p, o>>)}

\* Redelivery after crashes and rebalances replays a suffix of a partition,
\* so the document ends at the newest event of its number in one of the
\* topics (whichever worker wrote last), never at an older one, when nothing
\* failed, was cut off or was applied late.
Converged ==
    failed \cup dropped \cup overdue = {} =>
        \A n \in Number :
            /\ \A p \in Keyed[n] : Seen(p)
            /\ \E p \in Keyed[n] : EventsOf(p, n) # {}
            => \E p \in Keyed[n] : \E o \in EventsOf(p, n) :
                  /\ doc[n] = <<p, o>>
                  /\ \A e \in EventsOf(p, n) : e <= o

-----------------------------------------------------------------------------
(* Fairness: the loops of the client and of Run go on, the coordinator     *)
(* assigns free partitions and expires dead members, a cancelled process   *)
(* runs its shutdown and a stopped one is started again.  Produce, Revoke, *)
(* Cancel, crashes and late writes need not happen.                        *)

FairSpec ==
    /\ Spec
    /\ \A w \in Worker :
          /\ WF_vars(Poll(w))
          /\ WF_vars(StopRun(w))
          /\ WF_vars(Handle(w))
          /\ WF_vars(AutoCommit(w))
          /\ WF_vars(Shutdown(w))
          /\ WF_vars(shut[w] /\ pc[w] = "stopped" /\ Exit(w))
          /\ WF_vars(Start(w))
          /\ WF_vars(pc[w] = "down" /\ Expire(w))
          /\ \A p \in Partition : WF_vars(Assign(w, p))

\* No record blocks its partition: whatever it decodes to and however often
\* its write fails, the committed offset passes it.
NeverBlocked ==
    \A r \in Ref :
        Len(log[r[1]]) >= r[2] ~> committed[r[1]] >= r[2]
=============================================================================
