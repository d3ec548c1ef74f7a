---------------------- MODULE PolicyEventWorkerProofs ----------------------
(***************************************************************************)
(* Proofs about the projection workers, for every set of workers,          *)
(* partitions and numbers, every decoder and every bound.                  *)
(*                                                                         *)
(* Accounted is not inductive: whether a commit is safe depends on how far *)
(* the committing worker has handled its batch.  IInv adds the order of a  *)
(* worker's positions and that everything a partition's owner has passed   *)
(* is settled.                                                             *)
(***************************************************************************)
EXTENDS PolicyEventWorker, FiniteSetTheorems, TLAPS

\* The positions of a worker are ordered, and its partitions' committed
\* offsets have not overtaken what it may commit.
Positions ==
  /\ \A p \in Partition : committed[p] <= Len(log[p])
  /\ \A w \in Worker, p \in Partition :
        /\ head[w][p] <= cursor[w][p]
        /\ cursor[w][p] <= position[w][p]
        /\ position[w][p] <= Len(log[p])
        /\ pc[w] = "idle" => cursor[w][p] = position[w][p]
        /\ owner[p] = w => committed[p] <= position[w][p]
        /\ owner[p] = w /\ ~shut[w] => committed[p] <= head[w][p]

\* What the owner of a partition has passed is settled.
HandledSettled ==
    \A w \in Worker, r \in Ref :
        owner[r[1]] = w /\ r[2] <= cursor[w][r[1]] => r \in Settled

\* Only malformed records are skipped, and only a failure abandons records.
Reasons ==
    /\ \A r \in skipped : r[2] <= Len(log[r[1]]) /\ ~IsEvent(r)
    /\ abandoned # {} => failed # {}

IInv == TypeOK /\ Positions /\ HandledSettled /\ Accounted /\ Reasons

-----------------------------------------------------------------------------

LEMMA InitIInv == Init => IInv
<1> SUFFICES ASSUME Init PROVE IInv
  OBVIOUS
<1> USE DEF Init
<1>1. TypeOK
  BY BoundsAssumption DEF TypeOK, Zero, Ref
<1>2. Positions
  BY BoundsAssumption, NoOwnerAssumption DEF Positions, Zero
<1>3. HandledSettled
  BY NoOwnerAssumption DEF HandledSettled, Ref
<1>4. Accounted
  BY DEF Accounted, Consumed, Ref, Offset, Zero
<1>5. Reasons
  BY DEF Reasons
<1> QED
  BY <1>1, <1>2, <1>3, <1>4, <1>5 DEF IInv
\* The positions and the lengths of the logs are natural numbers.
LEMMA PositionTypes ==
  ASSUME TypeOK
  PROVE  /\ \A p \in Partition : committed[p] \in Nat /\ Len(log[p]) \in Nat
         /\ \A w \in Worker, p \in Partition :
               /\ head[w][p] \in Nat
               /\ cursor[w][p] \in Nat
               /\ position[w][p] \in Nat
  BY DEF TypeOK

\* A step that leaves the workers' progress, the history and the offsets
\* alone keeps what these say.
LEMMA StutterIInv == IInv /\ UNCHANGED vars => IInv'
  BY DEF IInv, vars, brokerVars, workerVars, indexVars, historyVars,
         counterVars, TypeOK, Positions, HandledSettled, Settled, Accounted,
         Consumed, Reasons, IsEvent, OutcomeOf

LEMMA ProduceIInv ==
  ASSUME IInv, NEW p \in Partition, NEW n \in Number, NEW s \in Shape,
         Produce(p, n, s)
  PROVE  IInv'
<1> USE DEF IInv, Produce, workerVars, indexVars, historyVars, counterVars
<1> DEFINE rec == [shape |-> s, number |-> n]
<1>1. /\ log' \in [Partition -> Seq(Record)]
      /\ \A q \in Partition : Len(log'[q]) \in Nat /\ Len(log'[q]) <= MaxLog
      /\ \A q \in Partition : Len(log[q]) \in Nat /\ Len(log[q]) <= Len(log'[q])
      /\ \A q \in Partition : \A o \in 1 .. Len(log[q]) : log'[q][o] = log[q][o]
  <2>1. rec \in Record
    BY DEF Record
  <2>2. /\ log[p] \in Seq(Record)
        /\ Append(log[p], rec) \in Seq(Record)
        /\ Len(Append(log[p], rec)) = Len(log[p]) + 1
        /\ \A o \in 1 .. Len(log[p]) : Append(log[p], rec)[o] = log[p][o]
    BY <2>1 DEF TypeOK
  <2> QED
    BY <2>1, <2>2, BoundsAssumption DEF TypeOK
<1>2. TypeOK'
  BY <1>1 DEF TypeOK
<1>3. Positions'
  BY <1>1 DEF Positions, TypeOK
<1>4. HandledSettled' /\ Accounted'
  BY DEF HandledSettled, Settled, Accounted, Consumed
<1>5. Reasons'
  <2>1. \A r \in skipped : /\ r[1] \in Partition
                           /\ r[2] \in 1 .. Len(log[r[1]])
                           /\ r[2] <= Len(log'[r[1]])
    BY <1>1 DEF Reasons, TypeOK, Ref, Offset
  <2> QED
    BY <1>1, <2>1 DEF Reasons, IsEvent, OutcomeOf
<1> QED
  BY <1>2, <1>3, <1>4, <1>5

\* A partition is assigned at its committed offset, up to which all is settled.
LEMMA AssignIInv ==
  ASSUME IInv, NEW w \in Worker, NEW p \in Partition, Assign(w, p)
  PROVE  IInv'
<1> USE DEF IInv
<1>1. /\ owner' = [owner EXCEPT ![p] = w]
      /\ head' = [head EXCEPT ![w][p] = committed[p]]
      /\ cursor' = [cursor EXCEPT ![w][p] = committed[p]]
      /\ position' = [position EXCEPT ![w][p] = committed[p]]
      /\ UNCHANGED <<log, committed, pc, cancelled, shut, doc, late>>
      /\ UNCHANGED <<written, skipped, failed, abandoned, dropped, overdue>>
      /\ UNCHANGED <<restarts, rebalances>>
  BY DEF Assign, ResumeAt, indexVars, historyVars, counterVars
<1>2. committed[p] \in Nat /\ committed[p] <= Len(log[p])
  BY DEF TypeOK, Positions
<1>3. TypeOK'
  BY <1>1, <1>2 DEF TypeOK
<1>4. \A v \in Worker, q \in Partition :
         IF v = w /\ q = p
         THEN /\ head'[v][q] = committed[p]
              /\ cursor'[v][q] = committed[p]
              /\ position'[v][q] = committed[p]
         ELSE /\ head'[v][q] = head[v][q]
              /\ cursor'[v][q] = cursor[v][q]
              /\ position'[v][q] = position[v][q]
              /\ owner'[q] = v => q # p /\ owner[q] = v
  BY <1>1 DEF TypeOK
<1>5. Positions'
  BY <1>1, <1>2, <1>4 DEF Positions
<1>6. HandledSettled'
  <2> SUFFICES ASSUME NEW v \in Worker, NEW r \in Ref, owner'[r[1]] = v,
                      r[2] <= cursor'[v][r[1]]
               PROVE  r \in Settled
    BY <1>1 DEF HandledSettled, Settled
  <2>1. r[1] \in Partition
    BY DEF Ref
  <2> QED
    BY <1>4, <2>1 DEF HandledSettled, Accounted, Consumed
<1>7. Accounted' /\ Reasons'
  BY <1>1 DEF Accounted, Consumed, Settled, Reasons, IsEvent, OutcomeOf
<1> QED
  BY <1>3, <1>5, <1>6, <1>7

LEMMA RevokeIInv ==
  ASSUME IInv, NEW w \in Worker, Revoke(w) \/ Expire(w)
  PROVE  IInv'
<1> USE DEF IInv, Revoke, Expire, Release, workerVars, indexVars, historyVars
<1>1. TypeOK'
  BY DEF TypeOK
<1>2. \A p \in Partition : owner'[p] \in {owner[p], NoOwner}
  OBVIOUS
<1>3. Positions'
  BY <1>2, NoOwnerAssumption DEF Positions
<1>4. HandledSettled'
  BY <1>2, NoOwnerAssumption DEF HandledSettled, Settled, Ref
<1>5. Accounted' /\ Reasons'
  BY DEF Accounted, Consumed, Settled, Reasons, IsEvent, OutcomeOf
<1> QED
  BY <1>1, <1>3, <1>4, <1>5

LEMMA AutoCommitIInv ==
  ASSUME IInv, NEW w \in Worker, AutoCommit(w)
  PROVE  IInv'
<1> USE DEF IInv, AutoCommit, workerVars, indexVars, historyVars, counterVars
<1>1. TypeOK'
  BY DEF TypeOK
<1>2. Positions'
  <2>1. \A p \in Partition :
           committed'[p] = IF owner[p] = w THEN head[w][p] ELSE committed[p]
    OBVIOUS
  <2> QED
    BY <2>1, PositionTypes DEF Positions
<1>3. HandledSettled' /\ Reasons'
  BY DEF HandledSettled, Settled, Reasons, IsEvent, OutcomeOf
<1>4. Accounted'
  <2> SUFFICES ASSUME NEW r \in Ref, r[2] <= committed'[r[1]]
               PROVE  r \in Settled
    BY DEF Accounted, Consumed, Settled
  <2>1. r[1] \in Partition /\ r[2] \in Nat
    BY DEF Ref, Offset
  <2>2. CASE owner[r[1]] = w
    BY <2>1, <2>2 DEF Positions, HandledSettled, TypeOK
  <2>3. CASE owner[r[1]] # w
    BY <2>1, <2>3 DEF Accounted, Consumed
  <2> QED
    BY <2>2, <2>3
<1> QED
  BY <1>1, <1>2, <1>3, <1>4

\* What a poll returns lies between the old position and the end of the log.
LEMMA PollIInv ==
  ASSUME IInv, NEW w \in Worker, Poll(w)
  PROVE  IInv'
<1> USE DEF IInv
<1>1. PICK next \in [Partition -> 0 .. MaxLog] :
         /\ Polled(w, next)
         /\ StartPoll(w, next)
         /\ pc' = [pc EXCEPT ![w] = IF next = position[w] THEN "idle"
                                                          ELSE "handling"]
  BY DEF Poll
<1>2. /\ pc[w] = "idle"
      /\ UNCHANGED <<log, committed, owner, cancelled, shut, cursor, doc, late>>
      /\ UNCHANGED <<written, skipped, failed, abandoned, dropped, overdue>>
      /\ UNCHANGED <<restarts, rebalances>>
  BY DEF Poll, brokerVars, indexVars, historyVars, counterVars
<1>3. /\ head' = [head EXCEPT ![w] = position[w]]
      /\ position' = [position EXCEPT ![w] = next]
      /\ next \in [Partition -> Nat]
      /\ \A p \in Partition : /\ position[w][p] <= next[p]
                               /\ next[p] <= Len(log[p])
  BY <1>1, BoundsAssumption DEF StartPoll, Polled
<1>4. TypeOK'
  BY <1>1, <1>2, <1>3 DEF TypeOK
<1>5. Positions'
  <2>1. \A v \in Worker, p \in Partition :
           /\ head'[v][p] = IF v = w THEN position[w][p] ELSE head[v][p]
           /\ position'[v][p] = IF v = w THEN next[p] ELSE position[v][p]
    BY <1>3 DEF TypeOK
  <2>2. \A v \in Worker : pc'[v] = "idle" => pc[v] = "idle" /\
                                              (v = w => next = position[w])
    BY <1>1, <1>2 DEF TypeOK
  <2> QED
    BY <1>2, <1>3, <2>1, <2>2, PositionTypes DEF Positions
<1>6. HandledSettled' /\ Accounted' /\ Reasons'
  BY <1>2 DEF HandledSettled, Settled, Accounted, Consumed, Reasons, IsEvent,
              OutcomeOf
<1> QED
  BY <1>4, <1>5, <1>6

LEMMA PollCancelledIInv ==
  ASSUME IInv, NEW w \in Worker, PollCancelled(w)
  PROVE  IInv'
<1> USE DEF IInv
<1>1. PICK next \in [Partition -> 0 .. MaxLog] :
         /\ Polled(w, next)
         /\ StartPoll(w, next)
         /\ cursor' = [cursor EXCEPT ![w] = next]
         /\ dropped' = dropped \cup
               {r \in Ref : position[w][r[1]] < r[2] /\ r[2] <= next[r[1]]}
  BY DEF PollCancelled
<1>2. /\ pc[w] = "idle" /\ pc' = [pc EXCEPT ![w] = "stopped"]
      /\ UNCHANGED <<log, committed, owner, cancelled, shut, doc, late>>
      /\ UNCHANGED <<written, skipped, failed, abandoned, overdue>>
      /\ UNCHANGED <<restarts, rebalances>>
  BY DEF PollCancelled, brokerVars, indexVars, counterVars
<1>3. /\ head' = [head EXCEPT ![w] = position[w]]
      /\ position' = [position EXCEPT ![w] = next]
      /\ next \in [Partition -> Nat]
      /\ \A p \in Partition : /\ position[w][p] <= next[p]
                               /\ next[p] <= Len(log[p])
  BY <1>1, BoundsAssumption DEF StartPoll, Polled
<1>4. \A v \in Worker, p \in Partition :
         /\ head'[v][p] = IF v = w THEN position[w][p] ELSE head[v][p]
         /\ cursor'[v][p] = IF v = w THEN next[p] ELSE cursor[v][p]
         /\ position'[v][p] = IF v = w THEN next[p] ELSE position[v][p]
  BY <1>1, <1>3 DEF TypeOK
<1>5. TypeOK'
  BY <1>1, <1>2, <1>3 DEF TypeOK
<1>6. Positions'
  <2>1. \A v \in Worker : pc'[v] = "idle" => pc[v] = "idle" /\ v # w
    BY <1>2 DEF TypeOK
  <2> QED
    BY <1>2, <1>3, <1>4, <2>1, PositionTypes DEF Positions
<1>7. HandledSettled'
  <2> SUFFICES ASSUME NEW v \in Worker, NEW r \in Ref, owner[r[1]] = v,
                      r[2] <= cursor'[v][r[1]], r \notin Settled
               PROVE  r \in dropped'
    BY <1>2, <1>1 DEF HandledSettled, Settled
  <2>1. r[1] \in Partition /\ r[2] \in Nat /\ cursor[w][r[1]] = position[w][r[1]]
    BY <1>2 DEF Ref, Offset, Positions
  <2>2. ~ (r[2] <= cursor[v][r[1]])
    BY DEF HandledSettled
  <2> QED
    BY <1>1, <1>4, <2>1, <2>2, PositionTypes
<1>8. Accounted' /\ Reasons'
  BY <1>1, <1>2 DEF Accounted, Consumed, Settled, Reasons, IsEvent, OutcomeOf
<1> QED
  BY <1>5, <1>6, <1>7, <1>8

LEMMA StopRunIInv ==
  ASSUME IInv, NEW w \in Worker, StopRun(w) \/ Cancel(w) \/ Exit(w)
  PROVE  IInv'
<1> USE DEF IInv, StopRun, Cancel, Exit, GiveUp, brokerVars, indexVars,
            historyVars, counterVars
<1>1. TypeOK'
  BY DEF TypeOK
<1>2. Positions'
  <2>1. \A v \in Worker : pc'[v] = "idle" => pc[v] = "idle"
    BY DEF TypeOK
  <2> QED
    BY <2>1 DEF Positions
<1>3. HandledSettled' /\ Accounted' /\ Reasons'
  BY DEF HandledSettled, Settled, Accounted, Consumed, Reasons, IsEvent,
         OutcomeOf
<1> QED
  BY <1>1, <1>2, <1>3

LEMMA StartIInv ==
  ASSUME IInv, NEW w \in Worker, Start(w)
  PROVE  IInv'
<1> USE DEF IInv, Start, brokerVars, indexVars, historyVars
<1>1. TypeOK'
  BY DEF TypeOK, Zero
<1>2. /\ \A p \in Partition : owner[p] # w
      /\ UNCHANGED <<owner, log, committed>>
      /\ \A p \in Partition : /\ head'[w][p] = 0
                               /\ cursor'[w][p] = 0
                               /\ position'[w][p] = 0
      /\ \A v \in Worker \ {w} : /\ head'[v] = head[v]
                                  /\ cursor'[v] = cursor[v]
                                  /\ position'[v] = position[v]
                                  /\ pc'[v] = pc[v]
                                  /\ shut'[v] = shut[v]
  BY DEF TypeOK, Zero, Owned
<1>3. Positions'
  BY <1>2, PositionTypes DEF Positions
<1>4. HandledSettled'
  BY <1>2 DEF HandledSettled, Settled, Ref
<1>5. Accounted' /\ Reasons'
  BY DEF Accounted, Consumed, Settled, Reasons, IsEvent, OutcomeOf
<1> QED
  BY <1>1, <1>3, <1>4, <1>5

\* Handling part of a batch: the cursor moves within the batch, everything
\* it passes becomes settled and nothing settled is forgotten.
LEMMA ContinueIInv ==
  ASSUME IInv, NEW w \in Worker, NEW cur \in [Partition -> Nat],
         ContinueAt(w, cur),
         \A p \in Partition : cursor[w][p] <= cur[p] /\ cur[p] <= position[w][p],
         UNCHANGED <<log, committed, owner, cancelled, shut, head, position>>,
         Settled \subseteq Settled',
         \A r \in Unhandled(w) : r[2] <= cur[r[1]] => r \in Settled',
         TypeOK', Reasons'
  PROVE  IInv'
<1> USE DEF IInv
<1>1. \A v \in Worker, p \in Partition :
         cursor'[v][p] = IF v = w THEN cur[p] ELSE cursor[v][p]
  BY DEF ContinueAt, TypeOK
<1>2. Positions'
  <2>1. \A v \in Worker : pc'[v] = "idle" => IF v = w THEN cur = position[w]
                                                     ELSE pc[v] = "idle"
    BY DEF ContinueAt, TypeOK
  <2> QED
    BY <1>1, <2>1, PositionTypes DEF Positions
<1>3. HandledSettled'
  <2> SUFFICES ASSUME NEW v \in Worker, NEW r \in Ref, owner[r[1]] = v,
                      r[2] <= cursor'[v][r[1]], r \notin Settled
               PROVE  r \in Settled'
    BY DEF HandledSettled
  <2>1. r[1] \in Partition /\ r[2] \in Nat /\ ~ (r[2] <= cursor[v][r[1]])
    BY DEF Ref, Offset, HandledSettled
  <2>2. v = w /\ cursor[w][r[1]] < r[2] /\ r[2] <= cur[r[1]]
    BY <1>1, <2>1, PositionTypes
  <2>3. r \in Unhandled(w)
    BY <2>1, <2>2, PositionTypes DEF Unhandled
  <2> QED
    BY <2>2, <2>3
<1>4. Accounted'
  BY DEF Accounted, Consumed
<1> QED
  BY <1>2, <1>3, <1>4

\* The record handled next is one of the batch, and only it is passed.
LEMMA NextRecordSettles ==
  ASSUME IInv, NEW w \in Worker, NEW p \in Partition, NEW o \in Offset,
         Handles(w, p, o)
  PROVE  LET cur == [cursor[w] EXCEPT ![p] = o]
         IN  /\ cur \in [Partition -> Nat]
             /\ \A q \in Partition : /\ cursor[w][q] <= cur[q]
                                     /\ cur[q] <= position[w][q]
             /\ \A r \in Unhandled(w) : r[2] <= cur[r[1]] => r = <<p, o>>
<1> DEFINE cur == [cursor[w] EXCEPT ![p] = o]
<1>1. /\ o \in Nat /\ o = cursor[w][p] + 1 /\ o <= position[w][p]
      /\ cursor[w] \in [Partition -> Nat]
      /\ \A q \in Partition : cursor[w][q] <= position[w][q]
  BY DEF Handles, Unhandled, IInv, TypeOK, Positions, Offset
<1>2. cur \in [Partition -> Nat]
  BY <1>1
<1>3. \A q \in Partition : cursor[w][q] <= cur[q] /\ cur[q] <= position[w][q]
  BY <1>1
<1>4. ASSUME NEW r \in Unhandled(w), r[2] <= cur[r[1]]
      PROVE  r = <<p, o>>
  <2>1. r \in Partition \X Offset /\ cursor[w][r[1]] < r[2]
    BY DEF Unhandled, Ref
  <2>2. r[1] = p
    BY <1>1, <1>4, <2>1 DEF Offset
  <2>3. r[2] = o
    BY <1>1, <1>4, <2>1, <2>2 DEF Offset
  <2> QED
    BY <2>1, <2>2, <2>3
<1> QED
  BY <1>2, <1>3, <1>4

\* Handled records lie within the log.
LEMMA HandlesInLog ==
  ASSUME IInv, NEW w \in Worker, NEW p \in Partition, NEW o \in Offset,
         Handles(w, p, o)
  PROVE  o \in Nat /\ o <= Len(log[p]) /\ <<p, o>> \in Ref
  BY PositionTypes DEF Handles, Unhandled, IInv, Positions, Offset, Ref

LEMMA SkipMalformedIInv ==
  ASSUME IInv, NEW w \in Worker, NEW p \in Partition, NEW o \in Offset,
         SkipMalformed(w, p, o)
  PROVE  IInv'
<1> DEFINE cur == [cursor[w] EXCEPT ![p] = o]
<1>1. /\ Handles(w, p, o) /\ OutcomeOf(p, o) = "malformed"
      /\ skipped' = skipped \cup {<<p, o>>}
      /\ ContinueAt(w, cur)
      /\ UNCHANGED <<log, committed, owner, cancelled, shut, head, position>>
      /\ UNCHANGED <<doc, late, written, failed, abandoned, dropped, overdue>>
      /\ UNCHANGED <<restarts, rebalances>>
  BY DEF SkipMalformed, NextRecord, brokerVars, indexVars, counterVars
<1>2. cur \in [Partition -> Nat] /\ <<p, o>> \in Ref /\ o <= Len(log[p])
  BY <1>1, NextRecordSettles, HandlesInLog
<1>3. TypeOK'
  BY <1>1, <1>2 DEF IInv, TypeOK, ContinueAt
<1>4. Reasons'
  BY <1>1, <1>2 DEF IInv, Reasons, IsEvent, OutcomeOf
<1>5. Settled \subseteq Settled' /\ <<p, o>> \in Settled'
  BY <1>1 DEF Settled
<1> HIDE DEF cur
<1>6. /\ \A q \in Partition : cursor[w][q] <= cur[q] /\ cur[q] <= position[w][q]
      /\ \A r \in Unhandled(w) : r[2] <= cur[r[1]] => r \in Settled'
  BY <1>1, <1>5, NextRecordSettles DEF cur
<1> QED
  BY <1>1, <1>2, <1>3, <1>4, <1>5, <1>6, ContinueIInv

LEMMA ProjectIInv ==
  ASSUME IInv, NEW w \in Worker, NEW p \in Partition, NEW o \in Offset,
         Project(w, p, o)
  PROVE  IInv'
<1> DEFINE cur == [cursor[w] EXCEPT ![p] = o]
<1>1. /\ Handles(w, p, o)
      /\ doc' = [doc EXCEPT ![log[p][o].number] = <<p, o>>]
      /\ written' = written \cup {<<p, o>>}
      /\ ContinueAt(w, cur)
      /\ UNCHANGED <<log, committed, owner, cancelled, shut, head, position>>
      /\ UNCHANGED <<late, skipped, failed, abandoned, dropped, overdue>>
      /\ UNCHANGED <<restarts, rebalances>>
  BY DEF Project, Replace, NextRecord, brokerVars, counterVars
<1>2. cur \in [Partition -> Nat] /\ <<p, o>> \in Ref /\ o <= Len(log[p])
  BY <1>1, NextRecordSettles, HandlesInLog
<1>3. TypeOK'
  BY <1>1, <1>2 DEF IInv, TypeOK, ContinueAt
<1>4. Reasons'
  BY <1>1, <1>2 DEF IInv, Reasons, IsEvent, OutcomeOf
<1>5. Settled \subseteq Settled' /\ <<p, o>> \in Settled'
  BY <1>1 DEF Settled
<1> HIDE DEF cur
<1>6. /\ \A q \in Partition : cursor[w][q] <= cur[q] /\ cur[q] <= position[w][q]
      /\ \A r \in Unhandled(w) : r[2] <= cur[r[1]] => r \in Settled'
  BY <1>1, <1>5, NextRecordSettles DEF cur
<1> QED
  BY <1>1, <1>2, <1>3, <1>4, <1>5, <1>6, ContinueIInv

\* A break settles the rest of the batch: one record failed, the others
\* are abandoned.
LEMMA BreakIInv ==
  ASSUME IInv, NEW w \in Worker, NEW p \in Partition, NEW o \in Offset,
         FailDecode(w, p, o) \/ FailProject(w, p, o)
  PROVE  IInv'
<1>1. /\ Handles(w, p, o)
      /\ ContinueAt(w, position[w])
      /\ failed' = failed \cup {<<p, o>>}
      /\ abandoned' = abandoned \cup (Unhandled(w) \ {<<p, o>>})
      /\ UNCHANGED <<log, committed, owner, cancelled, shut, head, position>>
      /\ UNCHANGED <<skipped, dropped, restarts, rebalances>>
  BY DEF FailDecode, FailProject, BreakBatch, brokerVars, counterVars
<1>2. <<p, o>> \in Ref /\ o <= Len(log[p])
  BY <1>1, HandlesInLog
<1>3. /\ written \subseteq written' /\ written' \subseteq Ref
      /\ doc' \in [Number -> Ref \cup {NoDoc}]
      /\ late' \subseteq Ref /\ overdue' \subseteq Ref
  BY <1>2 DEF FailDecode, FailProject, Replace, GiveUp, indexVars, IInv, TypeOK
<1>4. Unhandled(w) \subseteq Ref /\ position[w] \in [Partition -> Nat]
  BY DEF Unhandled, IInv, TypeOK
<1>5. TypeOK'
  BY <1>1, <1>2, <1>3, <1>4 DEF IInv, TypeOK, ContinueAt
<1>6. Reasons'
  BY <1>1 DEF IInv, Reasons, IsEvent, OutcomeOf
<1>7. Settled \subseteq Settled' /\ Unhandled(w) \subseteq Settled'
  BY <1>1, <1>3 DEF Settled
<1>8. \A q \in Partition : /\ cursor[w][q] <= position[w][q]
                           /\ position[w][q] <= position[w][q]
  BY PositionTypes DEF IInv, Positions
<1> QED
  BY <1>1, <1>4, <1>5, <1>6, <1>7, <1>8, ContinueIInv

\* The final commit takes every polled record; what is not handled by then
\* counts as dropped.
LEMMA ShutdownIInv ==
  ASSUME IInv, NEW w \in Worker, Shutdown(w)
  PROVE  IInv'
<1> USE DEF IInv
<1>1. /\ shut' = [shut EXCEPT ![w] = TRUE]
      /\ UNCHANGED <<log, pc, cancelled, head, cursor, position, doc, late>>
      /\ UNCHANGED <<written, skipped, failed, abandoned, overdue>>
      /\ UNCHANGED <<restarts, rebalances>>
  BY DEF Shutdown, indexVars, counterVars
<1>a. /\ \A p \in Partition : owner'[p] \in {owner[p], NoOwner}
      /\ owner' \in [Partition -> Worker \cup {NoOwner}]
  <2>1. Release(w) \/ UNCHANGED owner
    BY DEF Shutdown
  <2> QED
    BY <2>1 DEF Release, TypeOK
<1>2. \/ /\ \A p \in Partition : committed'[p] =
                IF owner[p] = w THEN position[w][p] ELSE committed[p]
         /\ committed' \in [Partition -> Nat]
         /\ dropped' = dropped \cup {r \in Unhandled(w) : owner[r[1]] = w}
      \/ UNCHANGED <<committed, dropped>>
  <2>1. CASE UNCHANGED <<committed, dropped>>
    BY <2>1
  <2>2. CASE /\ committed' = [p \in Partition |->
                    IF owner[p] = w THEN position[w][p] ELSE committed[p]]
             /\ dropped' = dropped \cup {r \in Unhandled(w) : owner[r[1]] = w}
    BY <2>2 DEF TypeOK
  <2> QED
    BY <2>1, <2>2 DEF Shutdown
<1>3. TypeOK'
  BY <1>1, <1>a, <1>2 DEF TypeOK, Unhandled
<1>4. Positions'
  <2>1. /\ \A v \in Worker : v # w => shut'[v] = shut[v]
        /\ shut'[w]
    BY <1>1 DEF TypeOK
  <2>2. \A p \in Partition :
           \/ committed'[p] = committed[p]
           \/ owner[p] = w /\ committed'[p] = position[w][p]
    BY <1>2
  <2>3. \A p \in Partition : committed'[p] <= Len(log'[p])
    BY <1>1, <2>2, PositionTypes DEF Positions
  <2>4. \A v \in Worker, p \in Partition : owner'[p] = v => owner[p] = v
    BY <1>a, NoOwnerAssumption
  <2>5. \A v \in Worker, p \in Partition :
           owner'[p] = v => committed'[p] <= position'[v][p]
    BY <1>1, <2>2, <2>4, PositionTypes DEF Positions
  <2>6. \A v \in Worker, p \in Partition :
           owner'[p] = v /\ ~shut'[v] => committed'[p] <= head'[v][p]
    BY <1>1, <2>1, <2>2, <2>4, PositionTypes DEF Positions
  <2> QED
    BY <1>1, <2>3, <2>5, <2>6 DEF Positions
<1>5. HandledSettled'
  BY <1>1, <1>a, <1>2, NoOwnerAssumption DEF HandledSettled, Settled, Ref
<1>6. Accounted'
  <2> SUFFICES ASSUME NEW r \in Ref, r[2] <= committed'[r[1]], r \notin Settled
               PROVE  r \in dropped'
    BY <1>1, <1>2 DEF Accounted, Consumed, Settled
  <2>1. r[1] \in Partition /\ r[2] \in Nat
    BY DEF Ref, Offset
  <2>2. ~ (r[2] <= committed[r[1]])
    BY DEF Accounted, Consumed
  <2>3. owner[r[1]] = w /\ r[2] <= position[w][r[1]]
    BY <1>2, <2>1, <2>2
  <2>4. r \in Unhandled(w)
    BY <2>1, <2>3, PositionTypes DEF HandledSettled, Unhandled
  <2> QED
    BY <1>2, <2>2, <2>3, <2>4
<1>7. Reasons'
  BY <1>1 DEF Reasons, IsEvent, OutcomeOf
<1> QED
  BY <1>3, <1>4, <1>5, <1>6, <1>7

LEMMA LateWriteIInv ==
  ASSUME IInv, NEW r \in Ref, LateWrite(r)
  PROVE  IInv'
<1> USE DEF IInv, LateWrite, Replace, brokerVars, workerVars, counterVars
<1>1. TypeOK'
  BY DEF TypeOK
<1>2. Positions' /\ HandledSettled' /\ Accounted' /\ Reasons'
  BY DEF Positions, HandledSettled, Settled, Accounted, Consumed, Reasons,
         IsEvent, OutcomeOf
<1> QED
  BY <1>1, <1>2

LEMMA StepIInv == IInv /\ [Next]_vars => IInv'
<1> SUFFICES ASSUME IInv, [Next]_vars PROVE IInv'
  OBVIOUS
<1>1. CASE \E p \in Partition, n \in Number, s \in Shape : Produce(p, n, s)
  BY <1>1, ProduceIInv
<1>2. CASE \E w \in Worker, p \in Partition : Assign(w, p)
  BY <1>2, AssignIInv
<1>3. ASSUME NEW w \in Worker,
             \/ Revoke(w) \/ Expire(w) \/ AutoCommit(w)
             \/ Poll(w) \/ PollCancelled(w) \/ StopRun(w)
             \/ Cancel(w) \/ Shutdown(w) \/ Exit(w) \/ Start(w)
      PROVE  IInv'
  BY <1>3, RevokeIInv, AutoCommitIInv, PollIInv, PollCancelledIInv,
     StopRunIInv, ShutdownIInv, StartIInv
<1>4. ASSUME NEW w \in Worker, Handle(w)
      PROVE  IInv'
  BY <1>4, SkipMalformedIInv, ProjectIInv, BreakIInv DEF Handle
<1>5. CASE \E r \in Ref : LateWrite(r)
  BY <1>5, LateWriteIInv
<1>6. CASE UNCHANGED vars
  BY <1>6, StutterIInv
<1> QED
  BY <1>1, <1>2, <1>3, <1>4, <1>5, <1>6 DEF Next

LEMMA Invariance == Spec => []IInv
  BY InitIInv, StepIInv, PTL DEF Spec

-----------------------------------------------------------------------------

\* Every variable keeps its type: positions are numbers, documents and
\* history name records of the partitions.
THEOREM TypeCorrect == Spec => []TypeOK
<1>1. IInv => TypeOK
  BY DEF IInv
<1> QED
  BY <1>1, Invariance, PTL

\* Whatever commits -- the auto-commit loop or the final commit of a
\* shutdown, of any worker, in any interleaving with rebalances, expired
\* sessions, crashes and restarts -- commits only records that were handled
\* or given up for one of the reasons Run and Shutdown have.
THEOREM CommittedAccounted == Spec => []Accounted
<1>1. IInv => Accounted
  BY DEF IInv
<1> QED
  BY <1>1, Invariance, PTL

\* While no handler fails and no shutdown cuts a poll off, every committed
\* event has been written: auto-commit is at-least-once under crashes.
THEOREM DeliveredAtLeastOnce == Spec => []AtLeastOnce
<1>1. IInv => AtLeastOnce
  <2> SUFFICES ASSUME IInv, failed = {}, dropped = {},
                      NEW r \in Consumed, IsEvent(r)
               PROVE  r \in written
    BY DEF AtLeastOnce
  <2>1. r \in written \cup skipped
    BY DEF IInv, Accounted, Settled, Reasons
  <2> QED
    BY <2>1 DEF IInv, Reasons
<1> QED
  BY <1>1, Invariance, PTL

\* Committed offsets never move backwards, so no consumed record is handed
\* out again by a commit.
THEOREM CommitsMoveForward == Spec => CommitMonotone
<1>1. IInv /\ [Next]_vars =>
        [\A p \in Partition : committed[p] <= committed'[p]]_vars
  <2> SUFFICES ASSUME IInv, Next, NEW p \in Partition
               PROVE  committed[p] <= committed'[p]
    OBVIOUS
  <2>1. committed[p] \in Nat
    BY PositionTypes DEF IInv
  <2>2. CASE UNCHANGED committed
    BY <2>1, <2>2
  <2>3. ASSUME NEW w \in Worker, AutoCommit(w)
        PROVE  committed[p] <= committed'[p]
    BY <2>1, <2>3, PositionTypes DEF AutoCommit, IInv, Positions
  <2>4. ASSUME NEW w \in Worker, Shutdown(w)
        PROVE  committed[p] <= committed'[p]
    BY <2>1, <2>4, PositionTypes DEF Shutdown, IInv, Positions
  <2>5. ASSUME NEW w \in Worker,
               \/ Revoke(w) \/ Expire(w) \/ Poll(w) \/ PollCancelled(w)
               \/ StopRun(w) \/ Cancel(w) \/ Exit(w) \/ Start(w)
        PROVE  UNCHANGED committed
    BY <2>5 DEF Revoke, Expire, Poll, PollCancelled, StopRun, Cancel, Exit,
       Start, brokerVars
  <2>6. ASSUME NEW w \in Worker, Handle(w)
        PROVE  UNCHANGED committed
    BY <2>6 DEF Handle, SkipMalformed, FailDecode, Project, FailProject,
       brokerVars
  <2>7. ASSUME \/ \E q \in Partition, n \in Number, s \in Shape : Produce(q, n, s)
               \/ \E w \in Worker, q \in Partition : Assign(w, q)
               \/ \E r \in Ref : LateWrite(r)
        PROVE  UNCHANGED committed
    BY <2>7 DEF Produce, Assign, LateWrite, brokerVars
  <2> QED
    BY <2>2, <2>3, <2>4, <2>5, <2>6, <2>7 DEF Next
<1> QED
  BY <1>1, Invariance, PTL DEF Spec, CommitMonotone

-----------------------------------------------------------------------------

\* A batch holds at most MaxPoll records.
BatchBounded == \A w \in Worker : Cardinality(Unhandled(w)) <= MaxPoll

BInv == IInv /\ BatchBounded

LEMMA UnhandledFinite ==
  \A w \in Worker : /\ IsFiniteSet(Unhandled(w))
                    /\ Cardinality(Unhandled(w)) \in Nat
<1>1. IsFiniteSet(Offset)
  BY FS_Interval, BoundsAssumption DEF Offset
<1>2. IsFiniteSet(Ref)
  BY <1>1, PartitionAssumption, FS_Product DEF Ref
<1>3. \A w \in Worker : Unhandled(w) \subseteq Ref
  BY DEF Unhandled
<1> QED
  BY <1>2, <1>3, FS_Subset, FS_CardinalityType

\* Only a poll adds to a batch, and only to one that is handled.
LEMMA StepBatchBounded ==
  ASSUME IInv, BatchBounded, Next
  PROVE  BatchBounded'
<1> USE BoundsAssumption
<1>1. ASSUME \A v \in Worker, p \in Partition :
                \/ /\ position'[v][p] = position[v][p]
                   /\ cursor[v][p] <= cursor'[v][p]
                \/ position'[v][p] = cursor'[v][p],
             cursor' \in [Worker -> [Partition -> Nat]]
      PROVE  BatchBounded'
  <2> SUFFICES ASSUME NEW v \in Worker
               PROVE  Cardinality(Unhandled(v)') <= MaxPoll
    BY DEF BatchBounded
  <2>1. Unhandled(v)' \subseteq Unhandled(v)
    <3> SUFFICES ASSUME NEW r \in Unhandled(v)' PROVE r \in Unhandled(v)
      OBVIOUS
    <3>1. /\ r \in Ref /\ r[1] \in Partition /\ r[2] \in Nat
          /\ cursor'[v][r[1]] < r[2] /\ r[2] <= position'[v][r[1]]
      BY DEF Unhandled, Ref, Offset
    <3>2. cursor[v][r[1]] \in Nat /\ cursor'[v][r[1]] \in Nat
      BY <1>1, <3>1, PositionTypes DEF IInv
    <3> QED
      BY <1>1, <3>1, <3>2 DEF Unhandled
  <2>2. Cardinality(Unhandled(v)') <= Cardinality(Unhandled(v))
    BY <2>1, UnhandledFinite, FS_Subset
  <2>3. Cardinality(Unhandled(v)') \in Nat
    BY <2>1, UnhandledFinite, FS_Subset, FS_CardinalityType
  <2> QED
    BY <2>2, <2>3, UnhandledFinite DEF BatchBounded
<1>2. cursor' \in [Worker -> [Partition -> Nat]]
  BY StepIInv DEF IInv, TypeOK
<1>3. ASSUME NEW w \in Worker, Poll(w)
      PROVE  BatchBounded'
  <2>1. PICK next \in [Partition -> 0 .. MaxLog] :
           Polled(w, next) /\ position' = [position EXCEPT ![w] = next]
    BY <1>3 DEF Poll, StartPoll
  <2>2. UNCHANGED cursor /\ \A p \in Partition : cursor[w][p] = position[w][p]
    BY <1>3 DEF Poll, IInv, Positions
  <2>3. \A v \in Worker, p \in Partition :
           position'[v][p] = IF v = w THEN next[p] ELSE position[v][p]
    BY <2>1 DEF IInv, TypeOK
  <2>4. Unhandled(w)' = {r \in Ref : position[w][r[1]] < r[2] /\ r[2] <= next[r[1]]}
    BY <2>2, <2>3 DEF Unhandled, Ref
  <2>5. \A v \in Worker \ {w} : Unhandled(v)' = Unhandled(v)
    BY <2>2, <2>3 DEF Unhandled, Ref
  <2> QED
    BY <2>1, <2>4, <2>5 DEF BatchBounded, Polled
<1>4. ASSUME NEW w \in Worker, NEW to \in [Partition -> Nat],
             cursor' = [cursor EXCEPT ![w] = to],
             position' = [position EXCEPT ![w] = to]
      PROVE  BatchBounded'
  <2>1. \A v \in Worker, p \in Partition :
           /\ position'[v][p] = IF v = w THEN to[p] ELSE position[v][p]
           /\ cursor'[v][p] = IF v = w THEN to[p] ELSE cursor[v][p]
    BY <1>4 DEF IInv, TypeOK
  <2> QED
    BY <1>1, <1>2, <2>1, PositionTypes DEF IInv
<1>5. ASSUME NEW w \in Worker, NEW p \in Partition, Assign(w, p)
      PROVE  BatchBounded'
  <2>1. \A v \in Worker, q \in Partition :
           /\ position'[v][q] = IF v = w /\ q = p THEN committed[p]
                                                  ELSE position[v][q]
           /\ cursor'[v][q] = IF v = w /\ q = p THEN committed[p]
                                                ELSE cursor[v][q]
    BY <1>5 DEF Assign, ResumeAt, IInv, TypeOK
  <2> QED
    BY <1>1, <1>2, <2>1, PositionTypes DEF IInv
<1>6. ASSUME NEW w \in Worker, NEW cur \in [Partition -> Nat],
             cursor' = [cursor EXCEPT ![w] = cur], UNCHANGED position,
             \A p \in Partition : cursor[w][p] <= cur[p]
      PROVE  BatchBounded'
  <2>1. \A v \in Worker, p \in Partition :
           cursor'[v][p] = IF v = w THEN cur[p] ELSE cursor[v][p]
    BY <1>6 DEF IInv, TypeOK
  <2> QED
    BY <1>1, <1>2, <1>6, <2>1, PositionTypes DEF IInv
<1>7. ASSUME NEW w \in Worker, PollCancelled(w) \/ Start(w)
      PROVE  BatchBounded'
  <2>1. \E next \in [Partition -> 0 .. MaxLog] :
           /\ position' = [position EXCEPT ![w] = next]
           /\ cursor' = [cursor EXCEPT ![w] = next]
    <3>1. CASE PollCancelled(w)
      BY <3>1 DEF PollCancelled, StartPoll
    <3>2. CASE Start(w)
      <4>1. Zero \in [Partition -> 0 .. MaxLog]
        BY DEF Zero
      <4> QED
        BY <3>2, <4>1 DEF Start
    <3> QED
      BY <1>7, <3>1, <3>2
  <2>2. [Partition -> 0 .. MaxLog] \subseteq [Partition -> Nat]
    OBVIOUS
  <2> QED
    BY <1>4, <2>1, <2>2
<1>8. ASSUME NEW w \in Worker, Handle(w)
      PROVE  BatchBounded'
  <2> PICK p \in Partition, o \in Offset :
         \/ SkipMalformed(w, p, o) \/ FailDecode(w, p, o)
         \/ Project(w, p, o) \/ FailProject(w, p, o)
    BY <1>8 DEF Handle
  <2>1. CASE SkipMalformed(w, p, o) \/ Project(w, p, o)
    <3> DEFINE cur == [cursor[w] EXCEPT ![p] = o]
    <3>1. Handles(w, p, o) /\ ContinueAt(w, cur) /\ UNCHANGED position
      BY <2>1 DEF SkipMalformed, Project, NextRecord
    <3>2. /\ cur \in [Partition -> Nat]
          /\ \A q \in Partition : cursor[w][q] <= cur[q]
      BY <3>1, NextRecordSettles
    <3>3. cursor' = [cursor EXCEPT ![w] = cur] /\ UNCHANGED position
      BY <3>1 DEF ContinueAt
    <3> HIDE DEF cur
    <3> QED
      BY <1>6, <3>2, <3>3
  <2>2. CASE FailDecode(w, p, o) \/ FailProject(w, p, o)
    <3>1. ContinueAt(w, position[w]) /\ UNCHANGED position
      BY <2>2 DEF FailDecode, FailProject, BreakBatch
    <3>2. /\ position[w] \in [Partition -> Nat]
          /\ \A q \in Partition : cursor[w][q] <= position[w][q]
      BY DEF IInv, TypeOK, Positions
    <3> QED
      BY <1>6, <3>1, <3>2 DEF ContinueAt
  <2> QED
    BY <2>1, <2>2
<1>9. ASSUME UNCHANGED <<cursor, position>>
      PROVE  BatchBounded'
  BY <1>9 DEF BatchBounded, Unhandled
<1>10. ASSUME NEW w \in Worker,
              \/ Revoke(w) \/ Expire(w) \/ AutoCommit(w) \/ StopRun(w)
              \/ Cancel(w) \/ Shutdown(w) \/ Exit(w)
       PROVE  UNCHANGED <<cursor, position>>
  BY <1>10 DEF Revoke, Expire, AutoCommit, StopRun, Cancel, Shutdown, Exit,
     workerVars
<1>11. ASSUME \/ \E q \in Partition, n \in Number, s \in Shape : Produce(q, n, s)
              \/ \E r \in Ref : LateWrite(r)
       PROVE  UNCHANGED <<cursor, position>>
  BY <1>11 DEF Produce, LateWrite, workerVars
<1> QED
  BY <1>3, <1>5, <1>7, <1>8, <1>9, <1>10, <1>11 DEF Next

\* What CollateralBounded says of one step.
CollateralStep ==
    abandoned' # abandoned =>
        /\ Cardinality(abandoned' \ abandoned) < MaxPoll
        /\ \E f \in failed' : \A r \in abandoned' \ abandoned :
              r[1] = f[1] => f[2] < r[2]

\* Only a break abandons records: all it leaves of its batch but the failed
\* one, which came before those of its own partition.
LEMMA StepCollateral ==
  ASSUME IInv, BatchBounded, Next
  PROVE  CollateralStep
<1> USE BoundsAssumption
<1>1. ASSUME NEW w \in Worker, NEW p \in Partition, NEW o \in Offset,
             FailDecode(w, p, o) \/ FailProject(w, p, o)
      PROVE  CollateralStep
  <2> DEFINE f == <<p, o>>
             rest == Unhandled(w) \ {f}
  <2>1. /\ Handles(w, p, o)
        /\ failed' = failed \cup {f}
        /\ abandoned' = abandoned \cup rest
    BY <1>1 DEF FailDecode, FailProject, BreakBatch
  <2>2. IsFiniteSet(rest) /\ Cardinality(rest) = Cardinality(Unhandled(w)) - 1
    BY <2>1, UnhandledFinite, FS_RemoveElement DEF Handles
  <2>3. /\ abandoned' \ abandoned \subseteq rest
        /\ Cardinality(abandoned' \ abandoned) <= Cardinality(rest)
        /\ Cardinality(abandoned' \ abandoned) \in Nat
    <3>1. abandoned' \ abandoned \subseteq rest
      BY <2>1
    <3> QED
      BY <2>2, <3>1, FS_Subset, FS_CardinalityType
  <2>4. Cardinality(abandoned' \ abandoned) < MaxPoll
    BY <2>2, <2>3, UnhandledFinite DEF BatchBounded
  <2>5. ASSUME NEW r \in rest, r[1] = p
        PROVE  o < r[2]
    <3>1. /\ r = <<p, r[2]>> /\ r[2] \in Nat /\ o \in Nat
          /\ o = cursor[w][p] + 1 /\ cursor[w][p] < r[2]
      BY <2>1, <2>5 DEF Unhandled, Handles, Ref, Offset
    <3> QED
      BY <3>1, PositionTypes, <2>5 DEF IInv
  <2>6. f \in failed' /\ f[1] = p /\ f[2] = o
    BY <2>1
  <2> QED
    BY <2>3, <2>4, <2>5, <2>6 DEF CollateralStep
<1>2. ASSUME NEW w \in Worker, NEW p \in Partition, NEW o \in Offset,
             SkipMalformed(w, p, o) \/ Project(w, p, o)
      PROVE  UNCHANGED abandoned
  BY <1>2 DEF SkipMalformed, Project
<1>3. ASSUME NEW w \in Worker,
             \/ Revoke(w) \/ Expire(w) \/ AutoCommit(w)
             \/ Poll(w) \/ PollCancelled(w) \/ StopRun(w)
             \/ Cancel(w) \/ Shutdown(w) \/ Exit(w) \/ Start(w)
      PROVE  UNCHANGED abandoned
  BY <1>3 DEF Revoke, Expire, AutoCommit, Poll, PollCancelled, StopRun,
     Cancel, Shutdown, Exit, Start, historyVars
<1>4. ASSUME \/ \E q \in Partition, n \in Number, s \in Shape : Produce(q, n, s)
             \/ \E w \in Worker, q \in Partition : Assign(w, q)
             \/ \E r \in Ref : LateWrite(r)
      PROVE  UNCHANGED abandoned
  BY <1>4 DEF Produce, Assign, LateWrite, historyVars
<1> QED
  BY <1>1, <1>2, <1>3, <1>4 DEF Next, Handle, CollateralStep

\* A poison record, or a write that keeps failing, costs at most the rest of
\* its batch: fewer than MaxPoll records, on its own partition later ones.
THEOREM CollateralIsBounded == Spec => CollateralBounded
<1>1. Init => BInv
  <2> SUFFICES ASSUME Init PROVE BatchBounded
    BY InitIInv DEF BInv
  <2>1. \A w \in Worker : Unhandled(w) = {}
    BY DEF Init, Zero, Unhandled, Ref, Offset
  <2> QED
    BY <2>1, FS_EmptySet, BoundsAssumption DEF BatchBounded
<1>2. BInv /\ [Next]_vars => BInv' /\ [CollateralStep]_vars
  <2>1. ASSUME BInv, Next PROVE BInv' /\ CollateralStep
    BY <2>1, StepIInv, StepBatchBounded, StepCollateral DEF BInv
  <2>2. ASSUME BInv, UNCHANGED vars PROVE BInv'
    BY <2>2, StutterIInv DEF BInv, BatchBounded, Unhandled, vars, workerVars
  <2> QED
    BY <2>1, <2>2
<1>3. [][CollateralStep]_vars => CollateralBounded
  BY DEF CollateralStep, CollateralBounded
<1> QED
  BY <1>1, <1>2, <1>3, PTL DEF Spec

-----------------------------------------------------------------------------
(* The documents of the index converge.                                    *)
(*                                                                         *)
(* Converged speaks of a quiet moment, in which every partition has been   *)
(* read to its end.  The invariant says what a document is on the way      *)
(* there, in the middle of a replay too: it may be older than it was       *)
(* before a crash, but it is never older than an event that the worker of  *)
(* its partition has passed since, nor than a committed one.               *)

\* No handler failed, no shutdown cut a poll off and no request was given up.
Calm == failed \cup dropped \cup overdue = {}

\* w alone consumes the topic of p.
Consumes(w, p) ==
    /\ p \in Subscription[w]
    /\ \A v \in Worker \ {w} : p \notin Subscription[v]

\* Requests on their way were given up, members own and read partitions of
\* their topic, and a partition holds the numbers that are keyed to it.
Origins ==
    /\ late \subseteq overdue
    /\ \A w \in Worker, p \in Partition :
           owner[p] = w \/ position[w][p] # 0 => p \in Subscription[w]
    /\ \A p \in Partition : \A o \in 1 .. Len(log[p]) :
           p \in Keyed[log[p][o].number]

\* A document holds an event of its number, and every written event has one.
Documents ==
    /\ \A n \in Number, p \in Partition, o \in Offset :
           doc[n] = <<p, o>> => o \in EventsOf(p, n)
    /\ \A r \in written :
           r[2] <= Len(log[r[1]]) /\ doc[log[r[1]][r[2]].number] \in Ref

\* A document is as new as the events that the worker of its partition has
\* passed since it was assigned, and as the committed ones.
Replayed ==
    \A w \in Worker, p \in Partition, n \in Number, o \in Offset :
        Consumes(w, p) /\ doc[n] = <<p, o>> =>
            \A e \in EventsOf(p, n) :
                e <= cursor[w][p] \/ e <= committed[p] => e <= o

\* The worker of a partition is not behind what is committed, whether it
\* owns the partition still or has been fenced, unless it is new.
Ahead ==
    \A w \in Worker, p \in Partition :
        Consumes(w, p) =>
            committed[p] <= cursor[w][p] \/ position[w][p] = 0

CInv == Origins /\ (Calm => Documents /\ Replayed /\ Ahead)

-----------------------------------------------------------------------------

LEMMA InitCInv == Init => CInv
<1> SUFFICES ASSUME Init PROVE CInv
  OBVIOUS
<1> USE DEF Init
<1>1. Origins
  BY NoOwnerAssumption DEF Origins, Zero
<1>2. Documents
  BY DEF Documents, NoDoc, EventsOf
<1>3. Replayed
  BY DEF Replayed, NoDoc
<1>4. Ahead
  BY DEF Ahead, Zero
<1> QED
  BY <1>1, <1>2, <1>3, <1>4 DEF CInv

\* The facts of the invariants in terms of numbers.
LEMMA Numbers ==
    ASSUME IInv, NEW w \in Worker, NEW p \in Partition
    PROVE  /\ committed[p] \in Nat /\ Len(log[p]) \in Nat
           /\ head[w][p] \in Nat /\ cursor[w][p] \in Nat
           /\ position[w][p] \in Nat
           /\ head[w][p] <= cursor[w][p]
           /\ cursor[w][p] <= position[w][p]
           /\ position[w][p] <= Len(log[p]) /\ Len(log[p]) <= MaxLog
           /\ committed[p] <= Len(log[p])
           /\ pc[w] = "idle" => cursor[w][p] = position[w][p]
           /\ owner[p] = w => committed[p] <= position[w][p]
           /\ owner[p] = w /\ ~shut[w] => committed[p] <= head[w][p]
BY PositionTypes DEF IInv, Positions, TypeOK

\* Nothing is unhandled where no record between cursor and position is.
LEMMA NothingUnhandled ==
    ASSUME IInv, NEW w \in Worker, NEW p \in Partition, NEW o \in Nat,
           o <= MaxLog,
           \A r \in Ref : ~ (r[1] = p /\ cursor[w][p] < r[2] /\ r[2] <= o)
    PROVE  o <= cursor[w][p]
<1> SUFFICES ASSUME ~ (o <= cursor[w][p]) PROVE FALSE
  OBVIOUS
<1>1. cursor[w][p] \in Nat /\ MaxLog \in Nat
  BY Numbers, BoundsAssumption
<1>2. o \in Offset /\ cursor[w][p] < o
  BY <1>1 DEF Offset
<1>3. <<p, o>> \in Ref
  BY <1>2 DEF Ref
<1> QED
  BY <1>2, <1>3

\* A step that writes no document keeps the documents as new as what their
\* workers have passed, when no worker passes anything.
LEMMA QuietStep ==
    ASSUME IInv, Documents, Replayed,
           log' = log, doc' = doc, written' = written,
           \A w \in Worker, p \in Partition : Consumes(w, p) =>
               /\ \/ cursor'[w][p] = cursor[w][p]
                  \/ cursor'[w][p] = committed[p]
                  \/ cursor'[w][p] = 0
               /\ \/ committed'[p] = committed[p]
                  \/ committed'[p] = cursor[w][p]
                  \/ committed'[p] = head[w][p]
    PROVE  Documents' /\ Replayed'
<1>1. \A p, n : EventsOf(p, n)' = EventsOf(p, n)
  BY DEF EventsOf, IsEvent, OutcomeOf
<1>2. Documents'
  BY <1>1 DEF Documents
<1>3. Replayed'
  <2> SUFFICES ASSUME NEW w \in Worker, NEW p \in Partition, NEW n \in Number,
                      NEW o \in Offset, Consumes(w, p), doc[n] = <<p, o>>,
                      NEW e \in EventsOf(p, n),
                      e <= cursor'[w][p] \/ e <= committed'[p]
               PROVE  e <= o
    BY <1>1 DEF Replayed, Consumes
  <2>1. e \in Nat \ {0}
    BY DEF EventsOf
  <2>2. e <= cursor[w][p] \/ e <= committed[p]
    BY <2>1, Numbers
  <2> QED
    BY <2>2 DEF Replayed
<1> QED
  BY <1>2, <1>3

-----------------------------------------------------------------------------
(* One lemma per action.                                                   *)

LEMMA StutterCInv == IInv /\ CInv /\ UNCHANGED vars => CInv'
<1> SUFFICES ASSUME IInv, CInv, UNCHANGED vars PROVE CInv'
  OBVIOUS
<1> USE DEF vars, brokerVars, workerVars, indexVars, historyVars, counterVars
<1>1. Origins' /\ Calm' = Calm
  BY DEF CInv, Origins, Calm
<1>2. Calm => Documents' /\ Replayed'
  BY QuietStep DEF CInv
<1>3. Calm => Ahead'
  BY DEF CInv, Ahead, Consumes
<1> QED
  BY <1>1, <1>2, <1>3 DEF CInv

\* A new record is behind everything that was passed.
LEMMA ProduceCInv ==
  ASSUME IInv, CInv, NEW p \in Partition, NEW n \in Number, NEW s \in Shape,
         Produce(p, n, s)
  PROVE  CInv'
<1> DEFINE rec == [shape |-> s, number |-> n]
<1>1. /\ p \in Keyed[n]
      /\ log' = [log EXCEPT ![p] = Append(@, rec)]
      /\ UNCHANGED <<committed, owner, cursor, position, doc, late>>
      /\ UNCHANGED <<written, failed, dropped, overdue>>
  BY DEF Produce, workerVars, indexVars, historyVars
<1>2. /\ \A q \in Partition : Len(log[q]) \in Nat
      /\ \A q \in Partition : \A o \in 1 .. Len(log[q]) : log'[q][o] = log[q][o]
      /\ \A q \in Partition : \A o \in 1 .. Len(log'[q]) :
             \/ o \in 1 .. Len(log[q])
             \/ o = Len(log[q]) + 1 /\ q = p /\ log'[q][o].number = n
      /\ \A q \in Partition :
             Len(log'[q]) \in Nat /\ Len(log[q]) <= Len(log'[q])
  <2>1. log[p] \in Seq(Record) /\ rec \in Record
    BY DEF IInv, TypeOK, Record
  <2>2. /\ Len(Append(log[p], rec)) = Len(log[p]) + 1
        /\ \A o \in 1 .. Len(log[p]) : Append(log[p], rec)[o] = log[p][o]
        /\ Append(log[p], rec)[Len(log[p]) + 1] = rec
    BY <2>1
  <2>3. rec.number = n
    OBVIOUS
  <2>4. \A q \in Partition : Len(log[q]) \in Nat
    BY PositionTypes DEF IInv
  <2>5. /\ log'[p] = Append(log[p], rec)
        /\ \A q \in Partition \ {p} : log'[q] = log[q]
    BY <1>1 DEF IInv, TypeOK
  <2> HIDE DEF rec
  <2>6. /\ Len(log'[p]) = Len(log[p]) + 1 /\ log'[p][Len(log[p]) + 1] = rec
        /\ \A o \in 1 .. Len(log[p]) : log'[p][o] = log[p][o]
    BY <2>2, <2>5
  <2>7. \A o \in 1 .. Len(log'[p]) :
           \/ o \in 1 .. Len(log[p])
           \/ o = Len(log[p]) + 1 /\ log'[p][o].number = n
    BY <2>3, <2>4, <2>6
  <2>8. \A q \in Partition \ {p} :
           /\ \A o \in 1 .. Len(log[q]) : log'[q][o] = log[q][o]
           /\ \A o \in 1 .. Len(log'[q]) : o \in 1 .. Len(log[q])
           /\ Len(log'[q]) \in Nat /\ Len(log[q]) <= Len(log'[q])
    BY <2>4, <2>5
  <2>9. Len(log'[p]) \in Nat /\ Len(log[p]) <= Len(log'[p])
    BY <2>4, <2>6
  <2> QED
    BY <2>4, <2>6, <2>7, <2>8, <2>9
<1>3. Origins'
  BY <1>1, <1>2 DEF CInv, Origins
<1>4. Calm' = Calm
  BY <1>1 DEF Calm
<1>5. ASSUME Calm PROVE Documents' /\ Replayed' /\ Ahead'
  <2>1. \A q \in Partition, m \in Number :
           /\ EventsOf(q, m) \subseteq EventsOf(q, m)'
           /\ \A e \in EventsOf(q, m)' :
                  e \in EventsOf(q, m) \/ e = Len(log[q]) + 1
    BY <1>2 DEF EventsOf, IsEvent, OutcomeOf
  <2>2. Documents'
    <3>1. \A r \in written :
             /\ r[1] \in Partition /\ r[2] \in 1 .. Len(log[r[1]])
             /\ doc[log[r[1]][r[2]].number] \in Ref
      BY <1>2, <1>5 DEF CInv, Documents, IInv, TypeOK, Ref, Offset
    <3> QED
      BY <1>1, <1>2, <1>5, <2>1, <3>1 DEF CInv, Documents
  <2>3. Replayed'
    <3> SUFFICES ASSUME NEW w \in Worker, NEW q \in Partition,
                        NEW m \in Number, NEW o \in Offset, Consumes(w, q),
                        doc[m] = <<q, o>>, NEW e \in EventsOf(q, m)',
                        e <= cursor[w][q] \/ e <= committed[q]
                 PROVE  e <= o
      BY <1>1 DEF Replayed, Consumes
    <3>1. e # Len(log[q]) + 1
      BY Numbers
    <3>2. e \in EventsOf(q, m)
      BY <2>1, <3>1
    <3> QED
      BY <1>5, <3>2 DEF CInv, Replayed
  <2>4. Ahead'
    BY <1>1, <1>5 DEF CInv, Ahead, Consumes
  <2> QED
    BY <2>2, <2>3, <2>4
<1> QED
  BY <1>3, <1>4, <1>5 DEF CInv

\* A replay starts where the commits are.
LEMMA AssignCInv ==
  ASSUME IInv, CInv, NEW w \in Worker, NEW p \in Partition, Assign(w, p)
  PROVE  CInv'
<1>1. /\ p \in Subscription[w]
      /\ owner' = [owner EXCEPT ![p] = w]
      /\ cursor' = [cursor EXCEPT ![w][p] = committed[p]]
      /\ position' = [position EXCEPT ![w][p] = committed[p]]
      /\ UNCHANGED <<log, committed, doc, late>>
      /\ UNCHANGED <<written, failed, dropped, overdue>>
  BY DEF Assign, ResumeAt, indexVars, historyVars
<1>2. \A v \in Worker, q \in Partition :
         /\ cursor'[v][q] = IF v = w /\ q = p THEN committed[p]
                            ELSE cursor[v][q]
         /\ position'[v][q] = IF v = w /\ q = p THEN committed[p]
                              ELSE position[v][q]
         /\ owner'[q] = v => owner[q] = v \/ (v = w /\ q = p)
  BY <1>1 DEF IInv, TypeOK
<1>3. Origins'
  BY <1>1, <1>2 DEF CInv, Origins
<1>4. Calm' = Calm
  BY <1>1 DEF Calm
<1>5. Calm => Documents' /\ Replayed'
  BY <1>1, <1>2, QuietStep DEF CInv
<1>6. ASSUME Calm PROVE Ahead'
  <2>1. \A q \in Partition : committed[q] \in Nat
    BY PositionTypes DEF IInv
  <2> QED
    BY <1>1, <1>2, <1>6, <2>1 DEF CInv, Ahead, Consumes
<1> QED
  BY <1>3, <1>4, <1>5, <1>6 DEF CInv

LEMMA RevokeCInv ==
  ASSUME IInv, CInv, NEW w \in Worker,
         Revoke(w) \/ Expire(w) \/ StopRun(w) \/ Cancel(w)
  PROVE  CInv'
<1>1. /\ UNCHANGED <<log, committed, head, cursor, position, doc, late>>
      /\ UNCHANGED <<written, failed, dropped, overdue>>
  BY DEF Revoke, Expire, StopRun, Cancel, brokerVars, workerVars, indexVars,
         historyVars
<1>2. \A v \in Worker, p \in Partition : owner'[p] = v => owner[p] = v
  BY NoOwnerAssumption DEF Revoke, Expire, StopRun, Cancel, Release, brokerVars
<1>3. Origins'
  BY <1>1, <1>2 DEF CInv, Origins
<1>4. Calm' = Calm
  BY <1>1 DEF Calm
<1>5. Calm => Documents' /\ Replayed'
  BY <1>1, QuietStep DEF CInv
<1>6. Calm => Ahead'
  BY <1>1 DEF CInv, Ahead, Consumes
<1> QED
  BY <1>3, <1>4, <1>5, <1>6 DEF CInv

\* The owner commits what it has passed.
LEMMA AutoCommitCInv ==
  ASSUME IInv, CInv, NEW w \in Worker, AutoCommit(w)
  PROVE  CInv'
<1>1. /\ \A p \in Partition : committed'[p] =
             IF owner[p] = w THEN head[w][p] ELSE committed[p]
      /\ UNCHANGED <<log, owner, head, cursor, position, doc, late>>
      /\ UNCHANGED <<written, failed, dropped, overdue>>
  BY DEF AutoCommit, workerVars, indexVars, historyVars
<1>2. Origins' /\ Calm' = Calm
  BY <1>1 DEF CInv, Origins, Calm
<1>3. ASSUME NEW v \in Worker, NEW p \in Partition, Consumes(v, p)
      PROVE  committed'[p] = committed[p] \/ committed'[p] = head[v][p]
  BY <1>1, <1>3 DEF CInv, Origins, Consumes
<1>4. Calm => Documents' /\ Replayed'
  BY <1>1, <1>3, QuietStep DEF CInv
<1>5. ASSUME Calm PROVE Ahead'
  <2> SUFFICES ASSUME NEW v \in Worker, NEW p \in Partition, Consumes(v, p)
               PROVE  committed'[p] <= cursor[v][p] \/ position[v][p] = 0
    BY <1>1 DEF Ahead, Consumes
  <2> QED
    BY <1>3, <1>5, Numbers DEF CInv, Ahead
<1> QED
  BY <1>2, <1>4, <1>5 DEF CInv

\* A poll moves no cursor, and only an owner's position, which is not behind
\* what is committed.
LEMMA PollCInv ==
  ASSUME IInv, CInv, NEW w \in Worker, Poll(w)
  PROVE  CInv'
<1>1. PICK next \in [Partition -> 0 .. MaxLog] :
         /\ Polled(w, next)
         /\ StartPoll(w, next)
  BY DEF Poll
<1>2. /\ pc[w] = "idle"
      /\ UNCHANGED <<log, committed, owner, cursor, doc, late>>
      /\ UNCHANGED <<written, failed, dropped, overdue>>
  BY DEF Poll, brokerVars, indexVars, historyVars
<1>a. \A v \in Worker, p \in Partition :
         position'[v][p] = position[v][p] \/ (v = w /\ owner[p] = w)
  BY <1>1 DEF StartPoll, Polled, IInv, TypeOK
<1>3. Origins' /\ Calm' = Calm
  BY <1>2, <1>a DEF CInv, Origins, Calm
<1>4. Calm => Documents' /\ Replayed'
  BY <1>2, QuietStep DEF CInv
<1>5. ASSUME Calm PROVE Ahead'
  <2> SUFFICES ASSUME NEW v \in Worker, NEW p \in Partition, Consumes(v, p)
               PROVE  committed[p] <= cursor[v][p] \/ position'[v][p] = 0
    BY <1>2 DEF Ahead, Consumes
  <2>1. \/ position'[v][p] = position[v][p]
        \/ v = w /\ owner[p] = w
    BY <1>a
  <2>2. CASE position'[v][p] = position[v][p]
    BY <1>5, <2>2 DEF CInv, Ahead
  <2>3. CASE v = w /\ owner[p] = w
    BY <1>2, <2>3, Numbers
  <2> QED
    BY <2>1, <2>2, <2>3
<1> QED
  BY <1>3, <1>4, <1>5 DEF CInv

\* As long as nothing is dropped, the last poll was empty.
LEMMA PollCancelledCInv ==
  ASSUME IInv, CInv, NEW w \in Worker, PollCancelled(w)
  PROVE  CInv'
<1>1. PICK next \in [Partition -> 0 .. MaxLog] :
         /\ Polled(w, next)
         /\ StartPoll(w, next)
         /\ cursor' = [cursor EXCEPT ![w] = next]
         /\ dropped' = dropped \cup
               {r \in Ref : position[w][r[1]] < r[2] /\ r[2] <= next[r[1]]}
  BY DEF PollCancelled
<1>2. /\ pc[w] = "idle"
      /\ UNCHANGED <<log, committed, owner, doc, late>>
      /\ UNCHANGED <<written, failed, overdue>>
  BY DEF PollCancelled, brokerVars, indexVars
<1>3. Origins'
  <2>1. \A v \in Worker, p \in Partition :
           position'[v][p] = position[v][p] \/ (v = w /\ owner[p] = w)
    BY <1>1 DEF StartPoll, Polled, IInv, TypeOK
  <2> QED
    BY <1>2, <2>1 DEF CInv, Origins
<1>4. ASSUME Calm' PROVE Documents' /\ Replayed' /\ Ahead'
  <2>1. Calm
    BY <1>1, <1>2, <1>4 DEF Calm
  <2>2. \A p \in Partition : next[p] = position[w][p]
    <3> SUFFICES ASSUME NEW p \in Partition PROVE next[p] = position[w][p]
      OBVIOUS
    <3>1. /\ next[p] \in Nat /\ next[p] <= MaxLog
          /\ position[w][p] <= next[p] /\ position[w][p] = cursor[w][p]
      BY <1>1, <1>2, BoundsAssumption, Numbers DEF Polled
    <3>2. \A r \in Ref : ~ (position[w][r[1]] < r[2] /\ r[2] <= next[r[1]])
      BY <1>1, <1>4 DEF Calm
    <3>3. next[p] <= cursor[w][p]
      BY <3>1, <3>2, NothingUnhandled
    <3> QED
      BY <3>1, <3>3, Numbers
  <2>3. \A v \in Worker, p \in Partition :
           cursor'[v][p] = cursor[v][p] /\ position'[v][p] = position[v][p]
    BY <1>1, <1>2, <2>2, Numbers DEF StartPoll, IInv, TypeOK
  <2>4. Documents' /\ Replayed'
    BY <1>2, <2>1, <2>3, QuietStep DEF CInv
  <2>5. Ahead'
    BY <1>2, <2>1, <2>3 DEF CInv, Ahead, Consumes
  <2> QED
    BY <2>4, <2>5
<1> QED
  BY <1>3, <1>4 DEF CInv

\* A crash may leave a request on its way, which is not calm.
LEMMA ExitCInv ==
  ASSUME IInv, CInv, NEW w \in Worker, Exit(w)
  PROVE  CInv'
<1>1. /\ UNCHANGED <<log, committed, owner, head, cursor, position, doc>>
      /\ UNCHANGED <<written, failed, dropped>>
  BY DEF Exit, brokerVars
<1>2. \/ UNCHANGED <<late, overdue>>
      \/ \E r \in Ref : late' = late \cup {r} /\ overdue' = overdue \cup {r}
  BY DEF Exit, GiveUp
<1>3. Origins'
  BY <1>1, <1>2 DEF CInv, Origins
<1>4. Calm' => Calm
  BY <1>1, <1>2 DEF Calm
<1>5. Calm => Documents' /\ Replayed'
  BY <1>1, QuietStep DEF CInv
<1>6. Calm => Ahead'
  BY <1>1 DEF CInv, Ahead, Consumes
<1> QED
  BY <1>3, <1>4, <1>5, <1>6 DEF CInv

\* A new process has passed nothing.
LEMMA StartCInv ==
  ASSUME IInv, CInv, NEW w \in Worker, Start(w)
  PROVE  CInv'
<1>1. /\ cursor' = [cursor EXCEPT ![w] = Zero]
      /\ position' = [position EXCEPT ![w] = Zero]
      /\ UNCHANGED <<log, committed, owner, doc, late>>
      /\ UNCHANGED <<written, failed, dropped, overdue>>
  BY DEF Start, brokerVars, indexVars, historyVars
<1>2. \A v \in Worker, p \in Partition :
         \/ v = w /\ cursor'[v][p] = 0 /\ position'[v][p] = 0
         \/ cursor'[v][p] = cursor[v][p] /\ position'[v][p] = position[v][p]
  BY <1>1 DEF IInv, TypeOK, Zero
<1>3. Origins' /\ Calm' = Calm
  BY <1>1, <1>2 DEF CInv, Origins, Calm
<1>4. Calm => Documents' /\ Replayed'
  BY <1>1, <1>2, QuietStep DEF CInv
<1>5. Calm => Ahead'
  BY <1>1, <1>2 DEF CInv, Ahead, Consumes
<1> QED
  BY <1>3, <1>4, <1>5 DEF CInv

\* What a record that is handled moves: one cursor, by one.
LEMMA HandledMoves ==
  ASSUME IInv, NEW w \in Worker, NEW p \in Partition, NEW o \in Offset,
         Handles(w, p, o), NextRecord(w, p, o)
  PROVE  /\ o = cursor[w][p] + 1 /\ o \in 1 .. Len(log[p])
         /\ position[w][p] # 0
         /\ \A v \in Worker, q \in Partition :
                cursor'[v][q] = IF v = w /\ q = p THEN o ELSE cursor[v][q]
<1>1. o = cursor[w][p] + 1 /\ o <= position[w][p] /\ o \in Offset
  BY DEF Handles, Unhandled
<1>2. cursor' = [cursor EXCEPT ![w] = [cursor[w] EXCEPT ![p] = o]]
  BY DEF NextRecord, ContinueAt
<1>3. \A v \in Worker, q \in Partition :
         cursor'[v][q] = IF v = w /\ q = p THEN o ELSE cursor[v][q]
  BY <1>2 DEF IInv, TypeOK
<1> QED
  BY <1>1, <1>3, Numbers DEF Offset

\* A skipped record is not an event: no document needs it.
LEMMA SkipMalformedCInv ==
  ASSUME IInv, CInv, NEW w \in Worker, NEW p \in Partition, NEW o \in Offset,
         SkipMalformed(w, p, o)
  PROVE  CInv'
<1>1. /\ Handles(w, p, o) /\ NextRecord(w, p, o)
      /\ ~IsEvent(<<p, o>>)
      /\ UNCHANGED <<log, committed, owner, position, doc, late>>
      /\ UNCHANGED <<written, failed, dropped, overdue>>
  BY DEF SkipMalformed, IsEvent, brokerVars, indexVars
<1>2. /\ o = cursor[w][p] + 1 /\ o \in 1 .. Len(log[p])
      /\ \A v \in Worker, q \in Partition :
             cursor'[v][q] = IF v = w /\ q = p THEN o ELSE cursor[v][q]
  BY <1>1, HandledMoves
<1>3. Origins' /\ Calm' = Calm
  BY <1>1 DEF CInv, Origins, Calm
<1>4. \A q, n : EventsOf(q, n)' = EventsOf(q, n)
  BY <1>1 DEF EventsOf, IsEvent, OutcomeOf
<1>5. ASSUME Calm PROVE Documents' /\ Replayed' /\ Ahead'
  <2>1. Documents'
    BY <1>1, <1>4, <1>5 DEF CInv, Documents
  <2>2. Replayed'
    <3> SUFFICES ASSUME NEW v \in Worker, NEW q \in Partition,
                        NEW n \in Number, NEW k \in Offset, Consumes(v, q),
                        doc[n] = <<q, k>>, NEW e \in EventsOf(q, n),
                        e <= cursor'[v][q] \/ e <= committed[q]
                 PROVE  e <= k
      BY <1>1, <1>4 DEF Replayed, Consumes
    <3>1. e \in Nat /\ (q = p => e # o)
      BY <1>1 DEF EventsOf
    <3>2. e <= cursor[v][q] \/ e <= committed[q]
      BY <1>2, <3>1, Numbers
    <3> QED
      BY <1>5, <3>2 DEF CInv, Replayed
  <2>3. Ahead'
    <3> SUFFICES ASSUME NEW v \in Worker, NEW q \in Partition, Consumes(v, q)
                 PROVE  committed[q] <= cursor'[v][q] \/ position[v][q] = 0
      BY <1>1 DEF Ahead, Consumes
    <3> QED
      BY <1>2, <1>5, Numbers DEF CInv, Ahead
  <2> QED
    BY <2>1, <2>2, <2>3
<1> QED
  BY <1>3, <1>5 DEF CInv

\* A written document holds the last event that was passed.
LEMMA ProjectCInv ==
  ASSUME IInv, CInv, NEW w \in Worker, NEW p \in Partition, NEW o \in Offset,
         Project(w, p, o)
  PROVE  CInv'
<1> DEFINE m == log[p][o].number
<1>1. /\ Handles(w, p, o) /\ NextRecord(w, p, o)
      /\ IsEvent(<<p, o>>)
      /\ doc' = [doc EXCEPT ![m] = <<p, o>>]
      /\ written' = written \cup {<<p, o>>}
      /\ UNCHANGED <<log, committed, owner, position, late>>
      /\ UNCHANGED <<failed, dropped, overdue>>
  BY DEF Project, Replace, IsEvent, brokerVars
<1>2. /\ o = cursor[w][p] + 1 /\ o \in 1 .. Len(log[p])
      /\ position[w][p] # 0
      /\ \A v \in Worker, q \in Partition :
             cursor'[v][q] = IF v = w /\ q = p THEN o ELSE cursor[v][q]
  BY <1>1, HandledMoves
<1>3. Origins' /\ Calm' = Calm
  BY <1>1 DEF CInv, Origins, Calm
<1>4. \A q, n : EventsOf(q, n)' = EventsOf(q, n)
  BY <1>1 DEF EventsOf, IsEvent, OutcomeOf
<1>5. /\ m \in Number /\ o \in EventsOf(p, m) /\ <<p, o>> \in Ref
      /\ \A n \in Number : n # m => o \notin EventsOf(p, n)
  <2>1. log[p] \in Seq(Record)
    BY DEF IInv, TypeOK
  <2>2. log[p][o] \in Record
    BY <1>2, <2>1
  <2> QED
    BY <1>1, <1>2, <2>2 DEF EventsOf, Record, Ref
<1>6. \A n \in Number : doc'[n] = IF n = m THEN <<p, o>> ELSE doc[n]
  BY <1>1 DEF IInv, TypeOK
<1> HIDE DEF m
<1>7. ASSUME Calm PROVE Documents' /\ Replayed' /\ Ahead'
  <2>1. Documents'
    <3>1. \A n \in Number, q \in Partition, k \in Offset :
             doc'[n] = <<q, k>> => k \in EventsOf(q, n)
      BY <1>5, <1>6, <1>7 DEF CInv, Documents
    <3>2. ASSUME NEW r \in written
          PROVE  /\ r[2] <= Len(log[r[1]])
                 /\ doc'[log[r[1]][r[2]].number] \in Ref
      <4>1. /\ r[1] \in Partition /\ r[2] \in 1 .. Len(log[r[1]])
            /\ doc[log[r[1]][r[2]].number] \in Ref
        <5>1. r[1] \in Partition /\ r[2] \in Offset /\ r[2] <= Len(log[r[1]])
          BY <1>7 DEF CInv, Documents, IInv, TypeOK, Ref
        <5>2. Len(log[r[1]]) \in Nat
          BY <5>1, PositionTypes DEF IInv
        <5> QED
          BY <1>7, <5>1, <5>2 DEF CInv, Documents, Offset
      <4>2. log[r[1]] \in Seq(Record)
        BY <4>1 DEF IInv, TypeOK
      <4>3. log[r[1]][r[2]] \in Record
        BY <4>1, <4>2
      <4>4. log[r[1]][r[2]].number \in Number
        BY <4>3 DEF Record
      <4> QED
        BY <1>5, <1>6, <4>1, <4>4
    <3>3. o <= Len(log[p]) /\ doc'[log[p][o].number] \in Ref
      BY <1>2, <1>5, <1>6 DEF m
    <3> QED
      BY <1>1, <1>4, <3>1, <3>2, <3>3 DEF Documents
  <2>2. Replayed'
    <3> SUFFICES ASSUME NEW v \in Worker, NEW q \in Partition,
                        NEW n \in Number, NEW k \in Offset, Consumes(v, q),
                        doc'[n] = <<q, k>>, NEW e \in EventsOf(q, n),
                        e <= cursor'[v][q] \/ e <= committed[q]
                 PROVE  e <= k
      BY <1>1, <1>4 DEF Replayed, Consumes
    <3>1. e \in Nat /\ k \in Nat
      BY DEF EventsOf, Offset
    <3>2. CASE n = m
      <4>1. q = p /\ k = o
        BY <1>6, <3>2
      <4>3. v = w
        BY <1>2, <4>1 DEF CInv, Origins, Consumes
      <4>4. committed[p] <= cursor[w][p]
        BY <1>2, <1>7, <4>1, <4>3 DEF CInv, Ahead
      <4> QED
        BY <1>2, <3>1, <4>1, <4>3, <4>4, Numbers
    <3>3. CASE n # m
      <4>1. doc[n] = <<q, k>> /\ (q = p => e # o)
        BY <1>5, <1>6, <3>3
      <4>2. e <= cursor[v][q] \/ e <= committed[q]
        BY <1>2, <3>1, <4>1, Numbers
      <4> QED
        BY <1>7, <4>1, <4>2 DEF CInv, Replayed
    <3> QED
      BY <3>2, <3>3
  <2>3. Ahead'
    <3> SUFFICES ASSUME NEW v \in Worker, NEW q \in Partition, Consumes(v, q)
                 PROVE  committed[q] <= cursor'[v][q] \/ position[v][q] = 0
      BY <1>1 DEF Ahead, Consumes
    <3> QED
      BY <1>2, <1>7, Numbers DEF CInv, Ahead
  <2> QED
    BY <2>1, <2>2, <2>3
<1> QED
  BY <1>3, <1>7 DEF CInv

\* A failed record ends the calm.
LEMMA BreakCInv ==
  ASSUME IInv, CInv, NEW w \in Worker, NEW p \in Partition, NEW o \in Offset,
         FailDecode(w, p, o) \/ FailProject(w, p, o)
  PROVE  CInv'
<1>1. /\ failed' = failed \cup {<<p, o>>}
      /\ UNCHANGED <<log, owner, position>>
      /\ \/ UNCHANGED <<late, overdue>>
         \/ late' = late \cup {<<p, o>>} /\ overdue' = overdue \cup {<<p, o>>}
  BY DEF FailDecode, FailProject, BreakBatch, GiveUp, brokerVars, indexVars
<1>2. Origins'
  BY <1>1 DEF CInv, Origins
<1>3. ~Calm'
  BY <1>1 DEF Calm
<1> QED
  BY <1>2, <1>3 DEF CInv

\* As long as nothing is dropped, a final commit takes what was handled.
LEMMA ShutdownCInv ==
  ASSUME IInv, CInv, NEW w \in Worker, Shutdown(w)
  PROVE  CInv'
<1>1. /\ UNCHANGED <<log, head, cursor, position, doc, late>>
      /\ UNCHANGED <<written, failed, overdue>>
  BY DEF Shutdown, indexVars
<1>2. \/ /\ \A p \in Partition : committed'[p] =
                IF owner[p] = w THEN position[w][p] ELSE committed[p]
         /\ dropped' = dropped \cup {r \in Unhandled(w) : owner[r[1]] = w}
      \/ UNCHANGED <<committed, dropped>>
  BY DEF Shutdown
<1>3. \A v \in Worker, p \in Partition : owner'[p] = v => owner[p] = v
  BY NoOwnerAssumption DEF Shutdown, Release
<1>4. Origins'
  BY <1>1, <1>3 DEF CInv, Origins
<1>5. ASSUME Calm' PROVE Documents' /\ Replayed' /\ Ahead'
  <2>1. Calm
    BY <1>1, <1>2, <1>5 DEF Calm
  <2>2. ASSUME NEW v \in Worker, NEW p \in Partition, Consumes(v, p)
        PROVE  committed'[p] = committed[p] \/ committed'[p] = cursor[v][p]
    <3>1. CASE committed'[p] = committed[p]
      BY <3>1
    <3>2. CASE committed'[p] # committed[p]
      <4>1. /\ owner[p] = w /\ committed'[p] = position[w][p]
            /\ dropped' = dropped \cup {r \in Unhandled(w) : owner[r[1]] = w}
        BY <1>2, <3>2
      <4>2. v = w
        BY <2>2, <4>1 DEF CInv, Origins, Consumes
      <4>3. \A r \in Ref : ~ (/\ r[1] = p /\ cursor[w][p] < r[2]
                               /\ r[2] <= position[w][p])
        BY <1>5, <4>1 DEF Calm, Unhandled
      <4>4. position[w][p] \in Nat /\ position[w][p] <= MaxLog
        BY Numbers, BoundsAssumption
      <4>5. position[w][p] <= cursor[w][p]
        BY <4>3, <4>4, NothingUnhandled
      <4> QED
        BY <4>1, <4>2, <4>5, Numbers
    <3> QED
      BY <3>1, <3>2
  <2>3. Documents' /\ Replayed'
    BY <1>1, <2>1, <2>2, QuietStep DEF CInv
  <2>4. Ahead'
    <3> SUFFICES ASSUME NEW v \in Worker, NEW p \in Partition, Consumes(v, p)
                 PROVE  committed'[p] <= cursor[v][p] \/ position[v][p] = 0
      BY <1>1 DEF Ahead, Consumes
    <3> QED
      BY <2>1, <2>2, Numbers DEF CInv, Ahead
  <2> QED
    BY <2>3, <2>4
<1> QED
  BY <1>4, <1>5 DEF CInv

\* No request is on its way while it is calm.
LEMMA LateWriteCInv ==
  ASSUME IInv, CInv, NEW r \in Ref, LateWrite(r)
  PROVE  CInv'
<1>1. /\ r \in late /\ late' = late \ {r}
      /\ UNCHANGED <<log, owner, position, overdue>>
  BY DEF LateWrite, brokerVars, workerVars
<1>2. Origins'
  BY <1>1 DEF CInv, Origins
<1>3. ~Calm'
  BY <1>1 DEF CInv, Origins, Calm
<1> QED
  BY <1>2, <1>3 DEF CInv

LEMMA StepCInv == IInv /\ CInv /\ [Next]_vars => CInv'
<1> SUFFICES ASSUME IInv, CInv, [Next]_vars PROVE CInv'
  OBVIOUS
<1>1. CASE \E p \in Partition, n \in Number, s \in Shape : Produce(p, n, s)
  BY <1>1, ProduceCInv
<1>2. CASE \E w \in Worker, p \in Partition : Assign(w, p)
  BY <1>2, AssignCInv
<1>3. ASSUME NEW w \in Worker,
             \/ Revoke(w) \/ Expire(w) \/ AutoCommit(w)
             \/ Poll(w) \/ PollCancelled(w) \/ StopRun(w)
             \/ Cancel(w) \/ Shutdown(w) \/ Exit(w) \/ Start(w)
      PROVE  CInv'
  BY <1>3, RevokeCInv, AutoCommitCInv, PollCInv, PollCancelledCInv,
     ShutdownCInv, ExitCInv, StartCInv
<1>4. ASSUME NEW w \in Worker, Handle(w)
      PROVE  CInv'
  BY <1>4, SkipMalformedCInv, ProjectCInv, BreakCInv DEF Handle
<1>5. CASE \E r \in Ref : LateWrite(r)
  BY <1>5, LateWriteCInv
<1>6. CASE UNCHANGED vars
  BY <1>6, StutterCInv
<1> QED
  BY <1>1, <1>2, <1>3, <1>4, <1>5, <1>6 DEF Next

-----------------------------------------------------------------------------

\* Where every partition of a number has been read to its end, its document
\* is one of the newest.
LEMMA QuietMoment == IInv /\ CInv => Converged
<1> SUFFICES ASSUME IInv, CInv, Calm, NEW n \in Number,
                    \A p \in Keyed[n] : Seen(p),
                    NEW q \in Keyed[n], NEW k \in EventsOf(q, n)
             PROVE  \E p \in Keyed[n] : \E o \in EventsOf(p, n) :
                       /\ doc[n] = <<p, o>>
                       /\ \A e \in EventsOf(p, n) : e <= o
  BY DEF Converged, Calm
<1>1. \A p \in Keyed[n] : p \in Partition
  BY KeyedAssumption
<1>2. ASSUME NEW p \in Keyed[n]
      PROVE  \E w \in Worker : /\ owner[p] = w /\ Consumes(w, p)
                               /\ cursor[w][p] = Len(log[p])
  <2>1. PICK w \in Worker :
           /\ owner[p] = w /\ pc[w] = "idle"
           /\ \A v \in Worker \ {w} : p \notin Subscription[v]
           /\ position[w][p] = Len(log[p])
    BY DEF Seen
  <2>2. cursor[w][p] = Len(log[p]) /\ p \in Subscription[w]
    BY <1>1, <2>1, Numbers DEF CInv, Origins
  <2> QED
    BY <2>1, <2>2 DEF Consumes
<1>3. <<q, k>> \in written
  <2>1. PICK w \in Worker : owner[q] = w /\ cursor[w][q] = Len(log[q])
    BY <1>2
  <2>2. k \in 1 .. Len(log[q]) /\ IsEvent(<<q, k>>)
    BY DEF EventsOf
  <2>3. <<q, k>> \in Ref
    BY <1>1, <2>1, <2>2, Numbers, BoundsAssumption DEF Ref, Offset
  <2>4. <<q, k>> \in Settled
    BY <2>1, <2>2, <2>3 DEF IInv, HandledSettled
  <2> QED
    BY <2>2, <2>3, <2>4 DEF Settled, IInv, Reasons, Calm
<1>4. doc[n] \in Ref
  BY <1>3 DEF CInv, Documents, EventsOf
<1>5. PICK p \in Partition, o \in Offset : doc[n] = <<p, o>>
  BY <1>4 DEF Ref
<1>6. o \in EventsOf(p, n)
  BY <1>5 DEF CInv, Documents
<1>7. p \in Keyed[n]
  BY <1>6 DEF CInv, Origins, EventsOf
<1>8. PICK w \in Worker : Consumes(w, p) /\ cursor[w][p] = Len(log[p])
  BY <1>2, <1>7
<1>9. \A e \in EventsOf(p, n) : e <= o
  BY <1>5, <1>8 DEF CInv, Replayed, EventsOf
<1> QED
  BY <1>5, <1>6, <1>7, <1>9

\* Converged: redelivery after crashes and rebalances replays a suffix of a
\* partition, so a document ends at the newest event of its number in one of
\* the topics, never at an older one, when nothing failed, was cut off or was
\* applied late.
THEOREM DocumentsConverge == Spec => []Converged
<1>1. Spec => []CInv
  BY InitCInv, StepCInv, Invariance, PTL DEF Spec
<1> QED
  BY <1>1, Invariance, QuietMoment, PTL
=============================================================================
