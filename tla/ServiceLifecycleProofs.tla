----------------------- MODULE ServiceLifecycleProofs -----------------------
(***************************************************************************)
(* Proofs about ServiceLifecycle, for both services and any set of         *)
(* business requests: what run acquired it releases before it returns,     *)
(* nobody loses what they use before the graceful budget is spent, and     *)
(* nothing is admitted or reported ready behind the shutdown.              *)
(*                                                                         *)
(* The properties say little about how far startup and shutdown are, so    *)
(* none of them is inductive.  IInv ties every resource, worker, server    *)
(* and request to the program counter: what a stage of startup has put     *)
(* there, what a phase of shutdown has taken away, and what must still be  *)
(* there because somebody got in while everything was.                     *)
(***************************************************************************)
EXTENDS ServiceLifecycle, TLAPS

-----------------------------------------------------------------------------
(* Stages and phases by what lies behind them.                             *)

\* The stages before the HTTP servers exist.
Bare == {"startup", "checking", "assigning", "composing"}

\* What comes after each phase of shutdown that takes something away.
PastTelemetry  == {"returned"}
PastClients    == {"telemetry"} \cup PastTelemetry
PastManagement == {"close clients"} \cup PastClients
PastListeners  == {"stop management"} \cup PastManagement
PastGRPC       == {"close listeners"} \cup PastListeners
PastConnection == {"stop grpc"} \cup PastGRPC
PastHandlers   == {"close connection"} \cup PastConnection
PastRequests   == {"await handlers"} \cup PastHandlers
PastAccepting  == {"await requests"} \cup PastRequests
PastDrain      == {"stop accepting"} \cup PastAccepting
PastClose      == {"drain"} \cup PastDrain
PastWorkers    == {"close workers"} \cup PastClose
PastUnready    == {"await workers"} \cup PastWorkers

-----------------------------------------------------------------------------
(* The inductive invariant.                                                *)

\* Startup holds what it has acquired so far, and then all of it.
Growing ==
    /\ pc = "startup" =>
           step < Len(Startup) /\ held = {Startup[i] : i \in 1 .. step}
    /\ pc \in {"checking", "assigning", "composing"} => held = Acquired
    /\ pc \in {"selecting", "serving"} => held = Everything

\* Shutdown has taken away what the phases behind it release and stop.
Shrinking ==
    /\ pc \in PastClose => held \cap (Worker \cup {NilWorker}) = {}
    /\ pc \in PastAccepting => "business" \notin serving
    /\ pc \in PastRequests => "business" \notin held
    /\ pc \in PastConnection => "connection" \notin held
    /\ pc \in PastGRPC =>
           held \cap {"grpcServer", NilServer} = {} /\ "grpc" \notin serving
    /\ pc \in PastListeners =>
           held \cap {"businessListener", "grpcListener"} = {}
    /\ pc \in PastManagement =>
           /\ held \cap {"management", "managementListener"} = {}
           /\ "management" \notin serving
    /\ pc \in PastClients => held \cap {"search", "projection"} = {}
    /\ pc \in PastTelemetry => "provider" \notin held

\* The flags say which phases are behind.
Flags ==
    /\ ready => pc \in {"serving", "unready"}
    /\ halting => pc \in PastUnready \cup {"panicked"}
    /\ pc \in PastDrain => draining
    /\ draining => pc \in PastDrain \cup {"panicked"}

\* A server beside gRPC, readiness or a request is a sign that startup got
\* through: what shutdown has not released since is there.
Composed ==
    \/ serving \cap {"business", "management"} # {}
    \/ ready
    \/ \E r \in Request : request[r] # "none"
Complete ==
    Composed =>
        /\ pc \notin Bare \cup {"panicked"} /\ held \cap Nil = {}
        /\ pc = "unready" => held = Everything
        /\ pc \notin PastConnection => "connection" \in held
        /\ pc \notin PastGRPC => "grpcServer" \in held
        /\ pc \notin PastClients => {"search", "projection"} \subseteq held

\* So is a worker that has started, of the resources acquired before it.
Employed ==
    working \cup stopped # {} =>
        /\ pc \notin {"startup", "checking"} /\ held \cap Nil = {}
        /\ pc \notin PastClients => "projection" \in held

\* Until the budget is spent, shutdown has seen off whom it waited for.
Waited ==
    ~deadline =>
        /\ pc \in PastWorkers => working = {}
        /\ pc \in PastHandlers => \A r \in Request : request[r] # "active"
        /\ pc \in PastGRPC => calls = {}

\* An RPC belongs to a request that was let in.
Admitted == \A r \in calls : request[r] \in {"active", "ended"}

IInv ==
    /\ TypeOK /\ Growing /\ Shrinking /\ Flags
    /\ Complete /\ Employed /\ Waited /\ Admitted
-----------------------------------------------------------------------------
(* The two sequences of startup and the one of shutdown.                   *)

\* What every service acquires: the resources Startup names besides the
\* workers.
Common == {"provider", "projection", "search", "grpcServer", "grpcListener",
           "businessListener", "managementListener", "connection"}

\* Startup acquires the common resources and the service's workers.
LEMMA AcquiredIs ==
    ASSUME service \in Services
    PROVE  /\ Acquired = Common \cup Worker
           /\ Len(Startup) \in Nat \ {0}
           /\ \A i \in 1 .. Len(Startup) : Startup[i] \in Acquired
<1>1. CASE service = "dashboard"
  <2>1. /\ Len(Startup) = 9
        /\ \A i \in 1 .. 9 : Startup[i] =
               <<"provider", "projection", "registered", "search",
                 "grpcServer", "grpcListener", "businessListener",
                 "managementListener", "connection">>[i]
    BY <1>1 DEF Startup, DashboardStartup
  <2>2. Acquired = {Startup[1], Startup[2], Startup[3], Startup[4],
                    Startup[5], Startup[6], Startup[7], Startup[8],
                    Startup[9]}
    BY <2>1 DEF Acquired
  <2>3. Acquired = Common \cup {"registered"}
    BY <2>1, <2>2 DEF Common
  <2>4. QED
    BY <1>1, <2>1, <2>3 DEF Acquired, Worker
<1>2. CASE service = "policy-search"
  <2>1. /\ Len(Startup) = 10
        /\ \A i \in 1 .. 10 : Startup[i] =
               <<"provider", "search", "projection", "registered",
                 "terminated", "grpcServer", "grpcListener",
                 "businessListener", "managementListener", "connection">>[i]
    BY <1>2 DEF Startup, SearchStartup
  <2>2. Acquired = {Startup[1], Startup[2], Startup[3], Startup[4],
                    Startup[5], Startup[6], Startup[7], Startup[8],
                    Startup[9], Startup[10]}
    BY <2>1 DEF Acquired
  <2>3. Acquired = Common \cup {"registered", "terminated"}
    BY <2>1, <2>2 DEF Common
  <2>4. QED
    BY <1>2, <2>1, <2>3 DEF Acquired, Worker
<1>3. QED
  BY <1>1, <1>2 DEF Services

\* The phases of shutdown.
LEMMA PhaseIs ==
    Phase = {"unready"} \cup (PastUnready \ {"returned"})
<1>1. Len(ShutdownOrder) = 13
  BY DEF ShutdownOrder
<1>2. Phase = {ShutdownOrder[1], ShutdownOrder[2], ShutdownOrder[3],
               ShutdownOrder[4], ShutdownOrder[5], ShutdownOrder[6],
               ShutdownOrder[7], ShutdownOrder[8], ShutdownOrder[9],
               ShutdownOrder[10], ShutdownOrder[11], ShutdownOrder[12],
               ShutdownOrder[13]}
  BY <1>1 DEF Phase
<1>3. QED
  BY <1>2 DEF ShutdownOrder, PastUnready, PastWorkers, PastClose, PastDrain,
       PastAccepting, PastRequests, PastHandlers, PastConnection, PastGRPC,
       PastListeners, PastManagement, PastClients, PastTelemetry

\* Where each phase stands in the order of shutdown.
LEMMA Positions ==
    /\ Len(ShutdownOrder) = 13
    /\ ShutdownOrder[1] = "unready"
    /\ ShutdownOrder[2] = "await workers"
    /\ ShutdownOrder[3] = "close workers"
    /\ ShutdownOrder[4] = "drain"
    /\ ShutdownOrder[5] = "stop accepting"
    /\ ShutdownOrder[6] = "await requests"
    /\ ShutdownOrder[7] = "await handlers"
    /\ ShutdownOrder[8] = "close connection"
    /\ ShutdownOrder[9] = "stop grpc"
    /\ ShutdownOrder[10] = "close listeners"
    /\ ShutdownOrder[11] = "stop management"
    /\ ShutdownOrder[12] = "close clients"
    /\ ShutdownOrder[13] = "telemetry"
BY DEF ShutdownOrder

\* The positions of shutdown, one by one.
LEMMA Indices ==
    ASSUME NEW j \in 1 .. 13
    PROVE  \/ j = 1 \/ j = 2 \/ j = 3 \/ j = 4 \/ j = 5 \/ j = 6 \/ j = 7
           \/ j = 8 \/ j = 9 \/ j = 10 \/ j = 11 \/ j = 12 \/ j = 13
OBVIOUS

\* A phase that stands at position i only is followed by the one at i + 1.
LEMMA AfterIs ==
    \A ph : \A i \in 1 .. 13 :
        /\ ShutdownOrder[i] = ph
        /\ \A j \in 1 .. 13 : ShutdownOrder[j] = ph => j = i
        => /\ i = 13 => After(ph) = "returned"
           /\ \A k \in 1 .. 13 : k = i + 1 => After(ph) = ShutdownOrder[k]
<1> SUFFICES ASSUME NEW ph, NEW i \in 1 .. 13, ShutdownOrder[i] = ph,
                    \A j \in 1 .. 13 : ShutdownOrder[j] = ph => j = i
             PROVE  /\ i = 13 => After(ph) = "returned"
                    /\ \A k \in 1 .. 13 :
                           k = i + 1 => After(ph) = ShutdownOrder[k]
  OBVIOUS
<1> DEFINE place == CHOOSE j \in 1 .. Len(ShutdownOrder) :
                        ShutdownOrder[j] = ph
<1>1. place = i
  BY Positions
<1>2. After(ph) = IF place = Len(ShutdownOrder) THEN "returned"
                  ELSE ShutdownOrder[place + 1]
  BY DEF After
<1>3. Len(ShutdownOrder) = 13
  BY Positions
<1> HIDE DEF place
<1>4. QED
  BY <1>1, <1>2, <1>3

\* The order of shutdown, phase by phase.
LEMMA Successors ==
    /\ After("unready") = "await workers"
    /\ After("await workers") = "close workers"
    /\ After("close workers") = "drain"
    /\ After("drain") = "stop accepting"
    /\ After("stop accepting") = "await requests"
    /\ After("await requests") = "await handlers"
    /\ After("await handlers") = "close connection"
    /\ After("close connection") = "stop grpc"
    /\ After("stop grpc") = "close listeners"
    /\ After("close listeners") = "stop management"
    /\ After("stop management") = "close clients"
    /\ After("close clients") = "telemetry"
    /\ After("telemetry") = "returned"
<1>1. After("unready") = "await workers"
  <2>1. ASSUME NEW j \in 1 .. 13, ShutdownOrder[j] = "unready"
        PROVE  j = 1
    BY <2>1, Positions, Indices
  <2>2. 1 \in 1 .. 13 /\ 2 \in 1 .. 13 /\ 2 = 1 + 1
    OBVIOUS
  <2>3. QED
    BY <2>1, <2>2, AfterIs, Positions
<1>2. After("await workers") = "close workers"
  <2>1. ASSUME NEW j \in 1 .. 13, ShutdownOrder[j] = "await workers"
        PROVE  j = 2
    BY <2>1, Positions, Indices
  <2>2. 2 \in 1 .. 13 /\ 3 \in 1 .. 13 /\ 3 = 2 + 1
    OBVIOUS
  <2>3. QED
    BY <2>1, <2>2, AfterIs, Positions
<1>3. After("close workers") = "drain"
  <2>1. ASSUME NEW j \in 1 .. 13, ShutdownOrder[j] = "close workers"
        PROVE  j = 3
    BY <2>1, Positions, Indices
  <2>2. 3 \in 1 .. 13 /\ 4 \in 1 .. 13 /\ 4 = 3 + 1
    OBVIOUS
  <2>3. QED
    BY <2>1, <2>2, AfterIs, Positions
<1>4. After("drain") = "stop accepting"
  <2>1. ASSUME NEW j \in 1 .. 13, ShutdownOrder[j] = "drain"
        PROVE  j = 4
    BY <2>1, Positions, Indices
  <2>2. 4 \in 1 .. 13 /\ 5 \in 1 .. 13 /\ 5 = 4 + 1
    OBVIOUS
  <2>3. QED
    BY <2>1, <2>2, AfterIs, Positions
<1>5. After("stop accepting") = "await requests"
  <2>1. ASSUME NEW j \in 1 .. 13, ShutdownOrder[j] = "stop accepting"
        PROVE  j = 5
    BY <2>1, Positions, Indices
  <2>2. 5 \in 1 .. 13 /\ 6 \in 1 .. 13 /\ 6 = 5 + 1
    OBVIOUS
  <2>3. QED
    BY <2>1, <2>2, AfterIs, Positions
<1>6. After("await requests") = "await handlers"
  <2>1. ASSUME NEW j \in 1 .. 13, ShutdownOrder[j] = "await requests"
        PROVE  j = 6
    BY <2>1, Positions, Indices
  <2>2. 6 \in 1 .. 13 /\ 7 \in 1 .. 13 /\ 7 = 6 + 1
    OBVIOUS
  <2>3. QED
    BY <2>1, <2>2, AfterIs, Positions
<1>7. After("await handlers") = "close connection"
  <2>1. ASSUME NEW j \in 1 .. 13, ShutdownOrder[j] = "await handlers"
        PROVE  j = 7
    BY <2>1, Positions, Indices
  <2>2. 7 \in 1 .. 13 /\ 8 \in 1 .. 13 /\ 8 = 7 + 1
    OBVIOUS
  <2>3. QED
    BY <2>1, <2>2, AfterIs, Positions
<1>8. After("close connection") = "stop grpc"
  <2>1. ASSUME NEW j \in 1 .. 13, ShutdownOrder[j] = "close connection"
        PROVE  j = 8
    BY <2>1, Positions, Indices
  <2>2. 8 \in 1 .. 13 /\ 9 \in 1 .. 13 /\ 9 = 8 + 1
    OBVIOUS
  <2>3. QED
    BY <2>1, <2>2, AfterIs, Positions
<1>9. After("stop grpc") = "close listeners"
  <2>1. ASSUME NEW j \in 1 .. 13, ShutdownOrder[j] = "stop grpc"
        PROVE  j = 9
    BY <2>1, Positions, Indices
  <2>2. 9 \in 1 .. 13 /\ 10 \in 1 .. 13 /\ 10 = 9 + 1
    OBVIOUS
  <2>3. QED
    BY <2>1, <2>2, AfterIs, Positions
<1>10. After("close listeners") = "stop management"
  <2>1. ASSUME NEW j \in 1 .. 13, ShutdownOrder[j] = "close listeners"
        PROVE  j = 10
    BY <2>1, Positions, Indices
  <2>2. 10 \in 1 .. 13 /\ 11 \in 1 .. 13 /\ 11 = 10 + 1
    OBVIOUS
  <2>3. QED
    BY <2>1, <2>2, AfterIs, Positions
<1>11. After("stop management") = "close clients"
  <2>1. ASSUME NEW j \in 1 .. 13, ShutdownOrder[j] = "stop management"
        PROVE  j = 11
    BY <2>1, Positions, Indices
  <2>2. 11 \in 1 .. 13 /\ 12 \in 1 .. 13 /\ 12 = 11 + 1
    OBVIOUS
  <2>3. QED
    BY <2>1, <2>2, AfterIs, Positions
<1>12. After("close clients") = "telemetry"
  <2>1. ASSUME NEW j \in 1 .. 13, ShutdownOrder[j] = "close clients"
        PROVE  j = 12
    BY <2>1, Positions, Indices
  <2>2. 12 \in 1 .. 13 /\ 13 \in 1 .. 13 /\ 13 = 12 + 1
    OBVIOUS
  <2>3. QED
    BY <2>1, <2>2, AfterIs, Positions
<1>13. After("telemetry") = "returned"
  <2>1. ASSUME NEW j \in 1 .. 13, ShutdownOrder[j] = "telemetry"
        PROVE  j = 13
    BY <2>1, Positions, Indices
  <2>2. 13 \in 1 .. 13
    OBVIOUS
  <2>3. QED
    BY <2>1, <2>2, AfterIs, Positions
<1> QED
  BY <1>1, <1>2, <1>3, <1>4, <1>5, <1>6,
     <1>7, <1>8, <1>9, <1>10, <1>11, <1>12, <1>13

\* Which service runs decides what there is to acquire, and it stays the same.
LEMMA SameService ==
    ASSUME service' = service
    PROVE  /\ Worker' = Worker
           /\ Startup' = Startup
           /\ Acquired' = Acquired
           /\ Everything' = Everything
BY DEF Worker, Startup, Acquired, Everything

\* The workers are none of the other resources.
LEMMA WorkerIs == Worker \subseteq {"registered", "terminated"}
BY DEF Worker

\* What runs beside run leaves the stage and the resources as they are.
LEMMA RunKept ==
    ASSUME TypeOK, Growing, UNCHANGED <<service, pc, step, held>>
    PROVE  /\ service' \in Service
           /\ pc' \in Stage \cup Phase \cup {"returned", "panicked"}
           /\ step' \in 0 .. Len(Startup')
           /\ held' \subseteq Everything' \cup Nil
           /\ Growing'
<1>1. /\ Worker' = Worker /\ Startup' = Startup /\ Acquired' = Acquired
      /\ Everything' = Everything
  BY SameService
<1>2. (pc = "startup" =>
           step < Len(Startup) /\ held = {Startup[i] : i \in 1 .. step})'
  BY <1>1 DEF Growing
<1>3. Growing'
  BY <1>1, <1>2 DEF Growing
<1>4. QED
  BY <1>1, <1>3 DEF TypeOK

\* The service is one of the two.
LEMMA ServiceIs == TypeOK => service \in Services
BY ServiceAssumption DEF TypeOK

\* As long as startup goes on there is a next resource.
LEMMA NextResource ==
    ASSUME TypeOK, Growing, pc = "startup"
    PROVE  /\ step \in Nat /\ Len(Startup) \in Nat /\ step < Len(Startup)
           /\ held = {Startup[i] : i \in 1 .. step}
           /\ held \subseteq Acquired
           /\ Startup[step + 1] \in Acquired
<1>1. /\ Len(Startup) \in Nat
      /\ \A i \in 1 .. Len(Startup) : Startup[i] \in Acquired
  BY ServiceIs, AcquiredIs
<1>2. step \in 0 .. Len(Startup)
  BY DEF TypeOK
<1>3. step < Len(Startup) /\ held = {Startup[i] : i \in 1 .. step}
  BY DEF Growing
<1>4. \A i \in 1 .. step : i \in 1 .. Len(Startup)
  BY <1>1, <1>2
<1> QED
  BY <1>1, <1>2, <1>3, <1>4

\* Shutdown begins with "unready".
LEMMA ShutdownBegins == ShutdownOrder[1] = "unready"
BY Positions
-----------------------------------------------------------------------------
(* Every action keeps the inductive invariant.                             *)

USE DEF PastUnready, PastWorkers, PastClose, PastDrain, PastAccepting, PastRequests, PastHandlers, PastConnection, PastGRPC, PastListeners, PastManagement, PastClients, PastTelemetry, Bare, Common, Everything, Stage, Server, Services, Nil, NilWorker, NilServer,
    vars, runVars, workerVars, serverVars, requestVars

\* Acquire keeps the inductive invariant.
LEMMA AcquireIInv ==
    ASSUME IInv, Acquire
    PROVE  IInv'
<1> USE DEF IInv, Acquire, Fail
<1>1. /\ Worker' = Worker /\ Startup' = Startup /\ Acquired' = Acquired
      /\ Everything' = Everything
  BY SameService
<1>2. /\ step \in Nat /\ Len(Startup) \in Nat /\ step < Len(Startup)
      /\ held = {Startup[i] : i \in 1 .. step}
      /\ Startup[step + 1] \in Acquired
  BY NextResource
<1>3. held' = {Startup[i] : i \in 1 .. step'}
  <2>1. 1 .. step + 1 = (1 .. step) \cup {step + 1}
    BY <1>2
  <2>2. held' = held \cup {Startup[step + 1]} /\ step' = step + 1
    OBVIOUS
  <2>3. QED
    BY <1>2, <2>1, <2>2
<1>4. TypeOK'
  <2>1. service' \in Service /\ step' \in 0 .. Len(Startup')
    <3>1. step + 1 \in 0 .. Len(Startup)
      BY <1>2
    <3>2. QED
      BY <1>1, <3>1 DEF TypeOK
  <2>2. held' \subseteq Everything' \cup Nil
    BY <1>1, <1>2 DEF TypeOK
  <2>3. QED
    BY <1>1, <2>1, <2>2 DEF TypeOK
<1>5. Growing'
  <2>1. CASE step' = Len(Startup)
    <3>1. held' = Acquired /\ pc' = "checking"
      BY <1>3, <2>1 DEF Acquired
    <3>2. QED
      BY <1>1, <3>1 DEF Growing
  <2>2. CASE step' # Len(Startup)
    <3>1. pc' = "startup" /\ step' < Len(Startup)
      BY <1>2, <2>2
    <3>2. QED
      BY <1>1, <1>3, <3>1 DEF Growing
  <2>3. QED
    BY <2>1, <2>2
<1>6. Shrinking' /\ Flags' /\ Waited' /\ Admitted'
  BY <1>1, ServiceIs, AcquiredIs, ShutdownBegins, PhaseIs DEF TypeOK,
     Shrinking, Flags, Waited, Admitted, Employed
<1>7. Complete'
  BY <1>1, ServiceIs, AcquiredIs, ShutdownBegins, PhaseIs DEF TypeOK,
     Complete, Growing, Flags, Composed
<1>8. Employed'
  BY <1>1, ServiceIs, AcquiredIs, ShutdownBegins, PhaseIs DEF TypeOK,
     Employed, Growing
<1> QED
  BY <1>4, <1>5, <1>6, <1>7, <1>8 DEF IInv

\* FailAcquire keeps the inductive invariant.
LEMMA FailAcquireIInv ==
    ASSUME IInv, FailAcquire
    PROVE  IInv'
<1> USE DEF IInv, FailAcquire, Fail
<1>1. /\ Worker' = Worker /\ Startup' = Startup /\ Acquired' = Acquired
      /\ Everything' = Everything
  BY SameService
<1>2. TypeOK'
  <2>1. held' \subseteq Everything' \cup Nil
    BY <1>1 DEF TypeOK, LeftBehind
  <2>2. pc' = "unready" /\ "unready" \in Phase
    BY ShutdownBegins, PhaseIs
  <2>3. service' \in Service /\ step' \in 0 .. Len(Startup')
    BY <1>1 DEF TypeOK
  <2> QED
    BY <1>1, <2>1, <2>2, <2>3 DEF TypeOK
<1>3. Growing'
  BY <1>1, ServiceIs, AcquiredIs, ShutdownBegins, PhaseIs DEF TypeOK, Growing
<1>4. Shrinking' /\ Flags' /\ Waited' /\ Admitted'
  BY <1>1, ServiceIs, AcquiredIs, ShutdownBegins, PhaseIs DEF TypeOK,
     Shrinking, Flags, Waited, Admitted, Employed
<1>5. Complete'
  BY <1>1, ServiceIs, AcquiredIs, ShutdownBegins, PhaseIs DEF TypeOK,
     Complete, Growing, Flags, Composed
<1>6. Employed'
  BY <1>1, ServiceIs, AcquiredIs, ShutdownBegins, PhaseIs DEF TypeOK,
     Employed, Growing
<1> QED
  BY <1>2, <1>3, <1>4, <1>5, <1>6 DEF IInv

\* CheckStores keeps the inductive invariant.
LEMMA CheckStoresIInv ==
    ASSUME IInv, CheckStores
    PROVE  IInv'
<1> USE DEF IInv, CheckStores, Fail
<1>1. /\ Worker' = Worker /\ Startup' = Startup /\ Acquired' = Acquired
      /\ Everything' = Everything
  BY SameService
<1>2. TypeOK'
  BY <1>1, ServiceIs, AcquiredIs, WorkerIs, ShutdownBegins, PhaseIs DEF
     TypeOK, Growing
<1>3. Growing'
  BY <1>1, ServiceIs, AcquiredIs, WorkerIs, ShutdownBegins, PhaseIs DEF
     TypeOK, Growing
<1>4. Shrinking' /\ Flags' /\ Waited' /\ Admitted'
  BY <1>1, ServiceIs, AcquiredIs, WorkerIs, ShutdownBegins, PhaseIs DEF
     TypeOK, Shrinking, Flags, Waited, Admitted, Employed
<1>5. Complete'
  BY <1>1, ServiceIs, AcquiredIs, WorkerIs, ShutdownBegins, PhaseIs DEF
     TypeOK, Complete, Growing, Flags, Composed
<1>6. Employed'
  BY <1>1, ServiceIs, AcquiredIs, WorkerIs, ShutdownBegins, PhaseIs DEF
     TypeOK, Employed, Growing
<1> QED
  BY <1>2, <1>3, <1>4, <1>5, <1>6 DEF IInv

\* CheckWorkers keeps the inductive invariant.
LEMMA CheckWorkersIInv ==
    ASSUME IInv, CheckWorkers
    PROVE  IInv'
<1> USE DEF IInv, CheckWorkers, Fail
<1>1. /\ Worker' = Worker /\ Startup' = Startup /\ Acquired' = Acquired
      /\ Everything' = Everything
  BY SameService
<1>2. TypeOK'
  BY <1>1, ServiceIs, AcquiredIs, ShutdownBegins, PhaseIs DEF TypeOK, Growing
<1>3. Growing'
  BY <1>1, ServiceIs, AcquiredIs, ShutdownBegins, PhaseIs DEF TypeOK, Growing
<1>4. Shrinking' /\ Flags' /\ Waited' /\ Admitted'
  BY <1>1, ServiceIs, AcquiredIs, ShutdownBegins, PhaseIs DEF TypeOK,
     Shrinking, Flags, Waited, Admitted, Employed
<1>5. Complete'
  BY <1>1, ServiceIs, AcquiredIs, ShutdownBegins, PhaseIs DEF TypeOK,
     Complete, Growing, Flags, Composed
<1>6. Employed'
  BY <1>1, ServiceIs, AcquiredIs, ShutdownBegins, PhaseIs DEF TypeOK,
     Employed, Growing
<1> QED
  BY <1>2, <1>3, <1>4, <1>5, <1>6 DEF IInv

\* Compose keeps the inductive invariant.
LEMMA ComposeIInv ==
    ASSUME IInv, Compose
    PROVE  IInv'
<1> USE DEF IInv, Compose, Fail
<1>1. /\ Worker' = Worker /\ Startup' = Startup /\ Acquired' = Acquired
      /\ Everything' = Everything
  BY SameService
<1>2. TypeOK'
  BY <1>1, ServiceIs, AcquiredIs, WorkerIs, ShutdownBegins, PhaseIs DEF
     TypeOK, Growing
<1>3. Growing'
  BY <1>1, ServiceIs, AcquiredIs, WorkerIs, ShutdownBegins, PhaseIs DEF
     TypeOK, Growing
<1>4. Shrinking' /\ Flags' /\ Waited' /\ Admitted'
  BY <1>1, ServiceIs, AcquiredIs, WorkerIs, ShutdownBegins, PhaseIs DEF
     TypeOK, Shrinking, Flags, Waited, Admitted, Employed
<1>5. held \cap Nil = {} /\ Common \subseteq held /\ held = Acquired
  BY ServiceIs, AcquiredIs, WorkerIs DEF Growing
<1>6. /\ held \subseteq held' /\ held' \cap Nil = {}
      /\ pc' \in {"selecting", "unready"}
  BY <1>5, ShutdownBegins
<1>7. Complete'
  <2>1. CASE pc' = "selecting"
    BY <1>5, <1>6, <2>1 DEF Complete
  <2>2. CASE pc' = "unready"
    <3>1. UNCHANGED serving /\ ~Composed
      BY <2>2 DEF Complete
    <3>2. ~Composed'
      BY <3>1 DEF Composed
    <3>3. QED
      BY <3>2 DEF Complete
  <2>3. QED
    BY <1>6, <2>1, <2>2
<1>8. Employed'
  BY <1>5, <1>6 DEF Employed
<1> QED
  BY <1>2, <1>3, <1>4, <1>7, <1>8 DEF IInv

\* Select keeps the inductive invariant.
LEMMA SelectIInv ==
    ASSUME IInv, Select
    PROVE  IInv'
<1> USE DEF IInv, Select, Fail
<1>1. /\ Worker' = Worker /\ Startup' = Startup /\ Acquired' = Acquired
      /\ Everything' = Everything
  BY SameService
<1>2. TypeOK'
  BY <1>1, ServiceIs, AcquiredIs, WorkerIs, ShutdownBegins, PhaseIs DEF
     TypeOK, Growing
<1>3. Growing'
  BY <1>1, ServiceIs, AcquiredIs, WorkerIs, ShutdownBegins, PhaseIs DEF
     TypeOK, Growing
<1>4. Shrinking' /\ Flags' /\ Waited' /\ Admitted'
  BY <1>1, ServiceIs, AcquiredIs, WorkerIs, ShutdownBegins, PhaseIs DEF
     TypeOK, Shrinking, Flags, Waited, Admitted, Employed
<1>5. Complete'
  BY <1>1, ServiceIs, AcquiredIs, WorkerIs, ShutdownBegins, PhaseIs DEF
     TypeOK, Complete, Growing, Flags, Composed
<1>6. Employed'
  BY <1>1, ServiceIs, AcquiredIs, WorkerIs, ShutdownBegins, PhaseIs DEF
     TypeOK, Employed, Growing
<1> QED
  BY <1>2, <1>3, <1>4, <1>5, <1>6 DEF IInv

\* Stop keeps the inductive invariant.
LEMMA StopIInv ==
    ASSUME IInv, Stop
    PROVE  IInv'
<1> USE DEF IInv, Stop, Fail, WorkerStopped
<1>1. /\ Worker' = Worker /\ Startup' = Startup /\ Acquired' = Acquired
      /\ Everything' = Everything
  BY SameService
<1>2. TypeOK'
  BY <1>1, ServiceIs, AcquiredIs, ShutdownBegins, PhaseIs DEF TypeOK, Growing
<1>3. Growing'
  BY <1>1, ServiceIs, AcquiredIs, ShutdownBegins, PhaseIs DEF TypeOK, Growing
<1>4. Shrinking' /\ Flags' /\ Waited' /\ Admitted'
  BY <1>1, ServiceIs, AcquiredIs, ShutdownBegins, PhaseIs DEF TypeOK,
     Shrinking, Flags, Waited, Admitted, Employed
<1>5. Complete'
  BY <1>1, ServiceIs, AcquiredIs, ShutdownBegins, PhaseIs DEF TypeOK,
     Complete, Growing, Flags, Composed
<1>6. Employed'
  BY <1>1, ServiceIs, AcquiredIs, ShutdownBegins, PhaseIs DEF TypeOK,
     Employed, Growing
<1> QED
  BY <1>2, <1>3, <1>4, <1>5, <1>6 DEF IInv

\* Unready keeps the inductive invariant.
LEMMA UnreadyIInv ==
    ASSUME IInv, Unready
    PROVE  IInv'
<1> USE DEF IInv, Unready, Goto, Release
<1>1. /\ Worker' = Worker /\ Startup' = Startup /\ Acquired' = Acquired
      /\ Everything' = Everything
  BY SameService
<1>2. TypeOK'
  BY <1>1, Successors, WorkerIs, PhaseIs DEF TypeOK, Growing
<1>3. Shrinking'
  BY <1>1, Successors, WorkerIs, PhaseIs DEF TypeOK, Shrinking
<1>4. Growing' /\ Flags' /\ Admitted'
  BY <1>1, Successors, WorkerIs, PhaseIs DEF TypeOK, Growing, Flags, Admitted
<1>5. Complete'
  BY <1>1, Successors, WorkerIs, PhaseIs DEF TypeOK, Complete, Growing,
     Flags, Composed
<1>6. Employed'
  BY <1>1, Successors, WorkerIs, PhaseIs DEF TypeOK, Employed, Growing
<1>7. Waited'
  BY <1>1, Successors, WorkerIs, PhaseIs DEF TypeOK, Waited, Flags, Admitted,
     Employed
<1> QED
  BY <1>2, <1>3, <1>4, <1>5, <1>6, <1>7 DEF IInv

\* HaltWorkers keeps the inductive invariant.
LEMMA HaltWorkersIInv ==
    ASSUME IInv, HaltWorkers
    PROVE  IInv'
<1> USE DEF IInv, HaltWorkers, Goto, Release
<1>1. /\ Worker' = Worker /\ Startup' = Startup /\ Acquired' = Acquired
      /\ Everything' = Everything
  BY SameService
<1>2. TypeOK'
  BY <1>1, Successors, WorkerIs, PhaseIs DEF TypeOK, Growing
<1>3. Shrinking'
  BY <1>1, Successors, WorkerIs, PhaseIs DEF TypeOK, Shrinking
<1>4. Growing' /\ Flags' /\ Admitted'
  BY <1>1, Successors, WorkerIs, PhaseIs DEF TypeOK, Growing, Flags, Admitted
<1>5. Complete'
  BY <1>1, Successors, WorkerIs, PhaseIs DEF TypeOK, Complete, Growing,
     Flags, Composed
<1>6. Employed'
  BY <1>1, Successors, WorkerIs, PhaseIs DEF TypeOK, Employed, Growing
<1>7. Waited'
  BY <1>1, Successors, WorkerIs, PhaseIs DEF TypeOK, Waited, Flags, Admitted,
     Employed
<1> QED
  BY <1>2, <1>3, <1>4, <1>5, <1>6, <1>7 DEF IInv

\* AwaitWorkers keeps the inductive invariant.
LEMMA AwaitWorkersIInv ==
    ASSUME IInv, AwaitWorkers
    PROVE  IInv'
<1> USE DEF IInv, AwaitWorkers, Goto, Release, WorkersGone
<1>1. /\ Worker' = Worker /\ Startup' = Startup /\ Acquired' = Acquired
      /\ Everything' = Everything
  BY SameService
<1>2. TypeOK'
  BY <1>1, Successors, WorkerIs, PhaseIs DEF TypeOK, Growing
<1>3. Shrinking'
  BY <1>1, Successors, WorkerIs, PhaseIs DEF TypeOK, Shrinking
<1>4. Growing' /\ Flags' /\ Admitted'
  BY <1>1, Successors, WorkerIs, PhaseIs DEF TypeOK, Growing, Flags, Admitted
<1>5. Complete'
  BY <1>1, Successors, WorkerIs, PhaseIs DEF TypeOK, Complete, Growing,
     Flags, Composed
<1>6. Employed'
  BY <1>1, Successors, WorkerIs, PhaseIs DEF TypeOK, Employed, Growing
<1>7. Waited'
  BY <1>1, Successors, WorkerIs, PhaseIs DEF TypeOK, Waited, Flags, Admitted,
     Employed
<1> QED
  BY <1>2, <1>3, <1>4, <1>5, <1>6, <1>7 DEF IInv

\* CloseWorkers keeps the inductive invariant.
LEMMA CloseWorkersIInv ==
    ASSUME IInv, CloseWorkers
    PROVE  IInv'
<1> USE DEF IInv, CloseWorkers, Goto, Release
<1>1. /\ Worker' = Worker /\ Startup' = Startup /\ Acquired' = Acquired
      /\ Everything' = Everything
  BY SameService
<1>2. TypeOK'
  BY <1>1, Successors, WorkerIs, PhaseIs DEF TypeOK, Growing
<1>3. Shrinking'
  <2>1. CASE NilWorker \notin held
    <3>1. pc' = "drain" /\ held' = held \ Worker
      BY <2>1, Successors
    <3>2. held' \cap (Worker' \cup {NilWorker}) = {}
      BY <1>1, <2>1, <3>1
    <3>3. QED
      BY <3>1, <3>2 DEF Shrinking
  <2>2. CASE NilWorker \in held
    BY <2>2 DEF Shrinking
  <2>3. QED
    BY <2>1, <2>2
<1>4. Growing' /\ Flags' /\ Admitted'
  BY <1>1, Successors, WorkerIs, PhaseIs DEF TypeOK, Growing, Flags, Admitted
<1>5. Complete'
  BY <1>1, Successors, WorkerIs, PhaseIs DEF TypeOK, Complete, Employed,
     Composed
<1>6. Employed'
  BY <1>1, Successors, WorkerIs, PhaseIs DEF TypeOK, Employed, Growing
<1>7. Waited'
  BY <1>1, Successors, WorkerIs, PhaseIs DEF TypeOK, Waited, Flags, Admitted,
     Employed
<1> QED
  BY <1>2, <1>3, <1>4, <1>5, <1>6, <1>7 DEF IInv

\* Drain keeps the inductive invariant.
LEMMA DrainIInv ==
    ASSUME IInv, Drain
    PROVE  IInv'
<1> USE DEF IInv, Drain, Goto, Release
<1>1. /\ Worker' = Worker /\ Startup' = Startup /\ Acquired' = Acquired
      /\ Everything' = Everything
  BY SameService
<1>2. TypeOK'
  BY <1>1, Successors, WorkerIs, PhaseIs DEF TypeOK, Growing
<1>3. Shrinking'
  BY <1>1, Successors, WorkerIs, PhaseIs DEF TypeOK, Shrinking
<1>4. Growing' /\ Flags' /\ Admitted'
  BY <1>1, Successors, WorkerIs, PhaseIs DEF TypeOK, Growing, Flags, Admitted
<1>5. Complete'
  BY <1>1, Successors, WorkerIs, PhaseIs DEF TypeOK, Complete, Growing,
     Flags, Composed
<1>6. Employed'
  BY <1>1, Successors, WorkerIs, PhaseIs DEF TypeOK, Employed, Growing
<1>7. Waited'
  BY <1>1, Successors, WorkerIs, PhaseIs DEF TypeOK, Waited, Flags, Admitted,
     Employed
<1> QED
  BY <1>2, <1>3, <1>4, <1>5, <1>6, <1>7 DEF IInv

\* StopAccepting keeps the inductive invariant.
LEMMA StopAcceptingIInv ==
    ASSUME IInv, StopAccepting
    PROVE  IInv'
<1> USE DEF IInv, StopAccepting, Goto, Release
<1>1. /\ Worker' = Worker /\ Startup' = Startup /\ Acquired' = Acquired
      /\ Everything' = Everything
  BY SameService
<1>2. TypeOK'
  BY <1>1, Successors, WorkerIs, PhaseIs DEF TypeOK, Growing
<1>3. Shrinking'
  BY <1>1, Successors, WorkerIs, PhaseIs DEF TypeOK, Shrinking
<1>4. Growing' /\ Flags' /\ Admitted'
  BY <1>1, Successors, WorkerIs, PhaseIs DEF TypeOK, Growing, Flags, Admitted
<1>5. Complete'
  BY <1>1, Successors, WorkerIs, PhaseIs DEF TypeOK, Complete, Growing,
     Flags, Composed
<1>6. Employed'
  BY <1>1, Successors, WorkerIs, PhaseIs DEF TypeOK, Employed, Growing
<1>7. Waited'
  BY <1>1, Successors, WorkerIs, PhaseIs DEF TypeOK, Waited, Flags, Admitted,
     Employed
<1> QED
  BY <1>2, <1>3, <1>4, <1>5, <1>6, <1>7 DEF IInv

\* AwaitRequests keeps the inductive invariant.
LEMMA AwaitRequestsIInv ==
    ASSUME IInv, AwaitRequests
    PROVE  IInv'
<1> USE DEF IInv, AwaitRequests, Goto, Release
<1>1. /\ Worker' = Worker /\ Startup' = Startup /\ Acquired' = Acquired
      /\ Everything' = Everything
  BY SameService
<1>2. TypeOK'
  BY <1>1, Successors, WorkerIs, PhaseIs DEF TypeOK, Growing
<1>3. Shrinking'
  BY <1>1, Successors, WorkerIs, PhaseIs DEF TypeOK, Shrinking
<1>4. Growing' /\ Flags' /\ Admitted'
  BY <1>1, Successors, WorkerIs, PhaseIs DEF TypeOK, Growing, Flags, Admitted
<1>5. Complete'
  BY <1>1, Successors, WorkerIs, PhaseIs DEF TypeOK, Complete, Growing,
     Flags, Composed
<1>6. Employed'
  BY <1>1, Successors, WorkerIs, PhaseIs DEF TypeOK, Employed, Growing
<1>7. Waited'
  BY <1>1, Successors, WorkerIs, PhaseIs DEF TypeOK, Waited, Flags, Admitted,
     Employed
<1> QED
  BY <1>2, <1>3, <1>4, <1>5, <1>6, <1>7 DEF IInv

\* AwaitHandlers keeps the inductive invariant.
LEMMA AwaitHandlersIInv ==
    ASSUME IInv, AwaitHandlers
    PROVE  IInv'
<1> USE DEF IInv, AwaitHandlers, Goto, Release
<1>1. /\ Worker' = Worker /\ Startup' = Startup /\ Acquired' = Acquired
      /\ Everything' = Everything
  BY SameService
<1>2. TypeOK'
  BY <1>1, Successors, WorkerIs, PhaseIs DEF TypeOK, Growing
<1>3. Shrinking'
  BY <1>1, Successors, WorkerIs, PhaseIs DEF TypeOK, Shrinking
<1>4. Growing' /\ Flags' /\ Admitted'
  BY <1>1, Successors, WorkerIs, PhaseIs DEF TypeOK, Growing, Flags, Admitted
<1>5. Complete'
  BY <1>1, Successors, WorkerIs, PhaseIs DEF TypeOK, Complete, Growing,
     Flags, Composed
<1>6. Employed'
  BY <1>1, Successors, WorkerIs, PhaseIs DEF TypeOK, Employed, Growing
<1>7. Waited'
  BY <1>1, Successors, WorkerIs, PhaseIs DEF TypeOK, Waited, Flags, Admitted,
     Employed
<1> QED
  BY <1>2, <1>3, <1>4, <1>5, <1>6, <1>7 DEF IInv

\* CloseConnection keeps the inductive invariant.
LEMMA CloseConnectionIInv ==
    ASSUME IInv, CloseConnection
    PROVE  IInv'
<1> USE DEF IInv, CloseConnection, Goto, Release
<1>1. /\ Worker' = Worker /\ Startup' = Startup /\ Acquired' = Acquired
      /\ Everything' = Everything
  BY SameService
<1>2. TypeOK'
  BY <1>1, Successors, WorkerIs, PhaseIs DEF TypeOK, Growing
<1>3. Shrinking'
  BY <1>1, Successors, WorkerIs, PhaseIs DEF TypeOK, Shrinking
<1>4. Growing' /\ Flags' /\ Admitted'
  BY <1>1, Successors, WorkerIs, PhaseIs DEF TypeOK, Growing, Flags, Admitted
<1>5. Complete'
  BY <1>1, Successors, WorkerIs, PhaseIs DEF TypeOK, Complete, Growing,
     Flags, Composed
<1>6. Employed'
  BY <1>1, Successors, WorkerIs, PhaseIs DEF TypeOK, Employed, Growing
<1>7. Waited'
  BY <1>1, Successors, WorkerIs, PhaseIs DEF TypeOK, Waited, Flags, Admitted,
     Employed
<1> QED
  BY <1>2, <1>3, <1>4, <1>5, <1>6, <1>7 DEF IInv

\* StopGRPC keeps the inductive invariant.
LEMMA StopGRPCIInv ==
    ASSUME IInv, StopGRPC
    PROVE  IInv'
<1> USE DEF IInv, StopGRPC, Goto, Release
<1>1. /\ Worker' = Worker /\ Startup' = Startup /\ Acquired' = Acquired
      /\ Everything' = Everything
  BY SameService
<1>2. TypeOK'
  BY <1>1, Successors, WorkerIs, PhaseIs DEF TypeOK, Growing
<1>3. Shrinking'
  <2>1. CASE NilServer \notin held
    <3>1. /\ pc = "stop grpc" /\ pc' = "close listeners"
          /\ held' = held \ {"grpcServer"} /\ serving' = serving \ {"grpc"}
      BY <2>1, Successors
    <3> QED
      BY <1>1, <2>1, <3>1 DEF Shrinking
  <2>2. CASE NilServer \in held
    BY <2>2 DEF Shrinking
  <2> QED
    BY <2>1, <2>2
<1>4. Growing' /\ Flags' /\ Admitted'
  BY <1>1, Successors, WorkerIs, PhaseIs DEF TypeOK, Growing, Flags, Admitted
<1>5. Complete'
  BY <1>1, Successors, WorkerIs, PhaseIs DEF TypeOK, Complete, Growing,
     Flags, Composed
<1>6. Employed'
  BY <1>1, Successors, WorkerIs, PhaseIs DEF TypeOK, Employed, Growing
<1>7. Waited'
  BY <1>1, Successors, WorkerIs, PhaseIs DEF TypeOK, Waited, Flags, Admitted,
     Employed
<1> QED
  BY <1>2, <1>3, <1>4, <1>5, <1>6, <1>7 DEF IInv

\* CloseListeners keeps the inductive invariant.
LEMMA CloseListenersIInv ==
    ASSUME IInv, CloseListeners
    PROVE  IInv'
<1> USE DEF IInv, CloseListeners, Goto, Release
<1>1. /\ Worker' = Worker /\ Startup' = Startup /\ Acquired' = Acquired
      /\ Everything' = Everything
  BY SameService
<1>2. TypeOK'
  BY <1>1, Successors, WorkerIs, PhaseIs DEF TypeOK, Growing
<1>3. Shrinking'
  BY <1>1, Successors, WorkerIs, PhaseIs DEF TypeOK, Shrinking
<1>4. Growing' /\ Flags' /\ Admitted'
  BY <1>1, Successors, WorkerIs, PhaseIs DEF TypeOK, Growing, Flags, Admitted
<1>5. Complete'
  BY <1>1, Successors, WorkerIs, PhaseIs DEF TypeOK, Complete, Growing,
     Flags, Composed
<1>6. Employed'
  BY <1>1, Successors, WorkerIs, PhaseIs DEF TypeOK, Employed, Growing
<1>7. Waited'
  BY <1>1, Successors, WorkerIs, PhaseIs DEF TypeOK, Waited, Flags, Admitted,
     Employed
<1> QED
  BY <1>2, <1>3, <1>4, <1>5, <1>6, <1>7 DEF IInv

\* StopManagement keeps the inductive invariant.
LEMMA StopManagementIInv ==
    ASSUME IInv, StopManagement
    PROVE  IInv'
<1> USE DEF IInv, StopManagement, Goto, Release
<1>1. /\ Worker' = Worker /\ Startup' = Startup /\ Acquired' = Acquired
      /\ Everything' = Everything
  BY SameService
<1>2. TypeOK'
  BY <1>1, Successors, WorkerIs, PhaseIs DEF TypeOK, Growing
<1>3. Shrinking'
  BY <1>1, Successors, WorkerIs, PhaseIs DEF TypeOK, Shrinking
<1>4. Growing' /\ Flags' /\ Admitted'
  BY <1>1, Successors, WorkerIs, PhaseIs DEF TypeOK, Growing, Flags, Admitted
<1>5. Complete'
  BY <1>1, Successors, WorkerIs, PhaseIs DEF TypeOK, Complete, Growing,
     Flags, Composed
<1>6. Employed'
  BY <1>1, Successors, WorkerIs, PhaseIs DEF TypeOK, Employed, Growing
<1>7. Waited'
  BY <1>1, Successors, WorkerIs, PhaseIs DEF TypeOK, Waited, Flags, Admitted,
     Employed
<1> QED
  BY <1>2, <1>3, <1>4, <1>5, <1>6, <1>7 DEF IInv

\* CloseClients keeps the inductive invariant.
LEMMA CloseClientsIInv ==
    ASSUME IInv, CloseClients
    PROVE  IInv'
<1> USE DEF IInv, CloseClients, Goto, Release
<1>1. /\ Worker' = Worker /\ Startup' = Startup /\ Acquired' = Acquired
      /\ Everything' = Everything
  BY SameService
<1>2. TypeOK'
  BY <1>1, Successors, WorkerIs, PhaseIs DEF TypeOK, Growing
<1>3. Shrinking'
  BY <1>1, Successors, WorkerIs, PhaseIs DEF TypeOK, Shrinking
<1>4. Growing' /\ Flags' /\ Admitted'
  BY <1>1, Successors, WorkerIs, PhaseIs DEF TypeOK, Growing, Flags, Admitted
<1>5. Complete'
  BY <1>1, Successors, WorkerIs, PhaseIs DEF TypeOK, Complete, Growing,
     Flags, Composed
<1>6. Employed'
  BY <1>1, Successors, WorkerIs, PhaseIs DEF TypeOK, Employed, Growing
<1>7. Waited'
  BY <1>1, Successors, WorkerIs, PhaseIs DEF TypeOK, Waited, Flags, Admitted,
     Employed
<1> QED
  BY <1>2, <1>3, <1>4, <1>5, <1>6, <1>7 DEF IInv

\* ShutdownTelemetry keeps the inductive invariant.
LEMMA ShutdownTelemetryIInv ==
    ASSUME IInv, ShutdownTelemetry
    PROVE  IInv'
<1> USE DEF IInv, ShutdownTelemetry, Goto, Release
<1>1. /\ Worker' = Worker /\ Startup' = Startup /\ Acquired' = Acquired
      /\ Everything' = Everything
  BY SameService
<1>2. TypeOK'
  BY <1>1, Successors, WorkerIs, PhaseIs DEF TypeOK, Growing
<1>3. Shrinking'
  BY <1>1, Successors, WorkerIs, PhaseIs DEF TypeOK, Shrinking
<1>4. Growing' /\ Flags' /\ Admitted'
  BY <1>1, Successors, WorkerIs, PhaseIs DEF TypeOK, Growing, Flags, Admitted
<1>5. Complete'
  BY <1>1, Successors, WorkerIs, PhaseIs DEF TypeOK, Complete, Growing,
     Flags, Composed
<1>6. Employed'
  BY <1>1, Successors, WorkerIs, PhaseIs DEF TypeOK, Employed, Growing
<1>7. Waited'
  BY <1>1, Successors, WorkerIs, PhaseIs DEF TypeOK, Waited, Flags, Admitted,
     Employed
<1> QED
  BY <1>2, <1>3, <1>4, <1>5, <1>6, <1>7 DEF IInv

\* Cancel keeps the inductive invariant.
LEMMA CancelIInv ==
    ASSUME IInv, Cancel
    PROVE  IInv'
<1> USE DEF IInv, Cancel
<1>1. /\ Worker' = Worker /\ Startup' = Startup /\ Acquired' = Acquired
      /\ Everything' = Everything
  BY SameService
<1>2. /\ service' \in Service
      /\ pc' \in Stage \cup Phase \cup {"returned", "panicked"}
      /\ step' \in 0 .. Len(Startup')
      /\ held' \subseteq Everything' \cup Nil
      /\ Growing'
  BY RunKept
<1>3. TypeOK'
  BY <1>1, <1>2 DEF TypeOK, Growing
<1>4. Shrinking' /\ Flags' /\ Complete' /\ Employed' /\ Waited' /\ Admitted'
  BY <1>1, <1>2 DEF TypeOK, Shrinking, Flags, Complete, Growing, Employed,
     Waited, Admitted, Composed
<1> QED
  BY <1>2, <1>3, <1>4 DEF IInv

\* Expire keeps the inductive invariant.
LEMMA ExpireIInv ==
    ASSUME IInv, Expire
    PROVE  IInv'
<1> USE DEF IInv, Expire
<1>1. /\ Worker' = Worker /\ Startup' = Startup /\ Acquired' = Acquired
      /\ Everything' = Everything
  BY SameService
<1>2. /\ service' \in Service
      /\ pc' \in Stage \cup Phase \cup {"returned", "panicked"}
      /\ step' \in 0 .. Len(Startup')
      /\ held' \subseteq Everything' \cup Nil
      /\ Growing'
  BY RunKept
<1>3. TypeOK'
  BY <1>1, PhaseIs, <1>2 DEF TypeOK, Growing
<1>4. Waited'
  BY <1>1, PhaseIs, <1>2 DEF TypeOK, Waited, Flags, Admitted, Employed
<1>5. Complete'
  BY <1>1, PhaseIs, <1>2 DEF TypeOK, Complete, Growing, Flags, Composed
<1>6. Shrinking' /\ Flags' /\ Employed' /\ Admitted'
  BY <1>1, PhaseIs, <1>2 DEF TypeOK, Shrinking, Flags, Employed, Growing,
     Admitted
<1> QED
  BY <1>2, <1>3, <1>4, <1>5, <1>6 DEF IInv

\* BeginProbe keeps the inductive invariant.
LEMMA BeginProbeIInv ==
    ASSUME IInv, BeginProbe
    PROVE  IInv'
<1> USE DEF IInv, BeginProbe
<1>1. /\ Worker' = Worker /\ Startup' = Startup /\ Acquired' = Acquired
      /\ Everything' = Everything
  BY SameService
<1>2. /\ service' \in Service
      /\ pc' \in Stage \cup Phase \cup {"returned", "panicked"}
      /\ step' \in 0 .. Len(Startup')
      /\ held' \subseteq Everything' \cup Nil
      /\ Growing'
  BY RunKept
<1>3. TypeOK'
  BY <1>1, <1>2 DEF TypeOK, Growing
<1>4. Shrinking' /\ Flags' /\ Complete' /\ Employed' /\ Waited' /\ Admitted'
  BY <1>1, <1>2 DEF TypeOK, Shrinking, Flags, Complete, Growing, Employed,
     Waited, Admitted, Composed
<1> QED
  BY <1>2, <1>3, <1>4 DEF IInv

\* EndProbe keeps the inductive invariant.
LEMMA EndProbeIInv ==
    ASSUME IInv, EndProbe
    PROVE  IInv'
<1> USE DEF IInv, EndProbe, StillReady
<1>1. /\ Worker' = Worker /\ Startup' = Startup /\ Acquired' = Acquired
      /\ Everything' = Everything
  BY SameService
<1>2. /\ service' \in Service
      /\ pc' \in Stage \cup Phase \cup {"returned", "panicked"}
      /\ step' \in 0 .. Len(Startup')
      /\ held' \subseteq Everything' \cup Nil
      /\ Growing'
  BY RunKept
<1>3. TypeOK'
  BY <1>1, <1>2 DEF TypeOK, Growing
<1>4. Complete'
  BY <1>1, <1>2 DEF TypeOK, Complete, Growing, Flags, Composed
<1>5. Shrinking' /\ Flags'
  BY <1>1, <1>2 DEF TypeOK, Shrinking, Flags
<1>6. Employed' /\ Waited' /\ Admitted'
  BY <1>1, <1>2 DEF TypeOK, Employed, Growing, Waited, Flags, Admitted
<1> QED
  BY <1>2, <1>3, <1>4, <1>5, <1>6 DEF IInv

\* StopWorker keeps the inductive invariant.
LEMMA StopWorkerIInv ==
    ASSUME IInv, NEW w \in Worker, StopWorker(w)
    PROVE  IInv'
<1> USE DEF IInv, StopWorker
<1>1. /\ Worker' = Worker /\ Startup' = Startup /\ Acquired' = Acquired
      /\ Everything' = Everything
  BY SameService
<1>2. /\ service' \in Service
      /\ pc' \in Stage \cup Phase \cup {"returned", "panicked"}
      /\ step' \in 0 .. Len(Startup')
      /\ held' \subseteq Everything' \cup Nil
      /\ Growing'
  BY RunKept
<1>3. TypeOK'
  BY <1>1, WorkerIs, <1>2 DEF TypeOK, Growing
<1>4. Employed'
  BY <1>1, WorkerIs, <1>2 DEF TypeOK, Employed, Growing
<1>5. Waited'
  BY <1>1, WorkerIs, <1>2 DEF TypeOK, Waited, Flags, Admitted, Employed
<1>6. Shrinking' /\ Flags' /\ Complete' /\ Admitted'
  BY <1>1, WorkerIs, <1>2 DEF TypeOK, Shrinking, Flags, Complete, Growing,
     Admitted, Composed
<1> QED
  BY <1>2, <1>3, <1>4, <1>5, <1>6 DEF IInv

\* FailServe keeps the inductive invariant.
LEMMA FailServeIInv ==
    ASSUME IInv, NEW s \in Server, FailServe(s)
    PROVE  IInv'
<1> USE DEF IInv, FailServe
<1>1. /\ Worker' = Worker /\ Startup' = Startup /\ Acquired' = Acquired
      /\ Everything' = Everything
  BY SameService
<1>2. /\ service' \in Service
      /\ pc' \in Stage \cup Phase \cup {"returned", "panicked"}
      /\ step' \in 0 .. Len(Startup')
      /\ held' \subseteq Everything' \cup Nil
      /\ Growing'
  BY RunKept
<1>3. TypeOK'
  BY <1>1, <1>2 DEF TypeOK, Growing
<1>4. Shrinking'
  BY <1>1, <1>2 DEF TypeOK, Shrinking
<1>5. Complete'
  BY <1>1, <1>2 DEF TypeOK, Complete, Growing, Flags, Composed
<1>6. Flags' /\ Employed' /\ Waited' /\ Admitted'
  BY <1>1, <1>2 DEF TypeOK, Flags, Employed, Growing, Waited, Admitted
<1> QED
  BY <1>2, <1>3, <1>4, <1>5, <1>6 DEF IInv

\* Accept keeps the inductive invariant.
LEMMA AcceptIInv ==
    ASSUME IInv, NEW r \in Request, Accept(r)
    PROVE  IInv'
<1> USE DEF IInv, Accept
<1>1. /\ Worker' = Worker /\ Startup' = Startup /\ Acquired' = Acquired
      /\ Everything' = Everything
  BY SameService
<1>2. /\ service' \in Service
      /\ pc' \in Stage \cup Phase \cup {"returned", "panicked"}
      /\ step' \in 0 .. Len(Startup')
      /\ held' \subseteq Everything' \cup Nil
      /\ Growing'
  BY RunKept
<1>3. request' \in [Request -> {"none", "accepted", "active", "ended"}]
  BY DEF TypeOK
<1>4. TypeOK'
  BY <1>1, <1>2, <1>3 DEF TypeOK, Growing
<1>5. Complete'
  BY <1>1, <1>2, <1>3 DEF TypeOK, Complete, Growing, Flags, Composed
<1>6. Waited'
  BY <1>1, <1>2, <1>3 DEF TypeOK, Waited, Flags, Admitted, Employed
<1>7. Admitted'
  BY <1>1, <1>2, <1>3 DEF TypeOK, Admitted
<1>8. Shrinking' /\ Flags' /\ Employed'
  BY <1>1, <1>2, <1>3 DEF TypeOK, Shrinking, Flags, Employed, Growing
<1> QED
  BY <1>2, <1>3, <1>4, <1>5, <1>6, <1>7, <1>8 DEF IInv

\* Enter keeps the inductive invariant.
LEMMA EnterIInv ==
    ASSUME IInv, NEW r \in Request, Enter(r)
    PROVE  IInv'
<1> USE DEF IInv, Enter, Admits
<1>1. /\ Worker' = Worker /\ Startup' = Startup /\ Acquired' = Acquired
      /\ Everything' = Everything
  BY SameService
<1>2. /\ service' \in Service
      /\ pc' \in Stage \cup Phase \cup {"returned", "panicked"}
      /\ step' \in 0 .. Len(Startup')
      /\ held' \subseteq Everything' \cup Nil
      /\ Growing'
  BY RunKept
<1>3. request' \in [Request -> {"none", "accepted", "active", "ended"}]
  BY DEF TypeOK
<1>4. TypeOK'
  BY <1>1, <1>2, <1>3 DEF TypeOK, Growing
<1>5. Complete'
  BY <1>1, <1>2, <1>3 DEF TypeOK, Complete, Growing, Flags, Composed
<1>6. Waited'
  BY <1>1, <1>2, <1>3 DEF TypeOK, Waited, Flags, Admitted, Employed
<1>7. Admitted'
  BY <1>1, <1>2, <1>3 DEF TypeOK, Admitted
<1>8. Shrinking' /\ Flags' /\ Employed'
  BY <1>1, <1>2, <1>3 DEF TypeOK, Shrinking, Flags, Employed, Growing
<1> QED
  BY <1>2, <1>3, <1>4, <1>5, <1>6, <1>7, <1>8 DEF IInv

\* EndCall keeps the inductive invariant.
LEMMA EndCallIInv ==
    ASSUME IInv, NEW r \in Request, EndCall(r)
    PROVE  IInv'
<1> USE DEF IInv, EndCall
<1>1. /\ Worker' = Worker /\ Startup' = Startup /\ Acquired' = Acquired
      /\ Everything' = Everything
  BY SameService
<1>2. /\ service' \in Service
      /\ pc' \in Stage \cup Phase \cup {"returned", "panicked"}
      /\ step' \in 0 .. Len(Startup')
      /\ held' \subseteq Everything' \cup Nil
      /\ Growing'
  BY RunKept
<1>3. TypeOK'
  BY <1>1, <1>2 DEF TypeOK, Growing
<1>4. Waited'
  BY <1>1, <1>2 DEF TypeOK, Waited, Flags, Admitted, Employed
<1>5. Admitted'
  BY <1>1, <1>2 DEF TypeOK, Admitted
<1>6. Complete'
  BY <1>1, <1>2 DEF TypeOK, Complete, Growing, Flags, Composed
<1>7. Shrinking' /\ Flags' /\ Employed'
  BY <1>1, <1>2 DEF TypeOK, Shrinking, Flags, Employed, Growing
<1> QED
  BY <1>2, <1>3, <1>4, <1>5, <1>6, <1>7 DEF IInv

\* Leave keeps the inductive invariant.
LEMMA LeaveIInv ==
    ASSUME IInv, NEW r \in Request, Leave(r)
    PROVE  IInv'
<1> USE DEF IInv, Leave
<1>1. /\ Worker' = Worker /\ Startup' = Startup /\ Acquired' = Acquired
      /\ Everything' = Everything
  BY SameService
<1>2. /\ service' \in Service
      /\ pc' \in Stage \cup Phase \cup {"returned", "panicked"}
      /\ step' \in 0 .. Len(Startup')
      /\ held' \subseteq Everything' \cup Nil
      /\ Growing'
  BY RunKept
<1>3. request' \in [Request -> {"none", "accepted", "active", "ended"}]
  BY DEF TypeOK
<1>4. TypeOK'
  BY <1>1, <1>2, <1>3 DEF TypeOK, Growing
<1>5. Complete'
  BY <1>1, <1>2, <1>3 DEF TypeOK, Complete, Growing, Flags, Composed
<1>6. Waited'
  BY <1>1, <1>2, <1>3 DEF TypeOK, Waited, Flags, Admitted, Employed
<1>7. Admitted'
  BY <1>1, <1>2, <1>3 DEF TypeOK, Admitted
<1>8. Shrinking' /\ Flags' /\ Employed'
  BY <1>1, <1>2, <1>3 DEF TypeOK, Shrinking, Flags, Employed, Growing
<1> QED
  BY <1>2, <1>3, <1>4, <1>5, <1>6, <1>7, <1>8 DEF IInv

\* The initial state satisfies the inductive invariant.
LEMMA InitIInv == Init => IInv
<1> SUFFICES ASSUME Init PROVE IInv
  OBVIOUS
<1> USE DEF Init
<1>1. service \in Services /\ Len(Startup) \in Nat \ {0}
  BY ServiceAssumption, AcquiredIs
<1>2. TypeOK
  <2>1. service \in Service /\ pc \in Stage /\ step \in 0 .. Len(Startup)
    BY <1>1
  <2>2. request \in [Request -> {"none", "accepted", "active", "ended"}]
    OBVIOUS
  <2> QED
    BY <2>1, <2>2 DEF TypeOK
<1>3. Growing
  <2>1. 1 .. 0 = {}
    OBVIOUS
  <2>2. QED
    BY <1>1, <2>1 DEF Growing
<1>4. Shrinking /\ Flags /\ Complete /\ Employed /\ Waited /\ Admitted
  BY DEF Shrinking, Flags, Complete, Composed, Employed, Waited, Admitted
<1> QED
  BY <1>2, <1>3, <1>4 DEF IInv

\* So does a step that changes nothing.
LEMMA StutterIInv == ASSUME IInv, UNCHANGED vars PROVE IInv'
<1> USE DEF IInv
<1>1. /\ Worker' = Worker /\ Startup' = Startup /\ Acquired' = Acquired
      /\ Everything' = Everything
  BY SameService
<1>2. /\ service' \in Service
      /\ pc' \in Stage \cup Phase \cup {"returned", "panicked"}
      /\ step' \in 0 .. Len(Startup')
      /\ held' \subseteq Everything' \cup Nil
      /\ Growing'
  BY RunKept
<1>3. TypeOK'
  BY <1>1, <1>2 DEF TypeOK
<1>4. Shrinking' /\ Flags' /\ Waited' /\ Admitted'
  BY <1>1 DEF Shrinking, Flags, Waited, Admitted
<1>5. Complete' /\ Employed'
  BY <1>1 DEF Complete, Composed, Employed
<1> QED
  BY <1>2, <1>3, <1>4, <1>5 DEF IInv

\* And every step of the service.
LEMMA NextIInv == IInv /\ [Next]_vars => IInv'
<1> SUFFICES ASSUME IInv, [Next]_vars PROVE IInv'
  OBVIOUS
<1>1. CASE Start
  BY <1>1, AcquireIInv, FailAcquireIInv, CheckStoresIInv, CheckWorkersIInv,
     ComposeIInv, SelectIInv, StopIInv DEF Start
<1>2. CASE Shutdown
  BY <1>2, UnreadyIInv, HaltWorkersIInv, AwaitWorkersIInv, CloseWorkersIInv,
     DrainIInv, StopAcceptingIInv, AwaitRequestsIInv, AwaitHandlersIInv,
     CloseConnectionIInv, StopGRPCIInv, CloseListenersIInv,
     StopManagementIInv, CloseClientsIInv, ShutdownTelemetryIInv DEF Shutdown
<1>3. CASE Beside
  BY <1>3, CancelIInv, ExpireIInv, BeginProbeIInv, EndProbeIInv,
     StopWorkerIInv, FailServeIInv, AcceptIInv, EnterIInv, EndCallIInv,
     LeaveIInv DEF Beside
<1>4. CASE UNCHANGED vars
  BY <1>4, StutterIInv
<1> QED
  BY <1>1, <1>2, <1>3, <1>4 DEF Next

\* The inductive invariant holds throughout.
THEOREM LifecycleInvariant == Spec => []IInv
<1> QED
  BY InitIInv, NextIInv, PTL DEF Spec

-----------------------------------------------------------------------------
(* What follows.                                                           *)

\* Every variable keeps to its values.
THEOREM LifecycleTypeOK == Spec => []TypeOK
<1>1. IInv => TypeOK
  BY DEF IInv
<1> QED
  BY <1>1, LifecycleInvariant, PTL

\* Within the graceful budget no handler loses its connection, no RPC its
\* server or reader and no worker its writer: who is still there is there
\* because the phase that waits for them is not behind.
THEOREM UsersOutliveTheirResources == Spec => []NoUseAfterRelease
<1>1. IInv => NoUseAfterRelease
  <2> SUFFICES ASSUME IInv, ~deadline
               PROVE  NoUseAfterRelease
    BY DEF NoUseAfterRelease
  <2>1. ASSUME NEW r \in Request, request[r] = "active"
        PROVE  "connection" \in held
    BY <2>1 DEF IInv, Waited, Complete, Composed
  <2>2. ASSUME calls # {}
        PROVE  {"grpcServer", "search"} \subseteq held
    <3>1. PICK r \in calls : r \in Request /\ request[r] # "none"
      BY <2>2 DEF IInv, Admitted, TypeOK
    <3> QED
      BY <2>2, <3>1 DEF IInv, Waited, Complete, Composed
  <2>3. ASSUME working # {}
        PROVE  "projection" \in held
    BY <2>3 DEF IInv, Waited, Employed
  <2> QED
    BY <2>1, <2>2, <2>3 DEF NoUseAfterRelease
<1> QED
  BY <1>1, LifecycleInvariant, PTL

\* Whoever the tracker lets in finds the connection, the server and the reader
\* there, the deadline or not: it lets nobody in once the drain began.
THEOREM NothingAdmittedLate == Spec => NoLateAdmission
<1>1. IInv /\ [Next]_vars =>
          [\A r \in Request :
              request[r] = "accepted" /\ request'[r] = "active" =>
                  {"connection", "grpcServer", "search"} \subseteq held]_vars
  <2> SUFFICES ASSUME IInv, Next, NEW r \in Request,
                      request[r] = "accepted", request'[r] = "active"
               PROVE  {"connection", "grpcServer", "search"} \subseteq held
    OBVIOUS
  <2>1. request' # request
    OBVIOUS
  <2>2. PICK q \in Request : Accept(q) \/ Enter(q) \/ EndCall(q) \/ Leave(q)
    <3>1. ~Start
      BY <2>1 DEF Start, Acquire, FailAcquire, CheckStores, CheckWorkers,
         Compose, Select, Stop
    <3>2. ~Shutdown
      BY <2>1 DEF Shutdown, Unready, HaltWorkers, AwaitWorkers, CloseWorkers,
         Drain, StopAccepting, AwaitRequests, AwaitHandlers, CloseConnection,
         StopGRPC, CloseListeners, StopManagement, CloseClients,
         ShutdownTelemetry
    <3>3. Beside
      BY <3>1, <3>2 DEF Next
    <3> QED
      BY <2>1, <3>3 DEF Beside, Cancel, Expire, BeginProbe, EndProbe,
         StopWorker, FailServe
  <2>3. Enter(q) /\ q = r /\ ~draining
    BY <2>2 DEF Accept, Enter, EndCall, Leave, Admits, IInv, TypeOK
  <2>4. pc \notin PastDrain /\ Composed
    BY <2>3 DEF IInv, Flags, Composed
  <2> QED
    BY <2>4 DEF IInv, Complete
<1> QED
  BY <1>1, LifecycleInvariant, PTL DEF Spec, NoLateAdmission

\* A probe answers "ready" only while everything is held, no worker was told
\* to stop and nothing is drained.
THEOREM ReadyOnlyWhileServing == Spec => ReadyMeansServing
<1>1. IInv /\ [Next]_vars =>
          [probe = "checking" /\ probe' = "ready" =>
              held = Everything /\ ~halting /\ ~draining]_vars
  <2> SUFFICES ASSUME IInv, Next, probe = "checking", probe' = "ready"
               PROVE  held = Everything /\ ~halting /\ ~draining
    OBVIOUS
  <2>1. EndProbe
    <3>1. probe' # probe
      OBVIOUS
    <3>2. ~Start
      BY <3>1 DEF Start, Acquire, FailAcquire, CheckStores, CheckWorkers,
         Compose, Select, Stop
    <3>3. ~Shutdown
      BY <3>1 DEF Shutdown, Unready, HaltWorkers, AwaitWorkers, CloseWorkers,
         Drain, StopAccepting, AwaitRequests, AwaitHandlers, CloseConnection,
         StopGRPC, CloseListeners, StopManagement, CloseClients,
         ShutdownTelemetry
    <3>4. Beside
      BY <3>2, <3>3 DEF Next
    <3> QED
      BY <3>1, <3>4 DEF Beside, Cancel, Expire, BeginProbe, StopWorker,
         FailServe, Accept, Enter, EndCall, Leave
  <2>2. ready
    BY <2>1 DEF EndProbe, StillReady
  <2>3. pc \in {"serving", "unready"}
    BY <2>2 DEF IInv, Flags
  <2>4. held = Everything
    BY <2>2, <2>3 DEF IInv, Growing, Complete, Composed
  <2> QED
    BY <2>3, <2>4 DEF IInv, Flags
<1> QED
  BY <1>1, LifecycleInvariant, PTL DEF Spec, ReadyMeansServing

\* policy-search-service never reports a worker that stopped because the
\* service was cancelled as a failure.
THEOREM SearchStopsCleanly == Spec => SearchStopsClean
<1>1. [Next]_vars =>
          [service = "policy-search" /\ failure = "none"
              /\ failure' = "worker" => ~cancelled]_vars
  <2> SUFFICES ASSUME Next, service = "policy-search", failure = "none",
                      failure' = "worker"
               PROVE  ~cancelled
    OBVIOUS
  <2>1. CASE Start
    BY <2>1 DEF Start, Acquire, FailAcquire, CheckStores, CheckWorkers,
       Compose, Select, Stop, Fail, WorkerStopped, WatchesWorkers
  <2>2. CASE Shutdown
    BY <2>2 DEF Shutdown, Unready, HaltWorkers, AwaitWorkers, CloseWorkers,
       Drain, StopAccepting, AwaitRequests, AwaitHandlers, CloseConnection,
       StopGRPC, CloseListeners, StopManagement, CloseClients,
       ShutdownTelemetry
  <2>3. CASE Beside
    BY <2>3 DEF Beside, Cancel, Expire, BeginProbe, EndProbe, StopWorker,
       FailServe, Accept, Enter, EndCall, Leave
  <2> QED
    BY <2>1, <2>2, <2>3 DEF Next
<1> QED
  BY <1>1, PTL DEF Spec, SearchStopsClean

\* Only dashboard-service can hold a nil worker; a nil pointer is left by a
\* startup that failed; and only a nil pointer makes shutdown panic.
Panics ==
    /\ NilWorker \in held => service = "dashboard"
    /\ held \cap Nil # {} => failure = "startup"
    /\ pc = "panicked" => held \cap Nil # {}

\* A resource that is acquired is not a nil pointer.
LEMMA AcquiredSound ==
    ASSUME IInv
    PROVE  Everything \cap Nil = {}
BY ServiceIs, AcquiredIs, WorkerIs DEF IInv

\* Startup and shutdown keep to Panics.
LEMMA PanicsKept ==
    ASSUME IInv, Panics, [Next]_vars
    PROVE  Panics'
<1> USE DEF Panics
<1>1. CASE Start
  <2>1. /\ Everything \cap Nil = {} /\ service' = service
        /\ held \subseteq Everything
    <3>1. pc \in Stage
      BY <1>1 DEF Start, Acquire, FailAcquire, CheckStores, CheckWorkers,
         Compose, Select, Stop
    <3>2. pc = "startup" => held \subseteq Everything
      <4> SUFFICES ASSUME pc = "startup" PROVE held \subseteq Everything
        OBVIOUS
      <4> QED
        BY NextResource DEF IInv
    <3>3. held \subseteq Everything
      BY <3>1, <3>2, AcquiredSound DEF IInv, Growing
    <3> QED
      BY <1>1, <3>3, AcquiredSound DEF Start, Acquire, FailAcquire,
         CheckStores, CheckWorkers, Compose, Select, Stop
  <2>2. CASE FailAcquire
    <3>1. /\ held' \cap Nil \subseteq LeftBehind(Startup[step + 1])
          /\ failure' = "startup" /\ pc' = "unready"
      BY <2>1, <2>2, ShutdownBegins DEF FailAcquire, Fail
    <3>2. NilWorker \in LeftBehind(Startup[step + 1]) => service = "dashboard"
      BY DEF LeftBehind, KeepsFailedWorker
    <3> QED
      BY <2>1, <3>1, <3>2
  <2>3. CASE Acquire
    <3>1. Startup[step + 1] \in Everything
      BY <2>3, NextResource DEF IInv, Acquire
    <3>2. held' = held \cup {Startup[step + 1]} /\ pc' # "panicked"
      BY <2>3 DEF Acquire
    <3> QED
      BY <2>1, <3>1, <3>2
  <2>4. CASE CheckStores \/ CheckWorkers \/ Compose \/ Select \/ Stop
    <3>1. /\ held' \subseteq held \cup {"business", "management"}
          /\ pc' # "panicked"
      BY <2>4, ShutdownBegins DEF CheckStores, CheckWorkers, Compose, Select,
         Stop, Fail, WorkerStopped
    <3> QED
      BY <2>1, <3>1
  <2> QED
    BY <1>1, <2>2, <2>3, <2>4 DEF Start
<1>2. CASE Shutdown
  <2>1. /\ held' \subseteq held /\ service' = service
        /\ failure' = failure
    BY <1>2 DEF Shutdown, Unready, HaltWorkers, AwaitWorkers, CloseWorkers,
       Drain, StopAccepting, AwaitRequests, AwaitHandlers, CloseConnection,
       StopGRPC, CloseListeners, StopManagement, CloseClients,
       ShutdownTelemetry, Release
  <2>2. pc' = "panicked" => held' \cap Nil # {}
    BY <1>2, Successors DEF Shutdown, Unready, HaltWorkers, AwaitWorkers,
       CloseWorkers, Drain, StopAccepting, AwaitRequests, AwaitHandlers,
       CloseConnection, StopGRPC, CloseListeners, StopManagement,
       CloseClients, ShutdownTelemetry, Goto
  <2> QED
    BY <2>1, <2>2
<1>3. CASE Beside \/ UNCHANGED vars
  BY <1>3 DEF Beside, Cancel, Expire, BeginProbe, EndProbe,
     StopWorker, FailServe, Accept, Enter, EndCall, Leave
<1> QED
  BY <1>1, <1>2, <1>3 DEF Next

\* So it is with every behaviour.
THEOREM PanicsOnNil == Spec => []Panics
<1>1. Init => Panics
  BY DEF Init, Panics
<1>2. IInv /\ Panics /\ [Next]_vars => Panics'
  BY PanicsKept
<1> QED
  BY <1>1, <1>2, LifecycleInvariant, PTL DEF Spec

\* However far startup got and whatever ended it, run returns with nothing
\* held and nothing served: each phase of shutdown has taken its part, and the
\* parts make up all that the service can acquire.  Only a constructor that
\* failed and left a nil pointer keeps it from returning.
THEOREM EverythingReleased == Spec => []Released
<1>1. IInv => (pc = "returned" => held = {} /\ serving = {})
  <2> SUFFICES ASSUME IInv, pc = "returned" PROVE held = {} /\ serving = {}
    OBVIOUS
  <2>1. Everything = Common \cup Worker \cup {"business", "management"}
    BY ServiceIs, AcquiredIs DEF IInv
  <2>2. held \subseteq Everything \cup Nil /\ serving \subseteq Server
    BY DEF IInv, TypeOK
  <2>3. \A x \in Everything \cup Nil : x \notin held
    BY <2>1, WorkerIs DEF IInv, Shrinking
  <2>4. \A s \in Server : s \notin serving
    BY DEF IInv, Shrinking
  <2> QED
    BY <2>2, <2>3, <2>4
<1>2. IInv /\ Panics => Released
  BY <1>1 DEF Panics, Released
<1> QED
  BY <1>2, LifecycleInvariant, PanicsOnNil, PTL

\* policy-search-service survives the failure of its workers' construction:
\* as long as NewServer did not fail, its shutdown never panics and a failed
\* start cleans the projection's client up.  (dashboard-service does not: run
\* lifecycle_bad_worker.)
THEOREM SearchCleansProjection ==
    Spec => [](service = "policy-search" /\ NilServer \notin held
                   => FailureCleansProjection)
<1>1. IInv /\ Panics =>
          (service = "policy-search" /\ NilServer \notin held
               => FailureCleansProjection)
  BY DEF IInv, Panics, Shrinking, FailureCleansProjection, Ended
<1> QED
  BY <1>1, LifecycleInvariant, PanicsOnNil, PTL
=============================================================================
