-------------------------- MODULE ServiceLifecycle --------------------------
(***************************************************************************)
(* run and shutdown of dashboard-service and of policy-search-service: the *)
(* resources are acquired one by one, any step may fail, and every way out *)
(* goes through the same ordered shutdown under two deadlines.  Business   *)
(* handlers, their RPCs, readiness probes, the event workers and the       *)
(* servers run beside it.                                                  *)
(*                                                                         *)
(* The services differ in the order of acquisition, in the number of       *)
(* workers, in what a failed worker construction leaves behind and in what *)
(* the first select watches.  A failed construction of the gRPC server     *)
(* leaves the same in both: a field that is not nil and holds nothing.     *)
(***************************************************************************)
EXTENDS Naturals, Sequences, FiniteSets

CONSTANTS
    Service,  \* the services looked at
    Request   \* bound: business requests

Services == {"dashboard", "policy-search"}

\* Pointers that are nil inside an interface that is not.
NilWorker == "nil worker"
NilServer == "nil server"
Nil == {NilWorker, NilServer}
Server == {"grpc", "business", "management"}

ASSUME ServiceAssumption == Service \subseteq Services

VARIABLE service  \* the service that runs
VARIABLES
    pc,         \* where run is: a startup stage or a phase of shutdown
    step,       \* acquisitions made
    held,       \* what runningService holds and has not released
    failure,    \* the error run joins with those of shutdown
    cancelled,  \* the context of run
    deadline    \* the graceful budget is spent
VARIABLES
    working,    \* workers inside Run
    stopped,    \* workers whose result is in the channel
    halting,    \* workerCancel was called
    serving,    \* servers inside Serve
    results,    \* servers whose result is in its channel
    ready,      \* State.ready
    probe,      \* the readiness probe under way, or its answer
    draining,   \* handlerTracker.draining
    request,    \* business requests
    calls       \* requests whose RPC is inside the gRPC server

runVars == <<pc, step, held, failure, cancelled, deadline>>
workerVars == <<working, stopped, halting>>
serverVars == <<serving, results, ready, probe>>
requestVars == <<draining, request, calls>>
vars == <<service, runVars, workerVars, serverVars, requestVars>>

\* Acquisition in dashboard-service and in policy-search-service.
DashboardStartup ==
    <<"provider", "projection", "registered", "search", "grpcServer",
      "grpcListener", "businessListener", "managementListener", "connection">>
SearchStartup ==
    <<"provider", "search", "projection", "registered", "terminated",
      "grpcServer", "grpcListener", "businessListener", "managementListener",
      "connection">>

Startup ==
    IF service = "dashboard" THEN DashboardStartup ELSE SearchStartup

\* The event workers of the service.
Worker == IF service = "dashboard" THEN {"registered"}
                                   ELSE {"registered", "terminated"}
\* A failed NewWorker leaves a nil pointer in runtime.worker.
KeepsFailedWorker == service = "dashboard"
\* The select of startup receives worker results.
WatchesWorkers == service = "dashboard"

Acquired == {Startup[i] : i \in 1 .. Len(Startup)}
Everything == Acquired \cup {"business", "management"}

Stage == {"startup", "checking", "assigning", "composing", "selecting",
          "serving"}

\* Mutant: the connection closes before the handlers are done.
MutantOrder ==
    <<"unready", "await workers", "close workers", "drain", "close connection",
      "stop accepting", "await requests", "await handlers", "stop grpc",
      "close listeners", "stop management", "close clients", "telemetry">>

\* The steps of shutdown.
ShutdownOrder ==
    <<"unready", "await workers", "close workers", "drain", "stop accepting",
      "await requests", "await handlers", "close connection", "stop grpc",
      "close listeners", "stop management", "close clients", "telemetry">>

Phase == {ShutdownOrder[i] : i \in 1 .. Len(ShutdownOrder)}

\* The phase after phase ph.
After(ph) ==
    LET i == CHOOSE i \in 1 .. Len(ShutdownOrder) : ShutdownOrder[i] = ph
    IN  IF i = Len(ShutdownOrder) THEN "returned" ELSE ShutdownOrder[i + 1]

Init ==
    /\ service \in Service
    /\ pc = "startup" /\ step = 0 /\ held = {} /\ failure = "none"
    /\ cancelled = FALSE /\ deadline = FALSE
    /\ working = {} /\ stopped = {} /\ halting = FALSE
    /\ serving = {} /\ results = {} /\ ready = FALSE /\ probe = "idle"
    /\ draining = FALSE /\ request = [r \in Request |-> "none"] /\ calls = {}

-----------------------------------------------------------------------------
(* Startup.                                                                *)

\* Mutants: an error that is returned without the shutdown of fail; an error
\* that is replaced by the context's.
MutantFail(kind) == failure' = kind /\ pc' = "returned"
MutantFailContext(kind) ==
    /\ failure' = IF cancelled THEN "context canceled" ELSE kind
    /\ pc' = ShutdownOrder[1]

\* fail: remember the error and shut down what there is.
Fail(kind) == failure' = kind /\ pc' = ShutdownOrder[1]

\* The next resource is acquired.  The gRPC server serves from the moment the
\* listeners are there.
Acquire ==
    /\ pc = "startup"
    /\ LET resource == Startup[step + 1]
       IN  /\ held' = held \cup {resource}
           /\ serving' = IF resource = "managementListener"
                         THEN serving \cup {"grpc"} ELSE serving
    /\ step' = step + 1
    /\ pc' = IF step' = Len(Startup) THEN "checking" ELSE pc
    /\ UNCHANGED <<service, failure, cancelled, deadline, workerVars, results,
                   ready, probe, requestVars>>

\* What the constructor of a resource leaves in the runtime when it fails: the
\* result of NewServer, and in dashboard-service that of NewWorker, is stored
\* before its error is looked at.
LeftBehind(resource) ==
    {nil \in Nil :
        \/ nil = NilServer /\ resource = "grpcServer"
        \/ nil = NilWorker /\ resource \in Worker /\ KeepsFailedWorker}

\* The next resource cannot be acquired: its constructor fails, or before it
\* one of dashboard-service's use cases, files or observers does.
FailAcquire ==
    /\ pc = "startup"
    /\ \/ held' = held \cup LeftBehind(Startup[step + 1])
       \/ service = "dashboard" /\ UNCHANGED held
    /\ Fail("startup")
    /\ UNCHANGED <<service, step, cancelled, deadline, workerVars, serverVars,
                   requestVars>>

\* The connection gets ready and the stores answer; then the workers start.
CheckStores ==
    /\ pc = "checking"
    /\ \/ /\ ~cancelled
          /\ working' = held \cap Worker
          /\ pc' = "assigning"
          /\ UNCHANGED failure
       \/ Fail("startup") /\ UNCHANGED working
    /\ UNCHANGED <<service, step, held, cancelled, deadline, stopped, halting,
                   serverVars, requestVars>>

\* Every worker has its assignment before the probe timeout, or not.
CheckWorkers ==
    /\ pc = "assigning"
    /\ \/ ~cancelled /\ pc' = "composing" /\ UNCHANGED failure
       \/ Fail("startup")
    /\ UNCHANGED <<service, step, held, cancelled, deadline, workerVars,
                   serverVars, requestVars>>

\* Health state, gateway and servers are built, and the servers go.
Compose ==
    /\ pc = "composing"
    /\ \/ /\ held' = held \cup {"business", "management"}
          /\ serving' = serving \cup {"business", "management"}
          /\ pc' = "selecting"
          /\ UNCHANGED failure
       \/ Fail("startup") /\ UNCHANGED <<held, serving>>
    /\ UNCHANGED <<service, step, cancelled, deadline, workerVars, results,
                   ready, probe, requestVars>>

\* The first select: a result that is already there, or ready.
Select ==
    /\ pc = "selecting"
    /\ \/ results # {} /\ Fail("server") /\ UNCHANGED ready
       \/ /\ WatchesWorkers /\ stopped # {}
          /\ Fail("worker") /\ UNCHANGED ready
       \/ /\ results = {} /\ (WatchesWorkers => stopped = {})
          /\ ready' = TRUE /\ pc' = "serving" /\ UNCHANGED failure
    /\ UNCHANGED <<service, step, held, cancelled, deadline, workerVars,
                   serving, results, probe, requestVars>>

\* Mutant: a stopped worker is an error even after cancellation.
MutantWorkerStopped == Fail("worker")

\* A worker's result is an error only while the context lives.
WorkerStopped ==
    IF cancelled THEN pc' = ShutdownOrder[1] /\ UNCHANGED failure
                 ELSE Fail("worker")

\* The second select takes any of the events that have happened.
Stop ==
    /\ pc = "serving"
    /\ \/ cancelled /\ pc' = ShutdownOrder[1] /\ UNCHANGED failure
       \/ results # {} /\ Fail("server")
       \/ stopped # {} /\ WorkerStopped
    /\ UNCHANGED <<service, step, held, cancelled, deadline, workerVars,
                   serverVars, requestVars>>

-----------------------------------------------------------------------------
(* Shutdown.                                                               *)

Release(resources) == held' = held \ resources
Goto(ph) == pc = ph /\ pc' = After(ph)

Unready ==
    /\ Goto("unready")
    /\ ready' = FALSE
    /\ UNCHANGED <<service, step, held, failure, cancelled, deadline,
                   workerVars, serving, results, probe, requestVars>>

\* workerCancel, and the wait for Run to return.
HaltWorkers ==
    /\ pc = "await workers" /\ ~halting /\ working \cup stopped # {}
    /\ halting' = TRUE
    /\ UNCHANGED <<service, runVars, working, stopped, serverVars,
                   requestVars>>

\* Mutant: waits for the workers without a deadline.
MutantWorkersGone == working = {}
WorkersGone == working = {} \/ deadline

AwaitWorkers ==
    /\ working \cup stopped # {} => halting
    /\ WorkersGone
    /\ Goto("await workers")
    /\ UNCHANGED <<service, step, held, failure, cancelled, deadline,
                   workerVars, serverVars, requestVars>>

\* Shutdown of each worker; a method of a nil worker panics.
CloseWorkers ==
    /\ \/ NilWorker \notin held /\ Goto("close workers") /\ Release(Worker)
       \/ /\ pc = "close workers" /\ NilWorker \in held
          /\ pc' = "panicked" /\ UNCHANGED held
    /\ UNCHANGED <<service, step, failure, cancelled, deadline, workerVars,
                   serverVars, requestVars>>

Drain ==
    /\ Goto("drain")
    /\ draining' = TRUE
    /\ UNCHANGED <<service, step, held, failure, cancelled, deadline,
                   workerVars, serverVars, request, calls>>

\* http.Server.Shutdown closes the business listener, then waits for the
\* requests on its connections; out of time, Close drops the connections.
StopAccepting ==
    /\ Goto("stop accepting")
    /\ serving' = serving \ {"business"}
    /\ UNCHANGED <<service, step, held, failure, cancelled, deadline,
                   workerVars, results, ready, probe, requestVars>>

AwaitRequests ==
    /\ deadline \/ \A r \in Request : request[r] \in {"none", "ended"}
    /\ Goto("await requests")
    /\ Release({"business"})
    /\ UNCHANGED <<service, step, failure, cancelled, deadline, workerVars,
                   serverVars, requestVars>>

\* tracker.wait.
AwaitHandlers ==
    /\ deadline \/ \A r \in Request : request[r] # "active"
    /\ Goto("await handlers")
    /\ UNCHANGED <<service, step, held, failure, cancelled, deadline,
                   workerVars, serverVars, requestVars>>

CloseConnection ==
    /\ Goto("close connection")
    /\ Release({"connection"})
    /\ UNCHANGED <<service, step, failure, cancelled, deadline, workerVars,
                   serverVars, requestVars>>

\* GracefulStop waits for the RPCs, Stop does not; of a nil server each
\* panics.
StopGRPC ==
    /\ \/ /\ NilServer \notin held
          /\ deadline \/ calls = {}
          /\ Goto("stop grpc")
          /\ Release({"grpcServer"})
          /\ serving' = serving \ {"grpc"}
       \/ /\ pc = "stop grpc" /\ NilServer \in held
          /\ pc' = "panicked" /\ UNCHANGED <<held, serving>>
    /\ UNCHANGED <<service, step, failure, cancelled, deadline, workerVars,
                   results, ready, probe, requestVars>>

CloseListeners ==
    /\ Goto("close listeners")
    /\ Release({"businessListener", "grpcListener"})
    /\ UNCHANGED <<service, step, failure, cancelled, deadline, workerVars,
                   serverVars, requestVars>>

\* Management goes last, so that probes see "not ready" during the drain.
StopManagement ==
    /\ deadline \/ probe # "checking"
    /\ Goto("stop management")
    /\ Release({"management", "managementListener"})
    /\ serving' = serving \ {"management"}
    /\ UNCHANGED <<service, step, failure, cancelled, deadline, workerVars,
                   results, ready, probe, requestVars>>

CloseClients ==
    /\ Goto("close clients")
    /\ Release({"search", "projection"})
    /\ UNCHANGED <<service, step, failure, cancelled, deadline, workerVars,
                   serverVars, requestVars>>

\* The provider has the rest of the overall budget, and run returns.
ShutdownTelemetry ==
    /\ Goto("telemetry")
    /\ Release({"provider"})
    /\ UNCHANGED <<service, step, failure, cancelled, deadline, workerVars,
                   serverVars, requestVars>>

-----------------------------------------------------------------------------
(* What runs beside run.                                                   *)

Cancel ==
    /\ ~cancelled /\ pc \in Stage
    /\ cancelled' = TRUE
    /\ UNCHANGED <<service, pc, step, held, failure, deadline, workerVars,
                   serverVars, requestVars>>

Expire ==
    /\ pc \in Phase /\ ~deadline
    /\ deadline' = TRUE
    /\ UNCHANGED <<service, pc, step, held, failure, cancelled, workerVars,
                   serverVars, requestVars>>

\* Run returns only when its context ends, and not while a write hangs.
StopWorker(w) ==
    /\ w \in working /\ (cancelled \/ halting)
    /\ working' = working \ {w}
    /\ stopped' = stopped \cup {w}
    /\ UNCHANGED <<service, runVars, halting, serverVars, requestVars>>

FailServe(s) ==
    /\ s \in serving /\ s \notin results /\ pc \in Stage
    /\ serving' = serving \ {s}
    /\ results' = results \cup {s}
    /\ UNCHANGED <<service, runVars, workerVars, ready, probe, requestVars>>

\* checkReady looks at the flag, checks the dependencies, looks again.
BeginProbe ==
    /\ "management" \in serving /\ ready /\ probe # "checking"
    /\ probe' = "checking"
    /\ UNCHANGED <<service, runVars, workerVars, serving, results, ready,
                   requestVars>>

\* Mutant: the flag is not looked at again.
MutantStillReady == TRUE
StillReady == ready

\* The last look at the flag and the answer are one step here: a withdrawal
\* between the two (health.go, checkReady and its caller) is not told apart
\* from one right after the answer.
EndProbe ==
    /\ probe = "checking"
    /\ \/ probe' = "not ready"
       \/ "connection" \in held /\ StillReady /\ probe' = "ready"
    /\ UNCHANGED <<service, runVars, workerVars, serving, results, ready,
                   requestVars>>

\* A connection is accepted, its handler has not reached the tracker.
Accept(r) ==
    /\ request[r] = "none" /\ "business" \in serving
    /\ request' = [request EXCEPT ![r] = "accepted"]
    /\ UNCHANGED <<service, runVars, workerVars, serverVars, draining, calls>>

\* Mutant: no look at draining.
MutantAdmits == TRUE
Admits == ~draining

\* ServeHTTP of the tracker: under its lock, in or turned away.
Enter(r) ==
    /\ request[r] = "accepted"
    /\ IF Admits THEN /\ request' = [request EXCEPT ![r] = "active"]
                      /\ calls' = IF "connection" \in held
                                  THEN calls \cup {r} ELSE calls
                 ELSE /\ request' = [request EXCEPT ![r] = "ended"]
                      /\ UNCHANGED calls
    /\ UNCHANGED <<service, runVars, workerVars, serverVars, draining>>

EndCall(r) ==
    /\ r \in calls
    /\ calls' = calls \ {r}
    /\ UNCHANGED <<service, runVars, workerVars, serverVars, draining,
                   request>>

\* The handler returns with its RPC, or because the connection went away.
Leave(r) ==
    /\ request[r] = "active"
    /\ r \notin calls \/ "connection" \notin held
    /\ request' = [request EXCEPT ![r] = "ended"]
    /\ UNCHANGED <<service, runVars, workerVars, serverVars, draining, calls>>

-----------------------------------------------------------------------------

Start == Acquire \/ FailAcquire \/ CheckStores \/ CheckWorkers \/ Compose
         \/ Select \/ Stop
Shutdown == Unready \/ HaltWorkers \/ AwaitWorkers \/ CloseWorkers \/ Drain
            \/ StopAccepting \/ AwaitRequests \/ AwaitHandlers
            \/ CloseConnection \/ StopGRPC \/ CloseListeners
            \/ StopManagement \/ CloseClients \/ ShutdownTelemetry

Beside ==
    \/ Cancel \/ Expire \/ BeginProbe \/ EndProbe
    \/ \E w \in Worker : StopWorker(w)
    \/ \E s \in Server : FailServe(s)
    \/ \E r \in Request : Accept(r) \/ Enter(r) \/ EndCall(r) \/ Leave(r)

Next == Start \/ Shutdown \/ Beside

Spec == Init /\ [][Next]_vars
-----------------------------------------------------------------------------
(* Properties.                                                             *)

TypeOK ==
    /\ service \in Service
    /\ pc \in Stage \cup Phase \cup {"returned", "panicked"}
    /\ step \in 0 .. Len(Startup)
    /\ held \subseteq Everything \cup Nil
    /\ failure \in {"none", "startup", "server", "worker"}
    /\ cancelled \in BOOLEAN /\ deadline \in BOOLEAN
    /\ halting \in BOOLEAN /\ ready \in BOOLEAN /\ draining \in BOOLEAN
    /\ working \subseteq Worker
    /\ stopped \subseteq Worker
    /\ serving \subseteq Server
    /\ results \subseteq Server
    /\ probe \in {"idle", "checking", "ready", "not ready"}
    /\ request \in [Request -> {"none", "accepted", "active", "ended"}]
    /\ calls \subseteq Request

Ended == pc \in {"returned", "panicked"}

\* However far startup got and whatever ended it, nothing that was acquired
\* is left when run returns.  It does return, unless a constructor failed and
\* left a nil pointer for shutdown to call.
Released ==
    /\ pc = "returned" => held = {} /\ serving = {}
    /\ pc = "panicked" => failure = "startup" /\ held \cap Nil # {}

\* Until the graceful budget is spent, nobody loses what they use: handlers
\* their connection, RPCs their server and reader, workers their writer.
NoUseAfterRelease ==
    ~deadline /\ pc # "panicked" =>
        /\ (\E r \in Request : request[r] = "active") => "connection" \in held
        /\ calls # {} => {"grpcServer", "search"} \subseteq held
        /\ working # {} => "projection" \in held

\* Even out of time, a handler that is let in finds what it needs: none
\* slips in behind the drain.
NoLateAdmission ==
    [][\A r \in Request :
          request[r] = "accepted" /\ request'[r] = "active" =>
              {"connection", "grpcServer", "search"} \subseteq held]_vars

\* A probe that began in time still answers "ready" only while everything is
\* up: not before the last server is there, not once shutdown took a step.
ReadyMeansServing ==
    [][probe = "checking" /\ probe' = "ready" =>
          held = Everything /\ ~halting /\ ~draining]_vars

\* A worker that stops because run was cancelled is not a serving error.
CleanStop ==
    [][failure = "none" /\ failure' = "worker" => ~cancelled]_vars
\* The same of policy-search-service, whose first select ignores the workers.
SearchStopsClean ==
    [][service = "policy-search" /\ failure = "none" /\ failure' = "worker" =>
          ~cancelled]_vars

\* A failed start cleans the projection's client up and run returns the
\* failure.
FailureCleansProjection ==
    failure = "startup" /\ Ended => pc = "returned" /\ "projection" \notin held

(* run goes on with its own steps and timers fire.  Workers, handlers, RPCs  *)
(* and probes may hang, cancellation and failures need not come.             *)
FairSpec ==
    Spec /\ WF_vars(Start) /\ WF_vars(Shutdown) /\ WF_vars(Expire)

\* Whatever hangs, a service that is cancelled or has failed ends.
Stops == cancelled \/ results # {} \/ failure # "none" ~> Ended
=============================================================================
