------------------------ MODULE DisposableDeployment ------------------------
(***************************************************************************)
(* The three acceptance scripts that deploy a Go service to a namespace of *)
(* their own in the local Kind cluster, disturb it and remove it again:    *)
(*   dashboard      dashboard-service/scripts/disposable_deployment.py     *)
(*   policy-search  policy-search-service/scripts/disposable_deployment.py *)
(*   product        product-service/scripts/deployment_lifecycle.py        *)
(*                                                                         *)
(* A script is a sequence of steps: calls, checks that must hold at once   *)
(* and waits that give up at their deadline.  Everything that it observes  *)
(* of the service goes through objects that controllers update behind it:  *)
(* the Deployment's status and the EndpointSlice.  A step may fail before  *)
(* or after its effect (a call whose answer is lost, a wait at its         *)
(* deadline) and Ctrl-C may come during it; both lead to the finally       *)
(* block.  SIGKILL ends the script without it, and SIGTERM as well, unless *)
(* the script is the product's, which has a handler for both signals.      *)
(*                                                                         *)
(* Images, manifests and probe Pods are reduced to what the script asks of *)
(* the service: serving, with or without its event worker.  The product's  *)
(* store is a PostgreSQL cluster behind a Service of the script's own, its *)
(* gate; its second template carries a new annotation and nothing else.    *)
(***************************************************************************)
EXTENDS Integers, Sequences, FiniteSets, SequencesExt

CONSTANTS MaxFaults,   \* bound: steps that fail, or are interrupted
          MaxKills,    \* bound: scripts that a signal ends
          MaxPods      \* bound: application Pods created

VARIABLES world,  \* the cluster and the local container images
          run     \* the script under way

vars == <<world, run>>

Pod == 1 .. MaxPods

-----------------------------------------------------------------------------
(* The dashboard's run().                                                  *)
DashboardCreate ==
    <<"load images", "create namespace", "own", "apply">>
SetupElastic == <<"elastic rollout", "elastic setup">>
DashboardQueries ==
    <<"app rollout", "endpoint ready", "denied by elastic", "query", "query",
      "identity", "query">>
SetupKafka ==
    <<"certificates", "kafka apply", "kafka rollout", "kafka ready",
      "kafka topic">>
(* One registration, through the deployed worker.                          *)
Projection == <<"produce", "projection", "query">>
DashboardEvents ==
    SetupKafka
        \o <<"kafka tls", "permitted by elastic", "apply events",
             "app rollout", "endpoint ready">>
        \o Projection
DashboardLoss ==
    <<"pick pod", "elastic stop", "endpoint withdrawn", "unready pod",
      "elastic start">> \o SetupElastic \o <<"endpoint ready">>
DashboardRestart ==
    <<"pick pod", "delete pod", "app rollout", "endpoint ready">>
DashboardScript ==
    DashboardCreate \o SetupElastic \o DashboardQueries
        \o DashboardEvents \o DashboardLoss \o DashboardRestart

(* The policy-search's main().                                             *)
BuildProbe == <<"build image", "load images", "own image">>
SearchSetupElastic ==
    <<"elastic apply", "elastic rollout", "elastic serving", "elastic setup">>
SearchSetupKafka ==
    <<"certificates", "kafka apply", "kafka rollout", "kafka ready",
      "kafka topic">>
SearchProjection == <<"produce", "projection", "query">>
SearchDeploy ==
    <<"apply events", "app rollout", "endpoint now", "query">>
        \o SearchProjection
MutantSearchLoss ==
    <<"note restarts", "kill elastic", "one pod", "elastic restarted",
      "endpoint ready">>
SearchLoss ==
    <<"note restarts", "kill elastic", "endpoint withdrawn", "one pod",
      "elastic restarted", "endpoint ready">>
MutantSearchRestart == <<"pick pod", "delete pod", "app rollout">>
SearchRestart ==
    <<"pick pod", "delete pod", "pod gone", "app rollout", "query">>
SearchRestore ==
    <<"scale to zero", "endpoint withdrawn", "apply events", "app rollout",
      "endpoint now">>
SearchScript ==
    BuildProbe \o <<"own", "create namespace">> \o SearchSetupElastic
        \o SearchSetupKafka \o SearchDeploy \o SearchLoss \o SearchRestart
        \o SearchRestore

(* The product's main() and run_scenarios().                               *)
ProductCreate == <<"load images", "own", "create namespace">>
ProductStore == <<"elastic apply", "elastic serving", "roles">>
(* Pods that must not start.                                               *)
FailsClosed ==
    <<"missing config", "absent schema", "create table", "absent grant",
      "grant", "invalid credential", "unavailable store">>
ProductDeploy ==
    <<"open gate", "gate ready", "apply product", "app available",
      "endpoint ready", "one pod", "empty list", "seed", "query">>
(* One Pod stays for 35 s of outage: the check that the loop repeats.      *)
ProductOutage ==
    <<"close gate", "gate withdrawn", "end connections",
      "endpoint withdrawn", "one pod", "open gate", "endpoint ready">>
ProductRollout == <<"annotate", "one pod available">>
ProductDrain ==
    <<"reads in flight", "delete pod", "not accepting", "reads drained",
      "pod gone", "endpoint ready", "app available", "one pod">>
ProductReplacement ==
    <<"pick pod", "delete pod", "pod gone", "endpoint ready",
      "app available", "another pod", "unchanged">>
ProductScript ==
    ProductCreate \o ProductStore \o FailsClosed \o ProductDeploy
        \o ProductOutage \o ProductRollout \o ProductDrain
        \o ProductReplacement

(* The finally blocks; the product's outage has one of its own.            *)
ProductCleanup(closed) ==
    (IF closed THEN <<"open gate">> ELSE <<>>)
        \o <<"find owner", "delete namespace", "namespace gone">>
DashboardCleanup == <<"delete namespace", "namespace gone">>
MutantSearchCleanup(owns, probe) ==
    IF probe THEN <<"remove image">> ELSE <<>>
SearchCleanup(owns, probe) ==
    (IF owns THEN <<"delete namespace", "namespace gone">> ELSE <<>>)
        \o (IF probe THEN <<"remove image">> ELSE <<>>)

-----------------------------------------------------------------------------
Live(w) == {p \in Pod : w.pods[p] \in {"starting", "ready", "unready"}}
Existing(w) == {p \in Pod : w.pods[p] # "absent"}
ReadyPods(w) == {p \in Pod : w.pods[p] = "ready"}

(* kubectl rollout status: the controller has seen this generation, and    *)
(* says that its replicas are updated and available.                       *)
RolledOut(w) == w.observed = w.generation /\ w.available

EndpointCount(w) == Cardinality(w.slice)

(* A helper Pod asks the service, through the addresses of the slice, for  *)
(* something that it has to read from Elasticsearch.                       *)
Answers(w) ==
    /\ w.slice \cap ReadyPods(w) # {}
    /\ w.elastic = "serving" /\ w.data
(* Through a forward, the products that the store has: none, or all.       *)
EmptyList(w) == w.slice \cap ReadyPods(w) # {} /\ w.elastic = "serving"
CatalogRead(w) == EmptyList(w) /\ w.table = "seeded"
(* The same of one Pod's address, while Elasticsearch is away: /readyz and *)
(* the queries say 503, /livez 200.                                        *)
Unready(w, p) ==
    w.pods[p] \in {"unready", "terminating"} /\ w.elastic # "serving"

(* The roles allow and deny what they should.                              *)
Denied(w) == w.elastic = "serving" /\ w.data
Permitted(w) == w.elastic = "serving" /\ w.data
(* The first Pod of the list runs the expected image and version.          *)
Identified(w) == Existing(w) # {}
(* Elasticsearch takes the index, the roles and the documents; the service *)
(* that is asked to create what exists says no.                            *)
Installable(w) == w.elastic = "serving" /\ ~w.data
(* The listener answers with the certificate of the CA that was created.   *)
Trusted(w) == w.kafka = "serving" /\ w.certified

(* A product Pod with an error put in stops at its start.                  *)
Stops(w, error) ==
    CASE error = "absent schema" -> w.table = "absent"
      [] error = "absent grant" -> w.table = "created"
      [] OTHER -> TRUE
(* /readyz of the Pod that the reads were forwarded to; its answers.       *)
NotAccepting(w, r) == w.pods[r.reading] # "ready"
Drained(w, r) == w.pods[r.reading] # "absent"

(* What a step needs to hold.  A call or a check fails at once when it     *)
(* does not; a wait polls until it holds or its deadline has come.         *)
Holds(w, r, s) ==
    CASE s = "elastic rollout" -> w.elastic \in {"listening", "serving"}
      [] s = "elastic serving" -> w.elastic = "serving"
      [] s = "elastic setup" -> Installable(w)
      [] s = "elastic restarted" -> w.restarts > r.restarts
      [] s = "app rollout" -> RolledOut(w)
      [] s \in {"roles", "create table", "grant", "seed", "unchanged"} ->
            w.elastic = "serving"
      [] s \in {"missing config", "absent schema", "absent grant",
                "invalid credential", "unavailable store"} -> Stops(w, s)
      [] s = "gate ready" -> w.gate = "open" /\ w.elastic = "serving"
      [] s = "gate withdrawn" -> w.gate = "closed"
      [] s = "empty list" -> EmptyList(w)
      [] s = "app available" -> w.available
      [] s = "one pod available" ->
            w.available /\ Cardinality(Existing(w)) = 1
      [] s = "reads in flight" -> ReadyPods(w) # {}
      [] s = "not accepting" -> NotAccepting(w, r)
      [] s = "reads drained" -> Drained(w, r)
      [] s = "another pod" ->
            Cardinality(Existing(w)) = 1 /\ w.pods[r.pod] = "absent"
      [] s = "find owner" -> w.namespace # "absent"
      [] s \in {"endpoint ready", "endpoint now"} -> EndpointCount(w) = 1
      [] s = "endpoint withdrawn" -> EndpointCount(w) = 0
      [] s = "denied by elastic" -> Denied(w)
      [] s = "permitted by elastic" -> Permitted(w)
      [] s = "query" ->
            IF r.service = "product" THEN CatalogRead(w) ELSE Answers(w)
      [] s = "identity" -> Identified(w)
      [] s = "kafka apply" -> w.certified
      [] s = "kafka rollout" -> w.kafka \in {"listening", "serving"}
      [] s = "kafka tls" -> Trusted(w)
      [] s \in {"kafka ready", "kafka topic", "produce"} -> w.kafka = "serving"
      [] s = "projection" -> w.projected
      [] s = "pick pod" -> Existing(w) # {}
      [] s = "unready pod" -> Unready(w, r.pod)
      [] s = "one pod" -> Cardinality(Existing(w)) = 1
      [] s = "pod gone" -> w.pods[r.pod] = "absent"
      [] s = "namespace gone" -> w.namespace = "absent"
      [] OTHER -> TRUE

(* The objects that the manifests describe, as the cluster starts them.    *)
ElasticStarting(w) == [w EXCEPT !.elastic = "starting", !.data = FALSE]
SearchElasticStarting(w) == [w EXCEPT !.elastic = "starting", !.data = FALSE]
Certified(w) == [w EXCEPT !.certified = TRUE]
KafkaStarting(w) == [w EXCEPT !.kafka = "starting"]
Applied(w, events) ==
    IF w.template = events /\ w.replicas = 1 THEN w
    ELSE [w EXCEPT !.template = events, !.replicas = 1, !.generation = @ + 1]

Effect(w, r, s) ==
    CASE s = "create namespace" -> [w EXCEPT !.namespace = "present"]
      [] s = "apply" -> Applied(ElasticStarting(w), FALSE)
      [] s = "apply events" -> Applied(w, TRUE)
      [] s = "elastic apply" -> SearchElasticStarting(w)
      [] s = "elastic start" -> ElasticStarting(w)
      [] s = "elastic stop" -> [w EXCEPT !.elastic = "absent", !.data = FALSE]
      [] s = "apply product" -> Applied(w, FALSE)
      [] s = "annotate" -> Applied(w, TRUE)
      [] s = "create table" -> [w EXCEPT !.table = "created"]
      [] s = "grant" -> [w EXCEPT !.table = "granted"]
      [] s = "seed" -> [w EXCEPT !.table = "seeded"]
      [] s = "open gate" -> [w EXCEPT !.gate = "open", !.reached = TRUE]
      [] s = "close gate" -> [w EXCEPT !.gate = "closed"]
      [] s = "end connections" -> [w EXCEPT !.reached = FALSE]
      [] s = "kill elastic" -> [w EXCEPT !.elastic = "down"]
      [] s = "elastic setup" -> [w EXCEPT !.data = TRUE]
      [] s = "certificates" -> Certified(w)
      [] s = "kafka apply" -> KafkaStarting(w)
      [] s = "kafka topic" -> [w EXCEPT !.topic = TRUE]
      [] s = "produce" -> [w EXCEPT !.produced = TRUE]
      [] s = "delete pod" ->
            [w EXCEPT !.pods[r.pod] = IF @ = "absent" THEN @ ELSE "terminating"]
      [] s = "scale to zero" ->
            [w EXCEPT !.replicas = 0, !.generation = @ + 1]
      [] s = "build image" -> [w EXCEPT !.image = TRUE]
      [] s = "remove image" -> [w EXCEPT !.image = FALSE]
      [] s = "delete namespace" ->
            [w EXCEPT !.namespace = IF @ = "absent" THEN @ ELSE "terminating"]
      [] OTHER -> w

(* Local variables of the script; items[0] may be any Pod that still       *)
(* exists.                                                                 *)
Learns(w, r, s) ==
    CASE s = "own" -> {[r EXCEPT !.owns = TRUE]}
      [] s = "own image" -> {[r EXCEPT !.probe = TRUE]}
      [] s = "note restarts" -> {[r EXCEPT !.restarts = w.restarts]}
      [] s = "pick pod" -> {[r EXCEPT !.pod = p] : p \in Existing(w)}
      [] s = "one pod available" -> {[r EXCEPT !.pod = p] : p \in Existing(w)}
      [] s = "reads in flight" ->
            {[r EXCEPT !.reading = p] : p \in ReadyPods(w)}
      [] s = "delete pod" -> {[r EXCEPT !.deleted = r.pod]}
      [] s = "close gate" -> {[r EXCEPT !.closed = TRUE]}
      [] s = "open gate" -> {[r EXCEPT !.closed = FALSE]}
      [] OTHER -> {r}

-----------------------------------------------------------------------------
Running == run.phase # "ended"

Cleanup(r) ==
    CASE r.service = "policy-search" -> SearchCleanup(r.owns, r.probe)
      [] r.service = "product" /\ r.owns -> ProductCleanup(r.closed)
      [] r.service = "dashboard" /\ r.owns -> DashboardCleanup
      [] OTHER -> <<>>

Ends(r, verdict) ==
    [r EXCEPT !.phase = "ended", !.verdict = verdict, !.todo = <<>>]

(* The body ended with the verdict: the finally block follows.             *)
Cleaning(r, verdict) ==
    IF Cleanup(r) = <<>> THEN Ends(r, verdict)
    ELSE [r EXCEPT !.phase = "cleanup", !.verdict = verdict,
                   !.todo = Cleanup(r)]
Advanced(r) ==
    IF Len(r.todo) > 1 THEN [r EXCEPT !.todo = Tail(@)]
    ELSE IF r.phase = "body" THEN Cleaning(r, "passed")
    ELSE Ends(r, r.verdict)

(* An exception in the cleanup ends the script; the policy-search goes on  *)
(* from a failed deletion to the image and then reports what is left, the  *)
(* product from its inner finally block to the outer one, which does       *)
(* nothing when no namespace is found.                                     *)
Raised(r) ==
    IF Head(r.todo) = "open gate"
    THEN Cleaning([r EXCEPT !.closed = FALSE], "failed")
    ELSE IF r.phase = "body" THEN Cleaning(r, "failed")
    ELSE IF Head(r.todo) = "find owner" /\ world.namespace = "absent"
    THEN Ends(r, r.verdict)
    ELSE IF /\ r.service = "policy-search" /\ Last(r.todo) = "remove image"
            /\ Len(r.todo) > 1
    THEN [r EXCEPT !.todo = <<"remove image">>, !.verdict = "left over"]
    ELSE Ends(r, "left over")

Step ==
    LET s == Head(run.todo)
    IN /\ Running /\ Holds(world, run, s)
       /\ world' = Effect(world, run, s)
       /\ \E r \in Learns(world, run, s) : run' = Advanced(r)

(* A check that does not hold; a wait that has come to its deadline.       *)
Refuse ==
    /\ Running /\ ~Holds(world, run, Head(run.todo))
    /\ run' = Raised(run)
    /\ UNCHANGED world

(* A call fails, before or after the server took it; Ctrl-C ends it, and   *)
(* in the cleanup the script.  (The kill of Elasticsearch fails only by    *)
(* its time limit or Ctrl-C: its answer is not looked at.)                 *)
Fail ==
    LET s == Head(run.todo)
        r == [run EXCEPT !.faults = @ + 1]
    IN /\ Running /\ run.faults < MaxFaults /\ Holds(world, run, s)
       /\ world' \in {world, Effect(world, run, s)}
       /\ run' \in {Raised(r)} \cup
             (IF r.phase = "cleanup" /\ r.service # "product"
              THEN {Ends(r, "left over")} ELSE {})

Kill ==
    /\ Running /\ run.kills < MaxKills
    /\ run' = [Ends(run, "killed") EXCEPT !.kills = @ + 1]
    /\ UNCHANGED world

-----------------------------------------------------------------------------
(* The kubelet and the controllers, each in its own time.                  *)
There == world.namespace = "present"

StartElastic ==
    /\ There
    /\ CASE world.elastic = "down" ->
               world' = [world EXCEPT !.elastic = "starting", !.restarts = 1]
         [] world.elastic = "starting" ->
               world' = [world EXCEPT !.elastic = "listening"]
         [] OTHER -> /\ world.elastic = "listening"
                     /\ world' = [world EXCEPT !.elastic = "serving"]
    /\ UNCHANGED run

StartKafka ==
    /\ There
    /\ \/ /\ world.kafka = "starting"
          /\ world' = [world EXCEPT !.kafka = "listening"]
       \/ /\ world.kafka = "listening"
          /\ world' = [world EXCEPT !.kafka = "serving"]
    /\ UNCHANGED run

(* RollingUpdate with maxSurge 1 and maxUnavailable 0.                     *)
CreatePod ==
    /\ There /\ world.replicas = 1 /\ world.created < MaxPods
    /\ \A p \in Live(world) : world.events[p] # world.template
    /\ LET p == world.created + 1
       IN world' = [world EXCEPT !.created = p, !.pods[p] = "starting",
                                 !.events[p] = world.template]
    /\ UNCHANGED run

RetirePod(p) ==
    /\ There /\ p \in Live(world)
    /\ \/ world.replicas = 0
       \/ /\ world.events[p] # world.template
          /\ \E q \in ReadyPods(world) : world.events[q] = world.template
    /\ world' = [world EXCEPT !.pods[p] = "terminating"]
    /\ UNCHANGED run

(* Readiness: an authenticated ping, and the worker's partitions.          *)
Healthy(w, p) ==
    IF run.service = "product"
    THEN w.elastic = "serving" /\ w.reached /\ w.table \in {"granted", "seeded"}
    ELSE /\ w.elastic = "serving" /\ w.data
         /\ w.events[p] => w.kafka = "serving" /\ w.topic
PodReady(p) ==
    /\ There /\ world.pods[p] \in {"starting", "unready"}
    /\ Healthy(world, p)
    /\ world' = [world EXCEPT !.pods[p] = "ready"]
    /\ UNCHANGED run
PodUnready(p) ==
    /\ There /\ world.pods[p] = "ready" /\ ~Healthy(world, p)
    /\ world' = [world EXCEPT !.pods[p] = "unready"]
    /\ UNCHANGED run
PodGone(p) ==
    /\ There /\ world.pods[p] = "terminating"
    /\ world' = [world EXCEPT !.pods[p] = "absent"]
    /\ UNCHANGED run

UpdateStatus ==
    LET updated == {p \in Live(world) : world.events[p] = world.template}
    IN /\ There
       /\ world' = [world EXCEPT
             !.observed = world.generation,
             !.available = IF world.replicas = 0 THEN Live(world) = {}
                           ELSE updated \cap ReadyPods(world) # {}
                                /\ Live(world) \ updated = {}]
       /\ UNCHANGED run

UpdateSlice ==
    /\ There
    /\ world' = [world EXCEPT !.slice = ReadyPods(world)]
    /\ UNCHANGED run

(* The worker of a Pod with events projects the record.                    *)
Project ==
    /\ There /\ world.produced /\ ~world.projected
    /\ \E p \in ReadyPods(world) : world.events[p]
    /\ world' = [world EXCEPT !.projected = TRUE]
    /\ UNCHANGED run

Nothing == [namespace |-> "absent", image |-> FALSE, elastic |-> "absent",
            data |-> FALSE, restarts |-> 0, kafka |-> "absent",
            certified |-> FALSE, topic |-> FALSE, produced |-> FALSE,
            projected |-> FALSE, template |-> FALSE, replicas |-> 0, generation |-> 0,
            observed |-> 0, available |-> FALSE, created |-> 0,
            pods |-> [p \in Pod |-> "absent"],
            events |-> [p \in Pod |-> FALSE], slice |-> {},
            table |-> "absent", gate |-> "absent", reached |-> FALSE]

RemoveNamespace ==
    /\ world.namespace = "terminating"
    /\ world' = [Nothing EXCEPT !.image = world.image]
    /\ UNCHANGED run

Controllers ==
    \/ StartElastic \/ StartKafka \/ CreatePod \/ UpdateStatus \/ UpdateSlice
    \/ Project \/ RemoveNamespace
    \/ \E p \in Pod : RetirePod(p) \/ PodReady(p) \/ PodUnready(p) \/ PodGone(p)

-----------------------------------------------------------------------------
Init ==
    /\ world = Nothing
    /\ \E service \in {"dashboard", "policy-search", "product"} :
          run = [service |-> service, phase |-> "body", verdict |-> "none",
                 todo |-> CASE service = "dashboard" -> DashboardScript
                            [] service = "policy-search" -> SearchScript
                            [] service = "product" -> ProductScript,
                 owns |-> FALSE, probe |-> FALSE, closed |-> FALSE,
                 pod |-> 1, reading |-> 1, deleted |-> 0,
                 restarts |-> 0, faults |-> 0, kills |-> 0]

Next == Step \/ Refuse \/ Fail \/ Kill \/ Controllers

(* The script goes on: its calls and waits have deadlines.                 *)
GoesOn == Step \/ Refuse

Spec == Init /\ [][Next]_vars
             /\ WF_vars(GoesOn) /\ WF_vars(RemoveNamespace)

-----------------------------------------------------------------------------
(* Type invariant: the cluster and the script are always in a state that   *)
(* the operators above cover, and a script that has ended has a verdict.   *)
TypeOK ==
    /\ world.namespace \in {"absent", "present", "terminating"}
    /\ world.elastic \in {"absent", "down", "starting", "listening", "serving"}
    /\ world.kafka \in {"absent", "starting", "listening", "serving"}
    /\ world.pods \in [Pod -> {"absent", "starting", "ready", "unready",
                               "terminating"}]
    /\ world.slice \subseteq Pod
    /\ world.namespace = "absent" => Existing(world) = {} /\ world.slice = {}
    /\ run.phase \in {"body", "cleanup", "ended"}
    /\ run.verdict \in {"none", "passed", "failed", "left over", "killed"}
    /\ (run.phase = "body") = (run.verdict = "none")
    /\ (run.phase = "ended") = (run.todo = <<>>)

(* The policy-search's restart ends with a Pod other than the deleted one, *)
(* with the event worker, ready: the Deployment's status and the           *)
(* EndpointSlice that the script asks may both describe the past.  (The    *)
(* dashboard's deletes with --wait=false and asks for nothing else.)       *)
SearchReplaced ==
    run'.todo = SearchRestore /\ run.todo # SearchRestore =>
        \E p \in ReadyPods(world) : p # run.deleted /\ world.events[p]

(* The wait that ends the dependency loss is not satisfied by the endpoint *)
(* from before the loss: Elasticsearch serves its data again, and a Pod    *)
(* has found it after that.                                                *)
Recovered ==
    /\ run.todo \in {<<"endpoint ready">> \o DashboardRestart,
                     <<"endpoint ready">> \o SearchRestart \o SearchRestore,
                     <<"endpoint ready">> \o ProductRollout \o ProductDrain
                         \o ProductReplacement}
    /\ run'.todo = Tail(run.todo)
    => /\ world.elastic = "serving"
       /\ IF run.service = "product" THEN world.reached ELSE world.data
       /\ ReadyPods(world) # {}

(* What a run keeps to, an environment of its own (OwnedEnvironment): the  *)
(* namespace and the probe's image, held once the script has noted them.   *)
(* Before that they are only in the making: the dashboard does not know of *)
(* a namespace whose creation got no answer, and the policy-search assigns *)
(* probe_image when build_probe returns, after the image was built and     *)
(* loaded into Kind.  A script that fails in between leaves them.          *)
Held == (run.owns /\ world.namespace # "absent") \/ (run.probe /\ world.image)
Making ==
    (~run.owns /\ world.namespace # "absent") \/ (~run.probe /\ world.image)
Verdict == IF Running THEN "none" ELSE run.verdict
Environment == INSTANCE OwnedEnvironment WITH
    held <- Held, making <- Making, verdict <- Verdict
=============================================================================
