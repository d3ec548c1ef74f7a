-------------------------- MODULE ServiceDeployment --------------------------
(***************************************************************************)
(* The deployment commands of the three Go services (make go-svc-deploy,   *)
(* -deploy-status, -deploy-verify, -stop, -image-load, -deploy-preflight): *)
(* scripts/go/service/deployment.py with the checks each service owns, and *)
(* in QA what they observe, releases that scripts/go/service/release.py    *)
(* prepares, the release workflow pushes and Flux applies.                 *)
(*   direct  local-dev: the commands load, apply and scale themselves      *)
(*   flux    QA: the commands only read, a bundle on main is applied       *)
(*                                                                         *)
(* A command is a sequence of steps: calls, waits that give up at their    *)
(* deadline, and checks.  A step may fail before or after its effect.  Of  *)
(* what a verification creates, some it owes the removal of.  SIGINT (and  *)
(* Product's SIGTERM) is an exception that no handler of errors catches;   *)
(* SIGKILL (and the others' SIGTERM) ends a command anywhere.  Meanwhile   *)
(* the Deployment's controller works, and the Deployment's status is what  *)
(* it wrote there last.                                                    *)
(*                                                                         *)
(* An image stands for its digest and its source revision.  A release is   *)
(* an image and the attempt at initializing it; configuration that enters  *)
(* the release identity besides is constant.  Of the fifteen qualification *)
(* Pods two are modelled, one for each of their namespaces.                *)
(***************************************************************************)
EXTENDS Integers, Sequences, FiniteSets, SequencesExt

CONSTANTS MaxOperations,  \* bound: commands started
          MaxFaults,      \* bound: steps and release runs that fail, signals
          MaxImages,      \* bound: images built
          MaxAttempts     \* bound: attempts at initializing a release

VARIABLES world,  \* the cluster, the main branch, the release workflow
          run     \* the command under way, and the bounds used up

vars == <<world, run>>

Services == {"product", "dashboard", "policy-search"}
Image == 1 .. MaxImages
Release == Image \X (1 .. MaxAttempts)
None == 0
NoRelease == <<None, None>>

-----------------------------------------------------------------------------
(* The sequences of steps.                                                 *)
(* What the overlay renders to: images, probes, policies, Secrets' names.  *)
ProductRendered == <<<<"judge", "render">>>>
EventActivation == <<<<"judge", "eventActivation">>>>
DashboardRendered == EventActivation \o <<<<"judge", "render">>>>
SearchRendered == <<<<"judge", "render">>>>
Rendered(r) == CASE r.service = "product" -> ProductRendered
                 [] r.service = "dashboard" -> DashboardRendered
                 [] r.service = "policy-search" -> SearchRendered
Target(r) == <<<<"judge", "coordinates">>>> \o Rendered(r)
FluxSource(r) ==
    IF r.mode = "direct" THEN <<>>
    ELSE IF r.script \in {"status", "verify"}
    THEN <<<<"fluxRelease", "one">>>> ELSE <<<<"judge", "flux">>>>
Prerequisites == <<<<"judge", "secretAndImage">>, <<"liveBefore", "one">>>>
GatewayRoute == <<<<"judge", "gatewayRoute">>>>
Route == <<<<"judge", "route">>>>
Snapshot == <<<<"judge", "snapshot">>>>
SameSnapshot == <<<<"judge", "snapshot">>>>
RoleAction == <<<<"judge", "role">>>>

LocalAdministrationJob ==
    <<<<"judge", "administration">>, <<"judge", "Job">>, <<"applyJob", "one">>,
      <<"complete", "one">>, <<"judge", "administration">>,
      <<"initialized", "one">>>>
MutantRollout == <<<<"judge", "dryRun">>, <<"apply", "one">>>>
Rollout ==
    <<<<"judge", "dryRun">>, <<"apply", "one">>, <<"rolledOut", "one">>>>
Deploy(r) ==
    Prerequisites
        \o (IF r.service = "product" THEN LocalAdministrationJob ELSE <<>>)
        \o Snapshot \o Rollout \o <<<<"live", "one">>>> \o SameSnapshot

Forwards == <<<<"forward", "one">>>>
EndForwards == <<<<"endForwards", "one">>>>
ProductVerify ==
    <<<<"live", "one">>>> \o RoleAction \o Snapshot \o RoleAction
        \o Forwards \o <<<<"probe", "security">>>> \o EndForwards
        \o SameSnapshot \o GatewayRoute
SearchVerify ==
    <<<<"live", "one">>>> \o Snapshot \o Forwards
        \o <<<<"probe", "search">>>> \o EndForwards \o SameSnapshot \o Route
(* A Pod that may reach the service, or must not, and what it reports.     *)
QualificationPods == <<"beside", "outside">>
QualificationPod(p) == <<"createPod", p>>
QualificationOutput(p) == <<"succeeded", p>>
AccessQualification(p) ==
    <<QualificationPod(p), QualificationOutput(p), <<"deletePod", p>>>>
Qualification ==
    <<<<"noNamespace", "one">>, <<"createNamespace", "one">>>>
        \o AccessQualification(QualificationPods[1])
        \o AccessQualification(QualificationPods[2])
        \o <<<<"deleteNamespace", "one">>>>
Dependencies == <<<<"judge", "dependencies">>>>
SharedOperations == <<<<"try", "operations">>>>
DirectRPC == <<<<"try", "directRPC">>>>
DashboardVerify ==
    Dependencies \o <<<<"live", "one">>>> \o Snapshot
        \o Forwards \o SharedOperations \o DirectRPC
        \o EndForwards \o Qualification \o <<<<"try", "snapshot">>>> \o Route

ProductStop ==
    <<<<"live", "one">>>> \o Snapshot
        \o <<<<"readVersion", "one">>, <<"scaleIf", "one">>,
             <<"rolledOut", "one">>, <<"notReady", "one">>,
             <<"noEndpoint", "one">>>> \o SameSnapshot
Stop ==
    Snapshot \o <<<<"scale", "one">>, <<"noReplicas", "one">>>>
        \o SameSnapshot

(* execute().                                                              *)
Script(r) ==
    Target(r) \o FluxSource(r) \o
    (CASE r.script = "preflight" -> Prerequisites
       [] r.script = "image-load" -> Prerequisites \o <<<<"load", "one">>>>
       [] r.script = "deploy" -> Deploy(r)
       [] r.script = "status" ->
            <<<<"live", "one">>>> \o IF r.service = "product" THEN GatewayRoute
                                 ELSE Route
       [] r.script = "verify" ->
            (CASE r.service = "product" -> ProductVerify
               [] r.service = "dashboard" -> DashboardVerify
               [] r.service = "policy-search" -> SearchVerify)
       [] r.script = "stop" ->
            IF r.service = "product" THEN ProductStop ELSE Stop)
Operations(mode) ==
    IF mode = "direct"
    THEN {"preflight", "image-load", "deploy", "status", "verify", "stop"}
    ELSE {"preflight", "status", "verify"}

-----------------------------------------------------------------------------
(* What the checks and waits ask.                                          *)
Present(w) == {i \in Image : w.pod[i] # "absent"}
Current(w) == {i \in Image : w.pod[i] \in {"starting", "ready"}}
Serving(w) == {i \in Image : w.pod[i] = "ready"}

(* A Pod of the predecessor may be seen, in local-dev, if it is declared;  *)
(* once a Deployment is required, only while it is being deleted.          *)
PodImageAllowed(w, r, i, required) ==
    \/ i = r.image
    \/ r.mode = "direct" /\ i = r.previous
          /\ (required => w.pod[i] = "ending")

Allowed(r, required) ==
    {r.image} \cup IF required \/ r.mode = "flux" THEN {} ELSE {r.previous}
ProductLive(w, r, required) ==
    /\ IF w.dep.image = None THEN ~required
       ELSE w.dep.image \in Allowed(r, required)
    /\ \A i \in Present(w) : PodImageAllowed(w, r, i, required)
    /\ required => Present(w) # {} /\ Serving(w) # {}
(* Of the Pods, the other two ask in QA only.                              *)
RunningImage(w, r) ==
    r.mode = "flux" => Current(w) = {r.image} /\ Serving(w) = {r.image}
DashboardLive(w, r, required) ==
    /\ IF w.dep.image = None THEN ~required
       ELSE w.dep.image \in Allowed(r, required)
    /\ required => w.dep.replicas = 1 /\ RunningImage(w, r)
SearchLive(w, r, required) == DashboardLive(w, r, required)
Live(w, r, required) ==
    CASE r.service = "product" -> ProductLive(w, r, required)
      [] r.service = "dashboard" -> DashboardLive(w, r, required)
      [] r.service = "policy-search" -> SearchLive(w, r, required)

(* kubectl rollout status: the controller has seen the latest generation,  *)
(* all replicas are updated and available, none of another remains.        *)
RolledOut(w) ==
    /\ w.status.seen = w.dep.generation
    /\ w.status.current = IF w.dep.replicas = 0 THEN {} ELSE {w.dep.image}
    /\ w.status.ready = w.status.current

(* Of the release owners, the conditions; of an owner whose specification  *)
(* has just changed, what it said of the one before.                       *)
FluxRelease(w, r) ==
    IF r.service = "product"
    THEN /\ w.applied.api = r.release
         /\ w.init[r.release] = "ready" /\ w.api.ready
    ELSE w.applied.api = r.release /\ w.api.release = r.release /\ w.api.ready

MutantJob(r) == <<1, r.attempt>>
Job(r) == <<r.image, r.attempt>>

Holds(w, r, s) ==
    CASE s[1] = "fluxRelease" -> FluxRelease(w, r)
      [] s[1] = "liveBefore" -> Live(w, r, FALSE)
      [] s[1] = "live" -> Live(w, r, TRUE)
      [] s[1] = "complete" -> w.job[Job(r)] = "complete"
      [] s[1] = "initialized" -> w.table
      [] s[1] = "rolledOut" -> RolledOut(w)
      [] s[1] \in {"forward", "probe", "try"} -> Serving(w) # {}
      [] s[1] = "noNamespace" -> "namespace" \notin w.probes
      [] s[1] = "createPod" -> s[2] \notin w.probes
      [] s[1] = "readVersion" -> w.dep.replicas = 1
      [] s[1] = "scaleIf" -> r.version = <<w.dep, w.status>>
      [] s[1] = "notReady" -> w.dep.replicas = 0 /\ w.status.ready = {}
      [] s[1] = "noEndpoint" -> Serving(w) = {}
      [] s[1] = "noReplicas" -> w.status.current = {}
      [] s[1] = "scale" -> w.dep.image # None
      [] OTHER -> TRUE

(* A specification that changes is a new generation.                       *)
Specified(dep, image, replicas) ==
    [image |-> image, replicas |-> replicas,
     generation |-> IF dep.image = image /\ dep.replicas = replicas
                    THEN dep.generation ELSE dep.generation + 1]
Effect(w, r, s) ==
    CASE s[1] = "load" -> [w EXCEPT !.loaded = @ \cup {r.image}]
      [] s[1] = "applyJob" ->
            [w EXCEPT !.job[Job(r)] = IF @ = "absent" THEN "running" ELSE @]
      [] s[1] = "apply" ->
            [w EXCEPT !.dep = Specified(@, r.image, 1)]
      [] s[1] \in {"scale", "scaleIf"} ->
            [w EXCEPT !.dep = Specified(@, @.image, 0)]
      [] s[1] = "forward" -> [w EXCEPT !.forwards = TRUE]
      [] s[1] = "endForwards" -> [w EXCEPT !.forwards = FALSE]
      [] s[1] = "createNamespace" -> [w EXCEPT !.probes = @ \cup {"namespace"}]
      [] s[1] = "deleteNamespace" ->
            [w EXCEPT !.probes = @ \ {"namespace", "outside"}]
      [] s[1] = "createPod" -> [w EXCEPT !.probes = @ \cup {s[2]}]
      [] s[1] = "deletePod" -> [w EXCEPT !.probes = @ \ {s[2]}]
      [] OTHER -> w

-----------------------------------------------------------------------------
Running == run.state \in {"body", "cleanup"}
Idle(service, mode, operations, faults) ==
    [state |-> "idle", script |-> "none", image |-> None,
     previous |-> None, attempt |-> None, release |-> NoRelease,
     version |-> <<>>, todo |-> <<>>, owed |-> <<>>, failed |-> FALSE,
     lost |-> FALSE, disturbed |-> FALSE, verdict |-> "none",
     service |-> service, mode |-> mode, operations |-> operations,
     faults |-> faults]
Kept(r) == Idle(r.service, r.mode, r.operations, r.faults)

(* The namespace is removed whatever its creation says, a Pod only if its  *)
(* creation was answered.                                                  *)
Owes(s, answered) ==
    CASE s[1] = "forward" /\ answered -> <<<<"endForwards", "one">>>>
      [] s[1] = "createNamespace" -> <<<<"deleteNamespace", "one">>>>
      [] s[1] = "createPod" /\ answered -> <<<<"deletePod", s[2]>>>>
      [] OTHER -> <<>>
Owing(r, s, answered) == [r EXCEPT !.owed = @ \o Owes(s, answered)]
(* What was owed last is paid first.                                       *)
Settled(r, s) ==
    IF r.owed # <<>> /\ Last(r.owed) = s THEN [r EXCEPT !.owed = Front(@)]
    ELSE r

(* What is being taken away, in a finally block: it is not begun again.    *)
Cleaning(r, s) == r.owed # <<>> /\ Last(r.owed) = s

Ends(r, verdict) == [Kept(r) EXCEPT !.verdict = verdict, !.lost = r.lost]
MutantFinally(r, verdict) ==
    [r EXCEPT !.state = "cleanup", !.verdict = verdict,
              !.todo = Reverse(r.owed)]
Finally(r, verdict) ==
    IF r.owed = <<>> THEN Ends(r, verdict)
    ELSE [r EXCEPT !.state = "cleanup", !.verdict = verdict,
                   !.todo = Reverse(r.owed)]
Advanced(r) ==
    IF Len(r.todo) > 1 THEN [r EXCEPT !.todo = Tail(@)]
    ELSE IF r.state = "body"
    THEN Finally(r, IF r.failed THEN "failed" ELSE "passed")
    ELSE Ends(r, r.verdict)

(* Failures that a verification collects, and how many of the next steps   *)
(* are left out.                                                           *)
Collected == {"try", "noNamespace", "createNamespace", "createPod",
              "succeeded", "deletePod", "deleteNamespace"}
Skipped(s) ==
    CASE s[1] = "createPod" -> Len(AccessQualification(s[2])) - 1
      [] s[1] = "createNamespace" -> Len(Qualification) - 3
      [] s[1] = "noNamespace" -> Len(Qualification) - 1
      [] OTHER -> 0
MutantRaised(r, s) ==
    CASE r.state = "cleanup" -> Advanced(Settled([r EXCEPT !.lost = TRUE], s))
      [] r.state = "body" /\ s[1] \in {"deletePod", "deleteNamespace"} ->
            Advanced(Settled(r, s))
      [] r.state = "body" /\ s[1] \in Collected ->
            Advanced([r EXCEPT !.failed = TRUE,
                               !.todo = SubSeq(@, 1 + Skipped(s), Len(@))])
      [] r.state = "body" /\ s[1] = "endForwards" ->
            Finally(Settled([r EXCEPT !.lost = TRUE], s), "failed")
      [] OTHER -> Finally(r, "failed")
(* The error of a finally block replaces what led there, even a signal;    *)
(* only those of a Pod's removal are collected.                            *)
Raised(r, s) ==
    CASE r.state = "cleanup" ->
            Advanced(Settled([r EXCEPT !.lost = TRUE,
                                       !.verdict = IF s[1] = "deletePod" THEN @
                                                   ELSE "failed"], s))
      [] r.state = "body" /\ s[1] \in Collected ->
            Advanced(Settled(
               [r EXCEPT !.failed = TRUE,
                         !.lost = @ \/ s[1] \in {"deletePod",
                                                 "deleteNamespace"},
                         !.todo = SubSeq(@, 1 + Skipped(s), Len(@))], s))
      [] r.state = "body" /\ s[1] = "endForwards" ->
            Finally(Settled([r EXCEPT !.lost = TRUE], s), "failed")
      [] OTHER -> Finally(r, "failed")

Learns(r, s) ==
    IF s[1] = "readVersion"
    THEN [r EXCEPT !.version = <<world.dep, world.status>>] ELSE r

Perform ==
    LET s == Head(run.todo)
    IN /\ Running /\ Holds(world, run, s)
       /\ world' = Effect(world, run, s)
       /\ run' = Advanced(Settled(Owing(Learns(run, s), s, TRUE), s))

(* A check, a call that cannot succeed, a wait at its deadline.  A Pod     *)
(* that exists under the name is not this command's to delete.             *)
Refuse ==
    LET s == Head(run.todo)
    IN /\ Running
       /\ ~Holds(world, run, s) \/ s[1] \in {"judge", "try", "succeeded"}
       /\ run' = Raised(Owing(run, s, FALSE), s)
       /\ UNCHANGED world

(* A step that was perhaps done and had no answer.  Nobody deletes a Pod   *)
(* whose creation was not answered.  The forwards are started before the   *)
(* try that ends them, Product's inside it, each on the list of those to   *)
(* end once its start returned.                                            *)
Unanswered(r, s, done, listed) ==
    IF done /\ (s[1] = "createPod" \/ (s[1] = "forward" /\ ~listed))
    THEN [r EXCEPT !.lost = TRUE] ELSE Owing(r, s, done /\ s[1] = "forward")

Fail ==
    LET s == Head(run.todo)
        r == [run EXCEPT !.faults = @ + 1]
    IN /\ Running /\ run.faults < MaxFaults /\ Holds(world, run, s)
       /\ s[1] # "judge"
       /\ \E done \in BOOLEAN :
            /\ world' = IF done THEN Effect(world, run, s) ELSE world
            /\ run' = Raised(Unanswered(r, s, done, run.service = "product"),
                             s)

(* Of the services only Product ignores signals after the first.           *)
Interrupt ==
    LET s == Head(run.todo)
        r == [run EXCEPT !.faults = @ + 1]
    IN /\ Running /\ run.faults < MaxFaults
       /\ run.service = "product" => run.verdict # "interrupted"
       /\ \E done \in BOOLEAN, listed \in {FALSE, run.service = "product"} :
            /\ done => Holds(world, run, s)
            /\ world' = IF done THEN Effect(world, run, s) ELSE world
            /\ run' = Finally(IF Cleaning(run, s)
                              THEN Settled([r EXCEPT !.lost = @ \/ ~done], s)
                              ELSE Unanswered(r, s, done, listed),
                              "interrupted")

Kill ==
    /\ Running /\ run.faults < MaxFaults
    /\ run' = [Ends(run, "killed") EXCEPT !.faults = @ + 1]
    /\ UNCHANGED world

(* The operator names the image, in local-dev perhaps a predecessor, which *)
(* may be a stale one; in QA the release is that of a checkout of main.    *)
Begin ==
    /\ ~Running /\ run.operations < MaxOperations
    /\ \E script \in Operations(run.mode) :
       \E image \in IF run.mode = "direct"
                    THEN Image ELSE {world.main.api[1]} :
       \E previous \in IF run.mode = "direct"
                       THEN {None} \cup Image ELSE {None} :
          LET r == [Kept(run) EXCEPT !.state = "body", !.script = script,
                       !.image = image, !.previous = previous,
                       !.attempt = world.attempt,
                       !.release = world.main.api]
          IN run' = [r EXCEPT !.todo = Script(r), !.operations = @ + 1]
    /\ world' = [world EXCEPT !.forwards = FALSE]

-----------------------------------------------------------------------------
(* release.py: prerequisites of earlier releases are kept, the API's owner *)
(* is replaced and depends on the initialization of its own release.       *)
MutantRetainedDocuments(bundle, release) ==
    [inits |-> {release}, api |-> release]
RetainedDocuments(bundle, release) ==
    [inits |-> bundle.inits \cup {release}, api |-> release]
(* A service without initialization has its tag replaced in the overlay.   *)
OverlayTag(release) == [inits |-> {}, api |-> release]
PrepareRelease(bundle, release) ==
    IF run.service = "product" THEN RetainedDocuments(bundle, release)
    ELSE OverlayTag(release)

(* A push of the service's sources starts a run of the workflow, or waits  *)
(* for the one under way, in place of one that waits already.              *)
PushSource ==
    /\ run.mode = "flux" /\ world.pushed < MaxImages
    /\ world' = [world EXCEPT !.pushed = @ + 1, !.pending = world.pushed + 1,
                              !.tree = Append(@, world.main)]
    /\ UNCHANGED run
(* The run builds and publishes the image, and tags the source.            *)
StartRelease ==
    /\ world.pending # None /\ world.workflow = NoRelease
    /\ world.built < MaxImages
    /\ world' = [world EXCEPT !.built = @ + 1, !.pending = None,
                              !.workflow = <<world.pending, world.built + 1>>]
    /\ UNCHANGED run
(* It prepares the release on the source that triggered it, and rebases:   *)
(* another release that came to main meanwhile has changed the same lines. *)
FinishRelease ==
    LET tree == world.tree[world.workflow[1]]
        bundle == PrepareRelease(tree, <<world.workflow[2], world.attempt>>)
    IN /\ world.workflow # NoRelease
       /\ world' = [world EXCEPT !.workflow = NoRelease,
                                 !.main = IF @ = tree THEN bundle ELSE @]
       /\ UNCHANGED run
(* A run that fails is run again, and builds again.                        *)
RunAgain ==
    /\ world.workflow # NoRelease /\ world.pending = None
    /\ run.faults < MaxFaults
    /\ run' = [run EXCEPT !.faults = @ + 1]
    /\ world' = [world EXCEPT !.workflow = NoRelease,
                              !.pending = world.workflow[1]]
(* A reviewed retry: the next attempt at the same release.                 *)
Retry ==
    /\ run.service = "product" /\ world.attempt < MaxAttempts
    /\ world' = [world EXCEPT !.attempt = @ + 1,
                   !.main = IF run.mode = "direct" THEN @
                            ELSE PrepareRelease(@, <<@.api[1],
                                                     world.attempt + 1>>)]
    /\ UNCHANGED run

(* Flux: the bundle with what it no longer holds pruned, the Jobs of the   *)
(* prerequisites, the API's owner once the one it depends on is ready.     *)
ApplyBundle ==
    /\ world.applied # world.main
    /\ world' = [world EXCEPT !.applied = world.main,
          !.init = [r \in Release |->
                       CASE r \notin world.main.inits -> "none"
                         [] r \in world.main.inits /\ @[r] = "none" ->
                              "running"
                         [] OTHER -> @[r]],
          !.job = [r \in Release |->
                       CASE r \in world.applied.inits \ world.main.inits ->
                              "absent"
                         [] r \in world.main.inits /\ @[r] = "absent" ->
                              "running"
                         [] OTHER -> @[r]]]
    /\ UNCHANGED run
InitializeReady ==
    /\ \E r \in Release :
          /\ world.init[r] = "running"
          /\ world.job[r] \in {"complete", "failed"}
          /\ world' = [world EXCEPT !.init[r] =
                IF world.job[r] = "complete" THEN "ready" ELSE "failed"]
    /\ UNCHANGED run
ApiApplied ==
    LET release == world.applied.api
    IN /\ run.mode = "flux" /\ world.api.release # release
       /\ run.service = "product" => world.init[release] = "ready"
       /\ world' = [world EXCEPT
             !.api = [release |-> release, ready |-> FALSE],
             !.dep = Specified(@, release[1], 1)]
       /\ run' = [run EXCEPT !.disturbed = Running \/ @]
ApiReady ==
    /\ ~world.api.ready /\ RolledOut(world)
    /\ world' = [world EXCEPT !.api.ready = TRUE]
    /\ UNCHANGED run

(* A Job of the administration runs once: backoffLimit 0, Never restarted. *)
JobRuns ==
    /\ \E r \in Release :
          /\ world.job[r] = "running"
          /\ \/ world' = [world EXCEPT !.job[r] = "complete", !.table = TRUE]
             \/ world' = [world EXCEPT !.job[r] = "failed"]
    /\ UNCHANGED run

(* The Deployment's controller: one replica, no Pod taken away before the  *)
(* new one is ready, and a status written after what it describes.         *)
Rolls ==
    LET seen == world.dep
    IN /\ \/ /\ seen.replicas = 1 /\ world.pod[seen.image] = "absent"
             /\ world' = [world EXCEPT !.pod[seen.image] = "starting"]
          \/ \E i \in Current(world) :
                /\ \/ seen.replicas = 0
                   \/ seen.image # i /\ world.pod[seen.image] = "ready"
                /\ world' = [world EXCEPT !.pod[i] = "ending"]
       /\ UNCHANGED run
PodMoves ==
    /\ \E i \in Image :
          \/ /\ world.pod[i] = "starting" /\ i \notin world.broken
             /\ i \in world.loaded
             /\ world' = [world EXCEPT !.pod[i] = "ready"]
          \/ /\ world.pod[i] = "ending"
             /\ world' = [world EXCEPT !.pod[i] = "absent"]
    /\ UNCHANGED run
StatusWritten ==
    LET status == [seen |-> world.dep.generation, current |-> Current(world),
                   ready |-> Serving(world)]
    IN /\ world.status # status
       /\ world' = [world EXCEPT !.status = status]
       /\ UNCHANGED run
(* One release of the service runs; images built later may never be ready. *)
Init ==
    \E service \in Services, mode \in {"direct", "flux"},
       broken \in SUBSET (Image \ {1}) :
        LET first == <<1, 1>>
            bundle == [inits |-> IF service = "product" /\ mode = "flux"
                                 THEN {first} ELSE {}, api |-> first]
        IN /\ run = Idle(service, mode, 0, 0)
           /\ world =
                [dep |-> [image |-> 1, replicas |-> 1, generation |-> 1],
                 status |-> [seen |-> 1, current |-> {1}, ready |-> {1}],
                 pod |-> [i \in Image |-> IF i = 1 THEN "ready" ELSE "absent"],
                 broken |-> broken,
                 loaded |-> IF mode = "direct" THEN {1} ELSE Image,
                 job |-> [r \in Release |-> IF r = first /\ service = "product"
                                            THEN "complete" ELSE "absent"],
                 table |-> service = "product", probes |-> {},
                 forwards |-> FALSE, attempt |-> 1,
                 main |-> bundle, tree |-> <<bundle>>, pushed |-> 1,
                 pending |-> None, workflow |-> NoRelease, built |-> 1,
                 applied |-> bundle,
                 init |-> [r \in Release |-> IF r \in bundle.inits THEN "ready"
                                             ELSE "none"],
                 api |-> [release |-> first, ready |-> TRUE]]

Next ==
    \/ Begin \/ Perform \/ Refuse \/ Fail \/ Interrupt \/ Kill
    \/ PushSource \/ StartRelease \/ FinishRelease \/ RunAgain \/ Retry
    \/ ApplyBundle \/ InitializeReady \/ ApiApplied \/ ApiReady \/ JobRuns
    \/ Rolls \/ PodMoves \/ StatusWritten

Spec == Init /\ [][Next]_vars

-----------------------------------------------------------------------------
(* Commands and their steps, Pods, Jobs and releases take the values that  *)
(* the scripts, Kubernetes and Flux give them.                             *)
TypeOK ==
    /\ world.dep.image \in Image /\ world.dep.replicas \in {0, 1}
    /\ world.status.seen \in 1 .. world.dep.generation
    /\ world.pod \in [Image -> {"absent", "starting", "ready", "ending"}]
    /\ world.probes \subseteq {"namespace", "beside", "outside"}
    /\ world.main.inits \subseteq Release
    /\ run.state \in {"idle", "body", "cleanup"}
    /\ (run.state = "idle") = (run.todo = <<>>)
    /\ run.state = "idle" => run.owed = <<>>

(* Product's API runs from an image only after the initialization Job of   *)
(* that very release succeeded, and while that Job is there to be looked   *)
(* at: neither a Job of an earlier release nor a pruned one unlocks it.    *)
Unlocked ==
    run.service = "product" =>
        \A i \in Present(world) \cup {world.dep.image} :
            \E a \in 1 .. MaxAttempts : world.job[<<i, a>>] = "complete"

(* What was released stays on main: neither a release, run again or        *)
(* overlapping with another, nor a retry drops a prerequisite.             *)
Retains == [][world.main.inits \subseteq world'.main.inits]_vars

Reports == Running /\ run'.state = "idle"
Undisturbed == ~run.disturbed

(* A deployment that passes, and a verification that passes where it looks *)
(* at the Pods, leave no Pod of another image that serves; a deployment    *)
(* leaves one that does.  A stop that passes leaves nothing that would     *)
(* start a Pod, and Product's none that serves or will.  (The other two    *)
(* believe a status that may be older than their scaling.)                 *)
SaysServed(verb) ==
    /\ Reports /\ run'.verdict = "passed" /\ Undisturbed /\ run.script = verb
    /\ verb = "verify" => run.service = "product" \/ run.mode = "flux"
Served ==
    [][/\ SaysServed("deploy") \/ SaysServed("verify") =>
             /\ world'.dep.image = run.image
             /\ Serving(world') \subseteq {run.image}
       /\ SaysServed("deploy") => Serving(world') # {}
       /\ SaysServed("stop") =>
             /\ world'.dep.replicas = 0
             /\ run.service = "product" => Current(world') = {}]_vars

(* However a verification ends, short of SIGKILL, its forwards, Pods and   *)
(* its namespace are gone, unless a removal failed or was interrupted, or  *)
(* the creation of a Pod or the start of the forwards was without answer;  *)
(* a verification that passes leaves nothing at all.                       *)
ProbesGone ==
    [][Reports /\ run.script = "verify" /\ run'.verdict # "killed" =>
           \/ run'.lost /\ run'.verdict # "passed"
           \/ run.operations > 1
           \/ world'.probes = {} /\ ~world'.forwards]_vars
=============================================================================
