----------------------- MODULE ObservabilityAcceptance -----------------------
(***************************************************************************)
(* The disposable telemetry checks of k8s/scripts/alloy, on containers and *)
(* a network of their own in the local Docker:                             *)
(*   ingestion   backend_ingestion.py: Alloy and the stores, fed by hand   *)
(*   acceptance  disposable_acceptance.py: Product under load              *)
(*   phases      disposable_acceptance_phase.py: the same in restartable   *)
(*               phases that leave evidence, and their aggregate           *)
(*                                                                         *)
(* A script is a sequence of steps.  A metric takes its way from Product   *)
(* through Alloy to Prometheus behind the script's back: Product exports   *)
(* its cumulative counter, Alloy queues the samples and sends them on when *)
(* Prometheus takes them.  A step may fail before or after its effect; a   *)
(* failure, SIGINT, SIGTERM and the work deadline (exceptions all of them) *)
(* lead to the teardown, in which they are caught one by one.  SIGKILL, or *)
(* a second signal just before the teardown, ends the script without it.   *)
(*                                                                         *)
(* Tempo, Loki, Zipkin and its bridge are one container, "stores"; a load  *)
(* is one request; a candidate (images, configuration, profile, fixture)   *)
(* is a number; the three overhead phases are one.  Traces and logs, and   *)
(* measured latencies and resources, are checks that may fail at any time. *)
(***************************************************************************)
EXTENDS Integers, Sequences, FiniteSets, SequencesExt

CONSTANTS MaxOperations,  \* bound: phases and aggregates started
          MaxTroubles,    \* bound: steps that fail or are interrupted, kills
          MaxCandidates,  \* bound: candidates
          Rebuilds        \* a candidate may be replaced during a phase

VARIABLES world,  \* Docker, the telemetry on its way, the evidence files
          run     \* the script under way, and the bounds used up

vars == <<world, run>>

Phase == {"overhead", "healthy", "recovery"}
Container == {"postgres", "stores", "prometheus", "alloy", "product", "probe"}
None == 0

-----------------------------------------------------------------------------
(* A step is what is done and what it is done to.                          *)
StartBackends ==
    <<<<"start", "stores">>, <<"start", "prometheus">>, <<"start", "alloy">>>>
StartProduct == <<<<"start", "product">>, <<"follow", "product">>,
                  <<"judge", "ready">>, <<"own", "product">>>>
StopProduct == <<<<"stop", "product">>, <<"unfollow", "product">>,
                 <<"remove", "product">>>>
Seeded == <<<<"judge", "seeded">>>>
Prepared ==
    <<<<"network", "create">>, <<"start", "postgres">>>> \o Seeded

(* Deliveries and measurements that are compared with the profile.         *)
TracesAndLogs == <<<<"judge", "traces and logs">>>>
VerifyLoad == <<<<"judge", "load">>>>
VerifyResources == <<<<"judge", "resources">>>>
VerifyOverhead == <<<<"judge", "overhead">>>>
Intervals == <<<<"judge", "intervals">>>>
ServiceMetrics == <<<<"judge", "metrics">>>>
ServiceBackends == ServiceMetrics \o <<<<"judge", "service">>>>

(* One sample of the freshness of traces, logs and the counter.            *)
VerifyFreshness ==
    <<<<"baseline", "">>, <<"load", "">>>> \o TracesAndLogs
        \o <<<<"counted", "">>>>
(* Requests for products that do not exist; the series must not grow.      *)
VerifyInputs ==
    <<<<"baseline", "">>, <<"load", "">>, <<"counted", "">>,
      <<"judge", "series">>>>
MutantRecoveryMarker == <<<<"load", "">>>> \o TracesAndLogs
RecoveryMarker ==
    <<<<"baseline", "">>, <<"load", "">>>> \o TracesAndLogs
        \o <<<<"counted", "">>>>
(* The stores and Prometheus are paused under load.                        *)
Outage ==
    <<<<"baseline", "">>, <<"pause", "">>, <<"load", "">>, <<"unpause", "">>,
      <<"pending", "none">>, <<"counted", "">>, <<"exact", "">>>>
        \o TracesAndLogs \o RecoveryMarker
(* Alloy is replaced under load, and its queue goes with it.               *)
Replacement ==
    <<<<"baseline", "">>, <<"remove", "alloy">>, <<"load", "">>,
      <<"start", "alloy">>, <<"pending", "none">>, <<"counted", "">>,
      <<"exact", "">>>> \o TracesAndLogs \o RecoveryMarker
         \o <<<<"judge", "platform metric">>>>
HealthyLoad == <<<<"load", "">>>> \o VerifyLoad \o VerifyResources
VerifyBackends ==
    <<<<"stored", "1">>>> \o TracesAndLogs \o Intervals
OverheadPair ==
    StartProduct \o <<<<"load", "">>>> \o VerifyLoad \o VerifyResources
        \o StopProduct
ResetBackends ==
    <<<<"remove", "alloy">>, <<"remove", "prometheus">>,
      <<"remove", "stores">>>> \o StartBackends

AcceptanceScript ==
    Prepared \o StartBackends \o OverheadPair \o VerifyOverhead
        \o ResetBackends \o StartProduct \o HealthyLoad \o VerifyBackends \o VerifyFreshness
        \o VerifyInputs \o Outage \o Replacement \o StopProduct
OverheadPhase ==
    Prepared \o StartBackends \o OverheadPair
HealthyPhase ==
    Prepared \o StartBackends \o StartProduct \o HealthyLoad
        \o VerifyBackends \o StopProduct
Primer == <<<<"load", "">>, <<"stored", "1">>>>
RecoveryPhase ==
    Prepared \o StartBackends \o StartProduct \o Primer \o VerifyFreshness
        \o VerifyInputs \o Outage \o Replacement \o StopProduct

(* backend_ingestion.py: samples that Prometheus rejects are lost, samples *)
(* that it does not answer wait in Alloy's log.                            *)
IngestionScript ==
    <<<<"network", "create">>, <<"start", "stores">>, <<"start", "deaf">>,
      <<"start", "alloy">>, <<"rejected", "none">>, <<"post", "">>,
      <<"rejected", "some">>, <<"remove", "prometheus">>,
      <<"start", "prometheus">>, <<"post", "">>, <<"latest", "">>,
      <<"judge", "traces">>>>
IngestionOutage ==
    <<<<"pending", "none">>, <<"remove", "prometheus">>, <<"post", "">>,
      <<"pending", "some">>, <<"start", "prometheus">>, <<"latest", "">>,
      <<"remove", "alloy">>, <<"start", "alloy">>, <<"post", "">>,
      <<"latest", "">>>>
Probe == <<<<"probe", "">>>> \o ServiceBackends

(* A phase discards its evidence first and writes it last.                 *)
PhaseScript(p) ==
    <<<<"discard", p>>>> \o
        CASE p = "overhead" -> OverheadPhase
          [] p = "healthy" -> HealthyPhase
          [] p = "recovery" -> RecoveryPhase
WriteEvidence(p) == <<<<"identify", "">>, <<"write", p>>>>
Aggregate ==
    <<<<"discard", "aggregate">>, <<"identify", "">>, <<"same", "">>,
      <<"judge", "overhead">>, <<"write", "aggregate">>>>

-----------------------------------------------------------------------------
(* Docker.                                                                 *)
Up(w, c) == c \in w.containers
Claimed(r, s) ==
    CASE s[1] = "start" ->
            [r EXCEPT !.claimed =
                @ \cup {IF s[2] = "deaf" THEN "prometheus" ELSE s[2]}]
      [] s[1] = "network" -> [r EXCEPT !.network = TRUE]
      [] OTHER -> r
Started(w, c) ==
    CASE c = "deaf" ->
            [w EXCEPT !.containers = @ \cup {"prometheus"}, !.deaf = TRUE]
      [] c = "product" ->
            [w EXCEPT !.containers = @ \cup {c}, !.made = 0]
      [] OTHER -> [w EXCEPT !.containers = @ \cup {c}]
(* docker rm -f; what the container held goes with it.                     *)
Removed(w, c) ==
    [w EXCEPT !.containers = @ \ {c},
              !.stored = IF c = "prometheus" THEN None ELSE @,
              !.deaf = IF c = "prometheus" THEN FALSE ELSE @,
              !.paused = IF c = "prometheus" THEN FALSE ELSE @,
              !.held = IF c = "alloy" THEN None ELSE @,
              !.sent = IF c = "alloy" THEN None ELSE @,
              !.rejected = IF c = "alloy" THEN FALSE ELSE @]

(* Alloy's gauge of the samples that wait for Prometheus.                  *)
Pending(w) == w.held > w.sent
(* The counter that Prometheus knows, as sum() and series report it.       *)
Total(w) == w.stored

Holds(w, r, s) ==
    CASE s[1] = "counted" -> Total(w) >= r.baseline + 1
      [] s[1] = "exact" -> Total(w) = r.baseline + 1
      [] s[1] = "stored" -> Total(w) = 1
      [] s[1] = "latest" -> Total(w) = w.made
      [] s[1] = "pending" ->
            Up(w, "alloy") /\ (s[2] = "some") = Pending(w)
      [] s[1] = "rejected" ->
            Up(w, "alloy") /\ (s[2] = "some") = w.rejected
      [] s[1] \in {"load", "stop", "follow"} -> Up(w, "product")
      [] s[1] = "post" -> Up(w, "alloy")
      [] s[1] = "same" -> \A p \in Phase : w.evidence[p] = r.identity
      [] s[1] = "network" /\ s[2] = "remove" -> w.containers = {}
      [] OTHER -> TRUE

Effect(w, r, s) ==
    CASE s[1] = "network" -> [w EXCEPT !.network = s[2] = "create"]
      [] s[1] = "start" -> Started(w, s[2])
      [] s[1] = "remove" -> Removed(w, s[2])
      [] s[1] = "follow" -> [w EXCEPT !.follower = TRUE]
      [] s[1] = "unfollow" -> [w EXCEPT !.follower = FALSE]
      [] s[1] = "load" ->
            [w EXCEPT !.made = @ + 1]
      [] s[1] = "post" ->
            [w EXCEPT !.made = @ + 1, !.held = w.made + 1]
      [] s[1] = "pause" -> [w EXCEPT !.paused = TRUE]
      [] s[1] = "unpause" -> [w EXCEPT !.paused = FALSE]
      [] s[1] = "discard" -> [w EXCEPT !.evidence[s[2]] = None]
      [] s[1] = "write" -> [w EXCEPT !.evidence[s[2]] = r.identity]
      [] OTHER -> w

(* Local variables of the script.                                          *)
Learns(w, r, s) ==
    CASE s[1] = "baseline" -> [r EXCEPT !.baseline = Total(w)]
      [] s[1] = "identify" -> [r EXCEPT !.identity = w.candidate]
      [] s[1] = "follow" -> [r EXCEPT !.follows = TRUE]
      [] s[1] = "own" -> [r EXCEPT !.owns = TRUE]
      [] s[1] = "remove" ->
            [r EXCEPT !.claimed = @ \ {s[2]},
                      !.follows = @ /\ s[2] # "product",
                      !.owns = @ /\ s[2] # "product"]
      [] OTHER -> Claimed(r, s)

-----------------------------------------------------------------------------
Running == run.state \in {"body", "teardown", "report"}

(* cleanup_products, then DockerHarness.cleanup in reverse.                *)
ReclaimProbe == <<<<"remove", "probe">>>>
CleanupProducts == <<<<"stop", "product">>, <<"unfollow", "product">>,
                     <<"remove", "product">>>>
Reclaimed(r, c) == IF c \in r.claimed THEN <<<<"remove", c>>>> ELSE <<>>
Cleanup(r) ==
    Reclaimed(r, "product") \o Reclaimed(r, "alloy")
        \o Reclaimed(r, "prometheus") \o Reclaimed(r, "stores")
        \o Reclaimed(r, "postgres")
        \o (IF r.network THEN <<<<"network", "remove">>>> ELSE <<>>)
Teardown(r) ==
    (IF r.probing THEN ReclaimProbe ELSE <<>>)
        \o (CASE r.owns -> CleanupProducts
              [] r.follows /\ ~r.owns -> <<<<"unfollow", "product">>>>
              [] OTHER -> <<>>)
        \o Cleanup(r)

Ends(r, verdict) ==
    [r EXCEPT !.state = "idle", !.verdict = verdict, !.todo = <<>>]

(* What comes after the last step of a part of the script.                 *)
MutantTearing(r, verdict) ==
    [r EXCEPT !.state = "teardown", !.outcome = verdict, !.todo = Teardown(r)]
Tearing(r, verdict) ==
    IF Teardown(r) = <<>>
    THEN Ends(r, IF r.errors THEN "left over" ELSE verdict)
    ELSE [r EXCEPT !.state = "teardown", !.outcome = verdict,
                   !.todo = Teardown(r)]
MutantFinished(r) ==
    IF r.outcome = "passed" /\ r.script \in Phase
    THEN [r EXCEPT !.state = "report", !.todo = WriteEvidence(r.script)]
    ELSE Ends(r, r.outcome)
Finished(r) ==
    CASE r.errors -> Ends(r, "left over")
      [] ~r.errors /\ r.outcome = "passed" /\ r.script \in Phase ->
            [r EXCEPT !.state = "report", !.todo = WriteEvidence(r.script),
                      !.proved = @ \cup {<<r.script, r.tested>>}]
      [] OTHER -> Ends(r, r.outcome)
Advanced(r) ==
    IF Len(r.todo) > 1 THEN [r EXCEPT !.todo = Tail(@)]
    ELSE CASE r.state = "body" -> Tearing(r, "passed")
           [] r.state = "teardown" -> Finished(r)
           [] OTHER -> Ends(r, "passed")

MutantRaised(r) ==
    IF r.state = "body" THEN Tearing(r, "failed") ELSE Ends(r, "failed")
(* A failure: of the body, whose follower has an owner or is ended on the  *)
(* spot; of a step of the teardown, which is recorded; of the report.      *)
Raised(r) ==
    CASE r.state = "body" -> Tearing(r, "failed")
      [] r.state = "teardown" -> Advanced([r EXCEPT !.errors = TRUE])
      [] OTHER -> Ends(r, "failed")

Perform ==
    LET s == Head(run.todo)
    IN /\ Running /\ Holds(world, run, s)
       /\ world' = Effect(world, run, s)
       /\ run' = Advanced(Learns(world, run, s))

(* A wait at its deadline, a check that does not hold, a measurement.      *)
Refuse ==
    LET s == Head(run.todo)
    IN /\ Running /\ (~Holds(world, run, s) \/ s[1] = "judge")
       /\ run' = Raised(run)
       /\ UNCHANGED world

Trouble == run.troubles < MaxTroubles

(* A name is claimed before the command that may create it.                *)
Fail ==
    LET s == Head(run.todo)
        r == [run EXCEPT !.troubles = @ + 1, !.probing = s[1] = "probe",
                         !.follows = @ /\ s[1] # "own"]
    IN /\ Running /\ Trouble /\ Holds(world, run, s)
       /\ \/ /\ world' = IF s[1] = "probe" THEN Started(world, "probe")
                         ELSE Effect(world, run, s)
             /\ run' = Raised(Claimed(r, s))
          \/ /\ UNCHANGED world
             /\ run' \in {Raised(r), Raised(Claimed(r, s))}

(* The teardown's 90 seconds are over: every further command fails.        *)
Exhaust ==
    /\ run.state = "teardown" /\ Trouble
    /\ run' = [Ends(run, "left over") EXCEPT !.troubles = @ + 1]
    /\ UNCHANGED world

Kill ==
    /\ Running /\ Trouble
    /\ run' = [Ends(run, "killed") EXCEPT !.troubles = @ + 1]
    /\ UNCHANGED world

-----------------------------------------------------------------------------
(* Product exports its counter every ten seconds; Alloy queues the sample. *)
Export ==
    /\ Up(world, "product") /\ Up(world, "alloy")
    /\ world.held # world.made
    /\ world' = [world EXCEPT !.held = world.made]
    /\ UNCHANGED run
(* Remote write: taken, rejected (404, not retried), or not answered.      *)
Deliver ==
    /\ Up(world, "alloy") /\ Up(world, "prometheus") /\ ~world.paused
    /\ Pending(world)
    /\ world' = IF world.deaf
                THEN [world EXCEPT !.sent = world.held, !.rejected = TRUE]
                ELSE [world EXCEPT !.sent = world.held, !.stored = world.held]
    /\ UNCHANGED run
(* docker logs --follow ends with its container.                           *)
FollowerEnds ==
    /\ world.follower /\ ~Up(world, "product")
    /\ world' = [world EXCEPT !.follower = FALSE]
    /\ UNCHANGED run
Rebuild ==
    /\ Rebuilds \/ ~Running
    /\ world.candidate < MaxCandidates
    /\ world' = [world EXCEPT !.candidate = @ + 1]
    /\ UNCHANGED run

-----------------------------------------------------------------------------
(* Nothing under way, or what was under way is forgotten; what counts on.  *)
Idle(profile, proved, operations, troubles) ==
    [state |-> "idle", script |-> "none", verdict |-> "none",
     outcome |-> "none", todo |-> <<>>, claimed |-> {}, network |-> FALSE,
     follows |-> FALSE, owns |-> FALSE, probing |-> FALSE, errors |-> FALSE,
     baseline |-> 0, identity |-> None, tested |-> None,
     profile |-> profile, proved |-> proved, operations |-> operations,
     troubles |-> troubles]

Docker(candidate, evidence) ==
    [containers |-> {}, network |-> FALSE, follower |-> FALSE,
     paused |-> FALSE, deaf |-> FALSE, made |-> 0, held |-> 0, sent |-> 0,
     stored |-> 0, rejected |-> FALSE,
     candidate |-> candidate, evidence |-> evidence]

Scripts == CASE run.profile = "ingestion" -> {"ingestion"}
             [] run.profile = "acceptance" -> {"acceptance"}
             [] OTHER -> Phase \cup {"aggregate"}
Script(s) == CASE s = "ingestion" -> IngestionScript \o IngestionOutage \o Probe
               [] s = "acceptance" -> AcceptanceScript
               [] s = "aggregate" -> Aggregate
               [] OTHER -> PhaseScript(s)

(* Names hold the process id: what an earlier script left is not in the    *)
(* way of this one, and is forgotten here.                                 *)
Begin ==
    /\ ~Running /\ run.operations < MaxOperations
    /\ \E s \in Scripts :
          run' = [Idle(run.profile, run.proved, run.operations + 1,
                       run.troubles)
                     EXCEPT !.state = "body", !.script = s,
                            !.todo = Script(s), !.tested = world.candidate]
    /\ world' = Docker(world.candidate, world.evidence)

Init ==
    /\ world = Docker(1, [p \in Phase \cup {"aggregate"} |-> None])
    /\ \E profile \in {"ingestion", "acceptance", "phases"} :
          run = Idle(profile, {}, 0, 0)

Next ==
    \/ Begin \/ Perform \/ Refuse \/ Fail \/ Exhaust \/ Kill
    \/ Export \/ Deliver \/ FollowerEnds \/ Rebuild

(* The script goes on: its calls and waits have deadlines.                 *)
GoesOn == Perform \/ Refuse

Spec == Init /\ [][Next]_vars
             /\ WF_vars(GoesOn) /\ WF_vars(FollowerEnds)

-----------------------------------------------------------------------------
(* Containers, evidence files and scripts have the values that the steps   *)
(* give them; no sample is sent that Alloy did not get, none made twice.   *)
TypeOK ==
    /\ world.containers \subseteq Container
    /\ world.evidence \in [Phase \cup {"aggregate"} -> 0 .. MaxCandidates]
    /\ run.state \in {"idle", "body", "teardown", "report"}
    /\ run.verdict \in {"none", "passed", "failed", "left over", "killed"}
    /\ (run.state = "idle") = (run.todo = <<>>)
    /\ world.sent <= world.held /\ world.held <= world.made

(* The counter that a recovery check starts from is not a stale one: when  *)
(* the script reads it, Prometheus has everything that Product counted, so *)
(* that the exact difference demanded afterwards accounts for every        *)
(* request of the outage or of Alloy's replacement.  (The counter of       *)
(* requests only: the count of the histogram, read right after it, has no  *)
(* wait of its own, and an exact difference is demanded of it as well.)    *)
NothingMissing ==
    Running /\ Head(run.todo)[1] = "baseline" => world.stored = world.made

(* An evidence file names a candidate that its phase tested and passed,    *)
(* with everything removed afterwards; the aggregate one for which every   *)
(* phase did.  (With Rebuilds a candidate may be replaced during a phase,  *)
(* which reads its identity at the end.)                                   *)
EvidenceTrue ==
    /\ \A p \in Phase : world.evidence[p] # None =>
          <<p, world.evidence[p]>> \in run.proved
    /\ LET c == world.evidence["aggregate"]
       IN c # None => \A p \in Phase : <<p, c>> \in run.proved

(* What the script keeps to, an environment of its own: OwnedEnvironment.  *)
(* Whatever exists counts as held, so nothing is only in the making.       *)
Held == world.network \/ world.containers # {}
Verdict == IF Running THEN "none"
           ELSE IF run.verdict = "none" THEN "idle" ELSE run.verdict
Environment == INSTANCE OwnedEnvironment WITH
    held <- Held, making <- FALSE, verdict <- Verdict

(* The process that follows Product's log does not outlive the script that *)
(* removed what it had started.                                            *)
FollowerGone ==
    world.follower ~> ~world.follower \/ run.verdict \in {"left over", "killed"}
=============================================================================
