------------------------ MODULE ClusterAdministration ------------------------
(***************************************************************************)
(* The administration of the clusters behind k8s/Makefile and              *)
(* k8s/bootstrap/Makefile (k8s/scripts/admin), one command at a time:      *)
(*   nodes     qa.py: the virtual machines of the QA cluster, their        *)
(*             snapshots, K3s on them, the operator's kubeconfig           *)
(*   platform  cluster.py: operators, Secrets and their copies, MinIO,     *)
(*             Zipkin's user, images, and the aggregates that call the     *)
(*             other targets (in the QA environment, which has the copies) *)
(*   local     cluster.py: the Kind cluster and its port forwards          *)
(*                                                                         *)
(* A command is a sequence of steps, and a step is a bounded child process *)
(* or a check.  A step may fail before or after its effect, also because   *)
(* its time or the command's is over.  What a command has to take back or  *)
(* away it owes from before the step that makes it necessary: a failure    *)
(* leads to what is owed, in reverse, with time of its own and errors      *)
(* caught one by one; they are told if nothing had failed before, else in  *)
(* a note that is not printed (only a snapshot that failed tells them).    *)
(* The first SIGINT or SIGTERM is an exception, and after it both are      *)
(* ignored; when it comes while what is owed is being done, nothing        *)
(* catches it.  SIGKILL ends a command anywhere.                           *)
(*                                                                         *)
(* Passwords, images and contents of the kubeconfig are numbers, 0 none.   *)
(* One MinIO service stands for two, two forwards for eleven.  A step is   *)
(* its name and what it is about, "one" where there is only one.           *)
(***************************************************************************)
EXTENDS Integers, Sequences, FiniteSets, SequencesExt

CONSTANTS MaxOperations,  \* bound: commands started
          MaxTroubles,    \* bound: steps that fail, signals
          MaxValues,      \* bound: passwords given
          MaxChanges      \* bound: what others change between commands

VARIABLES world,  \* machines, clusters, files: what commands leave behind
          run     \* the command under way, and the bounds used up

vars == <<world, run>>

Node == {"master", "worker1", "worker2"}
Profiles == {"nodes", "platform", "local"}
None == 0

Selected(masterOnly) == IF masterOnly THEN {"master"} ELSE Node
Existing(w) == {n \in Node : w.vm[n] # "absent"}
In(w, states) == {n \in Node : w.vm[n] \in states}
(* Machines are taken in their order, each with all its steps.             *)
Each(nodes, steps) ==
    LET Of(n) == IF n \in nodes THEN steps[n] ELSE <<>>
    IN Of("master") \o Of("worker1") \o Of("worker2")
Do(name, nodes) == Each(nodes, [n \in Node |-> <<<<name, n>>>>])

-----------------------------------------------------------------------------
(* qa.py.  Machines that exist are kept as they are.                       *)
CreateNodes(w, masterOnly) ==
    Each(Selected(masterOnly) \ Existing(w),
         [n \in Node |-> <<<<"profile", n>>, <<"launch", n>>, <<"agent", n>>,
                           <<"prepare", n>>>>])
JoinWorker(n) ==
    <<<<"pushToken", n>>, <<"join", n>>, <<"removeToken", n>>,
      <<"restart", n>>, <<"active", n>>>>
ClusterCreate(masterOnly) ==
    <<<<"exist", IF masterOnly THEN "master" ELSE "all">>,
      <<"agent", "master">>, <<"serve", "master">>, <<"active", "master">>>>
        \o (IF masterOnly THEN <<>>
            ELSE JoinWorker("worker1") \o JoinWorker("worker2"))
        \o <<<<"nodesReady", IF masterOnly THEN "master" ELSE "all">>,
             <<"judge", "coredns">>>>
PullKubeconfig ==
    <<<<"exist", "master">>, <<"agent", "master">>, <<"readConfig", "one">>,
      <<"backUp", "one">>, <<"replaceConfig", "one">>>>
MutantSnapshotNodes(w) ==
    Each(In(w, {"running"}),
         [n \in Node |-> <<<<"pause", n>>, <<"drop", n>>, <<"snapshot", n>>,
                           <<"start", n>>>>])
(* What runs is paused, and only then is a first snapshot taken.           *)
SnapshotNodes(w) ==
    Do("pause", In(w, {"running"}))
        \o Each(Existing(w),
                [n \in Node |-> IF w.snapshot[n].cut = None
                                THEN <<<<"snapshot", n>>>>
                                ELSE <<<<"drop", n>>, <<"snapshot", n>>>>])
NodeAction(w, action) ==
    CASE action = "suspend" -> Do("pauseNode", In(w, {"running"}))
      [] action = "resume" -> Do("start", In(w, {"stopped", "frozen"}))
      [] action = "restore" ->
            Each(Existing(w),
                 [n \in Node |-> <<<<"restore", n>>, <<"start", n>>>>])
      [] action = "delete" -> Do("delete", Existing(w))
      [] action = "snapshot" -> SnapshotNodes(w)

(* cluster.py.                                                             *)
DeployOperator(o) ==
    <<<<"operator", o>>, <<"established", o>>, <<"judge", "rolledOut">>>>
CreateSecret(p) ==
    IF p = "zipkin" THEN <<<<"secret", p>>>>
    ELSE <<<<"secret", p>>, <<"secretCopy", p>>>>
CopySecret == <<<<"readElastic", "one">>, <<"copyElastic", "one">>>>
(* The tenant's Pod appears and becomes ready in time, or not.             *)
TenantReady == <<<<"judge", "tenantReady">>>>
MinioBucket ==
    TenantReady
        \o <<<<"configure", "one">>, <<"bucket", "one">>,
             <<"judge", "bucket">>, <<"removeFiles", "one">>>>
MinioUserPolicy ==
    TenantReady
        \o <<<<"readMinio", "one">>, <<"configure", "one">>,
             <<"import", "one">>, <<"judge", "confirmed">>,
             <<"removeFiles", "one">>>>
MutantZipkinUser ==
    <<<<"readZipkin", "one">>, <<"request", "one">>, <<"setupPod", "one">>,
      <<"succeeded", "one">>, <<"removePod", "one">>,
      <<"removeRequest", "one">>>>
ZipkinUser ==
    <<<<"readZipkin", "one">>, <<"request", "one">>, <<"deletePod", "one">>,
      <<"setupPod", "one">>, <<"succeeded", "one">>, <<"removePod", "one">>,
      <<"removeRequest", "one">>>>
LoadImage(w) ==
    <<<<"saveImage", "one">>>>
        \o Each(Existing(w),
                [n \in Node |-> <<<<"pushArchive", n>>, <<"importImage", n>>,
                                  <<"removeArchive", n>>>>])
Infra ==
    DeployOperator("postgres") \o DeployOperator("kafka")
        \o CreateSecret("postgres")
        \o <<<<"deploy", "postgres">>, <<"deploy", "kafka">>>>
        \o TenantReady
        \o <<<<"judge", "postgresReady">>, <<"judge", "kafkaReady">>>>
Services(w) ==
    CopySecret \o MinioBucket \o CreateSecret("minio") \o MinioUserPolicy
        \o LoadImage(w) \o <<<<"redeploy", "one">>, <<"judge", "available">>>>

CreateLocalCluster ==
    <<<<"createKind", "one">>, <<"judge", "download">>, <<"metrics", "one">>,
      <<"judge", "patched">>, <<"judge", "rolledOut">>>>
PortForward ==
    <<<<"forward", "kafka">>, <<"forward", "postgres">>, <<"ports", "one">>,
      <<"servePorts", "one">>>>

Commands(profile) ==
    CASE profile = "nodes" ->
           {"create", "master", "cluster", "masterCluster", "pull", "suspend",
            "resume", "restore", "delete", "snapshot"}
      [] profile = "platform" ->
           {"infra", "services", "secret", "zipkinSecret", "user", "zipkin",
            "image"}
      [] profile = "local" -> {"localCreate", "forward", "localDelete"}
Script(w, name) ==
    CASE name = "create" -> CreateNodes(w, FALSE)
      [] name = "master" -> CreateNodes(w, TRUE)
      [] name = "cluster" -> ClusterCreate(FALSE)
      [] name = "masterCluster" -> ClusterCreate(TRUE)
      [] name = "pull" -> PullKubeconfig
      [] name = "infra" -> Infra
      [] name = "services" -> Services(w)
      [] name = "secret" -> CreateSecret("minio")
      [] name = "zipkinSecret" -> CreateSecret("zipkin")
      [] name = "user" -> MinioUserPolicy
      [] name = "zipkin" -> ZipkinUser
      [] name = "image" -> LoadImage(w)
      [] name = "localCreate" -> CreateLocalCluster
      [] name = "forward" -> PortForward
      [] name = "localDelete" ->
            <<<<"deleteStorage", "one">>, <<"deleteKind", "one">>>>
      [] OTHER -> NodeAction(w, name)

-----------------------------------------------------------------------------
NoSnapshot == [cut |-> None, disk |-> {}, quiet |-> FALSE]
Snapshot(w, r, n) == [cut |-> r.operations, disk |-> w.disk[n],
                      quiet |-> \A o \in Node : w.vm[o] # "running"]

(* What must hold for a step to succeed: of a call, at once; of a wait,    *)
(* before its deadline.                                                    *)
Holds(w, r, s) ==
    CASE s[1] \in {"agent", "prepare", "pause", "pauseNode", "pushToken",
                   "pushArchive", "importImage"} -> w.vm[s[2]] = "running"
      [] s[1] \in {"serve", "restart"} -> w.vm[s[2]] = "running"
      [] s[1] = "join" ->
            w.vm[s[2]] = "running" /\ s[2] \in w.tokens
      [] s[1] = "active" -> w.vm[s[2]] = "running" /\ "k3s" \in w.disk[s[2]]
      [] s[1] = "launch" -> w.vm[s[2]] = "absent"
      [] s[1] = "exist" ->
            \A n \in Selected(s[2] = "master") : w.vm[n] # "absent"
      [] s[1] = "nodesReady" ->
            \A n \in Selected(s[2] = "master") :
                w.vm[n] = "running" /\ "k3s" \in w.disk[n]
      [] s[1] = "restore" -> w.snapshot[s[2]].cut # None
      [] s[1] = "snapshot" -> w.snapshot[s[2]].cut = None
      [] s[1] = "readConfig" -> "k3s" \in w.disk["master"]
      [] s[1] = "readMinio" -> w.secret["minio"].data # None
      [] s[1] = "readZipkin" -> w.secret["zipkin"].data # None
      [] s[1] = "succeeded" -> w.pod = "succeeded"
      [] s[1] = "established" -> s[2] \in w.operators
      [] s[1] = "deploy" -> s[2] \in w.operators
      [] s[1] = "redeploy" -> w.secret["minio"].copy # None
      [] s[1] = "createKind" -> ~w.kind
      [] s[1] \in {"metrics", "forward"} -> w.kind
      [] s[1] = "ports" -> w.forwards = {"kafka", "postgres"}
      [] s[1] = "servePorts" -> FALSE
      [] OTHER -> TRUE

Effect(w, r, s) ==
    CASE s[1] = "launch" -> [w EXCEPT !.vm[s[2]] = "running"]
      [] s[1] = "prepare" -> [w EXCEPT !.disk[s[2]] = @ \cup {"prepared"}]
      [] s[1] \in {"pause", "pauseNode"} -> [w EXCEPT !.vm[s[2]] = "frozen"]
      [] s[1] \in {"start", "resume"} -> [w EXCEPT !.vm[s[2]] = "running"]
      [] s[1] = "delete" ->
            [w EXCEPT !.vm[s[2]] = "absent", !.snapshot[s[2]] = NoSnapshot,
                      !.disk[s[2]] = {}, !.tokens = @ \ {s[2]},
                      !.from[s[2]] = NoSnapshot]
      [] s[1] = "drop" -> [w EXCEPT !.snapshot[s[2]] = NoSnapshot]
      [] s[1] = "snapshot" ->
            [w EXCEPT !.snapshot[s[2]] = Snapshot(w, r, s[2])]
      [] s[1] = "restore" ->
            [w EXCEPT !.from[s[2]] = w.snapshot[s[2]],
                      !.disk[s[2]] = w.snapshot[s[2]].disk]
      [] s[1] \in {"serve", "join"} ->
            [w EXCEPT !.disk[s[2]] = @ \cup {"k3s"}]
      [] s[1] = "pushToken" -> [w EXCEPT !.tokens = @ \cup {s[2]}]
      [] s[1] = "removeToken" -> [w EXCEPT !.tokens = @ \ {s[2]}]
      [] s[1] = "backUp" -> [w EXCEPT !.backup = w.config]
      [] s[1] = "replaceConfig" ->
            [w EXCEPT !.config = [r.config EXCEPT !.qa = r.value]]
      [] s[1] = "operator" -> [w EXCEPT !.operators = @ \cup {s[2]}]
      [] s[1] = "secret" -> [w EXCEPT !.secret[s[2]].data = r.value]
      [] s[1] = "secretCopy" -> [w EXCEPT !.secret[s[2]].copy = r.value]
      [] s[1] = "copyElastic" -> [w EXCEPT !.elastic.copy = r.read]
      [] s[1] = "configure" -> [w EXCEPT !.files = TRUE]
      [] s[1] = "import" -> [w EXCEPT !.user = r.read]
      [] s[1] = "removeFiles" -> [w EXCEPT !.files = FALSE]
      [] s[1] = "request" -> [w EXCEPT !.request = r.read]
      [] s[1] \in {"deletePod", "removePod"} -> [w EXCEPT !.pod = "absent"]
      [] s[1] = "setupPod" ->
            [w EXCEPT !.pod = IF @ = "absent" THEN "pending" ELSE @]
      [] s[1] = "removeRequest" -> [w EXCEPT !.request = None]
      [] s[1] = "pushArchive" -> [w EXCEPT !.archives = @ \cup {s[2]}]
      [] s[1] = "importImage" -> [w EXCEPT !.images[s[2]] = r.read]
      [] s[1] = "removeArchive" -> [w EXCEPT !.archives = @ \ {s[2]}]
      [] s[1] = "redeploy" ->
            [w EXCEPT !.served = [password |-> w.secret["minio"].copy,
                                  elastic |-> w.elastic.copy]]
      [] s[1] = "createKind" -> [w EXCEPT !.kind = TRUE]
      [] s[1] = "deleteKind" -> [w EXCEPT !.kind = FALSE, !.forwards = {}]
      [] s[1] = "forward" -> [w EXCEPT !.forwards = @ \cup {s[2]}]
      [] s[1] = "endForward" -> [w EXCEPT !.forwards = @ \ {s[2]}]
      [] OTHER -> w

(* Local variables of the command.                                         *)
Learns(w, r, s) ==
    CASE s[1] = "readMinio" -> [r EXCEPT !.read = w.secret["minio"].data]
      [] s[1] = "readZipkin" -> [r EXCEPT !.read = w.secret["zipkin"].data]
      [] s[1] = "readElastic" -> [r EXCEPT !.read = w.elastic.data]
      [] s[1] = "saveImage" -> [r EXCEPT !.read = w.built]
      [] s[1] = "readConfig" -> [r EXCEPT !.config = w.config]
      [] OTHER -> r

-----------------------------------------------------------------------------
Running == run.state \in {"body", "cleanup"}

NoConfig == [qa |-> None, others |-> 0]

(* No command is under way, and nothing is known of the last one but its   *)
(* name.                                                                   *)
Idle(r) ==
    [r EXCEPT !.state = "idle", !.verdict = "none", !.outcome = "none",
              !.todo = <<>>, !.owed = <<>>, !.errors = FALSE,
              !.masked = FALSE, !.asked = FALSE, !.value = None,
              !.read = None, !.ran = {}, !.missed = {}, !.config = NoConfig]

(* What a command owes from before the step, and what a step settles.      *)
Owes(s) ==
    CASE s[1] = "pause" -> <<<<"resume", s[2]>>>>
      [] s[1] = "pushToken" -> <<<<"removeToken", s[2]>>>>
      [] s[1] = "configure" -> <<<<"removeFiles", "one">>>>
      [] s[1] = "request" ->
            <<<<"removeRequest", "one">>, <<"removePod", "one">>>>
      [] s[1] = "pushArchive" -> <<<<"removeArchive", s[2]>>>>
      [] s[1] = "forward" -> <<<<"endForward", s[2]>>>>
      [] OTHER -> <<>>
MutantOwing(r, s, done) ==
    IF done THEN [r EXCEPT !.owed = @ \o Owes(s)] ELSE r
Owing(r, s, done) ==
    [r EXCEPT !.owed = @ \o Owes(s), !.asked = @ \/ s[1] = "request"]
(* What is owed is nested: what was owed last is settled first.            *)
Settled(r, s) ==
    IF r.owed # <<>> /\ Last(r.owed) = s THEN [r EXCEPT !.owed = Front(@)]
    ELSE r
Cleaning(r, s) == r.state = "cleanup" \/ s \in ToSet(r.owed)

Ends(r, verdict) ==
    [Idle(r) EXCEPT !.verdict = verdict, !.errors = r.errors,
                    !.complete = IF r.script = "snapshot"
                                 THEN verdict = "passed" /\ r.missed = {}
                                 ELSE @]
(* Errors of what is owed are told: the verdict is leftOver.  An error     *)
(* before them has a note of them added instead, and cli_error prints      *)
(* none; the snapshot command has them in its message.                     *)
Told(r, verdict) ==
    verdict = "passed" \/ (r.script = "snapshot" /\ verdict = "failed")
(* The finally blocks, and what the command says after them.               *)
Finally(r, verdict) ==
    CASE r.owed # <<>> -> [r EXCEPT !.state = "cleanup", !.outcome = verdict,
                                    !.todo = Reverse(r.owed)]
      [] r.owed = <<>> /\ r.errors /\ Told(r, verdict) -> Ends(r, "leftOver")
      [] OTHER -> Ends(r, verdict)
Advanced(r) ==
    IF Len(r.todo) > 1 THEN [r EXCEPT !.todo = Tail(@)]
    ELSE Finally(r, IF r.state = "body" THEN "passed" ELSE r.outcome)

Perform ==
    LET s == Head(run.todo)
        r == Settled(Owing(Learns(world, run, s), s, TRUE), s)
    IN /\ Running /\ Holds(world, run, s)
       /\ world' = Effect(world, run, s)
       /\ run' = Advanced(r)

(* An error of what is owed is recorded, any other ends the body.          *)
Raised(r, s) ==
    CASE r.state = "cleanup" ->
            Advanced(Settled([r EXCEPT !.errors = TRUE], s))
      [] r.state = "body" /\ Cleaning(r, s) ->
            Finally(Settled([r EXCEPT !.errors = TRUE], s), "leftOver")
      [] OTHER -> Finally(r, "failed")

(* A call that cannot succeed, a wait at its deadline, a check.            *)
Refuse ==
    LET s == Head(run.todo)
    IN /\ Running /\ (~Holds(world, run, s) \/ s[1] = "judge")
       /\ run' = Raised(Owing(run, s, FALSE), s)
       /\ UNCHANGED world

Trouble == run.troubles < MaxTroubles

Fail ==
    LET s == Head(run.todo)
        r == [run EXCEPT !.troubles = @ + 1]
    IN /\ Running /\ Trouble /\ Holds(world, run, s)
       /\ \E done \in BOOLEAN :
            /\ world' = IF done /\ s[1] # "forward"
                        THEN Effect(world, run, s) ELSE world
            /\ run' = Raised(IF s[1] = "forward" THEN r
                             ELSE Owing(r, s, FALSE), s)

(* cli_error: the first signal raises, further ones are ignored.  A        *)
(* forward that has just been started may not be on the list of those to   *)
(* end yet.                                                                *)
Interrupt ==
    LET s == Head(run.todo)
        Marked(mark) == [run EXCEPT !.troubles = @ + 1, !.masked = TRUE,
                                    !.errors = @ \/ mark]
    IN /\ Running /\ ~run.masked /\ Trouble
       /\ \E done \in BOOLEAN :
            /\ done => Holds(world, run, s)
            /\ world' = IF done THEN Effect(world, run, s) ELSE world
            /\ run' = IF Cleaning(run, s)
                      THEN Ends(Marked(TRUE), "interrupted")
                      ELSE Finally(IF s[1] = "forward" THEN Marked(done)
                                   ELSE Owing(Marked(FALSE), s, FALSE),
                                   "interrupted")

(* The time of an aggregate is over, or a signal has come, while a target  *)
(* that it called is at work: the target has some seconds to clean up.     *)
CutOff ==
    /\ Running /\ run.script = "services" /\ Trouble
    /\ run' = [Ends(run, "cutOff") EXCEPT !.troubles = @ + 1]
    /\ UNCHANGED world

Kill ==
    /\ Running /\ Trouble
    /\ run' = [Ends(run, "killed") EXCEPT !.troubles = @ + 1]
    /\ UNCHANGED world

-----------------------------------------------------------------------------
(* The setup Pod mounts the request and puts role and user.                *)
PodRuns ==
    /\ world.pod = "pending" /\ world.request # None
    /\ \/ world' = [world EXCEPT !.zipkin = world.request, !.pod = "succeeded"]
       \/ world' = [world EXCEPT !.pod = "failed"]
    /\ UNCHANGED run
(* kubectl port-forward ends: its port is taken, its Pod is gone.          *)
ForwardEnds ==
    /\ \E p \in world.forwards :
          world' = [world EXCEPT !.forwards = @ \ {p}]
    /\ UNCHANGED run
(* Between commands: a machine stops, an image is built, another tool      *)
(* changes the kubeconfig.                                                 *)
Outside ==
    /\ ~Running /\ world.changes < MaxChanges
    /\ \/ /\ run.profile = "nodes"
          /\ \E n \in Node :
                /\ world.vm[n] = "running"
                /\ world' = [world EXCEPT !.vm[n] = "stopped",
                                          !.changes = @ + 1]
       \/ /\ run.profile = "nodes"
          /\ world' = [world EXCEPT !.config.others = @ + 1,
                                    !.changes = @ + 1]
       \/ /\ run.profile = "platform"
          /\ \/ world' = [world EXCEPT !.built = @ + 1, !.changes = @ + 1]
             \/ world' = [world EXCEPT !.elastic.data = @ + 1,
                                       !.changes = @ + 1]
    /\ UNCHANGED run

(* Commands that are given a password, or that find an address.           *)
Valued == {"infra", "services", "secret", "zipkinSecret", "pull"}

(* _exists: a query that fails or takes too long is answered with no.      *)
Asking == {"create", "master", "suspend", "resume", "restore", "delete",
           "snapshot"}
Seen(w, missed) ==
    [w EXCEPT !.vm = [n \in Node |-> IF n \in missed THEN "absent"
                                     ELSE w.vm[n]]]

(* Temporary names hold the process id: what an earlier command left       *)
(* there is forgotten here, and only there.                                *)
Begin ==
    /\ ~Running /\ run.operations < MaxOperations
    /\ \E name \in Commands(run.profile) :
       \E value \in IF name \in Valued THEN 1 .. MaxValues ELSE {None} :
       \E missed \in SUBSET Existing(world) :
          /\ missed # {} => name \in Asking /\ Trouble
          /\ Script(Seen(world, missed), name) # <<>>
          /\ run' = [Idle(run) EXCEPT
                        !.state = "body", !.script = name,
                        !.todo = Script(Seen(world, missed), name),
                        !.value = value, !.missed = missed,
                        !.ran = IF name = "snapshot"
                                THEN In(world, {"running"}) ELSE {},
                        !.operations = @ + 1,
                        !.troubles = IF missed = {} THEN @ ELSE @ + 1]
    /\ world' = [world EXCEPT !.tokens = {}, !.archives = {},
                              !.files = FALSE, !.forwards = {},
                              !.from = [n \in Node |-> NoSnapshot]]

Init ==
    \E profile \in Profiles :
    \E up \in IF profile = "nodes" THEN BOOLEAN ELSE {profile = "platform"} :
        /\ run = [profile |-> profile, script |-> "none", state |-> "idle",
                  verdict |-> "none", outcome |-> "none", todo |-> <<>>,
                  owed |-> <<>>, errors |-> FALSE, masked |-> FALSE,
                  asked |-> FALSE, value |-> None, read |-> None, ran |-> {},
                  missed |-> {}, config |-> NoConfig, operations |-> 0,
                  troubles |-> 0, complete |-> FALSE]
        /\ world =
             [vm |-> [n \in Node |-> IF up THEN "running" ELSE "absent"],
              disk |-> [n \in Node |-> IF up THEN {"prepared"} ELSE {}],
              snapshot |-> [n \in Node |-> NoSnapshot],
              from |-> [n \in Node |-> NoSnapshot], tokens |-> {},
              config |-> NoConfig, backup |-> NoConfig,
              operators |-> {}, kind |-> FALSE, forwards |-> {},
              secret |-> [p \in {"postgres", "minio", "zipkin"} |->
                            [data |-> IF p = "zipkin" THEN 1 ELSE None,
                             copy |-> None]],
              elastic |-> [data |-> 1, copy |-> None],
              user |-> None, files |-> FALSE, zipkin |-> None,
              request |-> None, pod |-> "absent",
              built |-> 1, images |-> [n \in Node |-> None], archives |-> {},
              served |-> [password |-> None, elastic |-> None],
              changes |-> 0]

Next ==
    \/ Begin \/ Perform \/ Refuse \/ Fail \/ Interrupt \/ CutOff \/ Kill
    \/ PodRuns \/ ForwardEnds \/ Outside

Spec == Init /\ [][Next]_vars

-----------------------------------------------------------------------------
(* Machines, Pods and commands have one of the states that the steps above *)
(* know, and a command that has ended owes nothing.                        *)
TypeOK ==
    /\ world.vm \in [Node -> {"absent", "running", "frozen", "stopped"}]
    /\ world.pod \in {"absent", "pending", "succeeded", "failed"}
    /\ run.state \in {"idle", "body", "cleanup"}
    /\ (run.state = "idle") = (run.todo = <<>>)
    /\ run.state = "idle" => run.owed = <<>>

(* A command ends, and of what it owed something may be left that it does  *)
(* not tell: a step of its clean-up failed after another error, a signal   *)
(* cut it off, or came while a forward was being started.                  *)
Reports == Running /\ run'.state = "idle"
Clean == {"passed", "failed", "interrupted"}
Untold == run'.errors

(* A snapshot command that passes or says that it failed, and not that a   *)
(* resume failed, has every machine running that ran when it began: also   *)
(* those whose pause was answered with an error, and those it missed.  One *)
(* that is interrupted has, unless its resuming failed or was cut off,     *)
(* which it does not tell.                                                 *)
Resumed ==
    Reports /\ run.script = "snapshot" /\ run'.verdict \in Clean
            /\ (run'.verdict = "interrupted" => ~Untold) =>
        \A n \in run.ran : world'.vm[n] = "running"

(* What is restored is one cut: machines restored from snapshots of one    *)
(* command, none of which was taken while any of them was running.  This   *)
(* is so if the last snapshot command passed (one that fails has replaced  *)
(* some of the snapshots of that name) and missed no machine, and of the   *)
(* machines that the restoring command itself does not miss: a query that  *)
(* fails counts as a machine that does not exist, and both pass without.   *)
RestoredTogether ==
    Reports /\ run.script = "restore" /\ run'.verdict = "passed"
            /\ run.complete =>
        \A n, o \in Existing(world') \ run.missed :
            /\ world'.from[n].cut = world'.from[o].cut
            /\ world'.from[n].quiet

(* Join tokens, root credentials in the MinIO Pod, Zipkin's request, image *)
(* archives and forwards do not outlive the command that made them, if it  *)
(* passes; nor if it fails or is interrupted and says nothing of them,     *)
(* unless there is what it does not tell.                                  *)
ProtectedGone ==
    Reports /\ run'.verdict \in Clean
            /\ (run'.verdict # "passed" => ~Untold) =>
        /\ world'.tokens = {} /\ world'.archives = {}
        /\ ~world'.files /\ world'.forwards = {}
        /\ run.asked =>
              world'.request = None /\ world'.pod = "absent"

(* Zipkin's user has the password of Zipkin's Secret: no Pod of an earlier *)
(* command that was killed is taken for this one's.                        *)
ZipkinDone ==
    Reports /\ run.script = "zipkin" /\ run'.verdict = "passed" =>
        world'.zipkin = world'.secret["zipkin"].data

(* After the services aggregate MinIO, both Secrets and the services that  *)
(* read one at their start agree, and every machine has the image built.   *)
InStep ==
    Reports /\ run.script = "services" /\ run'.verdict = "passed" =>
        /\ world'.user = run.value
        /\ world'.secret["minio"] = [data |-> run.value, copy |-> run.value]
        /\ world'.served = [password |-> run.value,
                            elastic |-> world'.elastic.data]
        /\ \A n \in Existing(world') : world'.images[n] = world'.built

(* A merge that fails or is cut short anywhere leaves the kubeconfig as it *)
(* was or merged, with what others wrote before, and its backup is what it *)
(* was.  (Between the read and the replacement no lock keeps others out:   *)
(* Outside acts between commands.)                                         *)
PreviousKept ==
    run.script = "pull" /\ world'.config # world.config /\ Running =>
        /\ world'.config.others = world.config.others
        /\ world.backup = world.config
=============================================================================
