----------------------- MODULE ServiceDeploymentProofs -----------------------
(***************************************************************************)
(* Proofs about ServiceDeployment, for any images, attempts, failures and  *)
(* overlapping releases: a release keeps what earlier ones put on main,    *)
(* and product-service runs from an image only behind the initialization   *)
(* Job of that very release.                                               *)
(*                                                                         *)
(* Two ways lead to a Pod.  In QA Flux applies the API's owner when the    *)
(* owner it depends on is ready, and the invariant says that this one has  *)
(* seen its Job complete and that nothing prunes the Job.  In local-dev a  *)
(* command applies the Deployment itself, and the invariant says of the    *)
(* steps ahead that the wait for the Job comes before the apply.           *)
(***************************************************************************)
EXTENDS MCAdministration, SequenceTheorems, TLAPS

\* There is an image, and an attempt at its release.
Bounds == MaxImages \in Nat \ {0} /\ MaxAttempts \in Nat \ {0}

-----------------------------------------------------------------------------
(* Types.                                                                  *)

Pods == {"beside", "outside"}
Kind == {"judge", "fluxRelease", "liveBefore", "live", "load", "applyJob",
         "complete", "initialized", "apply", "rolledOut", "forward",
         "endForwards", "probe", "try", "noNamespace", "createNamespace",
         "createPod", "succeeded", "deletePod", "deleteNamespace",
         "readVersion", "scaleIf", "notReady", "noEndpoint", "scale",
         "noReplicas"}
Detail == Pods \cup
          {"one", "render", "eventActivation", "coordinates", "flux",
           "secretAndImage", "gatewayRoute", "route", "snapshot", "role",
           "administration", "Job", "dryRun", "security", "search",
           "operations", "directRPC", "dependencies"}
Step == {s \in Kind \X Detail : s[1] \in {"createPod", "deletePod"} =>
                                    s[2] \in Pods}
Debt == {<<"endForwards", "one">>, <<"deleteNamespace", "one">>,
         <<"deletePod", "beside">>, <<"deletePod", "outside">>}

Deployment == [image : Image, replicas : {0, 1}, generation : Nat \ {0}]
Status == [seen : Nat \ {0}, current : SUBSET Image, ready : SUBSET Image]
Bundle == [inits : SUBSET Release, api : Release]
World ==
    [dep : Deployment, status : Status,
     pod : [Image -> {"absent", "starting", "ready", "ending"}],
     broken : SUBSET Image, loaded : SUBSET Image,
     job : [Release -> {"absent", "running", "complete", "failed"}],
     table : BOOLEAN, probes : SUBSET ({"namespace"} \cup Pods),
     forwards : BOOLEAN, attempt : 1 .. MaxAttempts,
     main : Bundle, tree : Seq(Bundle), pushed : Nat, pending : Nat,
     workflow : {NoRelease} \cup (Nat \X Image), built : Image,
     applied : Bundle,
     init : [Release -> {"none", "running", "ready", "failed"}],
     api : [release : Release, ready : BOOLEAN]]
Run ==
    [state : {"idle", "body", "cleanup"},
     script : {"none", "preflight", "image-load", "deploy", "status",
               "verify", "stop"},
     image : Image \cup {None}, previous : Image \cup {None},
     attempt : Nat, release : Release \cup {NoRelease},
     version : {<<>>} \cup (Deployment \X Status),
     todo : Seq(Step), owed : Seq(Debt), failed : BOOLEAN, lost : BOOLEAN,
     disturbed : BOOLEAN,
     verdict : {"none", "passed", "failed", "interrupted", "killed"},
     service : Services, mode : {"direct", "flux"}, operations : Nat,
     faults : Nat]

-----------------------------------------------------------------------------
(* The inductive invariant.                                                *)

\* The controller has seen no generation that is still to come.
Seen(w) == w.status.seen <= w.dep.generation

\* A command has something to do, and knows the release; when it ends it
\* owes nothing, and what it cleans up is what it owed.
Attended(r) ==
    /\ r.state = "idle" <=> r.todo = <<>>
    /\ r.state = "idle" => r.owed = <<>>
    /\ r.state # "idle" => r.image \in Image /\ r.attempt \in 1 .. MaxAttempts
    /\ r.state = "cleanup" => r.todo \in Seq(Debt)

\* Product's main holds every prerequisite that was applied; the other
\* services have none.
Grown(w, service) ==
    IF service = "product" THEN w.applied.inits \subseteq w.main.inits
    ELSE w.main.inits = {}

\* An owner that is ready has seen its Job complete.
Initialized(w) ==
    \A r \in Release : w.init[r] = "ready" => w.job[r] = "complete"

\* No apply comes before the wait for the Job, unless the Job is complete.
Guarded(todo, complete) ==
    \A k \in 1 .. Len(todo) :
        todo[k][1] = "apply" =>
            complete \/ \E j \in 1 .. k : todo[j][1] = "complete"

\* What a Product command has ahead.
Ahead(w, r) ==
    r.service = "product" /\ r.state = "body" =>
        /\ \A k \in 1 .. Len(r.todo) : r.todo[k][1] \notin Collected
        /\ Guarded(r.todo, w.job[Job(r)] = "complete")

\* Unlocked of a world: every image that runs or will run has its Job.
Behind(w, service) ==
    service = "product" =>
        \A i \in Present(w) \cup {w.dep.image} :
            \E a \in 1 .. MaxAttempts : w.job[<<i, a>>] = "complete"

IInv ==
    /\ world \in World /\ Seen(world)
    /\ run \in Run /\ Attended(run)
    /\ Grown(world, run.service) /\ Initialized(world)
    /\ Ahead(world, run) /\ Behind(world, run.service)

-----------------------------------------------------------------------------
(* The steps of the scripts.                                               *)

\* What is a step.
LEMMA Steps ==
    /\ \A k \in Kind \ {"createPod", "deletePod"}, d \in Detail :
           <<k, d>> \in Step
    /\ \A p \in Pods : <<"createPod", p>> \in Step
                       /\ <<"deletePod", p>> \in Step
<1>1. ASSUME NEW k \in Kind \ {"createPod", "deletePod"}, NEW d \in Detail
      PROVE  <<k, d>> \in Step
  <2>1. /\ <<k, d>> \in Kind \X Detail /\ <<k, d>>[1] = k
        /\ k \notin {"createPod", "deletePod"}
    OBVIOUS
  <2> QED
    BY <2>1, Zenon DEF Step
<1>2. ASSUME NEW p \in Pods, NEW k \in {"createPod", "deletePod"}
      PROVE  <<k, p>> \in Step
  <2>1. /\ k \in Kind /\ p \in Detail
    BY DEF Kind, Detail
  <2>2. /\ <<k, p>> \in Kind \X Detail /\ <<k, p>>[2] \in Pods
    BY <2>1
  <2> QED
    BY <2>2, Zenon DEF Step
<1> QED
  BY <1>1, <1>2

\* A few steps, one after the other.
LEMMA Tuples ==
    ASSUME NEW a \in Step, NEW b \in Step, NEW c \in Step, NEW d \in Step,
           NEW e \in Step, NEW f \in Step
    PROVE  /\ <<a>> \in Seq(Step) /\ Len(<<a>>) = 1
           /\ <<a, b>> \in Seq(Step) /\ Len(<<a, b>>) = 2
           /\ <<a, b, c>> \in Seq(Step) /\ Len(<<a, b, c>>) = 3
           /\ <<a, b, c, d, e>> \in Seq(Step)
           /\ <<a, b, c, d, e, f>> \in Seq(Step)
OBVIOUS

LEMMA Single ==
    \A k \in Kind \ {"createPod", "deletePod"}, d \in Detail :
        <<<<k, d>>>> \in Seq(Step) /\ Len(<<<<k, d>>>>) = 1
BY Steps, Tuples, Zenon

LEMMA Double ==
    \A k, l \in Kind \ {"createPod", "deletePod"}, d, e \in Detail :
        /\ <<<<k, d>>, <<l, e>>>> \in Seq(Step)
        /\ Len(<<<<k, d>>, <<l, e>>>>) = 2
BY Steps, Tuples

\* The pieces that scripts are put together from, as sequences of steps.
LEMMA Pieces ==
    /\ <<<<"judge", "coordinates">>>> \in Seq(Step)
    /\ ProductRendered \in Seq(Step) /\ SearchRendered \in Seq(Step)
    /\ EventActivation \in Seq(Step) /\ <<<<"judge", "render">>>> \in Seq(Step)
    /\ <<<<"fluxRelease", "one">>>> \in Seq(Step)
    /\ <<<<"judge", "flux">>>> \in Seq(Step)
    /\ Prerequisites \in Seq(Step) /\ LocalAdministrationJob \in Seq(Step)
    /\ GatewayRoute \in Seq(Step) /\ Route \in Seq(Step)
    /\ Snapshot \in Seq(Step) /\ SameSnapshot \in Seq(Step)
    /\ RoleAction \in Seq(Step) /\ Rollout \in Seq(Step)
    /\ Forwards \in Seq(Step) /\ EndForwards \in Seq(Step)
    /\ <<<<"live", "one">>>> \in Seq(Step) /\ <<<<"load", "one">>>> \in Seq(Step)
    /\ <<<<"probe", "security">>>> \in Seq(Step)
    /\ <<<<"probe", "search">>>> \in Seq(Step)
    /\ Dependencies \in Seq(Step) /\ SharedOperations \in Seq(Step)
    /\ DirectRPC \in Seq(Step) /\ <<<<"try", "snapshot">>>> \in Seq(Step)
<1>1. /\ <<<<"judge", "coordinates">>>> \in Seq(Step)
      /\ <<<<"judge", "render">>>> \in Seq(Step)
      /\ <<<<"judge", "eventActivation">>>> \in Seq(Step)
      /\ <<<<"fluxRelease", "one">>>> \in Seq(Step)
      /\ <<<<"judge", "flux">>>> \in Seq(Step)
  BY Single DEF Kind, Detail
<1>2. /\ <<<<"judge", "gatewayRoute">>>> \in Seq(Step)
      /\ <<<<"judge", "route">>>> \in Seq(Step)
      /\ <<<<"judge", "snapshot">>>> \in Seq(Step)
      /\ <<<<"judge", "role">>>> \in Seq(Step)
      /\ <<<<"judge", "dependencies">>>> \in Seq(Step)
  BY Single DEF Kind, Detail
<1>3. /\ <<<<"forward", "one">>>> \in Seq(Step)
      /\ <<<<"endForwards", "one">>>> \in Seq(Step)
      /\ <<<<"live", "one">>>> \in Seq(Step) /\ <<<<"load", "one">>>> \in Seq(Step)
  BY Single DEF Kind, Detail
<1>4. /\ <<<<"probe", "security">>>> \in Seq(Step)
      /\ <<<<"probe", "search">>>> \in Seq(Step)
      /\ <<<<"try", "operations">>>> \in Seq(Step)
      /\ <<<<"try", "directRPC">>>> \in Seq(Step)
      /\ <<<<"try", "snapshot">>>> \in Seq(Step)
  BY Single DEF Kind, Detail
<1>5. Prerequisites \in Seq(Step)
  BY Double DEF Prerequisites, Kind, Detail
<1>6. Rollout \in Seq(Step)
  <2>1. /\ <<"judge", "dryRun">> \in Step /\ <<"apply", "one">> \in Step
        /\ <<"rolledOut", "one">> \in Step
    BY Steps DEF Kind, Detail
  <2> QED
    BY <2>1, Tuples DEF Rollout
<1>7. LocalAdministrationJob \in Seq(Step)
  <2>1. /\ <<"judge", "administration">> \in Step /\ <<"judge", "Job">> \in Step
        /\ <<"applyJob", "one">> \in Step /\ <<"complete", "one">> \in Step
        /\ <<"initialized", "one">> \in Step
    BY Steps DEF Kind, Detail
  <2> QED
    BY <2>1, Tuples DEF LocalAdministrationJob
<1> QED
  BY <1>1, <1>2, <1>3, <1>4, <1>5, <1>6, <1>7
     DEF ProductRendered, SearchRendered, EventActivation, GatewayRoute, Route,
         Snapshot, SameSnapshot, RoleAction, Forwards, EndForwards,
         Dependencies, SharedOperations, DirectRPC

\* Two sequences of steps make one.
LEMMA Both ==
    \A a, b \in Seq(Step) : a \o b \in Seq(Step) /\ Len(a \o b) = Len(a) + Len(b)
BY ConcatProperties

LEMMA QualificationIs ==
    /\ Qualification \in Seq(Step) /\ Len(Qualification) = 9
    /\ \A p \in Pods : AccessQualification(p) \in Seq(Step)
    /\ \A p : Len(AccessQualification(p)) = 3
<1>1. /\ \A p \in Pods : AccessQualification(p) \in Seq(Step)
      /\ \A p : Len(AccessQualification(p)) = 3
  <2>1. ASSUME NEW p \in Pods PROVE AccessQualification(p) \in Seq(Step)
    <3>1. /\ <<"createPod", p>> \in Step /\ <<"deletePod", p>> \in Step
          /\ <<"succeeded", p>> \in Step
      BY Steps DEF Kind, Detail
    <3> QED
      BY <3>1, Tuples
         DEF AccessQualification, QualificationPod, QualificationOutput
  <2>2. \A p : Len(AccessQualification(p)) = 3
    BY DEF AccessQualification
  <2> QED
    BY <2>1, <2>2
<1> DEFINE a == <<<<"noNamespace", "one">>, <<"createNamespace", "one">>>>
           z == <<<<"deleteNamespace", "one">>>>
           b == AccessQualification("beside")
           c == AccessQualification("outside")
<1>2. /\ a \in Seq(Step) /\ Len(a) = 2 /\ z \in Seq(Step) /\ Len(z) = 1
  BY Single, Double DEF Kind, Detail
<1>3. /\ b \in Seq(Step) /\ Len(b) = 3 /\ c \in Seq(Step) /\ Len(c) = 3
  BY <1>1 DEF Pods
<1>4. Qualification = a \o b \o c \o z
  BY DEF Qualification, QualificationPods
<1> HIDE DEF a, b, c, z
<1> DEFINE ab == a \o b
           abc == ab \o c
<1>5. /\ ab \in Seq(Step) /\ Len(ab) = 5
  <2>1. ab \in Seq(Step) /\ Len(ab) = Len(a) + Len(b)
    BY <1>2, <1>3, Both, Zenon
  <2> QED
    BY <1>2, <1>3, <2>1
<1> HIDE DEF ab
<1>6. /\ abc \in Seq(Step) /\ Len(abc) = 8
  <2>1. abc \in Seq(Step) /\ Len(abc) = Len(ab) + Len(c)
    BY <1>3, <1>5, Both, Zenon
  <2> QED
    BY <1>3, <1>5, <2>1
<1> HIDE DEF abc
<1>7. abc \o z \in Seq(Step) /\ Len(abc \o z) = 9
  <2>1. abc \o z \in Seq(Step) /\ Len(abc \o z) = Len(abc) + Len(z)
    BY <1>2, <1>6, Both, Zenon
  <2> QED
    BY <1>2, <1>6, <2>1
<1> QED
  BY <1>1, <1>4, <1>7 DEF ab, abc

\* The scripts of a release's service are sequences of steps.
LEMMA Scripts ==
    ASSUME NEW r, r.service \in Services
    PROVE  /\ Target(r) \in Seq(Step) /\ FluxSource(r) \in Seq(Step)
           /\ Deploy(r) \in Seq(Step) /\ ProductVerify \in Seq(Step)
           /\ SearchVerify \in Seq(Step) /\ DashboardVerify \in Seq(Step)
           /\ ProductStop \in Seq(Step) /\ Stop \in Seq(Step)
<1>1. Target(r) \in Seq(Step)
  <2>1. DashboardRendered \in Seq(Step)
    BY Both, Pieces DEF DashboardRendered
  <2>2. Rendered(r) \in Seq(Step)
    BY <2>1, Pieces, Zenon DEF Rendered, Services
  <2> QED
    BY <2>2, Both, Pieces DEF Target
<1>2. FluxSource(r) \in Seq(Step)
  BY Pieces, EmptySeq DEF FluxSource
<1>3. Deploy(r) \in Seq(Step)
  <2> DEFINE a == IF r.service = "product" THEN LocalAdministrationJob ELSE <<>>
             b == Prerequisites \o a
             c == b \o Snapshot
             d == c \o Rollout
             e == d \o <<<<"live", "one">>>>
  <2>1. a \in Seq(Step)
    BY Pieces, EmptySeq
  <2>2. Deploy(r) = e \o SameSnapshot
    BY DEF Deploy
  <2> HIDE DEF a
  <2>3. b \in Seq(Step)
    BY <2>1, Both, Pieces
  <2> HIDE DEF b
  <2>4. c \in Seq(Step)
    BY <2>3, Both, Pieces
  <2> HIDE DEF c
  <2>5. d \in Seq(Step)
    BY <2>4, Both, Pieces
  <2> HIDE DEF d
  <2>6. e \in Seq(Step)
    BY <2>5, Both, Pieces
  <2> HIDE DEF e
  <2> QED
    BY <2>2, <2>6, Both, Pieces
<1>4. ProductVerify \in Seq(Step) /\ SearchVerify \in Seq(Step)
  BY Both, Pieces DEF ProductVerify, SearchVerify
<1>5. DashboardVerify \in Seq(Step)
  BY Both, Pieces, QualificationIs DEF DashboardVerify
<1>6. ProductStop \in Seq(Step) /\ Stop \in Seq(Step)
  <2>1. /\ <<<<"readVersion", "one">>, <<"scaleIf", "one">>,
             <<"rolledOut", "one">>, <<"notReady", "one">>,
             <<"noEndpoint", "one">>>> \in Seq(Step)
        /\ <<<<"scale", "one">>, <<"noReplicas", "one">>>> \in Seq(Step)
    <3>1. /\ <<"readVersion", "one">> \in Step /\ <<"scaleIf", "one">> \in Step
          /\ <<"rolledOut", "one">> \in Step /\ <<"notReady", "one">> \in Step
          /\ <<"noEndpoint", "one">> \in Step
      BY Steps DEF Kind, Detail
    <3> QED
      BY <3>1, Tuples, Double DEF Kind, Detail
  <2> QED
    BY <2>1, Both, Pieces DEF ProductStop, Stop
<1> QED
  BY <1>1, <1>2, <1>3, <1>4, <1>5, <1>6

LEMMA ScriptSteps ==
    ASSUME NEW r, r.service \in Services,
           r.script \in Operations("direct") \cup Operations("flux")
    PROVE  Script(r) \in Seq(Step) /\ Script(r) # <<>>
<1> DEFINE body ==
      CASE r.script = "preflight" -> Prerequisites
       [] r.script = "image-load" -> Prerequisites \o <<<<"load", "one">>>>
       [] r.script = "deploy" -> Deploy(r)
       [] r.script = "status" ->
            <<<<"live", "one">>>> \o IF r.service = "product" THEN GatewayRoute
                                 ELSE Route
       [] r.script = "verify" ->
            (CASE r.service = "product" -> ProductVerify
               [] r.service = "dashboard" -> DashboardVerify
               [] r.service = "policy-search" -> SearchVerify)
       [] r.script = "stop" ->
            IF r.service = "product" THEN ProductStop ELSE Stop
<1>1. body \in Seq(Step)
  <2>1. CASE r.script = "preflight"
    BY <2>1, Pieces
  <2>2. CASE r.script = "image-load"
    BY <2>2, Pieces, Both
  <2>3. CASE r.script = "deploy"
    BY <2>3, Scripts
  <2>4. CASE r.script = "status"
    BY <2>4, Pieces, Both
  <2>5. CASE r.script = "verify"
    BY <2>5, Scripts DEF Services
  <2>6. CASE r.script = "stop"
    BY <2>6, Scripts
  <2> QED
    BY <2>1, <2>2, <2>3, <2>4, <2>5, <2>6, Zenon DEF Operations
<1>2. Script(r) = Target(r) \o FluxSource(r) \o body
  BY DEF Script
<1> HIDE DEF body
<1>3. Script(r) \in Seq(Step)
  BY <1>1, <1>2, Scripts, Both
<1> DEFINE one == <<<<"judge", "coordinates">>>>
<1>4. Target(r) = one \o Rendered(r) /\ Rendered(r) \in Seq(Step)
  <2>1. DashboardRendered \in Seq(Step)
    BY Both, Pieces DEF DashboardRendered
  <2> QED
    BY <2>1, Pieces, Zenon DEF Rendered, Services, Target
<1>5. one \in Seq(Step) /\ Len(one) = 1
  BY Pieces
<1> HIDE DEF one
<1>6. Len(Target(r)) \in Nat \ {0}
  BY <1>4, <1>5, ConcatProperties, LenProperties
<1>7. Len(Script(r)) \in Nat \ {0}
  <2> DEFINE rest == FluxSource(r) \o body
  <2>1. /\ FluxSource(r) \in Seq(Step) /\ Target(r) \in Seq(Step)
    BY Scripts
  <2>2. Len(Target(r) \o FluxSource(r)) = Len(Target(r)) + Len(FluxSource(r))
        /\ Target(r) \o FluxSource(r) \in Seq(Step)
    BY <2>1, ConcatProperties
  <2>3. Len(Script(r)) = Len(Target(r) \o FluxSource(r)) + Len(body)
    BY <1>1, <1>2, <2>2, ConcatProperties
  <2>4. Len(FluxSource(r)) \in Nat /\ Len(body) \in Nat
    BY <1>1, <2>1, LenProperties
  <2> QED
    BY <1>6, <2>2, <2>3, <2>4
<1> QED
  BY <1>3, <1>7, EmptySeq

-----------------------------------------------------------------------------
(* The command's own state, from one step to the next.                     *)

Verdict == {"none", "passed", "failed", "interrupted", "killed"}

\* The command, its service and what it has ahead are the same.
Alike(r, q) ==
    /\ q \in Run /\ q.state = r.state /\ q.todo = r.todo
    /\ q.image = r.image /\ q.attempt = r.attempt
    /\ q.service = r.service /\ q.mode = r.mode

\* What a step leaves of a command: outside a verification, a body that goes
\* on has done the first of its steps.
Follows(r, q) ==
    /\ q \in Run /\ Attended(q)
    /\ q.service = r.service /\ q.mode = r.mode
    /\ q.state = "body" =>
        /\ r.state = "body" /\ q.image = r.image /\ q.attempt = r.attempt
        /\ q.todo = Tail(r.todo) \/ Head(r.todo)[1] \in Collected

LEMMA DebtIsStep == Debt \subseteq Step
<1>1. /\ <<"endForwards", "one">> \in Step /\ <<"deleteNamespace", "one">> \in Step
      /\ <<"deletePod", "beside">> \in Step
      /\ <<"deletePod", "outside">> \in Step
  BY Steps, Zenon DEF Kind, Detail, Pods
<1> QED
  BY <1>1 DEF Debt

LEMMA DebtsAreSteps == \A d \in Seq(Debt) : d \in Seq(Step)
BY DebtIsStep

\* What a step owes is a debt.
LEMMA OwesOK ==
    ASSUME NEW s \in Step, NEW answered PROVE Owes(s, answered) \in Seq(Debt)
<1>1. /\ <<<<"endForwards", "one">>>> \in Seq(Debt)
      /\ <<<<"deleteNamespace", "one">>>> \in Seq(Debt) /\ <<>> \in Seq(Debt)
  BY DEF Debt
<1>2. ASSUME s[1] = "createPod" PROVE <<<<"deletePod", s[2]>>>> \in Seq(Debt)
  <2>1. s[2] \in Pods
    BY <1>2, Zenon DEF Step
  <2>2. <<"deletePod", s[2]>> \in Debt
    BY <2>1 DEF Pods, Debt
  <2> DEFINE d == <<"deletePod", s[2]>>
  <2>3. d \in Debt
    BY <2>2
  <2> HIDE DEF d
  <2>4. <<d>> \in Seq(Debt)
    BY <2>3
  <2> QED
    BY <2>4 DEF d
<1> QED
  BY <1>1, <1>2 DEF Owes

LEMMA OwingOK ==
    ASSUME NEW r \in Run, NEW s \in Step, NEW answered
    PROVE  Alike(r, Owing(r, s, answered))
<1> DEFINE more == Owes(s, answered)
<1>1. more \in Seq(Debt)
  BY OwesOK
<1>2. Owing(r, s, answered) = [r EXCEPT !.owed = @ \o more]
  BY DEF Owing
<1> HIDE DEF more
<1>3. r.owed \o more \in Seq(Debt)
  BY <1>1, ConcatProperties DEF Run
<1> QED
  BY <1>2, <1>3, Zenon DEF Alike, Run

LEMMA SettledOK ==
    ASSUME NEW r \in Run, NEW s PROVE Alike(r, Settled(r, s))
<1>1. CASE r.owed # <<>> /\ Last(r.owed) = s
  <2>1. Front(r.owed) \in Seq(Debt)
    <3>1. r.owed \in Seq(Debt) /\ r.owed # <<>>
      BY <1>1 DEF Run
    <3> QED
      BY <3>1 DEF Front
  <2>2. Settled(r, s) = [r EXCEPT !.owed = Front(r.owed)]
    BY <1>1 DEF Settled
  <2> QED
    BY <2>1, <2>2, Zenon DEF Alike, Run
<1>2. CASE ~(r.owed # <<>> /\ Last(r.owed) = s)
  BY <1>2 DEF Settled, Alike
<1> QED
  BY <1>1, <1>2

LEMMA Concluded ==
    ASSUME NEW r \in Run, NEW v \in Verdict PROVE [r EXCEPT !.verdict = v] \in Run
BY DEF Run, Verdict

LEMMA EndsOK ==
    ASSUME NEW r \in Run, NEW v \in Verdict
    PROVE  LET q == Ends(r, v)
           IN /\ q \in Run /\ q.state = "idle" /\ Attended(q)
              /\ q.service = r.service /\ q.mode = r.mode
              /\ q.faults = r.faults
<1> DEFINE k == Kept(r)
           j == [k EXCEPT !.verdict = v]
           q == [j EXCEPT !.lost = r.lost]
<1>1. /\ r.service \in Services /\ r.mode \in {"direct", "flux"}
      /\ r.operations \in Nat /\ r.faults \in Nat /\ r.lost \in BOOLEAN
  BY DEF Run
<1>2. /\ <<>> \in Seq(Step) /\ <<>> \in Seq(Debt) /\ None \in Nat
  BY DEF None
<1>3. k \in Run
  BY <1>1, <1>2 DEF Kept, Idle, Run
<1>4. /\ k.state = "idle" /\ k.todo = <<>> /\ k.owed = <<>>
      /\ k.service = r.service /\ k.mode = r.mode /\ k.faults = r.faults
  BY DEF Kept, Idle
<1>5. Ends(r, v) = q
  BY DEF Ends, Kept, Idle
<1> HIDE DEF k
<1>6. j \in Run
  BY <1>3, Concluded
<1>7. /\ j.state = "idle" /\ j.todo = <<>> /\ j.owed = <<>>
      /\ j.service = r.service /\ j.mode = r.mode /\ j.faults = r.faults
  BY <1>3, <1>4 DEF Run
<1> HIDE DEF j
<1>8. q \in Run
  BY <1>1, <1>6, Zenon DEF Run
<1>9. /\ q.state = "idle" /\ q.todo = <<>> /\ q.owed = <<>>
      /\ q.service = r.service /\ q.mode = r.mode /\ q.faults = r.faults
  BY <1>6, <1>7 DEF Run
<1> HIDE DEF q
<1>10. Attended(q)
  BY <1>9 DEF Attended
<1> QED
  BY <1>5, <1>8, <1>9, <1>10 DEF q

LEMMA FinallyOK ==
    ASSUME NEW r \in Run, NEW v \in Verdict,
           r.image \in Image, r.attempt \in 1 .. MaxAttempts
    PROVE  LET q == Finally(r, v)
           IN /\ q \in Run /\ q.state # "body" /\ Attended(q)
              /\ q.service = r.service /\ q.mode = r.mode
<1>1. CASE r.owed = <<>>
  BY <1>1, EndsOK DEF Finally
<1>2. CASE r.owed # <<>>
  <2> DEFINE d == Reverse(r.owed)
  <2>1. d \in Seq(Debt) /\ d # <<>>
    <3>1. r.owed \in Seq(Debt) /\ Len(r.owed) # 0
      BY <1>2, EmptySeq DEF Run
    <3> QED
      BY <3>1 DEF Reverse
  <2>2. d \in Seq(Step)
    BY <2>1, DebtsAreSteps
  <2>3. Finally(r, v) = [r EXCEPT !.state = "cleanup", !.verdict = v, !.todo = d]
    BY <1>2 DEF Finally
  <2> HIDE DEF d
  <2> DEFINE q == [r EXCEPT !.state = "cleanup", !.verdict = v, !.todo = d]
  <2>4. /\ q \in Run /\ q.state = "cleanup" /\ q.todo = d
        /\ q.service = r.service /\ q.mode = r.mode
        /\ q.image = r.image /\ q.attempt = r.attempt
    BY <2>2, Zenon DEF Run, Verdict
  <2> HIDE DEF q
  <2>5. Attended(q)
    BY <2>1, <2>4 DEF Attended
  <2> QED
    BY <2>3, <2>4, <2>5 DEF q
<1> QED
  BY <1>1, <1>2

\* A step done, or left out.
LEMMA AdvancedOK ==
    ASSUME NEW r \in Run, r.state \in {"body", "cleanup"},
           r.image \in Image, r.attempt \in 1 .. MaxAttempts,
           r.state = "cleanup" => r.todo \in Seq(Debt)
    PROVE  LET q == Advanced(r)
           IN /\ q \in Run /\ Attended(q)
              /\ q.service = r.service /\ q.mode = r.mode
              /\ q.state = "body" =>
                   /\ r.state = "body" /\ q.image = r.image
                   /\ q.attempt = r.attempt /\ q.todo = Tail(r.todo)
<1> DEFINE t == Tail(r.todo)
<1>1. CASE Len(r.todo) > 1
  <2>1. t \in Seq(Step) /\ t # <<>>
    <3>1. r.todo \in Seq(Step) /\ Len(r.todo) > 1
      BY <1>1 DEF Run
    <3>2. r.todo # <<>>
      BY <3>1
    <3>3. t \in Seq(Step) /\ Len(t) = Len(r.todo) - 1
      BY <3>1, <3>2, HeadTailProperties
    <3> HIDE DEF t
    <3> QED
      BY <3>1, <3>3
  <2>2. r.state = "cleanup" => t \in Seq(Debt)
    BY <1>1
  <2>3. Advanced(r) = [r EXCEPT !.todo = t]
    <3>1. Advanced(r) = [r EXCEPT !.todo = Tail(r.todo)]
      BY <1>1 DEF Advanced
    <3> QED
      BY <3>1
  <2> HIDE DEF t
  <2>4. Advanced(r) \in Run
    BY <2>1, <2>3, Zenon DEF Run
  <2> QED
    BY <2>1, <2>2, <2>3, <2>4 DEF Attended, Run, t
<1>2. CASE ~(Len(r.todo) > 1) /\ r.state = "body"
  <2>1. /\ "failed" \in Verdict /\ "passed" \in Verdict
    BY DEF Verdict
  <2>2. Advanced(r) = Finally(r, IF r.failed THEN "failed" ELSE "passed")
    BY <1>2 DEF Advanced
  <2> QED
    BY <2>1, <2>2, FinallyOK
<1>3. CASE ~(Len(r.todo) > 1) /\ r.state # "body"
  <2>1. r.verdict \in Verdict
    BY DEF Run, Verdict
  <2>2. Advanced(r) = Ends(r, r.verdict)
    BY <1>3 DEF Advanced
  <2> QED
    BY <2>1, <2>2, EndsOK
<1> QED
  BY <1>1, <1>2, <1>3

LEMMA AlikeTransitive ==
    ASSUME NEW p, NEW q, NEW r, Alike(p, q), Alike(q, r) PROVE Alike(p, r)
BY DEF Alike

\* Counting a failure, noting a loss, what a read returned, or a disturbance.
LEMMA Noted ==
    ASSUME NEW r \in Run, NEW b \in BOOLEAN, NEW n \in Nat,
           NEW x \in {<<>>} \cup (Deployment \X Status)
    PROVE  /\ Alike(r, [r EXCEPT !.lost = b])
           /\ Alike(r, [r EXCEPT !.faults = n])
           /\ Alike(r, [r EXCEPT !.disturbed = b])
           /\ Alike(r, [r EXCEPT !.version = x])
<1>1. Alike(r, [r EXCEPT !.lost = b])
  BY Zenon DEF Alike, Run
<1>2. Alike(r, [r EXCEPT !.faults = n])
  BY Zenon DEF Alike, Run
<1>3. Alike(r, [r EXCEPT !.disturbed = b])
  BY DEF Alike, Run
<1>4. Alike(r, [r EXCEPT !.version = x])
  BY Zenon DEF Alike, Run
<1> QED
  BY <1>1, <1>2, <1>3, <1>4

\* A step that was perhaps done and had no answer.
LEMMA UnansweredOK ==
    ASSUME NEW r \in Run, NEW s \in Step, NEW done \in BOOLEAN, NEW listed
    PROVE  Alike(r, Unanswered(r, s, done, listed))
<1> DEFINE x == [r EXCEPT !.lost = TRUE]
           y == Owing(r, s, done /\ s[1] = "forward")
<1>1. Alike(r, x)
  BY Zenon DEF Alike, Run
<1>2. Alike(r, y)
  BY OwingOK
<1>3. Unanswered(r, s, done, listed) = x \/ Unanswered(r, s, done, listed) = y
  BY DEF Unanswered
<1> HIDE DEF x, y
<1> QED
  BY <1>1, <1>2, <1>3

\* A command under way: it has a first step.
LEMMA FirstStep ==
    ASSUME NEW r \in Run, Attended(r), r.state # "idle"
    PROVE  /\ r.todo \in Seq(Step) /\ r.todo # <<>>
           /\ Head(r.todo) \in Step /\ Head(r.todo) = r.todo[1]
           /\ r.state \in {"body", "cleanup"}
<1>1. r.todo \in Seq(Step) /\ r.state \in {"idle", "body", "cleanup"}
  BY DEF Run
<1>2. r.todo # <<>>
  BY DEF Attended
<1> QED
  BY <1>1, <1>2, HeadTailProperties

LEMMA AdvancedFollows ==
    ASSUME NEW r \in Run, Attended(r), r.state # "idle", NEW q, Alike(r, q)
    PROVE  Follows(r, Advanced(q))
<1>1. /\ q \in Run /\ q.state \in {"body", "cleanup"} /\ q.image \in Image
      /\ q.attempt \in 1 .. MaxAttempts
      /\ q.state = "cleanup" => q.todo \in Seq(Debt)
  BY FirstStep DEF Alike, Attended
<1> QED
  BY <1>1, AdvancedOK DEF Follows, Alike

LEMMA FinallyFollows ==
    ASSUME NEW r \in Run, Attended(r), r.state # "idle", NEW q, Alike(r, q),
           NEW v \in Verdict
    PROVE  Follows(r, Finally(q, v)) /\ Finally(q, v).state # "body"
<1>1. /\ q \in Run /\ q.image \in Image /\ q.attempt \in 1 .. MaxAttempts
  BY DEF Alike, Attended
<1> QED
  BY <1>1, FinallyOK DEF Follows, Alike

\* A failure that is collected: some of the steps ahead are left out.
LEMMA Collecting ==
    ASSUME NEW q \in Run, NEW t \in Seq(Step), NEW l \in BOOLEAN
    PROVE  /\ [q EXCEPT !.failed = TRUE, !.lost = l, !.todo = t] \in Run
           /\ \A x : x = [q EXCEPT !.failed = TRUE, !.lost = l, !.todo = t] =>
                 /\ x.state = q.state /\ x.image = q.image
                 /\ x.attempt = q.attempt /\ x.service = q.service
                 /\ x.mode = q.mode
<1> DEFINE y == [q EXCEPT !.failed = TRUE, !.lost = l]
           x == [q EXCEPT !.failed = TRUE, !.lost = l, !.todo = t]
<1>1. /\ y \in Run /\ y.state = q.state /\ y.image = q.image
      /\ y.attempt = q.attempt /\ y.service = q.service /\ y.mode = q.mode
  BY Zenon DEF Run
<1>2. x = [y EXCEPT !.todo = t]
  BY DEF Run
<1> HIDE DEF y
<1>3. /\ x \in Run /\ x.state = y.state /\ x.image = y.image
      /\ x.attempt = y.attempt /\ x.service = y.service /\ x.mode = y.mode
  <2> HIDE DEF x
  <2> QED
    BY <1>1, <1>2, Zenon DEF Run
<1> QED
  BY <1>1, <1>3, Zenon

\* A step that did not do what it should.
LEMMA RaisedFollows ==
    ASSUME NEW r \in Run, Attended(r), r.state # "idle", NEW q, Alike(r, q)
    PROVE  LET s == Head(r.todo) p == Raised(q, s)
           IN /\ Follows(r, p)
              /\ p.state = "body" => s[1] \in Collected
<1> DEFINE s == Head(r.todo)
           p == Raised(q, s)
<1>1. /\ s \in Step /\ r.state \in {"body", "cleanup"} /\ q.state = r.state
      /\ q \in Run
  BY FirstStep DEF Alike
<1>2. CASE r.state = "cleanup"
  <2> DEFINE v == IF s[1] = "deletePod" THEN q.verdict ELSE "failed"
             x == [q EXCEPT !.lost = TRUE, !.verdict = v]
  <2>1. p = Advanced(Settled(x, s))
    BY <1>1, <1>2 DEF Raised
  <2>0. v \in {"none", "passed", "failed", "interrupted", "killed"}
    BY <1>1 DEF Run
  <2> HIDE DEF v
  <2>2. Alike(q, x)
    <3> DEFINE y == [q EXCEPT !.lost = TRUE]
    <3>1. Alike(q, y)
      BY <1>1, Zenon DEF Alike, Run
    <3>2. x = [y EXCEPT !.verdict = v]
      BY <1>1 DEF Run
    <3> HIDE DEF x, y
    <3>3. y \in Run
      BY <3>1 DEF Alike
    <3>4. Alike(y, x)
      BY <2>0, <3>2, <3>3, Zenon DEF Alike, Run
    <3> QED
      BY <3>1, <3>4, AlikeTransitive
  <2>3. x \in Run
    BY <2>2 DEF Alike
  <2> HIDE DEF x
  <2>4. Alike(x, Settled(x, s))
    BY <2>3, SettledOK
  <2>5. Alike(r, Settled(x, s))
    BY <2>2, <2>4, AlikeTransitive
  <2>6. Follows(r, p)
    BY <2>1, <2>5, AdvancedFollows
  <2> QED
    BY <1>2, <2>6 DEF Follows
<1>3. CASE r.state = "body" /\ s[1] \in Collected
  <2> DEFINE t == SubSeq(q.todo, 1 + Skipped(s), Len(q.todo))
             l == q.lost \/ s[1] \in {"deletePod", "deleteNamespace"}
             x == [q EXCEPT !.failed = TRUE, !.lost = l, !.todo = t]
  <2>1. p = Advanced(Settled(x, s))
    BY <1>1, <1>3 DEF Raised, Collected
  <2>2. Skipped(s) \in Nat
    <3> DEFINE m == Len(Qualification)
               n == Len(AccessQualification(s[2]))
    <3>1. m = 9 /\ n = 3
      BY QualificationIs, Zenon
    <3> HIDE DEF m, n
    <3>2. /\ s[1] = "createPod" => Skipped(s) = n - 1
          /\ s[1] = "createNamespace" => Skipped(s) = m - 3
          /\ s[1] = "noNamespace" => Skipped(s) = m - 1
          /\ s[1] \notin {"createPod", "createNamespace", "noNamespace"} =>
                 Skipped(s) = 0
      BY DEF Skipped, m, n
    <3> HIDE DEF s
    <3>3. m - 1 \in Nat /\ m - 3 \in Nat /\ n - 1 \in Nat /\ 0 \in Nat
      BY <3>1
    <3> QED
      BY <3>2, <3>3, Zenon
  <2>3. t \in Seq(Step)
    <3>1. q.todo \in Seq(Step) /\ Len(q.todo) \in Nat
      BY <1>1 DEF Run
    <3>2. CASE 1 + Skipped(s) > Len(q.todo)
      BY <2>2, <3>1, <3>2, SubSeqEmpty
    <3>3. CASE 1 + Skipped(s) <= Len(q.todo)
      BY <2>2, <3>1, <3>3, SubSeqProperties
    <3> QED
      BY <2>2, <3>1, <3>2, <3>3
  <2>4. l \in BOOLEAN
    BY <1>1 DEF Run
  <2> HIDE DEF t, l
  <2>9. x = [q EXCEPT !.failed = TRUE, !.lost = l, !.todo = t]
    OBVIOUS
  <2> HIDE DEF x
  <2>5. /\ x \in Run /\ x.state = "body" /\ x.image = q.image
        /\ x.attempt = q.attempt /\ x.service = q.service /\ x.mode = q.mode
    <3>1. q.state = "body"
      BY <1>1, <1>3 DEF Alike
    <3> QED
      <4>1. q \in Run
        BY <1>1
      <4>2. x \in Run
        BY <4>1, <2>3, <2>4, <2>9, Collecting, Zenon
      <4>3. /\ x.state = q.state /\ x.image = q.image
            /\ x.attempt = q.attempt /\ x.service = q.service
            /\ x.mode = q.mode
        BY <4>1, <2>9 DEF Run
      <4> QED
        BY <3>1, <4>2, <4>3
  <2> DEFINE y == Settled(x, s)
  <2>6. /\ y \in Run /\ y.state = "body" /\ y.image = q.image
        /\ y.attempt = q.attempt /\ y.service = q.service /\ y.mode = q.mode
    BY <2>5, SettledOK DEF Alike
  <2> HIDE DEF y
  <2>7. /\ q.image \in Image /\ q.attempt \in 1 .. MaxAttempts
        /\ q.image = r.image /\ q.attempt = r.attempt
        /\ q.service = r.service /\ q.mode = r.mode
    BY <1>3 DEF Alike, Attended
  <2>8. p = Advanced(y)
    BY <2>1 DEF y
  <2> QED
    BY <1>3, <2>6, <2>7, <2>8, AdvancedOK DEF Follows
<1>4. CASE r.state = "body" /\ s[1] \notin Collected /\ s[1] # "endForwards"
  <2>1. p = Finally(q, "failed")
    BY <1>1, <1>4 DEF Raised
  <2>2. "failed" \in Verdict
    BY DEF Verdict
  <2> QED
    BY <2>1, <2>2, FinallyFollows
<1>5. CASE r.state = "body" /\ s[1] = "endForwards"
  <2> DEFINE x == [q EXCEPT !.lost = TRUE]
  <2>1. p = Finally(Settled(x, s), "failed")
    BY <1>1, <1>5 DEF Raised, Collected
  <2>2. Alike(q, x) /\ x \in Run
    BY <1>1, Zenon DEF Alike, Run
  <2> HIDE DEF x
  <2>3. Alike(x, Settled(x, s))
    BY <2>2, SettledOK
  <2>4. Alike(r, Settled(x, s))
    BY <2>2, <2>3, AlikeTransitive
  <2>5. "failed" \in Verdict
    BY DEF Verdict
  <2> QED
    BY <2>1, <2>4, <2>5, FinallyFollows
<1> QED
  BY <1>1, <1>2, <1>3, <1>4, <1>5

-----------------------------------------------------------------------------
(* What a step does to the cluster.                                        *)

\* A specification that changes is a later generation.
LEMMA SpecifiedOK ==
    ASSUME NEW d \in Deployment, NEW i \in Image, NEW n \in {0, 1}
    PROVE  LET e == Specified(d, i, n)
           IN e \in Deployment /\ e.image = i /\ e.generation >= d.generation
BY DEF Specified, Deployment

\* A world whose Deployment changes.
LEMMA Deployed ==
    ASSUME NEW w \in World, Seen(w), NEW e \in Deployment,
           e.generation >= w.dep.generation
    PROVE  LET v == [w EXCEPT !.dep = e]
           IN /\ v \in World /\ Seen(v) /\ v.dep = e /\ v.pod = w.pod
              /\ v.applied = w.applied /\ v.main = w.main
              /\ v.init = w.init /\ v.job = w.job
<1> DEFINE v == [w EXCEPT !.dep = e]
<1>1. v \in World
  BY Zenon DEF World
<1>2. /\ v.dep = e /\ v.pod = w.pod /\ v.applied = w.applied
      /\ v.main = w.main /\ v.init = w.init /\ v.job = w.job
      /\ v.status = w.status
  BY DEF World
<1>3. /\ w.status.seen \in Nat /\ w.dep.generation \in Nat
      /\ e.generation \in Nat
  BY DEF World, Status, Deployment
<1> HIDE DEF v
<1>4. Seen(v)
  BY <1>2, <1>3 DEF Seen
<1> QED
  BY <1>1, <1>2, <1>4 DEF v

\* The effect of a step.
EffectIs(w, r, s, v) ==
    /\ v \in World /\ Seen(v)
    /\ v.pod = w.pod /\ v.applied = w.applied /\ v.main = w.main
    /\ v.init = w.init
    /\ \A x \in Release : w.job[x] = "complete" => v.job[x] = "complete"
    /\ v.dep.image = IF s[1] = "apply" THEN r.image ELSE w.dep.image

LEMMA EffectOK ==
    ASSUME NEW w \in World, Seen(w), NEW r \in Run, NEW s \in Step,
           r.image \in Image, r.attempt \in 1 .. MaxAttempts
    PROVE  EffectIs(w, r, s, Effect(w, r, s))
<1> DEFINE v == Effect(w, r, s)
<1>1. w.dep \in Deployment /\ w.dep.image \in Image
  BY DEF World, Deployment
<1>2. CASE s[1] = "load"
  <2> DEFINE l == w.loaded \cup {r.image}
  <2>1. l \in SUBSET Image
    BY DEF World
  <2>2. v = [w EXCEPT !.loaded = l]
    BY <1>2 DEF Effect
  <2> HIDE DEF l, v
  <2>3. v \in World
    BY <2>1, <2>2 DEF World
  <2>4. /\ v.dep = w.dep /\ v.status = w.status /\ v.pod = w.pod
        /\ v.applied = w.applied /\ v.main = w.main /\ v.init = w.init
        /\ v.job = w.job
    BY <2>2 DEF World
  <2> QED
    BY <1>2, <2>3, <2>4 DEF EffectIs, Seen, v
<1>3. CASE s[1] = "applyJob"
  <2> DEFINE j == [w.job EXCEPT ![Job(r)] = IF @ = "absent" THEN "running"
                                            ELSE @]
  <2>1. Job(r) \in Release
    BY DEF Job, Release
  <2>2. w.job \in [Release -> {"absent", "running", "complete", "failed"}]
    BY DEF World
  <2>3. j \in [Release -> {"absent", "running", "complete", "failed"}]
    BY <2>1, <2>2
  <2>4. \A x \in Release : w.job[x] = "complete" => j[x] = "complete"
    BY <2>1, <2>2
  <2>5. v = [w EXCEPT !.job = j]
    BY <1>3 DEF Effect
  <2> HIDE DEF j, v
  <2>6. v \in World
    BY <2>3, <2>5, Zenon DEF World
  <2>7. /\ v.dep = w.dep /\ v.status = w.status /\ v.pod = w.pod
        /\ v.applied = w.applied /\ v.main = w.main /\ v.init = w.init
        /\ v.job = j
    BY <2>5 DEF World
  <2> QED
    BY <1>3, <2>4, <2>6, <2>7 DEF EffectIs, Seen, v
<1>4. CASE s[1] = "apply"
  <2> DEFINE e == Specified(w.dep, r.image, 1)
  <2>1. e \in Deployment /\ e.image = r.image /\ e.generation >= w.dep.generation
    BY <1>1, SpecifiedOK, Zenon
  <2>2. v = [w EXCEPT !.dep = e]
    BY <1>4 DEF Effect
  <2> HIDE DEF e
  <2> QED
    BY <1>4, <2>1, <2>2, Deployed DEF EffectIs
<1>5. CASE s[1] \in {"scale", "scaleIf"}
  <2> DEFINE e == Specified(w.dep, w.dep.image, 0)
  <2>1. e \in Deployment /\ e.image = w.dep.image
        /\ e.generation >= w.dep.generation
    BY <1>1, SpecifiedOK, Zenon
  <2>2. v = [w EXCEPT !.dep = e]
    BY <1>5 DEF Effect
  <2> HIDE DEF e, v
  <2>3. /\ v \in World /\ Seen(v) /\ v.dep = e /\ v.pod = w.pod
        /\ v.applied = w.applied /\ v.main = w.main /\ v.init = w.init
        /\ v.job = w.job
    BY <2>1, <2>2, Deployed
  <2>4. s[1] # "apply"
    BY <1>5
  <2> QED
    BY <2>1, <2>3, <2>4 DEF EffectIs, v
<1>6. CASE s[1] \in {"forward", "endForwards"}
  <2> DEFINE f == s[1] = "forward"
  <2>1. v = [w EXCEPT !.forwards = f]
    BY <1>6, Zenon DEF Effect
  <2> HIDE DEF f, v
  <2>2. v \in World
    BY <2>1, Zenon DEF World, f
  <2>3. /\ v.dep = w.dep /\ v.status = w.status /\ v.pod = w.pod
        /\ v.applied = w.applied /\ v.main = w.main /\ v.init = w.init
        /\ v.job = w.job
    BY <2>1 DEF World
  <2> QED
    BY <1>6, <2>2, <2>3 DEF EffectIs, Seen, v
<1>7. CASE s[1] \in {"createNamespace", "deleteNamespace", "createPod",
                     "deletePod"}
  <2>1. PICK p \in SUBSET ({"namespace"} \cup Pods) : v = [w EXCEPT !.probes = p]
    <3>1. w.probes \in SUBSET ({"namespace"} \cup Pods)
      BY DEF World
    <3>2. s[1] \in {"createPod", "deletePod"} => s[2] \in Pods
      BY Zenon DEF Step
    <3>3. CASE s[1] = "createNamespace"
      <4>1. v = [w EXCEPT !.probes = w.probes \cup {"namespace"}]
        BY <3>3 DEF Effect
      <4> QED
        BY <3>1, <4>1, Zenon
    <3>4. CASE s[1] = "deleteNamespace"
      <4>1. v = [w EXCEPT !.probes = w.probes \ {"namespace", "outside"}]
        BY <3>4 DEF Effect
      <4> QED
        BY <3>1, <4>1, Zenon
    <3>5. CASE s[1] = "createPod"
      <4>1. v = [w EXCEPT !.probes = w.probes \cup {s[2]}]
        BY <3>5 DEF Effect
      <4> QED
        BY <3>1, <3>2, <3>5, <4>1
    <3>6. CASE s[1] = "deletePod"
      <4>1. v = [w EXCEPT !.probes = w.probes \ {s[2]}]
        BY <3>6 DEF Effect
      <4> QED
        BY <3>1, <4>1, Zenon
    <3> QED
      BY <1>7, <3>3, <3>4, <3>5, <3>6
  <2> HIDE DEF v
  <2>2. v \in World
    BY <2>1, Zenon DEF World
  <2>3. /\ v.dep = w.dep /\ v.status = w.status /\ v.pod = w.pod
        /\ v.applied = w.applied /\ v.main = w.main /\ v.init = w.init
        /\ v.job = w.job
    BY <2>1 DEF World
  <2> QED
    BY <1>7, <2>2, <2>3 DEF EffectIs, Seen, v
<1>8. CASE s[1] \notin {"load", "applyJob", "apply", "scale", "scaleIf",
                        "forward", "endForwards", "createNamespace",
                        "deleteNamespace", "createPod", "deletePod"}
  <2>1. v = w
    BY <1>8 DEF Effect
  <2> QED
    BY <1>8, <2>1 DEF EffectIs
<1> QED
  <2>1. \/ s[1] = "load" \/ s[1] = "applyJob" \/ s[1] = "apply"
        \/ s[1] \in {"scale", "scaleIf"}
        \/ s[1] \in {"forward", "endForwards"}
        \/ s[1] \in {"createNamespace", "deleteNamespace", "createPod",
                     "deletePod"}
        \/ s[1] \notin {"load", "applyJob", "apply", "scale", "scaleIf",
                        "forward", "endForwards", "createNamespace",
                        "deleteNamespace", "createPod", "deletePod"}
    OBVIOUS
  <2> HIDE DEF v
  <2> QED
    BY <2>1, <1>2, <1>3, <1>4, <1>5, <1>6, <1>7, <1>8, Zenon

-----------------------------------------------------------------------------
(* The steps of a Product command.                                         *)

\* Nothing collected, and no apply.
Plain(t) == \A k \in 1 .. Len(t) : t[k][1] \notin Collected \cup {"apply"}
Uncollected(t) == \A k \in 1 .. Len(t) : t[k][1] \notin Collected
\* The wait for the Job is among the steps.
Waits(t) == \E k \in 1 .. Len(t) : t[k][1] = "complete"

\* Two sequences, one after the other.
LEMMA Joined ==
    ASSUME NEW a \in Seq(Step), NEW b \in Seq(Step)
    PROVE  /\ Plain(a) /\ Plain(b) => Plain(a \o b)
           /\ Uncollected(a) /\ Uncollected(b) => Uncollected(a \o b)
           /\ Waits(a) \/ Waits(b) => Waits(a \o b)
           /\ Guarded(a, FALSE) /\ (Waits(a) \/ Guarded(b, FALSE)) =>
                  Guarded(a \o b, FALSE)
<1> DEFINE c == a \o b
           m == Len(a)
           n == Len(b)
<1>1. /\ c \in Seq(Step) /\ Len(c) = m + n /\ m \in Nat /\ n \in Nat
      /\ \A k \in 1 .. m + n : c[k] = IF k <= m THEN a[k] ELSE b[k - m]
  BY ConcatProperties, LenProperties
<1>2. Len(a) = m /\ Len(b) = n
  OBVIOUS
<1> HIDE DEF c, m, n
<1>3. \A k \in 1 .. m : c[k] = a[k] /\ k \in 1 .. m + n
  BY <1>1
<1>4. \A k \in 1 .. n : c[m + k] = b[k] /\ m + k \in 1 .. m + n
  BY <1>1
<1>5. \A k \in 1 .. m + n : k \in 1 .. m \/ (k - m \in 1 .. n /\ c[k] = b[k - m])
  BY <1>1
<1>6. Plain(a) /\ Plain(b) => Plain(c)
  BY <1>1, <1>2, <1>3, <1>5 DEF Plain
<1>7. Uncollected(a) /\ Uncollected(b) => Uncollected(c)
  BY <1>1, <1>2, <1>3, <1>5 DEF Uncollected
<1>8. Waits(a) \/ Waits(b) => Waits(c)
  BY <1>1, <1>2, <1>3, <1>4 DEF Waits
<1>9. ASSUME Guarded(a, FALSE), Waits(a) \/ Guarded(b, FALSE)
      PROVE  Guarded(c, FALSE)
  <2> SUFFICES ASSUME NEW k \in 1 .. m + n, c[k][1] = "apply"
               PROVE  \E j \in 1 .. k : c[j][1] = "complete"
    BY <1>1, Zenon DEF Guarded
  <2>1. CASE k \in 1 .. m
    <3>1. PICK j \in 1 .. k : a[j][1] = "complete"
      BY <1>2, <1>3, <1>9, <2>1 DEF Guarded
    <3>2. j \in 1 .. m
      BY <1>1, <2>1, <3>1
    <3>3. c[j] = a[j]
      BY <1>3, <3>2
    <3>4. c[j][1] = "complete"
      BY <3>1, <3>3
    <3> QED
      BY <3>4
  <2>2. CASE k - m \in 1 .. n /\ c[k] = b[k - m]
    <3>1. CASE Waits(a)
      <4>1. PICK j \in 1 .. m : a[j][1] = "complete"
        BY <1>2, <3>1 DEF Waits
      <4>2. j \in 1 .. k
        BY <1>1, <2>2, <4>1
      <4>3. c[j] = a[j]
        BY <1>3, <4>1
      <4>4. c[j][1] = "complete"
        BY <4>1, <4>3
      <4> QED
        BY <4>2, <4>4
    <3>2. CASE Guarded(b, FALSE)
      <4>1. PICK j \in 1 .. k - m : b[j][1] = "complete"
        BY <1>2, <2>2, <3>2 DEF Guarded
      <4>2. j \in 1 .. n /\ m + j \in 1 .. k
        BY <1>1, <2>2, <4>1
      <4> QED
        BY <1>4, <4>1, <4>2
    <3> QED
      BY <1>9, <3>1, <3>2, Zenon
  <2> QED
    BY <1>5, <2>1, <2>2
<1> QED
  BY <1>6, <1>7, <1>8, <1>9, Zenon DEF c

LEMMA PlainIsGuarded ==
    \A t : Plain(t) => Uncollected(t) /\ Guarded(t, FALSE)
BY DEF Plain, Uncollected, Guarded

\* The first step done: what comes before the apply is still ahead, or done.
LEMMA GuardedTail ==
    ASSUME NEW t \in Seq(Step), t # <<>>, NEW c \in BOOLEAN, NEW d \in BOOLEAN,
           Guarded(t, c), Uncollected(t), c => d, t[1][1] = "complete" => d
    PROVE  Guarded(Tail(t), d) /\ Uncollected(Tail(t))
<1>1. /\ Tail(t) \in Seq(Step) /\ Len(Tail(t)) = Len(t) - 1 /\ Len(t) \in Nat
      /\ \A k \in 1 .. Len(Tail(t)) : Tail(t)[k] = t[k + 1]
  BY HeadTailProperties
<1> DEFINE u == Tail(t)
           n == Len(u)
<1>2. n \in Nat /\ Len(t) = n + 1 /\ \A k \in 1 .. n : u[k] = t[k + 1]
  BY <1>1
<1>3. Len(u) = n
  OBVIOUS
<1> HIDE DEF u, n
<1>4. Uncollected(u)
  BY <1>2, <1>3 DEF Uncollected
<1>5. Guarded(u, d)
  <2> SUFFICES ASSUME NEW k \in 1 .. n, u[k][1] = "apply", ~d
               PROVE  \E j \in 1 .. k : u[j][1] = "complete"
    BY <1>3 DEF Guarded
  <2>1. k + 1 \in 1 .. Len(t) /\ t[k + 1][1] = "apply" /\ ~c
    BY <1>2
  <2>2. PICK j \in 1 .. k + 1 : t[j][1] = "complete"
    BY <2>1 DEF Guarded
  <2>3. j # 1
    BY <2>2
  <2>4. j - 1 \in 1 .. k /\ j - 1 \in 1 .. n /\ (j - 1) + 1 = j
    BY <1>2, <2>2, <2>3
  <2> QED
    BY <1>2, <2>2, <2>4, Zenon
<1> QED
  BY <1>4, <1>5 DEF u

\* Short sequences of plain steps.
LEMMA PlainTuples ==
    ASSUME NEW a, NEW b, NEW c, NEW d, NEW e, NEW f,
           {a[1], b[1], c[1], d[1], e[1], f[1]}
               \cap (Collected \cup {"apply"}) = {}
    PROVE  /\ Plain(<<a>>) /\ Plain(<<a, b>>)
           /\ Plain(<<a, b, c, d, e>>) /\ Plain(<<a, b, c, d, e, f>>)
<1>1. Plain(<<a>>)
  BY DEF Plain
<1>2. Plain(<<a, b>>)
  BY DEF Plain
<1>3. Plain(<<a, b, c, d, e>>)
  BY DEF Plain
<1>4. Plain(<<a, b, c, d, e, f>>)
  BY DEF Plain
<1> QED
  BY <1>1, <1>2, <1>3, <1>4

LEMMA PlainKinds ==
    ASSUME NEW Sort, Sort \cap (Collected \cup {"apply"}) = {},
           NEW x, NEW y, NEW z, NEW u, NEW v, NEW w
    PROVE  \A k, l, m, n, o, p \in Sort :
               /\ Plain(<<<<k, x>>>>) /\ Plain(<<<<k, x>>, <<l, y>>>>)
               /\ Plain(<<<<k, x>>, <<l, y>>, <<m, z>>, <<n, u>>, <<o, v>>>>)
               /\ Plain(<<<<k, x>>, <<l, y>>, <<m, z>>, <<n, u>>, <<o, v>>,
                          <<p, w>>>>)
<1> SUFFICES ASSUME NEW k \in Sort, NEW l \in Sort, NEW m \in Sort,
                    NEW n \in Sort, NEW o \in Sort, NEW p \in Sort
             PROVE  /\ Plain(<<<<k, x>>>>) /\ Plain(<<<<k, x>>, <<l, y>>>>)
                    /\ Plain(<<<<k, x>>, <<l, y>>, <<m, z>>, <<n, u>>, <<o, v>>>>)
                    /\ Plain(<<<<k, x>>, <<l, y>>, <<m, z>>, <<n, u>>, <<o, v>>,
                               <<p, w>>>>)
  OBVIOUS
<1> DEFINE a == <<k, x>>
           b == <<l, y>>
           c == <<m, z>>
           d == <<n, u>>
           e == <<o, v>>
           f == <<p, w>>
<1>1. a[1] = k /\ b[1] = l /\ c[1] = m /\ d[1] = n /\ e[1] = o /\ f[1] = p
  OBVIOUS
<1> HIDE DEF a, b, c, d, e, f
<1>2. {a[1], b[1], c[1], d[1], e[1], f[1]} \cap (Collected \cup {"apply"}) = {}
  BY <1>1
<1>3. /\ Plain(<<a>>) /\ Plain(<<a, b>>)
      /\ Plain(<<a, b, c, d, e>>) /\ Plain(<<a, b, c, d, e, f>>)
  BY <1>2, PlainTuples
<1> QED
  BY <1>3 DEF a, b, c, d, e, f

LEMMA PlainPieces ==
    /\ Plain(<<>>) /\ Plain(<<<<"judge", "coordinates">>>>)
    /\ Plain(ProductRendered) /\ Plain(<<<<"fluxRelease", "one">>>>)
    /\ Plain(<<<<"judge", "flux">>>>) /\ Plain(Prerequisites)
    /\ Plain(GatewayRoute) /\ Plain(Snapshot) /\ Plain(SameSnapshot)
    /\ Plain(RoleAction) /\ Plain(Forwards) /\ Plain(EndForwards)
    /\ Plain(<<<<"live", "one">>>>) /\ Plain(<<<<"load", "one">>>>)
    /\ Plain(<<<<"probe", "security">>>>)
    /\ Plain(LocalAdministrationJob) /\ Waits(LocalAdministrationJob)
    /\ Uncollected(Rollout)
<1> DEFINE Sort == {"judge", "fluxRelease", "liveBefore", "live", "load",
                    "forward", "endForwards", "probe", "applyJob",
                    "complete", "initialized"}
<1>1. Sort \cap (Collected \cup {"apply"}) = {}
  BY DEF Collected
<1>2. /\ \A k \in Sort : \A d : Plain(<<<<k, d>>>>)
      /\ \A k, l \in Sort : \A d, e : Plain(<<<<k, d>>, <<l, e>>>>)
  <2> HIDE DEF Sort
  <2> QED
    BY <1>1, PlainKinds, Zenon
<1>3. Plain(<<>>)
  BY DEF Plain
<1>4. Plain(Prerequisites)
  BY <1>2 DEF Prerequisites
<1>5. Plain(LocalAdministrationJob)
  <2>1. /\ "judge" \in Sort /\ "applyJob" \in Sort /\ "complete" \in Sort
        /\ "initialized" \in Sort
    OBVIOUS
  <2> HIDE DEF Sort
  <2> QED
    BY <1>1, <2>1, PlainKinds, Zenon DEF LocalAdministrationJob
<1>6. Waits(LocalAdministrationJob)
  <2>1. /\ 4 \in 1 .. Len(LocalAdministrationJob)
        /\ LocalAdministrationJob[4][1] = "complete"
    BY DEF LocalAdministrationJob
  <2> QED
    BY <2>1, Zenon DEF Waits
<1>7. Uncollected(Rollout)
  <2>1. {"judge", "apply", "rolledOut"} \cap Collected = {}
    BY DEF Collected
  <2>2. \A k \in 1 .. Len(Rollout) :
            Rollout[k][1] \in {"judge", "apply", "rolledOut"}
    <3>1. /\ Len(Rollout) = 3 /\ Rollout[1][1] = "judge"
          /\ Rollout[2][1] = "apply" /\ Rollout[3][1] = "rolledOut"
      BY DEF Rollout
    <3>2. \A k \in 1 .. 3 : k = 1 \/ k = 2 \/ k = 3
      OBVIOUS
    <3> QED
      BY <3>1, <3>2
  <2> QED
    BY <2>1, <2>2 DEF Uncollected
<1> QED
  BY <1>2, <1>3, <1>4, <1>5, <1>6, <1>7
     DEF ProductRendered, GatewayRoute, Snapshot, SameSnapshot, RoleAction,
         Forwards, EndForwards

\* A Product command applies nothing before the wait for its Job.
LEMMA ProductScripts ==
    ASSUME NEW r, r.service = "product",
           r.script \in Operations("direct") \cup Operations("flux")
    PROVE  Uncollected(Script(r)) /\ Guarded(Script(r), FALSE)
<1> DEFINE body ==
      CASE r.script = "preflight" -> Prerequisites
       [] r.script = "image-load" -> Prerequisites \o <<<<"load", "one">>>>
       [] r.script = "deploy" -> Deploy(r)
       [] r.script = "status" -> <<<<"live", "one">>>> \o GatewayRoute
       [] r.script = "verify" -> ProductVerify
       [] r.script = "stop" -> ProductStop
<1>1. Script(r) = Target(r) \o FluxSource(r) \o body
  BY DEF Script
<1>2. /\ Target(r) \in Seq(Step) /\ FluxSource(r) \in Seq(Step)
      /\ Plain(Target(r)) /\ Plain(FluxSource(r))
  <2>1. Target(r) = <<<<"judge", "coordinates">>>> \o ProductRendered
    BY DEF Target, Rendered
  <2>2. Plain(Target(r))
    BY <2>1, Pieces, PlainPieces, Joined, Zenon
  <2>3. Plain(FluxSource(r))
    BY PlainPieces DEF FluxSource
  <2>4. r.service \in Services
    BY DEF Services
  <2> QED
    BY <2>2, <2>3, <2>4, Scripts
<1>3. body \in Seq(Step) /\ Uncollected(body) /\ Guarded(body, FALSE)
  <2>1. CASE r.script = "preflight"
    BY <2>1, Pieces, PlainPieces, PlainIsGuarded, Zenon
  <2>2. CASE r.script = "image-load"
    <3> DEFINE a == Prerequisites \o <<<<"load", "one">>>>
    <3>1. a \in Seq(Step) /\ Plain(a)
      BY Pieces, PlainPieces, Joined, Both, Zenon
    <3> HIDE DEF a
    <3>2. body = a
      BY <2>2 DEF a
    <3> QED
      BY <3>1, <3>2, PlainIsGuarded, Zenon
  <2>3. CASE r.script = "deploy"
    <3> DEFINE a == Prerequisites \o LocalAdministrationJob
               b == a \o Snapshot
               c == b \o Rollout
               d == c \o <<<<"live", "one">>>>
               e == d \o SameSnapshot
    <3>1. body = e
      BY <2>3 DEF Deploy
    <3>2. a \in Seq(Step) /\ Uncollected(a) /\ Guarded(a, FALSE) /\ Waits(a)
      BY Pieces, PlainPieces, PlainIsGuarded, Joined, Both, Zenon
    <3> HIDE DEF a
    <3>3. b \in Seq(Step) /\ Uncollected(b) /\ Guarded(b, FALSE) /\ Waits(b)
      BY <3>2, Pieces, PlainPieces, PlainIsGuarded, Joined, Both, Zenon
    <3> HIDE DEF b
    <3>4. c \in Seq(Step) /\ Uncollected(c) /\ Guarded(c, FALSE) /\ Waits(c)
      BY <3>3, Pieces, PlainPieces, PlainIsGuarded, Joined, Both, Zenon
    <3> HIDE DEF c
    <3>5. d \in Seq(Step) /\ Uncollected(d) /\ Guarded(d, FALSE) /\ Waits(d)
      BY <3>4, Pieces, PlainPieces, PlainIsGuarded, Joined, Both, Zenon
    <3> HIDE DEF d
    <3>6. e \in Seq(Step) /\ Uncollected(e) /\ Guarded(e, FALSE)
      BY <3>5, Pieces, PlainPieces, PlainIsGuarded, Joined, Both, Zenon
    <3> HIDE DEF e
    <3> QED
      BY <3>1, <3>6, Zenon
  <2>4. CASE r.script = "status"
    <3> DEFINE a == <<<<"live", "one">>>> \o GatewayRoute
    <3>1. a \in Seq(Step) /\ Plain(a)
      BY Pieces, PlainPieces, Joined, Both, Zenon
    <3> HIDE DEF a
    <3>2. body = a
      BY <2>4 DEF a
    <3> QED
      BY <3>1, <3>2, PlainIsGuarded, Zenon
  <2>5. CASE r.script = "verify"
    <3> DEFINE a == <<<<"live", "one">>>> \o RoleAction
               b == a \o Snapshot
               c == b \o RoleAction
               d == c \o Forwards
               e == d \o <<<<"probe", "security">>>>
               f == e \o EndForwards
               g == f \o SameSnapshot
               h == g \o GatewayRoute
    <3>1. body = h
      BY <2>5 DEF ProductVerify
    <3>2. a \in Seq(Step) /\ Plain(a)
      BY Pieces, PlainPieces, Joined, Both, Zenon
    <3> HIDE DEF a
    <3>3. b \in Seq(Step) /\ Plain(b)
      BY <3>2, Pieces, PlainPieces, Joined, Both, Zenon
    <3> HIDE DEF b
    <3>4. c \in Seq(Step) /\ Plain(c)
      BY <3>3, Pieces, PlainPieces, Joined, Both, Zenon
    <3> HIDE DEF c
    <3>5. d \in Seq(Step) /\ Plain(d)
      BY <3>4, Pieces, PlainPieces, Joined, Both, Zenon
    <3> HIDE DEF d
    <3>6. e \in Seq(Step) /\ Plain(e)
      BY <3>5, Pieces, PlainPieces, Joined, Both, Zenon
    <3> HIDE DEF e
    <3>7. f \in Seq(Step) /\ Plain(f)
      BY <3>6, Pieces, PlainPieces, Joined, Both, Zenon
    <3> HIDE DEF f
    <3>8. g \in Seq(Step) /\ Plain(g)
      BY <3>7, Pieces, PlainPieces, Joined, Both, Zenon
    <3> HIDE DEF g
    <3>9. h \in Seq(Step) /\ Plain(h)
      BY <3>8, Pieces, PlainPieces, Joined, Both, Zenon
    <3> HIDE DEF h
    <3> QED
      BY <3>1, <3>9, PlainIsGuarded, Zenon
  <2>6. CASE r.script = "stop"
    <3> DEFINE x == <<<<"readVersion", "one">>, <<"scaleIf", "one">>,
                      <<"rolledOut", "one">>, <<"notReady", "one">>,
                      <<"noEndpoint", "one">>>>
               a == <<<<"live", "one">>>> \o Snapshot
               b == a \o x
               c == b \o SameSnapshot
    <3>1. body = c
      BY <2>6, Zenon DEF ProductStop
    <3>2. x \in Seq(Step)
      <4>1. /\ <<"readVersion", "one">> \in Step /\ <<"scaleIf", "one">> \in Step
            /\ <<"rolledOut", "one">> \in Step /\ <<"notReady", "one">> \in Step
            /\ <<"noEndpoint", "one">> \in Step
        BY Steps DEF Kind, Detail
      <4> QED
        BY <4>1, Tuples
    <3>3. Plain(x)
      <4> DEFINE Sort == {"readVersion", "scaleIf", "rolledOut",
                          "notReady", "noEndpoint"}
      <4>1. Sort \cap (Collected \cup {"apply"}) = {}
        BY DEF Collected
      <4>2. /\ "readVersion" \in Sort /\ "scaleIf" \in Sort
            /\ "rolledOut" \in Sort /\ "notReady" \in Sort
            /\ "noEndpoint" \in Sort
        OBVIOUS
      <4> HIDE DEF Sort
      <4> QED
        BY <4>1, <4>2, PlainKinds, Zenon
    <3> HIDE DEF x
    <3>4. a \in Seq(Step) /\ Plain(a)
      BY Pieces, PlainPieces, Joined, Both, Zenon
    <3> HIDE DEF a
    <3>5. b \in Seq(Step) /\ Plain(b)
      BY <3>2, <3>3, <3>4, Joined, Both, Zenon
    <3> HIDE DEF b
    <3>6. c \in Seq(Step) /\ Plain(c)
      BY <3>5, Pieces, PlainPieces, Joined, Both, Zenon
    <3> HIDE DEF c
    <3> QED
      BY <3>1, <3>6, PlainIsGuarded, Zenon
  <2>7. r.script \in {"preflight", "image-load", "deploy", "status", "verify",
                      "stop"}
    BY DEF Operations
  <2> HIDE DEF body
  <2> QED
    BY <2>1, <2>2, <2>3, <2>4, <2>5, <2>6, <2>7, Zenon
<1> HIDE DEF body
<1> DEFINE front == Target(r) \o FluxSource(r)
<1>4. front \in Seq(Step) /\ Plain(front)
  BY <1>2, Joined, Both, Zenon
<1> HIDE DEF front
<1>5. /\ Uncollected(front \o body) /\ Guarded(front \o body, FALSE)
  BY <1>3, <1>4, PlainIsGuarded, Joined, Zenon
<1> QED
  BY <1>1, <1>5, Zenon DEF front

-----------------------------------------------------------------------------
(* Every step keeps the invariant.                                         *)

\* What the invariant says of a cluster and a command.
Safe(w, r) ==
    /\ w \in World /\ Seen(w) /\ r \in Run /\ Attended(r)
    /\ Grown(w, r.service) /\ Initialized(w)
    /\ Ahead(w, r) /\ Behind(w, r.service)

\* A step of the cluster that takes no Job away and puts no image in place
\* that has no Job.
Lasting(w, v, service) ==
    /\ v \in World /\ Seen(v) /\ Grown(v, service) /\ Initialized(v)
    /\ service = "product" =>
        /\ \A x \in Release : w.job[x] = "complete" => v.job[x] = "complete"
        /\ \A i \in Present(v) \cup {v.dep.image} :
               \/ i \in Present(w) \cup {w.dep.image}
               \/ \E a \in 1 .. MaxAttempts : v.job[<<i, a>>] = "complete"

LEMMA SafeIs == IInv <=> Safe(world, run)
BY DEF IInv, Safe

LEMMA ImagesAreReleases ==
    \A i \in Image, a \in 1 .. MaxAttempts : <<i, a>> \in Release
BY DEF Release

LEMMA BehindLasts ==
    ASSUME NEW w \in World, NEW v, NEW service, Behind(w, service),
           Lasting(w, v, service)
    PROVE  Behind(v, service)
<1> SUFFICES ASSUME service = "product",
                    NEW i \in Present(v) \cup {v.dep.image}
             PROVE  \E a \in 1 .. MaxAttempts : v.job[<<i, a>>] = "complete"
  BY DEF Behind
<1>1. CASE i \in Present(w) \cup {w.dep.image}
  <2>1. PICK a \in 1 .. MaxAttempts : w.job[<<i, a>>] = "complete"
    BY <1>1 DEF Behind
  <2>2. i \in Image
    BY <1>1 DEF Present, World, Deployment
  <2>3. <<i, a>> \in Release
    BY <2>2, ImagesAreReleases
  <2> QED
    BY <2>1, <2>3 DEF Lasting
<1>2. CASE \E a \in 1 .. MaxAttempts : v.job[<<i, a>>] = "complete"
  BY <1>2
<1> QED
  BY <1>1, <1>2 DEF Lasting

\* The command stays where it is, or has just ended.
LEMMA WorldMoves ==
    ASSUME NEW w, NEW v, NEW r, NEW q, Safe(w, r), Lasting(w, v, r.service),
           q \in Run, Attended(q), q.service = r.service,
           q.state = "body" =>
               /\ r.state = "body" /\ q.todo = r.todo /\ q.image = r.image
               /\ q.attempt = r.attempt
    PROVE  Safe(v, q)
<1>1. Behind(v, q.service)
  BY BehindLasts DEF Safe
<1>2. Ahead(v, q)
  <2> SUFFICES ASSUME q.service = "product", q.state = "body"
               PROVE  /\ Uncollected(q.todo)
                      /\ Guarded(q.todo, v.job[Job(q)] = "complete")
    BY DEF Ahead, Uncollected
  <2>1. /\ Uncollected(r.todo) /\ Guarded(r.todo, w.job[Job(r)] = "complete")
    BY DEF Safe, Ahead, Uncollected
  <2>2. Job(q) = Job(r) /\ Job(r) \in Release
    BY ImagesAreReleases DEF Job, Safe, Attended
  <2>3. w.job[Job(r)] = "complete" => v.job[Job(q)] = "complete"
    BY <2>2 DEF Lasting
  <2> QED
    BY <2>1, <2>3 DEF Guarded
<1> QED
  BY <1>1, <1>2 DEF Safe, Lasting

\* The command does its first step, as Effect says or without an effect.
Moved(w, r, v) ==
    \/ v = w
    \/ EffectIs(w, r, Head(r.todo), v) /\ Holds(w, r, Head(r.todo))

LEMMA CommandMoves ==
    ASSUME NEW w, NEW v, NEW r, NEW q, Safe(w, r), r.state # "idle",
           Moved(w, r, v), Follows(r, q),
           q.state = "body" => \/ Holds(w, r, Head(r.todo))
                               \/ Head(r.todo)[1] \in Collected
    PROVE  Safe(v, q)
<1> DEFINE s == Head(r.todo)
<1>1. /\ r \in Run /\ Attended(r) /\ w \in World
      /\ r.todo \in Seq(Step) /\ r.todo # <<>> /\ s \in Step /\ s = r.todo[1]
      /\ r.state \in {"body", "cleanup"}
      /\ r.image \in Image /\ r.attempt \in 1 .. MaxAttempts
  BY FirstStep DEF Safe, Attended
<1>2. Job(r) \in Release
  BY <1>1, ImagesAreReleases DEF Job
<1>3. /\ v \in World /\ Seen(v)
      /\ v.pod = w.pod /\ v.applied = w.applied /\ v.main = w.main
      /\ v.init = w.init
      /\ \A x \in Release : w.job[x] = "complete" => v.job[x] = "complete"
      /\ v.dep.image = w.dep.image
             \/ (s[1] = "apply" /\ v.dep.image = r.image)
  BY DEF EffectIs, Safe, Moved
<1>4. Grown(v, r.service) /\ Initialized(v)
  BY <1>3 DEF Safe, Grown, Initialized
<1>5. ASSUME r.service = "product", s[1] = "apply"
      PROVE  w.job[Job(r)] = "complete"
  <2>1. r.state = "body"
    <3>1. CASE r.state = "cleanup"
      <4>1. r.todo \in Seq(Debt)
        BY <3>1, <1>1 DEF Attended
      <4>2. s \in Debt
        BY <1>1, <4>1
      <4>3. \A d \in Debt : d[1] # "apply"
        <5>1. /\ <<"endForwards", "one">>[1] = "endForwards"
              /\ <<"deleteNamespace", "one">>[1] = "deleteNamespace"
              /\ \A p : <<"deletePod", p>>[1] = "deletePod"
          OBVIOUS
        <5> QED
          BY <5>1, Zenon DEF Debt
      <4> QED
        BY <1>5, <4>2, <4>3, Zenon
    <3> QED
      BY <1>1, <3>1
  <2>2. Guarded(r.todo, w.job[Job(r)] = "complete")
    BY <1>5, <2>1 DEF Safe, Ahead
  <2>3. 1 \in 1 .. Len(r.todo) /\ r.todo[1][1] = "apply"
    BY <1>1, <1>5
  <2>4. \A j \in 1 .. 1 : r.todo[j][1] # "complete"
    BY <2>3
  <2> QED
    BY <2>2, <2>3, <2>4 DEF Guarded
<1>6. Lasting(w, v, r.service)
  <2>1. Present(v) = Present(w)
    BY <1>3 DEF Present
  <2>2. ASSUME r.service = "product", NEW i \in Present(v) \cup {v.dep.image}
        PROVE  \/ i \in Present(w) \cup {w.dep.image}
               \/ \E a \in 1 .. MaxAttempts : v.job[<<i, a>>] = "complete"
    <3>1. CASE i = r.image /\ s[1] = "apply"
      <4>1. w.job[Job(r)] = "complete"
        BY <1>5, <2>2, <3>1
      <4>2. v.job[<<i, r.attempt>>] = "complete"
        BY <1>2, <1>3, <3>1, <4>1 DEF Job
      <4> QED
        BY <1>1, <4>2, Zenon
    <3>2. CASE i \in Present(w) \cup {w.dep.image}
      BY <3>2
    <3> QED
      BY <1>3, <2>1, <2>2, <3>1, <3>2
  <2> QED
    BY <1>3, <1>4, <2>2 DEF Lasting
<1>7. q \in Run /\ Attended(q) /\ q.service = r.service
  BY DEF Follows
<1>8. Behind(v, q.service)
  BY <1>1, <1>6, <1>7, BehindLasts DEF Safe
<1>9. Ahead(v, q)
  <2> SUFFICES ASSUME q.service = "product", q.state = "body"
               PROVE  /\ Uncollected(q.todo)
                      /\ Guarded(q.todo, v.job[Job(q)] = "complete")
    BY DEF Ahead, Uncollected
  <2>1. /\ r.state = "body" /\ q.image = r.image /\ q.attempt = r.attempt
        /\ q.todo = Tail(r.todo) \/ s[1] \in Collected
    BY DEF Follows
  <2>2. /\ Uncollected(r.todo) /\ Guarded(r.todo, w.job[Job(r)] = "complete")
    BY <1>7, <2>1 DEF Safe, Ahead, Uncollected
  <2>3. s[1] \notin Collected
    <3>1. 1 \in 1 .. Len(r.todo)
      BY <1>1
    <3> QED
      BY <1>1, <2>2, <3>1 DEF Uncollected
  <2>4. Job(q) = Job(r)
    BY <2>1 DEF Job
  <2>5. s[1] = "complete" => w.job[Job(r)] = "complete"
    BY <2>3 DEF Holds
  <2> DEFINE c == w.job[Job(r)] = "complete"
             d == v.job[Job(q)] = "complete"
  <2>6. c \in BOOLEAN /\ d \in BOOLEAN /\ (c => d) /\ (r.todo[1][1] = "complete" => d)
    BY <1>1, <1>2, <1>3, <2>4, <2>5
  <2>7. Guarded(r.todo, c)
    BY <2>2
  <2> HIDE DEF c, d
  <2>8. Guarded(Tail(r.todo), d) /\ Uncollected(Tail(r.todo))
    BY <1>1, <2>2, <2>6, <2>7, GuardedTail
  <2> QED
    BY <2>1, <2>3, <2>8 DEF d
<1> QED
  BY <1>3, <1>4, <1>7, <1>8, <1>9 DEF Safe

LEMMA CommandStays ==
    ASSUME NEW w, NEW r, NEW q, Safe(w, r), r.state # "idle", Follows(r, q),
           q.state = "body" => \/ Holds(w, r, Head(r.todo))
                               \/ Head(r.todo)[1] \in Collected
    PROVE  Safe(w, q)
<1>1. Moved(w, r, w)
  BY DEF Moved
<1> QED
  BY <1>1, CommandMoves

LEMMA InitSafe == ASSUME Bounds, Init PROVE IInv
<1>1. PICK service \in Services, mode \in {"direct", "flux"},
           broken \in SUBSET (Image \ {1}) :
        LET first == <<1, 1>>
            bundle == [inits |-> IF service = "product" /\ mode = "flux"
                                 THEN {first} ELSE {}, api |-> first]
        IN /\ run = Idle(service, mode, 0, 0)
           /\ world =
                [dep |-> [image |-> 1, replicas |-> 1, generation |-> 1],
                 status |-> [seen |-> 1, current |-> {1}, ready |-> {1}],
                 pod |-> [i \in Image |-> IF i = 1 THEN "ready" ELSE "absent"],
                 broken |-> broken,
                 loaded |-> IF mode = "direct" THEN {1} ELSE Image,
                 job |-> [r \in Release |-> IF r = first /\ service = "product"
                                            THEN "complete" ELSE "absent"],
                 table |-> service = "product", probes |-> {},
                 forwards |-> FALSE, attempt |-> 1,
                 main |-> bundle, tree |-> <<bundle>>, pushed |-> 1,
                 pending |-> None, workflow |-> NoRelease, built |-> 1,
                 applied |-> bundle,
                 init |-> [r \in Release |-> IF r \in bundle.inits THEN "ready"
                                             ELSE "none"],
                 api |-> [release |-> first, ready |-> TRUE]]
  BY Zenon DEF Init
<1> DEFINE first == <<1, 1>>
           inits == IF service = "product" /\ mode = "flux" THEN {first} ELSE {}
           bundle == [inits |-> inits, api |-> first]
           pod == [i \in Image |-> IF i = 1 THEN "ready" ELSE "absent"]
           job == [r \in Release |-> IF r = first /\ service = "product"
                                     THEN "complete" ELSE "absent"]
           init == [r \in Release |-> IF r \in inits THEN "ready" ELSE "none"]
           loaded == IF mode = "direct" THEN {1} ELSE Image
           table == service = "product"
           dep == [image |-> 1, replicas |-> 1, generation |-> 1]
           status == [seen |-> 1, current |-> {1}, ready |-> {1}]
           api == [release |-> first, ready |-> TRUE]
           tree == <<bundle>>
<1>2. 1 \in Image /\ 1 \in 1 .. MaxAttempts
  BY DEF Bounds, Image
<1>3. first \in Release
  BY <1>2, ImagesAreReleases
<1>4. run = Idle(service, mode, 0, 0)
  BY <1>1
<1>5. world = [dep |-> dep, status |-> status, pod |-> pod, broken |-> broken,
               loaded |-> loaded, job |-> job, table |-> table, probes |-> {},
               forwards |-> FALSE, attempt |-> 1, main |-> bundle,
               tree |-> tree, pushed |-> 1, pending |-> None,
               workflow |-> NoRelease, built |-> 1, applied |-> bundle,
               init |-> init, api |-> api]
  BY <1>1
<1>6. /\ dep \in Deployment /\ status \in Status
      /\ pod \in [Image -> {"absent", "starting", "ready", "ending"}]
      /\ broken \in SUBSET Image /\ loaded \in SUBSET Image
      /\ job \in [Release -> {"absent", "running", "complete", "failed"}]
      /\ table \in BOOLEAN
      /\ init \in [Release -> {"none", "running", "ready", "failed"}]
  BY <1>2, <1>3 DEF Deployment, Status
<1>7. bundle \in Bundle
  BY <1>3 DEF Bundle
<1>8. tree \in Seq(Bundle)
  <2> HIDE DEF bundle
  <2> QED
    BY <1>7
<1>9. api \in [release : Release, ready : BOOLEAN]
  BY <1>3
<1>10. /\ dep.image = 1 /\ dep.generation = 1 /\ status.seen = 1
       /\ bundle.inits = inits
  OBVIOUS
<1>11. service # "product" => inits = {}
  OBVIOUS
<1>12. \A r \in Release : init[r] = "ready" => job[r] = "complete"
  BY <1>3
<1>13. \A i \in Image : pod[i] # "absent" => i = 1
  OBVIOUS
<1>14. service = "product" => job[<<1, 1>>] = "complete"
  BY <1>3
<1> HIDE DEF first, inits, bundle, pod, job, init, loaded, table, dep, status,
             api, tree
<1>15. world \in World
  BY <1>2, <1>5, <1>6, <1>7, <1>8, <1>9 DEF World, None
<1>16. Seen(world)
  BY <1>5, <1>10 DEF Seen
<1>17. Grown(world, service)
  BY <1>5, <1>10, <1>11 DEF Grown
<1>18. Initialized(world)
  BY <1>5, <1>12 DEF Initialized
<1>19. Behind(world, service)
  BY <1>2, <1>5, <1>10, <1>13, <1>14 DEF Behind, Present
<1>20. /\ run \in Run /\ Attended(run) /\ run.service = service
       /\ run.state = "idle"
  <2>1. /\ <<>> \in Seq(Step) /\ <<>> \in Seq(Debt) /\ None \in Nat
    BY DEF None
  <2>2. run \in Run
    BY <1>4, <2>1 DEF Idle, Run
  <2>3. /\ run.service = service /\ run.state = "idle" /\ run.todo = <<>>
        /\ run.owed = <<>>
    BY <1>4 DEF Idle
  <2> QED
    BY <2>2, <2>3 DEF Attended
<1> QED
  BY <1>15, <1>16, <1>17, <1>18, <1>19, <1>20 DEF IInv, Ahead

\* Commands.
LEMMA CommandSteps ==
    ASSUME Safe(world, run), Running
    PROVE  /\ run \in Run /\ Attended(run) /\ run.state # "idle"
           /\ world \in World /\ Seen(world) /\ Head(run.todo) \in Step
           /\ run.image \in Image /\ run.attempt \in 1 .. MaxAttempts
           /\ Alike(run, run)
           /\ EffectIs(world, run, Head(run.todo),
                       Effect(world, run, Head(run.todo)))
<1>1. /\ run \in Run /\ Attended(run) /\ run.state # "idle"
      /\ world \in World /\ Seen(world)
  BY DEF Safe, Running
<1>2. /\ Head(run.todo) \in Step /\ run.image \in Image
      /\ run.attempt \in 1 .. MaxAttempts
  BY <1>1, FirstStep DEF Attended
<1>3. EffectIs(world, run, Head(run.todo), Effect(world, run, Head(run.todo)))
  BY <1>1, <1>2, EffectOK
<1> QED
  BY <1>1, <1>2, <1>3 DEF Alike

LEMMA PerformSafe == ASSUME Safe(world, run), Perform PROVE Safe(world', run')
<1> DEFINE s == Head(run.todo)
           a == Learns(run, s)
           b == Owing(a, s, TRUE)
           c == Settled(b, s)
<1>1. /\ Running /\ Holds(world, run, s) /\ world' = Effect(world, run, s)
      /\ run' = Advanced(c)
  BY DEF Perform
<1>2. /\ run \in Run /\ Attended(run) /\ run.state # "idle" /\ s \in Step
      /\ EffectIs(world, run, s, Effect(world, run, s)) /\ Alike(run, run)
      /\ world \in World
  BY <1>1, CommandSteps
<1>3. Alike(run, a)
  <2>1. <<world.dep, world.status>> \in Deployment \X Status
    BY <1>2 DEF World
  <2> QED
    BY <1>2, <2>1, Noted, Zenon DEF Learns
<1> HIDE DEF a
<1>4. Alike(a, b)
  BY <1>2, <1>3, OwingOK, Zenon DEF Alike
<1> HIDE DEF b
<1>5. Alike(b, c)
  BY <1>4, SettledOK DEF Alike
<1> HIDE DEF c
<1>6. Alike(run, c)
  BY <1>3, <1>4, <1>5, AlikeTransitive
<1>7. Follows(run, run')
  BY <1>1, <1>2, <1>6, AdvancedFollows
<1> HIDE DEF s
<1> QED
  BY <1>1, <1>2, <1>7, CommandMoves DEF s, Moved

LEMMA RefuseSafe == ASSUME Safe(world, run), Refuse PROVE Safe(world', run')
<1> DEFINE s == Head(run.todo)
           q == Owing(run, s, FALSE)
<1>1. /\ Running /\ world' = world /\ run' = Raised(q, s)
  BY DEF Refuse
<1>2. /\ run \in Run /\ Attended(run) /\ run.state # "idle" /\ s \in Step
  BY <1>1, CommandSteps
<1>3. Alike(run, q)
  BY <1>2, OwingOK, Zenon
<1> HIDE DEF q
<1>4. Follows(run, run') /\ (run'.state = "body" => s[1] \in Collected)
  BY <1>1, <1>2, <1>3, RaisedFollows
<1> HIDE DEF s
<1>5. Safe(world, run')
  BY <1>1, <1>2, <1>4, CommandStays DEF s
<1> QED
  BY <1>1, <1>5

LEMMA FailSafe == ASSUME Safe(world, run), Fail PROVE Safe(world', run')
<1> DEFINE s == Head(run.todo)
           n == run.faults + 1
           r == [run EXCEPT !.faults = n]
<1>1. /\ Running /\ Holds(world, run, s)
  BY DEF Fail
<1>2. PICK done \in BOOLEAN :
        /\ world' = IF done THEN Effect(world, run, s) ELSE world
        /\ run' = Raised(Unanswered(r, s, done, run.service = "product"), s)
  BY Zenon DEF Fail
<1>3. /\ run \in Run /\ Attended(run) /\ run.state # "idle" /\ s \in Step
      /\ EffectIs(world, run, s, Effect(world, run, s))
  BY <1>1, CommandSteps
<1>4. n \in Nat
  BY <1>3 DEF Run
<1> HIDE DEF n
<1>5. Alike(run, r) /\ r \in Run
  BY <1>3, <1>4, Zenon DEF Alike, Run
<1> HIDE DEF r
<1> DEFINE q == Unanswered(r, s, done, run.service = "product")
<1>6. Alike(r, q)
  BY <1>3, <1>5, UnansweredOK
<1>7. run' = Raised(q, s)
  BY <1>2
<1> HIDE DEF q
<1>8. Alike(run, q)
  BY <1>5, <1>6, AlikeTransitive
<1>9. Follows(run, run') /\ (run'.state = "body" => s[1] \in Collected)
  BY <1>3, <1>7, <1>8, RaisedFollows
<1>10. world' = world \/ world' = Effect(world, run, s)
  BY <1>2
<1> HIDE DEF s
<1>11. Moved(world, run, world')
  BY <1>1, <1>3, <1>10 DEF s, Moved
<1> QED
  BY <1>1, <1>3, <1>9, <1>11, CommandMoves DEF s

LEMMA InterruptSafe ==
    ASSUME Safe(world, run), Interrupt PROVE Safe(world', run')
<1> DEFINE s == Head(run.todo)
           n == run.faults + 1
           r == [run EXCEPT !.faults = n]
<1>1. Running
  BY DEF Interrupt
<1>2. /\ run \in Run /\ Attended(run) /\ run.state # "idle" /\ s \in Step
      /\ EffectIs(world, run, s, Effect(world, run, s))
  BY <1>1, CommandSteps
<1>3. PICK done \in BOOLEAN, listed \in {FALSE, run.service = "product"} :
        /\ done => Holds(world, run, s)
        /\ world' = IF done THEN Effect(world, run, s) ELSE world
        /\ run' = Finally(IF Cleaning(run, s)
                          THEN Settled([r EXCEPT !.lost = @ \/ ~done], s)
                          ELSE Unanswered(r, s, done, listed),
                          "interrupted")
  BY Zenon DEF Interrupt
<1>4. n \in Nat
  BY <1>2 DEF Run
<1> HIDE DEF n
<1>5. Alike(run, r) /\ r \in Run
  BY <1>2, <1>4, Zenon DEF Alike, Run
<1> HIDE DEF r
<1> DEFINE l == r.lost \/ ~done
           x == [r EXCEPT !.lost = l]
           y == Settled(x, s)
           z == Unanswered(r, s, done, listed)
<1>6. run' = Finally(y, "interrupted") \/ run' = Finally(z, "interrupted")
  BY <1>3
<1>7. l \in BOOLEAN
  BY <1>5 DEF Run
<1> HIDE DEF l
<1>8. Alike(r, x) /\ x \in Run
  BY <1>5, <1>7, Zenon DEF Alike, Run
<1> HIDE DEF x
<1>9. Alike(x, y)
  BY <1>8, SettledOK
<1> HIDE DEF y
<1>10. Alike(r, z)
  BY <1>2, <1>5, UnansweredOK
<1> HIDE DEF z
<1>11. Alike(run, y) /\ Alike(run, z)
  BY <1>5, <1>8, <1>9, <1>10, AlikeTransitive
<1>12. "interrupted" \in Verdict
  BY DEF Verdict
<1>13. Follows(run, run') /\ run'.state # "body"
  BY <1>2, <1>6, <1>11, <1>12, FinallyFollows
<1>14. world' = world \/ (Holds(world, run, s) /\ world' = Effect(world, run, s))
  BY <1>3
<1> HIDE DEF s
<1>15. CASE world' = world
  <2>1. Safe(world, run')
    BY <1>2, <1>13, CommandStays DEF s
  <2> QED
    BY <1>15, <2>1
<1>16. CASE Holds(world, run, s) /\ world' = Effect(world, run, s)
  BY <1>2, <1>13, <1>16, CommandMoves DEF s, Moved
<1> QED
  BY <1>14, <1>15, <1>16

LEMMA KillSafe == ASSUME Safe(world, run), Kill PROVE Safe(world', run')
<1> DEFINE p == Ends(run, "killed")
           n == p.faults + 1
           q == [p EXCEPT !.faults = n]
<1>1. /\ Running /\ world' = world /\ run' = q
  BY DEF Kill
<1>2. run \in Run /\ run.state # "idle" /\ Attended(run)
  BY <1>1, CommandSteps
<1>3. "killed" \in Verdict
  BY DEF Verdict
<1>4. /\ p \in Run /\ p.state = "idle" /\ Attended(p)
      /\ p.service = run.service /\ p.mode = run.mode
  BY <1>2, <1>3, EndsOK
<1> HIDE DEF p
<1>5. n \in Nat
  BY <1>4 DEF Run
<1>6. Alike(p, q) /\ q.owed = p.owed
  <2> HIDE DEF n
  <2> QED
    BY <1>4, <1>5, Noted, Zenon DEF Run
<1> HIDE DEF n, q
<1>7. Follows(run, q) /\ q.state # "body"
  BY <1>4, <1>6 DEF Follows, Alike, Attended
<1>8. Safe(world, q)
  BY <1>2, <1>7, CommandStays
<1> QED
  BY <1>1, <1>8

LEMMA BeginSafe == ASSUME Safe(world, run), Begin PROVE Safe(world', run')
<1> DEFINE v == [world EXCEPT !.forwards = FALSE]
           k == Kept(run)
<1>1. PICK script \in Operations(run.mode),
           image \in IF run.mode = "direct" THEN Image ELSE {world.main.api[1]},
           previous \in IF run.mode = "direct" THEN {None} \cup Image
                        ELSE {None} :
          LET r == [Kept(run) EXCEPT !.state = "body", !.script = script,
                       !.image = image, !.previous = previous,
                       !.attempt = world.attempt,
                       !.release = world.main.api]
          IN run' = [r EXCEPT !.todo = Script(r), !.operations = @ + 1]
  BY Zenon DEF Begin
<1>2. world' = v
  BY DEF Begin
<1> DEFINE r == [k EXCEPT !.state = "body", !.script = script,
                          !.image = image, !.previous = previous,
                          !.attempt = world.attempt,
                          !.release = world.main.api]
           t == Script(r)
           n == r.operations + 1
           q == [r EXCEPT !.todo = t, !.operations = n]
<1>3. run' = q
  BY <1>1
<1>4. /\ world \in World /\ run \in Run /\ Seen(world)
      /\ world.attempt \in 1 .. MaxAttempts /\ world.main.api \in Release
      /\ world.main.api[1] \in Image
  BY Zenon DEF Safe, World, Bundle, Release
<1>5. /\ image \in Image /\ previous \in Image \cup {None}
      /\ script \in Operations("direct") \cup Operations("flux")
  BY <1>4 DEF Run
<1>6. /\ k \in Run /\ k.service = run.service /\ k.mode = run.mode
      /\ k.owed = <<>>
  <2>1. /\ run.service \in Services /\ run.mode \in {"direct", "flux"}
        /\ run.operations \in Nat /\ run.faults \in Nat
    BY <1>4 DEF Run
  <2>2. /\ <<>> \in Seq(Step) /\ <<>> \in Seq(Debt) /\ None \in Nat
    BY DEF None
  <2>3. k \in Run
    BY <2>1, <2>2 DEF Kept, Idle, Run
  <2> QED
    BY <2>3 DEF Kept, Idle
<1> HIDE DEF k
<1>7. script \in {"preflight", "image-load", "deploy", "status", "verify", "stop"}
  BY <1>5 DEF Operations
<1>8. r \in Run
  <2> DEFINE j == [k EXCEPT !.state = "body", !.script = script,
                            !.image = image]
  <2>1. world.attempt \in Nat
    BY <1>4
  <2>2. j \in Run
    BY <1>5, <1>6, <1>7, Zenon DEF Run
  <2>3. r = [j EXCEPT !.previous = previous, !.attempt = world.attempt,
                      !.release = world.main.api]
    BY <1>6 DEF Run
  <2> HIDE DEF j, r
  <2> QED
    BY <1>4, <1>5, <2>1, <2>2, <2>3, Zenon DEF Run
<1>9. /\ r.state = "body" /\ r.script = script /\ r.image = image
      /\ r.attempt = world.attempt /\ r.service = run.service
      /\ r.mode = run.mode /\ r.owed = <<>>
  BY <1>6 DEF Run
<1> HIDE DEF r
<1>10. n \in Nat /\ r.service \in Services
  BY <1>8 DEF Run
<1>11. t \in Seq(Step) /\ t # <<>>
  BY <1>5, <1>9, <1>10, ScriptSteps
<1>12. r.service = "product" => Uncollected(t) /\ Guarded(t, FALSE)
  BY <1>5, <1>9, ProductScripts, Zenon
<1> HIDE DEF t, n
<1>13. q \in Run
  BY <1>8, <1>10, <1>11, Zenon DEF Run
<1>14. /\ q.todo = t /\ q.state = "body" /\ q.image = image
       /\ q.attempt = world.attempt /\ q.service = run.service
  BY <1>8, <1>9 DEF Run
<1> HIDE DEF q
<1>15. Attended(q)
  BY <1>4, <1>5, <1>11, <1>14 DEF Attended
<1>16. /\ v \in World /\ v.status = world.status /\ v.dep = world.dep
       /\ v.main = world.main /\ v.applied = world.applied
       /\ v.init = world.init /\ v.job = world.job /\ v.pod = world.pod
  BY <1>4, Zenon DEF World
<1> HIDE DEF v
<1>17. /\ Seen(v) /\ Grown(v, q.service) /\ Initialized(v)
       /\ Behind(v, q.service)
  BY <1>14, <1>16 DEF Safe, Seen, Grown, Initialized, Behind, Present
<1>18. Ahead(v, q)
  BY <1>9, <1>12, <1>14 DEF Ahead, Uncollected, Guarded
<1> QED
  BY <1>2, <1>3, <1>13, <1>15, <1>16, <1>17, <1>18 DEF Safe

\* Releases, Flux and the controllers.
LEMMA WorldTypes ==
    ASSUME Safe(world, run)
    PROVE  /\ world \in World /\ run \in Run /\ Seen(world)
           /\ world.dep \in Deployment /\ world.dep.image \in Image
           /\ world.status \in Status
           /\ world.pod \in [Image -> {"absent", "starting", "ready", "ending"}]
           /\ world.job \in [Release -> {"absent", "running", "complete",
                                         "failed"}]
           /\ world.init \in [Release -> {"none", "running", "ready", "failed"}]
           /\ world.main \in Bundle /\ world.applied \in Bundle
           /\ world.tree \in Seq(Bundle) /\ world.pushed \in Nat
           /\ world.pending \in Nat
           /\ world.workflow \in {NoRelease} \cup (Nat \X Image)
           /\ world.built \in Image /\ world.attempt \in 1 .. MaxAttempts
           /\ world.api \in [release : Release, ready : BOOLEAN]
           /\ run.faults \in Nat
BY DEF Safe, World, Deployment, Run

\* Bundles, Jobs, Pods and the Deployment are as they were.
LEMMA LastingUnchanged ==
    ASSUME Safe(world, run), NEW v \in World,
           v.dep = world.dep, v.status = world.status, v.pod = world.pod,
           v.main = world.main, v.applied = world.applied,
           v.init = world.init, v.job = world.job
    PROVE  Lasting(world, v, run.service)
BY DEF Lasting, Safe, Seen, Grown, Initialized, Present

\* What a step of the cluster leaves of the command.
Waiting(r, q) ==
    /\ q \in Run /\ q.service = r.service /\ q.state = r.state
    /\ q.todo = r.todo /\ q.owed = r.owed /\ q.image = r.image
    /\ q.attempt = r.attempt

LEMMA WorldStep ==
    ASSUME Safe(world, run), Lasting(world, world', run.service),
           Waiting(run, run')
    PROVE  Safe(world', run')
<1>1. Attended(run')
  BY DEF Attended, Safe, Waiting
<1> QED
  BY <1>1, WorldMoves DEF Waiting

LEMMA WaitingUnchanged ==
    ASSUME Safe(world, run), run' = run PROVE Waiting(run, run')
BY DEF Waiting, Safe

LEMMA PushSourceSafe ==
    ASSUME Safe(world, run), PushSource PROVE Safe(world', run')
<1> DEFINE n == world.pushed + 1
           t == Append(world.tree, world.main)
           v == [world EXCEPT !.pushed = n, !.pending = n, !.tree = t]
<1>1. world' = v /\ run' = run
  BY DEF PushSource
<1>2. n \in Nat /\ t \in Seq(Bundle)
  BY WorldTypes
<1> HIDE DEF n, t
<1>3. v \in World
  BY <1>2, WorldTypes, Zenon DEF World
<1>4. /\ v.dep = world.dep /\ v.status = world.status /\ v.pod = world.pod
      /\ v.main = world.main /\ v.applied = world.applied
      /\ v.init = world.init /\ v.job = world.job
  BY WorldTypes DEF World
<1> HIDE DEF v
<1> QED
  BY <1>1, <1>3, <1>4, LastingUnchanged, WorldStep, WaitingUnchanged

LEMMA StartReleaseSafe ==
    ASSUME Bounds, Safe(world, run), StartRelease PROVE Safe(world', run')
<1> DEFINE n == world.built + 1
           f == <<world.pending, n>>
           v == [world EXCEPT !.built = n, !.pending = None, !.workflow = f]
<1>1. world' = v /\ run' = run /\ world.built < MaxImages
  BY DEF StartRelease
<1>2. n \in Image /\ None \in Nat
  BY <1>1, WorldTypes DEF Bounds, Image, None
<1>3. f \in {NoRelease} \cup (Nat \X Image)
  BY <1>2, WorldTypes
<1> HIDE DEF n, f
<1>4. v \in World
  BY <1>2, <1>3, WorldTypes, Zenon DEF World
<1>5. /\ v.dep = world.dep /\ v.status = world.status /\ v.pod = world.pod
      /\ v.main = world.main /\ v.applied = world.applied
      /\ v.init = world.init /\ v.job = world.job
  BY WorldTypes DEF World
<1> HIDE DEF v
<1> QED
  BY <1>1, <1>4, <1>5, LastingUnchanged, WorldStep, WaitingUnchanged

LEMMA RunAgainSafe ==
    ASSUME Safe(world, run), RunAgain PROVE Safe(world', run')
<1> DEFINE p == world.workflow[1]
           n == run.faults + 1
           v == [world EXCEPT !.workflow = NoRelease, !.pending = p]
           q == [run EXCEPT !.faults = n]
<1>1. world' = v /\ run' = q /\ world.workflow # NoRelease
  BY DEF RunAgain
<1>2. p \in Nat /\ n \in Nat
  BY <1>1, WorldTypes
<1> HIDE DEF p, n
<1>3. v \in World
  BY <1>2, WorldTypes, Zenon DEF World
<1>4. /\ v.dep = world.dep /\ v.status = world.status /\ v.pod = world.pod
      /\ v.main = world.main /\ v.applied = world.applied
      /\ v.init = world.init /\ v.job = world.job
  BY WorldTypes DEF World
<1>5. Waiting(run, q)
  BY <1>2, WorldTypes, Zenon DEF Run, Waiting
<1> HIDE DEF v, q
<1> QED
  BY <1>1, <1>3, <1>4, <1>5, LastingUnchanged, WorldStep

\* A bundle that takes main's place.
LEMMA Prepared ==
    ASSUME Safe(world, run), NEW release \in Release
    PROVE  LET b == PrepareRelease(world.main, release)
           IN /\ b \in Bundle /\ world.main.inits \subseteq b.inits
              /\ run.service # "product" => b.inits = {}
<1>1. CASE run.service = "product"
  BY <1>1, WorldTypes DEF PrepareRelease, RetainedDocuments, Bundle
<1>2. CASE run.service # "product"
  <2>1. world.main.inits = {}
    BY <1>2 DEF Safe, Grown
  <2> QED
    BY <1>2, <2>1, WorldTypes DEF PrepareRelease, OverlayTag, Bundle
<1> QED
  BY <1>1, <1>2

LEMMA LastingMain ==
    ASSUME Safe(world, run), NEW v \in World,
           v.dep = world.dep, v.status = world.status, v.pod = world.pod,
           v.applied = world.applied, v.init = world.init, v.job = world.job,
           world.main.inits \subseteq v.main.inits,
           run.service # "product" => v.main.inits = {}
    PROVE  Lasting(world, v, run.service)
BY DEF Lasting, Safe, Seen, Grown, Initialized, Present

\* What FinishRelease and Retry put on main.
LEMMA FinishReleaseMain ==
    ASSUME Safe(world, run), FinishRelease
    PROVE  \E m \in Bundle :
              /\ world' = [world EXCEPT !.workflow = NoRelease, !.main = m]
              /\ world.main.inits \subseteq m.inits
              /\ run.service # "product" => m.inits = {}
<1> DEFINE tree == world.tree[world.workflow[1]]
           release == <<world.workflow[2], world.attempt>>
           m == IF world.main = tree THEN PrepareRelease(tree, release)
                ELSE world.main
<1>1. /\ world.workflow # NoRelease
      /\ world' = [world EXCEPT !.workflow = NoRelease, !.main = m]
  BY DEF FinishRelease
<1>2. release \in Release
  BY <1>1, WorldTypes, ImagesAreReleases
<1>3. /\ m \in Bundle /\ world.main.inits \subseteq m.inits
      /\ run.service # "product" => m.inits = {}
  <2> HIDE DEF tree, release
  <2>1. CASE world.main = tree
    BY <1>2, <2>1, Prepared
  <2>2. CASE world.main # tree
    BY <2>2, WorldTypes DEF Safe, Grown
  <2> QED
    BY <2>1, <2>2
<1> HIDE DEF m
<1> QED
  BY <1>1, <1>3, Zenon

LEMMA FinishReleaseSafe ==
    ASSUME Safe(world, run), FinishRelease PROVE Safe(world', run')
<1>1. PICK m \in Bundle :
          /\ world' = [world EXCEPT !.workflow = NoRelease, !.main = m]
          /\ world.main.inits \subseteq m.inits
          /\ run.service # "product" => m.inits = {}
  BY FinishReleaseMain, Zenon
<1>2. run' = run
  BY DEF FinishRelease
<1> DEFINE v == [world EXCEPT !.workflow = NoRelease, !.main = m]
<1>3. v \in World
  BY WorldTypes, Zenon DEF World
<1>4. /\ v.dep = world.dep /\ v.status = world.status /\ v.pod = world.pod
      /\ v.main = m /\ v.applied = world.applied
      /\ v.init = world.init /\ v.job = world.job
  BY WorldTypes DEF World
<1>5. world' = v
  BY <1>1
<1> HIDE DEF v
<1>6. Lasting(world, v, run.service)
  BY <1>1, <1>3, <1>4, LastingMain
<1> QED
  BY <1>2, <1>5, <1>6, WorldStep, WaitingUnchanged

LEMMA RetryMain ==
    ASSUME Bounds, Safe(world, run), Retry
    PROVE  \E m \in Bundle, n \in 1 .. MaxAttempts :
              /\ world' = [world EXCEPT !.attempt = n, !.main = m]
              /\ world.main.inits \subseteq m.inits
              /\ run.service = "product"
<1> DEFINE n == world.attempt + 1
           release == <<world.main.api[1], n>>
           m == IF run.mode = "direct" THEN world.main
                ELSE PrepareRelease(world.main, release)
<1>1. /\ run.service = "product" /\ world.attempt < MaxAttempts
      /\ world' = [world EXCEPT !.attempt = n, !.main = m]
  BY DEF Retry
<1>2. n \in 1 .. MaxAttempts
  BY <1>1, WorldTypes DEF Bounds
<1>3. release \in Release
  <2>1. world.main.api[1] \in Image
    BY WorldTypes, Zenon DEF Bundle, Release
  <2> QED
    BY <1>2, <2>1, ImagesAreReleases
<1> HIDE DEF n, release
<1>4. m \in Bundle /\ world.main.inits \subseteq m.inits
  BY <1>3, WorldTypes, Prepared
<1> HIDE DEF m
<1> QED
  BY <1>1, <1>2, <1>4, Zenon

LEMMA RetrySafe ==
    ASSUME Bounds, Safe(world, run), Retry PROVE Safe(world', run')
<1>1. PICK m \in Bundle, n \in 1 .. MaxAttempts :
          /\ world' = [world EXCEPT !.attempt = n, !.main = m]
          /\ world.main.inits \subseteq m.inits
          /\ run.service = "product"
  BY RetryMain, Zenon
<1>2. run' = run
  BY DEF Retry
<1> DEFINE v == [world EXCEPT !.attempt = n, !.main = m]
<1>3. v \in World
  BY WorldTypes, Zenon DEF World
<1>4. /\ v.dep = world.dep /\ v.status = world.status /\ v.pod = world.pod
      /\ v.main = m /\ v.applied = world.applied
      /\ v.init = world.init /\ v.job = world.job
  BY WorldTypes DEF World
<1>5. world' = v
  BY <1>1
<1> HIDE DEF v
<1>6. Lasting(world, v, run.service)
  BY <1>1, <1>3, <1>4, LastingMain
<1> QED
  BY <1>2, <1>5, <1>6, WorldStep, WaitingUnchanged

\* Product's bundle holds what was applied, so that no Job of it is pruned.
LEMMA ApplyBundleSafe ==
    ASSUME Safe(world, run), ApplyBundle PROVE Safe(world', run')
<1> DEFINE main == world.main
           init == [r \in Release |->
                       CASE r \notin main.inits -> "none"
                         [] r \in main.inits /\ world.init[r] = "none" ->
                              "running"
                         [] OTHER -> world.init[r]]
           job == [r \in Release |->
                       CASE r \in world.applied.inits \ main.inits -> "absent"
                         [] r \in main.inits /\ world.job[r] = "absent" ->
                              "running"
                         [] OTHER -> world.job[r]]
           v == [world EXCEPT !.applied = main, !.init = init, !.job = job]
<1>1. world' = v /\ run' = run
  BY DEF ApplyBundle
<1>2. ASSUME NEW r \in Release
      PROVE  /\ init[r] \in {"none", "running", "ready", "failed"}
             /\ init[r] = "ready" =>
                    r \in main.inits /\ world.init[r] = "ready"
  <2>1. CASE r \notin main.inits
    BY <2>1
  <2>2. CASE r \in main.inits /\ world.init[r] = "none"
    BY <2>2
  <2>3. CASE r \in main.inits /\ world.init[r] # "none"
    <3>1. init[r] = world.init[r]
      BY <2>3
    <3> QED
      BY <2>3, <3>1, WorldTypes
  <2> QED
    BY <2>1, <2>2, <2>3
<1>3. ASSUME NEW r \in Release
      PROVE  /\ job[r] \in {"absent", "running", "complete", "failed"}
             /\ world.job[r] = "complete"
                    /\ r \notin world.applied.inits \ main.inits =>
                        job[r] = "complete"
  <2>1. CASE r \in world.applied.inits \ main.inits
    BY <2>1
  <2>2. CASE r \in main.inits /\ world.job[r] = "absent"
    BY <2>2
  <2>3. CASE /\ r \notin world.applied.inits \ main.inits
             /\ ~(r \in main.inits /\ world.job[r] = "absent")
    <3>1. job[r] = world.job[r]
      BY <2>3
    <3> QED
      BY <3>1, WorldTypes
  <2> QED
    BY <2>1, <2>2, <2>3
<1>4. /\ init \in [Release -> {"none", "running", "ready", "failed"}]
      /\ job \in [Release -> {"absent", "running", "complete", "failed"}]
  BY <1>2, <1>3
<1> HIDE DEF init, job
<1>5. main \in Bundle
  BY WorldTypes
<1>6. v \in World
  BY <1>4, <1>5, WorldTypes, Zenon DEF World
<1>7. /\ v.dep = world.dep /\ v.status = world.status /\ v.pod = world.pod
      /\ v.main = main /\ v.applied = main /\ v.init = init /\ v.job = job
  BY WorldTypes DEF World
<1> HIDE DEF v
<1>8. Initialized(v)
  BY <1>2, <1>3, <1>7 DEF Safe, Initialized
<1>9. Seen(v) /\ Grown(v, run.service)
  BY <1>7 DEF Safe, Seen, Grown
<1>10. ASSUME run.service = "product", NEW r \in Release,
              world.job[r] = "complete"
       PROVE  v.job[r] = "complete"
  <2>1. world.applied.inits \subseteq main.inits
    BY <1>10 DEF Safe, Grown
  <2> QED
    BY <1>3, <1>7, <1>10, <2>1
<1>11. Lasting(world, v, run.service)
  BY <1>6, <1>7, <1>8, <1>9, <1>10 DEF Lasting, Present
<1> QED
  BY <1>1, <1>11, WorldStep, WaitingUnchanged

LEMMA InitializeReadySafe ==
    ASSUME Safe(world, run), InitializeReady PROVE Safe(world', run')
<1>1. PICK r \in Release :
          world' = [world EXCEPT !.init[r] =
                IF world.job[r] = "complete" THEN "ready" ELSE "failed"]
  BY Zenon DEF InitializeReady
<1>2. run' = run
  BY DEF InitializeReady
<1> DEFINE x == IF world.job[r] = "complete" THEN "ready" ELSE "failed"
           init == [world.init EXCEPT ![r] = x]
           v == [world EXCEPT !.init = init]
<1>3. world' = v
  BY <1>1
<1>4. init \in [Release -> {"none", "running", "ready", "failed"}]
  BY WorldTypes
<1>5. \A y \in Release : init[y] = "ready" => world.job[y] = "complete"
  BY WorldTypes DEF Safe, Initialized
<1> HIDE DEF init
<1>6. v \in World
  BY <1>4, WorldTypes, Zenon DEF World
<1>7. /\ v.dep = world.dep /\ v.status = world.status /\ v.pod = world.pod
      /\ v.main = world.main /\ v.applied = world.applied /\ v.init = init
      /\ v.job = world.job
  BY WorldTypes DEF World
<1> HIDE DEF v
<1>8. Lasting(world, v, run.service)
  BY <1>5, <1>6, <1>7 DEF Lasting, Safe, Seen, Grown, Initialized, Present
<1> QED
  BY <1>2, <1>3, <1>8, WorldStep, WaitingUnchanged

\* The owner the API depends on has seen its Job complete.
LEMMA ApiAppliedSafe ==
    ASSUME Safe(world, run), ApiApplied PROVE Safe(world', run')
<1> DEFINE release == world.applied.api
           e == Specified(world.dep, release[1], 1)
           a == [release |-> release, ready |-> FALSE]
           v == [world EXCEPT !.api = a, !.dep = e]
           b == Running \/ run.disturbed
           q == [run EXCEPT !.disturbed = b]
<1>1. /\ world' = v /\ run' = q
      /\ run.service = "product" => world.init[release] = "ready"
  BY DEF ApiApplied
<1>2. /\ release \in Release /\ release[1] \in Image
      /\ release[2] \in 1 .. MaxAttempts /\ release = <<release[1], release[2]>>
  BY WorldTypes DEF Bundle, Release
<1>3. /\ e \in Deployment /\ e.image = release[1]
      /\ e.generation >= world.dep.generation
  BY <1>2, WorldTypes, SpecifiedOK, Zenon
<1>4. a \in [release : Release, ready : BOOLEAN]
  BY <1>2
<1>5. b \in BOOLEAN
  BY WorldTypes DEF Running, Run
<1> HIDE DEF e, a, b
<1>6. v \in World
  BY <1>3, <1>4, WorldTypes, Zenon DEF World
<1>7. /\ v.dep = e /\ v.status = world.status /\ v.pod = world.pod
      /\ v.main = world.main /\ v.applied = world.applied
      /\ v.init = world.init /\ v.job = world.job
  BY WorldTypes DEF World
<1>8. Waiting(run, q)
  BY <1>5, WorldTypes, Zenon DEF Run, Waiting
<1> HIDE DEF v, q
<1>9. Seen(v)
  <2>1. /\ world.status.seen \in Nat /\ world.dep.generation \in Nat
        /\ e.generation \in Nat
    BY <1>3, WorldTypes DEF Status, Deployment
  <2> QED
    BY <1>3, <1>7, <2>1 DEF Safe, Seen
<1>10. ASSUME run.service = "product", NEW i \in Present(v) \cup {v.dep.image}
       PROVE  \/ i \in Present(world) \cup {world.dep.image}
              \/ \E n \in 1 .. MaxAttempts : v.job[<<i, n>>] = "complete"
  <2>1. CASE i = release[1]
    <3>1. world.job[release] = "complete"
      BY <1>1, <1>2, <1>10 DEF Safe, Initialized
    <3> QED
      BY <1>2, <1>7, <2>1, <3>1
  <2>2. CASE i \in Present(world)
    BY <2>2
  <2> QED
    BY <1>3, <1>7, <1>10, <2>1, <2>2 DEF Present
<1>11. Lasting(world, v, run.service)
  BY <1>6, <1>7, <1>9, <1>10 DEF Lasting, Safe, Grown, Initialized
<1> QED
  BY <1>1, <1>8, <1>11, WorldStep

LEMMA ApiReadySafe ==
    ASSUME Safe(world, run), ApiReady PROVE Safe(world', run')
<1> DEFINE a == [world.api EXCEPT !.ready = TRUE]
           v == [world EXCEPT !.api = a]
<1>1. world' = v /\ run' = run
  BY DEF ApiReady
<1>2. a \in [release : Release, ready : BOOLEAN]
  BY WorldTypes, Zenon
<1> HIDE DEF a
<1>3. v \in World
  BY <1>2, WorldTypes, Zenon DEF World
<1>4. /\ v.dep = world.dep /\ v.status = world.status /\ v.pod = world.pod
      /\ v.main = world.main /\ v.applied = world.applied
      /\ v.init = world.init /\ v.job = world.job
  BY WorldTypes DEF World
<1> HIDE DEF v
<1> QED
  BY <1>1, <1>3, <1>4, LastingUnchanged, WorldStep, WaitingUnchanged

LEMMA JobRunsSafe ==
    ASSUME Safe(world, run), JobRuns PROVE Safe(world', run')
<1>1. PICK r \in Release :
          /\ world.job[r] = "running"
          /\ \/ world' = [world EXCEPT !.job[r] = "complete", !.table = TRUE]
             \/ world' = [world EXCEPT !.job[r] = "failed"]
  BY Zenon DEF JobRuns
<1>2. run' = run
  BY DEF JobRuns
<1>3. PICK x \in {"complete", "failed"}, t \in BOOLEAN :
          world' = [world EXCEPT !.job = [world.job EXCEPT ![r] = x],
                                 !.table = t]
  <2>1. CASE world' = [world EXCEPT !.job[r] = "complete", !.table = TRUE]
    BY <2>1, Zenon
  <2>2. CASE world' = [world EXCEPT !.job[r] = "failed"]
    <3> DEFINE j == [world.job EXCEPT ![r] = "failed"]
    <3>1. world' = [world EXCEPT !.job = j]
      BY <2>2
    <3> HIDE DEF j
    <3>2. world.table \in BOOLEAN
      BY WorldTypes DEF World
    <3>3. world' = [world EXCEPT !.job = j, !.table = world.table]
      BY <3>1, WorldTypes, Zenon DEF World
    <3> QED
      BY <3>2, <3>3, Zenon DEF j
  <2> QED
    BY <1>1, <2>1, <2>2, Zenon
<1> DEFINE job == [world.job EXCEPT ![r] = x]
           v == [world EXCEPT !.job = job, !.table = t]
<1>4. job \in [Release -> {"absent", "running", "complete", "failed"}]
  BY WorldTypes
<1>5. \A y \in Release : world.job[y] = "complete" => job[y] = "complete"
  BY <1>1, WorldTypes
<1>6. world' = v
  BY <1>3
<1> HIDE DEF job
<1>7. v \in World
  BY <1>4, WorldTypes, Zenon DEF World
<1>8. /\ v.dep = world.dep /\ v.status = world.status /\ v.pod = world.pod
      /\ v.main = world.main /\ v.applied = world.applied
      /\ v.init = world.init /\ v.job = job
  BY WorldTypes DEF World
<1> HIDE DEF v
<1>9. Lasting(world, v, run.service)
  BY <1>5, <1>7, <1>8 DEF Lasting, Safe, Seen, Grown, Initialized, Present
<1> QED
  BY <1>2, <1>6, <1>9, WorldStep, WaitingUnchanged

\* The Deployment's controller.
LEMMA PodsSafe ==
    ASSUME Safe(world, run), run' = run,
           NEW i \in Image, NEW x \in {"absent", "starting", "ready", "ending"},
           world' = [world EXCEPT !.pod[i] = x],
           world.pod[i] # "absent" \/ i = world.dep.image
    PROVE  Safe(world', run')
<1> DEFINE pod == [world.pod EXCEPT ![i] = x]
           v == [world EXCEPT !.pod = pod]
<1>1. world' = v
  OBVIOUS
<1>2. pod \in [Image -> {"absent", "starting", "ready", "ending"}]
  BY WorldTypes
<1>3. \A j \in Image : pod[j] # "absent" =>
                           world.pod[j] # "absent" \/ j = world.dep.image
  BY WorldTypes
<1> HIDE DEF pod
<1>4. v \in World
  BY <1>2, WorldTypes, Zenon DEF World
<1>5. /\ v.dep = world.dep /\ v.status = world.status /\ v.pod = pod
      /\ v.main = world.main /\ v.applied = world.applied
      /\ v.init = world.init /\ v.job = world.job
  BY WorldTypes DEF World
<1> HIDE DEF v
<1>6. Present(v) \subseteq Present(world) \cup {world.dep.image}
  BY <1>3, <1>5 DEF Present
<1>7. Lasting(world, v, run.service)
  BY <1>4, <1>5, <1>6 DEF Lasting, Safe, Seen, Grown, Initialized
<1> QED
  BY <1>1, <1>7, WorldStep, WaitingUnchanged

LEMMA RollsSafe == ASSUME Safe(world, run), Rolls PROVE Safe(world', run')
<1>1. run' = run
  BY DEF Rolls
<1>2. CASE world' = [world EXCEPT !.pod[world.dep.image] = "starting"]
  BY <1>1, <1>2, WorldTypes, PodsSafe, Zenon
<1>3. CASE \E i \in Current(world) : world' = [world EXCEPT !.pod[i] = "ending"]
  <2>1. PICK i \in Current(world) : world' = [world EXCEPT !.pod[i] = "ending"]
    BY <1>3, Zenon
  <2>2. i \in Image /\ world.pod[i] # "absent"
    BY DEF Current
  <2> QED
    BY <1>1, <2>1, <2>2, PodsSafe, Zenon
<1> QED
  BY <1>2, <1>3 DEF Rolls

LEMMA PodMovesSafe ==
    ASSUME Safe(world, run), PodMoves PROVE Safe(world', run')
<1>1. run' = run
  BY DEF PodMoves
<1>2. PICK i \in Image :
          \/ /\ world.pod[i] = "starting"
             /\ world' = [world EXCEPT !.pod[i] = "ready"]
          \/ /\ world.pod[i] = "ending"
             /\ world' = [world EXCEPT !.pod[i] = "absent"]
  BY DEF PodMoves
<1>3. world.pod[i] # "absent"
  BY <1>2
<1> QED
  BY <1>1, <1>2, <1>3, PodsSafe

LEMMA StatusWrittenSafe ==
    ASSUME Safe(world, run), StatusWritten PROVE Safe(world', run')
<1> DEFINE x == [seen |-> world.dep.generation, current |-> Current(world),
                 ready |-> Serving(world)]
           v == [world EXCEPT !.status = x]
<1>1. world' = v /\ run' = run
  BY DEF StatusWritten
<1>2. x \in Status /\ x.seen = world.dep.generation
  BY WorldTypes DEF Status, Current, Serving, Deployment
<1> HIDE DEF x
<1>3. v \in World
  BY <1>2, WorldTypes DEF World
<1>4. /\ v.dep = world.dep /\ v.status = x /\ v.pod = world.pod
      /\ v.main = world.main /\ v.applied = world.applied
      /\ v.init = world.init /\ v.job = world.job
  BY WorldTypes DEF World
<1> HIDE DEF v
<1>5. Seen(v)
  BY <1>2, <1>4, WorldTypes DEF Seen, Deployment
<1>6. Lasting(world, v, run.service)
  BY <1>3, <1>4, <1>5 DEF Lasting, Safe, Grown, Initialized, Present
<1> QED
  BY <1>1, <1>6, WorldStep, WaitingUnchanged

-----------------------------------------------------------------------------
(* The theorems.                                                           *)

LEMMA NextSafe == ASSUME Bounds, IInv, [Next]_vars PROVE IInv'
<1>1. Safe(world, run)
  BY SafeIs
<1>2. Safe(world', run')
  <2>1. CASE Begin
    BY <1>1, <2>1, BeginSafe
  <2>2. CASE Perform
    BY <1>1, <2>2, PerformSafe
  <2>3. CASE Refuse
    BY <1>1, <2>3, RefuseSafe
  <2>4. CASE Fail
    BY <1>1, <2>4, FailSafe
  <2>5. CASE Interrupt
    BY <1>1, <2>5, InterruptSafe
  <2>6. CASE Kill
    BY <1>1, <2>6, KillSafe
  <2>7. CASE PushSource
    BY <1>1, <2>7, PushSourceSafe
  <2>8. CASE StartRelease
    BY <1>1, <2>8, StartReleaseSafe
  <2>9. CASE FinishRelease
    BY <1>1, <2>9, FinishReleaseSafe
  <2>10. CASE RunAgain
    BY <1>1, <2>10, RunAgainSafe
  <2>11. CASE Retry
    BY <1>1, <2>11, RetrySafe
  <2>12. CASE ApplyBundle
    BY <1>1, <2>12, ApplyBundleSafe
  <2>13. CASE InitializeReady
    BY <1>1, <2>13, InitializeReadySafe
  <2>14. CASE ApiApplied
    BY <1>1, <2>14, ApiAppliedSafe
  <2>15. CASE ApiReady
    BY <1>1, <2>15, ApiReadySafe
  <2>16. CASE JobRuns
    BY <1>1, <2>16, JobRunsSafe
  <2>17. CASE Rolls
    BY <1>1, <2>17, RollsSafe
  <2>18. CASE PodMoves
    BY <1>1, <2>18, PodMovesSafe
  <2>19. CASE StatusWritten
    BY <1>1, <2>19, StatusWrittenSafe
  <2>20. CASE UNCHANGED vars
    BY <1>1, <2>20 DEF vars
  <2> QED
    BY <2>1, <2>2, <2>3, <2>4, <2>5, <2>6, <2>7, <2>8, <2>9, <2>10, <2>11,
       <2>12, <2>13, <2>14, <2>15, <2>16, <2>17, <2>18, <2>19, <2>20 DEF Next
<1> QED
  BY <1>2 DEF IInv, Safe

\* Only a release and a retry change main.
LEMMA MainKept ==
    ASSUME Safe(world, run), Next, ~FinishRelease, ~Retry
    PROVE  world'.main = world.main
<1>1. world \in World
  BY WorldTypes
<1>2. CASE Perform \/ Refuse \/ Fail \/ Interrupt \/ Kill
  <2>1. Running
    BY <1>2, Zenon DEF Perform, Refuse, Fail, Interrupt, Kill
  <2>2. world' = world \/ world' = Effect(world, run, Head(run.todo))
    BY <1>2, Zenon DEF Perform, Refuse, Fail, Interrupt, Kill
  <2>3. Effect(world, run, Head(run.todo)).main = world.main
    BY <2>1, CommandSteps DEF EffectIs
  <2> QED
    BY <2>2, <2>3
<1>3. CASE Begin \/ PushSource \/ StartRelease \/ RunAgain
  BY <1>1, <1>3, Zenon DEF Begin, PushSource, StartRelease, RunAgain, World
<1>4. CASE ApplyBundle
  BY <1>1, <1>4 DEF ApplyBundle, World
<1>5. CASE InitializeReady \/ ApiReady \/ JobRuns \/ PodMoves
  BY <1>1, <1>5, Zenon DEF InitializeReady, ApiReady, JobRuns, PodMoves, World
<1>6. CASE ApiApplied \/ Rolls \/ StatusWritten
  BY <1>1, <1>6, Zenon DEF ApiApplied, Rolls, StatusWritten, World
<1> QED
  BY <1>2, <1>3, <1>4, <1>5, <1>6 DEF Next

\* The invariant: an owner that is ready has its Job complete, Product's main
\* holds what was applied, and no Product command has an apply ahead that
\* neither a complete Job nor a wait for it comes before.
THEOREM DeploymentInvariant == ASSUME Bounds PROVE Spec => []IInv
<1>1. Init => IInv
  BY InitSafe
<1>2. IInv /\ [Next]_vars => IInv'
  BY NextSafe
<1> QED
  BY <1>1, <1>2, PTL DEF Spec

LEMMA Typed == ASSUME IInv PROVE TypeOK
<1>1. Safe(world, run)
  BY SafeIs
<1>2. /\ world.dep.image \in Image /\ world.dep.replicas \in {0, 1}
      /\ world.pod \in [Image -> {"absent", "starting", "ready", "ending"}]
      /\ world.main.inits \subseteq Release
  BY <1>1, WorldTypes DEF Deployment, Bundle
<1>3. world.status.seen \in 1 .. world.dep.generation
  BY <1>1, WorldTypes DEF Seen, Status, Deployment
<1>4. world.probes \subseteq {"namespace", "beside", "outside"}
  BY <1>1, WorldTypes DEF World, Pods
<1>5. /\ run.state \in {"idle", "body", "cleanup"}
      /\ (run.state = "idle") = (run.todo = <<>>)
      /\ run.state = "idle" => run.owed = <<>>
  BY <1>1 DEF Safe, Attended, Run
<1> QED
  BY <1>2, <1>3, <1>4, <1>5 DEF TypeOK

\* TypeOK: commands and their steps, Pods, Jobs and releases keep their types,
\* whatever fails, is interrupted or overlaps.
THEOREM DeploymentTypeOK == ASSUME Bounds PROVE Spec => []TypeOK
<1>1. IInv => TypeOK
  BY Typed
<1> QED
  BY <1>1, DeploymentInvariant, PTL

\* Unlocked: product-service runs from an image only after the initialization
\* Job of that very release succeeded, and while that Job is there: neither a
\* Job of an earlier release nor a pruned one unlocks it, on either way to the
\* cluster.
THEOREM ProductUnlocked == ASSUME Bounds PROVE Spec => []Unlocked
<1>1. IInv => Unlocked
  BY DEF IInv, Behind, Unlocked
<1> QED
  BY <1>1, DeploymentInvariant, PTL

\* Retains: what was released stays on main; a release, run again or
\* overlapping with another, or a retry drops no prerequisite.
THEOREM MainRetains == ASSUME Bounds PROVE Spec => Retains
<1> DEFINE Keeps == world.main.inits \subseteq world'.main.inits
<1>1. ASSUME IInv, [Next]_vars PROVE [Keeps]_vars
  <2>1. Safe(world, run)
    BY <1>1, SafeIs
  <2>2. CASE FinishRelease
    <3>1. PICK m \in Bundle :
              /\ world' = [world EXCEPT !.workflow = NoRelease, !.main = m]
              /\ world.main.inits \subseteq m.inits
      BY <2>1, <2>2, FinishReleaseMain, Zenon
    <3>2. world'.main = m
      BY <2>1, <3>1, WorldTypes DEF World
    <3> QED
      BY <3>1, <3>2
  <2>3. CASE Retry
    <3>1. PICK m \in Bundle, n \in 1 .. MaxAttempts :
              /\ world' = [world EXCEPT !.attempt = n, !.main = m]
              /\ world.main.inits \subseteq m.inits
      BY <2>1, <2>3, RetryMain, Zenon
    <3>2. world'.main = m
      BY <2>1, <3>1, WorldTypes DEF World
    <3> QED
      BY <3>1, <3>2
  <2>4. CASE Next /\ ~FinishRelease /\ ~Retry
    BY <2>1, <2>4, MainKept
  <2> QED
    BY <1>1, <2>2, <2>3, <2>4
<1> QED
  BY <1>1, DeploymentInvariant, PTL DEF Spec, Retains
-----------------------------------------------------------------------------
(* Where a command is in its script, and what it owes there.               *)

\* The step of t after which n - 1 steps are left.
Left(t, n) == t[(Len(t) + 1) - n]

\* t is the end of u.
Ending(t, u) ==
    /\ Len(t) <= Len(u)
    /\ \A n \in 1 .. Len(t) : Left(t, n) = Left(u, n)

\* What a deployment, a verification or a stop does first.
Early == {"judge", "fluxRelease", "liveBefore", "live", "readVersion",
          "applyJob", "complete", "initialized"}
\* All steps but the last m are of that kind.
Opens(t, m) == \A n \in m + 1 .. Len(t) : Left(t, n)[1] \in Early

\* Two sequences, one after the other.
LEMMA LeftJoined ==
    ASSUME NEW a \in Seq(Step), NEW b \in Seq(Step)
    PROVE  LET c == a \o b
           IN /\ c \in Seq(Step) /\ Len(c) = Len(a) + Len(b)
              /\ Len(a) \in Nat /\ Len(b) \in Nat
              /\ \A n \in 1 .. Len(c) :
                    Left(c, n) = IF n <= Len(b) THEN Left(b, n)
                                 ELSE Left(a, n - Len(b))
<1> DEFINE c == a \o b
           k == Len(a)
           m == Len(b)
<1>1. /\ c \in Seq(Step) /\ Len(c) = k + m /\ k \in Nat /\ m \in Nat
      /\ \A i \in 1 .. k + m : c[i] = IF i <= k THEN a[i] ELSE b[i - k]
  BY ConcatProperties, LenProperties
<1>2. Len(a) = k /\ Len(b) = m
  OBVIOUS
<1> HIDE DEF c, k, m
<1>3. ASSUME NEW n \in 1 .. k + m
      PROVE  Left(c, n) = IF n <= m THEN Left(b, n) ELSE Left(a, n - m)
  <2> DEFINE i == (k + m + 1) - n
  <2>1. i \in 1 .. k + m /\ Left(c, n) = c[i]
    BY <1>1, <1>3 DEF Left
  <2>2. CASE n <= m
    <3>1. ~(i <= k) /\ i - k = (m + 1) - n
      BY <1>1, <1>3, <2>2
    <3>2. c[i] = b[i - k]
      BY <1>1, <2>1, <3>1, Zenon
    <3> QED
      BY <1>2, <2>1, <2>2, <3>1, <3>2 DEF Left
  <2>3. CASE ~(n <= m)
    <3>1. i <= k /\ i = (k + 1) - (n - m)
      BY <1>1, <1>3, <2>3
    <3>2. c[i] = a[i]
      BY <1>1, <2>1, <3>1, Zenon
    <3> QED
      BY <1>2, <2>1, <2>3, <3>1, <3>2 DEF Left
  <2> QED
    BY <2>2, <2>3
<1> QED
  BY <1>1, <1>2, <1>3 DEF c

LEMMA OpensJoined ==
    ASSUME NEW a \in Seq(Step), NEW b \in Seq(Step), NEW m \in Nat
    PROVE  /\ Opens(a, m) => Opens(a \o b, m + Len(b))
           /\ Opens(a, 0) /\ Opens(b, m) => Opens(a \o b, m)
<1> DEFINE c == a \o b
<1>1. /\ Len(c) = Len(a) + Len(b) /\ Len(a) \in Nat /\ Len(b) \in Nat
      /\ \A n \in 1 .. Len(c) :
            Left(c, n) = IF n <= Len(b) THEN Left(b, n)
                         ELSE Left(a, n - Len(b))
  BY LeftJoined
<1> HIDE DEF c
<1>2. ASSUME Opens(a, m) PROVE Opens(c, m + Len(b))
  <2> SUFFICES ASSUME NEW n \in m + Len(b) + 1 .. Len(c)
               PROVE  Left(c, n)[1] \in Early
    BY DEF Opens
  <2>1. /\ n \in 1 .. Len(c) /\ ~(n <= Len(b))
        /\ n - Len(b) \in m + 1 .. Len(a)
    BY <1>1
  <2> QED
    BY <1>1, <1>2, <2>1 DEF Opens
<1>3. ASSUME Opens(a, 0), Opens(b, m) PROVE Opens(c, m)
  <2> SUFFICES ASSUME NEW n \in m + 1 .. Len(c)
               PROVE  Left(c, n)[1] \in Early
    BY DEF Opens
  <2>1. n \in 1 .. Len(c)
    OBVIOUS
  <2>2. CASE n <= Len(b)
    <3>1. n \in m + 1 .. Len(b)
      BY <1>1, <2>2
    <3> QED
      BY <1>1, <1>3, <2>1, <2>2, <3>1 DEF Opens
  <2>3. CASE ~(n <= Len(b))
    <3>1. n - Len(b) \in 0 + 1 .. Len(a)
      BY <1>1, <2>1, <2>3
    <3> QED
      BY <1>1, <1>3, <2>1, <2>3, <3>1 DEF Opens
  <2> QED
    BY <2>2, <2>3
<1> QED
  BY <1>2, <1>3 DEF c

\* c is a, and b after it.
After(c, a, b) ==
    /\ c \in Seq(Step) /\ Len(c) = Len(a) + Len(b)
    /\ Len(a) \in Nat /\ Len(b) \in Nat
    /\ \A n \in 1 .. Len(c) :
          Left(c, n) = IF n <= Len(b) THEN Left(b, n) ELSE Left(a, n - Len(b))
    /\ \A m \in Nat :
          \/ m >= Len(b) /\ Opens(a, m - Len(b))
          \/ Opens(a, 0) /\ Opens(b, m)
          => Opens(c, m)

LEMMA Joins == \A a, b \in Seq(Step) : After(a \o b, a, b)
<1> SUFFICES ASSUME NEW a \in Seq(Step), NEW b \in Seq(Step)
             PROVE  After(a \o b, a, b)
  OBVIOUS
<1> DEFINE c == a \o b
<1>1. /\ c \in Seq(Step) /\ Len(c) = Len(a) + Len(b)
      /\ Len(a) \in Nat /\ Len(b) \in Nat
      /\ \A n \in 1 .. Len(c) :
            Left(c, n) = IF n <= Len(b) THEN Left(b, n)
                         ELSE Left(a, n - Len(b))
  BY LeftJoined
<1>2. ASSUME NEW m \in Nat,
             \/ m >= Len(b) /\ Opens(a, m - Len(b))
             \/ Opens(a, 0) /\ Opens(b, m)
      PROVE  Opens(c, m)
  <2>1. CASE m >= Len(b) /\ Opens(a, m - Len(b))
    <3> DEFINE k == m - Len(b)
    <3>1. k \in Nat /\ k + Len(b) = m /\ Opens(a, k)
      BY <1>1, <2>1
    <3> HIDE DEF k
    <3> QED
      BY <3>1, OpensJoined
  <2>2. CASE Opens(a, 0) /\ Opens(b, m)
    BY <2>2, OpensJoined
  <2> QED
    BY <1>2, <2>1, <2>2
<1> HIDE DEF c
<1>3. After(c, a, b)
  BY <1>1, <1>2, Zenon DEF After
<1> QED
  BY <1>3 DEF c

\* A sequence of early steps.
LEMMA EarlySteps ==
    ASSUME NEW t, \A k \in 1 .. Len(t) : t[k][1] \in Early, Len(t) \in Nat
    PROVE  Opens(t, 0)
<1> SUFFICES ASSUME NEW n \in 0 + 1 .. Len(t) PROVE Left(t, n)[1] \in Early
  BY DEF Opens
<1>1. (Len(t) + 1) - n \in 1 .. Len(t)
  OBVIOUS
<1> QED
  BY <1>1 DEF Left

\* With the first steps done or left out, the rest is still the end.
LEMMA EndingLater ==
    ASSUME NEW t \in Seq(Step), NEW u, NEW k \in 0 .. Len(t), Ending(t, u),
           Len(u) \in Nat
    PROVE  LET v == SubSeq(t, 1 + k, Len(t))
           IN v \in Seq(Step) /\ Len(v) = Len(t) - k /\ Ending(v, u)
<1> DEFINE v == SubSeq(t, 1 + k, Len(t))
           m == Len(t)
<1>1. m \in Nat /\ k \in Nat /\ k <= m /\ 1 + k \in Int
  BY LenProperties
<1>2. \A i \in 1 + k .. m : t[i] \in Step
  BY <1>1, ElementOfSeq
<1>3. /\ v \in Seq(Step) /\ Len(v) = IF 1 + k <= m THEN m - (1 + k) + 1 ELSE 0
      /\ \A i \in 1 .. m - (1 + k) + 1 : v[i] = t[1 + k + i - 1]
  BY <1>1, <1>2, SubSeqProperties
<1>4. Len(v) = m - k
  <2>1. CASE 1 + k <= m
    <3>1. m - (1 + k) + 1 = m - k
      BY <1>1
    <3> QED
      BY <1>3, <2>1, <3>1
  <2>2. CASE ~(1 + k <= m)
    <3>1. m - k = 0
      BY <1>1, <2>2
    <3> QED
      BY <1>3, <2>2, <3>1
  <2> QED
    BY <2>1, <2>2
<1>5. m <= Len(u) /\ \A n \in 1 .. m : Left(t, n) = Left(u, n)
  BY DEF Ending
<1>6. Len(t) = m
  OBVIOUS
<1> HIDE DEF v, m
<1>7. ASSUME NEW n \in 1 .. m - k PROVE Left(v, n) = Left(t, n)
  <2> DEFINE i == (m - k + 1) - n
  <2>1. i \in 1 .. m - (1 + k) + 1 /\ 1 + k + i - 1 = (m + 1) - n
    BY <1>1, <1>7
  <2>2. v[i] = t[1 + k + i - 1]
    BY <1>3, <2>1
  <2>3. Left(v, n) = v[i] /\ Left(t, n) = t[(m + 1) - n]
    BY <1>4, <1>6 DEF Left
  <2> QED
    BY <2>1, <2>2, <2>3
<1>8. Ending(v, u)
  <2>1. m - k <= Len(u) /\ \A n \in 1 .. m - k : n \in 1 .. m
    BY <1>1, <1>5
  <2> QED
    BY <1>4, <1>5, <1>7, <2>1 DEF Ending
<1> QED
  BY <1>3, <1>4, <1>8 DEF v, m

LEMMA EndingTail ==
    ASSUME NEW t \in Seq(Step), NEW u, t # <<>>, Ending(t, u), Len(u) \in Nat
    PROVE  /\ Ending(Tail(t), u) /\ Len(Tail(t)) = Len(t) - 1
           /\ Tail(t) \in Seq(Step) /\ Len(t) \in Nat \ {0}
           /\ Head(t) = Left(u, Len(t)) /\ Len(t) <= Len(u)
<1>1. /\ Tail(t) \in Seq(Step) /\ Len(Tail(t)) = Len(t) - 1
      /\ Len(t) \in Nat \ {0} /\ Head(t) = t[1]
      /\ \A i \in 1 .. Len(t) - 1 : Tail(t)[i] = t[i + 1]
  BY HeadTailProperties, EmptySeq
<1> DEFINE v == Tail(t)
           m == Len(t)
<1>2. /\ m <= Len(u) /\ \A n \in 1 .. m : Left(t, n) = Left(u, n)
      /\ m = Len(t) /\ m \in Nat \ {0} /\ Len(v) = m - 1
      /\ \A i \in 1 .. m - 1 : v[i] = t[i + 1]
  BY <1>1 DEF Ending
<1> HIDE DEF v, m
<1>3. ASSUME NEW n \in 1 .. m - 1 PROVE Left(v, n) = Left(u, n)
  <2> DEFINE i == (m - 1 + 1) - n
  <2>1. i \in 1 .. m - 1 /\ i + 1 = (m + 1) - n /\ n \in 1 .. m
    BY <1>2, <1>3
  <2>2. v[i] = t[i + 1]
    BY <1>2, <2>1
  <2>3. Left(v, n) = v[i] /\ Left(t, n) = t[(m + 1) - n]
    BY <1>2 DEF Left
  <2> QED
    BY <1>2, <2>1, <2>2, <2>3
<1>4. Ending(v, u)
  <2>1. m - 1 <= Len(u)
    BY <1>2
  <2> QED
    BY <1>2, <1>3, <2>1 DEF Ending
<1>5. Head(t) = Left(u, m)
  <2>1. m \in 1 .. m /\ (m + 1) - m = 1
    BY <1>2
  <2>2. Left(t, m) = t[1]
    BY <1>2, <2>1 DEF Left
  <2> QED
    BY <1>1, <1>2, <2>1, <2>2
<1> QED
  BY <1>1, <1>2, <1>4, <1>5 DEF v, m
\* Where the steps are that change something, or are waited for.
OfForwards == <<"endForwards", "one">>
OfNamespace == <<"deleteNamespace", "one">>
OfPod(p) == <<"deletePod", p>>

DeployIs(u) ==
    /\ Len(u) >= 4 /\ Opens(u, 4) /\ Left(u, 4)[1] = "apply"
    /\ Left(u, 3)[1] = "rolledOut" /\ Left(u, 2)[1] = "live"
    /\ Left(u, 1)[1] = "judge"
\* With m steps left, it looks at the Deployment and its Pods.
ForwardIs(u, m) ==
    /\ Len(u) >= m /\ Opens(u, 5) /\ Left(u, m)[1] = "live"
    /\ Left(u, 5)[1] = "forward" /\ Left(u, 4)[1] = "probe"
    /\ Left(u, 3) = OfForwards /\ Left(u, 2)[1] = "judge"
    /\ Left(u, 1)[1] = "judge"
DashboardIs(u) ==
    /\ Len(u) >= 17 /\ Opens(u, 15) /\ Left(u, 17)[1] = "live"
    /\ Left(u, 15)[1] = "forward" /\ Left(u, 14)[1] = "try"
    /\ Left(u, 13)[1] = "try" /\ Left(u, 12) = OfForwards
    /\ Left(u, 11)[1] = "noNamespace" /\ Left(u, 10)[1] = "createNamespace"
    /\ Left(u, 9)[1] = "createPod" /\ Left(u, 9)[2] = "beside"
    /\ Left(u, 8)[1] = "succeeded" /\ Left(u, 7) = OfPod("beside")
    /\ Left(u, 6)[1] = "createPod" /\ Left(u, 6)[2] = "outside"
    /\ Left(u, 5)[1] = "succeeded" /\ Left(u, 4) = OfPod("outside")
    /\ Left(u, 3) = OfNamespace /\ Left(u, 2)[1] = "try"
    /\ Left(u, 1)[1] = "judge"
ProductStopIs(u) ==
    /\ Len(u) >= 5 /\ Opens(u, 5) /\ Left(u, 5)[1] = "scaleIf"
    /\ Left(u, 4)[1] = "rolledOut" /\ Left(u, 3)[1] = "notReady"
    /\ Left(u, 2)[1] = "noEndpoint" /\ Left(u, 1)[1] = "judge"
StopIs(u) ==
    /\ Len(u) >= 3 /\ Opens(u, 3) /\ Left(u, 3)[1] = "scale"
    /\ Left(u, 2)[1] = "noReplicas" /\ Left(u, 1)[1] = "judge"

\* One step of kind k.
OneStep(t, k) ==
    t \in Seq(Step) /\ Len(t) = 1 /\ Left(t, 1)[1] = k
    /\ (k \in Early => Opens(t, 0))

LEMMA OneSteps ==
    \A k \in Kind \ {"createPod", "deletePod"}, d \in Detail :
        OneStep(<<<<k, d>>>>, k)
<1> SUFFICES ASSUME NEW k \in Kind \ {"createPod", "deletePod"},
                    NEW d \in Detail
             PROVE  OneStep(<<<<k, d>>>>, k)
  BY Zenon
<1> DEFINE t == <<<<k, d>>>>
<1>1. t \in Seq(Step) /\ Len(t) = 1 /\ t[1][1] = k /\ 1 .. 1 = {1}
  BY Single
<1> HIDE DEF t
<1>2. Left(t, 1)[1] = k
  BY <1>1 DEF Left
<1>3. k \in Early => \A i \in 1 .. Len(t) : t[i][1] \in Early
  BY <1>1
<1>4. OneStep(t, k)
  BY <1>1, <1>2, <1>3, EarlySteps DEF OneStep
<1> QED
  BY <1>4 DEF t

LEMMA ThePieces ==
    /\ OneStep(<<<<"judge", "coordinates">>>>, "judge")
    /\ OneStep(<<<<"judge", "render">>>>, "judge")
    /\ OneStep(<<<<"judge", "flux">>>>, "judge")
    /\ OneStep(<<<<"fluxRelease", "one">>>>, "fluxRelease")
    /\ OneStep(<<<<"live", "one">>>>, "live")
    /\ OneStep(<<<<"probe", "security">>>>, "probe")
    /\ OneStep(<<<<"probe", "search">>>>, "probe")
    /\ OneStep(<<<<"try", "snapshot">>>>, "try")
    /\ OneStep(ProductRendered, "judge") /\ OneStep(SearchRendered, "judge")
    /\ OneStep(EventActivation, "judge") /\ OneStep(Snapshot, "judge")
    /\ OneStep(SameSnapshot, "judge") /\ OneStep(RoleAction, "judge")
    /\ OneStep(GatewayRoute, "judge") /\ OneStep(Route, "judge")
    /\ OneStep(Dependencies, "judge") /\ OneStep(SharedOperations, "try")
    /\ OneStep(DirectRPC, "try") /\ OneStep(Forwards, "forward")
    /\ OneStep(EndForwards, "endForwards")
    /\ Left(EndForwards, 1) = OfForwards
<1>1. /\ OneStep(<<<<"judge", "coordinates">>>>, "judge")
      /\ OneStep(<<<<"judge", "render">>>>, "judge")
      /\ OneStep(<<<<"judge", "flux">>>>, "judge")
      /\ OneStep(<<<<"judge", "eventActivation">>>>, "judge")
      /\ OneStep(<<<<"judge", "snapshot">>>>, "judge")
      /\ OneStep(<<<<"judge", "role">>>>, "judge")
  BY OneSteps DEF Kind, Detail
<1>2. /\ OneStep(<<<<"judge", "gatewayRoute">>>>, "judge")
      /\ OneStep(<<<<"judge", "route">>>>, "judge")
      /\ OneStep(<<<<"judge", "dependencies">>>>, "judge")
      /\ OneStep(<<<<"fluxRelease", "one">>>>, "fluxRelease")
      /\ OneStep(<<<<"live", "one">>>>, "live")
      /\ OneStep(<<<<"forward", "one">>>>, "forward")
      /\ OneStep(<<<<"endForwards", "one">>>>, "endForwards")
  BY OneSteps DEF Kind, Detail
<1>3. /\ OneStep(<<<<"probe", "security">>>>, "probe")
      /\ OneStep(<<<<"probe", "search">>>>, "probe")
      /\ OneStep(<<<<"try", "operations">>>>, "try")
      /\ OneStep(<<<<"try", "directRPC">>>>, "try")
      /\ OneStep(<<<<"try", "snapshot">>>>, "try")
  BY OneSteps DEF Kind, Detail
<1>4. Left(EndForwards, 1) = OfForwards
  BY DEF Left, EndForwards, OfForwards
<1> QED
  BY <1>1, <1>2, <1>3, <1>4
     DEF ProductRendered, SearchRendered, EventActivation, Snapshot,
         SameSnapshot, RoleAction, GatewayRoute, Route, Dependencies,
         SharedOperations, DirectRPC, Forwards, EndForwards

\* What all scripts begin with.
LEMMA FrontOpens ==
    ASSUME NEW r, r.service \in Services
    PROVE  LET front == Target(r) \o FluxSource(r)
           IN front \in Seq(Step) /\ Opens(front, 0)
<1> DEFINE one == <<<<"judge", "coordinates">>>>
<1>1. "judge" \in Early /\ "fluxRelease" \in Early
  BY DEF Early
<1>2. Opens(<<>>, 0) /\ <<>> \in Seq(Step)
  BY EmptySeq DEF Opens
<1>3. one \in Seq(Step) /\ Opens(one, 0)
  BY <1>1, ThePieces DEF OneStep
<1> HIDE DEF one
<1>4. DashboardRendered \in Seq(Step) /\ Opens(DashboardRendered, 0)
  BY <1>1, ThePieces, Both, OpensJoined, Zenon DEF DashboardRendered, OneStep
<1>5. Rendered(r) \in Seq(Step) /\ Opens(Rendered(r), 0)
  BY <1>1, <1>4, ThePieces DEF Rendered, Services, OneStep
<1>6. Target(r) = one \o Rendered(r)
  BY DEF Target, one
<1>7. Target(r) \in Seq(Step) /\ Opens(Target(r), 0)
  BY <1>3, <1>5, <1>6, Both, OpensJoined
<1>8. FluxSource(r) \in Seq(Step) /\ Opens(FluxSource(r), 0)
  BY <1>1, <1>2, ThePieces DEF FluxSource, OneStep
<1> QED
  BY <1>7, <1>8, Both, OpensJoined

LEMMA DeployBody ==
    ASSUME NEW r, r.service \in Services
    PROVE  Deploy(r) \in Seq(Step) /\ DeployIs(Deploy(r))
<1> DEFINE a == IF r.service = "product" THEN LocalAdministrationJob ELSE <<>>
           b == Prerequisites \o a
           c == b \o Snapshot
           d == c \o Rollout
           live == <<<<"live", "one">>>>
           e == d \o live
           f == e \o SameSnapshot
<1>1. Deploy(r) = f
  BY DEF Deploy
<1>2. OneStep(Snapshot, "judge") /\ OneStep(live, "live")
      /\ OneStep(SameSnapshot, "judge") /\ Rollout \in Seq(Step)
      /\ a \in Seq(Step) /\ Prerequisites \in Seq(Step)
  BY ThePieces, Pieces, EmptySeq
<1>3. Opens(a, 0)
  <2> DEFINE t == LocalAdministrationJob
  <2>1. /\ Len(t) = 6 /\ t[1][1] = "judge" /\ t[2][1] = "judge"
        /\ t[3][1] = "applyJob" /\ t[4][1] = "complete" /\ t[5][1] = "judge"
        /\ t[6][1] = "initialized" /\ 1 .. 6 = {1, 2, 3, 4, 5, 6}
    BY DEF LocalAdministrationJob
  <2> HIDE DEF t
  <2>2. \A k \in 1 .. Len(t) : t[k][1] \in Early
    BY <2>1 DEF Early
  <2>3. Opens(t, 0)
    BY <2>1, <2>2, EarlySteps
  <2>4. Opens(<<>>, 0)
    BY DEF Opens
  <2> QED
    BY <2>3, <2>4 DEF t
<1>4. Opens(Prerequisites, 0)
  <2> DEFINE t == Prerequisites
  <2>1. /\ Len(t) = 2 /\ t[1][1] = "judge" /\ t[2][1] = "liveBefore"
        /\ 1 .. 2 = {1, 2}
    BY DEF Prerequisites
  <2> HIDE DEF t
  <2>2. \A k \in 1 .. Len(t) : t[k][1] \in Early
    BY <2>1 DEF Early
  <2>3. Opens(t, 0)
    BY <2>1, <2>2, EarlySteps
  <2> QED
    BY <2>3 DEF t
<1>5. /\ Len(Rollout) = 3 /\ Left(Rollout, 1)[1] = "rolledOut"
      /\ Left(Rollout, 2)[1] = "apply" /\ Left(Rollout, 3)[1] = "judge"
  BY DEF Rollout, Left
<1>6. Opens(Rollout, 2)
  <2>1. ASSUME NEW n \in 2 + 1 .. 3 PROVE n = 3
    OBVIOUS
  <2> QED
    BY <1>5, <2>1 DEF Opens, Early
<1> HIDE DEF a, live
<1>7. b \in Seq(Step) /\ Opens(b, 0)
  BY <1>2, <1>3, <1>4, Both, OpensJoined
<1> HIDE DEF b
<1>8. c \in Seq(Step) /\ Opens(c, 0)
  <2>1. Snapshot \in Seq(Step) /\ Opens(Snapshot, 0)
    BY <1>2 DEF OneStep, Early
  <2> QED
    BY <1>7, <2>1, Both, OpensJoined
<1> HIDE DEF c
<1>9. After(d, c, Rollout)
  BY <1>2, <1>8, Joins, Zenon
<1> HIDE DEF d
<1>10. /\ d \in Seq(Step) /\ Opens(d, 2) /\ Left(d, 1)[1] = "rolledOut"
       /\ Left(d, 2)[1] = "apply" /\ Len(d) \in Nat /\ Len(d) >= 3
  BY <1>5, <1>6, <1>8, <1>9 DEF After
<1>11. After(e, d, live)
  BY <1>2, <1>10, Joins, Zenon DEF OneStep
<1> HIDE DEF e
<1>12. /\ e \in Seq(Step) /\ Len(e) >= 4 /\ Len(e) \in Nat /\ Opens(e, 3)
       /\ Left(e, 1)[1] = "live" /\ Left(e, 2)[1] = "rolledOut"
       /\ Left(e, 3)[1] = "apply"
  <2>1. Len(live) = 1 /\ Left(live, 1)[1] = "live"
    BY <1>2 DEF OneStep
  <2>2. /\ e \in Seq(Step) /\ Len(e) = Len(d) + 1
        /\ \A n \in 1 .. Len(d) + 1 :
              Left(e, n) = IF n <= 1 THEN Left(live, n) ELSE Left(d, n - 1)
        /\ Opens(d, 3 - 1) => Opens(e, 3)
    BY <1>11, <2>1 DEF After
  <2>3. 3 - 1 = 2 /\ 2 - 1 = 1
    OBVIOUS
  <2>4. Len(e) >= 4 /\ Len(e) \in Nat
    BY <1>10, <2>2
  <2>5. Left(e, 1) = Left(live, 1)
    BY <1>10, <2>2
  <2>6. Left(e, 2) = Left(d, 1)
    BY <1>10, <2>2, <2>3
  <2>7. Left(e, 3) = Left(d, 2)
    BY <1>10, <2>2, <2>3
  <2> QED
    BY <1>10, <2>1, <2>2, <2>3, <2>4, <2>5, <2>6, <2>7, Zenon
<1>13. After(f, e, SameSnapshot)
  BY <1>2, <1>12, Joins, Zenon DEF OneStep
<1> HIDE DEF f
<1>14. f \in Seq(Step) /\ DeployIs(f)
  <2>1. Len(SameSnapshot) = 1 /\ Left(SameSnapshot, 1)[1] = "judge"
    BY <1>2 DEF OneStep
  <2>2. /\ f \in Seq(Step) /\ Len(f) = Len(e) + 1
        /\ \A n \in 1 .. Len(e) + 1 :
              Left(f, n) = IF n <= 1 THEN Left(SameSnapshot, n)
                           ELSE Left(e, n - 1)
        /\ Opens(e, 4 - 1) => Opens(f, 4)
    BY <1>13, <2>1 DEF After
  <2>3. 4 - 1 = 3 /\ 3 - 1 = 2 /\ 2 - 1 = 1
    OBVIOUS
  <2>4. Len(f) >= 4
    BY <1>12, <2>2
  <2>5. Left(f, 1) = Left(SameSnapshot, 1)
    BY <1>12, <2>2
  <2>6. Left(f, 2) = Left(e, 1)
    BY <1>12, <2>2, <2>3
  <2>7. Left(f, 3) = Left(e, 2)
    BY <1>12, <2>2, <2>3
  <2>8. Left(f, 4) = Left(e, 3)
    BY <1>12, <2>2, <2>3
  <2> QED
    BY <1>12, <2>1, <2>2, <2>3, <2>4, <2>5, <2>6, <2>7, <2>8, Zenon
       DEF DeployIs
<1> QED
  BY <1>1, <1>14, Zenon

\* The forwards of a verification, and what is done through them.
LEMMA ThroughForwards ==
    ASSUME NEW a \in Seq(Step), Opens(a, 0), NEW m \in Nat, Len(a) = m,
           m > 0, Left(a, m)[1] = "live",
           NEW p, OneStep(p, "probe"), NEW l, OneStep(l, "judge")
    PROVE  LET c == a \o Forwards \o p \o EndForwards \o SameSnapshot \o l
           IN c \in Seq(Step) /\ ForwardIs(c, m + 5)
<1> DEFINE c1 == a \o Forwards
           c2 == c1 \o p
           c3 == c2 \o EndForwards
           c4 == c3 \o SameSnapshot
           c5 == c4 \o l
<1>1. /\ OneStep(Forwards, "forward") /\ OneStep(EndForwards, "endForwards")
      /\ Left(EndForwards, 1) = OfForwards /\ OneStep(SameSnapshot, "judge")
  BY ThePieces
<1>2. After(c1, a, Forwards)
  BY <1>1, Joins, Zenon DEF OneStep
<1> HIDE DEF c1
<1>3. /\ c1 \in Seq(Step) /\ Len(c1) = m + 1 /\ Opens(c1, 1)
      /\ Left(c1, m + 1)[1] = "live" /\ Left(c1, 1)[1] = "forward"
  BY <1>1, <1>2 DEF After, OneStep
<1>4. After(c2, c1, p)
  BY <1>3, Joins, Zenon DEF OneStep
<1> HIDE DEF c2
<1>5. /\ c2 \in Seq(Step) /\ Len(c2) = m + 2 /\ Opens(c2, 2)
      /\ Left(c2, m + 2)[1] = "live" /\ Left(c2, 2)[1] = "forward"
      /\ Left(c2, 1)[1] = "probe"
  BY <1>3, <1>4 DEF After, OneStep
<1>6. After(c3, c2, EndForwards)
  BY <1>1, <1>5, Joins, Zenon DEF OneStep
<1> HIDE DEF c3
<1>7. /\ c3 \in Seq(Step) /\ Len(c3) = m + 3 /\ Opens(c3, 3)
      /\ Left(c3, m + 3)[1] = "live" /\ Left(c3, 3)[1] = "forward"
      /\ Left(c3, 2)[1] = "probe" /\ Left(c3, 1) = OfForwards
  BY <1>1, <1>5, <1>6 DEF After, OneStep
<1>8. After(c4, c3, SameSnapshot)
  BY <1>1, <1>7, Joins, Zenon DEF OneStep
<1> HIDE DEF c4
<1>9. /\ c4 \in Seq(Step) /\ Len(c4) = m + 4 /\ Opens(c4, 4)
      /\ Left(c4, m + 4)[1] = "live" /\ Left(c4, 4)[1] = "forward"
      /\ Left(c4, 3)[1] = "probe" /\ Left(c4, 2) = OfForwards
      /\ Left(c4, 1)[1] = "judge"
  BY <1>1, <1>7, <1>8 DEF After, OneStep
<1>10. After(c5, c4, l)
  BY <1>9, Joins, Zenon DEF OneStep
<1> HIDE DEF c5
<1>11. /\ c5 \in Seq(Step) /\ Len(c5) = m + 5 /\ Opens(c5, 5)
       /\ Left(c5, m + 5)[1] = "live" /\ Left(c5, 5)[1] = "forward"
       /\ Left(c5, 4)[1] = "probe" /\ Left(c5, 3) = OfForwards
       /\ Left(c5, 2)[1] = "judge" /\ Left(c5, 1)[1] = "judge"
  BY <1>9, <1>10 DEF After, OneStep
<1>12. c5 \in Seq(Step) /\ ForwardIs(c5, m + 5)
  BY <1>11 DEF ForwardIs
<1> QED
  BY <1>12, Zenon DEF c1, c2, c3, c4, c5

LEMMA ForwardBodies ==
    /\ ProductVerify \in Seq(Step) /\ ForwardIs(ProductVerify, 9)
    /\ SearchVerify \in Seq(Step) /\ ForwardIs(SearchVerify, 7)
<1> DEFINE live == <<<<"live", "one">>>>
           security == <<<<"probe", "security">>>>
           search == <<<<"probe", "search">>>>
<1>1. /\ OneStep(live, "live") /\ OneStep(security, "probe")
      /\ OneStep(search, "probe") /\ OneStep(RoleAction, "judge")
      /\ OneStep(Snapshot, "judge") /\ OneStep(GatewayRoute, "judge")
      /\ OneStep(Route, "judge")
  BY ThePieces
<1>2. /\ live \in Seq(Step) /\ Len(live) = 1 /\ Left(live, 1)[1] = "live"
      /\ RoleAction \in Seq(Step) /\ Len(RoleAction) = 1
      /\ Snapshot \in Seq(Step) /\ Len(Snapshot) = 1
      /\ Opens(live, 0) /\ Opens(RoleAction, 0) /\ Opens(Snapshot, 0)
  BY <1>1 DEF OneStep, Early
<1>3. /\ ProductVerify = live \o RoleAction \o Snapshot \o RoleAction
             \o Forwards \o security \o EndForwards \o SameSnapshot
             \o GatewayRoute
      /\ SearchVerify = live \o Snapshot \o Forwards \o search
             \o EndForwards \o SameSnapshot \o Route
  BY DEF ProductVerify, SearchVerify
<1> HIDE DEF live, security, search
<1>4. ProductVerify \in Seq(Step) /\ ForwardIs(ProductVerify, 9)
  <2> DEFINE a1 == live \o RoleAction
             a2 == a1 \o Snapshot
             a3 == a2 \o RoleAction
  <2>1. After(a1, live, RoleAction)
    BY <1>2, Joins, Zenon
  <2> HIDE DEF a1
  <2>2. /\ a1 \in Seq(Step) /\ Len(a1) = 2 /\ Opens(a1, 0)
        /\ Left(a1, 2)[1] = "live"
    BY <1>2, <2>1 DEF After
  <2>3. After(a2, a1, Snapshot)
    BY <1>2, <2>2, Joins, Zenon
  <2> HIDE DEF a2
  <2>4. /\ a2 \in Seq(Step) /\ Len(a2) = 3 /\ Opens(a2, 0)
        /\ Left(a2, 3)[1] = "live"
    BY <1>2, <2>2, <2>3 DEF After
  <2>5. After(a3, a2, RoleAction)
    BY <1>2, <2>4, Joins, Zenon
  <2> HIDE DEF a3
  <2>6. /\ a3 \in Seq(Step) /\ Len(a3) = 4 /\ Opens(a3, 0)
        /\ Left(a3, 4)[1] = "live" /\ 4 \in Nat /\ 4 > 0
    BY <1>2, <2>4, <2>5 DEF After
  <2> DEFINE c == a3 \o Forwards \o security \o EndForwards
                     \o SameSnapshot \o GatewayRoute
  <2>7. ProductVerify = c
    BY <1>3, Zenon DEF a1, a2, a3
  <2>8. c \in Seq(Step) /\ ForwardIs(c, 4 + 5)
    BY <1>1, <2>6, ThroughForwards, Zenon
  <2>9. 4 + 5 = 9
    OBVIOUS
  <2> QED
    BY <2>7, <2>8, <2>9, Zenon
<1>5. SearchVerify \in Seq(Step) /\ ForwardIs(SearchVerify, 7)
  <2> DEFINE a1 == live \o Snapshot
  <2>1. After(a1, live, Snapshot)
    BY <1>2, Joins, Zenon
  <2> HIDE DEF a1
  <2>2. /\ a1 \in Seq(Step) /\ Len(a1) = 2 /\ Opens(a1, 0)
        /\ Left(a1, 2)[1] = "live" /\ 2 \in Nat /\ 2 > 0
    BY <1>2, <2>1 DEF After
  <2> DEFINE c == a1 \o Forwards \o search \o EndForwards
                     \o SameSnapshot \o Route
  <2>3. SearchVerify = c
    BY <1>3, Zenon DEF a1
  <2>4. c \in Seq(Step) /\ ForwardIs(c, 2 + 5)
    BY <1>1, <2>2, ThroughForwards, Zenon
  <2>5. 2 + 5 = 7
    OBVIOUS
  <2> QED
    BY <2>3, <2>4, <2>5, Zenon
<1> QED
  BY <1>4, <1>5

LEMMA StopBodies ==
    /\ ProductStop \in Seq(Step) /\ ProductStopIs(ProductStop)
    /\ Stop \in Seq(Step) /\ StopIs(Stop)
<1> DEFINE live == <<<<"live", "one">>>>
           five == <<<<"readVersion", "one">>, <<"scaleIf", "one">>,
                     <<"rolledOut", "one">>, <<"notReady", "one">>,
                     <<"noEndpoint", "one">>>>
           two == <<<<"scale", "one">>, <<"noReplicas", "one">>>>
<1>1. /\ OneStep(live, "live") /\ OneStep(Snapshot, "judge")
      /\ OneStep(SameSnapshot, "judge")
  BY ThePieces
<1>2. /\ live \in Seq(Step) /\ Len(live) = 1
      /\ Snapshot \in Seq(Step) /\ Len(Snapshot) = 1
      /\ Opens(live, 0) /\ Opens(Snapshot, 0) /\ SameSnapshot \in Seq(Step)
      /\ Len(SameSnapshot) = 1 /\ Left(SameSnapshot, 1)[1] = "judge"
  BY <1>1 DEF OneStep, Early
<1>3. /\ ProductStop = live \o Snapshot \o five \o SameSnapshot
      /\ Stop = Snapshot \o two \o SameSnapshot
  BY DEF ProductStop, Stop
<1>4. five \in Seq(Step) /\ two \in Seq(Step)
  <2>1. /\ <<"readVersion", "one">> \in Step /\ <<"scaleIf", "one">> \in Step
        /\ <<"rolledOut", "one">> \in Step /\ <<"notReady", "one">> \in Step
        /\ <<"noEndpoint", "one">> \in Step
    BY Steps DEF Kind, Detail
  <2> QED
    BY <2>1, Tuples, Double DEF Kind, Detail
<1>5. /\ Len(five) = 5 /\ Left(five, 1)[1] = "noEndpoint"
      /\ Left(five, 2)[1] = "notReady" /\ Left(five, 3)[1] = "rolledOut"
      /\ Left(five, 4)[1] = "scaleIf" /\ Left(five, 5)[1] = "readVersion"
  BY DEF Left
<1>6. /\ Len(two) = 2 /\ Left(two, 1)[1] = "noReplicas"
      /\ Left(two, 2)[1] = "scale"
  BY DEF Left
<1> HIDE DEF live, five, two
<1>7. Opens(five, 4) /\ Opens(two, 2)
  <2>1. ASSUME NEW n \in 4 + 1 .. 5 PROVE n = 5
    OBVIOUS
  <2>2. 2 + 1 .. 2 = {}
    OBVIOUS
  <2> QED
    BY <1>5, <1>6, <2>1, <2>2 DEF Opens, Early
<1>8. ProductStop \in Seq(Step) /\ ProductStopIs(ProductStop)
  <2> DEFINE c1 == live \o Snapshot
             c2 == c1 \o five
             c3 == c2 \o SameSnapshot
  <2>1. After(c1, live, Snapshot)
    BY <1>2, Joins, Zenon
  <2> HIDE DEF c1
  <2>2. c1 \in Seq(Step) /\ Len(c1) = 2 /\ Opens(c1, 0)
    BY <1>2, <2>1 DEF After
  <2>3. After(c2, c1, five)
    BY <1>4, <2>2, Joins, Zenon
  <2> HIDE DEF c2
  <2>4. /\ c2 \in Seq(Step) /\ Len(c2) = 7 /\ Opens(c2, 4)
        /\ Left(c2, 1)[1] = "noEndpoint" /\ Left(c2, 2)[1] = "notReady"
        /\ Left(c2, 3)[1] = "rolledOut" /\ Left(c2, 4)[1] = "scaleIf"
    BY <1>5, <1>7, <2>2, <2>3 DEF After
  <2>5. After(c3, c2, SameSnapshot)
    BY <1>2, <2>4, Joins, Zenon
  <2> HIDE DEF c3
  <2>6. c3 \in Seq(Step) /\ ProductStopIs(c3)
    BY <1>2, <2>4, <2>5 DEF After, ProductStopIs
  <2> QED
    BY <1>3, <2>6, Zenon DEF c1, c2, c3
<1>9. Stop \in Seq(Step) /\ StopIs(Stop)
  <2> DEFINE c1 == Snapshot \o two
             c2 == c1 \o SameSnapshot
  <2>1. After(c1, Snapshot, two)
    BY <1>2, <1>4, Joins, Zenon
  <2> HIDE DEF c1
  <2>2. /\ c1 \in Seq(Step) /\ Len(c1) = 3 /\ Opens(c1, 2)
        /\ Left(c1, 1)[1] = "noReplicas" /\ Left(c1, 2)[1] = "scale"
    BY <1>2, <1>6, <1>7, <2>1 DEF After
  <2>3. After(c2, c1, SameSnapshot)
    BY <1>2, <2>2, Joins, Zenon
  <2> HIDE DEF c2
  <2>4. c2 \in Seq(Step) /\ StopIs(c2)
    BY <1>2, <2>2, <2>3 DEF After, StopIs
  <2> QED
    BY <1>3, <2>4, Zenon DEF c1, c2
<1> QED
  BY <1>8, <1>9

LEMMA QualificationBody ==
    LET u == Qualification
    IN /\ u \in Seq(Step) /\ Len(u) = 9 /\ Left(u, 9)[1] = "noNamespace"
       /\ Left(u, 8)[1] = "createNamespace"
       /\ Left(u, 7)[1] = "createPod" /\ Left(u, 7)[2] = "beside"
       /\ Left(u, 6)[1] = "succeeded" /\ Left(u, 5) = OfPod("beside")
       /\ Left(u, 4)[1] = "createPod" /\ Left(u, 4)[2] = "outside"
       /\ Left(u, 3)[1] = "succeeded" /\ Left(u, 2) = OfPod("outside")
       /\ Left(u, 1) = OfNamespace
<1> DEFINE a == <<<<"noNamespace", "one">>, <<"createNamespace", "one">>>>
           z == <<<<"deleteNamespace", "one">>>>
           b == AccessQualification("beside")
           c == AccessQualification("outside")
           ab == a \o b
           abc == ab \o c
           u == abc \o z
<1>1. /\ a \in Seq(Step) /\ z \in Seq(Step) /\ b \in Seq(Step)
      /\ c \in Seq(Step)
  BY Single, Double, QualificationIs, Zenon DEF Kind, Detail, Pods
<1>2. /\ Len(a) = 2 /\ Left(a, 1)[1] = "createNamespace"
      /\ Left(a, 2)[1] = "noNamespace" /\ Len(z) = 1
      /\ Left(z, 1) = OfNamespace
  BY DEF Left, OfNamespace
<1>3. ASSUME NEW p
      PROVE  LET t == AccessQualification(p)
             IN /\ Len(t) = 3 /\ Left(t, 1) = OfPod(p)
                /\ Left(t, 2)[1] = "succeeded" /\ Left(t, 3)[1] = "createPod"
                /\ Left(t, 3)[2] = p
  BY DEF AccessQualification, QualificationPod, QualificationOutput, Left, OfPod
<1>4. /\ Len(b) = 3 /\ Left(b, 1) = OfPod("beside")
      /\ Left(b, 2)[1] = "succeeded" /\ Left(b, 3)[1] = "createPod"
      /\ Left(b, 3)[2] = "beside"
      /\ Len(c) = 3 /\ Left(c, 1) = OfPod("outside")
      /\ Left(c, 2)[1] = "succeeded" /\ Left(c, 3)[1] = "createPod"
      /\ Left(c, 3)[2] = "outside"
  BY <1>3
<1>5. Qualification = u
  BY DEF Qualification, QualificationPods
<1> HIDE DEF a, b, c, z
<1>6. After(ab, a, b)
  BY <1>1, Joins, Zenon
<1> HIDE DEF ab
<1>7. /\ ab \in Seq(Step) /\ Len(ab) = 5 /\ Left(ab, 1) = OfPod("beside")
      /\ Left(ab, 2)[1] = "succeeded" /\ Left(ab, 3)[1] = "createPod"
      /\ Left(ab, 3)[2] = "beside" /\ Left(ab, 4)[1] = "createNamespace"
      /\ Left(ab, 5)[1] = "noNamespace"
  BY <1>2, <1>4, <1>6 DEF After
<1>8. After(abc, ab, c)
  BY <1>1, <1>7, Joins, Zenon
<1> HIDE DEF abc
<1>9. /\ abc \in Seq(Step) /\ Len(abc) = 8 /\ Left(abc, 1) = OfPod("outside")
      /\ Left(abc, 2)[1] = "succeeded" /\ Left(abc, 3)[1] = "createPod"
      /\ Left(abc, 3)[2] = "outside" /\ Left(abc, 4) = OfPod("beside")
      /\ Left(abc, 5)[1] = "succeeded" /\ Left(abc, 6)[1] = "createPod"
      /\ Left(abc, 6)[2] = "beside" /\ Left(abc, 7)[1] = "createNamespace"
      /\ Left(abc, 8)[1] = "noNamespace"
  BY <1>4, <1>7, <1>8 DEF After
<1>10. After(u, abc, z)
  BY <1>1, <1>9, Joins, Zenon
<1> HIDE DEF u
<1>11. /\ u \in Seq(Step) /\ Len(u) = 9 /\ Left(u, 9)[1] = "noNamespace"
       /\ Left(u, 8)[1] = "createNamespace"
       /\ Left(u, 7)[1] = "createPod" /\ Left(u, 7)[2] = "beside"
       /\ Left(u, 6)[1] = "succeeded" /\ Left(u, 5) = OfPod("beside")
       /\ Left(u, 4)[1] = "createPod" /\ Left(u, 4)[2] = "outside"
       /\ Left(u, 3)[1] = "succeeded" /\ Left(u, 2) = OfPod("outside")
       /\ Left(u, 1) = OfNamespace
  BY <1>2, <1>9, <1>10 DEF After
<1> QED
  BY <1>5, <1>11

LEMMA DashboardBody ==
    DashboardVerify \in Seq(Step) /\ DashboardIs(DashboardVerify)
<1> DEFINE live == <<<<"live", "one">>>>
           last == <<<<"try", "snapshot">>>>
           q == Qualification
           c1 == Dependencies \o live
           c2 == c1 \o Snapshot
           c3 == c2 \o Forwards
           c4 == c3 \o SharedOperations
           c5 == c4 \o DirectRPC
           c6 == c5 \o EndForwards
           c7 == c6 \o q
           c8 == c7 \o last
           c9 == c8 \o Route
<1>1. /\ OneStep(live, "live") /\ OneStep(last, "try")
      /\ OneStep(Dependencies, "judge") /\ OneStep(Snapshot, "judge")
      /\ OneStep(Forwards, "forward") /\ OneStep(SharedOperations, "try")
      /\ OneStep(DirectRPC, "try") /\ OneStep(EndForwards, "endForwards")
      /\ OneStep(Route, "judge") /\ Left(EndForwards, 1) = OfForwards
  BY ThePieces
<1>2. "judge" \in Early /\ "live" \in Early
  BY DEF Early
<1>3. DashboardVerify = c9
  BY DEF DashboardVerify
<1>4. /\ q \in Seq(Step) /\ Len(q) = 9 /\ Left(q, 9)[1] = "noNamespace"
      /\ Left(q, 8)[1] = "createNamespace"
      /\ Left(q, 7)[1] = "createPod" /\ Left(q, 7)[2] = "beside"
      /\ Left(q, 6)[1] = "succeeded" /\ Left(q, 5) = OfPod("beside")
      /\ Left(q, 4)[1] = "createPod" /\ Left(q, 4)[2] = "outside"
      /\ Left(q, 3)[1] = "succeeded" /\ Left(q, 2) = OfPod("outside")
      /\ Left(q, 1) = OfNamespace
  BY QualificationBody
<1> HIDE DEF live, last, q
<1>5. After(c1, Dependencies, live)
  BY <1>1, Joins, Zenon DEF OneStep
<1> HIDE DEF c1
<1>6. /\ c1 \in Seq(Step) /\ Len(c1) = 2 /\ Opens(c1, 0)
      /\ Left(c1, 1)[1] = "live"
  BY <1>1, <1>2, <1>5 DEF After, OneStep
<1>7. After(c2, c1, Snapshot)
  BY <1>1, <1>6, Joins, Zenon DEF OneStep
<1> HIDE DEF c2
<1>8. /\ c2 \in Seq(Step) /\ Len(c2) = 3 /\ Opens(c2, 0)
      /\ Left(c2, 2)[1] = "live"
  BY <1>1, <1>2, <1>6, <1>7 DEF After, OneStep
<1>9. After(c3, c2, Forwards)
  BY <1>1, <1>8, Joins, Zenon DEF OneStep
<1> HIDE DEF c3
<1>10. /\ c3 \in Seq(Step) /\ Len(c3) = 4 /\ Opens(c3, 1)
       /\ Left(c3, 3)[1] = "live" /\ Left(c3, 1)[1] = "forward"
  BY <1>1, <1>8, <1>9 DEF After, OneStep
<1>11. After(c4, c3, SharedOperations)
  BY <1>1, <1>10, Joins, Zenon DEF OneStep
<1> HIDE DEF c4
<1>12. /\ c4 \in Seq(Step) /\ Len(c4) = 5 /\ Opens(c4, 2)
       /\ Left(c4, 4)[1] = "live" /\ Left(c4, 2)[1] = "forward"
       /\ Left(c4, 1)[1] = "try"
  BY <1>1, <1>10, <1>11 DEF After, OneStep
<1>13. After(c5, c4, DirectRPC)
  BY <1>1, <1>12, Joins, Zenon DEF OneStep
<1> HIDE DEF c5
<1>14. /\ c5 \in Seq(Step) /\ Len(c5) = 6 /\ Opens(c5, 3)
       /\ Left(c5, 5)[1] = "live" /\ Left(c5, 3)[1] = "forward"
       /\ Left(c5, 2)[1] = "try" /\ Left(c5, 1)[1] = "try"
  BY <1>1, <1>12, <1>13 DEF After, OneStep
<1>15. After(c6, c5, EndForwards)
  BY <1>1, <1>14, Joins, Zenon DEF OneStep
<1> HIDE DEF c6
<1>16. /\ c6 \in Seq(Step) /\ Len(c6) = 7 /\ Opens(c6, 4)
       /\ Left(c6, 6)[1] = "live" /\ Left(c6, 4)[1] = "forward"
       /\ Left(c6, 3)[1] = "try" /\ Left(c6, 2)[1] = "try"
       /\ Left(c6, 1) = OfForwards
  BY <1>1, <1>14, <1>15 DEF After, OneStep
<1>17. After(c7, c6, q)
  BY <1>4, <1>16, Joins, Zenon
<1> HIDE DEF c7
<1>18. /\ c7 \in Seq(Step) /\ Len(c7) = 16 /\ Opens(c7, 13)
       /\ Left(c7, 15)[1] = "live" /\ Left(c7, 13)[1] = "forward"
       /\ Left(c7, 12)[1] = "try" /\ Left(c7, 11)[1] = "try"
       /\ Left(c7, 10) = OfForwards
  BY <1>4, <1>16, <1>17 DEF After
<1>19. \A n \in 1 .. 9 : Left(c7, n) = Left(q, n)
  BY <1>4, <1>16, <1>17 DEF After
<1>20. After(c8, c7, last)
  BY <1>1, <1>18, Joins, Zenon DEF OneStep
<1> HIDE DEF c8
<1>21. /\ c8 \in Seq(Step) /\ Len(c8) = 17 /\ Opens(c8, 14)
       /\ Left(c8, 16)[1] = "live" /\ Left(c8, 14)[1] = "forward"
       /\ Left(c8, 13)[1] = "try" /\ Left(c8, 12)[1] = "try"
       /\ Left(c8, 11) = OfForwards /\ Left(c8, 1)[1] = "try"
  BY <1>1, <1>18, <1>20 DEF After, OneStep
<1>22. \A n \in 2 .. 10 : Left(c8, n) = Left(q, n - 1)
  <2> SUFFICES ASSUME NEW n \in 2 .. 10 PROVE Left(c8, n) = Left(q, n - 1)
    OBVIOUS
  <2>1. Left(c8, n) = Left(c7, n - 1)
    BY <1>1, <1>18, <1>20 DEF After, OneStep
  <2>2. n - 1 \in 1 .. 9
    OBVIOUS
  <2> QED
    BY <1>19, <2>1, <2>2
<1>23. After(c9, c8, Route)
  BY <1>1, <1>21, Joins, Zenon DEF OneStep
<1> HIDE DEF c9
<1>24. /\ c9 \in Seq(Step) /\ Len(c9) = 18 /\ Opens(c9, 15)
       /\ Left(c9, 17)[1] = "live" /\ Left(c9, 15)[1] = "forward"
       /\ Left(c9, 14)[1] = "try" /\ Left(c9, 13)[1] = "try"
       /\ Left(c9, 12) = OfForwards /\ Left(c9, 2)[1] = "try"
       /\ Left(c9, 1)[1] = "judge"
  BY <1>1, <1>21, <1>23 DEF After, OneStep
<1>25. \A n \in 3 .. 11 : Left(c9, n) = Left(q, n - 2)
  <2> SUFFICES ASSUME NEW n \in 3 .. 11 PROVE Left(c9, n) = Left(q, n - 2)
    OBVIOUS
  <2>1. Left(c9, n) = Left(c8, n - 1)
    BY <1>1, <1>21, <1>23 DEF After, OneStep
  <2>2. n - 1 \in 2 .. 10 /\ (n - 1) - 1 = n - 2
    OBVIOUS
  <2> QED
    BY <1>22, <2>1, <2>2
<1>26. DashboardIs(c9)
  BY <1>4, <1>24, <1>25 DEF DashboardIs
<1> QED
  BY <1>3, <1>24, <1>26

\* The commands whose end says something of the service.
Big == {"deploy", "verify", "stop"}
ScriptIs(r, u) ==
    /\ r.script = "deploy" => DeployIs(u)
    /\ r.script = "verify" /\ r.service = "product" => ForwardIs(u, 9)
    /\ r.script = "verify" /\ r.service = "policy-search" => ForwardIs(u, 7)
    /\ r.script = "verify" /\ r.service = "dashboard" => DashboardIs(u)
    /\ r.script = "stop" /\ r.service = "product" => ProductStopIs(u)
    /\ r.script = "stop" /\ r.service # "product" => StopIs(u)

LEMMA ScriptShape ==
    ASSUME NEW r, r.service \in Services, r.script \in Big
    PROVE  ScriptIs(r, Script(r)) /\ Script(r) \in Seq(Step)
<1> DEFINE body == CASE r.script = "deploy" -> Deploy(r)
                     [] r.script = "verify" ->
                          (CASE r.service = "product" -> ProductVerify
                             [] r.service = "dashboard" -> DashboardVerify
                             [] r.service = "policy-search" -> SearchVerify)
                     [] r.script = "stop" ->
                          IF r.service = "product" THEN ProductStop ELSE Stop
           front == Target(r) \o FluxSource(r)
           c == front \o body
<1>1. Script(r) = c
  <2>1. CASE r.script = "deploy"
    <3>1. Script(r) = front \o Deploy(r)
      BY <2>1, Zenon DEF Script
    <3> QED
      BY <2>1, <3>1, Zenon
  <2>2. CASE r.script = "verify"
    <3> DEFINE look == CASE r.service = "product" -> ProductVerify
                         [] r.service = "dashboard" -> DashboardVerify
                         [] r.service = "policy-search" -> SearchVerify
    <3>1. Script(r) = front \o look
      BY <2>2, Zenon DEF Script
    <3>2. body = look
      BY <2>2, Zenon
    <3> QED
      BY <3>1, <3>2, Zenon
  <2>3. CASE r.script = "stop"
    <3>1. Script(r) = front \o (IF r.service = "product" THEN ProductStop
                                ELSE Stop)
      BY <2>3, Zenon DEF Script
    <3> QED
      BY <2>3, <3>1, Zenon
  <2> QED
    BY <2>1, <2>2, <2>3, Zenon DEF Big
<1>2. front \in Seq(Step) /\ Opens(front, 0)
  BY FrontOpens
<1>3. body \in Seq(Step) /\ ScriptIs(r, body)
  BY DeployBody, ForwardBodies, DashboardBody, StopBodies
     DEF ScriptIs, Services, Big
<1> HIDE DEF front, body
<1>4. After(c, front, body)
  BY <1>2, <1>3, Joins, Zenon
<1> HIDE DEF c
<1>5. \A n \in 1 .. Len(body) : Left(c, n) = Left(body, n)
  BY <1>4 DEF After
<1>6. \A m \in Nat : Opens(body, m) => Opens(c, m)
  BY <1>2, <1>4 DEF After
<1>7. Len(c) >= Len(body) /\ c \in Seq(Step) /\ Len(body) \in Nat
      /\ Len(c) \in Nat
  BY <1>4 DEF After
<1>8. DeployIs(body) => DeployIs(c)
  BY <1>5, <1>6, <1>7 DEF DeployIs
<1>9. ASSUME NEW m \in {7, 9}, ForwardIs(body, m) PROVE ForwardIs(c, m)
  <2>1. m \in 1 .. Len(body) /\ Len(body) >= 7 /\ Len(c) >= m
    BY <1>7, <1>9 DEF ForwardIs
  <2>2. Left(c, m) = Left(body, m)
    BY <1>5, <2>1
  <2> QED
    BY <1>5, <1>6, <1>7, <1>9, <2>1, <2>2 DEF ForwardIs
<1>10. DashboardIs(body) => DashboardIs(c)
  <2> SUFFICES ASSUME DashboardIs(body) PROVE DashboardIs(c)
    OBVIOUS
  <2>1. Len(body) >= 17 /\ Len(c) >= 17 /\ Opens(c, 15)
    BY <1>6, <1>7 DEF DashboardIs
  <2>2. \A n \in 1 .. 17 : Left(c, n) = Left(body, n)
    BY <1>5, <1>7, <2>1
  <2> QED
    BY <2>1, <2>2 DEF DashboardIs
<1>11. ProductStopIs(body) => ProductStopIs(c)
  BY <1>5, <1>6, <1>7 DEF ProductStopIs
<1>12. StopIs(body) => StopIs(c)
  BY <1>5, <1>6, <1>7 DEF StopIs
<1>13. ScriptIs(r, c)
  BY <1>3, <1>8, <1>9, <1>10, <1>11, <1>12 DEF ScriptIs
<1> QED
  BY <1>1, <1>7, <1>13

\* What step a command does when n are left.
At(r, n, s) ==
    /\ r.script = "deploy" =>
        /\ n > 4 => s[1] \in Early
        /\ n = 4 => s[1] = "apply"
        /\ n = 3 => s[1] = "rolledOut"
        /\ n = 2 => s[1] = "live"
        /\ n = 1 => s[1] = "judge"
    /\ r.script = "verify" /\ r.service # "dashboard" =>
        /\ n > 5 => s[1] \in Early
        /\ n = (IF r.service = "product" THEN 9 ELSE 7) => s[1] = "live"
        /\ n = 5 => s[1] = "forward"
        /\ n = 4 => s[1] = "probe"
        /\ n = 3 => s = OfForwards
        /\ n \in {1, 2} => s[1] = "judge"
    /\ r.script = "verify" /\ r.service = "dashboard" =>
        /\ n > 15 => s[1] \in Early
        /\ n = 17 => s[1] = "live"
        /\ n = 15 => s[1] = "forward"
        /\ n \in {2, 13, 14} => s[1] = "try"
        /\ n = 12 => s = OfForwards
        /\ n = 11 => s[1] = "noNamespace"
        /\ n = 10 => s[1] = "createNamespace"
        /\ n = 9 => s[1] = "createPod" /\ s[2] = "beside"
        /\ n \in {5, 8} => s[1] = "succeeded"
        /\ n = 7 => s = OfPod("beside")
        /\ n = 6 => s[1] = "createPod" /\ s[2] = "outside"
        /\ n = 4 => s = OfPod("outside")
        /\ n = 3 => s = OfNamespace
        /\ n = 1 => s[1] = "judge"
    /\ r.script = "stop" /\ r.service = "product" =>
        /\ n > 5 => s[1] \in Early
        /\ n = 5 => s[1] = "scaleIf"
        /\ n = 4 => s[1] = "rolledOut"
        /\ n = 3 => s[1] = "notReady"
        /\ n = 2 => s[1] = "noEndpoint"
        /\ n = 1 => s[1] = "judge"
    /\ r.script = "stop" /\ r.service # "product" =>
        /\ n > 3 => s[1] \in Early
        /\ n = 3 => s[1] = "scale"
        /\ n = 2 => s[1] = "noReplicas"
        /\ n = 1 => s[1] = "judge"

LEMMA Where ==
    ASSUME NEW r, r.service \in Services, NEW u \in Seq(Step), ScriptIs(r, u),
           NEW n \in 1 .. Len(u)
    PROVE  At(r, n, Left(u, n))
<1> DEFINE s == Left(u, n)
<1>1. Len(u) \in Nat /\ n \in Nat /\ n <= Len(u)
  BY LenProperties
<1>2. ASSUME NEW m \in Nat, Opens(u, m), n > m PROVE s[1] \in Early
  <2>1. n \in m + 1 .. Len(u)
    BY <1>1, <1>2
  <2> QED
    BY <1>2, <2>1 DEF Opens
<1>3. ASSUME DeployIs(u)
      PROVE  /\ n > 4 => s[1] \in Early
             /\ n = 4 => s[1] = "apply"
             /\ n = 3 => s[1] = "rolledOut"
             /\ n = 2 => s[1] = "live"
             /\ n = 1 => s[1] = "judge"
  BY <1>2, <1>3 DEF DeployIs
<1>4. ASSUME NEW m, ForwardIs(u, m)
      PROVE  /\ n > 5 => s[1] \in Early
             /\ n = m => s[1] = "live"
             /\ n = 5 => s[1] = "forward"
             /\ n = 4 => s[1] = "probe"
             /\ n = 3 => s = OfForwards
             /\ n \in {1, 2} => s[1] = "judge"
  BY <1>2, <1>4 DEF ForwardIs
<1>5. ASSUME DashboardIs(u)
      PROVE  /\ n > 15 => s[1] \in Early
             /\ n = 17 => s[1] = "live"
             /\ n = 15 => s[1] = "forward"
             /\ n \in {2, 13, 14} => s[1] = "try"
             /\ n = 12 => s = OfForwards
             /\ n = 11 => s[1] = "noNamespace"
             /\ n = 10 => s[1] = "createNamespace"
             /\ n = 9 => s[1] = "createPod" /\ s[2] = "beside"
             /\ n \in {5, 8} => s[1] = "succeeded"
             /\ n = 7 => s = OfPod("beside")
             /\ n = 6 => s[1] = "createPod" /\ s[2] = "outside"
             /\ n = 4 => s = OfPod("outside")
             /\ n = 3 => s = OfNamespace
             /\ n = 1 => s[1] = "judge"
  BY <1>2, <1>5 DEF DashboardIs
<1>6. ASSUME ProductStopIs(u)
      PROVE  /\ n > 5 => s[1] \in Early
             /\ n = 5 => s[1] = "scaleIf"
             /\ n = 4 => s[1] = "rolledOut"
             /\ n = 3 => s[1] = "notReady"
             /\ n = 2 => s[1] = "noEndpoint"
             /\ n = 1 => s[1] = "judge"
  BY <1>2, <1>6 DEF ProductStopIs
<1>7. ASSUME StopIs(u)
      PROVE  /\ n > 3 => s[1] \in Early
             /\ n = 3 => s[1] = "scale"
             /\ n = 2 => s[1] = "noReplicas"
             /\ n = 1 => s[1] = "judge"
  BY <1>2, <1>7 DEF StopIs
<1> HIDE DEF s
<1>8. r.script = "verify" /\ r.service # "dashboard" =>
          ForwardIs(u, IF r.service = "product" THEN 9 ELSE 7)
  BY DEF ScriptIs, Services
<1>9. /\ r.script = "deploy" => DeployIs(u)
      /\ r.script = "verify" /\ r.service = "dashboard" => DashboardIs(u)
      /\ r.script = "stop" /\ r.service = "product" => ProductStopIs(u)
      /\ r.script = "stop" /\ r.service # "product" => StopIs(u)
  BY DEF ScriptIs
<1>10. At(r, n, s)
  BY <1>3, <1>4, <1>5, <1>6, <1>7, <1>8, <1>9 DEF At
<1> QED
  BY <1>10 DEF s

\* Where a command is: what it has left is the end of its script.
Placed(r) == \E u \in Seq(Step) : ScriptIs(r, u) /\ Ending(r.todo, u)

LEMMA PlacedAt ==
    ASSUME NEW r, r.service \in Services, r.todo \in Seq(Step), r.todo # <<>>,
           Placed(r)
    PROVE  /\ At(r, Len(r.todo), Head(r.todo))
           /\ Len(r.todo) \in Nat \ {0}
<1>1. PICK u \in Seq(Step) : ScriptIs(r, u) /\ Ending(r.todo, u)
  BY DEF Placed
<1>2. /\ Head(r.todo) = Left(u, Len(r.todo)) /\ Len(r.todo) <= Len(u)
      /\ Len(r.todo) \in Nat \ {0} /\ Len(u) \in Nat
  BY <1>1, EndingTail, LenProperties
<1>3. Len(r.todo) \in 1 .. Len(u)
  BY <1>2
<1> QED
  BY <1>1, <1>2, <1>3, Where

\* Some steps later, and one more.
LEMMA PlacedLater ==
    ASSUME NEW r, NEW q, r.todo \in Seq(Step), Placed(r),
           q.service = r.service, q.script = r.script,
           NEW k \in 0 .. Len(r.todo),
           q.todo = SubSeq(r.todo, 1 + k, Len(r.todo))
    PROVE  Placed(q) /\ q.todo \in Seq(Step) /\ Len(q.todo) = Len(r.todo) - k
<1>1. PICK u \in Seq(Step) : ScriptIs(r, u) /\ Ending(r.todo, u)
  BY DEF Placed
<1>2. /\ q.todo \in Seq(Step) /\ Len(q.todo) = Len(r.todo) - k
      /\ Ending(q.todo, u)
  BY <1>1, EndingLater, LenProperties
<1>3. ScriptIs(q, u)
  BY <1>1 DEF ScriptIs
<1> QED
  BY <1>2, <1>3 DEF Placed

LEMMA PlacedNext ==
    ASSUME NEW r, NEW q, r.todo \in Seq(Step), r.todo # <<>>, Placed(r),
           q.service = r.service, q.script = r.script, q.todo = Tail(r.todo)
    PROVE  Placed(q) /\ q.todo \in Seq(Step) /\ Len(q.todo) = Len(r.todo) - 1
<1>1. PICK u \in Seq(Step) : ScriptIs(r, u) /\ Ending(r.todo, u)
  BY DEF Placed
<1>2. /\ q.todo \in Seq(Step) /\ Len(q.todo) = Len(r.todo) - 1
      /\ Ending(q.todo, u)
  BY <1>1, EndingTail, LenProperties
<1>3. ScriptIs(q, u)
  BY <1>1 DEF ScriptIs
<1> QED
  BY <1>2, <1>3 DEF Placed

-----------------------------------------------------------------------------
(* What a command owes.                                                    *)

In(x, o) == \E i \in 1 .. Len(o) : o[i] = x
Pay(o, s) == IF o # <<>> /\ Last(o) = s THEN Front(o) ELSE o
Paid(o, s, answered) == Pay(o \o Owes(s, answered), s)

LEMMA InJoined ==
    ASSUME NEW a \in Seq(Debt), NEW b \in Seq(Debt), NEW x
    PROVE  /\ a \o b \in Seq(Debt)
           /\ In(x, a) \/ In(x, b) => In(x, a \o b)
<1> DEFINE c == a \o b
<1>1. /\ c \in Seq(Debt) /\ Len(c) = Len(a) + Len(b)
      /\ Len(a) \in Nat /\ Len(b) \in Nat
      /\ \A i \in 1 .. Len(a) + Len(b) :
            c[i] = IF i <= Len(a) THEN a[i] ELSE b[i - Len(a)]
  BY ConcatProperties, LenProperties
<1> HIDE DEF c
<1>2. ASSUME NEW i \in 1 .. Len(a), a[i] = x PROVE In(x, c)
  <2>1. i \in 1 .. Len(c) /\ c[i] = x
    BY <1>1, <1>2
  <2> QED
    BY <2>1 DEF In
<1>3. ASSUME NEW i \in 1 .. Len(b), b[i] = x PROVE In(x, c)
  <2> DEFINE k == Len(a) + i
  <2>1. k \in 1 .. Len(c) /\ ~(k <= Len(a)) /\ k - Len(a) = i
    BY <1>1, <1>3
  <2>2. c[k] = x
    BY <1>1, <1>3, <2>1
  <2> QED
    BY <2>1, <2>2 DEF In
<1>4. In(x, a) \/ In(x, b) => In(x, c)
  BY <1>2, <1>3, Zenon DEF In
<1> QED
  BY <1>1, <1>4 DEF c

LEMMA FrontIs ==
    ASSUME NEW o \in Seq(Debt), o # <<>>
    PROVE  /\ Front(o) \in Seq(Debt) /\ Len(Front(o)) = Len(o) - 1
           /\ \A i \in 1 .. Len(o) - 1 : Front(o)[i] = o[i]
<1>0. /\ Len(o) \in Nat \ {0} /\ \A i \in 1 .. Len(o) : o[i] \in Debt
  BY EmptySeq, ElementOfSeq, LenProperties
<1>1. /\ Front(o) \in Seq(Debt)
      /\ Len(Front(o)) = IF 1 <= Len(o) - 1 THEN (Len(o) - 1) - 1 + 1 ELSE 0
      /\ \A i \in 1 .. (Len(o) - 1) - 1 + 1 : Front(o)[i] = o[1 + i - 1]
  <2>1. /\ 1 \in Int /\ Len(o) - 1 \in Int
        /\ \A i \in 1 .. Len(o) - 1 : o[i] \in Debt
    BY <1>0
  <2> QED
    BY <1>0, <2>1, SubSeqProperties DEF Front
<1>2. ASSUME NEW n \in Nat \ {0}
      PROVE  /\ (IF 1 <= n - 1 THEN (n - 1) - 1 + 1 ELSE 0) = n - 1
             /\ (n - 1) - 1 + 1 = n - 1
  OBVIOUS
<1>3. ASSUME NEW i \in 1 .. Len(o) - 1 PROVE Front(o)[i] = o[i]
  <2>1. 1 + i - 1 = i /\ i \in 1 .. (Len(o) - 1) - 1 + 1
    BY <1>0, <1>2
  <2> QED
    BY <1>1, <2>1
<1> QED
  BY <1>0, <1>1, <1>2, <1>3, Zenon

LEMMA InPay ==
    ASSUME NEW o \in Seq(Debt), NEW s
    PROVE  /\ Pay(o, s) \in Seq(Debt)
           /\ \A x : In(x, o) /\ x # s => In(x, Pay(o, s))
           /\ s \notin Debt => Pay(o, s) = o
<1>1. CASE o # <<>> /\ Last(o) = s
  <2>1. /\ Len(o) \in Nat \ {0} /\ \A i \in 1 .. Len(o) : o[i] \in Debt
    BY <1>1, EmptySeq, ElementOfSeq, LenProperties
  <2>2. /\ Front(o) \in Seq(Debt) /\ Len(Front(o)) = Len(o) - 1
        /\ \A i \in 1 .. Len(o) - 1 : Front(o)[i] = o[i]
    BY <1>1, FrontIs
  <2>3. Pay(o, s) = Front(o) /\ s = o[Len(o)] /\ s \in Debt
    <3>1. Len(o) \in 1 .. Len(o)
      BY <2>1
    <3> QED
      BY <1>1, <2>1, <3>1 DEF Pay, Last
  <2>4. ASSUME NEW x, In(x, o), x # s PROVE In(x, Front(o))
    <3>1. PICK i \in 1 .. Len(o) : o[i] = x
      BY <2>4 DEF In
    <3>2. i \in 1 .. Len(o) - 1
      BY <2>1, <2>3, <2>4, <3>1
    <3> QED
      BY <2>2, <3>1, <3>2 DEF In
  <2> QED
    BY <2>2, <2>3, <2>4
<1>2. CASE ~(o # <<>> /\ Last(o) = s)
  BY <1>2 DEF Pay
<1> QED
  BY <1>1, <1>2

\* What a step owes, by its kind.
LEMMA OwesIs ==
    ASSUME NEW s, NEW a
    PROVE  /\ s[1] \notin {"forward", "createNamespace", "createPod"} =>
                 Owes(s, a) = <<>>
           /\ s[1] = "forward" => Owes(s, FALSE) = <<>>
                                  /\ Owes(s, TRUE) = <<OfForwards>>
           /\ s[1] = "createNamespace" => Owes(s, a) = <<OfNamespace>>
           /\ s[1] = "createPod" => Owes(s, FALSE) = <<>>
                                    /\ Owes(s, TRUE) = <<OfPod(s[2])>>
<1>1. /\ s[1] = "forward" => Owes(s, FALSE) = <<>>
                             /\ Owes(s, TRUE) = <<OfForwards>>
      /\ s[1] = "createNamespace" => Owes(s, a) = <<OfNamespace>>
  BY DEF Owes, OfForwards, OfNamespace
<1>2. s[1] = "createPod" => Owes(s, FALSE) = <<>>
                            /\ Owes(s, TRUE) = <<OfPod(s[2])>>
  BY DEF Owes, OfPod
<1>3. s[1] \notin {"forward", "createNamespace", "createPod"} =>
          Owes(s, a) = <<>>
  BY DEF Owes
<1> QED
  BY <1>1, <1>2, <1>3, Zenon

LEMMA TheDebts ==
    /\ OfForwards \in Debt /\ OfForwards[1] = "endForwards"
    /\ OfNamespace \in Debt /\ OfNamespace[1] = "deleteNamespace"
    /\ \A p \in Pods : OfPod(p) \in Debt
    /\ \A p : OfPod(p)[1] = "deletePod" /\ OfPod(p)[2] = p
    /\ \A s \in Debt : s[1] \in {"endForwards", "deleteNamespace", "deletePod"}
BY DEF OfForwards, OfNamespace, OfPod, Debt, Pods

\* The debts of a verification.
Forwarded == <<OfForwards>>
Named == <<OfNamespace>>
Beside == <<OfNamespace, OfPod("beside")>>
Outside == <<OfNamespace, OfPod("outside")>>

LEMMA PayTuples ==
    ASSUME NEW a \in Debt, NEW b \in Debt
    PROVE  /\ <<a>> \in Seq(Debt) /\ <<a, b>> \in Seq(Debt)
           /\ <<>> \in Seq(Debt)
           /\ <<a>> \o <<b>> = <<a, b>> /\ <<>> \o <<a>> = <<a>>
           /\ Pay(<<a>>, a) = <<>> /\ Pay(<<a, b>>, b) = <<a>>
           /\ In(a, <<a>>)
<1> DEFINE x == <<a>>
           y == <<b>>
           z == <<a, b>>
<1>0. /\ x \in Seq(Debt) /\ Len(x) = 1 /\ x[1] = a
      /\ y \in Seq(Debt) /\ Len(y) = 1 /\ y[1] = b
      /\ z \in Seq(Debt) /\ Len(z) = 2 /\ z[1] = a /\ z[2] = b
      /\ <<>> \in Seq(Debt)
  OBVIOUS
<1> HIDE DEF x, y, z
<1>1. Front(x) = <<>> /\ Front(z) = x
  <2>1. /\ Front(x) \in Seq(Debt) /\ Len(Front(x)) = 0
        /\ Front(z) \in Seq(Debt) /\ Len(Front(z)) = 1 /\ Front(z)[1] = a
    <3>1. x # <<>> /\ z # <<>> /\ 1 - 1 = 0 /\ 2 - 1 = 1 /\ 1 \in 1 .. 1
      BY <1>0, EmptySeq
    <3> QED
      BY <1>0, <3>1, FrontIs, Zenon
  <2>2. Front(x) = <<>>
    BY <2>1, EmptySeq
  <2>3. \A i \in 1 .. 1 : Front(z)[i] = x[i]
    BY <1>0, <2>1
  <2> QED
    BY <1>0, <2>1, <2>2, <2>3, SeqEqual
<1>2. Last(x) = a /\ Last(z) = b
  BY <1>0 DEF Last
<1>3. x # <<>> /\ z # <<>>
  BY <1>0, EmptySeq
<1>4. Pay(x, a) = <<>> /\ Pay(z, b) = x
  BY <1>1, <1>2, <1>3, Zenon DEF Pay
<1>5. x \o y = z /\ <<>> \o x = x
  <2> DEFINE c == x \o y
  <2>1. /\ c \in Seq(Debt) /\ Len(c) = 1 + 1
        /\ \A i \in 1 .. 1 + 1 : c[i] = IF i <= 1 THEN x[i] ELSE y[i - 1]
    BY <1>0, ConcatProperties
  <2> HIDE DEF c
  <2>2. \A i \in 1 .. 2 : c[i] = z[i]
    BY <1>0, <2>1
  <2>3. c = z
    BY <1>0, <2>1, <2>2, SeqEqual
  <2> QED
    BY <1>0, <2>3, ConcatEmptySeq DEF c
<1>6. In(a, x)
  BY <1>0 DEF In
<1> QED
  BY <1>0, <1>4, <1>5, <1>6, Zenon DEF x, y, z

LEMMA PaidIs ==
    /\ Forwarded \in Seq(Debt) /\ Named \in Seq(Debt) /\ Beside \in Seq(Debt)
    /\ Outside \in Seq(Debt) /\ <<>> \in Seq(Debt)
    /\ \A s, a, o : o \in Seq(Debt) /\
          s[1] \notin {"forward", "createNamespace", "createPod",
                       "endForwards", "deleteNamespace", "deletePod"} =>
              Paid(o, s, a) = o
    /\ \A s, o : o \in Seq(Debt) /\ s[1] \in {"forward", "createPod"} =>
              Paid(o, s, FALSE) = o
    /\ \A s : s[1] = "forward" => Paid(<<>>, s, TRUE) = Forwarded
    /\ \A s, a : s = OfForwards => Paid(Forwarded, s, a) = <<>>
    /\ \A s, a : s[1] = "createNamespace" => Paid(<<>>, s, a) = Named
    /\ \A s : s[1] = "createPod" /\ s[2] = "beside" =>
                  Paid(Named, s, TRUE) = Beside
    /\ \A s : s[1] = "createPod" /\ s[2] = "outside" =>
                  Paid(Named, s, TRUE) = Outside
    /\ \A s, a : s = OfPod("beside") => Paid(Beside, s, a) = Named
    /\ \A s, a : s = OfPod("outside") => Paid(Outside, s, a) = Named
    /\ \A s, a : s = OfNamespace => Paid(Named, s, a) = <<>>
<1> DEFINE b == OfPod("beside")
           c == OfPod("outside")
<1>1. /\ OfForwards \in Debt /\ OfNamespace \in Debt /\ b \in Debt /\ c \in Debt
  BY TheDebts DEF Pods
<1>2. /\ Forwarded \in Seq(Debt) /\ Named \in Seq(Debt) /\ Beside \in Seq(Debt)
      /\ Outside \in Seq(Debt) /\ <<>> \in Seq(Debt)
  BY <1>1, PayTuples DEF Forwarded, Named, Beside, Outside
<1>3. /\ b[1] = "deletePod" /\ c[1] = "deletePod"
      /\ OfForwards[1] = "endForwards" /\ OfNamespace[1] = "deleteNamespace"
  BY TheDebts
<1>4. ASSUME NEW o \in Seq(Debt) PROVE o \o <<>> = o
  BY <1>4, ConcatEmptySeq
<1>5. ASSUME NEW s, NEW o \in Seq(Debt), NEW a, Owes(s, a) = <<>>, s \notin Debt
      PROVE  Paid(o, s, a) = o
  BY <1>4, <1>5, InPay DEF Paid
<1>6. ASSUME NEW s, s[1] \notin {"endForwards", "deleteNamespace", "deletePod"}
      PROVE  s \notin Debt
  BY <1>6, TheDebts
<1>7. ASSUME NEW s, NEW a, NEW o \in Seq(Debt),
             s[1] \notin {"forward", "createNamespace", "createPod",
                          "endForwards", "deleteNamespace", "deletePod"}
      PROVE  Paid(o, s, a) = o
  <2>1. Owes(s, a) = <<>> /\ s \notin Debt
    BY <1>6, <1>7, OwesIs, Zenon
  <2> QED
    BY <1>5, <2>1, Zenon
<1>8. ASSUME NEW s, NEW o \in Seq(Debt), s[1] \in {"forward", "createPod"}
      PROVE  Paid(o, s, FALSE) = o
  <2>1. Owes(s, FALSE) = <<>> /\ s \notin Debt
    BY <1>6, <1>8, OwesIs, Zenon
  <2> QED
    BY <1>5, <2>1, Zenon
<1>9. ASSUME NEW s, s[1] = "forward" PROVE Paid(<<>>, s, TRUE) = Forwarded
  <2>1. Owes(s, TRUE) = <<OfForwards>> /\ s \notin Debt
    BY <1>6, <1>9, OwesIs, Zenon
  <2>2. <<>> \o <<OfForwards>> = <<OfForwards>>
    BY <1>1, PayTuples
  <2>3. Pay(Forwarded, s) = Forwarded
    BY <1>2, <2>1, InPay
  <2> QED
    BY <2>1, <2>2, <2>3, Zenon DEF Paid, Forwarded
<1>10. ASSUME NEW s, NEW a, s[1] = "createNamespace"
       PROVE  Paid(<<>>, s, a) = Named
  <2>1. Owes(s, a) = <<OfNamespace>> /\ s \notin Debt
    BY <1>6, <1>10, OwesIs, Zenon
  <2>2. <<>> \o <<OfNamespace>> = <<OfNamespace>>
    BY <1>1, PayTuples
  <2>3. Pay(Named, s) = Named
    BY <1>2, <2>1, InPay
  <2> QED
    BY <2>1, <2>2, <2>3, Zenon DEF Paid, Named
<1>11. ASSUME NEW s, s[1] = "createPod", NEW p \in Pods, s[2] = p
       PROVE  Paid(Named, s, TRUE) = <<OfNamespace, OfPod(p)>>
  <2> DEFINE d == OfPod(p)
  <2>1. Owes(s, TRUE) = <<d>> /\ s \notin Debt
    BY <1>6, <1>11, OwesIs, Zenon
  <2>2. d \in Debt
    BY TheDebts
  <2> HIDE DEF d
  <2>3. <<OfNamespace>> \o <<d>> = <<OfNamespace, d>>
        /\ <<OfNamespace, d>> \in Seq(Debt)
    BY <1>1, <2>2, PayTuples, Zenon
  <2>4. Pay(<<OfNamespace, d>>, s) = <<OfNamespace, d>>
    BY <2>1, <2>3, InPay, Zenon
  <2> QED
    BY <2>1, <2>3, <2>4, Zenon DEF Paid, Named, d
<1>12. ASSUME NEW s \in {OfForwards, OfNamespace, b, c}, NEW a
       PROVE  Owes(s, a) = <<>>
  BY <1>3, OwesIs, Zenon
<1>13. ASSUME NEW a
       PROVE  /\ Paid(Forwarded, OfForwards, a) = <<>>
              /\ Paid(Named, OfNamespace, a) = <<>>
              /\ Paid(Beside, b, a) = Named /\ Paid(Outside, c, a) = Named
  <2>1. /\ Forwarded \o <<>> = Forwarded /\ Named \o <<>> = Named
        /\ Beside \o <<>> = Beside /\ Outside \o <<>> = Outside
    BY <1>2, <1>4
  <2>2. /\ Owes(OfForwards, a) = <<>> /\ Owes(OfNamespace, a) = <<>>
        /\ Owes(b, a) = <<>> /\ Owes(c, a) = <<>>
    BY <1>12
  <2> HIDE DEF b, c
  <2>3. /\ Pay(<<OfForwards>>, OfForwards) = <<>>
        /\ Pay(<<OfNamespace>>, OfNamespace) = <<>>
        /\ Pay(<<OfNamespace, b>>, b) = <<OfNamespace>>
        /\ Pay(<<OfNamespace, c>>, c) = <<OfNamespace>>
    BY <1>1, PayTuples, Zenon
  <2>4. /\ Paid(Forwarded, OfForwards, a) = Pay(Forwarded, OfForwards)
        /\ Paid(Named, OfNamespace, a) = Pay(Named, OfNamespace)
        /\ Paid(Beside, b, a) = Pay(Beside, b)
        /\ Paid(Outside, c, a) = Pay(Outside, c)
    BY <2>1, <2>2, Zenon DEF Paid
  <2> QED
    BY <2>3, <2>4, Zenon DEF Forwarded, Named, Beside, Outside, b, c
<1>14. "beside" \in Pods /\ "outside" \in Pods
  BY DEF Pods
<1>15. /\ \A s : s[1] = "createPod" /\ s[2] = "beside" =>
                    Paid(Named, s, TRUE) = Beside
       /\ \A s : s[1] = "createPod" /\ s[2] = "outside" =>
                    Paid(Named, s, TRUE) = Outside
  BY <1>11, <1>14, Zenon DEF Beside, Outside
<1>16. /\ \A s, a : s = OfForwards => Paid(Forwarded, s, a) = <<>>
       /\ \A s, a : s = OfPod("beside") => Paid(Beside, s, a) = Named
       /\ \A s, a : s = OfPod("outside") => Paid(Outside, s, a) = Named
       /\ \A s, a : s = OfNamespace => Paid(Named, s, a) = <<>>
  BY <1>13, Zenon
<1>17. /\ \A s : s[1] = "forward" => Paid(<<>>, s, TRUE) = Forwarded
       /\ \A s, a : s[1] = "createNamespace" => Paid(<<>>, s, a) = Named
  BY <1>9, <1>10, Zenon
<1> QED
  BY <1>2, <1>7, <1>8, <1>15, <1>16, <1>17, Zenon

\* What a command owes when n steps are left.
Debts(r, n) ==
    IF r.script # "verify" THEN <<>>
    ELSE IF r.service # "dashboard"
    THEN IF n \in {3, 4} THEN Forwarded ELSE <<>>
    ELSE CASE n \in {12, 13, 14} -> Forwarded
           [] n \in {3, 6, 9} -> Named
           [] n \in {7, 8} -> Beside
           [] n \in {4, 5} -> Outside
           [] OTHER -> <<>>

LEMMA SkippedIs ==
    ASSUME NEW s
    PROVE  Skipped(s) = CASE s[1] = "createPod" -> 2
                          [] s[1] = "createNamespace" -> 6
                          [] s[1] = "noNamespace" -> 8
                          [] OTHER -> 0
<1> DEFINE m == Len(Qualification)
           n == Len(AccessQualification(s[2]))
<1>1. m = 9 /\ n = 3
  BY QualificationIs, Zenon
<1>2. Skipped(s) = CASE s[1] = "createPod" -> n - 1
                     [] s[1] = "createNamespace" -> m - 3
                     [] s[1] = "noNamespace" -> m - 1
                     [] OTHER -> 0
  BY DEF Skipped
<1> HIDE DEF m, n
<1> QED
  BY <1>1, <1>2

\* A step done, and a failure collected, leave what is owed there.
LEMMA DebtsStep ==
    ASSUME NEW r, NEW n \in Nat \ {0}, NEW s, r.script \in Big,
           r.service \in Services, At(r, n, s)
    PROVE  /\ Paid(Debts(r, n), s, TRUE) = Debts(r, n - 1)
           /\ s[1] \in Collected =>
                /\ n - 1 - Skipped(s) \in Nat \ {0}
                /\ Paid(Debts(r, n), s, FALSE) = Debts(r, n - 1 - Skipped(s))
<1> DEFINE Good ==
             /\ Paid(Debts(r, n), s, TRUE) = Debts(r, n - 1)
             /\ s[1] \in Collected =>
                  /\ n - 1 - Skipped(s) \in Nat \ {0}
                  /\ Paid(Debts(r, n), s, FALSE) = Debts(r, n - 1 - Skipped(s))
<1>0. ASSUME NEW o, NEW b, NEW e, NEW m \in Nat \ {0},
             Debts(r, n) = o, Debts(r, n - 1) = b,
             n - 1 - Skipped(s) = m, Debts(r, m) = e,
             Paid(o, s, TRUE) = b, Paid(o, s, FALSE) = e
      PROVE  Good
  BY <1>0, Zenon
<1>1. ASSUME s[1] \notin Collected,
             s[1] \notin {"forward", "createNamespace", "createPod",
                          "endForwards", "deleteNamespace", "deletePod"},
             Debts(r, n - 1) = Debts(r, n)
      PROVE  Good
  <2>1. Debts(r, n) \in Seq(Debt)
    BY PaidIs DEF Debts
  <2> QED
    BY <1>1, <2>1, PaidIs, Zenon
<1>2. ASSUME s[1] \in Early \/ s[1] \in {"judge", "probe", "apply", "rolledOut",
                 "live", "scale", "scaleIf", "notReady", "noEndpoint",
                 "noReplicas"}
      PROVE  s[1] \notin Collected /\
             s[1] \notin {"forward", "createNamespace", "createPod",
                          "endForwards", "deleteNamespace", "deletePod"}
  BY <1>2 DEF Early, Collected
<1>3. CASE r.script # "verify"
  <2>1. Debts(r, n) = <<>> /\ Debts(r, n - 1) = <<>>
    BY <1>3 DEF Debts
  <2>2. s[1] \in Early \/ s[1] \in {"judge", "probe", "apply", "rolledOut",
                 "live", "scale", "scaleIf", "notReady", "noEndpoint",
                 "noReplicas"}
    <3>1. CASE r.script = "deploy"
      <4>1. n > 4 \/ n = 4 \/ n = 3 \/ n = 2 \/ n = 1
        OBVIOUS
      <4> QED
        BY <3>1, <4>1 DEF At
    <3>2. CASE r.script = "stop" /\ r.service = "product"
      <4>1. n > 5 \/ n = 5 \/ n = 4 \/ n = 3 \/ n = 2 \/ n = 1
        OBVIOUS
      <4> QED
        BY <3>2, <4>1 DEF At
    <3>3. CASE r.script = "stop" /\ r.service # "product"
      <4>1. n > 3 \/ n = 3 \/ n = 2 \/ n = 1
        OBVIOUS
      <4> QED
        BY <3>3, <4>1 DEF At
    <3> QED
      BY <1>3, <3>1, <3>2, <3>3 DEF Big
  <2> QED
    BY <1>1, <1>2, <2>1, <2>2, Zenon
<1>4. CASE r.script = "verify" /\ r.service # "dashboard"
  <2>0. \A k : Debts(r, k) = IF k \in {3, 4} THEN Forwarded ELSE <<>>
    BY <1>4 DEF Debts
  <2>1. CASE n > 5 \/ n \in {1, 2} \/ n = 4
    <3>1. s[1] \in Early \/ s[1] \in {"judge", "probe"}
      BY <1>4, <2>1 DEF At
    <3>2. Debts(r, n - 1) = Debts(r, n)
      BY <2>0, <2>1
    <3> QED
      BY <1>1, <1>2, <3>1, <3>2, Zenon
  <2>2. CASE n = 5
    <3>1. s[1] = "forward" /\ s[1] \notin Collected
      BY <1>4, <2>2 DEF At, Collected
    <3>2. Debts(r, n) = <<>> /\ Debts(r, n - 1) = Forwarded
      BY <2>0, <2>2
    <3> QED
      BY <3>1, <3>2, PaidIs, Zenon
  <2>3. CASE n = 3
    <3>1. s = OfForwards /\ s[1] \notin Collected
      BY <1>4, <2>3, TheDebts DEF At, Collected
    <3>2. Debts(r, n) = Forwarded /\ Debts(r, n - 1) = <<>>
      BY <2>0, <2>3
    <3> QED
      BY <3>1, <3>2, PaidIs, Zenon
  <2>4. n > 5 \/ n \in {1, 2} \/ n = 4 \/ n = 5 \/ n = 3
    OBVIOUS
  <2> QED
    BY <2>1, <2>2, <2>3, <2>4, Zenon
<1>5. CASE r.script = "verify" /\ r.service = "dashboard"
  <2> DEFINE Table(k) == CASE k \in {12, 13, 14} -> Forwarded
                           [] k \in {3, 6, 9} -> Named
                           [] k \in {7, 8} -> Beside
                           [] k \in {4, 5} -> Outside
                           [] OTHER -> <<>>
  <2>0. \A k : Debts(r, k) = Table(k)
    BY <1>5 DEF Debts
  <2>1. CASE n > 15 \/ n = 1
    <3>1. s[1] \in Early \/ s[1] = "judge"
      BY <1>5, <2>1 DEF At
    <3>2. Debts(r, n - 1) = Debts(r, n)
      BY <2>0, <2>1
    <3> QED
      BY <1>1, <1>2, <3>1, <3>2, Zenon
  <2>2. CASE n = 15
    <3>1. s[1] = "forward" /\ s[1] \notin Collected
      BY <1>5, <2>2 DEF At, Collected
    <3>2. Debts(r, n) = <<>> /\ Debts(r, n - 1) = Forwarded
      BY <2>0, <2>2
    <3> QED
      BY <3>1, <3>2, PaidIs, Zenon
  <2>3. CASE n \in {2, 5, 8, 13, 14}
    <3>1. s[1] \in {"try", "succeeded"}
      BY <1>5, <2>3 DEF At
    <3>2. Skipped(s) = 0
      BY <3>1, SkippedIs
    <3>3. Debts(r, n - 1) = Debts(r, n) /\ Debts(r, n) \in Seq(Debt)
      <4>1. Debts(r, n - 1) = Debts(r, n)
        <5>1. CASE n = 2
          BY <2>0, <5>1
        <5>2. CASE n = 5
          BY <2>0, <5>2
        <5>3. CASE n = 8
          BY <2>0, <5>3
        <5>4. CASE n = 13
          BY <2>0, <5>4
        <5>5. CASE n = 14
          BY <2>0, <5>5
        <5> QED
          BY <2>3, <5>1, <5>2, <5>3, <5>4, <5>5
      <4>2. Debts(r, n) \in Seq(Debt)
        BY PaidIs DEF Debts
      <4> QED
        BY <4>1, <4>2
    <3>4. n - 1 - 0 = n - 1 /\ n - 1 \in Nat \ {0}
      BY <2>3
    <3>5. s[1] \notin {"forward", "createNamespace", "createPod",
                        "endForwards", "deleteNamespace", "deletePod"}
      BY <3>1
    <3>6. Paid(Debts(r, n), s, TRUE) = Debts(r, n)
      BY <3>3, <3>5, PaidIs, Zenon
    <3>7. Paid(Debts(r, n), s, FALSE) = Debts(r, n)
      BY <3>3, <3>5, PaidIs, Zenon
    <3>8. n - 1 - Skipped(s) = n - 1
      BY <3>2, <3>4
    <3> HIDE DEF Good
    <3> QED
      BY <1>0, <3>3, <3>4, <3>6, <3>7, <3>8, Zenon
  <2>4. CASE n = 12
    <3>1. s = OfForwards /\ s[1] \notin Collected
      BY <1>5, <2>4, TheDebts DEF At, Collected
    <3>2. Debts(r, n) = Forwarded /\ Debts(r, n - 1) = <<>>
      BY <2>0, <2>4
    <3> QED
      BY <3>1, <3>2, PaidIs, Zenon
  <2>5. CASE n = 11
    <3>1. s[1] = "noNamespace" /\ Skipped(s) = 8
      BY <1>5, <2>5, SkippedIs DEF At
    <3>2. /\ Debts(r, n) = <<>> /\ Debts(r, n - 1) = <<>>
          /\ n - 1 - Skipped(s) = 2 /\ Debts(r, 2) = <<>>
      BY <2>0, <2>5, <3>1
    <3>6. \A o, y : o \in Seq(Debt) => Paid(o, s, y) = o
      BY <3>1, PaidIs
    <3>7. <<>> \in Seq(Debt)
      BY PaidIs
    <3>3. Paid(Debts(r, n), s, TRUE) = Debts(r, n - 1)
      BY <3>2, <3>6, <3>7, Zenon
    <3>4. Paid(Debts(r, n), s, FALSE) = Debts(r, 2)
      BY <3>2, <3>6, <3>7, Zenon
    <3>5. 2 \in Nat \ {0}
      OBVIOUS
    <3> HIDE DEF Good
    <3> QED
      BY <1>0, <3>2, <3>3, <3>4, <3>5, Zenon
  <2>6. CASE n = 10
    <3>1. s[1] = "createNamespace" /\ Skipped(s) = 6
      BY <1>5, <2>6, SkippedIs DEF At
    <3>2. /\ Debts(r, n) = <<>> /\ Debts(r, n - 1) = Named
          /\ n - 1 - Skipped(s) = 3 /\ Debts(r, 3) = Named
      BY <2>0, <2>6, <3>1
    <3>6. \A y : Paid(<<>>, s, y) = Named
      BY <3>1, PaidIs
    <3>3. Paid(Debts(r, n), s, TRUE) = Debts(r, n - 1)
      BY <3>2, <3>6, Zenon
    <3>4. Paid(Debts(r, n), s, FALSE) = Debts(r, 3)
      BY <3>2, <3>6, Zenon
    <3>5. 3 \in Nat \ {0}
      OBVIOUS
    <3> HIDE DEF Good
    <3> QED
      BY <1>0, <3>2, <3>3, <3>4, <3>5, Zenon
  <2>7. CASE n = 9
    <3>1. s[1] = "createPod" /\ s[2] = "beside" /\ Skipped(s) = 2
      BY <1>5, <2>7, SkippedIs DEF At
    <3>2. /\ Debts(r, n) = Named /\ Debts(r, n - 1) = Beside
          /\ n - 1 - Skipped(s) = 6 /\ Debts(r, 6) = Named
      BY <2>0, <2>7, <3>1
    <3>3. Paid(Debts(r, n), s, TRUE) = Debts(r, n - 1)
      BY <3>1, <3>2, PaidIs, Zenon
    <3>4. Paid(Debts(r, n), s, FALSE) = Debts(r, 6)
      BY <3>1, <3>2, PaidIs, Zenon
    <3>5. 6 \in Nat \ {0}
      OBVIOUS
    <3> HIDE DEF Good
    <3> QED
      BY <1>0, <3>2, <3>3, <3>4, <3>5, Zenon
  <2>8. CASE n = 7
    <3>1. s = OfPod("beside") /\ Skipped(s) = 0
      BY <1>5, <2>8, SkippedIs, TheDebts DEF At
    <3>2. /\ Debts(r, n) = Beside /\ Debts(r, n - 1) = Named
          /\ n - 1 - Skipped(s) = 6 /\ Debts(r, 6) = Named
      BY <2>0, <2>8, <3>1
    <3>3. Paid(Debts(r, n), s, TRUE) = Debts(r, n - 1)
      BY <3>1, <3>2, PaidIs, Zenon
    <3>4. Paid(Debts(r, n), s, FALSE) = Debts(r, 6)
      BY <3>1, <3>2, PaidIs, Zenon
    <3>5. 6 \in Nat \ {0}
      OBVIOUS
    <3> HIDE DEF Good
    <3> QED
      BY <1>0, <3>2, <3>3, <3>4, <3>5, Zenon
  <2>9. CASE n = 6
    <3>1. s[1] = "createPod" /\ s[2] = "outside" /\ Skipped(s) = 2
      BY <1>5, <2>9, SkippedIs DEF At
    <3>2. /\ Debts(r, n) = Named /\ Debts(r, n - 1) = Outside
          /\ n - 1 - Skipped(s) = 3 /\ Debts(r, 3) = Named
      BY <2>0, <2>9, <3>1
    <3>3. Paid(Debts(r, n), s, TRUE) = Debts(r, n - 1)
      BY <3>1, <3>2, PaidIs, Zenon
    <3>4. Paid(Debts(r, n), s, FALSE) = Debts(r, 3)
      BY <3>1, <3>2, PaidIs, Zenon
    <3>5. 3 \in Nat \ {0}
      OBVIOUS
    <3> HIDE DEF Good
    <3> QED
      BY <1>0, <3>2, <3>3, <3>4, <3>5, Zenon
  <2>10. CASE n = 4
    <3>1. s = OfPod("outside") /\ Skipped(s) = 0
      BY <1>5, <2>10, SkippedIs, TheDebts DEF At
    <3>2. /\ Debts(r, n) = Outside /\ Debts(r, n - 1) = Named
          /\ n - 1 - Skipped(s) = 3 /\ Debts(r, 3) = Named
      BY <2>0, <2>10, <3>1
    <3>3. Paid(Debts(r, n), s, TRUE) = Debts(r, n - 1)
      BY <3>1, <3>2, PaidIs, Zenon
    <3>4. Paid(Debts(r, n), s, FALSE) = Debts(r, 3)
      BY <3>1, <3>2, PaidIs, Zenon
    <3>5. 3 \in Nat \ {0}
      OBVIOUS
    <3> HIDE DEF Good
    <3> QED
      BY <1>0, <3>2, <3>3, <3>4, <3>5, Zenon
  <2>11. CASE n = 3
    <3>1. s = OfNamespace /\ Skipped(s) = 0
      BY <1>5, <2>11, SkippedIs, TheDebts DEF At
    <3>2. /\ Debts(r, n) = Named /\ Debts(r, n - 1) = <<>>
          /\ n - 1 - Skipped(s) = 2 /\ Debts(r, 2) = <<>>
      BY <2>0, <2>11, <3>1
    <3>3. Paid(Debts(r, n), s, TRUE) = Debts(r, n - 1)
      BY <3>1, <3>2, PaidIs, Zenon
    <3>4. Paid(Debts(r, n), s, FALSE) = Debts(r, 2)
      BY <3>1, <3>2, PaidIs, Zenon
    <3>5. 2 \in Nat \ {0}
      OBVIOUS
    <3> HIDE DEF Good
    <3> QED
      BY <1>0, <3>2, <3>3, <3>4, <3>5, Zenon
  <2>12. \/ n > 15 \/ n = 1 \/ n = 15 \/ n \in {2, 5, 8, 13, 14} \/ n = 12
         \/ n = 11 \/ n = 10 \/ n = 9 \/ n = 7 \/ n = 6 \/ n = 4 \/ n = 3
    OBVIOUS
  <2> QED
    BY <2>1, <2>2, <2>3, <2>4, <2>5, <2>6, <2>7, <2>8, <2>9, <2>10, <2>11,
       <2>12, Zenon
<1> QED
  BY <1>3, <1>4, <1>5, Zenon

-----------------------------------------------------------------------------
(* What a command has seen done.                                           *)

\* What the status says, when it is of the latest generation, and the
\* Deployment is settled or has nothing left, is so.
Told(w) ==
    w.status.seen = w.dep.generation =>
        /\ (/\ w.dep.replicas = 1 /\ w.status.current = {w.dep.image}
            /\ w.status.ready = {w.dep.image}) =>
               Current(w) = {w.dep.image} /\ Serving(w) = {w.dep.image}
        /\ w.dep.replicas = 0 /\ w.status.current = {} => Current(w) = {}

\* When n steps are left.
Done(w, r, n) ==
    /\ r.script = "deploy" =>
        /\ n <= 3 => w.dep.image = r.image /\ w.dep.replicas = 1
        /\ n <= 2 => Current(w) = {r.image} /\ Serving(w) = {r.image}
    /\ r.script = "verify" /\ (r.service = "product" \/ r.mode = "flux") =>
        /\ n < (CASE r.service = "product" -> 9 [] r.service = "dashboard" -> 17
                  [] r.service = "policy-search" -> 7) =>
               w.dep.image = r.image /\ Current(w) \subseteq {r.image}
    /\ r.script = "stop" /\ r.service = "product" =>
        /\ n <= 4 => w.dep.replicas = 0
        /\ n <= 3 => Current(w) = {}
    /\ r.script = "stop" /\ r.service # "product" =>
        /\ n <= 2 => w.dep.replicas = 0

\* The Deployment, its Pods and its status are the same.
Untouched(w, v) == v.dep = w.dep /\ v.pod = w.pod /\ v.status = w.status

LEMMA PodsAre ==
    ASSUME NEW w, NEW v, v.pod = w.pod
    PROVE  /\ Current(v) = Current(w) /\ Serving(v) = Serving(w)
           /\ Present(v) = Present(w)
BY DEF Current, Serving, Present

LEMMA DoneUntouched ==
    ASSUME NEW w, NEW v, Untouched(w, v)
    PROVE  /\ Told(w) => Told(v)
           /\ \A r, n : Done(w, r, n) => Done(v, r, n)
<1>1. Current(v) = Current(w) /\ Serving(v) = Serving(w)
  BY PodsAre DEF Untouched
<1>2. Told(w) => Told(v)
  BY <1>1 DEF Told, Untouched
<1>3. ASSUME NEW r, NEW n, Done(w, r, n) PROVE Done(v, r, n)
  BY <1>1, <1>3, Zenon DEF Done, Untouched
<1> QED
  BY <1>2, <1>3

\* What a step does to the Deployment.
LEMMA EffectTouches ==
    ASSUME NEW w \in World, NEW r, NEW s \in Step
    PROVE  LET v == Effect(w, r, s)
           IN /\ v.pod = w.pod /\ v.status = w.status
              /\ v.dep = CASE s[1] = "apply" -> Specified(w.dep, r.image, 1)
                           [] s[1] \in {"scale", "scaleIf"} ->
                                Specified(w.dep, w.dep.image, 0)
                           [] OTHER -> w.dep
<1> DEFINE v == Effect(w, r, s)
<1>1. CASE s[1] = "load"
  <2>1. v = [w EXCEPT !.loaded = @ \cup {r.image}]
    BY <1>1 DEF Effect
  <2> HIDE DEF v
  <2>2. v.dep = w.dep /\ v.status = w.status /\ v.pod = w.pod
    BY <2>1 DEF World
  <2> QED
    BY <1>1, <2>2 DEF v
<1>2. CASE s[1] = "applyJob"
  <2>1. PICK j : v = [w EXCEPT !.job = j]
    BY <1>2, Zenon DEF Effect
  <2> HIDE DEF v
  <2>2. v.dep = w.dep /\ v.status = w.status /\ v.pod = w.pod
    BY <2>1 DEF World
  <2> QED
    BY <1>2, <2>2 DEF v
<1>3. CASE s[1] = "apply"
  <2> DEFINE e == Specified(w.dep, r.image, 1)
  <2>1. v = [w EXCEPT !.dep = e]
    BY <1>3 DEF Effect
  <2> HIDE DEF v, e
  <2>2. v.dep = e /\ v.status = w.status /\ v.pod = w.pod
    BY <2>1 DEF World
  <2> QED
    BY <1>3, <2>2 DEF v, e
<1>4. CASE s[1] \in {"scale", "scaleIf"}
  <2> DEFINE e == Specified(w.dep, w.dep.image, 0)
  <2>1. v = [w EXCEPT !.dep = e]
    BY <1>4 DEF Effect
  <2> HIDE DEF v, e
  <2>2. v.dep = e /\ v.status = w.status /\ v.pod = w.pod
    BY <2>1 DEF World
  <2>3. s[1] # "apply"
    BY <1>4
  <2> QED
    BY <1>4, <2>2, <2>3 DEF v, e
<1>5. CASE s[1] \in {"forward", "endForwards"}
  <2>1. PICK f : v = [w EXCEPT !.forwards = f]
    BY <1>5, Zenon DEF Effect
  <2> HIDE DEF v
  <2>2. v.dep = w.dep /\ v.status = w.status /\ v.pod = w.pod
    BY <2>1 DEF World
  <2> QED
    BY <1>5, <2>2 DEF v
<1>6. CASE s[1] \in {"createNamespace", "deleteNamespace", "createPod",
                     "deletePod"}
  <2>1. PICK p : v = [w EXCEPT !.probes = p]
    BY <1>6, Zenon DEF Effect
  <2> HIDE DEF v
  <2>2. v.dep = w.dep /\ v.status = w.status /\ v.pod = w.pod
    BY <2>1 DEF World
  <2> QED
    BY <1>6, <2>2 DEF v
<1>7. CASE s[1] \notin {"load", "applyJob", "apply", "scale", "scaleIf",
                        "forward", "endForwards", "createNamespace",
                        "deleteNamespace", "createPod", "deletePod"}
  <2>1. v = w
    BY <1>7 DEF Effect
  <2> QED
    BY <1>7, <2>1
<1>8. \/ s[1] = "load" \/ s[1] = "applyJob" \/ s[1] = "apply"
      \/ s[1] \in {"scale", "scaleIf"}
      \/ s[1] \in {"forward", "endForwards"}
      \/ s[1] \in {"createNamespace", "deleteNamespace", "createPod",
                   "deletePod"}
      \/ s[1] \notin {"load", "applyJob", "apply", "scale", "scaleIf",
                      "forward", "endForwards", "createNamespace",
                      "deleteNamespace", "createPod", "deletePod"}
  OBVIOUS
<1> HIDE DEF v
<1> QED
  BY <1>1, <1>2, <1>3, <1>4, <1>5, <1>6, <1>7, <1>8, Zenon DEF v

\* A new specification is one the status says nothing of.
LEMMA ToldSpecified ==
    ASSUME NEW w \in World, NEW v, Seen(w), Told(w), NEW i \in Image,
           NEW n \in {0, 1}, v.dep = Specified(w.dep, i, n),
           v.pod = w.pod, v.status = w.status
    PROVE  Told(v)
<1>1. /\ w.dep \in Deployment /\ w.status.seen \in Nat
      /\ w.dep.generation \in Nat
  BY DEF World, Status, Deployment
<1>2. CASE w.dep.image = i /\ w.dep.replicas = n
  <2>1. v.dep = w.dep
    BY <1>1, <1>2 DEF Specified, Deployment
  <2> QED
    BY <2>1, DoneUntouched DEF Untouched
<1>3. CASE ~(w.dep.image = i /\ w.dep.replicas = n)
  <2>1. v.dep.generation = w.dep.generation + 1
    BY <1>3 DEF Specified
  <2>2. v.status.seen # v.dep.generation
    BY <1>1, <2>1 DEF Seen
  <2> QED
    BY <2>2 DEF Told
<1> QED
  BY <1>2, <1>3

LEMMA ToldEffect ==
    ASSUME NEW w \in World, Seen(w), Told(w), NEW r, r.image \in Image,
           NEW s \in Step
    PROVE  Told(Effect(w, r, s))
<1> DEFINE v == Effect(w, r, s)
<1>1. /\ v.pod = w.pod /\ v.status = w.status
      /\ v.dep = CASE s[1] = "apply" -> Specified(w.dep, r.image, 1)
                   [] s[1] \in {"scale", "scaleIf"} ->
                        Specified(w.dep, w.dep.image, 0)
                   [] OTHER -> w.dep
  BY EffectTouches
<1>2. w.dep.image \in Image
  BY DEF World, Deployment
<1> SUFFICES Told(v)
  OBVIOUS
<1> HIDE DEF v
<1>3. CASE s[1] = "apply"
  BY <1>1, <1>3, ToldSpecified
<1>4. CASE s[1] \in {"scale", "scaleIf"}
  <2>1. v.dep = Specified(w.dep, w.dep.image, 0)
    BY <1>1, <1>4
  <2> QED
    BY <1>1, <1>2, <2>1, ToldSpecified
<1>5. CASE s[1] \notin {"apply", "scale", "scaleIf"}
  <2>1. v.dep = w.dep
    BY <1>1, <1>5
  <2> QED
    BY <1>1, <2>1, DoneUntouched DEF Untouched
<1> QED
  BY <1>3, <1>4, <1>5

\* What the look at the Deployment tells.
LEMMA LiveTells ==
    ASSUME NEW w \in World, NEW r \in Run, r.image \in Image, Live(w, r, TRUE),
           r.service = "product" \/ r.mode = "flux"
    PROVE  w.dep.image = r.image /\ Current(w) \subseteq {r.image}
<1>1. w.dep.image # None /\ Allowed(r, TRUE) = {r.image}
  <2>1. w.dep.image \in Image /\ None \notin Image
    BY DEF World, Deployment, Image, None
  <2> QED
    BY <2>1 DEF Allowed
<1>2. CASE r.service = "product"
  <2>1. ProductLive(w, r, TRUE)
    BY <1>2, Zenon DEF Live
  <2>2. /\ w.dep.image = r.image
        /\ \A i \in Present(w) : PodImageAllowed(w, r, i, TRUE)
    BY <1>1, <2>1, Zenon DEF ProductLive
  <2>3. ASSUME NEW i \in Current(w) PROVE i = r.image
    <3>1. i \in Present(w) /\ w.pod[i] # "ending"
      BY <2>3 DEF Current, Present
    <3> QED
      BY <2>2, <3>1 DEF PodImageAllowed
  <2> QED
    BY <2>2, <2>3
<1>3. CASE r.service # "product"
  <2>1. DashboardLive(w, r, TRUE)
    BY <1>3, Zenon DEF Live, SearchLive, Run, Services
  <2>2. w.dep.image = r.image /\ RunningImage(w, r)
    BY <1>1, <2>1, Zenon DEF DashboardLive
  <2> QED
    BY <1>3, <2>2 DEF RunningImage
<1> QED
  BY <1>2, <1>3

LEMMA DoneStep ==
    ASSUME NEW w \in World, Told(w), NEW r \in Run, r.image \in Image,
           r.script \in Big, NEW n \in Nat \ {0}, NEW s \in Step,
           At(r, n, s), Holds(w, r, s), Done(w, r, n)
    PROVE  Done(Effect(w, r, s), r, n - 1)
<1> DEFINE v == Effect(w, r, s)
           m == n - 1
<1>1. /\ v.pod = w.pod /\ v.status = w.status
      /\ v.dep = CASE s[1] = "apply" -> Specified(w.dep, r.image, 1)
                   [] s[1] \in {"scale", "scaleIf"} ->
                        Specified(w.dep, w.dep.image, 0)
                   [] OTHER -> w.dep
  BY EffectTouches
<1>2. Current(v) = Current(w) /\ Serving(v) = Serving(w)
  BY <1>1, PodsAre
<1>3. /\ w.dep.image \in Image /\ w.dep.replicas \in {0, 1}
      /\ r.service \in Services /\ m \in Nat /\ n = m + 1
  BY DEF World, Deployment, Run
<1> SUFFICES Done(v, r, m)
  OBVIOUS
<1> HIDE DEF v, m
<1>4. CASE r.script = "deploy"
  <2>1. n > 4 \/ n = 4 \/ n = 3 \/ n = 2 \/ n = 1
    OBVIOUS
  <2>2. CASE n > 4
    BY <1>3, <1>4, <2>2 DEF Done
  <2>3. CASE n = 4
    <3>1. s[1] = "apply"
      BY <1>4, <2>3 DEF At
    <3>2. v.dep.image = r.image /\ v.dep.replicas = 1
      BY <1>1, <3>1 DEF Specified
    <3> QED
      BY <1>3, <1>4, <2>3, <3>2 DEF Done
  <2>4. CASE n = 3
    <3>1. s[1] = "rolledOut"
      BY <1>4, <2>4 DEF At
    <3>2. v.dep = w.dep /\ RolledOut(w)
      BY <1>1, <3>1 DEF Holds
    <3>3. w.dep.image = r.image /\ w.dep.replicas = 1
      BY <1>4, <2>4 DEF Done
    <3>4. Current(w) = {r.image} /\ Serving(w) = {r.image}
      BY <3>2, <3>3 DEF RolledOut, Told
    <3> QED
      BY <1>2, <1>4, <3>2, <3>3, <3>4 DEF Done
  <2>5. CASE n = 2 \/ n = 1
    <3>1. s[1] \in {"live", "judge"}
      BY <1>4, <2>5 DEF At
    <3>2. v.dep = w.dep
      BY <1>1, <3>1
    <3> QED
      BY <1>2, <1>4, <2>5, <3>2 DEF Done
  <2> QED
    BY <2>1, <2>2, <2>3, <2>4, <2>5
<1>5. CASE r.script = "verify"
  <2> DEFINE l == CASE r.service = "product" -> 9
                    [] r.service = "dashboard" -> 17
                    [] r.service = "policy-search" -> 7
  <2>1. l \in Nat
    BY <1>3 DEF Services
  <2>2. SUFFICES ASSUME r.service = "product" \/ r.mode = "flux", m < l
                 PROVE  v.dep.image = r.image /\ Current(v) \subseteq {r.image}
    BY <1>5, Zenon DEF Done
  <2>3. CASE n = l
    <3>1. s[1] = "live"
      BY <1>3, <1>5, <2>3 DEF At, Services
    <3>2. v.dep = w.dep /\ Live(w, r, TRUE)
      BY <1>1, <3>1, Zenon DEF Holds
    <3> QED
      BY <1>2, <2>2, <3>2, LiveTells, Zenon
  <2>4. CASE n < l
    <3>1. w.dep.image = r.image /\ Current(w) \subseteq {r.image}
      BY <1>5, <2>2, <2>4, Zenon DEF Done
    <3>2. s[1] \notin {"apply", "scale", "scaleIf"}
      <4>1. CASE r.service # "dashboard"
        <5>1. n > 5 \/ n = 5 \/ n = 4 \/ n = 3 \/ n \in {1, 2}
          OBVIOUS
        <5> QED
          BY <1>5, <4>1, <5>1, TheDebts DEF At, Early
      <4>2. CASE r.service = "dashboard"
        <5>1. \/ n > 15 \/ n = 1 \/ n = 15 \/ n \in {2, 13, 14}
              \/ n \in {5, 8} \/ n = 12 \/ n = 11 \/ n = 10 \/ n = 9
              \/ n = 7 \/ n = 6 \/ n = 4 \/ n = 3
          OBVIOUS
        <5> QED
          BY <1>5, <4>2, <5>1, TheDebts DEF At, Early
      <4> QED
        BY <4>1, <4>2
    <3>3. v.dep = w.dep
      BY <1>1, <3>2
    <3> QED
      BY <1>2, <3>1, <3>3
  <2>5. n = l \/ n < l
    <3> HIDE DEF l
    <3> QED
      BY <1>3, <2>1, <2>2
  <2> QED
    BY <2>3, <2>4, <2>5, Zenon
<1>6. CASE r.script = "stop" /\ r.service = "product"
  <2>1. n > 5 \/ n = 5 \/ n = 4 \/ n = 3 \/ n = 2 \/ n = 1
    OBVIOUS
  <2>2. CASE n > 5
    BY <1>3, <1>6, <2>2 DEF Done
  <2>3. CASE n = 5
    <3>1. s[1] = "scaleIf"
      BY <1>6, <2>3 DEF At
    <3>2. v.dep.replicas = 0
      BY <1>1, <3>1 DEF Specified
    <3> QED
      BY <1>3, <1>6, <2>3, <3>2 DEF Done
  <2>4. CASE n = 4
    <3>1. s[1] = "rolledOut"
      BY <1>6, <2>4 DEF At
    <3>2. v.dep = w.dep /\ RolledOut(w)
      BY <1>1, <3>1 DEF Holds
    <3>3. w.dep.replicas = 0
      BY <1>6, <2>4 DEF Done
    <3>4. Current(w) = {}
      BY <3>2, <3>3 DEF RolledOut, Told
    <3> QED
      BY <1>2, <1>6, <3>2, <3>3, <3>4 DEF Done
  <2>5. CASE n = 3 \/ n = 2 \/ n = 1
    <3>1. s[1] \in {"notReady", "noEndpoint", "judge"}
      BY <1>6, <2>5 DEF At
    <3>2. v.dep = w.dep
      BY <1>1, <3>1
    <3> QED
      BY <1>2, <1>6, <2>5, <3>2 DEF Done
  <2> QED
    BY <2>1, <2>2, <2>3, <2>4, <2>5
<1>7. CASE r.script = "stop" /\ r.service # "product"
  <2>1. n > 3 \/ n = 3 \/ n = 2 \/ n = 1
    OBVIOUS
  <2>2. CASE n > 3
    BY <1>3, <1>7, <2>2 DEF Done
  <2>3. CASE n = 3
    <3>1. s[1] = "scale"
      BY <1>7, <2>3 DEF At
    <3>2. v.dep.replicas = 0
      BY <1>1, <3>1 DEF Specified
    <3> QED
      BY <1>7, <3>2 DEF Done
  <2>4. CASE n = 2 \/ n = 1
    <3>1. s[1] \in {"noReplicas", "judge"}
      BY <1>7, <2>4 DEF At
    <3>2. v.dep = w.dep
      BY <1>1, <3>1
    <3> QED
      BY <1>7, <2>4, <3>2 DEF Done
  <2> QED
    BY <2>1, <2>2, <2>3, <2>4
<1> QED
  BY <1>4, <1>5, <1>6, <1>7 DEF Big

-----------------------------------------------------------------------------
(* What a verification has to remove.                                      *)

\* What is there is owed.
Covered(w, o) ==
    /\ w.forwards => In(OfForwards, o)
    /\ "namespace" \in w.probes => In(OfNamespace, o)
    /\ "beside" \in w.probes => In(OfPod("beside"), o)
    /\ "outside" \in w.probes => In(OfPod("outside"), o) \/ In(OfNamespace, o)

\* What a step does to the forwards and the probes.
LEMMA EffectProbes ==
    ASSUME NEW w \in World, NEW r, NEW s \in Step
    PROVE  LET v == Effect(w, r, s)
           IN /\ v.forwards => \/ w.forwards /\ s[1] # "endForwards"
                               \/ s[1] = "forward"
              /\ \A p \in v.probes :
                    \/ /\ p \in w.probes
                       /\ s[1] = "deleteNamespace" =>
                              p \notin {"namespace", "outside"}
                       /\ s[1] = "deletePod" => p # s[2]
                    \/ s[1] = "createNamespace" /\ p = "namespace"
                    \/ s[1] = "createPod" /\ p = s[2]
<1> DEFINE v == Effect(w, r, s)
           Are == /\ v.forwards => \/ w.forwards /\ s[1] # "endForwards"
                                   \/ s[1] = "forward"
                  /\ \A p \in v.probes :
                        \/ /\ p \in w.probes
                           /\ s[1] = "deleteNamespace" =>
                                  p \notin {"namespace", "outside"}
                           /\ s[1] = "deletePod" => p # s[2]
                        \/ s[1] = "createNamespace" /\ p = "namespace"
                        \/ s[1] = "createPod" /\ p = s[2]
<1> SUFFICES Are
  OBVIOUS
<1>1. CASE s[1] \in {"load", "applyJob", "apply", "scale", "scaleIf"}
  <2>1. v.forwards = w.forwards /\ v.probes = w.probes
    <3>1. CASE s[1] = "load"
      <4>1. v = [w EXCEPT !.loaded = @ \cup {r.image}]
        BY <3>1 DEF Effect
      <4> HIDE DEF v
      <4> QED
        BY <4>1 DEF World
    <3>2. CASE s[1] = "applyJob"
      <4>1. PICK j : v = [w EXCEPT !.job = j]
        BY <3>2, Zenon DEF Effect
      <4> HIDE DEF v
      <4> QED
        BY <4>1 DEF World
    <3>3. CASE s[1] \in {"apply", "scale", "scaleIf"}
      <4>1. PICK e : v = [w EXCEPT !.dep = e]
        BY <3>3, Zenon DEF Effect
      <4> HIDE DEF v
      <4> QED
        BY <4>1 DEF World
    <3> HIDE DEF v
    <3> QED
      BY <1>1, <3>1, <3>2, <3>3
  <2> HIDE DEF v
  <2> QED
    BY <1>1, <2>1
<1>2. CASE s[1] = "forward"
  <2>1. v = [w EXCEPT !.forwards = TRUE]
    BY <1>2 DEF Effect
  <2> HIDE DEF v
  <2>2. v.probes = w.probes
    BY <2>1 DEF World
  <2> QED
    BY <1>2, <2>2
<1>3. CASE s[1] = "endForwards"
  <2>1. v = [w EXCEPT !.forwards = FALSE]
    BY <1>3 DEF Effect
  <2> HIDE DEF v
  <2>2. v.probes = w.probes /\ ~v.forwards
    BY <2>1 DEF World
  <2> QED
    BY <1>3, <2>2
<1>4. CASE s[1] \in {"createNamespace", "deleteNamespace", "createPod",
                     "deletePod"}
  <2>1. /\ s[1] = "createNamespace" =>
               v = [w EXCEPT !.probes = @ \cup {"namespace"}]
        /\ s[1] = "deleteNamespace" =>
               v = [w EXCEPT !.probes = @ \ {"namespace", "outside"}]
        /\ s[1] = "createPod" => v = [w EXCEPT !.probes = @ \cup {s[2]}]
        /\ s[1] = "deletePod" => v = [w EXCEPT !.probes = @ \ {s[2]}]
    BY <1>4 DEF Effect
  <2> HIDE DEF v
  <2>2. v.forwards = w.forwards
    BY <1>4, <2>1 DEF World
  <2>3. /\ s[1] = "createNamespace" => v.probes = w.probes \cup {"namespace"}
        /\ s[1] = "deleteNamespace" =>
               v.probes = w.probes \ {"namespace", "outside"}
        /\ s[1] = "createPod" => v.probes = w.probes \cup {s[2]}
        /\ s[1] = "deletePod" => v.probes = w.probes \ {s[2]}
    BY <2>1 DEF World
  <2> QED
    BY <1>4, <2>2, <2>3
<1>5. CASE s[1] \notin {"load", "applyJob", "apply", "scale", "scaleIf",
                        "forward", "endForwards", "createNamespace",
                        "deleteNamespace", "createPod", "deletePod"}
  <2>1. v = w
    BY <1>5 DEF Effect
  <2> QED
    BY <1>5, <2>1
<1>6. \/ s[1] \in {"load", "applyJob", "apply", "scale", "scaleIf"}
      \/ s[1] = "forward" \/ s[1] = "endForwards"
      \/ s[1] \in {"createNamespace", "deleteNamespace", "createPod",
                   "deletePod"}
      \/ s[1] \notin {"load", "applyJob", "apply", "scale", "scaleIf",
                      "forward", "endForwards", "createNamespace",
                      "deleteNamespace", "createPod", "deletePod"}
  OBVIOUS
<1> HIDE DEF Are
<1> QED
  BY <1>1, <1>2, <1>3, <1>4, <1>5, <1>6, Zenon

\* Nothing done, or done with its debt: what is there is still owed.
LEMMA CoveredOwing ==
    ASSUME NEW w \in World, NEW o \in Seq(Debt), Covered(w, o), NEW r,
           NEW s \in Step, NEW a
    PROVE  LET p == o \o Owes(s, a)
           IN /\ p \in Seq(Debt)
              /\ Covered(w, p)
              /\ a = TRUE \/ s[1] \notin {"forward", "createPod"} =>
                     Covered(Effect(w, r, s), p)
<1> DEFINE d == Owes(s, a)
           p == o \o d
           v == Effect(w, r, s)
<1>1. d \in Seq(Debt)
  BY OwesOK
<1>2. /\ s[1] = "forward" /\ a = TRUE => In(OfForwards, d)
      /\ s[1] = "createNamespace" => In(OfNamespace, d)
      /\ s[1] = "createPod" /\ a = TRUE => In(OfPod(s[2]), d)
  <2>0. In(OfForwards, <<OfForwards>>) /\ In(OfNamespace, <<OfNamespace>>)
    BY TheDebts, PayTuples, Zenon
  <2>1. s[1] = "forward" /\ a = TRUE => In(OfForwards, d)
    BY <2>0, OwesIs, Zenon
  <2>2. s[1] = "createNamespace" => In(OfNamespace, d)
    BY <2>0, OwesIs, Zenon
  <2>3. ASSUME s[1] = "createPod", a = TRUE PROVE In(OfPod(s[2]), d)
    <3> DEFINE x == OfPod(s[2])
    <3>1. s[2] \in Pods
      BY <2>3, Zenon DEF Step
    <3>2. x \in Debt /\ d = <<x>>
      BY <2>3, <3>1, OwesIs, TheDebts, Zenon
    <3> HIDE DEF x, d
    <3>3. In(x, <<x>>)
      BY <3>2, PayTuples, Zenon
    <3> QED
      BY <3>2, <3>3 DEF x
  <2> QED
    BY <2>1, <2>2, <2>3, Zenon
<1> HIDE DEF d
<1>3. p \in Seq(Debt) /\ \A x : In(x, o) \/ In(x, d) => In(x, p)
  BY <1>1, InJoined
<1> HIDE DEF p
<1>4. Covered(w, p)
  BY <1>3 DEF Covered
<1>5. ASSUME a = TRUE \/ s[1] \notin {"forward", "createPod"}
      PROVE  Covered(v, p)
  <2>1. /\ v.forwards => w.forwards \/ s[1] = "forward"
        /\ \A x \in v.probes :
              \/ x \in w.probes
              \/ s[1] = "createNamespace" /\ x = "namespace"
              \/ s[1] = "createPod" /\ x = s[2]
    BY EffectProbes
  <2> HIDE DEF v
  <2>2. v.forwards => In(OfForwards, p)
    BY <1>2, <1>3, <1>5, <2>1 DEF Covered
  <2>3. "namespace" \in v.probes => In(OfNamespace, p)
    <3>1. s[1] = "createPod" => s[2] # "namespace"
      <4>1. s[1] = "createPod" => s[2] \in Pods
        BY Zenon DEF Step
      <4> QED
        BY <4>1 DEF Pods
    <3> QED
      BY <1>2, <1>3, <2>1, <3>1 DEF Covered
  <2>4. "beside" \in v.probes => In(OfPod("beside"), p)
    BY <1>2, <1>3, <1>5, <2>1 DEF Covered
  <2>5. "outside" \in v.probes =>
            In(OfPod("outside"), p) \/ In(OfNamespace, p)
    BY <1>2, <1>3, <1>5, <2>1 DEF Covered
  <2> QED
    BY <2>2, <2>3, <2>4, <2>5 DEF Covered
<1> QED
  BY <1>3, <1>4, <1>5, Zenon DEF p, v, d

\* What a step pays is not there any more.
LEMMA CoveredPay ==
    ASSUME NEW w \in World, NEW v, NEW o \in Seq(Debt), Covered(v, o), NEW r,
           NEW s \in Step, s \notin Debt \/ v = Effect(w, r, s)
    PROVE  Pay(o, s) \in Seq(Debt) /\ Covered(v, Pay(o, s))
<1> DEFINE p == Pay(o, s)
<1>1. /\ p \in Seq(Debt) /\ \A x : In(x, o) /\ x # s => In(x, p)
      /\ s \notin Debt => p = o
  BY InPay
<1> SUFFICES p \in Seq(Debt) /\ Covered(v, p)
  OBVIOUS
<1> HIDE DEF p
<1>2. CASE s \notin Debt
  BY <1>1, <1>2
<1>3. CASE s \in Debt /\ v = Effect(w, r, s)
  <2>1. /\ v.forwards => s[1] # "endForwards" \/ s[1] = "forward"
        /\ \A x \in v.probes :
              \/ /\ s[1] = "deleteNamespace" => x \notin {"namespace", "outside"}
                 /\ s[1] = "deletePod" => x # s[2]
              \/ s[1] \in {"createNamespace", "createPod"}
    BY <1>3, EffectProbes
  <2>2. s[1] \in {"endForwards", "deleteNamespace", "deletePod"}
    BY <1>3, TheDebts
  <2>3. /\ OfForwards[1] = "endForwards" /\ OfNamespace[1] = "deleteNamespace"
        /\ \A x : OfPod(x)[1] = "deletePod" /\ OfPod(x)[2] = x
    BY TheDebts
  <2> HIDE <1>3
  <2>4. v.forwards => s # OfForwards
    BY <2>1, <2>2, <2>3
  <2>5. \A x \in v.probes : /\ x \in {"namespace", "outside"} => s # OfNamespace
                            /\ s # OfPod(x)
    BY <2>1, <2>2, <2>3
  <2>6. v.forwards => In(OfForwards, p)
    BY <1>1, <2>4 DEF Covered
  <2>7. "namespace" \in v.probes => In(OfNamespace, p)
    BY <1>1, <2>5 DEF Covered
  <2>8. "beside" \in v.probes => In(OfPod("beside"), p)
    BY <1>1, <2>5 DEF Covered
  <2>9. "outside" \in v.probes =>
            In(OfPod("outside"), p) \/ In(OfNamespace, p)
    BY <1>1, <2>5 DEF Covered
  <2> QED
    BY <1>1, <2>6, <2>7, <2>8, <2>9 DEF Covered
<1> QED
  BY <1>1, <1>2, <1>3

LEMMA CoveredNothing ==
    ASSUME NEW w \in World, Covered(w, <<>>)
    PROVE  w.probes = {} /\ ~w.forwards
<1>1. \A x : ~In(x, <<>>)
  BY DEF In
<1>2. w.probes \subseteq {"namespace", "beside", "outside"}
  BY DEF World, Pods
<1> QED
  BY <1>1, <1>2 DEF Covered

-----------------------------------------------------------------------------
(* Commands that keep to it, and what their end says.                      *)

InBody(r) == r.state = "body" /\ r.script \in Big
\* A verification that found nothing of an earlier one.
Verifies(r) == r.script = "verify" /\ r.operations <= 1

Orderly(w, r) ==
    /\ Told(w)
    /\ r.operations = 0 => w.probes = {} /\ r.state = "idle"
    /\ InBody(r) =>
        /\ Placed(r) /\ r.owed = Debts(r, Len(r.todo))
        /\ r.lost => r.failed
        /\ ~r.failed /\ ~r.disturbed => Done(w, r, Len(r.todo))
    /\ r.state = "cleanup" =>
        /\ r.todo = Reverse(r.owed)
        /\ r.script \in Big => r.verdict # "passed"
    /\ r.state # "idle" /\ Verifies(r) => r.lost \/ Covered(w, r.owed)

\* With its last step done a command r leaves p, and the cluster as w.
Closing(w, r, p) ==
    /\ p.verdict = "passed" /\ r.script \in Big /\ ~r.disturbed => Done(w, r, 0)
    /\ Verifies(r) /\ p.verdict # "killed" =>
           \/ p.lost /\ p.verdict # "passed"
           \/ w.probes = {} /\ ~w.forwards

\* The next state of a command r.
Result(w, r, p) ==
    /\ p.operations = r.operations
    /\ p.state = "idle" => Closing(w, r, p)
    /\ InBody(p) =>
        /\ Placed(p) /\ p.owed = Debts(p, Len(p.todo))
        /\ p.lost => p.failed
        /\ ~p.failed /\ ~p.disturbed => Done(w, p, Len(p.todo))
    /\ p.state = "cleanup" =>
        /\ p.todo = Reverse(p.owed)
        /\ p.script \in Big => p.verdict # "passed"
    /\ p.state # "idle" /\ Verifies(p) => p.lost \/ Covered(w, p.owed)

\* The same command.
Same(r, q) ==
    /\ q \in Run /\ q.state = r.state /\ q.script = r.script
    /\ q.service = r.service /\ q.mode = r.mode /\ q.image = r.image
    /\ q.operations = r.operations /\ q.disturbed = r.disturbed
    /\ q.verdict = r.verdict

LEMMA SameDone ==
    ASSUME NEW r, NEW q, q.script = r.script, q.service = r.service,
           q.mode = r.mode, q.image = r.image
    PROVE  /\ \A w, n : Done(w, r, n) => Done(w, q, n)
           /\ \A n : Debts(q, n) = Debts(r, n)
           /\ \A n, s : At(r, n, s) => At(q, n, s)
<1>1. \A n : Debts(q, n) = Debts(r, n)
  BY DEF Debts
<1>2. ASSUME NEW w, NEW n, Done(w, r, n) PROVE Done(w, q, n)
  BY <1>2, Zenon DEF Done
<1>3. ASSUME NEW n, NEW s, At(r, n, s) PROVE At(q, n, s)
  BY <1>3 DEF At
<1> QED
  BY <1>1, <1>2, <1>3

LEMMA EndsIs ==
    ASSUME NEW r \in Run, NEW v \in Verdict
    PROVE  LET p == Ends(r, v)
           IN /\ p.state = "idle" /\ p.verdict = v /\ p.lost = r.lost
              /\ p.operations = r.operations /\ p.service = r.service
<1> DEFINE k == Kept(r)
           j == [k EXCEPT !.verdict = v]
           q == [j EXCEPT !.lost = r.lost]
<1>1. /\ k.state = "idle" /\ k.operations = r.operations
      /\ k.service = r.service
      /\ DOMAIN k = {"state", "script", "image", "previous", "attempt",
                     "release", "version", "todo", "owed", "failed", "lost",
                     "disturbed", "verdict", "service", "mode", "operations",
                     "faults"}
  BY DEF Kept, Idle
<1>2. Ends(r, v) = q
  BY DEF Ends, Kept, Idle
<1> HIDE DEF k
<1>3. /\ j.state = "idle" /\ j.operations = r.operations
      /\ j.service = r.service /\ j.verdict = v /\ DOMAIN j = DOMAIN k
  BY <1>1
<1> HIDE DEF j
<1>4. /\ q.state = "idle" /\ q.operations = r.operations
      /\ q.service = r.service /\ q.verdict = v /\ q.lost = r.lost
  BY <1>1, <1>3
<1> QED
  BY <1>2, <1>4

LEMMA FinallyIs ==
    ASSUME NEW r \in Run, NEW v \in Verdict
    PROVE  LET p == Finally(r, v)
           IN /\ r.owed = <<>> => p = Ends(r, v)
              /\ r.owed # <<>> =>
                    /\ p.state = "cleanup" /\ p.verdict = v
                    /\ p.todo = Reverse(p.owed) /\ p.owed = r.owed
                    /\ p.lost = r.lost /\ p.script = r.script
                    /\ p.service = r.service /\ p.operations = r.operations
<1>1. ASSUME r.owed # <<>>
      PROVE  LET p == Finally(r, v)
             IN /\ p.state = "cleanup" /\ p.verdict = v
                /\ p.todo = Reverse(p.owed) /\ p.owed = r.owed
                /\ p.lost = r.lost /\ p.script = r.script
                /\ p.service = r.service /\ p.operations = r.operations
  <2> DEFINE d == Reverse(r.owed)
             p == [r EXCEPT !.state = "cleanup", !.verdict = v, !.todo = d]
  <2>1. Finally(r, v) = p
    BY <1>1 DEF Finally
  <2> HIDE DEF d
  <2>2. /\ p.state = "cleanup" /\ p.verdict = v /\ p.todo = d
        /\ p.owed = r.owed /\ p.lost = r.lost /\ p.script = r.script
        /\ p.service = r.service /\ p.operations = r.operations
    BY DEF Run
  <2> HIDE DEF p
  <2> QED
    BY <2>1, <2>2 DEF d
<1> QED
  BY <1>1 DEF Finally

\* A command that gives up, is interrupted, or has done its last step.
LEMMA FinallyResult ==
    ASSUME NEW w \in World, NEW r \in Run, r.state # "idle",
           NEW v \in Verdict,
           Verifies(r) => r.lost \/ Covered(w, r.owed),
           v = "passed" /\ r.script \in Big =>
               /\ r.owed = <<>> /\ ~r.lost
               /\ ~r.disturbed => Done(w, r, 0)
    PROVE  Result(w, r, Finally(r, v))
<1> DEFINE p == Finally(r, v)
<1>1. CASE r.owed = <<>>
  <2>1. /\ p.state = "idle" /\ p.verdict = v /\ p.lost = r.lost
        /\ p.operations = r.operations
    BY <1>1, FinallyIs, EndsIs
  <2>2. Verifies(r) => r.lost \/ (w.probes = {} /\ ~w.forwards)
    BY <1>1, CoveredNothing
  <2>3. Verifies(r) /\ r.lost => v # "passed"
    BY DEF Verifies, Big
  <2> HIDE DEF p
  <2>4. Closing(w, r, p)
    BY <2>1, <2>2, <2>3 DEF Closing
  <2>5. Result(w, r, p)
    BY <2>1, <2>4 DEF Result, InBody
  <2> QED
    BY <2>5 DEF p
<1>2. CASE r.owed # <<>>
  <2>1. /\ p.state = "cleanup" /\ p.verdict = v
        /\ p.todo = Reverse(p.owed) /\ p.owed = r.owed
        /\ p.lost = r.lost /\ p.script = r.script
        /\ p.service = r.service /\ p.operations = r.operations
    BY <1>2, FinallyIs
  <2> HIDE DEF p
  <2>2. Verifies(p) => p.lost \/ Covered(w, p.owed)
    BY <2>1 DEF Verifies
  <2>3. p.script \in Big => p.verdict # "passed"
    BY <1>2, <2>1
  <2>4. Result(w, r, p)
    BY <2>1, <2>2, <2>3 DEF Result, InBody
  <2> QED
    BY <2>4 DEF p
<1> QED
  BY <1>1, <1>2

\* A step is done, or a failure collected, and the next one is taken.
Stepped(w, q) ==
    /\ q \in Run /\ q.state \in {"body", "cleanup"}
    /\ InBody(q) =>
        /\ q.todo # <<>> /\ Placed(q)
        /\ q.owed = Debts(q, Len(q.todo) - 1)
        /\ q.lost => q.failed
        /\ ~q.failed /\ ~q.disturbed => Done(w, q, Len(q.todo) - 1)
    /\ q.state = "cleanup" =>
        /\ q.todo # <<>> /\ Tail(q.todo) = Reverse(q.owed)
        /\ q.script \in Big => q.verdict # "passed"
    /\ Verifies(q) => q.lost \/ Covered(w, q.owed)

LEMMA ReversedDebts ==
    ASSUME NEW o \in Seq(Debt)
    PROVE  /\ Reverse(o) = <<>> => o = <<>>
           /\ o # <<>> => /\ Head(Reverse(o)) = Last(o)
                          /\ Tail(Reverse(o)) = Reverse(Front(o))
<1> DEFINE n == Len(o)
           v == Reverse(o)
           f == Front(o)
           g == Reverse(f)
<1>1. n \in Nat /\ \A i \in 1 .. n : o[i] \in Debt
  BY LenProperties, ElementOfSeq
<1>2. v = [i \in 1 .. n |-> o[(n - i) + 1]]
  BY DEF Reverse
<1>3. \A i \in 1 .. n : (n - i) + 1 \in 1 .. n
  BY <1>1
<1>4. v \in [1 .. n -> Debt]
  BY <1>1, <1>2, <1>3
<1> HIDE DEF v
<1>5. v \in Seq(Debt)
  BY <1>1, <1>4, SeqDef
<1>6. Len(v) = n
  BY <1>1, <1>4, <1>5, LenProperties
<1>7. v = <<>> => o = <<>>
  BY <1>5, <1>6, EmptySeq
<1>8. ASSUME o # <<>>
      PROVE  Head(v) = Last(o) /\ Tail(v) = Reverse(Front(o))
  <2>1. v # <<>> /\ n \in Nat \ {0}
    BY <1>1, <1>5, <1>6, <1>8, EmptySeq
  <2>2. /\ Head(v) = v[1] /\ Tail(v) \in Seq(Debt) /\ Len(Tail(v)) = n - 1
        /\ \A i \in 1 .. n - 1 : Tail(v)[i] = v[i + 1]
    BY <1>5, <1>6, <2>1, HeadTailProperties
  <2>3. v[1] = o[n]
    <3>1. 1 \in 1 .. n /\ (n - 1) + 1 = n
      BY <2>1
    <3> QED
      BY <1>2, <3>1
  <2>4. /\ f \in Seq(Debt) /\ Len(f) = n - 1
        /\ \A i \in 1 .. n - 1 : f[i] = o[i]
    <3>1. n - 1 \in Nat /\ n - 1 <= n /\ 1 \in 1 .. n + 1
      BY <2>1
    <3>2. f = SubSeq(o, 1, n - 1)
      BY DEF Front
    <3>3. n - 1 \in 1 - 1 .. n
      BY <3>1
    <3>4. /\ f \in Seq(Debt)
          /\ Len(f) = IF 1 <= n - 1 THEN (n - 1) - 1 + 1 ELSE 0
          /\ \A i \in 1 .. (n - 1) - 1 + 1 : f[i] = o[1 + i - 1]
      BY <3>1, <3>2, <3>3, SubSeqProperties
    <3> HIDE DEF f, n
    <3>5. Len(f) = n - 1 /\ (n - 1) - 1 + 1 = n - 1
      BY <3>1, <3>4
    <3>6. ASSUME NEW i \in 1 .. n - 1 PROVE f[i] = o[i]
      <4>1. 1 + i - 1 = i
        OBVIOUS
      <4> QED
        BY <3>4, <3>5, <3>6, <4>1
    <3> QED
      BY <3>4, <3>5, <3>6
  <2>5. g = [i \in 1 .. n - 1 |-> f[((n - 1) - i) + 1]]
    BY <2>4 DEF Reverse
  <2> HIDE DEF f, g
  <2>6. ASSUME NEW i \in 1 .. n - 1 PROVE Tail(v)[i] = g[i]
    <3>1. /\ ((n - 1) - i) + 1 \in 1 .. n - 1 /\ i + 1 \in 1 .. n
          /\ ((n - 1) - i) + 1 = (n - (i + 1)) + 1
      BY <2>1
    <3>2. g[i] = o[((n - 1) - i) + 1]
      BY <2>4, <2>5, <3>1, Zenon
    <3>3. v[i + 1] = o[(n - (i + 1)) + 1]
      BY <1>2, <3>1
    <3> QED
      BY <2>2, <3>1, <3>2, <3>3, Zenon
  <2>7. Tail(v) \in [1 .. n - 1 -> Debt]
    BY <2>2, LenProperties, Zenon
  <2>8. Tail(v) = [i \in 1 .. n - 1 |-> Tail(v)[i]]
    BY <2>7, Zenon
  <2>9. Tail(v) = g
    BY <2>5, <2>6, <2>8, Zenon
  <2> QED
    BY <2>2, <2>3, <2>9 DEF Last, f, g
<1> QED
  BY <1>7, <1>8 DEF v

LEMMA AdvancedResult ==
    ASSUME NEW w \in World, NEW q, Stepped(w, q)
    PROVE  Result(w, q, Advanced(q))
<1> DEFINE p == Advanced(q)
           t == Tail(q.todo)
<1>1. /\ q \in Run /\ q.todo \in Seq(Step) /\ q.owed \in Seq(Debt)
      /\ q.service \in Services /\ q.state \in {"body", "cleanup"}
      /\ Len(q.todo) \in Nat /\ q.lost \in BOOLEAN /\ q.failed \in BOOLEAN
  BY LenProperties DEF Stepped, Run
<1>2. CASE Len(q.todo) > 1
  <2>1. p = [q EXCEPT !.todo = t]
    BY <1>2 DEF Advanced
  <2> HIDE DEF t, p
  <2>2. /\ p.todo = t /\ p.state = q.state /\ p.script = q.script
        /\ p.service = q.service /\ p.mode = q.mode /\ p.image = q.image
        /\ p.operations = q.operations /\ p.owed = q.owed
        /\ p.verdict = q.verdict
    BY <1>1, <2>1 DEF Run
  <2>3. /\ p.lost = q.lost /\ p.failed = q.failed
        /\ p.disturbed = q.disturbed
    BY <1>1, <2>1 DEF Run
  <2>4. q.todo # <<>>
    BY <1>1, <1>2
  <2>5. InBody(p) =>
          /\ Placed(p) /\ p.owed = Debts(p, Len(p.todo))
          /\ p.lost => p.failed
          /\ ~p.failed /\ ~p.disturbed => Done(w, p, Len(p.todo))
    <3> SUFFICES ASSUME InBody(p)
                 PROVE  /\ Placed(p) /\ p.owed = Debts(p, Len(p.todo))
                        /\ p.lost => p.failed
                        /\ ~p.failed /\ ~p.disturbed =>
                               Done(w, p, Len(p.todo))
      OBVIOUS
    <3>1. InBody(q)
      BY <2>2 DEF InBody
    <3>2. Placed(p) /\ Len(p.todo) = Len(q.todo) - 1
      BY <1>1, <2>2, <2>4, <3>1, PlacedNext DEF Stepped, t
    <3>3. /\ \A n : Debts(p, n) = Debts(q, n)
          /\ \A n : Done(w, q, n) => Done(w, p, n)
      BY <2>2, SameDone
    <3> QED
      BY <2>2, <2>3, <3>1, <3>2, <3>3 DEF Stepped
  <2>6. p.state = "cleanup" =>
          /\ p.todo = Reverse(p.owed)
          /\ p.script \in Big => p.verdict # "passed"
    BY <2>2 DEF Stepped, t
  <2>7. Verifies(p) => p.lost \/ Covered(w, p.owed)
    BY <2>2, <2>3 DEF Stepped, Verifies
  <2>8. Result(w, q, p)
    BY <1>1, <2>2, <2>5, <2>6, <2>7 DEF Result
  <2> QED
    BY <2>8 DEF p
<1>3. CASE ~(Len(q.todo) > 1) /\ q.state = "body"
  <2> DEFINE v == IF q.failed THEN "failed" ELSE "passed"
  <2>1. p = Finally(q, v)
    BY <1>3 DEF Advanced
  <2>2. v \in Verdict /\ (v = "passed" => ~q.failed)
    BY DEF Verdict
  <2> HIDE DEF v
  <2>3. ASSUME v = "passed", q.script \in Big
        PROVE  /\ q.owed = <<>> /\ ~q.lost
               /\ ~q.disturbed => Done(w, q, 0)
    <3>1. InBody(q)
      BY <1>3, <2>3 DEF InBody
    <3>2. Len(q.todo) - 1 = 0
      <4>1. Len(q.todo) # 0
        BY <1>1, <3>1, EmptySeq DEF Stepped
      <4>2. Len(q.todo) \in Nat /\ ~(Len(q.todo) > 1)
        BY <1>1, <1>3, LenProperties
      <4>3. \A k \in Nat : k # 0 /\ ~(k > 1) => k - 1 = 0
        OBVIOUS
      <4> QED
        BY <4>1, <4>2, <4>3, Zenon
    <3>3. Debts(q, 0) = <<>>
      BY DEF Debts
    <3> QED
      BY <2>2, <2>3, <3>1, <3>2, <3>3, Zenon DEF Stepped
  <2>4. Verifies(q) => q.lost \/ Covered(w, q.owed)
    BY DEF Stepped
  <2>5. Result(w, q, Finally(q, v))
    BY <1>1, <1>3, <2>2, <2>3, <2>4, FinallyResult
  <2> QED
    BY <2>1, <2>5
<1>4. CASE ~(Len(q.todo) > 1) /\ q.state = "cleanup"
  <2>1. p = Ends(q, q.verdict) /\ q.verdict \in Verdict
    BY <1>1, <1>4 DEF Advanced, Run, Verdict
  <2>2. /\ p.state = "idle" /\ p.verdict = q.verdict /\ p.lost = q.lost
        /\ p.operations = q.operations
    BY <1>1, <2>1, EndsIs
  <2>3. q.owed = <<>>
    <3>1. q.todo # <<>> /\ t = Reverse(q.owed)
      BY <1>4 DEF Stepped
    <3>2. t = <<>>
      <4>1. /\ Len(q.todo) # 0 /\ t \in Seq(Step) /\ Len(t) = Len(q.todo) - 1
        BY <1>1, <3>1, EmptySeq, HeadTailProperties
      <4> HIDE DEF t
      <4>3. Len(q.todo) \in Nat /\ ~(Len(q.todo) > 1)
        BY <1>1, <1>4, LenProperties
      <4>4. \A k \in Nat : k # 0 /\ ~(k > 1) => k - 1 = 0
        OBVIOUS
      <4>2. Len(t) = 0
        BY <4>1, <4>3, <4>4, Zenon
      <4> QED
        BY <4>1, <4>2, EmptySeq
    <3> QED
      BY <1>1, <3>1, <3>2, ReversedDebts, Zenon
  <2>4. Verifies(q) => q.lost \/ (w.probes = {} /\ ~w.forwards)
    BY <2>3, CoveredNothing DEF Stepped
  <2>5. q.script \in Big => q.verdict # "passed"
    BY <1>4 DEF Stepped
  <2>6. Verifies(q) => q.script \in Big
    BY DEF Verifies, Big
  <2> HIDE DEF p
  <2>7. Closing(w, q, p)
    BY <2>2, <2>4, <2>5, <2>6 DEF Closing
  <2>8. Result(w, q, p)
    BY <2>2, <2>7 DEF Result, InBody
  <2> QED
    BY <2>8 DEF p
<1> QED
  BY <1>1, <1>2, <1>3, <1>4

\* What is said of a command's next state is said of it.
LEMMA AlikeResult ==
    ASSUME NEW w, NEW r, NEW q, NEW p, Result(w, q, p),
           q.operations = r.operations, q.script = r.script,
           q.disturbed = r.disturbed, q.service = r.service,
           q.mode = r.mode, q.image = r.image
    PROVE  Result(w, r, p)
<1>1. \A n : Done(w, q, n) => Done(w, r, n)
  BY SameDone
<1>2. Closing(w, q, p) => Closing(w, r, p)
  BY <1>1 DEF Closing, Verifies
<1> QED
  BY <1>2 DEF Result

LEMMA SameResult ==
    ASSUME NEW w, NEW r, NEW q, NEW p, Same(r, q), Result(w, q, p)
    PROVE  Result(w, r, p)
BY AlikeResult DEF Same

LEMMA OwingIs ==
    ASSUME NEW r \in Run, NEW s \in Step, NEW a
    PROVE  LET q == Owing(r, s, a)
           IN /\ Same(r, q) /\ q.todo = r.todo
              /\ q.owed = r.owed \o Owes(s, a)
              /\ q.failed = r.failed /\ q.lost = r.lost
              /\ q.faults = r.faults
<1> DEFINE q == Owing(r, s, a)
           o == r.owed \o Owes(s, a)
<1>1. q = [r EXCEPT !.owed = o]
  BY DEF Owing
<1>2. q \in Run
  BY OwingOK DEF Alike
<1> HIDE DEF o, q
<1>3. /\ q.state = r.state /\ q.script = r.script
      /\ q.service = r.service /\ q.mode = r.mode /\ q.image = r.image
      /\ q.operations = r.operations /\ q.disturbed = r.disturbed
      /\ q.verdict = r.verdict /\ q.todo = r.todo /\ q.owed = o
      /\ q.failed = r.failed /\ q.lost = r.lost /\ q.faults = r.faults
  BY <1>1 DEF Run
<1> QED
  BY <1>2, <1>3 DEF Same, o, q

LEMMA SettledIs ==
    ASSUME NEW r \in Run, NEW s
    PROVE  LET q == Settled(r, s)
           IN /\ Same(r, q) /\ q.todo = r.todo /\ q.owed = Pay(r.owed, s)
              /\ q.failed = r.failed /\ q.lost = r.lost
<1> DEFINE q == Settled(r, s)
<1>1. q \in Run
  BY SettledOK DEF Alike
<1>2. CASE r.owed # <<>> /\ Last(r.owed) = s
  <2>1. q = [r EXCEPT !.owed = Front(r.owed)]
    BY <1>2 DEF Settled
  <2>2. Pay(r.owed, s) = Front(r.owed)
    BY <1>2 DEF Pay
  <2> DEFINE f == Front(r.owed)
  <2> HIDE DEF f, q
  <2>3. /\ q.state = r.state /\ q.script = r.script
        /\ q.service = r.service /\ q.mode = r.mode /\ q.image = r.image
        /\ q.operations = r.operations /\ q.disturbed = r.disturbed
        /\ q.verdict = r.verdict /\ q.todo = r.todo /\ q.owed = f
        /\ q.failed = r.failed /\ q.lost = r.lost
    BY <2>1 DEF Run, f
  <2> QED
    BY <1>1, <2>2, <2>3 DEF Same, f, q
<1>3. CASE ~(r.owed # <<>> /\ Last(r.owed) = s)
  <2>1. q = r /\ Pay(r.owed, s) = r.owed
    BY <1>3 DEF Settled, Pay
  <2> QED
    BY <2>1 DEF Same
<1> QED
  BY <1>2, <1>3

LEMMA SameTransitive ==
    ASSUME NEW p, NEW q, NEW r, Same(p, q), Same(q, r) PROVE Same(p, r)
BY DEF Same

\* In a cleanup the first step is the debt that comes last.
LEMMA CleanupStep ==
    ASSUME NEW r \in Run, r.todo # <<>>, r.todo = Reverse(r.owed), NEW a
    PROVE  LET s == Head(r.todo)
           IN /\ s \in Debt /\ Owes(s, a) = <<>>
              /\ Tail(r.todo) = Reverse(Pay(r.owed \o Owes(s, a), s))
<1> DEFINE s == Head(r.todo)
           o == r.owed
<1>1. o \in Seq(Debt) /\ o # <<>>
  <2>1. Reverse(<<>>) = <<>>
    BY DEF Reverse
  <2> QED
    BY <2>1 DEF Run
<1>2. s = Last(o) /\ Tail(r.todo) = Reverse(Front(o))
  BY <1>1, ReversedDebts
<1>3. s \in Debt
  <2>1. Len(o) \in 1 .. Len(o) /\ o[Len(o)] \in Debt
    BY <1>1, EmptySeq, LenProperties, ElementOfSeq
  <2> QED
    BY <1>2, <2>1 DEF Last
<1>4. Owes(s, a) = <<>>
  BY <1>3, TheDebts, OwesIs, Zenon
<1>5. o \o <<>> = o
  BY <1>1, ConcatEmptySeq
<1>6. Pay(o, s) = Front(o)
  BY <1>1, <1>2 DEF Pay
<1> QED
  BY <1>2, <1>3, <1>4, <1>5, <1>6, Zenon

\* A command under way.
LEMMA UnderWay ==
    ASSUME NEW w, NEW r, Safe(w, r), r.state # "idle", Orderly(w, r)
    PROVE  /\ w \in World /\ Seen(w) /\ r \in Run /\ Head(r.todo) \in Step
           /\ r.todo \in Seq(Step) /\ r.todo # <<>> /\ r.image \in Image
           /\ r.owed \in Seq(Debt) /\ r.service \in Services
           /\ r.state \in {"body", "cleanup"} /\ r.operations # 0
           /\ Told(w)
           /\ InBody(r) => /\ At(r, Len(r.todo), Head(r.todo))
                           /\ Len(r.todo) \in Nat \ {0}
<1>1. r \in Run /\ Attended(r) /\ w \in World /\ Seen(w)
  BY DEF Safe
<1>2. /\ r.owed \in Seq(Debt) /\ r.service \in Services /\ r.image \in Image
  BY <1>1 DEF Run, Attended
<1>3. /\ Head(r.todo) \in Step /\ r.todo \in Seq(Step) /\ r.todo # <<>>
      /\ r.state \in {"body", "cleanup"}
  BY <1>1, FirstStep
<1>4. InBody(r) => Placed(r)
  BY DEF Orderly
<1>5. InBody(r) => /\ At(r, Len(r.todo), Head(r.todo))
                   /\ Len(r.todo) \in Nat \ {0}
  BY <1>2, <1>3, <1>4, PlacedAt
<1> QED
  BY <1>1, <1>2, <1>3, <1>5 DEF Orderly

-----------------------------------------------------------------------------
(* The steps of a command.                                                 *)

LEMMA PlacedSame ==
    ASSUME NEW r, NEW q, Placed(r), q.service = r.service,
           q.script = r.script, q.todo = r.todo
    PROVE  Placed(q)
BY DEF Placed, ScriptIs

LEMMA LearnsIs ==
    ASSUME NEW r \in Run, NEW s, world \in World
    PROVE  LET q == Learns(r, s)
           IN /\ Same(r, q) /\ q.todo = r.todo /\ q.owed = r.owed
              /\ q.failed = r.failed /\ q.lost = r.lost
<1> DEFINE x == <<world.dep, world.status>>
           y == [r EXCEPT !.version = x]
<1>1. x \in Deployment \X Status
  BY DEF World
<1> HIDE DEF x
<1>2. y \in Run
  BY <1>1, Noted, Zenon DEF Alike
<1>3. /\ y.state = r.state /\ y.script = r.script
      /\ y.service = r.service /\ y.mode = r.mode /\ y.image = r.image
      /\ y.operations = r.operations /\ y.disturbed = r.disturbed
      /\ y.verdict = r.verdict /\ y.todo = r.todo /\ y.owed = r.owed
      /\ y.failed = r.failed /\ y.lost = r.lost
  BY DEF Run
<1>4. Learns(r, s) = y \/ Learns(r, s) = r
  BY DEF Learns, x
<1> HIDE DEF y
<1>5. Same(r, y) /\ Same(r, r)
  BY <1>2, <1>3 DEF Same
<1> QED
  BY <1>3, <1>4, <1>5

\* The step is done as it should be.
LEMMA PerformStepped ==
    ASSUME NEW w, NEW r, Safe(w, r), r.state # "idle", Orderly(w, r),
           Holds(w, r, Head(r.todo)), NEW v,
           v = Effect(w, r, Head(r.todo)), NEW q, Same(r, q),
           q.todo = r.todo, q.owed = Paid(r.owed, Head(r.todo), TRUE),
           q.failed = r.failed, q.lost = r.lost
    PROVE  Stepped(v, q)
<1> DEFINE s == Head(r.todo)
           n == Len(r.todo)
<1>1. /\ w \in World /\ r \in Run /\ s \in Step /\ r.todo # <<>>
      /\ r.image \in Image /\ r.owed \in Seq(Debt) /\ r.service \in Services
      /\ r.state \in {"body", "cleanup"} /\ Told(w)
      /\ InBody(r) => At(r, n, s) /\ n \in Nat \ {0}
  BY UnderWay
<1>2. InBody(r) => /\ Placed(r) /\ r.owed = Debts(r, n)
                   /\ r.lost => r.failed
                   /\ ~r.failed /\ ~r.disturbed => Done(w, r, n)
  BY DEF Orderly
<1>3. /\ q \in Run /\ q.state \in {"body", "cleanup"}
      /\ InBody(q) <=> InBody(r)
      /\ q.script = r.script /\ q.service = r.service
      /\ q.disturbed = r.disturbed
  BY <1>1 DEF Same, InBody
<1>4. /\ \A m : Debts(q, m) = Debts(r, m)
      /\ \A m : Done(v, r, m) => Done(v, q, m)
  BY SameDone DEF Same
<1>5. ASSUME InBody(q)
      PROVE  /\ q.todo # <<>> /\ Placed(q)
             /\ q.owed = Debts(q, Len(q.todo) - 1)
             /\ q.lost => q.failed
             /\ ~q.failed /\ ~q.disturbed => Done(v, q, Len(q.todo) - 1)
  <2>1. InBody(r) /\ r.script \in Big
    BY <1>3, <1>5 DEF InBody
  <2>2. At(r, n, s) /\ n \in Nat \ {0}
    BY <1>1, <2>1
  <2>3. Paid(Debts(r, n), s, TRUE) = Debts(r, n - 1)
    BY <1>1, <2>1, <2>2, DebtsStep, Zenon
  <2>4. ASSUME Done(w, r, n) PROVE Done(v, r, n - 1)
    BY <1>1, <2>1, <2>2, <2>4, DoneStep
  <2>5. Placed(q)
    BY <1>2, <1>3, <2>1, PlacedSame
  <2> QED
    BY <1>1, <1>2, <1>3, <1>4, <2>1, <2>3, <2>4, <2>5, Zenon
<1>6. ASSUME q.state = "cleanup"
      PROVE  /\ q.todo # <<>> /\ Tail(q.todo) = Reverse(q.owed)
             /\ q.script \in Big => q.verdict # "passed"
  <2>1. r.state = "cleanup" /\ q.verdict = r.verdict
    BY <1>6 DEF Same
  <2>2. /\ r.todo = Reverse(r.owed)
        /\ r.script \in Big => r.verdict # "passed"
    BY <2>1 DEF Orderly
  <2>3. Tail(r.todo) = Reverse(Pay(r.owed \o Owes(s, TRUE), s))
    BY <1>1, <2>2, CleanupStep, Zenon
  <2> QED
    BY <1>1, <1>3, <2>1, <2>2, <2>3, Zenon DEF Paid
<1>7. Verifies(q) => q.lost \/ Covered(v, q.owed)
  <2> SUFFICES ASSUME Verifies(q), ~q.lost PROVE Covered(v, q.owed)
    BY Zenon
  <2>1. Covered(w, r.owed)
    BY <1>1 DEF Orderly, Same, Verifies
  <2> DEFINE o == r.owed \o Owes(s, TRUE)
  <2>2. o \in Seq(Debt) /\ Covered(v, o)
    BY <1>1, <2>1, CoveredOwing, Zenon
  <2> HIDE DEF o
  <2>3. Covered(v, Pay(o, s))
    BY <1>1, <2>2, CoveredPay
  <2>4. Pay(o, s) = q.owed
    BY Zenon DEF Paid, o
  <2> QED
    BY <2>3, <2>4, Zenon
<1> QED
  BY <1>3, <1>5, <1>6, <1>7, Zenon DEF Stepped

\* The step fails before its effect, or after it.  Of a Pod whose creation
\* was not answered, the command knows nothing.
Silent(w, r, v, x) ==
    \/ v = w
    \/ /\ v = Effect(w, r, Head(r.todo)) /\ Head(r.todo)[1] # "forward"
       /\ Head(r.todo)[1] = "createPod" => x.lost

\* What is there is still owed.
LEMMA CoveredFailing ==
    ASSUME NEW w, NEW r, Safe(w, r), r.state # "idle", Orderly(w, r),
           NEW v, NEW x, Silent(w, r, v, x), r.lost => x.lost,
           Verifies(r)
    PROVE  LET o == r.owed \o Owes(Head(r.todo), FALSE)
           IN o \in Seq(Debt) /\ (x.lost \/ Covered(v, o))
<1> DEFINE s == Head(r.todo)
           o == r.owed \o Owes(s, FALSE)
<1>1. w \in World /\ s \in Step /\ r.owed \in Seq(Debt)
  BY UnderWay
<1>2. o \in Seq(Debt)
  <2>1. Owes(s, FALSE) \in Seq(Debt)
    BY <1>1, OwesOK, Zenon
  <2> QED
    BY <1>1, <2>1, InJoined, Zenon
<1>3. r.lost \/ Covered(w, r.owed)
  BY DEF Orderly
<1>4. CASE r.lost
  BY <1>2, <1>4, Zenon
<1>5. CASE Covered(w, r.owed)
  <2>1. /\ Covered(w, o)
        /\ s[1] \notin {"forward", "createPod"} => Covered(Effect(w, r, s), o)
    BY <1>1, <1>5, CoveredOwing, Zenon
  <2> HIDE DEF o
  <2>2. x.lost \/ Covered(v, o)
    BY <2>1 DEF Silent
  <2> QED
    BY <1>2, <2>2, Zenon DEF o
<1> QED
  BY <1>3, <1>4, <1>5, Zenon

\* The command gives up.
LEMMA GivesUp ==
    ASSUME NEW r, r.state # "idle", NEW v \in World, NEW x, Same(r, x),
           Verifies(r) => x.lost \/ Covered(v, x.owed),
           NEW d \in Verdict \ {"passed"}
    PROVE  Result(v, r, Finally(x, d))
<1>1. x \in Run /\ x.state # "idle"
  BY DEF Same
<1>2. Verifies(x) => x.lost \/ Covered(v, x.owed)
  BY Zenon DEF Same, Verifies
<1>3. Result(v, x, Finally(x, d))
  BY <1>1, <1>2, FinallyResult, Zenon
<1> QED
  BY <1>3, SameResult

\* The failure is collected, raised, or noted as a loss.
LEMMA RaisedResult ==
    ASSUME NEW w, NEW r, Safe(w, r), r.state # "idle", Orderly(w, r),
           NEW v \in World, NEW x, Same(r, x), x.todo = r.todo,
           r.lost => x.lost, Verifies(r) => x.lost \/ Covered(v, x.owed),
           Head(r.todo)[1] # "forward" =>
               /\ Silent(w, r, v, x)
               /\ x.owed = r.owed \o Owes(Head(r.todo), FALSE)
    PROVE  Result(v, r, Raised(x, Head(r.todo)))
<1> DEFINE s == Head(r.todo)
           n == Len(r.todo)
<1>1. /\ w \in World /\ r \in Run /\ s \in Step /\ r.todo # <<>>
      /\ r.todo \in Seq(Step)
      /\ r.image \in Image /\ r.owed \in Seq(Debt) /\ r.service \in Services
      /\ r.state \in {"body", "cleanup"}
      /\ InBody(r) => At(r, n, s) /\ n \in Nat \ {0}
  BY UnderWay
<1>2. x \in Run /\ x.state = r.state /\ x.lost \in BOOLEAN
  BY DEF Same, Run
<1>3. CASE r.state = "cleanup"
  <2> DEFINE d == IF s[1] = "deletePod" THEN x.verdict ELSE "failed"
             y == [x EXCEPT !.lost = TRUE, !.verdict = d]
             z == Settled(y, s)
  <2>1. Raised(x, s) = Advanced(z)
    BY <1>2, <1>3 DEF Raised
  <2>0. d \in Verdict /\ (d = x.verdict \/ d = "failed")
    BY <1>2 DEF Run, Verdict
  <2> HIDE DEF d
  <2>2. y \in Run
    BY <1>2, <2>0, Zenon DEF Run, Verdict
  <2>3. /\ y.state = x.state /\ y.script = x.script
        /\ y.service = x.service /\ y.mode = x.mode /\ y.image = x.image
        /\ y.operations = x.operations /\ y.disturbed = x.disturbed
        /\ y.verdict = d /\ y.todo = x.todo /\ y.owed = x.owed
        /\ y.lost = TRUE
    BY <1>2, Zenon DEF Run
  <2> HIDE DEF y
  <2>4. /\ y.operations = r.operations /\ y.script = r.script
    BY <2>3 DEF Same
  <2>5. /\ Same(y, z) /\ z.todo = y.todo /\ z.owed = Pay(y.owed, s)
        /\ z.lost = y.lost
    BY <2>2, SettledIs
  <2> HIDE DEF z
  <2>7. /\ r.todo = Reverse(r.owed)
        /\ r.script \in Big => r.verdict # "passed"
    BY <1>3 DEF Orderly
  <2>8. Tail(r.todo) = Reverse(Pay(r.owed \o Owes(s, FALSE), s))
    BY <1>1, <2>7, CleanupStep, Zenon
  <2>13. s[1] # "forward"
    <3>1. s \in Debt
      BY <1>1, <2>7, CleanupStep, Zenon
    <3> HIDE DEF s
    <3> QED
      BY <3>1, TheDebts
  <2>9. Tail(z.todo) = Reverse(z.owed) /\ z.todo # <<>>
    BY <1>1, <2>3, <2>5, <2>8, <2>13, Zenon
  <2>10. /\ z \in Run /\ z.state = "cleanup" /\ ~InBody(z) /\ z.lost = TRUE
         /\ z.script \in Big => z.verdict # "passed"
    <3>1. x.verdict = r.verdict
      BY DEF Same
    <3> QED
      BY <1>2, <1>3, <2>0, <2>3, <2>4, <2>5, <2>7, <3>1 DEF Same, InBody
  <2>11. Stepped(v, z)
    BY <2>9, <2>10 DEF Stepped
  <2>12. Result(v, z, Advanced(z))
    BY <2>11, AdvancedResult
  <2>14. /\ z.operations = r.operations /\ z.script = r.script
         /\ z.disturbed = r.disturbed /\ z.service = r.service
         /\ z.mode = r.mode /\ z.image = r.image
    BY <2>3, <2>4, <2>5 DEF Same
  <2> QED
    BY <2>1, <2>12, <2>14, AlikeResult
<1>4. CASE r.state = "body" /\ s[1] \in Collected
  <2> DEFINE k == Skipped(s)
             t == SubSeq(x.todo, 1 + k, Len(x.todo))
             l == x.lost \/ s[1] \in {"deletePod", "deleteNamespace"}
             y == [x EXCEPT !.failed = TRUE, !.lost = l, !.todo = t]
             z == Settled(y, s)
  <2>1. Raised(x, s) = Advanced(z)
    BY <1>2, <1>4 DEF Raised, Collected
  <2>2. k \in Nat
    BY SkippedIs
  <2> HIDE DEF k
  <2>3. t \in Seq(Step)
    <3>1. x.todo \in Seq(Step) /\ Len(x.todo) \in Nat
      BY <1>1, LenProperties
    <3>2. CASE 1 + k > Len(x.todo)
      BY <2>2, <3>1, <3>2, SubSeqEmpty
    <3>3. CASE 1 + k <= Len(x.todo)
      BY <2>2, <3>1, <3>3, SubSeqProperties
    <3> QED
      BY <2>2, <3>1, <3>2, <3>3
  <2>4. l \in BOOLEAN /\ (x.lost => l)
        /\ (s[1] \in {"deletePod", "deleteNamespace"} => l)
    BY <1>2
  <2> HIDE DEF l
  <2>5. t = SubSeq(r.todo, 1 + k, Len(r.todo))
    OBVIOUS
  <2> HIDE DEF t
  <2>6. y \in Run
    BY <1>2, <2>3, <2>4, Collecting, Zenon
  <2>7. /\ y.state = x.state /\ y.script = x.script
        /\ y.service = x.service /\ y.mode = x.mode /\ y.image = x.image
        /\ y.operations = x.operations /\ y.disturbed = x.disturbed
        /\ y.verdict = x.verdict /\ y.owed = x.owed
    BY <1>2, Zenon DEF Run
  <2>8. y.todo = t /\ y.failed = TRUE /\ y.lost = l
    BY <1>2 DEF Run
  <2> HIDE DEF y
  <2>9. Same(r, y)
    BY <2>6, <2>7 DEF Same
  <2>10. /\ Same(y, z) /\ z.todo = y.todo /\ z.owed = Pay(y.owed, s)
         /\ z.failed = y.failed /\ z.lost = y.lost
    BY <2>6, SettledIs
  <2> HIDE DEF z
  <2>11. Same(r, z)
    BY <2>9, <2>10, SameTransitive
  <2>12. /\ z \in Run /\ z.state = "body" /\ z.failed = TRUE /\ z.lost = l
         /\ z.todo = t /\ z.script = r.script /\ z.service = r.service
         /\ z.operations = r.operations
    BY <1>4, <2>8, <2>10, <2>11 DEF Same
  <2>0. s[1] # "forward"
    BY <1>4 DEF Collected
  <2>13. z.owed = Paid(r.owed, s, FALSE)
    BY <2>0, <2>7, <2>10, Zenon DEF Paid
  <2>14. ASSUME InBody(z)
         PROVE  /\ z.todo # <<>> /\ Placed(z)
                /\ z.owed = Debts(z, Len(z.todo) - 1)
    <3>1. InBody(r) /\ r.script \in Big
      BY <1>4, <2>12, <2>14 DEF InBody
    <3>2. /\ At(r, n, s) /\ n \in Nat \ {0} /\ Placed(r)
          /\ r.owed = Debts(r, n)
      BY <1>1, <3>1 DEF Orderly
    <3>3. /\ n - 1 - k \in Nat \ {0}
          /\ Paid(r.owed, s, FALSE) = Debts(r, n - 1 - k)
      <4>1. /\ n - 1 - Skipped(s) \in Nat \ {0}
            /\ Paid(Debts(r, n), s, FALSE) = Debts(r, n - 1 - Skipped(s))
        <5> HIDE DEF n, s
        <5> QED
          BY <1>1, <1>4, <3>1, <3>2, DebtsStep, Zenon
      <4> QED
        BY <3>2, <4>1, Zenon DEF k
    <3> HIDE DEF n
    <3>4. k \in 0 .. n
      BY <2>2, <3>2, <3>3
    <3>5. Placed(z) /\ Len(z.todo) = n - k
      BY <1>1, <2>5, <2>12, <3>2, <3>4, PlacedLater DEF n
    <3>6. Len(z.todo) - 1 = n - 1 - k /\ Len(z.todo) # 0
      BY <2>2, <3>2, <3>3, <3>5
    <3>7. z.todo # <<>>
      BY <3>6, EmptySeq
    <3>8. \A m : Debts(z, m) = Debts(r, m)
      BY <2>11, SameDone DEF Same
    <3> QED
      BY <2>13, <3>3, <3>5, <3>6, <3>7, <3>8, Zenon
  <2>15. Verifies(z) => z.lost \/ Covered(v, z.owed)
    <3> SUFFICES ASSUME Verifies(z), ~l PROVE Covered(v, z.owed)
      BY <2>12
    <3>1. Verifies(r)
      BY <2>12 DEF Verifies
    <3> DEFINE o == r.owed \o Owes(s, FALSE)
    <3>2. o \in Seq(Debt) /\ Covered(v, o)
      BY <2>0, <2>4, <3>1, CoveredFailing, Zenon
    <3> HIDE DEF o
    <3>3. s \notin Debt
      BY <1>4, <2>4, TheDebts DEF Collected
    <3>4. Pay(o, s) = o
      BY <3>2, <3>3, InPay
    <3>5. z.owed = o
      BY <2>13, <3>4, Zenon DEF Paid, o
    <3> QED
      BY <3>2, <3>5
  <2>16. Stepped(v, z)
    BY <2>12, <2>14, <2>15 DEF Stepped
  <2>17. Result(v, z, Advanced(z))
    BY <2>16, AdvancedResult
  <2> QED
    BY <2>1, <2>11, <2>17, SameResult
<1>6. CASE r.state = "body" /\ s[1] = "endForwards"
  <2> DEFINE y == [x EXCEPT !.lost = TRUE]
             z == Settled(y, s)
  <2>1. Raised(x, s) = Finally(z, "failed")
    BY <1>2, <1>6 DEF Raised, Collected
  <2>2. y \in Run
    BY <1>2, Zenon DEF Run
  <2>3. /\ y.state = x.state /\ y.script = x.script
        /\ y.service = x.service /\ y.mode = x.mode /\ y.image = x.image
        /\ y.operations = x.operations /\ y.disturbed = x.disturbed
        /\ y.verdict = x.verdict /\ y.lost = TRUE
    BY <1>2, Zenon DEF Run
  <2> HIDE DEF y
  <2>4. Same(r, y)
    BY <2>2, <2>3 DEF Same
  <2>5. Same(y, z) /\ z.lost = TRUE
    BY <2>2, <2>3, SettledIs
  <2> HIDE DEF z
  <2>6. Same(r, z)
    BY <2>4, <2>5, SameTransitive
  <2>7. "failed" \in Verdict \ {"passed"}
    BY DEF Verdict
  <2>8. Result(v, r, Finally(z, "failed"))
    BY <2>5, <2>6, <2>7, GivesUp, Zenon
  <2> QED
    BY <2>1, <2>8
<1>5. CASE r.state = "body" /\ s[1] \notin Collected /\ s[1] # "endForwards"
  <2>1. Raised(x, s) = Finally(x, "failed")
    BY <1>2, <1>5 DEF Raised
  <2>2. "failed" \in Verdict \ {"passed"}
    BY DEF Verdict
  <2>3. Result(v, r, Finally(x, "failed"))
    BY <2>2, GivesUp, Zenon
  <2> QED
    BY <2>1, <2>3
<1> QED
  BY <1>1, <1>3, <1>4, <1>5, <1>6

-----------------------------------------------------------------------------
(* Every step keeps to it, and a command that ends says what is so.        *)


\* Of the command's step, what follows.
Follow(w, r, p) ==
    /\ Orderly(w, p)
    /\ r.state # "idle" /\ p.state = "idle" => Closing(w, r, p)

LEMMA ResultFollows ==
    ASSUME NEW w, NEW r, NEW v, NEW p, Safe(w, r), r.state # "idle",
           Orderly(w, r), Told(v), Result(v, r, p)
    PROVE  Follow(v, r, p)
<1>1. r.operations # 0
  BY UnderWay
<1> QED
  BY <1>1 DEF Follow, Orderly, Result

LEMMA ToldMoves ==
    ASSUME NEW w, NEW r, Safe(w, r), r.state # "idle", Orderly(w, r), NEW v,
           v = w \/ v = Effect(w, r, Head(r.todo))
    PROVE  Told(v)
<1>1. /\ w \in World /\ Seen(w) /\ Told(w) /\ r.image \in Image
      /\ Head(r.todo) \in Step
  BY UnderWay
<1>2. Told(Effect(w, r, Head(r.todo)))
  BY <1>1, ToldEffect
<1> QED
  BY <1>1, <1>2

LEMMA PerformFollows ==
    ASSUME Safe(world, run), Orderly(world, run), Perform
    PROVE  Follow(world', run, run')
<1> DEFINE s == Head(run.todo)
           a == Learns(run, s)
           b == Owing(a, s, TRUE)
           q == Settled(b, s)
<1>1. /\ run.state # "idle" /\ Holds(world, run, s)
      /\ world' = Effect(world, run, s) /\ run' = Advanced(q)
  BY DEF Perform, Running
<1>2. world \in World /\ run \in Run /\ s \in Step
  BY <1>1, UnderWay
<1>3. /\ Same(run, a) /\ a.todo = run.todo /\ a.owed = run.owed
      /\ a.failed = run.failed /\ a.lost = run.lost
  BY <1>2, LearnsIs
<1> HIDE DEF a
<1>4. a \in Run
  BY <1>3 DEF Same
<1>5. /\ Same(a, b) /\ b.todo = a.todo /\ b.owed = a.owed \o Owes(s, TRUE)
      /\ b.failed = a.failed /\ b.lost = a.lost
  BY <1>2, <1>4, OwingIs, Zenon
<1> HIDE DEF b
<1>6. b \in Run
  BY <1>5 DEF Same
<1>7. /\ Same(b, q) /\ q.todo = b.todo /\ q.owed = Pay(b.owed, s)
      /\ q.failed = b.failed /\ q.lost = b.lost
  BY <1>6, SettledIs
<1> HIDE DEF q
<1>8. Same(run, q)
  BY <1>3, <1>5, <1>7, SameTransitive
<1>9. q.owed = Paid(run.owed, s, TRUE)
  BY <1>3, <1>5, <1>7, Zenon DEF Paid
<1>10. Stepped(world', q)
  BY <1>1, <1>3, <1>5, <1>7, <1>8, <1>9, PerformStepped, Zenon
<1>11. world' \in World
  BY PerformSafe DEF Safe
<1>12. Result(world', q, run')
  BY <1>1, <1>10, <1>11, AdvancedResult
<1>13. Result(world', run, run')
  BY <1>8, <1>12, SameResult
<1>14. Told(world')
  BY <1>1, ToldMoves
<1> QED
  BY <1>1, <1>13, <1>14, ResultFollows

\* What is known of a command x after a step that had no answer.
WithoutAnswer(w, r, v, x) ==
    /\ Same(r, x) /\ x.todo = r.todo /\ (r.lost => x.lost)
    /\ Verifies(r) => x.lost \/ Covered(v, x.owed)
    /\ Head(r.todo)[1] # "forward" =>
           /\ Silent(w, r, v, x)
           /\ x.owed = r.owed \o Owes(Head(r.todo), FALSE)

\* Of a step without answer, what may be there is owed or was lost.
LEMMA SilentIs ==
    ASSUME NEW w, NEW r, Safe(w, r), r.state # "idle", Orderly(w, r),
           NEW done \in BOOLEAN, NEW listed, NEW n \in Nat, NEW x, NEW v,
           x = Unanswered([r EXCEPT !.faults = n], Head(r.todo), done, listed),
           v = IF done THEN Effect(w, r, Head(r.todo)) ELSE w
    PROVE  WithoutAnswer(w, r, v, x)
<1> DEFINE s == Head(r.todo)
           q == [r EXCEPT !.faults = n]
           a == done /\ s[1] = "forward"
           o == r.owed \o Owes(s, a)
<1>1. /\ w \in World /\ r \in Run /\ s \in Step /\ r.owed \in Seq(Debt)
  BY UnderWay
<1>2. q \in Run
  BY <1>1, Zenon DEF Run
<1>3. /\ q.state = r.state /\ q.script = r.script
      /\ q.service = r.service /\ q.mode = r.mode /\ q.image = r.image
      /\ q.operations = r.operations /\ q.disturbed = r.disturbed
      /\ q.verdict = r.verdict /\ q.owed = r.owed /\ q.lost = r.lost
      /\ q.todo = r.todo
  BY <1>1 DEF Run
<1> HIDE DEF q
<1>4. Same(r, q)
  BY <1>2, <1>3 DEF Same
<1>5. CASE done /\ (s[1] = "createPod" \/ (s[1] = "forward" /\ ~listed))
  <2>1. x = [q EXCEPT !.lost = TRUE]
    BY <1>5 DEF Unanswered, q
  <2>2. x \in Run
    BY <1>2, <2>1, Zenon DEF Run
  <2>3. /\ x.state = q.state /\ x.script = q.script
        /\ x.service = q.service /\ x.mode = q.mode /\ x.image = q.image
        /\ x.operations = q.operations /\ x.disturbed = q.disturbed
        /\ x.verdict = q.verdict /\ x.owed = q.owed /\ x.lost = TRUE
        /\ x.todo = q.todo
    BY <1>2, <2>1 DEF Run
  <2>4. Same(r, x)
    BY <1>3, <2>2, <2>3 DEF Same
  <2>5. ASSUME s[1] # "forward"
        PROVE  Silent(w, r, v, x) /\ x.owed = r.owed \o Owes(s, FALSE)
    <3>1. Owes(s, FALSE) = <<>>
      BY <1>5, <2>5, OwesIs
    <3>2. r.owed \o <<>> = r.owed
      BY <1>1, ConcatEmptySeq
    <3>3. Silent(w, r, v, x)
      BY <1>5, <2>3, <2>5 DEF Silent
    <3> QED
      BY <1>3, <2>3, <3>1, <3>2, <3>3, Zenon
  <2> QED
    BY <1>3, <2>3, <2>4, <2>5 DEF WithoutAnswer
<1>6. CASE ~(done /\ (s[1] = "createPod" \/ (s[1] = "forward" /\ ~listed)))
  <2>1. x = Owing(q, s, a)
    BY <1>6, Zenon DEF Unanswered, q
  <2>2. /\ Same(q, x) /\ x.todo = q.todo
        /\ x.owed = q.owed \o Owes(s, a) /\ x.lost = q.lost
    <3> HIDE DEF a, o, s
    <3> DEFINE y == Owing(q, s, a)
    <3>1. /\ Same(q, y) /\ y.todo = q.todo
          /\ y.owed = q.owed \o Owes(s, a) /\ y.lost = q.lost
      BY <1>1, <1>2, OwingIs, Zenon
    <3> HIDE DEF y
    <3> QED
      BY <2>1, <3>1, Zenon DEF y
  <2>3. /\ Same(r, x) /\ x.todo = r.todo /\ x.owed = o
        /\ x.lost = r.lost
    BY <1>3, <1>4, <2>2, SameTransitive, Zenon
  <2>4. ASSUME s[1] # "forward"
        PROVE  Silent(w, r, v, x) /\ x.owed = r.owed \o Owes(s, FALSE)
    <3>1. a = FALSE
      BY <2>4
    <3>2. Silent(w, r, v, x)
      BY <1>6, <2>4 DEF Silent
    <3> HIDE DEF a
    <3> QED
      BY <2>3, <3>1, <3>2, Zenon DEF o
  <2>5. ASSUME Verifies(r), ~r.lost PROVE Covered(v, x.owed)
    <3>1. Covered(w, r.owed)
      BY <2>5 DEF Orderly
    <3>2. /\ Covered(w, o)
          /\ a = TRUE \/ s[1] \notin {"forward", "createPod"} =>
                 Covered(Effect(w, r, s), o)
      <4> HIDE DEF a
      <4> QED
        BY <1>1, <3>1, CoveredOwing, Zenon DEF o
    <3>3. v = w \/ (v = Effect(w, r, s)
                     /\ (a = TRUE \/ s[1] \notin {"forward", "createPod"}))
      BY <1>6
    <3> HIDE DEF o, a
    <3> QED
      BY <2>3, <3>2, <3>3, Zenon
  <2> QED
    BY <2>3, <2>4, <2>5 DEF WithoutAnswer
<1> QED
  BY <1>5, <1>6

LEMMA RefuseFollows ==
    ASSUME Safe(world, run), Orderly(world, run), Refuse
    PROVE  Follow(world', run, run')
<1> DEFINE s == Head(run.todo)
           x == Owing(run, s, FALSE)
<1>1. run.state # "idle" /\ world' = world /\ run' = Raised(x, s)
  BY DEF Refuse, Running
<1>2. /\ world' \in World /\ run \in Run /\ s \in Step
      /\ run.owed \in Seq(Debt)
  BY <1>1, UnderWay
<1>3. /\ Same(run, x) /\ x.todo = run.todo
      /\ x.owed = run.owed \o Owes(s, FALSE) /\ x.lost = run.lost
  BY <1>2, OwingIs, Zenon
<1> HIDE DEF x
<1>4. Silent(world, run, world', x)
  BY <1>1 DEF Silent
<1>5. Verifies(run) => x.lost \/ Covered(world', x.owed)
  BY <1>1, <1>3, <1>4, CoveredFailing, Zenon
<1>6. Result(world', run, run')
  BY <1>1, <1>2, <1>3, <1>4, <1>5, RaisedResult, Zenon
<1>7. Told(world')
  BY <1>1, ToldMoves
<1> QED
  BY <1>1, <1>6, <1>7, ResultFollows

LEMMA FailFollows ==
    ASSUME Safe(world, run), Orderly(world, run), Fail
    PROVE  Follow(world', run, run')
<1> DEFINE s == Head(run.todo)
           n == run.faults + 1
           listed == run.service = "product"
<1>1. run.state # "idle"
  BY DEF Fail, Running
<1>2. PICK done \in BOOLEAN :
        /\ world' = IF done THEN Effect(world, run, s) ELSE world
        /\ run' = Raised(Unanswered([run EXCEPT !.faults = n], s, done,
                                    listed), s)
  BY Zenon DEF Fail
<1>3. n \in Nat
  <2>1. run \in Run
    BY <1>1, UnderWay
  <2> QED
    BY <2>1 DEF Run
<1> HIDE DEF n, listed
<1> DEFINE x == Unanswered([run EXCEPT !.faults = n], s, done, listed)
<1>4. x = Unanswered([run EXCEPT !.faults = n], s, done, listed)
      /\ run' = Raised(x, s)
  BY <1>2
<1> HIDE DEF x
<1>5. /\ Same(run, x) /\ x.todo = run.todo /\ (run.lost => x.lost)
      /\ Verifies(run) => x.lost \/ Covered(world', x.owed)
      /\ s[1] # "forward" =>
             /\ Silent(world, run, world', x)
             /\ x.owed = run.owed \o Owes(s, FALSE)
  <2>1. WithoutAnswer(world, run, world', x)
    BY <1>1, <1>2, <1>3, <1>4, SilentIs
  <2> QED
    BY <2>1 DEF WithoutAnswer
<1>6. world' \in World
  BY FailSafe DEF Safe
<1>7. Result(world', run, run')
  BY <1>1, <1>4, <1>5, <1>6, RaisedResult, Zenon
<1>8. Told(world')
  BY <1>1, <1>2, ToldMoves
<1> QED
  BY <1>1, <1>7, <1>8, ResultFollows

\* A removal that is interrupted is not begun again.
LEMMA CleaningCovered ==
    ASSUME NEW w, NEW r, Safe(w, r), r.state # "idle", Orderly(w, r),
           NEW v, v = Effect(w, r, Head(r.todo)), Cleaning(r, Head(r.todo)),
           Verifies(r), ~r.lost
    PROVE  Covered(v, Pay(r.owed, Head(r.todo)))
<1> DEFINE s == Head(r.todo)
<1>1. /\ w \in World /\ s \in Step /\ r.owed \in Seq(Debt)
      /\ Covered(w, r.owed)
  BY UnderWay DEF Orderly
<1>2. s \in Debt
  <2>1. r.owed # <<>> /\ s = r.owed[Len(r.owed)]
    BY DEF Cleaning, Last
  <2>2. Len(r.owed) \in 1 .. Len(r.owed)
    BY <1>1, <2>1, EmptySeq, LenProperties
  <2> HIDE DEF s
  <2> QED
    BY <1>1, <2>1, <2>2, ElementOfSeq
<1>3. Owes(s, FALSE) = <<>> /\ s[1] \notin {"forward", "createPod"}
  <2> HIDE DEF s
  <2>1. s[1] \notin {"forward", "createNamespace", "createPod"}
    BY <1>2, TheDebts
  <2> QED
    BY <2>1, OwesIs
<1>4. r.owed \o <<>> = r.owed
  BY <1>1, ConcatEmptySeq
<1>5. Covered(v, r.owed)
  BY <1>1, <1>3, <1>4, CoveredOwing, Zenon
<1> QED
  BY <1>1, <1>5, CoveredPay, Zenon

LEMMA InterruptFollows ==
    ASSUME Safe(world, run), Orderly(world, run), Interrupt
    PROVE  Follow(world', run, run')
<1> DEFINE s == Head(run.todo)
           n == run.faults + 1
           r == [run EXCEPT !.faults = n]
<1>1. run.state # "idle"
  BY DEF Interrupt, Running
<1>2. PICK done \in BOOLEAN, listed \in {FALSE, run.service = "product"} :
        /\ world' = IF done THEN Effect(world, run, s) ELSE world
        /\ run' = Finally(IF Cleaning(run, s)
                          THEN Settled([r EXCEPT !.lost = @ \/ ~done], s)
                          ELSE Unanswered(r, s, done, listed),
                          "interrupted")
  BY Zenon DEF Interrupt
<1>3. run \in Run /\ s \in Step
  BY <1>1, UnderWay
<1>4. n \in Nat
  BY <1>3 DEF Run
<1> HIDE DEF n
<1>5. /\ "interrupted" \in Verdict \ {"passed"} /\ world' \in World
  BY InterruptSafe DEF Verdict, Safe
<1>6. Told(world')
  BY <1>1, <1>2, ToldMoves
<1>7. CASE ~Cleaning(run, s)
  <2> DEFINE x == Unanswered(r, s, done, listed)
  <2>1. x = Unanswered([run EXCEPT !.faults = n], s, done, listed)
        /\ run' = Finally(x, "interrupted")
    BY <1>2, <1>7
  <2> HIDE DEF x
  <2>2. /\ Same(run, x)
        /\ Verifies(run) => x.lost \/ Covered(world', x.owed)
    <3>1. WithoutAnswer(world, run, world', x)
      BY <1>1, <1>2, <1>4, <2>1, SilentIs
    <3> QED
      BY <3>1 DEF WithoutAnswer
  <2>3. Result(world', run, run')
    BY <1>1, <1>5, <2>1, <2>2, GivesUp, Zenon
  <2> QED
    BY <1>1, <1>6, <2>3, ResultFollows
<1>8. CASE Cleaning(run, s)
  <2> DEFINE l == r.lost \/ ~done
             q == [r EXCEPT !.lost = l]
             x == Settled(q, s)
  <2>1. run' = Finally(x, "interrupted")
    BY <1>2, <1>8
  <2>2. r \in Run
    BY <1>3, <1>4, Zenon DEF Run
  <2>3. /\ r.state = run.state /\ r.script = run.script
        /\ r.service = run.service /\ r.mode = run.mode
        /\ r.image = run.image /\ r.operations = run.operations
        /\ r.disturbed = run.disturbed /\ r.verdict = run.verdict
        /\ r.owed = run.owed /\ r.lost = run.lost
    BY <1>3 DEF Run
  <2> HIDE DEF r
  <2>4. l \in BOOLEAN /\ (~done => l) /\ (run.lost => l)
    BY <2>2, <2>3 DEF Run
  <2> HIDE DEF l
  <2>5. q \in Run
    BY <2>2, <2>4, Zenon DEF Run
  <2>6. /\ q.state = r.state /\ q.script = r.script
        /\ q.service = r.service /\ q.mode = r.mode /\ q.image = r.image
        /\ q.operations = r.operations /\ q.disturbed = r.disturbed
        /\ q.verdict = r.verdict /\ q.owed = r.owed /\ q.lost = l
    BY <2>2 DEF Run
  <2> HIDE DEF q
  <2>7. Same(run, q)
    BY <2>3, <2>5, <2>6 DEF Same
  <2>8. Same(q, x) /\ x.owed = Pay(q.owed, s) /\ x.lost = q.lost
    BY <2>5, SettledIs
  <2> HIDE DEF x
  <2>9. Same(run, x) /\ x.lost = l /\ x.owed = Pay(run.owed, s)
    BY <2>3, <2>6, <2>7, <2>8, SameTransitive, Zenon
  <2>10. ASSUME Verifies(run), ~l PROVE Covered(world', x.owed)
    <3>1. world' = Effect(world, run, s) /\ ~run.lost
      BY <1>2, <2>4, <2>10
    <3>2. Covered(world', Pay(run.owed, s))
      BY <1>1, <1>8, <2>10, <3>1, CleaningCovered, Zenon
    <3> QED
      BY <2>9, <3>2, Zenon
  <2>11. Verifies(run) => x.lost \/ Covered(world', x.owed)
    BY <2>9, <2>10, Zenon
  <2>12. Result(world', run, run')
    BY <1>1, <1>5, <2>1, <2>9, <2>11, GivesUp, Zenon
  <2> QED
    BY <1>1, <1>6, <2>12, ResultFollows
<1> QED
  BY <1>7, <1>8

LEMMA KillFollows ==
    ASSUME Safe(world, run), Orderly(world, run), Kill
    PROVE  Follow(world', run, run')
<1> DEFINE p == Ends(run, "killed")
           n == p.faults + 1
           q == [p EXCEPT !.faults = n]
<1>1. run.state # "idle" /\ world' = world /\ run' = q
  BY DEF Kill, Running
<1>2. run \in Run /\ run.operations # 0 /\ Told(world)
  BY <1>1, UnderWay
<1>3. "killed" \in Verdict
  BY DEF Verdict
<1>4. /\ p \in Run /\ p.state = "idle" /\ p.verdict = "killed"
      /\ p.operations = run.operations
  BY <1>2, <1>3, EndsOK, EndsIs
<1> HIDE DEF p
<1>5. q.state = "idle" /\ q.verdict = "killed" /\ q.operations = run.operations
  BY <1>4 DEF Run
<1> HIDE DEF q
<1>6. Orderly(world', run') /\ Closing(world', run, run')
  BY <1>1, <1>2, <1>5 DEF Orderly, InBody, Closing
<1> QED
  BY <1>6 DEF Follow

LEMMA BeginFollows ==
    ASSUME Safe(world, run), Orderly(world, run), Begin
    PROVE  Follow(world', run, run')
<1> DEFINE v == [world EXCEPT !.forwards = FALSE]
           k == Kept(run)
<1>1. PICK script \in Operations(run.mode),
           image \in IF run.mode = "direct" THEN Image ELSE {world.main.api[1]},
           previous \in IF run.mode = "direct" THEN {None} \cup Image
                        ELSE {None} :
          LET r == [Kept(run) EXCEPT !.state = "body", !.script = script,
                       !.image = image, !.previous = previous,
                       !.attempt = world.attempt,
                       !.release = world.main.api]
          IN run' = [r EXCEPT !.todo = Script(r), !.operations = @ + 1]
  BY Zenon DEF Begin
<1>2. world' = v /\ run.state = "idle"
  BY DEF Begin, Running, Safe, Run
<1> DEFINE r == [k EXCEPT !.state = "body", !.script = script,
                          !.image = image, !.previous = previous,
                          !.attempt = world.attempt,
                          !.release = world.main.api]
           t == Script(r)
           n == r.operations + 1
           q == [r EXCEPT !.todo = t, !.operations = n]
<1>3. run' = q
  BY <1>1
<1>4. world \in World /\ run.operations \in Nat /\ run.service \in Services
  BY DEF Safe, Run
<1>5. /\ k.state = "idle" /\ k.service = run.service
      /\ k.operations = run.operations /\ k.owed = <<>> /\ k.lost = FALSE
      /\ k.failed = FALSE
      /\ DOMAIN k = {"state", "script", "image", "previous", "attempt",
                     "release", "version", "todo", "owed", "failed", "lost",
                     "disturbed", "verdict", "service", "mode", "operations",
                     "faults"}
  BY DEF Kept, Idle
<1> HIDE DEF k
<1>6. /\ r.state = "body" /\ r.service = run.service
      /\ r.operations = run.operations /\ r.owed = <<>> /\ r.lost = FALSE
      /\ r.failed = FALSE /\ DOMAIN r = DOMAIN k
  BY <1>5
<1> HIDE DEF r
<1>7. n \in Nat /\ n # 0 /\ (n <= 1 => run.operations = 0)
  BY <1>4, <1>6
<1> HIDE DEF t, n
<1>8. /\ q.state = "body" /\ q.service = run.service /\ q.operations = n
      /\ q.owed = <<>> /\ q.lost = FALSE /\ q.failed = FALSE
      /\ q.todo = t /\ q.script = r.script
  BY <1>5, <1>6
<1> HIDE DEF q
<1>9. /\ v.dep = world.dep /\ v.pod = world.pod /\ v.status = world.status
      /\ v.probes = world.probes /\ v.forwards = FALSE
  BY <1>4 DEF World
<1> HIDE DEF v
<1>10. Told(v)
  BY <1>9, DoneUntouched DEF Orderly, Untouched
<1>11. ASSUME q.script \in Big
       PROVE  /\ Placed(q) /\ q.owed = Debts(q, Len(q.todo))
              /\ Done(v, q, Len(q.todo))
  <2>1. ScriptIs(r, t) /\ t \in Seq(Step) /\ Len(t) \in Nat
    BY <1>4, <1>6, <1>8, <1>11, ScriptShape, LenProperties DEF t
  <2>2. ScriptIs(q, t)
    BY <1>6, <1>8, <2>1 DEF ScriptIs
  <2>3. Placed(q)
    BY <1>8, <2>1, <2>2 DEF Placed, Ending
  <2>4. /\ q.script = "deploy" => Len(t) >= 4
        /\ q.script = "verify" /\ q.service = "product" => Len(t) >= 9
        /\ q.script = "verify" /\ q.service = "policy-search" => Len(t) >= 7
        /\ q.script = "verify" /\ q.service = "dashboard" => Len(t) >= 17
        /\ q.script = "stop" /\ q.service = "product" => Len(t) >= 5
        /\ q.script = "stop" /\ q.service # "product" => Len(t) >= 3
    BY <2>2 DEF ScriptIs, DeployIs, ForwardIs, DashboardIs, ProductStopIs,
                StopIs
  <2>5. Debts(q, Len(t)) = <<>>
    <3> DEFINE m == Len(t)
    <3>1. m \in Nat
      BY <2>1
    <3>2. CASE q.script # "verify"
      BY <3>2 DEF Debts
    <3>3. CASE q.script = "verify" /\ q.service = "dashboard"
      <4>1. m >= 17
        BY <2>4, <3>3
      <4> HIDE DEF m
      <4>2. m \notin {12, 13, 14} /\ m \notin {3, 6, 9} /\ m \notin {7, 8}
            /\ m \notin {4, 5}
        BY <3>1, <4>1
      <4>3. Debts(q, m) = <<>>
        BY <3>3, <4>2 DEF Debts
      <4> QED
        BY <4>3 DEF m
    <3>4. CASE q.script = "verify" /\ q.service # "dashboard"
      <4>1. m >= 7
        <5>1. m >= 7 \/ m >= 9
          BY <1>4, <1>8, <2>4, <3>4 DEF Services
        <5> HIDE DEF m
        <5> QED
          BY <3>1, <5>1
      <4> HIDE DEF m
      <4>2. m \notin {3, 4}
        BY <3>1, <4>1
      <4>3. Debts(q, m) = <<>>
        BY <3>4, <4>2 DEF Debts
      <4> QED
        BY <4>3 DEF m
    <3> QED
      BY <3>2, <3>3, <3>4
  <2>6. Done(v, q, Len(t))
    BY <1>4, <1>8, <2>1, <2>4 DEF Done, Services
  <2> QED
    BY <1>8, <2>3, <2>5, <2>6
<1>12. Verifies(q) => Covered(v, q.owed)
  <2> SUFFICES ASSUME n <= 1 PROVE Covered(v, q.owed)
    BY <1>8 DEF Verifies
  <2>1. v.probes = {}
    BY <1>7, <1>9 DEF Orderly
  <2> QED
    BY <1>9, <2>1 DEF Covered
<1>13. Orderly(v, q)
  BY <1>7, <1>8, <1>10, <1>11, <1>12 DEF Orderly, InBody
<1> QED
  BY <1>2, <1>3, <1>13 DEF Follow

-----------------------------------------------------------------------------
(* Releases, Flux and the controllers, meanwhile.                          *)

\* The command stays where it is.
Resting(r, q) ==
    /\ q.state = r.state /\ q.script = r.script /\ q.service = r.service
    /\ q.mode = r.mode /\ q.image = r.image /\ q.todo = r.todo
    /\ q.owed = r.owed /\ q.failed = r.failed /\ q.lost = r.lost
    /\ q.verdict = r.verdict /\ q.operations = r.operations

LEMMA RestingFollows ==
    ASSUME NEW w, NEW v, NEW r, NEW q, Orderly(w, r), Told(v), Resting(r, q),
           v.probes = w.probes, v.forwards = w.forwards,
           InBody(r) /\ ~q.disturbed =>
               /\ ~r.disturbed
               /\ Done(w, r, Len(r.todo)) => Done(v, r, Len(r.todo))
    PROVE  Follow(v, r, q)
<1>1. InBody(q) <=> InBody(r)
  BY DEF InBody, Resting
<1>2. InBody(q) => Placed(q)
  BY <1>1, PlacedSame DEF Orderly, Resting
<1>3. /\ \A n : Debts(q, n) = Debts(r, n)
      /\ \A n : Done(v, r, n) => Done(v, q, n)
  BY SameDone DEF Resting
<1>4. InBody(q) => /\ q.owed = Debts(q, Len(q.todo))
                   /\ q.lost => q.failed
                   /\ ~q.failed /\ ~q.disturbed => Done(v, q, Len(q.todo))
  BY <1>1, <1>3 DEF Orderly, Resting
<1>5. q.operations = 0 => v.probes = {} /\ q.state = "idle"
  BY DEF Orderly, Resting
<1>6. q.state = "cleanup" => /\ q.todo = Reverse(q.owed)
                             /\ q.script \in Big => q.verdict # "passed"
  BY DEF Orderly, Resting
<1>7. \A o : Covered(w, o) => Covered(v, o)
  BY DEF Covered
<1>8. q.state # "idle" /\ Verifies(q) => q.lost \/ Covered(v, q.owed)
  BY <1>7 DEF Orderly, Resting, Verifies
<1>9. Orderly(v, q)
  BY <1>2, <1>4, <1>5, <1>6, <1>8 DEF Orderly
<1> QED
  BY <1>9 DEF Follow, Resting

\* The Deployment, its Pods, the forwards and the probes are as they were.
LEMMA UntouchedFollows ==
    ASSUME NEW w, NEW v, NEW r, NEW q, Orderly(w, r), Untouched(w, v),
           v.probes = w.probes, v.forwards = w.forwards, Resting(r, q),
           q.disturbed = r.disturbed
    PROVE  Follow(v, r, q)
<1>1. Told(v) /\ \A n : Done(w, r, n) => Done(v, r, n)
  BY DoneUntouched DEF Orderly
<1> QED
  BY <1>1, RestingFollows

LEMMA ReleaseFollows ==
    ASSUME Safe(world, run), Orderly(world, run),
           \/ PushSource \/ StartRelease \/ FinishRelease \/ Retry
           \/ ApplyBundle \/ InitializeReady \/ ApiReady \/ JobRuns
    PROVE  Follow(world', run, run')
<1>1. run' = run
  BY Zenon DEF PushSource, StartRelease, FinishRelease, Retry, ApplyBundle,
         InitializeReady, ApiReady, JobRuns
<1>2. world \in World
  BY DEF Safe
<1>3. /\ Untouched(world, world') /\ world'.probes = world.probes
      /\ world'.forwards = world.forwards
  <2> DEFINE Same3(v) == /\ v.dep = world.dep /\ v.pod = world.pod
                         /\ v.status = world.status /\ v.probes = world.probes
                         /\ v.forwards = world.forwards
  <2>1. CASE PushSource
    <3>1. PICK x, y, z : world' = [world EXCEPT !.pushed = x, !.pending = y,
                                                !.tree = z]
      BY <2>1, Zenon DEF PushSource
    <3>2. Same3(world')
      BY <1>2, <3>1 DEF World
    <3> QED
      BY <3>2 DEF Untouched
  <2>2. CASE StartRelease
    <3>1. PICK x, y, z : world' = [world EXCEPT !.built = x, !.pending = y,
                                                !.workflow = z]
      BY <2>2, Zenon DEF StartRelease
    <3>2. Same3(world')
      BY <1>2, <3>1 DEF World
    <3> QED
      BY <3>2 DEF Untouched
  <2>3. CASE FinishRelease
    <3>1. PICK x, y : world' = [world EXCEPT !.workflow = x, !.main = y]
      BY <2>3, Zenon DEF FinishRelease
    <3>2. Same3(world')
      BY <1>2, <3>1 DEF World
    <3> QED
      BY <3>2 DEF Untouched
  <2>4. CASE Retry
    <3>1. PICK x, y : world' = [world EXCEPT !.attempt = x, !.main = y]
      BY <2>4, Zenon DEF Retry
    <3>2. Same3(world')
      BY <1>2, <3>1 DEF World
    <3> QED
      BY <3>2 DEF Untouched
  <2>5. CASE ApplyBundle
    <3>1. PICK x, y, z : world' = [world EXCEPT !.applied = x, !.init = y,
                                                !.job = z]
      BY <2>5, Zenon DEF ApplyBundle
    <3>2. Same3(world')
      BY <1>2, <3>1 DEF World
    <3> QED
      BY <3>2 DEF Untouched
  <2>6. CASE InitializeReady
    <3>1. PICK r \in Release : \E x : world' = [world EXCEPT !.init[r] = x]
      BY <2>6, Zenon DEF InitializeReady
    <3>2. PICK x : world' = [world EXCEPT !.init[r] = x]
      BY <3>1, Zenon
    <3>3. Same3(world')
      BY <1>2, <3>2 DEF World
    <3> QED
      BY <3>3 DEF Untouched
  <2>7. CASE ApiReady
    <3>1. world' = [world EXCEPT !.api.ready = TRUE]
      BY <2>7 DEF ApiReady
    <3>2. Same3(world')
      BY <1>2, <3>1 DEF World
    <3> QED
      BY <3>2 DEF Untouched
  <2>8. CASE JobRuns
    <3>1. PICK r \in Release :
             \/ world' = [world EXCEPT !.job[r] = "complete", !.table = TRUE]
             \/ world' = [world EXCEPT !.job[r] = "failed"]
      BY <2>8, Zenon DEF JobRuns
    <3>2. Same3(world')
      <4>1. CASE world' = [world EXCEPT !.job[r] = "complete", !.table = TRUE]
        BY <1>2, <4>1 DEF World
      <4>2. CASE world' = [world EXCEPT !.job[r] = "failed"]
        BY <1>2, <4>2 DEF World
      <4> QED
        BY <3>1, <4>1, <4>2
    <3> QED
      BY <3>2 DEF Untouched
  <2> QED
    BY <2>1, <2>2, <2>3, <2>4, <2>5, <2>6, <2>7, <2>8
<1>4. Resting(run, run')
  BY <1>1 DEF Resting
<1> QED
  BY <1>1, <1>3, <1>4, UntouchedFollows

LEMMA RunAgainFollows ==
    ASSUME Safe(world, run), Orderly(world, run), RunAgain
    PROVE  Follow(world', run, run')
<1>1. world \in World /\ run \in Run
  BY DEF Safe
<1>2. PICK x, y : world' = [world EXCEPT !.workflow = x, !.pending = y]
  BY Zenon DEF RunAgain
<1>3. /\ Untouched(world, world') /\ world'.probes = world.probes
      /\ world'.forwards = world.forwards
  BY <1>1, <1>2 DEF World, Untouched
<1>4. PICK n : run' = [run EXCEPT !.faults = n]
  BY Zenon DEF RunAgain
<1>5. Resting(run, run') /\ run'.disturbed = run.disturbed
  BY <1>1, <1>4 DEF Run, Resting
<1> QED
  BY <1>3, <1>5, UntouchedFollows

LEMMA ApiAppliedFollows ==
    ASSUME Safe(world, run), Orderly(world, run), ApiApplied
    PROVE  Follow(world', run, run')
<1> DEFINE i == world.applied.api[1]
           e == Specified(world.dep, i, 1)
           d == Running \/ run.disturbed
<1>1. world \in World /\ run \in Run /\ Seen(world) /\ Told(world)
  BY DEF Safe, Orderly
<1>2. i \in Image
  BY <1>1 DEF World, Bundle, Release
<1>3. PICK x : world' = [world EXCEPT !.api = x, !.dep = e]
  BY Zenon DEF ApiApplied
<1>4. run' = [run EXCEPT !.disturbed = d]
  BY DEF ApiApplied
<1> HIDE DEF i
<1>5. /\ world'.dep = e /\ world'.pod = world.pod
      /\ world'.status = world.status /\ world'.probes = world.probes
      /\ world'.forwards = world.forwards
  <2> HIDE DEF e
  <2> QED
    BY <1>1, <1>3 DEF World
<1>6. Told(world')
  BY <1>1, <1>2, <1>5, ToldSpecified
<1>7. d \in BOOLEAN /\ (InBody(run) => d)
  BY <1>1 DEF Run, Running, InBody
<1> HIDE DEF d
<1>8. Resting(run, run') /\ run'.disturbed = d
  BY <1>1, <1>4 DEF Run, Resting
<1> QED
  BY <1>5, <1>6, <1>7, <1>8, RestingFollows

\* The controller.
LEMMA PodFollows ==
    ASSUME Safe(world, run), Orderly(world, run), run' = run, NEW pods,
           NEW status,
           \/ world' = [world EXCEPT !.pod = pods] /\ status = world.status
           \/ world' = [world EXCEPT !.status = status] /\ pods = world.pod,
           LET v == [pod |-> pods, dep |-> world.dep, status |-> status]
           IN Told(v) /\ \A n \in Nat : Done(world, run, n) => Done(v, run, n)
    PROVE  Follow(world', run, run')
<1> DEFINE v == [pod |-> pods, dep |-> world.dep, status |-> status]
<1>1. world \in World
  BY DEF Safe
<1>2. /\ Untouched(v, world') /\ world'.probes = world.probes
      /\ world'.forwards = world.forwards
  BY <1>1 DEF World, Untouched
<1> HIDE DEF v
<1>3. Told(world') /\ \A n : Done(v, run, n) => Done(world', run, n)
  BY <1>2, DoneUntouched DEF v
<1>6. Len(run.todo) \in Nat
  BY LenProperties DEF Safe, Run
<1>4. Done(world, run, Len(run.todo)) => Done(world', run, Len(run.todo))
  BY <1>3, <1>6 DEF v
<1>5. Resting(run, run')
  BY DEF Resting
<1> QED
  BY <1>2, <1>3, <1>4, <1>5, RestingFollows

\* What is done, with the steps that the script of a check has named.
Span(r) == CASE r.service = "product" -> 9 [] r.service = "dashboard" -> 17
             [] r.service = "policy-search" -> 7

LEMMA DoneIs ==
    ASSUME NEW w, NEW r, NEW n
    PROVE  Done(w, r, n) <=>
             /\ r.script = "deploy" =>
                 /\ n <= 3 => w.dep.image = r.image /\ w.dep.replicas = 1
                 /\ n <= 2 => Current(w) = {r.image} /\ Serving(w) = {r.image}
             /\ r.script = "verify" /\ (r.service = "product" \/ r.mode = "flux")
                  => (n < Span(r) =>
                       w.dep.image = r.image /\ Current(w) \subseteq {r.image})
             /\ r.script = "stop" /\ r.service = "product" =>
                 /\ n <= 4 => w.dep.replicas = 0
                 /\ n <= 3 => Current(w) = {}
             /\ r.script = "stop" /\ r.service # "product" =>
                 (n <= 2 => w.dep.replicas = 0)
  BY DEF Done, Span

\* A Pod of the image that the Deployment names, and that had none.
LEMMA PodStarts ==
    ASSUME NEW w \in World, Told(w), NEW v, NEW r,
           w.dep.replicas = 1, w.pod[w.dep.image] = "absent",
           v.dep = w.dep, v.status = w.status,
           v.pod = [w.pod EXCEPT ![w.dep.image] = "starting"]
    PROVE  Told(v) /\ \A n \in Nat : Done(w, r, n) => Done(v, r, n)
<1> DEFINE i == w.dep.image
<1>1. i \in Image /\ w.pod \in [Image -> {"absent", "starting", "ready",
                                          "ending"}]
  BY DEF World, Deployment
<1>2. i \notin Current(w) /\ i \notin Serving(w)
  BY DEF Current, Serving
<1>3. Current(v) = Current(w) \cup {i} /\ Serving(v) = Serving(w)
  BY <1>1 DEF Current, Serving
<1>4. Told(v)
  BY <1>2 DEF Told
<1>5. ASSUME NEW n \in Nat, Done(w, r, n) PROVE Done(v, r, n)
  <2> DEFINE two == n <= 2
             three == n <= 3
             four == n <= 4
             span == n < Span(r)
  <2>0. (two => three) /\ (three => four)
    OBVIOUS
  <2>1. \A x : Done(x, r, n) <=>
             /\ r.script = "deploy" =>
                 /\ three => x.dep.image = r.image /\ x.dep.replicas = 1
                 /\ two => Current(x) = {r.image} /\ Serving(x) = {r.image}
             /\ r.script = "verify" /\ (r.service = "product" \/ r.mode = "flux")
                  => (span =>
                       x.dep.image = r.image /\ Current(x) \subseteq {r.image})
             /\ r.script = "stop" /\ r.service = "product" =>
                 /\ four => x.dep.replicas = 0
                 /\ three => Current(x) = {}
             /\ r.script = "stop" /\ r.service # "product" =>
                 (two => x.dep.replicas = 0)
    BY DoneIs
  <2> HIDE DEF two, three, four, span
  <2>2. ~(r.script = "deploy" /\ two)
    BY <1>2, <1>5, <2>0, <2>1
  <2>3. /\ ~(r.script = "stop" /\ r.service = "product" /\ four)
        /\ ~(r.script = "stop" /\ r.service # "product" /\ two)
    BY <1>5, <2>1
  <2> QED
    BY <1>3, <1>5, <2>0, <2>1, <2>2, <2>3
<1> QED
  BY <1>4, <1>5

\* A Pod that is taken away.
LEMMA PodEnds ==
    ASSUME NEW w \in World, Told(w), NEW v, NEW r, NEW i \in Current(w),
           w.dep.replicas = 0 \/ w.dep.image # i,
           v.dep = w.dep, v.status = w.status,
           v.pod = [w.pod EXCEPT ![i] = "ending"]
    PROVE  Told(v) /\ \A n \in Nat : Done(w, r, n) => Done(v, r, n)
<1>1. i \in Image /\ w.pod \in [Image -> {"absent", "starting", "ready",
                                          "ending"}]
  BY DEF World, Current
<1>2. Current(v) = Current(w) \ {i} /\ Serving(v) = Serving(w) \ {i}
  BY <1>1 DEF Current, Serving
<1>3. Told(v)
  BY <1>2 DEF Told
<1>4. ASSUME NEW n \in Nat, Done(w, r, n) PROVE Done(v, r, n)
  <2> DEFINE two == n <= 2
             three == n <= 3
             four == n <= 4
             span == n < Span(r)
  <2>0. (two => three) /\ (three => four)
    OBVIOUS
  <2>1. \A x : Done(x, r, n) <=>
             /\ r.script = "deploy" =>
                 /\ three => x.dep.image = r.image /\ x.dep.replicas = 1
                 /\ two => Current(x) = {r.image} /\ Serving(x) = {r.image}
             /\ r.script = "verify" /\ (r.service = "product" \/ r.mode = "flux")
                  => (span =>
                       x.dep.image = r.image /\ Current(x) \subseteq {r.image})
             /\ r.script = "stop" /\ r.service = "product" =>
                 /\ four => x.dep.replicas = 0
                 /\ three => Current(x) = {}
             /\ r.script = "stop" /\ r.service # "product" =>
                 (two => x.dep.replicas = 0)
    BY DoneIs
  <2> HIDE DEF two, three, four, span
  <2>2. ~(r.script = "deploy" /\ two)
    BY <1>4, <2>0, <2>1
  <2> QED
    BY <1>2, <1>4, <2>0, <2>1, <2>2
<1> QED
  BY <1>3, <1>4

LEMMA RollsFollows ==
    ASSUME Safe(world, run), Orderly(world, run), Rolls
    PROVE  Follow(world', run, run')
<1>1. world \in World /\ Told(world) /\ run' = run
  BY DEF Safe, Orderly, Rolls
<1>2. CASE /\ world.dep.replicas = 1 /\ world.pod[world.dep.image] = "absent"
           /\ world' = [world EXCEPT !.pod[world.dep.image] = "starting"]
  <2> DEFINE pods == [world.pod EXCEPT ![world.dep.image] = "starting"]
             v == [pod |-> pods, dep |-> world.dep, status |-> world.status]
  <2>1. world' = [world EXCEPT !.pod = pods]
    BY <1>2
  <2>2. v.dep = world.dep /\ v.status = world.status /\ v.pod = pods
    OBVIOUS
  <2> HIDE DEF v
  <2>3. Told(v) /\ \A n \in Nat : Done(world, run, n) => Done(v, run, n)
    BY <1>1, <1>2, <2>2, PodStarts
  <2> HIDE DEF pods
  <2> QED
    BY <1>1, <2>1, <2>3, PodFollows, Zenon DEF v
<1>3. CASE \E i \in Current(world) :
              /\ world.dep.replicas = 0 \/ world.dep.image # i
              /\ world' = [world EXCEPT !.pod[i] = "ending"]
  <2>0. PICK i \in Current(world) :
              /\ world.dep.replicas = 0 \/ world.dep.image # i
              /\ world' = [world EXCEPT !.pod[i] = "ending"]
    BY <1>3, Zenon
  <2> DEFINE pods == [world.pod EXCEPT ![i] = "ending"]
             v == [pod |-> pods, dep |-> world.dep, status |-> world.status]
  <2>1. world' = [world EXCEPT !.pod = pods]
    BY <2>0
  <2>2. v.dep = world.dep /\ v.status = world.status /\ v.pod = pods
    OBVIOUS
  <2> HIDE DEF v
  <2>3. Told(v) /\ \A n \in Nat : Done(world, run, n) => Done(v, run, n)
    BY <1>1, <2>0, <2>2, PodEnds
  <2> HIDE DEF pods
  <2> QED
    BY <1>1, <2>1, <2>3, PodFollows, Zenon DEF v
<1>4. \/ /\ world.dep.replicas = 1 /\ world.pod[world.dep.image] = "absent"
         /\ world' = [world EXCEPT !.pod[world.dep.image] = "starting"]
      \/ \E i \in Current(world) :
              /\ world.dep.replicas = 0 \/ world.dep.image # i
              /\ world' = [world EXCEPT !.pod[i] = "ending"]
  BY DEF Rolls
<1> QED
  BY <1>2, <1>3, <1>4

\* A Pod becomes ready, or is gone.
LEMMA PodReady ==
    ASSUME NEW w \in World, Told(w), NEW v, NEW r, NEW i \in Image,
           NEW p,
           \/ w.pod[i] = "starting" /\ p = "ready"
           \/ w.pod[i] = "ending" /\ p = "absent",
           v.dep = w.dep, v.status = w.status, v.pod = [w.pod EXCEPT ![i] = p]
    PROVE  Told(v) /\ \A n \in Nat : Done(w, r, n) => Done(v, r, n)
<1>1. w.pod \in [Image -> {"absent", "starting", "ready", "ending"}]
  BY DEF World
<1>2. /\ Current(v) = Current(w)
      /\ Serving(v) = Serving(w) \/ Current(w) # Serving(w)
  <2>1. CASE w.pod[i] = "starting" /\ p = "ready"
    <3>1. Current(v) = Current(w)
      BY <1>1, <2>1 DEF Current
    <3>2. i \in Current(w) /\ i \notin Serving(w)
      BY <2>1 DEF Current, Serving
    <3> QED
      BY <3>1, <3>2
  <2>2. CASE w.pod[i] = "ending" /\ p = "absent"
    BY <1>1, <2>2 DEF Current, Serving
  <2> QED
    BY <2>1, <2>2
<1>3. Told(v)
  BY <1>2 DEF Told
<1>4. ASSUME NEW n \in Nat, Done(w, r, n) PROVE Done(v, r, n)
  BY <1>2, <1>4, Zenon DEF Done
<1> QED
  BY <1>3, <1>4

LEMMA PodMovesFollows ==
    ASSUME Safe(world, run), Orderly(world, run), PodMoves
    PROVE  Follow(world', run, run')
<1>1. world \in World /\ Told(world) /\ run' = run
  BY DEF Safe, Orderly, PodMoves
<1>2. PICK i \in Image :
        \/ world.pod[i] = "starting" /\ world' = [world EXCEPT !.pod[i] = "ready"]
        \/ world.pod[i] = "ending" /\ world' = [world EXCEPT !.pod[i] = "absent"]
  BY DEF PodMoves
<1> DEFINE p == IF world.pod[i] = "starting" THEN "ready" ELSE "absent"
<1>3. /\ \/ world.pod[i] = "starting" /\ p = "ready"
         \/ world.pod[i] = "ending" /\ p = "absent"
      /\ world' = [world EXCEPT !.pod[i] = p]
  BY <1>2
<1> HIDE DEF p
<1> DEFINE pods == [world.pod EXCEPT ![i] = p]
           v == [pod |-> pods, dep |-> world.dep, status |-> world.status]
<1>4. world' = [world EXCEPT !.pod = pods]
  BY <1>3
<1>5. v.dep = world.dep /\ v.status = world.status /\ v.pod = pods
  OBVIOUS
<1> HIDE DEF v
<1>6. Told(v) /\ \A n \in Nat : Done(world, run, n) => Done(v, run, n)
  BY <1>1, <1>3, <1>5, PodReady
<1> HIDE DEF pods
<1> QED
  BY <1>1, <1>4, <1>6, PodFollows, Zenon DEF v

LEMMA StatusWrittenFollows ==
    ASSUME Safe(world, run), Orderly(world, run), StatusWritten
    PROVE  Follow(world', run, run')
<1>1. world \in World /\ run' = run
  BY DEF Safe, StatusWritten
<1> DEFINE status == [seen |-> world.dep.generation,
                      current |-> Current(world), ready |-> Serving(world)]
           v == [pod |-> world.pod, dep |-> world.dep, status |-> status]
<1>2. world' = [world EXCEPT !.status = status]
  BY DEF StatusWritten
<1>3. /\ v.dep = world.dep /\ v.pod = world.pod
      /\ v.status.current = Current(world) /\ v.status.ready = Serving(world)
  OBVIOUS
<1> HIDE DEF v
<1>4. Current(v) = Current(world) /\ Serving(v) = Serving(world)
  BY <1>3, PodsAre
<1>5. Told(v)
  BY <1>3, <1>4 DEF Told
<1>6. \A n \in Nat : Done(world, run, n) => Done(v, run, n)
  BY <1>3, <1>4, Zenon DEF Done
<1> HIDE DEF status
<1> QED
  BY <1>1, <1>2, <1>5, <1>6, PodFollows, Zenon DEF v

-----------------------------------------------------------------------------
(* The theorems.                                                           *)

LEMMA NextFollows ==
    ASSUME Safe(world, run), Orderly(world, run), Next
    PROVE  Follow(world', run, run')
<1>1. CASE Begin
  BY <1>1, BeginFollows
<1>2. CASE Perform
  BY <1>2, PerformFollows
<1>3. CASE Refuse
  BY <1>3, RefuseFollows
<1>4. CASE Fail
  BY <1>4, FailFollows
<1>5. CASE Interrupt
  BY <1>5, InterruptFollows
<1>6. CASE Kill
  BY <1>6, KillFollows
<1>7. CASE \/ PushSource \/ StartRelease \/ FinishRelease \/ Retry
           \/ ApplyBundle \/ InitializeReady \/ ApiReady \/ JobRuns
  BY <1>7, ReleaseFollows
<1>8. CASE RunAgain
  BY <1>8, RunAgainFollows
<1>9. CASE ApiApplied
  BY <1>9, ApiAppliedFollows
<1>10. CASE Rolls
  BY <1>10, RollsFollows
<1>11. CASE PodMoves
  BY <1>11, PodMovesFollows
<1>12. CASE StatusWritten
  BY <1>12, StatusWrittenFollows
<1> QED
  BY <1>1, <1>2, <1>3, <1>4, <1>5, <1>6, <1>7, <1>8, <1>9, <1>10, <1>11,
     <1>12 DEF Next

LEMMA InitOrderly == ASSUME Bounds, Init PROVE Orderly(world, run)
<1>0. PICK service \in Services, mode \in {"direct", "flux"},
           broken \in SUBSET (Image \ {1}) :
        LET first == <<1, 1>>
            bundle == [inits |-> IF service = "product" /\ mode = "flux"
                                 THEN {first} ELSE {}, api |-> first]
        IN /\ run = Idle(service, mode, 0, 0)
           /\ world =
                [dep |-> [image |-> 1, replicas |-> 1, generation |-> 1],
                 status |-> [seen |-> 1, current |-> {1}, ready |-> {1}],
                 pod |-> [i \in Image |-> IF i = 1 THEN "ready" ELSE "absent"],
                 broken |-> broken,
                 loaded |-> IF mode = "direct" THEN {1} ELSE Image,
                 job |-> [r \in Release |-> IF r = first /\ service = "product"
                                            THEN "complete" ELSE "absent"],
                 table |-> service = "product", probes |-> {},
                 forwards |-> FALSE, attempt |-> 1,
                 main |-> bundle, tree |-> <<bundle>>, pushed |-> 1,
                 pending |-> None, workflow |-> NoRelease, built |-> 1,
                 applied |-> bundle,
                 init |-> [r \in Release |-> IF r \in bundle.inits THEN "ready"
                                             ELSE "none"],
                 api |-> [release |-> first, ready |-> TRUE]]
  BY Zenon DEF Init
<1>1. /\ run = Idle(service, mode, 0, 0)
      /\ world.dep = [image |-> 1, replicas |-> 1, generation |-> 1]
      /\ world.pod = [i \in Image |-> IF i = 1 THEN "ready" ELSE "absent"]
      /\ world.probes = {}
  BY <1>0
<1>2. 1 \in Image
  BY DEF Bounds, Image
<1>3. Current(world) = {1} /\ Serving(world) = {1}
  BY <1>1, <1>2 DEF Current, Serving
<1>4. world.dep.image = 1 /\ world.dep.replicas = 1
  BY <1>1
<1>5. Told(world)
  BY <1>3, <1>4 DEF Told
<1>6. run.state = "idle"
  BY <1>1 DEF Idle
<1> QED
  BY <1>1, <1>5, <1>6 DEF Orderly, InBody

LEMMA StepFollows ==
    ASSUME IInv, Orderly(world, run), [Next]_vars
    PROVE  Follow(world', run, run')
<1>1. CASE Next
  BY <1>1, SafeIs, NextFollows
<1>2. CASE UNCHANGED vars
  BY <1>2 DEF vars, Follow
<1> QED
  BY <1>1, <1>2

\* Every command keeps to its script and to what it owes.
THEOREM DeploymentOrderly ==
    ASSUME Bounds PROVE Spec => []Orderly(world, run)
<1>1. Init => Orderly(world, run)
  BY InitOrderly
<1>2. IInv /\ Orderly(world, run) /\ [Next]_vars => Orderly(world, run)'
  BY StepFollows DEF Follow
<1>3. Spec => []IInv
  BY DeploymentInvariant
<1> QED
  BY <1>1, <1>2, <1>3, PTL DEF Spec

LEMMA ClosingServed ==
    ASSUME IInv, Orderly(world, run), [Next]_vars
    PROVE  /\ SaysServed("deploy") \/ SaysServed("verify") =>
                 /\ world'.dep.image = run.image
                 /\ Serving(world') \subseteq {run.image}
           /\ SaysServed("deploy") => Serving(world') # {}
           /\ SaysServed("stop") =>
                 /\ world'.dep.replicas = 0
                 /\ run.service = "product" => Current(world') = {}
<1>1. Serving(world') \subseteq Current(world')
  BY DEF Serving, Current
<1>2. ASSUME NEW verb \in Big, SaysServed(verb)
      PROVE  /\ Done(world', run, 0) /\ run.script = verb
             /\ verb = "verify" => run.service = "product" \/ run.mode = "flux"
  <2>1. /\ run.state # "idle" /\ run'.state = "idle"
        /\ run'.verdict = "passed" /\ ~run.disturbed /\ run.script = verb
        /\ verb = "verify" => run.service = "product" \/ run.mode = "flux"
    BY <1>2 DEF SaysServed, Reports, Running, Undisturbed
  <2>2. Closing(world', run, run')
    BY <2>1, StepFollows DEF Follow
  <2> QED
    BY <1>2, <2>1, <2>2 DEF Closing
<1>3. run.service \in Services
  BY DEF IInv, Run
<1>4. "deploy" \in Big /\ "verify" \in Big /\ "stop" \in Big
  BY DEF Big
<1>5. ASSUME SaysServed("deploy")
      PROVE  /\ world'.dep.image = run.image
             /\ Serving(world') = {run.image}
  <2>1. Done(world', run, 0) /\ run.script = "deploy"
    BY <1>2, <1>4, <1>5
  <2> QED
    BY <2>1 DEF Done
<1>6. ASSUME SaysServed("verify")
      PROVE  /\ world'.dep.image = run.image
             /\ Serving(world') \subseteq {run.image}
  <2>1. /\ Done(world', run, 0) /\ run.script = "verify"
        /\ run.service = "product" \/ run.mode = "flux"
    BY <1>2, <1>4, <1>6
  <2> QED
    BY <1>1, <1>3, <2>1 DEF Done, Services
<1>7. ASSUME SaysServed("stop")
      PROVE  /\ world'.dep.replicas = 0
             /\ run.service = "product" => Current(world') = {}
  <2>1. Done(world', run, 0) /\ run.script = "stop"
    BY <1>2, <1>4, <1>7
  <2> QED
    BY <2>1 DEF Done
<1> QED
  BY <1>5, <1>6, <1>7

\* A deployment or verification that passes undisturbed says what serves,
\* and a stop that nothing does any more, in the state it reports in: the
\* rollout waited for, or the look at the Pods, is not outdated by then.
THEOREM DeploymentServed == ASSUME Bounds PROVE Spec => Served
<1>1. IInv /\ Orderly(world, run) /\ [Next]_vars =>
        [/\ SaysServed("deploy") \/ SaysServed("verify") =>
                 /\ world'.dep.image = run.image
                 /\ Serving(world') \subseteq {run.image}
         /\ SaysServed("deploy") => Serving(world') # {}
         /\ SaysServed("stop") =>
                 /\ world'.dep.replicas = 0
                 /\ run.service = "product" => Current(world') = {}]_vars
  BY ClosingServed
<1>2. Spec => []IInv /\ []Orderly(world, run)
  BY DeploymentInvariant, DeploymentOrderly
<1> QED
  BY <1>1, <1>2, PTL DEF Spec, Served

LEMMA ClosingGone ==
    ASSUME IInv, Orderly(world, run), [Next]_vars, Reports,
           run.script = "verify", run'.verdict # "killed"
    PROVE  \/ run'.lost /\ run'.verdict # "passed"
           \/ run.operations > 1
           \/ world'.probes = {} /\ ~world'.forwards
<1>1. run.state # "idle" /\ run'.state = "idle" /\ run.operations \in Nat
  BY DEF Reports, Running, IInv, Run
<1>2. Closing(world', run, run')
  BY <1>1, StepFollows DEF Follow
<1> QED
  BY <1>1, <1>2 DEF Closing, Verifies

\* However a verification ends, short of SIGKILL, it has removed what it
\* created, unless a removal failed or the answer to a creation was lost.
THEOREM DeploymentProbesGone == ASSUME Bounds PROVE Spec => ProbesGone
<1>1. IInv /\ Orderly(world, run) /\ [Next]_vars =>
        [Reports /\ run.script = "verify" /\ run'.verdict # "killed" =>
           \/ run'.lost /\ run'.verdict # "passed"
           \/ run.operations > 1
           \/ world'.probes = {} /\ ~world'.forwards]_vars
  BY ClosingGone
<1>2. Spec => []IInv /\ []Orderly(world, run)
  BY DeploymentInvariant, DeploymentOrderly
<1> QED
  BY <1>1, <1>2, PTL DEF Spec, ProbesGone

-----------------------------------------------------------------------------
(* Deployments, stores and clusters together, as they are checked: the     *)
(* deployment commands above, or the scripts that administer the stores or *)
(* the clusters, whose proofs are those of ElasticAdministrationProofs and *)
(* of ClusterAdministrationProofs.                                         *)

Proofs == INSTANCE ElasticAdministrationProofs WITH
    MaxOperations <- MaxCommands, world <- site, run <- command
ClusterProofs == INSTANCE ClusterAdministrationProofs WITH
    MaxOperations <- MaxCommands, world <- site, run <- command

AnyBounds == /\ Bounds /\ MaxRenewals \in Nat /\ MaxDocuments \in Nat
             /\ MaxValues \in Nat
StoresInv == tool = "stores" => Proofs!IInv
ClustersInv == tool = "clusters" => ClusterProofs!IInv
AnyInv == IInv /\ StoresInv /\ ClustersInv

\* The stores of the runs are those that the proofs are about: the two
\* instances of their module have the same definitions.
Matches(init, next, typed, passed, restored, kept, refused) ==
    /\ Stores!Init => init
    /\ Stores!Next => next
    /\ typed => Stores!TypeOK
    /\ passed => Stores!PassedMeansProvided
    /\ restored => Stores!RestoredMeansRestored
    /\ kept => Stores!RerunKeepsLogins
    /\ refused => Stores!RefusedBeforeEffects
LEMMA SameStores ==
    Matches(Proofs!Init, Proofs!Next, Proofs!TypeOK,
            Proofs!PassedMeansProvided, Proofs!RestoredMeansRestored,
            Proofs!RerunKeepsLogins, Proofs!RefusedBeforeEffects)
<1>1. Matches(Stores!Init, Stores!Next, Stores!TypeOK,
              Stores!PassedMeansProvided, Stores!RestoredMeansRestored,
              Stores!RerunKeepsLogins, Stores!RefusedBeforeEffects)
  BY DEF Matches
<1> QED
  BY Zenon, <1>1 DEF
     Stores!Id, Stores!Ca, Stores!None, Stores!Foreign, Stores!Fixture,
     Stores!Identity, Stores!Stored, Stores!Withdrawn, Stores!Secure,
     Stores!ReaderTarget, Stores!ReaderEnsure, Stores!ReaderRotate,
     Stores!ReaderVerify, Stores!ReaderRollback, Stores!EventTarget,
     Stores!EventSetup, Stores!EventVerify, Stores!EventRetire,
     Stores!CutoverTarget, Stores!CutoverPasswords, Stores!CutoverAccess,
     Stores!CutoverEnsure, Stores!CutoverVerify, Stores!CutoverMigrate,
     Stores!FixtureSetup, Stores!FixtureVerify, Stores!FixtureRetire,
     Stores!FixtureEventTarget, Stores!FixtureEventSetup,
     Stores!FixtureEventVerify, Stores!FixtureEventRetire, Stores!Profiles,
     Stores!Verbs, Stores!ReaderScript, Stores!EventScript,
     Stores!CutoverScript, Stores!FixtureScript, Stores!Script, Stores!Owned,
     Stores!IsStored, Stores!LogsIn, Stores!Trust, Stores!AcceptsObject,
     Stores!AcceptsTrust, Stores!AcceptsData, Stores!Accepts,
     Stores!Password, Stores!Effect, Stores!Learns, Stores!Running,
     Stores!Changes, Stores!Ends, Stores!Closed, Stores!Stops,
     Stores!Abandoned, Stores!Rolls, Stores!AfterFailure, Stores!Failing,
     Stores!Begin, Stores!Step, Stores!Refuse, Stores!Trouble, Stores!Fail,
     Stores!Kill, Stores!WorkerReady, Stores!Write, Stores!Renew,
     Stores!Alien, Stores!World, Stores!Init, Stores!Next, Stores!Reports,
     Stores!TypeOK, Stores!Usable, Stores!Provided,
     Stores!PassedMeansProvided, Stores!RestoredMeansRestored,
     Stores!RerunKeepsLogins, Stores!RefusedBeforeEffects,
     Stores!ForwardStopped, Proofs!Id, Proofs!Ca, Proofs!None,
     Proofs!Foreign, Proofs!Fixture, Proofs!Identity, Proofs!Stored,
     Proofs!Withdrawn, Proofs!Secure, Proofs!ReaderTarget,
     Proofs!ReaderEnsure, Proofs!ReaderRotate, Proofs!ReaderVerify,
     Proofs!ReaderRollback, Proofs!EventTarget, Proofs!EventSetup,
     Proofs!EventVerify, Proofs!EventRetire, Proofs!CutoverTarget,
     Proofs!CutoverPasswords, Proofs!CutoverAccess, Proofs!CutoverEnsure,
     Proofs!CutoverVerify, Proofs!CutoverMigrate, Proofs!FixtureSetup,
     Proofs!FixtureVerify, Proofs!FixtureRetire, Proofs!FixtureEventTarget,
     Proofs!FixtureEventSetup, Proofs!FixtureEventVerify,
     Proofs!FixtureEventRetire, Proofs!Profiles, Proofs!Verbs,
     Proofs!ReaderScript, Proofs!EventScript, Proofs!CutoverScript,
     Proofs!FixtureScript, Proofs!Script, Proofs!Owned, Proofs!IsStored,
     Proofs!LogsIn, Proofs!Trust, Proofs!AcceptsObject, Proofs!AcceptsTrust,
     Proofs!AcceptsData, Proofs!Accepts, Proofs!Password, Proofs!Effect,
     Proofs!Learns, Proofs!Running, Proofs!Changes, Proofs!Ends,
     Proofs!Closed, Proofs!Stops, Proofs!Abandoned, Proofs!Rolls,
     Proofs!AfterFailure, Proofs!Failing, Proofs!Begin, Proofs!Step,
     Proofs!Refuse, Proofs!Trouble, Proofs!Fail, Proofs!Kill,
     Proofs!WorkerReady, Proofs!Write, Proofs!Renew, Proofs!Alien,
     Proofs!World, Proofs!Init, Proofs!Next, Proofs!Reports, Proofs!TypeOK,
     Proofs!Usable, Proofs!Provided, Proofs!PassedMeansProvided,
     Proofs!RestoredMeansRestored, Proofs!RerunKeepsLogins,
     Proofs!RefusedBeforeEffects, Proofs!ForwardStopped

\* Likewise the clusters, operator by operator and action by action.

LEMMA SameOperators ==
    /\ \A profile :
          ClusterProofs!Commands(profile) = Clusters!Commands(profile)
    /\ \A w, name :
          ClusterProofs!Script(w, name) = Clusters!Script(w, name)
    /\ \A w, states :
          ClusterProofs!In(w, states) = Clusters!In(w, states)
    /\ \A w, missed :
          ClusterProofs!Seen(w, missed) = Clusters!Seen(w, missed)
    /\ \A w, r, s :
          ClusterProofs!Holds(w, r, s) = Clusters!Holds(w, r, s)
    /\ \A w, r, s :
          ClusterProofs!Effect(w, r, s) = Clusters!Effect(w, r, s)
    /\ \A w, r, s :
          ClusterProofs!Learns(w, r, s) = Clusters!Learns(w, r, s)
    /\ \A r :
          ClusterProofs!Idle(r) = Clusters!Idle(r)
    /\ \A r, s, done :
          ClusterProofs!Owing(r, s, done) = Clusters!Owing(r, s, done)
    /\ \A r, s :
          ClusterProofs!Settled(r, s) = Clusters!Settled(r, s)
    /\ \A r, s :
          ClusterProofs!Cleaning(r, s) = Clusters!Cleaning(r, s)
    /\ \A r, verdict :
          ClusterProofs!Ends(r, verdict) = Clusters!Ends(r, verdict)
    /\ \A r, verdict :
          ClusterProofs!Finally(r, verdict) = Clusters!Finally(r, verdict)
    /\ \A r :
          ClusterProofs!Advanced(r) = Clusters!Advanced(r)
    /\ \A r, s :
          ClusterProofs!Raised(r, s) = Clusters!Raised(r, s)
<1>1. ASSUME NEW profile
      PROVE  ClusterProofs!Commands(profile) = Clusters!Commands(profile)
  BY Zenon DEF
     Clusters!Commands, ClusterProofs!Commands
<1>2. ASSUME NEW w, NEW name
      PROVE  ClusterProofs!Script(w, name) = Clusters!Script(w, name)
  BY Zenon DEF
     Clusters!Script, Clusters!CreateNodes, Clusters!Each, Clusters!Selected,
     Clusters!Node, Clusters!Existing, Clusters!ClusterCreate,
     Clusters!JoinWorker, Clusters!PullKubeconfig, Clusters!Infra,
     Clusters!DeployOperator, Clusters!CreateSecret, Clusters!TenantReady,
     Clusters!Services, Clusters!CopySecret, Clusters!MinioBucket,
     Clusters!MinioUserPolicy, Clusters!LoadImage, Clusters!ZipkinUser,
     Clusters!CreateLocalCluster, Clusters!PortForward, Clusters!NodeAction,
     Clusters!Do, Clusters!In, Clusters!SnapshotNodes, Clusters!None,
     ClusterProofs!Script, ClusterProofs!CreateNodes, ClusterProofs!Each,
     ClusterProofs!Selected, ClusterProofs!Node, ClusterProofs!Existing,
     ClusterProofs!ClusterCreate, ClusterProofs!JoinWorker,
     ClusterProofs!PullKubeconfig, ClusterProofs!Infra,
     ClusterProofs!DeployOperator, ClusterProofs!CreateSecret,
     ClusterProofs!TenantReady, ClusterProofs!Services,
     ClusterProofs!CopySecret, ClusterProofs!MinioBucket,
     ClusterProofs!MinioUserPolicy, ClusterProofs!LoadImage,
     ClusterProofs!ZipkinUser, ClusterProofs!CreateLocalCluster,
     ClusterProofs!PortForward, ClusterProofs!NodeAction, ClusterProofs!Do,
     ClusterProofs!In, ClusterProofs!SnapshotNodes, ClusterProofs!None
<1>3. ASSUME NEW w, NEW states
      PROVE  ClusterProofs!In(w, states) = Clusters!In(w, states)
  BY Zenon DEF
     Clusters!In, Clusters!Node, ClusterProofs!In, ClusterProofs!Node
<1>4. ASSUME NEW w, NEW r, NEW s
      PROVE  ClusterProofs!Holds(w, r, s) = Clusters!Holds(w, r, s)
  BY Zenon DEF
     Clusters!Holds, Clusters!Selected, Clusters!Node, Clusters!None,
     ClusterProofs!Holds, ClusterProofs!Selected, ClusterProofs!Node,
     ClusterProofs!None
<1>5. ASSUME NEW w, NEW r, NEW s
      PROVE  ClusterProofs!Effect(w, r, s) = Clusters!Effect(w, r, s)
  BY Zenon DEF
     Clusters!Effect, Clusters!NoSnapshot, Clusters!None, Clusters!Snapshot,
     Clusters!Node, ClusterProofs!Effect, ClusterProofs!NoSnapshot,
     ClusterProofs!None, ClusterProofs!Snapshot, ClusterProofs!Node
<1>6. ASSUME NEW w, NEW r, NEW s
      PROVE  ClusterProofs!Learns(w, r, s) = Clusters!Learns(w, r, s)
  BY Zenon DEF
     Clusters!Learns, ClusterProofs!Learns
<1>7. ASSUME NEW r
      PROVE  ClusterProofs!Idle(r) = Clusters!Idle(r)
  BY Zenon DEF
     Clusters!Idle, Clusters!None, Clusters!NoConfig, ClusterProofs!Idle,
     ClusterProofs!None, ClusterProofs!NoConfig
<1>8. ASSUME NEW r, NEW s, NEW done
      PROVE  ClusterProofs!Owing(r, s, done) = Clusters!Owing(r, s, done)
  BY Zenon DEF
     Clusters!Owing, Clusters!Owes, ClusterProofs!Owing, ClusterProofs!Owes
<1>9. ASSUME NEW r, NEW s
      PROVE  ClusterProofs!Settled(r, s) = Clusters!Settled(r, s)
  BY Zenon DEF
     Clusters!Settled, Clusters!Last, Clusters!Front, ClusterProofs!Settled,
     ClusterProofs!Last, ClusterProofs!Front
<1>10. ASSUME NEW r, NEW s
      PROVE  ClusterProofs!Cleaning(r, s) = Clusters!Cleaning(r, s)
  BY Zenon DEF
     Clusters!Cleaning, Clusters!ToSet, ClusterProofs!Cleaning,
     ClusterProofs!ToSet
<1>11. ASSUME NEW r, NEW verdict
      PROVE  ClusterProofs!Ends(r, verdict) = Clusters!Ends(r, verdict)
  BY Zenon DEF
     Clusters!Ends, Clusters!Idle, Clusters!None, Clusters!NoConfig,
     ClusterProofs!Ends, ClusterProofs!Idle, ClusterProofs!None,
     ClusterProofs!NoConfig
<1>12. ASSUME NEW r, NEW verdict
      PROVE  ClusterProofs!Finally(r, verdict) = Clusters!Finally(r, verdict)
  BY Zenon DEF
     Clusters!Finally, Clusters!Told, Clusters!Reverse, Clusters!Ends, Clusters!Idle,
     Clusters!None, Clusters!NoConfig, ClusterProofs!Finally,
     ClusterProofs!Reverse, ClusterProofs!Ends, ClusterProofs!Idle,
     ClusterProofs!None, ClusterProofs!NoConfig, ClusterProofs!Told
<1>13. ASSUME NEW r
      PROVE  ClusterProofs!Advanced(r) = Clusters!Advanced(r)
  BY Zenon DEF
     Clusters!Advanced, Clusters!Finally, Clusters!Told, Clusters!Reverse, Clusters!Ends,
     Clusters!Idle, Clusters!None, Clusters!NoConfig, ClusterProofs!Advanced,
     ClusterProofs!Finally, ClusterProofs!Reverse, ClusterProofs!Ends,
     ClusterProofs!Idle, ClusterProofs!None, ClusterProofs!NoConfig, ClusterProofs!Told
<1>14. ASSUME NEW r, NEW s
      PROVE  ClusterProofs!Raised(r, s) = Clusters!Raised(r, s)
  BY Zenon DEF
     Clusters!Raised, Clusters!Advanced, Clusters!Finally, Clusters!Told, Clusters!Reverse,
     Clusters!Ends, Clusters!Idle, Clusters!None, Clusters!NoConfig,
     Clusters!Settled, Clusters!Last, Clusters!Front, Clusters!Cleaning,
     Clusters!ToSet, ClusterProofs!Raised, ClusterProofs!Advanced,
     ClusterProofs!Finally, ClusterProofs!Reverse, ClusterProofs!Ends,
     ClusterProofs!Idle, ClusterProofs!None, ClusterProofs!NoConfig,
     ClusterProofs!Settled, ClusterProofs!Last, ClusterProofs!Front,
     ClusterProofs!Cleaning, ClusterProofs!ToSet, ClusterProofs!Told
<1>15. ASSUME NEW w, NEW missed
      PROVE  ClusterProofs!Seen(w, missed) = Clusters!Seen(w, missed)
  BY Zenon DEF
     Clusters!Seen, Clusters!Node, ClusterProofs!Seen, ClusterProofs!Node
<1> QED
  BY <1>1, <1>2, <1>3, <1>4, <1>5, <1>6, <1>7, <1>8, <1>9, <1>10, <1>11,
     <1>12, <1>13, <1>14, <1>15

LEMMA SameActions ==
    /\ Clusters!Begin => ClusterProofs!Begin
    /\ Clusters!Perform => ClusterProofs!Perform
    /\ Clusters!Refuse => ClusterProofs!Refuse
    /\ Clusters!Fail => ClusterProofs!Fail
    /\ Clusters!Interrupt => ClusterProofs!Interrupt
    /\ Clusters!CutOff => ClusterProofs!CutOff
    /\ Clusters!Kill => ClusterProofs!Kill
    /\ Clusters!PodRuns => ClusterProofs!PodRuns
    /\ Clusters!ForwardEnds => ClusterProofs!ForwardEnds
    /\ Clusters!Outside => ClusterProofs!Outside
<1>1. ASSUME Clusters!Begin PROVE ClusterProofs!Begin
  <2>1. PICK name \in Clusters!Commands(command.profile) :
          \E value \in IF name \in Clusters!Valued THEN 1 .. MaxValues
                       ELSE {Clusters!None} :
          \E missed \in SUBSET Clusters!Existing(site) :
       /\ missed # {} => name \in Clusters!Asking /\ Clusters!Trouble
       /\ Clusters!Script(Clusters!Seen(site, missed), name) # <<>>
       /\ command' = [Clusters!Idle(command) EXCEPT
             !.state = "body", !.script = name,
             !.todo = Clusters!Script(Clusters!Seen(site, missed), name),
             !.value = value, !.missed = missed,
             !.ran = IF name = "snapshot"
                     THEN Clusters!In(site, {"running"}) ELSE {},
             !.operations = @ + 1,
             !.troubles = IF missed = {} THEN @ ELSE @ + 1]
    BY <1>1, Zenon DEF Clusters!Begin
  <2>2. PICK value \in IF name \in Clusters!Valued THEN 1 .. MaxValues
                       ELSE {Clusters!None} :
          \E missed \in SUBSET Clusters!Existing(site) :
       /\ missed # {} => name \in Clusters!Asking /\ Clusters!Trouble
       /\ Clusters!Script(Clusters!Seen(site, missed), name) # <<>>
       /\ command' = [Clusters!Idle(command) EXCEPT
             !.state = "body", !.script = name,
             !.todo = Clusters!Script(Clusters!Seen(site, missed), name),
             !.value = value, !.missed = missed,
             !.ran = IF name = "snapshot"
                     THEN Clusters!In(site, {"running"}) ELSE {},
             !.operations = @ + 1,
             !.troubles = IF missed = {} THEN @ ELSE @ + 1]
    BY <2>1, Zenon
  <2>3. PICK missed \in SUBSET Clusters!Existing(site) :
       /\ missed # {} => name \in Clusters!Asking /\ Clusters!Trouble
       /\ Clusters!Script(Clusters!Seen(site, missed), name) # <<>>
       /\ command' = [Clusters!Idle(command) EXCEPT
             !.state = "body", !.script = name,
             !.todo = Clusters!Script(Clusters!Seen(site, missed), name),
             !.value = value, !.missed = missed,
             !.ran = IF name = "snapshot"
                     THEN Clusters!In(site, {"running"}) ELSE {},
             !.operations = @ + 1,
             !.troubles = IF missed = {} THEN @ ELSE @ + 1]
    BY <2>2, Zenon
  <2>4. /\ Clusters!Script(Clusters!Seen(site, missed), name)
              = ClusterProofs!Script(ClusterProofs!Seen(site, missed), name)
        /\ Clusters!Idle(command) = ClusterProofs!Idle(command)
        /\ Clusters!Commands(command.profile)
              = ClusterProofs!Commands(command.profile)
        /\ Clusters!In(site, {"running"})
              = ClusterProofs!In(site, {"running"})
    BY SameOperators
  <2>5. /\ Clusters!Asking = ClusterProofs!Asking
        /\ Clusters!Trouble = ClusterProofs!Trouble
        /\ Clusters!Existing(site) = ClusterProofs!Existing(site)
    BY Zenon DEF Clusters!Asking, ClusterProofs!Asking, Clusters!Trouble,
       ClusterProofs!Trouble, Clusters!Existing, ClusterProofs!Existing,
       Clusters!Node, ClusterProofs!Node
  <2>6. /\ name \in ClusterProofs!Commands(command.profile)
        /\ value \in IF name \in ClusterProofs!Valued THEN 1 .. MaxValues
                     ELSE {ClusterProofs!None}
        /\ missed \in SUBSET ClusterProofs!Existing(site)
    BY <2>3, <2>4, <2>5, Zenon DEF Clusters!Valued, ClusterProofs!Valued,
       Clusters!None, ClusterProofs!None
  <2>7. /\ missed # {} =>
              name \in ClusterProofs!Asking /\ ClusterProofs!Trouble
        /\ ClusterProofs!Script(ClusterProofs!Seen(site, missed), name)
              # <<>>
    BY <2>3, <2>4, <2>5, Zenon
  <2>8. command' = [ClusterProofs!Idle(command) EXCEPT
             !.state = "body", !.script = name,
             !.todo = ClusterProofs!Script(ClusterProofs!Seen(site, missed), name),
             !.value = value, !.missed = missed,
             !.ran = IF name = "snapshot"
                     THEN ClusterProofs!In(site, {"running"}) ELSE {},
             !.operations = @ + 1,
             !.troubles = IF missed = {} THEN @ ELSE @ + 1]
    BY <2>3, <2>4, Zenon
  <2>9. /\ ~ClusterProofs!Running
        /\ command.operations < MaxCommands
        /\ site' = [site EXCEPT !.tokens = {}, !.archives = {},
                              !.files = FALSE, !.forwards = {},
                              !.from = [n \in ClusterProofs!Node |->
                                            ClusterProofs!NoSnapshot]]
    BY <1>1, Zenon DEF Clusters!Begin, Clusters!Running,
       ClusterProofs!Running, Clusters!Node, ClusterProofs!Node,
       Clusters!NoSnapshot, ClusterProofs!NoSnapshot, Clusters!None,
       ClusterProofs!None
  <2> QED
    BY <2>6, <2>7, <2>8, <2>9, Zenon DEF ClusterProofs!Begin
<1>2. Clusters!Perform => ClusterProofs!Perform
  BY SameOperators, Zenon DEF
     Clusters!Perform, Clusters!Running, ClusterProofs!Perform,
     ClusterProofs!Running
<1>3. Clusters!Refuse => ClusterProofs!Refuse
  BY SameOperators, Zenon DEF
     Clusters!Refuse, Clusters!Running, ClusterProofs!Refuse,
     ClusterProofs!Running
<1>4. Clusters!Fail => ClusterProofs!Fail
  BY SameOperators, Zenon DEF
     Clusters!Fail, Clusters!Running, Clusters!Trouble, ClusterProofs!Fail,
     ClusterProofs!Running, ClusterProofs!Trouble
<1>5. Clusters!Interrupt => ClusterProofs!Interrupt
  BY SameOperators, Zenon DEF
     Clusters!Interrupt, Clusters!Running, Clusters!Trouble,
     ClusterProofs!Interrupt, ClusterProofs!Running, ClusterProofs!Trouble
<1>6. Clusters!CutOff => ClusterProofs!CutOff
  BY SameOperators DEF
     Clusters!CutOff, Clusters!Running, Clusters!Trouble,
     ClusterProofs!CutOff, ClusterProofs!Running, ClusterProofs!Trouble
<1>7. Clusters!Kill => ClusterProofs!Kill
  BY SameOperators DEF
     Clusters!Kill, Clusters!Running, Clusters!Trouble, ClusterProofs!Kill,
     ClusterProofs!Running, ClusterProofs!Trouble
<1>8. Clusters!PodRuns => ClusterProofs!PodRuns
  BY SameOperators DEF
     Clusters!PodRuns, Clusters!None, ClusterProofs!PodRuns,
     ClusterProofs!None
<1>9. Clusters!ForwardEnds => ClusterProofs!ForwardEnds
  BY SameOperators DEF
     Clusters!ForwardEnds, ClusterProofs!ForwardEnds
<1>10. Clusters!Outside => ClusterProofs!Outside
  BY SameOperators DEF
     Clusters!Outside, Clusters!Running, Clusters!Node, ClusterProofs!Outside,
     ClusterProofs!Running, ClusterProofs!Node
<1> QED
  BY <1>1, <1>2, <1>3, <1>4, <1>5, <1>6, <1>7, <1>8, <1>9, <1>10

LEMMA SameClusters ==
    /\ Clusters!Init => ClusterProofs!Init
    /\ Clusters!Next => ClusterProofs!Next
    /\ ClusterProofs!TypeOK => Clusters!TypeOK
    /\ ClusterProofs!Resumed => Clusters!Resumed
    /\ ClusterProofs!RestoredTogether => Clusters!RestoredTogether
    /\ ClusterProofs!ProtectedGone => Clusters!ProtectedGone
    /\ ClusterProofs!ZipkinDone => Clusters!ZipkinDone
    /\ ClusterProofs!InStep => Clusters!InStep
    /\ ClusterProofs!PreviousKept => Clusters!PreviousKept
<1>1. Clusters!Init => ClusterProofs!Init
  BY Zenon DEF
     Clusters!Init, Clusters!Profiles, Clusters!None, Clusters!NoConfig,
     Clusters!Node, Clusters!NoSnapshot, ClusterProofs!Init,
     ClusterProofs!Profiles, ClusterProofs!None, ClusterProofs!NoConfig,
     ClusterProofs!Node, ClusterProofs!NoSnapshot
<1>2. ClusterProofs!TypeOK => Clusters!TypeOK
  BY Zenon DEF
     Clusters!TypeOK, Clusters!Node, ClusterProofs!TypeOK, ClusterProofs!Node
<1>3. ClusterProofs!Resumed => Clusters!Resumed
  BY Zenon DEF
     Clusters!Resumed, Clusters!Reports, Clusters!Running, Clusters!Clean,
     Clusters!Untold, ClusterProofs!Resumed, ClusterProofs!Reports,
     ClusterProofs!Running, ClusterProofs!Clean, ClusterProofs!Untold
<1>4. ClusterProofs!RestoredTogether => Clusters!RestoredTogether
  BY Zenon DEF
     Clusters!RestoredTogether, Clusters!Reports, Clusters!Running,
     Clusters!Existing, Clusters!Node, ClusterProofs!RestoredTogether,
     ClusterProofs!Reports, ClusterProofs!Running, ClusterProofs!Existing,
     ClusterProofs!Node
<1>5. ClusterProofs!ProtectedGone => Clusters!ProtectedGone
  BY Zenon DEF
     Clusters!ProtectedGone, Clusters!Reports, Clusters!Running,
     Clusters!Clean, Clusters!Untold, Clusters!None,
     ClusterProofs!ProtectedGone, ClusterProofs!Reports,
     ClusterProofs!Running, ClusterProofs!Clean, ClusterProofs!Untold,
     ClusterProofs!None
<1>6. ClusterProofs!ZipkinDone => Clusters!ZipkinDone
  BY Zenon DEF
     Clusters!ZipkinDone, Clusters!Reports, Clusters!Running,
     ClusterProofs!ZipkinDone, ClusterProofs!Reports, ClusterProofs!Running
<1>7. ClusterProofs!InStep => Clusters!InStep
  BY Zenon DEF
     Clusters!InStep, Clusters!Reports, Clusters!Running, Clusters!Existing,
     Clusters!Node, ClusterProofs!InStep, ClusterProofs!Reports,
     ClusterProofs!Running, ClusterProofs!Existing, ClusterProofs!Node
<1>8. ClusterProofs!PreviousKept => Clusters!PreviousKept
  BY Zenon DEF
     Clusters!PreviousKept, Clusters!Running, ClusterProofs!PreviousKept,
     ClusterProofs!Running
<1>9. Clusters!Next => ClusterProofs!Next
  BY SameActions DEF Clusters!Next, ClusterProofs!Next
<1> QED
  BY <1>1, <1>2, <1>3, <1>4, <1>5, <1>6, <1>7, <1>8, <1>9

LEMMA SameBounds == AnyBounds => Proofs!Bounds /\ ClusterProofs!Bounds
BY DEF AnyBounds, Proofs!Bounds, ClusterProofs!Bounds

LEMMA AnyStarts == ASSUME AnyBounds, AnyInit PROVE AnyInv
<1>1. IInv
  BY InitSafe DEF AnyBounds, AnyInit
<1>2. StoresInv
  <2> SUFFICES ASSUME tool = "stores" PROVE Proofs!IInv
    BY DEF StoresInv
  <2>1. Stores!Init
    BY DEF AnyInit
  <2>2. Proofs!Init
    BY <2>1, SameStores DEF Matches
  <2> QED
    BY <2>2, SameBounds, Proofs!Starts
<1>3. ClustersInv
  <2> SUFFICES ASSUME tool = "clusters" PROVE ClusterProofs!IInv
    BY DEF ClustersInv
  <2>1. Clusters!Init
    BY DEF AnyInit
  <2>2. ClusterProofs!Init
    BY <2>1, SameClusters
  <2> QED
    BY <2>2, SameBounds, ClusterProofs!InitGood
<1> QED
  BY <1>1, <1>2, <1>3 DEF AnyInv

\* A step of the composition is one of the part that is looked at.
LEMMA AnyStep ==
    ASSUME [AnyNext]_<<vars, mcVars>>
    PROVE  /\ tool' = tool
           /\ [Next]_vars
           /\ tool = "stores" => [Proofs!Next]_(Proofs!vars)
           /\ tool = "clusters" => [ClusterProofs!Next]_(ClusterProofs!vars)
<1>1. CASE DeploysServices
  BY <1>1 DEF DeploysServices, mcVars
<1>2. CASE AdministersStores
  <2>1. Proofs!Next
    BY <1>2, SameStores DEF AdministersStores, Matches
  <2> QED
    BY <1>2, <2>1 DEF AdministersStores, vars
<1>3. CASE AdministersClusters
  <2>1. ClusterProofs!Next
    BY <1>3, SameClusters DEF AdministersClusters
  <2> QED
    BY <1>3, <2>1 DEF AdministersClusters, vars
<1>4. CASE UNCHANGED <<vars, mcVars>>
  BY <1>4 DEF vars, mcVars, Proofs!vars, ClusterProofs!vars
<1> QED
  BY <1>1, <1>2, <1>3, <1>4 DEF AnyNext

LEMMA AnyPreserves ==
    ASSUME AnyBounds, AnyInv, [AnyNext]_<<vars, mcVars>> PROVE AnyInv'
<1>1. /\ tool' = tool /\ [Next]_vars
      /\ tool = "stores" => [Proofs!Next]_(Proofs!vars)
      /\ tool = "clusters" => [ClusterProofs!Next]_(ClusterProofs!vars)
  BY AnyStep
<1>2. IInv'
  BY <1>1, NextSafe DEF AnyBounds, AnyInv
<1>3. tool = "stores" => Proofs!IInv'
  BY <1>1, SameBounds, Proofs!Preserves DEF AnyInv, StoresInv
<1>4. tool = "clusters" => ClusterProofs!IInv'
  BY <1>1, SameBounds, ClusterProofs!StepGood DEF AnyInv, ClustersInv
<1> QED
  BY <1>1, <1>2, <1>3, <1>4 DEF AnyInv, StoresInv, ClustersInv

\* The invariants of deployments, stores and clusters hold in the
\* composition, whichever is looked at.
THEOREM AnyInvariance == ASSUME AnyBounds PROVE AnySpec => []AnyInv
<1>1. AnyInit => AnyInv
  BY AnyStarts
<1>2. AnyInv /\ [AnyNext]_<<vars, mcVars>> => AnyInv'
  BY AnyPreserves
<1> QED
  BY <1>1, <1>2, PTL DEF AnySpec

\* A step of the stores' scripts that changes something.
LEMMA StoresStep ==
    ASSUME [AnyNext]_<<vars, mcVars>>, tool = "stores", ~UNCHANGED mcVars
    PROVE  [Proofs!Next]_(Proofs!vars) /\ ~UNCHANGED Proofs!vars
<1>1. tool' = tool /\ [Proofs!Next]_(Proofs!vars)
  BY AnyStep
<1> QED
  BY <1>1 DEF mcVars, Proofs!vars

\* "passed" of the four *_administration.py scripts is said only of what the
\* script was run for, for any number of scripts, failures, kills and renewed
\* CAs: the Secrets log in, index and topic are there, and after a retirement
\* nothing is.
THEOREM StoresProvided ==
    ASSUME AnyBounds PROVE AnySpec => PassedMeansProvided
<1>1. ASSUME AnyInv, [AnyNext]_<<vars, mcVars>>
      PROVE  [tool = "stores" => Stores!PassedMeansProvided]_mcVars
  <2> SUFFICES ASSUME tool = "stores", ~UNCHANGED mcVars
               PROVE  Stores!PassedMeansProvided
    OBVIOUS
  <2>1. Proofs!PassedMeansProvided
    BY <1>1, StoresStep, SameBounds, Proofs!Passing DEF AnyInv, StoresInv
  <2> QED
    BY <2>1, SameStores DEF Matches
<1> QED
  BY <1>1, AnyInvariance, PTL DEF AnySpec, PassedMeansProvided

\* A rotation of the reader that says it restored its Secret left the one it
\* found, and that one logs in.
THEOREM StoresRestored ==
    ASSUME AnyBounds PROVE AnySpec => RestoredMeansRestored
<1>1. ASSUME AnyInv, [AnyNext]_<<vars, mcVars>>
      PROVE  [tool = "stores" => Stores!RestoredMeansRestored]_mcVars
  <2> SUFFICES ASSUME tool = "stores", ~UNCHANGED mcVars
               PROVE  Stores!RestoredMeansRestored
    OBVIOUS
  <2>1. Proofs!RestoredMeansRestored
    BY <1>1, StoresStep, SameBounds, Proofs!Restoring DEF AnyInv, StoresInv
  <2> QED
    BY <2>1, SameStores DEF Matches
<1> QED
  BY <1>1, AnyInvariance, PTL DEF AnySpec, RestoredMeansRestored

\* ensure and setup, repeated after whatever failed or was killed, take no
\* login away from a workload that has one, not for one step.
THEOREM StoresKeepLogins ==
    ASSUME AnyBounds PROVE AnySpec => RerunKeepsLogins
<1>1. ASSUME AnyInv, [AnyNext]_<<vars, mcVars>>
      PROVE  [tool = "stores" => Stores!RerunKeepsLogins]_mcVars
  <2> SUFFICES ASSUME tool = "stores", ~UNCHANGED mcVars
               PROVE  Stores!RerunKeepsLogins
    OBVIOUS
  <2>1. Proofs!RerunKeepsLogins
    BY <1>1, StoresStep, SameBounds, Proofs!Rerunning DEF AnyInv, StoresInv
  <2> QED
    BY <2>1, SameStores DEF Matches
<1> QED
  BY <1>1, AnyInvariance, PTL DEF AnySpec, RerunKeepsLogins

\* A script that refuses has changed nothing, as far as it promises: the
\* reader's unless a CA was renewed meanwhile, the cutover's for its index,
\* the events' retirement always.
THEOREM StoresRefuseFirst ==
    ASSUME AnyBounds PROVE AnySpec => RefusedBeforeEffects
<1>1. ASSUME AnyInv, [AnyNext]_<<vars, mcVars>>
      PROVE  [tool = "stores" => Stores!RefusedBeforeEffects]_mcVars
  <2> SUFFICES ASSUME tool = "stores", ~UNCHANGED mcVars
               PROVE  Stores!RefusedBeforeEffects
    OBVIOUS
  <2>1. Proofs!RefusedBeforeEffects
    BY <1>1, StoresStep, SameBounds, Proofs!Refusing DEF AnyInv, StoresInv
  <2> QED
    BY <2>1, SameStores DEF Matches
<1> QED
  BY <1>1, AnyInvariance, PTL DEF AnySpec, RefusedBeforeEffects

\* A step of the clusters' commands that changes something.
LEMMA ClustersStep ==
    ASSUME [AnyNext]_<<vars, mcVars>>, tool = "clusters", ~UNCHANGED mcVars
    PROVE  [ClusterProofs!Next]_(ClusterProofs!vars)
<1> QED
  BY AnyStep

\* Every part keeps its types, whichever is looked at, and a cluster command
\* that has ended owes nothing.
THEOREM AllTyped == ASSUME AnyBounds PROVE AnySpec => []AllTypeOK
<1>1. ASSUME AnyInv PROVE AllTypeOK
  <2>1. TypeOK
    BY <1>1, Typed DEF AnyInv
  <2>2. tool = "stores" => Stores!TypeOK
    BY <1>1, SameBounds, Proofs!Typed, SameStores
       DEF AnyInv, StoresInv, Matches
  <2>3. tool = "clusters" => Clusters!TypeOK
    BY <1>1, SameBounds, ClusterProofs!Typed, SameClusters
       DEF AnyInv, ClustersInv
  <2> QED
    BY <2>1, <2>2, <2>3 DEF AllTypeOK
<1> QED
  BY <1>1, AnyInvariance, PTL

\* Unlocked, as it is checked beside stores and clusters.
THEOREM AnyUnlocked == ASSUME AnyBounds PROVE AnySpec => []Unlocked
<1>1. AnyInv => Unlocked
  BY DEF AnyInv, IInv, Behind, Unlocked
<1> QED
  BY <1>1, AnyInvariance, PTL

\* A snapshot of the QA machines that passes or fails, and does not say that
\* a resume failed, has every machine running that ran when it began, those
\* it missed included; one that a signal ended has, unless its resuming
\* failed or was cut off, which it does not tell.
THEOREM ClustersResumed == ASSUME AnyBounds PROVE AnySpec => Resumed
<1>1. ASSUME AnyInv, [AnyNext]_<<vars, mcVars>>
      PROVE  [tool = "clusters" => Clusters!Resumed]_mcVars
  <2> SUFFICES ASSUME tool = "clusters", ~UNCHANGED mcVars
               PROVE  Clusters!Resumed
    OBVIOUS
  <2>1. ClusterProofs!Resumed
    BY <1>1, ClustersStep, SameBounds, ClusterProofs!Resuming
       DEF AnyInv, ClustersInv
  <2> QED
    BY <2>1, SameClusters
<1> QED
  BY <1>1, AnyInvariance, PTL DEF AnySpec, Resumed

\* A restore that passes, when the last snapshot command passed and missed no
\* machine, brings the machines that it does not miss itself back to the
\* snapshots of that one command, none of them taken while any machine ran.
THEOREM ClustersTogether ==
    ASSUME AnyBounds PROVE AnySpec => RestoredTogether
<1>1. ASSUME AnyInv, [AnyNext]_<<vars, mcVars>>
      PROVE  [tool = "clusters" => Clusters!RestoredTogether]_mcVars
  <2> SUFFICES ASSUME tool = "clusters", ~UNCHANGED mcVars
               PROVE  Clusters!RestoredTogether
    OBVIOUS
  <2>1. ClusterProofs!RestoredTogether
    BY <1>1, ClustersStep, SameBounds, ClusterProofs!Restoring
       DEF AnyInv, ClustersInv
  <2> QED
    BY <2>1, SameClusters
<1> QED
  BY <1>1, AnyInvariance, PTL DEF AnySpec, RestoredTogether

\* What cluster.py says it has done it has: Zipkin's user has the password of
\* its Secret, and after the services aggregate MinIO, both Secrets, the
\* services and the images agree; a merge of qa.py keeps the kubeconfig of
\* others and its backup.
THEOREM ClustersDone == ASSUME AnyBounds PROVE AnySpec => ClusterDone
<1>1. ASSUME AnyInv, [AnyNext]_<<vars, mcVars>>
      PROVE  [tool = "clusters" => /\ Clusters!ZipkinDone /\ Clusters!InStep
                                   /\ Clusters!PreviousKept]_mcVars
  <2> SUFFICES ASSUME tool = "clusters", ~UNCHANGED mcVars
               PROVE  /\ Clusters!ZipkinDone /\ Clusters!InStep
                      /\ Clusters!PreviousKept
    OBVIOUS
  <2>1. /\ ClusterProofs!IInv /\ ClusterProofs!Bounds
        /\ [ClusterProofs!Next]_(ClusterProofs!vars)
    BY <1>1, ClustersStep, SameBounds DEF AnyInv, ClustersInv
  <2>2. ClusterProofs!ZipkinDone
    BY <2>1, ClusterProofs!ZipkinSets
  <2>3. ClusterProofs!InStep
    BY <2>1, ClusterProofs!Agreeing
  <2>4. ClusterProofs!PreviousKept
    BY <2>1, ClusterProofs!Merging
  <2> QED
    BY <2>2, <2>3, <2>4, SameClusters
<1> QED
  BY <1>1, AnyInvariance, PTL DEF AnySpec, ClusterDone

\* Orderly commands, beside stores and clusters.
THEOREM AnyOrderly ==
    ASSUME AnyBounds PROVE AnySpec => []Orderly(world, run)
<1>1. AnyInit => Orderly(world, run)
  BY InitOrderly DEF AnyBounds, AnyInit
<1>2. AnyInv /\ Orderly(world, run) /\ [AnyNext]_<<vars, mcVars>> =>
        Orderly(world, run)'
  BY AnyStep, StepFollows DEF AnyInv, Follow
<1> QED
  BY <1>1, <1>2, AnyInvariance, PTL DEF AnySpec

\* Served, as it is checked beside stores and clusters.
THEOREM AnyServed == ASSUME AnyBounds PROVE AnySpec => Served
<1>1. AnyInv /\ Orderly(world, run) /\ [AnyNext]_<<vars, mcVars>> =>
        [/\ SaysServed("deploy") \/ SaysServed("verify") =>
                 /\ world'.dep.image = run.image
                 /\ Serving(world') \subseteq {run.image}
         /\ SaysServed("deploy") => Serving(world') # {}
         /\ SaysServed("stop") =>
                 /\ world'.dep.replicas = 0
                 /\ run.service = "product" => Current(world') = {}]_vars
  BY AnyStep, ClosingServed DEF AnyInv
<1> QED
  BY <1>1, AnyInvariance, AnyOrderly, PTL DEF AnySpec, Served

StoresKept == tool = "stores" => Stores!ForwardStopped

LEMMA SameForward == Proofs!ForwardStopped => Stores!ForwardStopped
BY Zenon DEF Proofs!ForwardStopped, Proofs!Running, Stores!ForwardStopped,
             Stores!Running

\* What a command made for itself is gone when it ends and does not say
\* otherwise: a store script's forward and setup Pod, a cluster command's
\* tokens, root credentials and forwards (when it fails or is interrupted:
\* unless its clean-up left what it does not tell), a verification's Pods,
\* namespace and forwards, for any number of commands, failures, signals and
\* changes.
THEOREM AnyNothingLeft == ASSUME AnyBounds PROVE AnySpec => NothingLeft
<1>0. AnyInv => StoresKept
  BY Proofs!Stopping, SameForward DEF AnyInv, StoresInv, StoresKept
<1>1. ASSUME AnyInv, StoresKept', [AnyNext]_<<vars, mcVars>>
      PROVE  [/\ tool = "stores" => Stores!ForwardStopped'
              /\ tool = "clusters" => Clusters!ProtectedGone]_mcVars
  <2>1. tool = "stores" => Stores!ForwardStopped'
    BY <1>1, AnyStep DEF StoresKept
  <2>2. ASSUME tool = "clusters", ~UNCHANGED mcVars
        PROVE  Clusters!ProtectedGone
    <3>1. ClusterProofs!ProtectedGone
      BY <1>1, <2>2, ClustersStep, SameBounds, ClusterProofs!Cleaned
         DEF AnyInv, ClustersInv
    <3> QED
      BY <3>1, SameClusters
  <2> QED
    BY <2>1, <2>2
<1>2. AnyInv /\ Orderly(world, run) /\ [AnyNext]_<<vars, mcVars>> =>
        [Reports /\ run.script = "verify" /\ run'.verdict # "killed" =>
           \/ run'.lost /\ run'.verdict # "passed"
           \/ run.operations > 1
           \/ world'.probes = {} /\ ~world'.forwards]_vars
  BY AnyStep, ClosingGone DEF AnyInv
<1> QED
  BY <1>0, <1>1, <1>2, AnyInvariance, AnyOrderly, PTL
     DEF AnySpec, NothingLeft, ProbesGone
=============================================================================
