--------------------- MODULE DisposableDeploymentProofs ---------------------
(***************************************************************************)
(* Proofs about DisposableDeployment: its type invariant, and that the     *)
(* scripts implement the safety part of OwnedEnvironment: a script that    *)
(* says "passed" has removed the namespace and the probe image, and one    *)
(* that says "failed" those that it had noted as its own, whatever step    *)
(* failed before, was refused or was cut short, and however far behind the *)
(* controllers are.  And that the policy-search's restart ends with        *)
(* another Pod than the one it deleted.                                    *)
(*                                                                         *)
(* The refinement says nothing of the finally blocks while they run; the   *)
(* invariant IInv does (Ahead): in every state of a finally block, what is *)
(* left of it still begins with, or has come behind, the removal of each   *)
(* thing that is owned.  A namespace that is gone stays gone, because no   *)
(* controller and no step of a finally block creates one, and that is what *)
(* lets the policy-search go on to its image.  That a script which passed  *)
(* has noted all that it made is Noting: the note is taken, or is one of   *)
(* the steps to come.                                                      *)
(*                                                                         *)
(* For the restart the invariant follows the body of the policy-search     *)
(* (Replacing): which step it has come to by the number of those left,     *)
(* what it knows of the Pod that it deletes, and that Pods get new numbers *)
(* and a template with the worker.                                         *)
(*                                                                         *)
(* First come facts about the finally blocks, then what a call does to the *)
(* cluster (EffectOK) and to the script's variables (LearnsOK), where a    *)
(* step of the script leads (ScriptOK), what the controllers may do in     *)
(* between (ControllersOK), how the restart proceeds (ReplacingOK,         *)
(* BehindReplacing), and that the scripts consist of steps.                *)
(***************************************************************************)
EXTENDS DisposableDeployment, SequenceTheorems, TLAPS

\* There is a Pod; the bounds on faults and kills may be anything.
Bounds == MaxPods \in Nat \ {0}

-----------------------------------------------------------------------------
(* The types of the cluster and of the script.                             *)

Services == {"dashboard", "policy-search", "product"}
PodState == {"absent", "starting", "ready", "unready", "terminating"}
World == [namespace : {"absent", "present", "terminating"}, image : BOOLEAN,
          elastic : {"absent", "down", "starting", "listening", "serving"},
          data : BOOLEAN, restarts : {0, 1},
          kafka : {"absent", "starting", "listening", "serving"},
          certified : BOOLEAN, topic : BOOLEAN, produced : BOOLEAN,
          projected : BOOLEAN, template : BOOLEAN, replicas : {0, 1},
          generation : Nat, observed : Nat, available : BOOLEAN,
          created : 0 .. MaxPods, pods : [Pod -> PodState],
          events : [Pod -> BOOLEAN], slice : SUBSET Pod,
          table : {"absent", "created", "granted", "seeded"},
          gate : {"absent", "open", "closed"}, reached : BOOLEAN]
\* Everything that a step may be.
Name == {"load images", "create namespace", "own", "apply",
         "elastic rollout", "elastic setup", "app rollout", "endpoint ready",
         "denied by elastic", "query", "identity", "certificates",
         "kafka apply", "kafka rollout", "kafka ready", "kafka topic",
         "produce", "projection", "kafka tls", "permitted by elastic",
         "apply events", "pick pod", "elastic stop", "endpoint withdrawn",
         "unready pod", "elastic start", "delete pod", "build image",
         "own image", "elastic apply", "elastic serving", "endpoint now",
         "note restarts", "kill elastic", "one pod", "elastic restarted",
         "pod gone", "scale to zero", "roles", "missing config",
         "absent schema", "create table", "absent grant", "grant",
         "invalid credential", "unavailable store", "open gate",
         "gate ready", "apply product", "app available", "empty list",
         "seed", "close gate", "gate withdrawn", "end connections",
         "annotate", "one pod available", "reads in flight", "not accepting",
         "reads drained", "another pod", "unchanged", "find owner",
         "delete namespace", "namespace gone", "remove image"}
\* What the bodies are made of: only the policy-search builds an image of its
\* own and scales, and it never deploys a template without the worker.
Steps(service) ==
    IF service = "policy-search"
    THEN Name \ {"apply", "apply product", "annotate", "delete namespace"}
    ELSE Name \ {"build image", "own image", "scale to zero"}
Run == [service : Services, phase : {"body", "cleanup", "ended"},
        verdict : {"none", "passed", "failed", "left over", "killed"},
        todo : Seq(Name), owns : BOOLEAN, probe : BOOLEAN,
        closed : BOOLEAN, pod : Pod, reading : Pod, deleted : Pod \cup {0},
        restarts : {0, 1}, faults : Nat, kills : Nat]

\* An absent namespace has nothing in it.
Emptied(w) ==
    w.namespace = "absent" =>
        w.slice = {} /\ \A p \in Pod : w.pods[p] = "absent"
\* Verdicts belong to the finally block and what is after it; there are
\* steps left until the end.
Ending(r) ==
    /\ (r.phase = "body") = (r.verdict = "none")
    /\ (r.phase = "ended") = (r.todo = <<>>)
\* Only the policy-search has an image to remove.
Probing(r) ==
    /\ r.probe => r.service = "policy-search"
    /\ r.phase = "body" => r.todo \in Seq(Steps(r.service))

-----------------------------------------------------------------------------
(* The invariant.                                                          *)

\* What may be left of a finally block.
RemoveAll == <<"delete namespace", "namespace gone", "remove image">>
RemoveRest == <<"namespace gone", "remove image">>
RemoveImage == <<"remove image">>
Delete == <<"delete namespace", "namespace gone">>
Gone == <<"namespace gone">>
FindOwner == <<"find owner", "delete namespace", "namespace gone">>
OpenGate == <<"open gate", "find owner", "delete namespace", "namespace gone">>

\* In a finally block, the removal of what is owned is under way or ahead.
\* (The policy-search alone goes on after its namespace: when that is gone,
\* or when its deletion failed and the verdict is "left over".)
Ahead(w, r) ==
    \/ /\ r.service = "dashboard" /\ r.owns
       /\ r.todo \in {Delete, Gone}
       /\ r.verdict \in {"passed", "failed"}
    \/ /\ r.service = "product" /\ r.owns
       /\ r.todo \in {OpenGate, FindOwner, Delete, Gone}
       /\ r.verdict \in {"passed", "failed"}
    \/ /\ r.service = "policy-search"
       /\ \/ /\ r.owns /\ r.probe /\ r.todo \in {RemoveAll, RemoveRest}
             /\ r.verdict \in {"passed", "failed"}
          \/ /\ r.owns /\ ~r.probe /\ r.todo \in {Delete, Gone}
             /\ r.verdict \in {"passed", "failed"}
          \/ /\ r.probe /\ r.todo = RemoveImage
             /\ \/ /\ r.verdict \in {"passed", "failed"}
                   /\ r.owns => w.namespace = "absent"
                \/ r.verdict = "left over"

Good(w, r) ==
    /\ w \in World /\ r \in Run
    /\ Emptied(w) /\ Ending(r) /\ Probing(r)
    /\ r.phase = "cleanup" => Ahead(w, r)

\* The Pods of the policy-search: all that exist were created by a number
\* that is used up, from a template with the event worker.
PodsOfTemplate(w) ==
    /\ w.namespace # "terminating"
    /\ w.replicas = 1 => w.template = TRUE
    /\ \A p \in Pod : w.pods[p] # "absent" =>
                        p <= w.created /\ w.events[p] = TRUE
\* Its restart begins ten steps before the end.
Restarting(t) ==
    /\ Len(t) >= 10 => t[Len(t) - 9] = "pick pod"
    /\ Len(t) >= 9 => t[Len(t) - 8] = "delete pod"
    /\ Len(t) >= 8 => t[Len(t) - 7] = "pod gone"
    /\ Len(t) >= 7 => t[Len(t) - 6] = "app rollout"
    /\ Len(t) >= 6 => t[Len(t) - 5] = "query"
\* What it knows of the Pod that it deletes.
Deleting(w, r) ==
    /\ Len(r.todo) \in {8, 9} => r.pod <= w.created
    /\ Len(r.todo) = 8 => r.deleted = r.pod
    /\ Len(r.todo) \in {6, 7} =>
          /\ r.deleted \in Pod /\ r.deleted <= w.created
          /\ w.pods[r.deleted] = "absent"
Replacing(w, r) ==
    r.service = "policy-search" /\ r.phase = "body" =>
        PodsOfTemplate(w) /\ Restarting(r.todo) /\ Deleting(w, r)

\* What a script makes it notes as its own, by a step of its body.
Waits(t, s) == \E i \in 1 .. Len(t) : t[i] = s
NotedAll(r) == r.owns /\ (r.service = "policy-search" => r.probe)
Noting(w, r) ==
    /\ w.image => r.service = "policy-search"
    /\ r.phase = "body" =>
          /\ r.owns \/ Waits(r.todo, "own")
          /\ r.service = "policy-search" =>
                r.probe \/ Waits(r.todo, "own image")
    /\ r.verdict = "passed" => NotedAll(r)

IInv == Good(world, run) /\ Replacing(world, run) /\ Noting(world, run)

-----------------------------------------------------------------------------
(* Heads and tails of the finally blocks, of which the prover must be told *)
(* one length at a time.                                                   *)

LEMMA Tuple2 ==
    ASSUME NEW a, NEW b
    PROVE  /\ Head(<<a, b>>) = a /\ Tail(<<a, b>>) = <<b>>
           /\ Len(<<a, b>>) = 2 /\ Last(<<a, b>>) = b
  BY DEF Last

LEMMA Tuple3 ==
    ASSUME NEW a, NEW b, NEW c
    PROVE  /\ Head(<<a, b, c>>) = a /\ Tail(<<a, b, c>>) = <<b, c>>
           /\ Len(<<a, b, c>>) = 3
  OBVIOUS

LEMMA Tuple4 ==
    ASSUME NEW a, NEW b, NEW c, NEW d
    PROVE  /\ Head(<<a, b, c, d>>) = a /\ Tail(<<a, b, c, d>>) = <<b, c, d>>
           /\ Len(<<a, b, c, d>>) = 4
  OBVIOUS

LEMMA TuplesAreSeqs ==
    ASSUME NEW S, NEW a \in S, NEW b \in S, NEW c \in S, NEW d \in S
    PROVE  /\ <<a>> \in Seq(S) /\ <<a, b>> \in Seq(S)
           /\ <<a, b, c>> \in Seq(S) /\ <<a, b, c, d>> \in Seq(S)
           /\ <<a>> # <<>> /\ <<a, b>> # <<>>
           /\ <<a, b, c>> # <<>> /\ <<a, b, c, d>> # <<>>
  OBVIOUS

\* The first step of what is left of a finally block, and the rest.
First(t, s, rest) ==
    /\ t \in Seq(Name) /\ t # <<>> /\ Head(t) = s
    /\ IF rest = <<>> THEN Len(t) = 1 ELSE Len(t) > 1 /\ Tail(t) = rest

LEMMA Tuple1 == ASSUME NEW a PROVE Head(<<a>>) = a /\ Len(<<a>>) = 1
  OBVIOUS

LEMMA FirstOf1 == ASSUME NEW a \in Name PROVE First(<<a>>, a, <<>>)
  BY Tuple1, TuplesAreSeqs DEF First

LEMMA FirstOf2 ==
    ASSUME NEW a \in Name, NEW b \in Name PROVE First(<<a, b>>, a, <<b>>)
<1>1. <<a, b>> \in Seq(Name) /\ <<a, b>> # <<>> /\ <<b>> # <<>>
  BY TuplesAreSeqs
<1>2. /\ Head(<<a, b>>) = a /\ Tail(<<a, b>>) = <<b>>
      /\ Len(<<a, b>>) = 2
  BY Tuple2, Zenon
<1>3. Len(<<a, b>>) > 1
  BY <1>2
<1> QED
  BY <1>1, <1>2, <1>3, Zenon DEF First

LEMMA FirstOf3 ==
    ASSUME NEW a \in Name, NEW b \in Name, NEW c \in Name
    PROVE  First(<<a, b, c>>, a, <<b, c>>)
<1>1. <<a, b, c>> \in Seq(Name) /\ <<a, b, c>> # <<>> /\ <<b, c>> # <<>>
  BY TuplesAreSeqs
<1>2. /\ Head(<<a, b, c>>) = a /\ Tail(<<a, b, c>>) = <<b, c>>
      /\ Len(<<a, b, c>>) = 3
  BY Tuple3, Zenon
<1>3. Len(<<a, b, c>>) > 1
  BY <1>2
<1> QED
  BY <1>1, <1>2, <1>3, Zenon DEF First

LEMMA FirstOf4 ==
    ASSUME NEW a \in Name, NEW b \in Name, NEW c \in Name,
           NEW d \in Name
    PROVE  First(<<a, b, c, d>>, a, <<b, c, d>>)
<1>1. /\ <<a, b, c, d>> \in Seq(Name) /\ <<a, b, c, d>> # <<>>
      /\ <<b, c, d>> # <<>>
  BY TuplesAreSeqs
<1>2. /\ Head(<<a, b, c, d>>) = a /\ Tail(<<a, b, c, d>>) = <<b, c, d>>
      /\ Len(<<a, b, c, d>>) = 4
  BY Tuple4
<1>3. Len(<<a, b, c, d>>) > 1
  BY <1>2
<1> QED
  BY <1>1, <1>2, <1>3, Zenon DEF First

LEMMA CleanupParts ==
    /\ First(OpenGate, "open gate", FindOwner)
    /\ First(FindOwner, "find owner", Delete)
    /\ First(Delete, "delete namespace", Gone)
    /\ First(Gone, "namespace gone", <<>>)
    /\ First(RemoveAll, "delete namespace", RemoveRest)
    /\ First(RemoveRest, "namespace gone", RemoveImage)
    /\ First(RemoveImage, "remove image", <<>>)
    /\ Last(Delete) = "namespace gone" /\ Last(Gone) = "namespace gone"
<1>0. /\ "open gate" \in Name /\ "find owner" \in Name
      /\ "delete namespace" \in Name /\ "namespace gone" \in Name
      /\ "remove image" \in Name
  BY DEF Name
<1>1. First(OpenGate, "open gate", FindOwner)
  BY <1>0, FirstOf4, Zenon DEF OpenGate, FindOwner
<1>2. First(FindOwner, "find owner", Delete)
  BY <1>0, FirstOf3, Zenon DEF FindOwner, Delete
<1>3. First(Delete, "delete namespace", Gone)
  BY <1>0, FirstOf2, Zenon DEF Delete, Gone
<1>4. First(Gone, "namespace gone", <<>>)
  BY <1>0, FirstOf1, Zenon DEF Gone
<1>5. First(RemoveAll, "delete namespace", RemoveRest)
  BY <1>0, FirstOf3, Zenon DEF RemoveAll, RemoveRest
<1>6. First(RemoveRest, "namespace gone", RemoveImage)
  BY <1>0, FirstOf2, Zenon DEF RemoveRest, RemoveImage
<1>7. First(RemoveImage, "remove image", <<>>)
  BY <1>0, FirstOf1, Zenon DEF RemoveImage
<1>8. Last(Delete) = "namespace gone" /\ Last(Gone) = "namespace gone"
  BY Tuple2 DEF Last, Delete, Gone
<1> QED
  BY <1>1, <1>2, <1>3, <1>4, <1>5, <1>6, <1>7, <1>8

LEMMA Concat13 ==
    ASSUME NEW a, NEW b, NEW c, NEW d
    PROVE  <<a, b, c, d>> = <<a>> \o <<b, c, d>>
  OBVIOUS

LEMMA Concat21 ==
    ASSUME NEW a, NEW b, NEW c PROVE <<a, b, c>> = <<a, b>> \o <<c>>
  OBVIOUS

LEMMA ConcatNone ==
    ASSUME NEW a, NEW b, NEW c
    PROVE  /\ <<a, b, c>> = <<>> \o <<a, b, c>>
           /\ <<a, b>> = <<a, b>> \o <<>>
           /\ <<a>> = <<>> \o <<a>>
           /\ <<>> = <<>> \o <<>>
<1> DEFINE S == {a, b, c}
<1>1. /\ <<>> \in Seq(S) /\ <<a>> \in Seq(S) /\ <<a, b>> \in Seq(S)
      /\ <<a, b, c>> \in Seq(S)
  OBVIOUS
<1> HIDE DEF S
<1>2. \A t \in Seq(S) : <<>> \o t = t /\ t \o <<>> = t
  BY ConcatEmptySeq
<1> QED
  BY ONLY <1>1, <1>2, Zenon

LEMMA CleanupFacts ==
    /\ Head(OpenGate) = "open gate" /\ Head(FindOwner) = "find owner"
    /\ Head(Delete) = "delete namespace" /\ Head(Gone) = "namespace gone"
    /\ Head(RemoveAll) = "delete namespace"
    /\ Head(RemoveRest) = "namespace gone"
    /\ Head(RemoveImage) = "remove image"
    /\ Len(OpenGate) > 1 /\ Len(FindOwner) > 1 /\ Len(Delete) > 1
    /\ Len(RemoveAll) > 1 /\ Len(RemoveRest) > 1
    /\ ~(Len(Gone) > 1) /\ ~(Len(RemoveImage) > 1)
    /\ Tail(OpenGate) = FindOwner /\ Tail(FindOwner) = Delete
    /\ Tail(Delete) = Gone /\ Tail(RemoveAll) = RemoveRest
    /\ Tail(RemoveRest) = RemoveImage
<1>1. /\ FindOwner # <<>> /\ Delete # <<>> /\ Gone # <<>>
      /\ RemoveRest # <<>> /\ RemoveImage # <<>>
  BY CleanupParts DEF First
<1>2. /\ Head(OpenGate) = "open gate" /\ Len(OpenGate) > 1
      /\ Tail(OpenGate) = FindOwner
  BY <1>1, CleanupParts, Zenon DEF First
<1>3. /\ Head(FindOwner) = "find owner" /\ Len(FindOwner) > 1
      /\ Tail(FindOwner) = Delete
  BY <1>1, CleanupParts, Zenon DEF First
<1>4. /\ Head(Delete) = "delete namespace" /\ Len(Delete) > 1
      /\ Tail(Delete) = Gone
  BY <1>1, CleanupParts, Zenon DEF First
<1>5. Head(Gone) = "namespace gone" /\ Len(Gone) = 1
  BY <1>1, CleanupParts, Zenon DEF First
<1>6. /\ Head(RemoveAll) = "delete namespace" /\ Len(RemoveAll) > 1
      /\ Tail(RemoveAll) = RemoveRest
  BY <1>1, CleanupParts, Zenon DEF First
<1>7. /\ Head(RemoveRest) = "namespace gone" /\ Len(RemoveRest) > 1
      /\ Tail(RemoveRest) = RemoveImage
  BY <1>1, CleanupParts, Zenon DEF First
<1>8. Head(RemoveImage) = "remove image" /\ Len(RemoveImage) = 1
  BY <1>1, CleanupParts, Zenon DEF First
<1>9. ~(Len(Gone) > 1) /\ ~(Len(RemoveImage) > 1)
  <2>1. \A n : n = 1 => ~(n > 1)
    OBVIOUS
  <2> QED
    BY <1>5, <1>8, <2>1, Zenon
<1> QED
  BY <1>2, <1>3, <1>4, <1>5, <1>6, <1>7, <1>8, <1>9, Zenon

\* The finally blocks as the code puts them together.
LEMMA ProductCleanupIs ==
    ASSUME NEW c \in BOOLEAN
    PROVE  ProductCleanup(c) = IF c THEN OpenGate ELSE FindOwner
<1>1. <<"open gate">> \o <<"find owner", "delete namespace", "namespace gone">>
      = OpenGate
  BY Concat13, Zenon DEF OpenGate
<1>2. <<>> \o <<"find owner", "delete namespace", "namespace gone">>
      = FindOwner
  BY ConcatNone, Zenon DEF FindOwner
<1> QED
  BY <1>1, <1>2, Zenon DEF ProductCleanup

LEMMA SearchCleanupIs ==
    ASSUME NEW o \in BOOLEAN, NEW p \in BOOLEAN
    PROVE  SearchCleanup(o, p) =
               IF o THEN IF p THEN RemoveAll ELSE Delete
               ELSE IF p THEN RemoveImage ELSE <<>>
<1>1. <<"delete namespace", "namespace gone">> \o <<"remove image">>
      = RemoveAll
  BY Concat21, Zenon DEF RemoveAll
<1>2. <<"delete namespace", "namespace gone">> \o <<>> = Delete
  BY ConcatNone, Zenon DEF Delete
<1>3. <<>> \o <<"remove image">> = RemoveImage
  BY ConcatNone, Zenon DEF RemoveImage
<1>4. <<>> \o <<>> = <<>>
  BY ConcatNone, Zenon
<1> QED
  BY <1>1, <1>2, <1>3, <1>4, Zenon DEF SearchCleanup

LEMMA CleanupIs ==
    ASSUME NEW r \in Run
    PROVE  /\ r.service = "dashboard" =>
                 Cleanup(r) = IF r.owns THEN Delete ELSE <<>>
           /\ r.service = "product" =>
                 Cleanup(r) = IF ~r.owns THEN <<>>
                              ELSE IF r.closed THEN OpenGate ELSE FindOwner
           /\ r.service = "policy-search" =>
                 Cleanup(r) = IF r.owns
                              THEN IF r.probe THEN RemoveAll ELSE Delete
                              ELSE IF r.probe THEN RemoveImage ELSE <<>>
<1>1. r.owns \in BOOLEAN /\ r.probe \in BOOLEAN /\ r.closed \in BOOLEAN
  BY DEF Run
<1>2. ProductCleanup(r.closed) = IF r.closed THEN OpenGate ELSE FindOwner
  BY <1>1, ProductCleanupIs
<1>3. SearchCleanup(r.owns, r.probe) =
          IF r.owns THEN IF r.probe THEN RemoveAll ELSE Delete
          ELSE IF r.probe THEN RemoveImage ELSE <<>>
  BY <1>1, SearchCleanupIs
<1>4. DashboardCleanup = Delete
  BY DEF DashboardCleanup, Delete
<1> QED
  BY <1>1, <1>2, <1>3, <1>4 DEF Cleanup, Run, Services

-----------------------------------------------------------------------------
(* What a call does.                                                       *)

\* A call changes the namespace, the image and the Deployment only in these
\* ways; it creates no Pod.
Changes(w, v, s) ==
    /\ v \in World
    /\ Emptied(w) => Emptied(v)
    /\ v.namespace = IF s = "create namespace" THEN "present"
                     ELSE IF s = "delete namespace" /\ w.namespace # "absent"
                     THEN "terminating" ELSE w.namespace
    /\ v.image = IF s = "build image" THEN TRUE
                 ELSE IF s = "remove image" THEN FALSE ELSE w.image
    /\ v.events = w.events /\ v.created = w.created
    /\ \A p \in Pod : w.pods[p] = "absent" => v.pods[p] = "absent"
    /\ s \notin {"apply", "apply events", "apply product", "annotate",
                 "scale to zero"} =>
           v.template = w.template /\ v.replicas = w.replicas
    /\ s = "apply events" => v.template = TRUE
    /\ s = "scale to zero" => v.replicas = 0

\* A change to anything but the namespace, the image and the Pods.
Apart(w, v) ==
    /\ v \in World
    /\ v.namespace = w.namespace /\ v.image = w.image
    /\ v.pods = w.pods /\ v.slice = w.slice
    /\ v.events = w.events /\ v.created = w.created
\* And not to the Deployment either.
Plain(w, v) ==
    Apart(w, v) /\ v.template = w.template /\ v.replicas = w.replicas

LEMMA ApartField ==
    ASSUME NEW w \in World
    PROVE  /\ \A x \in BOOLEAN : Apart(w, [w EXCEPT !.template = x])
           /\ \A x \in {0, 1} : Apart(w, [w EXCEPT !.replicas = x])
           /\ \A x \in Nat : Apart(w, [w EXCEPT !.generation = x])
<1>1. \A x \in BOOLEAN : Apart(w, [w EXCEPT !.template = x])
  BY DEF Apart, World
<1>2. \A x \in {0, 1} : Apart(w, [w EXCEPT !.replicas = x])
  BY DEF Apart, World
<1>3. \A x \in Nat : Apart(w, [w EXCEPT !.generation = x])
  BY DEF Apart, World
<1> QED
  BY <1>1, <1>2, <1>3

LEMMA PlainField ==
    ASSUME NEW w \in World
    PROVE  /\ \A x \in {"absent", "down", "starting", "listening", "serving"} :
                 Plain(w, [w EXCEPT !.elastic = x])
           /\ \A x \in {"absent", "starting", "listening", "serving"} :
                 Plain(w, [w EXCEPT !.kafka = x])
           /\ \A x \in {"absent", "created", "granted", "seeded"} :
                 Plain(w, [w EXCEPT !.table = x])
           /\ \A x \in {"absent", "open", "closed"} :
                 Plain(w, [w EXCEPT !.gate = x])
           /\ \A x \in BOOLEAN :
                 /\ Plain(w, [w EXCEPT !.data = x])
                 /\ Plain(w, [w EXCEPT !.certified = x])
                 /\ Plain(w, [w EXCEPT !.topic = x])
                 /\ Plain(w, [w EXCEPT !.produced = x])
                 /\ Plain(w, [w EXCEPT !.projected = x])
                 /\ Plain(w, [w EXCEPT !.available = x])
                 /\ Plain(w, [w EXCEPT !.reached = x])
           /\ \A x \in {0, 1} : Plain(w, [w EXCEPT !.restarts = x])
           /\ \A x \in Nat : Plain(w, [w EXCEPT !.observed = x])
<1>1. \A x \in {"absent", "down", "starting", "listening", "serving"} :
         Plain(w, [w EXCEPT !.elastic = x])
  BY DEF Plain, Apart, World
<1>2. \A x \in {"absent", "starting", "listening", "serving"} :
         Plain(w, [w EXCEPT !.kafka = x])
  BY DEF Plain, Apart, World
<1>3. \A x \in {"absent", "created", "granted", "seeded"} :
         Plain(w, [w EXCEPT !.table = x])
  BY DEF Plain, Apart, World
<1>4. \A x \in {"absent", "open", "closed"} :
         Plain(w, [w EXCEPT !.gate = x])
  BY DEF Plain, Apart, World
<1>5. \A x \in BOOLEAN : Plain(w, [w EXCEPT !.data = x])
  BY DEF Plain, Apart, World
<1>6. \A x \in BOOLEAN : Plain(w, [w EXCEPT !.certified = x])
  BY DEF Plain, Apart, World
<1>7. \A x \in BOOLEAN : Plain(w, [w EXCEPT !.topic = x])
  BY DEF Plain, Apart, World
<1>8. \A x \in BOOLEAN : Plain(w, [w EXCEPT !.produced = x])
  BY DEF Plain, Apart, World
<1>9. \A x \in BOOLEAN : Plain(w, [w EXCEPT !.projected = x])
  BY DEF Plain, Apart, World
<1>10. \A x \in BOOLEAN : Plain(w, [w EXCEPT !.available = x])
  BY DEF Plain, Apart, World
<1>11. \A x \in BOOLEAN : Plain(w, [w EXCEPT !.reached = x])
  BY DEF Plain, Apart, World
<1>12. \A x \in {0, 1} : Plain(w, [w EXCEPT !.restarts = x])
  BY DEF Plain, Apart, World
<1>13. \A x \in Nat : Plain(w, [w EXCEPT !.observed = x])
  BY DEF Plain, Apart, World
<1> QED
  BY <1>1, <1>2, <1>3, <1>4, <1>5, <1>6, <1>7, <1>8, <1>9, <1>10, <1>11,
     <1>12, <1>13

LEMMA ApartChanges ==
    ASSUME NEW w \in World, NEW v, Apart(w, v),
           NEW s \in {"apply", "apply events", "apply product", "annotate",
                      "scale to zero"},
           s = "apply events" => v.template = TRUE,
           s = "scale to zero" => v.replicas = 0
    PROVE  Changes(w, v, s)
  BY DEF Apart, Changes, Emptied

LEMMA PlainChanges ==
    ASSUME NEW w \in World, NEW v, Plain(w, v), NEW s,
           s \notin {"create namespace", "delete namespace", "build image",
                     "remove image", "apply events", "scale to zero"}
    PROVE  Changes(w, v, s)
  BY DEF Plain, Apart, Changes, Emptied

LEMMA ApartTwice ==
    ASSUME NEW u, NEW v, NEW w, Apart(u, v), Apart(v, w)
    PROVE  Apart(u, w)
  BY DEF Apart

LEMMA PlainTwice ==
    ASSUME NEW u, NEW v, NEW w, Plain(u, v), Plain(v, w)
    PROVE  Plain(u, w)
  BY DEF Plain, Apart

LEMMA AppliedApart ==
    ASSUME NEW w \in World, NEW e \in BOOLEAN
    PROVE  Apart(w, Applied(w, e)) /\ Applied(w, e).template = e
<1>1. CASE w.template = e /\ w.replicas = 1
  BY <1>1 DEF Applied, Apart
<1>2. CASE ~(w.template = e /\ w.replicas = 1)
  <2> DEFINE a == [w EXCEPT !.template = e]
             b == [a EXCEPT !.replicas = 1]
             c == [b EXCEPT !.generation = w.generation + 1]
  <2>1. Applied(w, e) = c
    BY <1>2 DEF Applied
  <2>2. w.generation + 1 \in Nat
    BY DEF World
  <2>3. Apart(w, a) /\ a \in World
    BY ApartField DEF Apart
  <2>4. a.template = e
    BY DEF World
  <2> HIDE DEF a
  <2>5. Apart(a, b) /\ b \in World
    BY <2>3, ApartField DEF Apart
  <2>6. b.template = e
    BY <2>3, <2>4 DEF World
  <2> HIDE DEF b
  <2>7. Apart(b, c)
    BY <2>2, <2>5, ApartField
  <2>8. c.template = e
    BY <2>5, <2>6 DEF World
  <2> HIDE DEF c
  <2> QED
    BY <2>1, <2>3, <2>5, <2>7, <2>8, ApartTwice
<1> QED
  BY <1>1, <1>2

LEMMA ElasticPlain ==
    ASSUME NEW w \in World, NEW x \in {"absent", "starting"}
    PROVE  Plain(w, [w EXCEPT !.elastic = x, !.data = FALSE])
<1> DEFINE a == [w EXCEPT !.elastic = x]
<1>0. x \in {"absent", "down", "starting", "listening", "serving"}
  OBVIOUS
<1>1. Plain(w, a)
  BY <1>0, PlainField
<1> HIDE DEF a
<1>2. Plain(a, [a EXCEPT !.data = FALSE])
  BY <1>1, PlainField DEF Plain, Apart
<1>3. [a EXCEPT !.data = FALSE] = [w EXCEPT !.elastic = x, !.data = FALSE]
  BY DEF a
<1> QED
  BY <1>1, <1>2, <1>3, PlainTwice, Zenon

\* The effect of each step, one case for each object that it changes.
LEMMA EffectOK ==
    ASSUME Bounds, NEW w \in World, NEW r \in Run, NEW s \in Name
    PROVE  Changes(w, Effect(w, r, s), s)
<1> DEFINE v == Effect(w, r, s)
           E == ElasticStarting(w)
<1>1. Plain(w, E) /\ E \in World
  BY ElasticPlain DEF ElasticStarting, Plain, Apart
<1> HIDE DEF E
<1>3. CASE s = "create namespace"
  <2>1. v = [w EXCEPT !.namespace = "present"]
    BY <1>3 DEF Effect
  <2> QED
    BY <1>3, <2>1 DEF World, Emptied, Changes
<1>4. CASE s = "apply"
  <2>1. v = Applied(E, FALSE)
    BY <1>4 DEF Effect, E
  <2> HIDE DEF v
  <2>2. Apart(w, v)
    BY <1>1, <2>1, AppliedApart, ApartTwice DEF Plain
  <2> QED
    BY <1>4, <2>2, ApartChanges DEF v
<1>5. CASE s \in {"apply events", "apply product", "annotate"}
  <2>1. v = Applied(w, s # "apply product")
    BY <1>5 DEF Effect
  <2>2. (s # "apply product") \in BOOLEAN
    OBVIOUS
  <2> HIDE DEF v
  <2>3. Apart(w, v) /\ v.template = (s # "apply product")
    BY <2>1, <2>2, AppliedApart
  <2> QED
    BY <1>5, <2>3, ApartChanges DEF v
<1>6. CASE s \in {"elastic apply", "elastic start"}
  <2>1. v = E
    BY <1>6 DEF Effect, E, ElasticStarting, SearchElasticStarting
  <2> QED
    BY <1>1, <1>6, <2>1, PlainChanges
<1>7. CASE s \in {"elastic stop", "kill elastic", "elastic setup"}
  <2>1. CASE s = "elastic stop"
    <3>1. v = [w EXCEPT !.elastic = "absent", !.data = FALSE]
      BY <2>1 DEF Effect
    <3> QED
      BY <2>1, <3>1, ElasticPlain, PlainChanges
  <2>2. CASE s = "kill elastic"
    <3>1. v = [w EXCEPT !.elastic = "down"]
      BY <2>2 DEF Effect
    <3> QED
      BY <2>2, <3>1, PlainField, PlainChanges
  <2>3. CASE s = "elastic setup"
    <3>1. v = [w EXCEPT !.data = TRUE]
      BY <2>3 DEF Effect
    <3> QED
      BY <2>3, <3>1, PlainField, PlainChanges
  <2> QED
    BY <1>7, <2>1, <2>2, <2>3
<1>8. CASE s \in {"create table", "grant", "seed"}
  <2> DEFINE t == IF s = "create table" THEN "created"
                  ELSE IF s = "grant" THEN "granted" ELSE "seeded"
  <2>1. v = [w EXCEPT !.table = t]
    BY <1>8 DEF Effect
  <2>2. t \in {"absent", "created", "granted", "seeded"}
    OBVIOUS
  <2> HIDE DEF t, v
  <2>3. Plain(w, v)
    BY <2>1, <2>2, PlainField
  <2> QED
    BY <1>8, <2>3, PlainChanges DEF v
<1>9. CASE s = "open gate"
  <2> DEFINE a == [w EXCEPT !.gate = "open"]
  <2>1. v = [a EXCEPT !.reached = TRUE]
    BY <1>9 DEF Effect
  <2>2. Plain(w, a) /\ a \in World
    BY PlainField DEF Plain, Apart
  <2> HIDE DEF a, v
  <2>3. Plain(a, v)
    BY <2>1, <2>2, PlainField
  <2> QED
    BY <1>9, <2>2, <2>3, PlainTwice, PlainChanges DEF v
<1>10. CASE s \in {"close gate", "end connections"}
  <2>1. v = IF s = "close gate" THEN [w EXCEPT !.gate = "closed"]
            ELSE [w EXCEPT !.reached = FALSE]
    BY <1>10 DEF Effect
  <2> HIDE DEF v
  <2>2. Plain(w, v)
    BY <2>1, PlainField
  <2> QED
    BY <1>10, <2>2, PlainChanges DEF v
<1>11. CASE s \in {"certificates", "kafka apply", "kafka topic", "produce"}
  <2>1. v = IF s = "certificates" THEN [w EXCEPT !.certified = TRUE]
            ELSE IF s = "kafka apply" THEN [w EXCEPT !.kafka = "starting"]
            ELSE IF s = "kafka topic" THEN [w EXCEPT !.topic = TRUE]
            ELSE [w EXCEPT !.produced = TRUE]
    BY <1>11 DEF Effect, Certified, KafkaStarting
  <2> HIDE DEF v
  <2>2. Plain(w, v)
    BY <2>1, PlainField
  <2> QED
    BY <1>11, <2>2, PlainChanges DEF v
<1>12. CASE s = "delete pod"
  <2> DEFINE q == IF w.pods[r.pod] = "absent" THEN "absent" ELSE "terminating"
             f == [w.pods EXCEPT ![r.pod] = q]
  <2>1. v = [w EXCEPT !.pods = f]
    BY <1>12 DEF Effect
  <2>2. w.pods \in [Pod -> PodState] /\ r.pod \in Pod
    BY DEF World, Run
  <2>3. /\ f \in [Pod -> PodState]
        /\ \A p \in Pod : w.pods[p] = "absent" => f[p] = "absent"
    BY <2>2 DEF PodState
  <2> HIDE DEF f
  <2>4. [w EXCEPT !.pods = f] \in World
    BY <2>3 DEF World
  <2>5. /\ [w EXCEPT !.pods = f].namespace = w.namespace
        /\ [w EXCEPT !.pods = f].image = w.image
        /\ [w EXCEPT !.pods = f].pods = f
        /\ [w EXCEPT !.pods = f].slice = w.slice
        /\ [w EXCEPT !.pods = f].events = w.events
        /\ [w EXCEPT !.pods = f].created = w.created
        /\ [w EXCEPT !.pods = f].template = w.template
        /\ [w EXCEPT !.pods = f].replicas = w.replicas
    BY DEF World
  <2> HIDE DEF v
  <2>6. /\ v \in World /\ v.namespace = w.namespace /\ v.image = w.image
        /\ v.pods = f /\ v.slice = w.slice
        /\ v.events = w.events /\ v.created = w.created
        /\ v.template = w.template /\ v.replicas = w.replicas
    BY <2>1, <2>4, <2>5
  <2>7. Emptied(w) => Emptied(v)
    BY <2>3, <2>6 DEF Emptied
  <2> QED
    BY <1>12, <2>3, <2>6, <2>7 DEF Changes, v
<1>13. CASE s = "scale to zero"
  <2> DEFINE a == [w EXCEPT !.replicas = 0]
  <2>1. v = [a EXCEPT !.generation = w.generation + 1]
    BY <1>13 DEF Effect
  <2>2. w.generation + 1 \in Nat
    BY DEF World
  <2>3. Apart(w, a) /\ a \in World
    BY ApartField DEF Apart
  <2>4. v.replicas = 0
    BY <2>1 DEF World
  <2> HIDE DEF a, v
  <2>5. Apart(a, v)
    BY <2>1, <2>2, <2>3, ApartField
  <2> QED
    BY <1>13, <2>3, <2>4, <2>5, ApartTwice, ApartChanges DEF v
<1>14. CASE s \in {"build image", "remove image"}
  <2> DEFINE b == s = "build image"
  <2>1. v = [w EXCEPT !.image = b]
    BY <1>14 DEF Effect
  <2>2. b \in BOOLEAN
    OBVIOUS
  <2> HIDE DEF b, v
  <2>3. /\ v \in World /\ v.namespace = w.namespace /\ v.image = b
        /\ v.pods = w.pods /\ v.slice = w.slice
        /\ v.events = w.events /\ v.created = w.created
        /\ v.template = w.template /\ v.replicas = w.replicas
    BY <2>1, <2>2 DEF World
  <2> QED
    BY <1>14, <2>3 DEF Emptied, Changes, b, v
<1>15. CASE s = "delete namespace"
  <2> DEFINE n == IF w.namespace = "absent" THEN "absent" ELSE "terminating"
  <2>1. v = [w EXCEPT !.namespace = n]
    BY <1>15 DEF Effect
  <2>2. n \in {"absent", "terminating"}
    OBVIOUS
  <2> HIDE DEF n, v
  <2>3. /\ v \in World /\ v.namespace = n /\ v.image = w.image
        /\ v.pods = w.pods /\ v.slice = w.slice
        /\ v.events = w.events /\ v.created = w.created
        /\ v.template = w.template /\ v.replicas = w.replicas
    BY <2>1, <2>2 DEF World
  <2>4. w.namespace \in {"absent", "present", "terminating"}
    BY DEF World
  <2> QED
    BY <1>15, <2>3, <2>4 DEF Emptied, Changes, n, v
<1>16. CASE s \notin {"create namespace", "apply", "apply events",
                      "apply product", "annotate", "elastic apply",
                      "elastic start", "elastic stop", "kill elastic",
                      "elastic setup", "create table", "grant", "seed",
                      "open gate", "close gate", "end connections",
                      "certificates", "kafka apply", "kafka topic",
                      "produce", "delete pod", "scale to zero",
                      "build image", "remove image", "delete namespace"}
  <2>1. v = w
    BY <1>16 DEF Effect
  <2> QED
    BY <1>16, <2>1 DEF Changes
<1> QED
  BY <1>3, <1>4, <1>5, <1>6, <1>7, <1>8, <1>9, <1>10, <1>11, <1>12, <1>13,
     <1>14, <1>15, <1>16

-----------------------------------------------------------------------------
(* What the script remembers, and where its finally block begins.          *)

\* Held (DisposableDeployment) of any cluster and script.
HeldOf(w, r) == (r.owns /\ w.namespace # "absent") \/ (r.probe /\ w.image)

\* What the script keeps when it goes on from a step.
Keeps(r, q) ==
    /\ q \in Run
    /\ q.service = r.service /\ q.phase = r.phase /\ q.verdict = r.verdict
    /\ q.todo = r.todo

\* Ownership is learnt from the two steps that say so, and never lost.
Learnt(w, r, q, s) ==
    /\ Keeps(r, q)
    /\ q.owns = IF s = "own" THEN TRUE ELSE r.owns
    /\ q.probe = IF s = "own image" THEN TRUE ELSE r.probe
    /\ s = "pick pod" => q.pod \in Existing(w)
    /\ s \notin {"pick pod", "one pod available"} => q.pod = r.pod
    /\ q.deleted = IF s = "delete pod" THEN r.pod ELSE r.deleted

LEMMA LearnsOK ==
    ASSUME NEW w \in World, NEW r \in Run, NEW s \in Name,
           NEW q \in Learns(w, r, s)
    PROVE  Learnt(w, r, q, s)
<1>1. CASE s = "own"
  <2>1. q = [r EXCEPT !.owns = TRUE]
    BY <1>1 DEF Learns
  <2> QED
    BY <1>1, <2>1 DEF Run, Keeps, Learnt
<1>2. CASE s = "own image"
  <2>1. q = [r EXCEPT !.probe = TRUE]
    BY <1>2 DEF Learns
  <2> QED
    BY <1>2, <2>1 DEF Run, Keeps, Learnt
<1>3. CASE s = "note restarts"
  <2>1. q = [r EXCEPT !.restarts = w.restarts]
    BY <1>3 DEF Learns
  <2>2. w.restarts \in {0, 1}
    BY DEF World
  <2> QED
    BY <1>3, <2>1, <2>2 DEF Run, Keeps, Learnt
<1>4. CASE s \in {"pick pod", "one pod available"}
  <2>1. PICK p \in Existing(w) : q = [r EXCEPT !.pod = p]
    BY <1>4 DEF Learns
  <2>2. p \in Pod
    BY DEF Existing
  <2> QED
    BY <1>4, <2>1, <2>2 DEF Run, Keeps, Learnt
<1>5. CASE s = "reads in flight"
  <2>1. PICK p \in ReadyPods(w) : q = [r EXCEPT !.reading = p]
    BY <1>5 DEF Learns
  <2>2. p \in Pod
    BY DEF ReadyPods
  <2> QED
    BY <1>5, <2>1, <2>2 DEF Run, Keeps, Learnt
<1>6. CASE s = "delete pod"
  <2>1. q = [r EXCEPT !.deleted = r.pod]
    BY <1>6 DEF Learns
  <2> QED
    BY <1>6, <2>1 DEF Run, Keeps, Learnt
<1>7. CASE s \in {"close gate", "open gate"}
  <2> DEFINE c == s = "close gate"
  <2>1. q = [r EXCEPT !.closed = c]
    BY <1>7 DEF Learns
  <2>2. c \in BOOLEAN
    OBVIOUS
  <2>3. s \notin {"own", "own image", "pick pod", "one pod available",
                   "delete pod"}
    BY <1>7
  <2> HIDE DEF c
  <2>4. /\ Keeps(r, q) /\ q.owns = r.owns /\ q.probe = r.probe
        /\ q.pod = r.pod /\ q.deleted = r.deleted
        /\ r.owns \in BOOLEAN /\ r.probe \in BOOLEAN
    BY <2>1, <2>2 DEF Run, Keeps, Learnt
  <2> QED
    BY <2>3, <2>4 DEF Learnt
<1>8. CASE s \notin {"own", "own image", "note restarts", "pick pod",
                     "one pod available", "reads in flight", "delete pod",
                     "close gate", "open gate"}
  <2>1. q = r
    BY <1>8 DEF Learns
  <2> QED
    BY <1>8, <2>1 DEF Run, Keeps, Learnt
<1> QED
  BY <1>1, <1>2, <1>3, <1>4, <1>5, <1>6, <1>7, <1>8

\* The script is where the arguments say, and owns what it owned.
Becomes(q, e, phase, verdict, todo) ==
    /\ e \in Run /\ e.phase = phase /\ e.verdict = verdict /\ e.todo = todo
    /\ e.service = q.service /\ e.owns = q.owns /\ e.probe = q.probe

LEMMA EndsOK ==
    ASSUME NEW q \in Run, NEW v \in {"passed", "failed", "left over", "killed"}
    PROVE  Becomes(q, Ends(q, v), "ended", v, <<>>)
<1> DEFINE t == <<>>
<1>1. t \in Seq(Name)
  BY EmptySeq
<1> HIDE DEF t
<1>2. Ends(q, v) = [q EXCEPT !.phase = "ended", !.verdict = v, !.todo = t]
  BY DEF Ends, t
<1>3. Becomes(q, Ends(q, v), "ended", v, t)
  BY <1>1, <1>2 DEF Run, Becomes
<1> QED
  BY <1>3 DEF t

LEMMA TodoOK ==
    ASSUME NEW q \in Run, NEW t \in Seq(Name), NEW p \in {"body", "cleanup"},
           NEW v \in {"none", "passed", "failed", "left over"}
    PROVE  Becomes(q, [q EXCEPT !.phase = p, !.verdict = v, !.todo = t],
                   p, v, t)
  BY DEF Run, Becomes

\* Where the finally block begins, if there is anything to do in it.
LEMMA CleaningOK ==
    ASSUME NEW w \in World, Emptied(w), NEW q \in Run,
           q.probe => q.service = "policy-search",
           NEW v \in {"passed", "failed"}
    PROVE  LET c == Cleaning(q, v)
           IN /\ Good(w, c)
              /\ c.phase = "ended" => c.verdict = v /\ ~HeldOf(w, c)
              /\ c.phase # "body"
<1> DEFINE c == Cleaning(q, v)
           t == Cleanup(q)
<1>0. /\ q.service \in Services
      /\ q.owns \in BOOLEAN /\ q.probe \in BOOLEAN /\ q.closed \in BOOLEAN
  BY DEF Run
<1>00. /\ v \in {"none", "passed", "failed", "left over"}
       /\ v \in {"passed", "failed", "left over", "killed"}
  OBVIOUS
<1>1. CASE t = <<>>
  <2>1. c = Ends(q, v)
    BY <1>1 DEF Cleaning
  <2> HIDE DEF c
  <2>2. /\ c \in Run /\ c.phase = "ended" /\ c.verdict = v /\ c.todo = <<>>
        /\ c.owns = q.owns /\ c.probe = q.probe /\ c.service = q.service
    BY <1>00, <2>1, EndsOK DEF Becomes
  <2>3. ~q.owns /\ ~q.probe
    <3>1. /\ Delete # <<>> /\ OpenGate # <<>> /\ FindOwner # <<>>
          /\ RemoveAll # <<>> /\ RemoveImage # <<>>
      BY CleanupParts DEF First
    <3> QED
      BY <1>0, <1>1, <3>1, CleanupIs DEF Services
  <2> QED
    BY <2>2, <2>3 DEF Good, HeldOf, Ending, Probing, c
<1>2. CASE t # <<>>
  <2>1. /\ t \in Seq(Name)
        /\ \/ q.service = "dashboard" /\ q.owns /\ t = Delete
           \/ q.service = "product" /\ q.owns /\ t \in {OpenGate, FindOwner}
           \/ /\ q.service = "policy-search"
              /\ \/ q.owns /\ q.probe /\ t = RemoveAll
                 \/ q.owns /\ ~q.probe /\ t = Delete
                 \/ ~q.owns /\ q.probe /\ t = RemoveImage
    <3>1. /\ Delete \in Seq(Name) /\ OpenGate \in Seq(Name)
          /\ FindOwner \in Seq(Name) /\ RemoveAll \in Seq(Name)
          /\ RemoveImage \in Seq(Name)
      BY CleanupParts DEF First
    <3> HIDE DEF t
    <3>2. /\ q.service = "dashboard" => t = IF q.owns THEN Delete ELSE <<>>
          /\ q.service = "product" =>
                t = IF ~q.owns THEN <<>>
                    ELSE IF q.closed THEN OpenGate ELSE FindOwner
          /\ q.service = "policy-search" =>
                t = IF q.owns THEN IF q.probe THEN RemoveAll ELSE Delete
                    ELSE IF q.probe THEN RemoveImage ELSE <<>>
      BY CleanupIs DEF t
    <3> QED
      BY <1>0, <1>2, <3>1, <3>2 DEF Services
  <2>2. c = [q EXCEPT !.phase = "cleanup", !.verdict = v, !.todo = t]
    BY <1>2 DEF Cleaning
  <2> HIDE DEF c, t
  <2>20. Becomes(q, c, "cleanup", v, t)
    BY <1>00, <2>1, <2>2, TodoOK, Zenon
  <2>3. /\ c \in Run /\ c.phase = "cleanup" /\ c.verdict = v /\ c.todo = t
        /\ c.owns = q.owns /\ c.probe = q.probe /\ c.service = q.service
    BY <2>20 DEF Becomes
  <2>4. Ahead(w, c)
    BY <1>0, <2>1, <2>3 DEF Ahead
  <2>5. Ending(c) /\ Probing(c)
    BY <1>2, <2>3 DEF Ending, Probing
  <2> QED
    BY <2>3, <2>4, <2>5 DEF Good, c
<1> QED
  BY <1>1, <1>2

-----------------------------------------------------------------------------
\* A step of the script from (w, r) may lead to (v, q): what OwnedEnvironment
\* allows, and the invariant again.
Lands(w, r, v, q) ==
    /\ Good(v, q)
    /\ q.phase = "ended" =>
          \/ q.verdict \in {"passed", "failed"} /\ ~HeldOf(v, q)
          \/ /\ q.verdict \in {"left over", "killed"}
             /\ HeldOf(v, q) => HeldOf(w, r)

\* What is left after a step.
LEMMA SeqNext ==
    ASSUME NEW S, NEW t \in Seq(S), t # <<>>
    PROVE  /\ Head(t) \in S /\ Tail(t) \in Seq(S)
           /\ Len(t) > 1 => Tail(t) # <<>>
<1>1. Len(t) \in Nat \ {0} /\ Len(Tail(t)) = Len(t) - 1
      /\ Head(t) \in S /\ Tail(t) \in Seq(S)
  BY EmptySeq, HeadTailProperties
<1>2. Tail(t) = <<>> => Len(Tail(t)) = 0
  BY EmptySeq
<1> QED
  BY <1>1, <1>2

\* A step of the body that succeeds.
LEMMA BodyStepOK ==
    ASSUME Bounds, NEW w, NEW r, Good(w, r), r.phase = "body",
           NEW q \in Learns(w, r, Head(r.todo))
    PROVE  Lands(w, r, Effect(w, r, Head(r.todo)), Advanced(q))
<1> DEFINE s == Head(r.todo)
           v == Effect(w, r, s)
           a == Advanced(q)
           t == Tail(q.todo)
<1>1. /\ w \in World /\ r \in Run /\ Emptied(w) /\ Ending(r) /\ Probing(r)
      /\ r.todo # <<>> /\ r.verdict = "none"
  BY DEF Good, Ending
<1>2. r.todo \in Seq(Name) /\ r.todo \in Seq(Steps(r.service))
  BY <1>1 DEF Probing, Run
<1>3. s \in Name /\ s \in Steps(r.service)
  BY <1>1, <1>2, SeqNext
<1> HIDE DEF s
<1>4. v \in World /\ Emptied(v)
  BY <1>1, <1>3, EffectOK DEF Changes
<1>5. /\ Keeps(r, q) /\ q.owns = IF s = "own" THEN TRUE ELSE r.owns
      /\ q.probe = IF s = "own image" THEN TRUE ELSE r.probe
  <2>1. Learnt(w, r, q, s)
    BY <1>1, <1>3, LearnsOK DEF s
  <2> QED
    BY <2>1 DEF Learnt
<1>6. q.probe => q.service = "policy-search"
  BY <1>1, <1>3, <1>5 DEF Probing, Steps, Keeps
<1> HIDE DEF v
<1>7. CASE Len(q.todo) > 1
  <2>1. /\ t \in Seq(Name) /\ t \in Seq(Steps(q.service)) /\ t # <<>>
    BY <1>1, <1>2, <1>5, <1>7, SeqNext DEF Keeps
  <2>2. a = [q EXCEPT !.todo = t]
    BY <1>7 DEF Advanced
  <2> HIDE DEF a, t
  <2>3. /\ a \in Run /\ a.phase = "body" /\ a.verdict = "none"
        /\ a.todo = t /\ a.service = q.service /\ a.probe = q.probe
    BY <1>1, <1>5, <2>1, <2>2 DEF Keeps, Run
  <2> QED
    BY <1>4, <1>6, <2>1, <2>3 DEF Lands, Good, Ending, Probing, v, a, s
<1>8. CASE ~(Len(q.todo) > 1)
  <2>1. a = Cleaning(q, "passed")
    BY <1>5, <1>8 DEF Advanced, Keeps
  <2>2. q \in Run
    BY <1>5 DEF Keeps
  <2> HIDE DEF a
  <2>3. /\ Good(v, a)
        /\ a.phase = "ended" => a.verdict = "passed" /\ ~HeldOf(v, a)
    BY <1>4, <1>6, <2>1, <2>2, CleaningOK
  <2> QED
    BY <2>3 DEF Lands, v, a, s
<1> QED
  BY <1>7, <1>8

\* A step of the finally block that succeeds.
LEMMA CleanupStepOK ==
    ASSUME Bounds, NEW w, NEW r, Good(w, r), r.phase = "cleanup",
           Holds(w, r, Head(r.todo)), NEW q \in Learns(w, r, Head(r.todo))
    PROVE  Lands(w, r, Effect(w, r, Head(r.todo)), Advanced(q))
<1> DEFINE s == Head(r.todo)
           v == Effect(w, r, s)
           a == Advanced(q)
           t == Tail(r.todo)
<1>1. /\ w \in World /\ r \in Run /\ Emptied(w) /\ Ending(r) /\ Probing(r)
      /\ Ahead(w, r) /\ r.todo # <<>>
  BY DEF Good, Ending
<1>2. /\ r.todo \in Seq(Name) /\ r.owns \in BOOLEAN /\ r.probe \in BOOLEAN
  BY <1>1 DEF Run
<1>3. s \in Name /\ t \in Seq(Name) /\ (Len(r.todo) > 1 => t # <<>>)
  BY <1>1, <1>2, SeqNext
<1>4. s \in {"open gate", "find owner", "delete namespace", "namespace gone",
             "remove image"}
  BY <1>1, CleanupFacts DEF Ahead
<1>5. s = "namespace gone" => w.namespace = "absent"
  BY DEF Holds
<1> HIDE DEF s
<1>6. Changes(w, v, s)
  BY <1>1, <1>3, EffectOK
<1> HIDE DEF v
<1>7. /\ v \in World /\ Emptied(v)
      /\ w.namespace = "absent" => v.namespace = "absent"
      /\ s = "remove image" => v.image = FALSE
  BY <1>1, <1>4, <1>6 DEF Changes
<1>8. Keeps(r, q) /\ q.owns = r.owns /\ q.probe = r.probe
  <2>1. w \in World /\ r \in Run /\ s \in Name
    BY <1>1, <1>3
  <2>2. Learnt(w, r, q, s)
    BY <2>1, LearnsOK DEF s
  <2> QED
    BY <1>2, <1>4, <2>2 DEF Learnt
<1>9. /\ q \in Run /\ q.service = r.service /\ q.phase = "cleanup"
      /\ q.verdict = r.verdict /\ q.todo = r.todo
  BY <1>8 DEF Keeps
<1>10. CASE Len(r.todo) > 1
  <2>1. a = [q EXCEPT !.todo = t]
    BY <1>9, <1>10 DEF Advanced
  <2> HIDE DEF a, t
  <2>2. /\ a \in Run /\ a.phase = "cleanup" /\ a.verdict = r.verdict
        /\ a.todo = t /\ a.service = r.service /\ a.owns = r.owns
        /\ a.probe = r.probe
    BY <1>3, <1>8, <1>9, <2>1 DEF Run
  <2>3. Ahead(v, a)
    <3>1. CASE r.service = "dashboard"
      BY <1>1, <1>10, <2>2, <3>1, CleanupFacts DEF Ahead, t
    <3>2. CASE r.service = "product"
      BY <1>1, <1>10, <2>2, <3>2, CleanupFacts DEF Ahead, t
    <3>3. CASE r.service = "policy-search"
      BY <1>1, <1>5, <1>7, <1>10, <2>2, <3>3, CleanupFacts
         DEF Ahead, s, t
    <3> QED
      BY <1>1, <3>1, <3>2, <3>3 DEF Ahead
  <2>4. Ending(a) /\ Probing(a)
    BY <1>1, <1>3, <1>10, <2>2 DEF Ending, Probing
  <2> QED
    BY <1>7, <2>2, <2>3, <2>4 DEF Lands, Good, v, a, s
<1>11. CASE ~(Len(r.todo) > 1)
  <2>1. a = Ends(q, r.verdict)
    BY <1>9, <1>11 DEF Advanced
  <2>2. /\ r.verdict \in {"passed", "failed", "left over"}
        /\ r.verdict \in {"passed", "failed", "left over", "killed"}
    BY <1>1 DEF Ahead
  <2> HIDE DEF a
  <2>3. Becomes(q, a, "ended", r.verdict, <<>>)
    BY <1>9, <2>1, <2>2, EndsOK
  <2>4. /\ a \in Run /\ a.phase = "ended" /\ a.verdict = r.verdict
        /\ a.todo = <<>> /\ a.owns = r.owns /\ a.probe = r.probe
        /\ a.service = r.service
    BY <1>8, <1>9, <2>3 DEF Becomes
  <2>5. Good(v, a)
    BY <1>1, <1>7, <2>2, <2>4 DEF Good, Ending, Probing
  <2>6. CASE r.todo = Gone
    <3>1. w.namespace = "absent" /\ ~r.probe
      BY <1>1, <1>5, <2>6, CleanupFacts DEF Ahead, s, Probing
    <3>2. ~HeldOf(v, a)
      BY <1>7, <2>4, <3>1 DEF HeldOf
    <3> QED
      BY <2>2, <2>4, <2>5, <3>2 DEF Lands, v, a, s
  <2>7. CASE r.todo = RemoveImage
    <3>1. s = "remove image" /\ v.image = FALSE
      BY <1>7, <2>7, CleanupFacts DEF s
    <3>2. r.verdict # "left over" => ~HeldOf(v, a)
      BY <1>1, <1>7, <2>4, <2>7, <3>1, CleanupFacts DEF Ahead, HeldOf
    <3>3. HeldOf(v, a) => HeldOf(w, r)
      BY <1>2, <1>7, <2>4, <3>1 DEF HeldOf
    <3> QED
      BY <2>2, <2>4, <2>5, <3>2, <3>3 DEF Lands, v, a, s
  <2>8. r.todo = Gone \/ r.todo = RemoveImage
    BY <1>1, <1>11, CleanupFacts DEF Ahead
  <2> QED
    BY <2>6, <2>7, <2>8
<1> QED
  BY <1>10, <1>11

\* An exception, after the call had its effect or without it.
LEMMA RaisedOK ==
    ASSUME NEW r, Good(world, r), r.phase # "ended",
           NEW v, v = world \/ Changes(world, v, Head(r.todo))
    PROVE  Lands(world, r, v, Raised(r))
<1> DEFINE s == Head(r.todo)
           a == Raised(r)
           c == [r EXCEPT !.closed = FALSE]
<1>1. /\ world \in World /\ r \in Run /\ Emptied(world) /\ Ending(r)
      /\ Probing(r) /\ r.phase \in {"body", "cleanup"}
      /\ r.phase = "cleanup" => Ahead(world, r)
      /\ r.owns \in BOOLEAN /\ r.probe \in BOOLEAN
  BY DEF Good, Run
<1>2. v \in World /\ Emptied(v)
  BY <1>1 DEF Changes
<1>3. c \in Run /\ c.service = r.service /\ c.probe = r.probe
  BY <1>1 DEF Run
<1>4. r.probe => r.service = "policy-search"
  BY <1>1 DEF Probing
<1> HIDE DEF c
<1>5. CASE s = "open gate"
  <2>1. a = Cleaning(c, "failed")
    BY <1>5 DEF Raised, c
  <2> HIDE DEF a
  <2>2. /\ Good(v, a)
        /\ a.phase = "ended" => a.verdict = "failed" /\ ~HeldOf(v, a)
    BY <1>2, <1>3, <1>4, <2>1, CleaningOK
  <2> QED
    BY <2>2 DEF Lands, a
<1>6. CASE s # "open gate" /\ r.phase = "body"
  <2>1. a = Cleaning(r, "failed")
    BY <1>6 DEF Raised
  <2> HIDE DEF a
  <2>2. /\ Good(v, a)
        /\ a.phase = "ended" => a.verdict = "failed" /\ ~HeldOf(v, a)
    BY <1>1, <1>2, <1>4, <2>1, CleaningOK
  <2> QED
    BY <2>2 DEF Lands, a
<1>7. CASE s # "open gate" /\ r.phase = "cleanup"
  <2>1. Ahead(world, r)
    BY <1>1, <1>7
  <2>2. s \in {"find owner", "delete namespace", "namespace gone",
               "remove image"}
    BY <1>7, <2>1, CleanupFacts DEF Ahead
  <2>3. /\ world.namespace = "absent" => v.namespace = "absent"
        /\ v.image => world.image
        /\ s = "find owner" => v.namespace = world.namespace
    <3>1. CASE v = world
      BY <3>1
    <3>2. CASE Changes(world, v, s)
      BY <2>2, <3>2 DEF Changes
    <3> QED
      BY <3>1, <3>2
  <2>4. CASE s = "find owner" /\ world.namespace = "absent"
    <3>1. a = Ends(r, r.verdict)
      BY <1>7, <2>4 DEF Raised
    <3>2. /\ r.service = "product" /\ r.verdict \in {"passed", "failed"}
      BY <2>1, <2>4, CleanupFacts DEF Ahead
    <3>3. r.verdict \in {"passed", "failed", "left over", "killed"}
      BY <3>2
    <3> HIDE DEF a
    <3>4. Becomes(r, a, "ended", r.verdict, <<>>)
      BY <1>1, <3>1, <3>3, EndsOK
    <3>5. Good(v, a)
      BY <1>2, <1>4, <3>2, <3>4 DEF Good, Ending, Probing, Becomes
    <3>6. ~HeldOf(v, a)
      BY <1>4, <2>3, <2>4, <3>2, <3>4 DEF HeldOf, Becomes
    <3> QED
      BY <3>2, <3>4, <3>5, <3>6 DEF Lands, Becomes, a
  <2>5. CASE /\ ~(s = "find owner" /\ world.namespace = "absent")
             /\ r.service = "policy-search" /\ Last(r.todo) = "remove image"
             /\ Len(r.todo) > 1
    <3> DEFINE t == RemoveImage
    <3>1. a = [r EXCEPT !.todo = t, !.verdict = "left over"]
      BY <1>7, <2>5 DEF Raised, RemoveImage
    <3>2. r.probe
      BY <2>1, <2>5, CleanupFacts, CleanupParts DEF Ahead
    <3>3. t \in Seq(Name) /\ t # <<>>
      BY CleanupParts DEF First
    <3> HIDE DEF a, t
    <3>4. /\ a \in Run /\ a.todo = t /\ a.verdict = "left over"
          /\ a.phase = "cleanup" /\ a.service = r.service
          /\ a.owns = r.owns /\ a.probe = r.probe
      BY <1>1, <1>7, <3>1, <3>3 DEF Run
    <3>5. Ahead(v, a)
      BY <2>5, <3>2, <3>4 DEF Ahead, t
    <3> QED
      BY <1>2, <1>4, <3>3, <3>4, <3>5 DEF Lands, Good, Ending, Probing, a
  <2>6. CASE /\ ~(s = "find owner" /\ world.namespace = "absent")
             /\ ~(/\ r.service = "policy-search"
                  /\ Last(r.todo) = "remove image" /\ Len(r.todo) > 1)
    <3>1. a = Ends(r, "left over")
      BY <1>7, <2>6 DEF Raised
    <3> HIDE DEF a
    <3>2. Becomes(r, a, "ended", "left over", <<>>)
      BY <1>1, <3>1, EndsOK
    <3>3. Good(v, a)
      BY <1>2, <1>4, <3>2 DEF Good, Ending, Probing, Becomes
    <3>4. HeldOf(v, a) => HeldOf(world, r)
      BY <2>3, <3>2 DEF HeldOf, Becomes
    <3> QED
      BY <3>2, <3>3, <3>4 DEF Lands, Becomes, a
  <2> QED
    BY <2>4, <2>5, <2>6
<1> QED
  BY <1>1, <1>5, <1>6, <1>7

\* A script that ends without its finally block, or in the middle of it.
LEMMA CutShortOK ==
    ASSUME NEW w, NEW r, Good(w, r), r.phase # "ended", NEW v \in World,
           Emptied(v), w.namespace = "absent" => v.namespace = "absent",
           v.image => w.image, NEW x \in {"left over", "killed"}
    PROVE  Lands(w, r, v, Ends(r, x))
<1> DEFINE a == Ends(r, x)
<1>1. r \in Run /\ (r.probe => r.service = "policy-search")
  BY DEF Good, Probing
<1>2. x \in {"passed", "failed", "left over", "killed"} /\ x # "none"
  OBVIOUS
<1>3. Becomes(r, a, "ended", x, <<>>)
  BY <1>1, <1>2, EndsOK
<1> HIDE DEF a
<1>4. Good(v, a)
  BY <1>1, <1>2, <1>3 DEF Good, Ending, Probing, Becomes
<1>5. HeldOf(v, a) => HeldOf(w, r)
  BY <1>3 DEF HeldOf, Becomes
<1> QED
  BY <1>3, <1>4, <1>5 DEF Lands, Becomes, a

LEMMA NatNext == \A n \in Nat : n + 1 \in Nat
  OBVIOUS

\* The steps of Next that are not the controllers'.
ScriptGoes == Step \/ Refuse \/ Fail \/ Kill

\* Every step of the script lands where OwnedEnvironment allows.
LEMMA ScriptOK ==
    ASSUME Bounds, IInv, ScriptGoes
    PROVE  Running /\ Lands(world, run, world', run')
<1> DEFINE s == Head(run.todo)
<1>1. /\ Good(world, run) /\ world \in World /\ run \in Run
      /\ Emptied(world) /\ Ending(run) /\ Probing(run)
      /\ run.phase = "cleanup" => Ahead(world, run)
  BY DEF IInv, Good
<1>2. Running /\ run.phase # "ended" /\ run.todo # <<>>
      /\ run.phase \in {"body", "cleanup"}
  BY <1>1 DEF ScriptGoes, Step, Refuse, Fail, Kill, Running, Ending, Run
<1>3. s \in Name
  <2>1. run.todo \in Seq(Name)
    BY <1>1 DEF Run
  <2> QED
    BY <1>2, <2>1, SeqNext
<1>4. Changes(world, Effect(world, run, s), s)
  BY <1>1, <1>3, EffectOK
<1>5. CASE Step
  <2>1. PICK q \in Learns(world, run, s) : run' = Advanced(q)
    BY <1>5 DEF Step
  <2>2. Holds(world, run, s) /\ world' = Effect(world, run, s)
    BY <1>5 DEF Step
  <2>3. Lands(world, run, Effect(world, run, Head(run.todo)), Advanced(q))
    BY <1>1, <1>2, <2>1, <2>2, BodyStepOK, CleanupStepOK
  <2> QED
    BY <1>2, <2>1, <2>2, <2>3
<1>6. CASE Refuse
  <2>1. world' = world /\ run' = Raised(run)
    BY <1>6 DEF Refuse
  <2> QED
    BY <1>1, <1>2, <2>1, RaisedOK
<1>7. CASE Fail
  <2> DEFINE n == run.faults + 1
             r == [run EXCEPT !.faults = n]
  <2>0. n \in Nat
    <3>1. run.faults \in Nat
      BY <1>1 DEF Run
    <3> QED
      BY <3>1, NatNext, Zenon
  <2> HIDE DEF n
  <2>1. /\ r \in Run /\ r.todo = run.todo /\ r.phase = run.phase
        /\ r.service = run.service /\ r.verdict = run.verdict
        /\ r.owns = run.owns /\ r.probe = run.probe
    BY <1>1, <2>0 DEF Run
  <2>2. /\ world' \in {world, Effect(world, run, s)}
        /\ \/ run' = Raised(r)
           \/ r.phase = "cleanup" /\ run' = Ends(r, "left over")
    BY <1>7 DEF Fail, n
  <2> HIDE DEF r
  <2>3. Good(world, r)
    BY <1>1, <2>1 DEF Good, Ending, Probing, Ahead
  <2>4. world' = world \/ Changes(world, world', Head(r.todo))
    BY <1>4, <2>1, <2>2
  <2>5. HeldOf(world, r) = HeldOf(world, run)
    BY <2>1 DEF HeldOf
  <2>6. CASE run' = Raised(r)
    <3>1. Lands(world, r, world', run')
      BY <1>2, <2>1, <2>3, <2>4, <2>6, RaisedOK
    <3> QED
      BY <1>2, <2>5, <3>1 DEF Lands
  <2>7. CASE r.phase = "cleanup" /\ run' = Ends(r, "left over")
    <3>1. s \in {"open gate", "find owner", "delete namespace",
                 "namespace gone", "remove image"}
      BY <1>1, <2>1, <2>7, CleanupFacts DEF Ahead
    <3>2. /\ world' \in World /\ Emptied(world')
          /\ world.namespace = "absent" => world'.namespace = "absent"
          /\ world'.image => world.image
      BY <1>1, <2>1, <2>4, <3>1 DEF Changes
    <3>3. Lands(world, r, world', run')
      BY <1>2, <2>1, <2>3, <2>7, <3>2, CutShortOK
    <3> QED
      BY <1>2, <2>5, <3>3 DEF Lands
  <2> QED
    BY <2>2, <2>6, <2>7
<1>8. CASE Kill
  <2> DEFINE e == Ends(run, "killed")
             n == e.kills + 1
  <2>1. world' = world /\ run' = [e EXCEPT !.kills = n]
    BY <1>8 DEF Kill
  <2>2. Lands(world, run, world, e)
    BY <1>1, <1>2, CutShortOK
  <2> HIDE DEF e
  <2>3. e \in Run
    BY <2>2 DEF Lands, Good
  <2>30. n \in Nat
    <3>1. e.kills \in Nat
      BY <2>3 DEF Run
    <3> QED
      BY <3>1, NatNext, Zenon
  <2> HIDE DEF n
  <2>4. /\ run' \in Run /\ run'.todo = e.todo /\ run'.phase = e.phase
        /\ run'.service = e.service /\ run'.verdict = e.verdict
        /\ run'.owns = e.owns /\ run'.probe = e.probe
    BY <2>1, <2>3, <2>30 DEF Run
  <2>5. Good(world', run')
    BY <2>1, <2>2, <2>4 DEF Lands, Good, Ending, Probing, Ahead
  <2> QED
    BY <1>2, <2>1, <2>2, <2>4, <2>5 DEF Lands, HeldOf
<1> QED
  BY <1>5, <1>6, <1>7, <1>8 DEF ScriptGoes

-----------------------------------------------------------------------------
(* The replacement of the Pod by the policy-search.                        *)

LEMMA NotTheBody ==
    ASSUME NEW r \in Run, NEW v
    PROVE  Cleaning(r, v).phase # "body" /\ Ends(r, v).phase # "body"
<1>1. Ends(r, v).phase = "ended"
  BY DEF Ends, Run
<1>2. CASE Cleanup(r) = <<>>
  BY <1>1, <1>2 DEF Cleaning
<1>3. CASE Cleanup(r) # <<>>
  <2> DEFINE t == Cleanup(r)
  <2>1. Cleaning(r, v) =
            [r EXCEPT !.phase = "cleanup", !.verdict = v, !.todo = t]
    BY <1>3 DEF Cleaning
  <2> HIDE DEF t
  <2>2. Cleaning(r, v).phase = "cleanup"
    BY <2>1 DEF Run
  <2> QED
    BY <1>1, <2>2
<1> QED
  BY <1>2, <1>3

LEMMA RaisedNotTheBody == ASSUME NEW r \in Run PROVE Raised(r).phase # "body"
<1> DEFINE c == [r EXCEPT !.closed = FALSE]
<1>1. c \in Run
  BY DEF Run
<1> HIDE DEF c
<1>2. /\ Cleaning(c, "failed").phase # "body"
      /\ Cleaning(r, "failed").phase # "body"
      /\ Ends(r, r.verdict).phase # "body"
      /\ Ends(r, "left over").phase # "body"
  BY <1>1, NotTheBody
<1>3. CASE r.phase = "body" \/ Head(r.todo) = "open gate"
  BY <1>2, <1>3 DEF Raised, c
<1>4. CASE r.phase # "body" /\ Head(r.todo) # "open gate"
  <2> DEFINE t == <<"remove image">>
             a == [r EXCEPT !.todo = t, !.verdict = "left over"]
  <2>1. \/ Raised(r) = a
        \/ Raised(r) = Ends(r, r.verdict) \/ Raised(r) = Ends(r, "left over")
    BY <1>4 DEF Raised
  <2> HIDE DEF t
  <2>2. a.phase = r.phase
    BY DEF Run
  <2> QED
    BY <1>2, <1>4, <2>1, <2>2
<1> QED
  BY <1>3, <1>4

\* What is noted after the step s, or after a step that did not succeed.
Told(r, q, s) ==
    /\ q.owns = IF s = "own" THEN TRUE ELSE r.owns
    /\ q.probe = IF s = "own image" THEN TRUE ELSE r.probe
Same(r, q) == q.owns = r.owns /\ q.probe = r.probe

\* A body that goes on has taken the step s before.
Proceeds(w, r, s, v, q) ==
    /\ r.phase = "body" /\ q.service = r.service
    /\ Len(r.todo) > 1 /\ q.todo = Tail(r.todo)
    /\ Holds(w, r, s) /\ Changes(w, v, s)
    /\ s = "pick pod" => q.pod \in Existing(w)
    /\ s \notin {"pick pod", "one pod available"} => q.pod = r.pod
    /\ q.deleted = IF s = "delete pod" THEN r.pod ELSE r.deleted
    /\ Told(r, q, s)

LEMMA BodyGoesOn ==
    ASSUME Bounds, IInv, ScriptGoes, run'.phase = "body"
    PROVE  Proceeds(world, run, Head(run.todo), world', run')
<1> DEFINE s == Head(run.todo)
<1>1. world \in World /\ run \in Run /\ Ending(run)
  BY DEF IInv, Good
<1>2. run.todo \in Seq(Name) /\ run.todo # <<>>
  BY <1>1 DEF ScriptGoes, Step, Refuse, Fail, Kill, Running, Ending, Run
<1>3. s \in Name
  BY <1>2, SeqNext
<1> HIDE DEF s
<1>4. ~Refuse
  BY <1>1, RaisedNotTheBody DEF Refuse
<1>5. ~Fail
  <2> DEFINE n == run.faults + 1
             r == [run EXCEPT !.faults = n]
  <2>1. n \in Nat
    <3>1. run.faults \in Nat
      BY <1>1 DEF Run
    <3> QED
      BY <3>1, NatNext, Zenon
  <2>2. Fail => run' \in {Raised(r), Ends(r, "left over")}
    BY DEF Fail
  <2> HIDE DEF n
  <2>3. r \in Run
    BY <1>1, <2>1 DEF Run
  <2> HIDE DEF r
  <2> QED
    BY <2>2, <2>3, RaisedNotTheBody, NotTheBody
<1>6. ~Kill
  <2> DEFINE e == Ends(run, "killed")
             n == e.kills + 1
  <2>1. Kill => run' = [e EXCEPT !.kills = n]
    BY DEF Kill
  <2> HIDE DEF n
  <2>2. [e EXCEPT !.kills = n].phase = "ended"
    BY <1>1 DEF Ends, Run
  <2> QED
    BY <2>1, <2>2
<1>7. Step
  BY <1>4, <1>5, <1>6 DEF ScriptGoes
<1>8. PICK q \in Learns(world, run, s) : run' = Advanced(q)
  BY <1>7 DEF Step, s
<1>9. Holds(world, run, s) /\ world' = Effect(world, run, s)
  BY <1>7 DEF Step, s
<1>10. Learnt(world, run, q, s)
  BY <1>1, <1>3, LearnsOK
<1>11. Changes(world, world', s)
  BY <1>1, <1>3, <1>9, EffectOK
<1>12. q \in Run /\ q.phase = run.phase /\ q.todo = run.todo
       /\ q.service = run.service
  BY <1>10 DEF Learnt, Keeps
<1>13. Len(q.todo) > 1 /\ run' = [q EXCEPT !.todo = Tail(q.todo)]
  <2>1. /\ Cleaning(q, "passed").phase # "body"
        /\ Ends(q, q.verdict).phase # "body"
    BY <1>12, NotTheBody
  <2> QED
    BY <1>8, <2>1 DEF Advanced
<1> DEFINE t == Tail(q.todo)
<1> HIDE DEF t
<1>14. /\ run'.phase = q.phase /\ run'.service = q.service
       /\ run'.todo = t /\ run'.pod = q.pod /\ run'.deleted = q.deleted
       /\ run'.owns = q.owns /\ run'.probe = q.probe
  <2>1. run' = [q EXCEPT !.todo = t]
    BY <1>13 DEF t
  <2> QED
    BY <1>12, <2>1 DEF Run
<1> QED
  BY <1>9, <1>10, <1>11, <1>12, <1>13, <1>14 DEF Proceeds, Learnt, Told, s, t

\* The steps that are left, by their number.
LEMMA RestartingNext ==
    ASSUME NEW t \in Seq(Name), Len(t) > 1, Restarting(t)
    PROVE  /\ Restarting(Tail(t)) /\ Len(Tail(t)) = Len(t) - 1
           /\ Len(t) \in Nat
           /\ Len(t) = 10 => Head(t) = "pick pod"
           /\ Len(t) = 9 => Head(t) = "delete pod"
           /\ Len(t) = 8 => Head(t) = "pod gone"
           /\ Len(t) = 7 => Head(t) = "app rollout"
           /\ Len(t) = 6 => Head(t) = "query"
<1>1. Len(t) \in Nat /\ t # <<>>
  BY LenProperties, EmptySeq
<1>2. /\ Len(Tail(t)) = Len(t) - 1
      /\ \A i \in 1 .. Len(Tail(t)) : Tail(t)[i] = t[i + 1]
  BY <1>1, HeadTailProperties
<1>3. Head(t) = t[1]
  BY <1>1
<1> DEFINE n == Len(t)
           u == Tail(t)
           m == Len(u)
<1>4. n \in Nat /\ m = n - 1 /\ \A i \in 1 .. m : u[i] = t[i + 1]
  BY <1>1, <1>2
<1> HIDE DEF n, u, m
<1>5. /\ m >= 10 => n >= 10 /\ u[m - 9] = t[n - 9]
      /\ m >= 9 => n >= 9 /\ u[m - 8] = t[n - 8]
      /\ m >= 8 => n >= 8 /\ u[m - 7] = t[n - 7]
      /\ m >= 7 => n >= 7 /\ u[m - 6] = t[n - 6]
      /\ m >= 6 => n >= 6 /\ u[m - 5] = t[n - 5]
  BY <1>4
<1>6. Restarting(u)
  BY <1>5, Zenon DEF Restarting, n, m
<1>7. /\ n = 10 => n >= 10 /\ n - 9 = 1
      /\ n = 9 => n >= 9 /\ n - 8 = 1
      /\ n = 8 => n >= 8 /\ n - 7 = 1
      /\ n = 7 => n >= 7 /\ n - 6 = 1
      /\ n = 6 => n >= 6 /\ n - 5 = 1
  BY <1>4
<1> QED
  BY <1>3, <1>4, <1>6, <1>7, Zenon DEF Restarting, n, m, u

LEMMA ReplacingOK ==
    ASSUME Bounds, IInv, ScriptGoes PROVE Replacing(world', run')
<1> SUFFICES ASSUME run'.service = "policy-search", run'.phase = "body"
             PROVE  /\ PodsOfTemplate(world') /\ Restarting(run'.todo)
                    /\ Deleting(world', run')
  BY DEF Replacing
<1> DEFINE s == Head(run.todo)
           t == run.todo
<1>1. Proceeds(world, run, s, world', run')
  BY BodyGoesOn
<1>2. /\ run.service = "policy-search" /\ run.phase = "body"
      /\ Len(t) > 1 /\ run'.todo = Tail(t)
  BY <1>1 DEF Proceeds
<1>3. /\ PodsOfTemplate(world) /\ Restarting(t) /\ Deleting(world, run)
  BY <1>2 DEF IInv, Replacing
<1>4. /\ world \in World /\ run \in Run
      /\ t \in Seq(Name) /\ t \in Seq(Steps("policy-search"))
  BY <1>2 DEF IInv, Good, Run, Probing
<1>5. s \notin {"apply", "apply product", "annotate", "delete namespace"}
  <2>1. t # <<>>
    BY <1>2, EmptySeq
  <2>2. s \in Steps("policy-search")
    BY <1>4, <2>1, SeqNext
  <2> QED
    BY <2>2 DEF Steps
<1>6. /\ Restarting(Tail(t)) /\ Len(Tail(t)) = Len(t) - 1
      /\ Len(t) \in Nat
      /\ Len(t) = 10 => s = "pick pod"
      /\ Len(t) = 9 => s = "delete pod"
      /\ Len(t) = 8 => s = "pod gone"
      /\ Len(t) = 7 => s = "app rollout"
      /\ Len(t) = 6 => s = "query"
  BY <1>2, <1>3, <1>4, RestartingNext
<1> HIDE DEF s, t
<1>7. /\ world'.events = world.events /\ world'.created = world.created
      /\ \A p \in Pod : world.pods[p] = "absent" => world'.pods[p] = "absent"
  BY <1>1 DEF Proceeds, Changes
<1>8. PodsOfTemplate(world')
  <2>0. Changes(world, world', s)
    BY <1>1 DEF Proceeds
  <2>1. world'.namespace # "terminating"
    BY <1>3, <1>5, <2>0 DEF Changes, PodsOfTemplate
  <2>2. world'.replicas = 1 => world'.template = TRUE
    <3>1. CASE s = "apply events"
      BY <2>0, <3>1 DEF Changes
    <3>2. CASE s = "scale to zero"
      <4>1. world'.replicas = 0
        BY <2>0, <3>2 DEF Changes
      <4> QED
        BY <4>1
    <3>3. CASE s \notin {"apply events", "scale to zero"}
      <4>1. /\ world'.template = world.template
            /\ world'.replicas = world.replicas
        BY <1>5, <2>0, <3>3 DEF Changes
      <4> QED
        BY <1>3, <4>1 DEF PodsOfTemplate
    <3> QED
      BY <3>1, <3>2, <3>3
  <2> QED
    BY <1>3, <1>7, <2>1, <2>2 DEF PodsOfTemplate
<1>9. Deleting(world', run')
  <2> DEFINE n == Len(t)
  <2>1. n \in Nat /\ Len(run'.todo) = n - 1
    BY <1>2, <1>6
  <2> HIDE DEF n
  <2>2. CASE n = 10
    <3>1. run'.pod \in Existing(world)
      BY <1>1, <1>6, <2>2 DEF Proceeds, n
    <3>2. run'.pod <= world'.created
      BY <1>3, <1>7, <3>1 DEF PodsOfTemplate, Existing
    <3> QED
      BY <2>1, <2>2, <3>2 DEF Deleting
  <2>3. CASE n = 9
    <3>1. run'.pod = run.pod /\ run'.deleted = run.pod
      BY <1>1, <1>6, <2>3 DEF Proceeds, n
    <3>2. run.pod <= world.created
      BY <1>3, <2>3 DEF Deleting, n, t
    <3> QED
      BY <1>7, <2>1, <2>3, <3>1, <3>2 DEF Deleting
  <2>4. CASE n = 8
    <3>1. /\ s = "pod gone" /\ run'.deleted = run.deleted
          /\ Holds(world, run, s)
      BY <1>1, <1>6, <2>4 DEF Proceeds, n
    <3>2. world.pods[run.pod] = "absent"
      BY <3>1 DEF Holds
    <3>3. run.pod <= world.created /\ run.deleted = run.pod
      BY <1>3, <2>4 DEF Deleting, n, t
    <3>4. run.pod \in Pod
      BY <1>4 DEF Run
    <3>5. /\ run'.deleted = run.pod /\ run.pod <= world'.created
          /\ world'.pods[run.pod] = "absent"
      BY <1>7, <3>1, <3>2, <3>3, <3>4
    <3>6. Len(run'.todo) = 7
      BY <2>1, <2>4
    <3> QED
      BY <3>4, <3>5, <3>6 DEF Deleting
  <2>5. CASE n = 7
    <3>1. run'.deleted = run.deleted
      BY <1>1, <1>6, <2>5 DEF Proceeds, n
    <3>2. /\ run.deleted \in Pod /\ run.deleted <= world.created
          /\ world.pods[run.deleted] = "absent"
      BY <1>3, <2>5 DEF Deleting, n, t
    <3> QED
      BY <1>7, <2>1, <2>5, <3>1, <3>2 DEF Deleting
  <2>6. CASE n \notin {7, 8, 9, 10}
    <3>1. Len(run'.todo) \notin {6, 7, 8, 9}
      BY <2>1, <2>6
    <3> QED
      BY <3>1 DEF Deleting
  <2> QED
    BY <2>2, <2>3, <2>4, <2>5, <2>6
<1> QED
  BY <1>2, <1>6, <1>8, <1>9

-----------------------------------------------------------------------------
(* What a script makes, it notes.                                          *)

\* Making (DisposableDeployment) of any cluster and script.
MakingOf(w, r) ==
    (~r.owns /\ w.namespace # "absent") \/ (~r.probe /\ w.image)

LEMMA WaitsNext ==
    ASSUME NEW t \in Seq(Name), t # <<>>, NEW s, Waits(t, s)
    PROVE  /\ Head(t) = s \/ Waits(Tail(t), s)
           /\ ~(Len(t) > 1) => Head(t) = s
<1>1. PICK i \in 1 .. Len(t) : t[i] = s
  BY DEF Waits
<1>2. Len(t) \in Nat /\ Head(t) = t[1]
  OBVIOUS
<1>3. /\ Len(Tail(t)) = Len(t) - 1
      /\ \A k \in 1 .. Len(Tail(t)) : Tail(t)[k] = t[k + 1]
  BY HeadTailProperties
<1>4. CASE i = 1
  BY <1>1, <1>2, <1>4
<1>5. CASE i # 1
  <2>1. i - 1 \in 1 .. Len(Tail(t)) /\ (i - 1) + 1 = i /\ Len(t) > 1
    BY <1>1, <1>2, <1>3, <1>5
  <2>2. Tail(t)[i - 1] = s
    BY <1>1, <1>3, <2>1
  <2> QED
    BY <2>1, <2>2 DEF Waits
<1> QED
  BY <1>4, <1>5

\* The beginnings of the scripts, which have the notes, and any more steps.
LEMMA WaitsMore ==
    ASSUME NEW S, NEW t \in Seq(S), NEW u \in Seq(S), NEW s, Waits(t, s)
    PROVE  Waits(t \o u, s)
<1>1. PICK i \in 1 .. Len(t) : t[i] = s
  BY DEF Waits
<1>2. /\ Len(t \o u) = Len(t) + Len(u)
      /\ \A k \in 1 .. Len(t) + Len(u) :
            (t \o u)[k] = IF k <= Len(t) THEN t[k] ELSE u[k - Len(t)]
  BY ConcatProperties
<1>3. Len(t) \in Nat /\ Len(u) \in Nat
  BY LenProperties
<1>4. i \in 1 .. Len(t) + Len(u) /\ i <= Len(t)
  BY <1>3
<1> QED
  BY <1>1, <1>2, <1>4, Zenon DEF Waits

LEMMA WaitsLast ==
    ASSUME NEW S, NEW t \in Seq(S), NEW u \in Seq(S), NEW s, Waits(u, s)
    PROVE  Waits(t \o u, s)
<1>1. PICK i \in 1 .. Len(u) : u[i] = s
  BY DEF Waits
<1>2. /\ Len(t \o u) = Len(t) + Len(u)
      /\ \A k \in 1 .. Len(t) + Len(u) :
            (t \o u)[k] = IF k <= Len(t) THEN t[k] ELSE u[k - Len(t)]
  BY ConcatProperties
<1>3. Len(t) \in Nat /\ Len(u) \in Nat
  BY LenProperties
<1> DEFINE n == Len(t)
           k == n + i
<1>4. /\ k \in 1 .. n + Len(u) /\ ~(k <= n) /\ k - n = i
  BY <1>3
<1> HIDE DEF k
<1>5. (t \o u)[k] = u[i]
  BY <1>2, <1>4, Zenon
<1> QED
  BY <1>1, <1>2, <1>4, <1>5, Zenon DEF Waits

LEMMA WaitsIn ==
    ASSUME NEW a, NEW b, NEW c, NEW d
    PROVE  /\ Waits(<<a, b>>, a)
           /\ Waits(<<a, b, c>>, b) /\ Waits(<<a, b, c>>, c)
           /\ Waits(<<a, b, c, d>>, c)
<1>1. /\ Len(<<a, b>>) = 2 /\ <<a, b>>[1] = a
      /\ Len(<<a, b, c>>) = 3 /\ <<a, b, c>>[2] = b /\ <<a, b, c>>[3] = c
      /\ Len(<<a, b, c, d>>) = 4 /\ <<a, b, c, d>>[3] = c
  OBVIOUS
<1>2. 1 \in 1 .. 2 /\ 2 \in 1 .. 3 /\ 3 \in 1 .. 3 /\ 3 \in 1 .. 4
  OBVIOUS
<1> QED
  BY <1>1, <1>2, Zenon DEF Waits

LEMMA CleaningKeeps ==
    ASSUME NEW r \in Run, NEW v \in {"passed", "failed"}
    PROVE  LET q == Cleaning(r, v)
           IN q.service = r.service /\ q.verdict = v /\ Same(r, q)
<1>0. v \in {"passed", "failed", "left over", "killed"}
  OBVIOUS
<1>1. CASE Cleanup(r) = <<>>
  <2>1. Cleaning(r, v) = Ends(r, v)
    BY <1>1 DEF Cleaning
  <2>2. Becomes(r, Ends(r, v), "ended", v, <<>>)
    BY <1>0, EndsOK
  <2> QED
    BY <2>1, <2>2 DEF Becomes, Same
<1>2. CASE Cleanup(r) # <<>>
  <2> DEFINE t == Cleanup(r)
             q == [r EXCEPT !.phase = "cleanup", !.verdict = v, !.todo = t]
  <2>1. Cleaning(r, v) = q
    BY <1>2 DEF Cleaning
  <2> HIDE DEF t
  <2>2. q.service = r.service /\ q.verdict = v /\ Same(r, q)
    BY DEF Run, Same
  <2> QED
    BY <2>1, <2>2
<1> QED
  BY <1>1, <1>2

\* An exception notes nothing, and turns no verdict into "passed".
LEMMA RaisedKeeps ==
    ASSUME NEW r \in Run, r.phase \in {"body", "cleanup"},
           r.verdict \in {"none", "passed", "failed", "left over"},
           r.phase = "body" => r.verdict = "none",
           r.phase = "cleanup" => r.verdict # "none"
    PROVE  LET q == Raised(r)
           IN /\ q.service = r.service /\ Same(r, q)
              /\ q.verdict = "passed" =>
                    r.phase = "cleanup" /\ r.verdict = "passed"
              /\ q.verdict # "killed"
              /\ q.verdict = "left over" => r.phase = "cleanup"
<1> DEFINE c == [r EXCEPT !.closed = FALSE]
           q == Raised(r)
<1>1. c \in Run /\ c.service = r.service /\ Same(r, c)
  BY DEF Run, Same
<1> HIDE DEF c
<1>2. /\ Cleaning(c, "failed").service = r.service
      /\ Cleaning(c, "failed").verdict = "failed"
      /\ Same(r, Cleaning(c, "failed"))
  BY <1>1, CleaningKeeps DEF Same
<1>3. CASE Head(r.todo) = "open gate"
  <2>1. q = Cleaning(c, "failed")
    BY <1>3 DEF Raised, c
  <2> HIDE DEF q
  <2> QED
    BY <1>2, <2>1 DEF q
<1>4. CASE Head(r.todo) # "open gate" /\ r.phase = "body"
  <2>1. q = Cleaning(r, "failed")
    BY <1>4 DEF Raised
  <2> HIDE DEF q
  <2> QED
    BY <2>1, CleaningKeeps DEF q
<1>5. CASE Head(r.todo) # "open gate" /\ r.phase = "cleanup"
  <2> DEFINE t == <<"remove image">>
             a == [r EXCEPT !.todo = t, !.verdict = "left over"]
  <2>1. q = Ends(r, r.verdict) \/ q = Ends(r, "left over") \/ q = a
    BY <1>5 DEF Raised
  <2> HIDE DEF t, q
  <2>2. a.service = r.service /\ a.verdict = "left over" /\ Same(r, a)
    BY DEF Run, Same
  <2>3. \A v \in {"passed", "failed", "left over", "killed"} :
           LET e == Ends(r, v)
           IN e.service = r.service /\ e.verdict = v /\ Same(r, e)
    BY EndsOK DEF Becomes, Same
  <2> QED
    BY <1>5, <2>1, <2>2, <2>3 DEF q
<1> QED
  BY <1>3, <1>4, <1>5

\* Where a step of the script leads with what it has noted.
Turns(w, r, v, q) ==
    /\ q.service = r.service
    /\ v = w \/ Changes(w, v, Head(r.todo))
    /\ q.phase # "body" /\ q.verdict = "passed" =>
          \/ /\ r.phase = "cleanup" /\ r.verdict = "passed"
             /\ Told(r, q, Head(r.todo)) \/ Same(r, q)
          \/ /\ r.phase = "body" /\ ~(Len(r.todo) > 1)
             /\ Told(r, q, Head(r.todo))
    /\ q.phase # "body" /\ q.verdict \in {"left over", "killed"} =>
          /\ Told(r, q, Head(r.todo)) \/ Same(r, q)
          /\ \/ r.phase = "cleanup"
             \/ v = w /\ Same(r, q)

LEMMA ScriptTurns ==
    ASSUME Bounds, IInv, ScriptGoes PROVE Turns(world, run, world', run')
<1> DEFINE s == Head(run.todo)
<1>1. /\ world \in World /\ run \in Run /\ Ending(run)
      /\ run.phase = "cleanup" => Ahead(world, run)
  BY DEF IInv, Good
<1>2. /\ run.todo \in Seq(Name) /\ run.todo # <<>>
      /\ run.phase \in {"body", "cleanup"}
  BY <1>1 DEF ScriptGoes, Step, Refuse, Fail, Kill, Running, Ending, Run
<1>3. s \in Name
  BY <1>2, SeqNext
<1>4. /\ run.phase = "body" => run.verdict = "none"
      /\ run.phase = "cleanup" => run.verdict # "none"
      /\ run.verdict \in {"none", "passed", "failed", "left over"}
  BY <1>1, <1>2 DEF Ending, Ahead
<1>5. Changes(world, Effect(world, run, s), s)
  BY <1>1, <1>3, EffectOK
<1>6. CASE Step
  <2>1. PICK r \in Learns(world, run, s) : run' = Advanced(r)
    BY <1>6 DEF Step
  <2>2. Changes(world, world', s)
    BY <1>5, <1>6 DEF Step
  <2>3. Learnt(world, run, r, s)
    BY <1>1, <1>3, LearnsOK
  <2> HIDE DEF s
  <2>4. /\ r \in Run /\ r.phase = run.phase /\ r.todo = run.todo
        /\ r.service = run.service /\ r.verdict = run.verdict
        /\ Told(run, r, s)
    BY <2>3 DEF Learnt, Keeps, Told
  <2>5. CASE Len(r.todo) > 1
    <3> DEFINE t == Tail(r.todo)
    <3>1. run' = [r EXCEPT !.todo = t]
      BY <2>1, <2>5 DEF Advanced
    <3> HIDE DEF t
    <3>2. /\ run'.service = r.service /\ run'.phase = r.phase
          /\ run'.verdict = r.verdict /\ Same(r, run')
      BY <2>4, <3>1 DEF Run, Same
    <3>3. Told(run, run', s)
      BY <2>4, <3>2 DEF Told, Same
    <3> QED
      BY <1>2, <2>2, <2>4, <3>2, <3>3 DEF Turns, s
  <2>6. CASE ~(Len(r.todo) > 1) /\ r.phase = "body"
    <3>1. run' = Cleaning(r, "passed")
      BY <2>1, <2>6 DEF Advanced
    <3>2. run'.service = r.service /\ run'.verdict = "passed" /\ Same(r, run')
      BY <2>4, <3>1, CleaningKeeps
    <3>3. Told(run, run', s)
      BY <2>4, <3>2 DEF Told, Same
    <3> QED
      BY <2>2, <2>4, <2>6, <3>2, <3>3 DEF Turns, s
  <2>7. CASE ~(Len(r.todo) > 1) /\ r.phase # "body"
    <3>1. run' = Ends(r, r.verdict)
      BY <2>1, <2>7 DEF Advanced
    <3>2. r.verdict \in {"passed", "failed", "left over", "killed"}
      BY <1>2, <1>4, <2>4, <2>7
    <3>3. /\ run'.service = r.service /\ run'.verdict = r.verdict
          /\ Same(r, run')
      BY <2>4, <3>1, <3>2, EndsOK DEF Becomes, Same
    <3>4. Told(run, run', s)
      BY <2>4, <3>3 DEF Told, Same
    <3> QED
      BY <1>2, <2>2, <2>4, <2>7, <3>3, <3>4 DEF Turns, s
  <2> QED
    BY <2>5, <2>6, <2>7
<1>7. CASE Refuse
  <2>1. world' = world /\ run' = Raised(run)
    BY <1>7 DEF Refuse
  <2> QED
    BY <1>1, <1>2, <1>4, <2>1, RaisedKeeps DEF Turns
<1>8. CASE Fail
  <2> DEFINE n == run.faults + 1
             r == [run EXCEPT !.faults = n]
  <2>0. n \in Nat
    <3>1. run.faults \in Nat
      BY <1>1 DEF Run
    <3> QED
      BY <3>1, NatNext, Zenon
  <2> HIDE DEF n
  <2>1. /\ r \in Run /\ r.todo = run.todo /\ r.phase = run.phase
        /\ r.service = run.service /\ r.verdict = run.verdict
        /\ Same(run, r)
    BY <1>1, <2>0 DEF Run, Same
  <2>2. /\ world' \in {world, Effect(world, run, s)}
        /\ \/ run' = Raised(r)
           \/ r.phase = "cleanup" /\ run' = Ends(r, "left over")
    BY <1>8 DEF Fail, n
  <2> HIDE DEF r
  <2>3. world' = world \/ Changes(world, world', s)
    BY <1>5, <2>2
  <2> HIDE DEF s
  <2>4. CASE run' = Raised(r)
    <3>1. /\ run'.service = r.service /\ Same(r, run')
          /\ run'.verdict = "passed" =>
                r.phase = "cleanup" /\ r.verdict = "passed"
          /\ run'.verdict # "killed"
          /\ run'.verdict = "left over" => r.phase = "cleanup"
      BY <1>2, <1>4, <2>1, <2>4, RaisedKeeps
    <3>2. Same(run, run')
      BY <2>1, <3>1 DEF Same
    <3> QED
      BY <2>1, <2>3, <3>1, <3>2 DEF Turns, s
  <2>5. CASE r.phase = "cleanup" /\ run' = Ends(r, "left over")
    <3>1. /\ run'.service = r.service /\ run'.verdict = "left over"
          /\ Same(r, run')
      BY <2>1, <2>5, EndsOK DEF Becomes, Same
    <3>2. Same(run, run')
      BY <2>1, <3>1 DEF Same
    <3> QED
      BY <2>1, <2>3, <2>5, <3>1, <3>2 DEF Turns, s
  <2> QED
    BY <2>2, <2>4, <2>5
<1>9. CASE Kill
  <2> DEFINE e == Ends(run, "killed")
             n == e.kills + 1
  <2>1. world' = world /\ run' = [e EXCEPT !.kills = n]
    BY <1>9 DEF Kill
  <2>2. /\ e \in Run /\ e.service = run.service /\ e.verdict = "killed"
        /\ Same(run, e)
    BY <1>1, EndsOK DEF Becomes, Same
  <2> HIDE DEF e, n
  <2>3. /\ run'.service = e.service /\ run'.verdict = "killed"
        /\ Same(e, run')
    BY <2>1, <2>2 DEF Run, Same
  <2>4. Same(run, run')
    BY <2>2, <2>3 DEF Same
  <2> QED
    BY <2>1, <2>2, <2>3, <2>4 DEF Turns
<1> QED
  BY <1>6, <1>7, <1>8, <1>9 DEF ScriptGoes

\* In the finally block nothing is made; a step of it notes nothing.
LEMMA CleanupMakesNothing ==
    ASSUME NEW w, NEW r \in Run, NEW v, NEW q, Turns(w, r, v, q),
           r.phase = "cleanup", Ahead(w, r)
    PROVE  /\ v.image => w.image
           /\ w.namespace = "absent" => v.namespace = "absent"
           /\ Told(r, q, Head(r.todo)) => Same(r, q)
<1>1. Head(r.todo) \in {"open gate", "find owner", "delete namespace",
                        "namespace gone", "remove image"}
  BY CleanupFacts DEF Ahead
<1>2. v = w \/ Changes(w, v, Head(r.todo))
  BY DEF Turns
<1> QED
  BY <1>1, <1>2 DEF Changes, Told, Same

LEMMA NotingOK ==
    ASSUME Bounds, IInv, ScriptGoes
    PROVE  /\ Noting(world', run')
           /\ run'.phase # "body" /\ run'.verdict \in {"left over", "killed"}
              /\ MakingOf(world', run') => MakingOf(world, run)
<1> DEFINE s == Head(run.todo)
           w == world
           v == world'
           q == run'
<1>1. Turns(world, run, world', run')
  BY ScriptTurns
<1>2. /\ run \in Run /\ Probing(run) /\ Ending(run) /\ Noting(world, run)
      /\ run.phase = "cleanup" => Ahead(world, run)
      /\ run.owns \in BOOLEAN /\ run.probe \in BOOLEAN
  BY DEF IInv, Good, Run
<1>3. /\ run.todo \in Seq(Name) /\ run.todo # <<>>
      /\ run.phase \in {"body", "cleanup"}
  BY <1>2 DEF ScriptGoes, Step, Refuse, Fail, Kill, Running, Ending, Run
<1>4. run' \in Run /\ Ending(run')
  BY ScriptOK DEF Lands, Good
<1>5. q.service = run.service
  BY <1>1 DEF Turns
<1>6. v.image => q.service = "policy-search"
  <2>1. CASE run.phase = "cleanup"
    BY <1>1, <1>2, <1>5, <2>1, CleanupMakesNothing DEF Noting
  <2>2. CASE run.phase = "body"
    <3>1. s \in Steps(run.service)
      BY <1>2, <1>3, <2>2, SeqNext DEF Probing
    <3>2. s = "build image" => run.service = "policy-search"
      BY <3>1 DEF Steps
    <3>3. v = w \/ Changes(w, v, s)
      BY <1>1 DEF Turns
    <3>4. v.image => w.image \/ s = "build image"
      BY <3>3 DEF Changes
    <3> QED
      BY <1>2, <1>5, <3>2, <3>4 DEF Noting
  <2> QED
    BY <1>3, <2>1, <2>2
<1>7. ASSUME q.phase = "body"
      PROVE  /\ q.owns \/ Waits(q.todo, "own")
             /\ q.service = "policy-search" =>
                   q.probe \/ Waits(q.todo, "own image")
  <2>1. Proceeds(w, run, s, v, q)
    BY <1>7, BodyGoesOn
  <2>2. q.todo = Tail(run.todo) /\ Told(run, q, s) /\ run.phase = "body"
    BY <2>1 DEF Proceeds
  <2>3. /\ Waits(run.todo, "own") => s = "own" \/ Waits(q.todo, "own")
        /\ Waits(run.todo, "own image") =>
              s = "own image" \/ Waits(q.todo, "own image")
    BY <1>3, <2>2, WaitsNext
  <2> QED
    BY <1>2, <1>5, <2>2, <2>3 DEF Noting, Told
<1>8. ASSUME q.verdict = "passed" PROVE NotedAll(q)
  <2>1. q.phase # "body"
    BY <1>4, <1>8 DEF Ending
  <2>2. CASE run.phase = "cleanup"
    <3>1. run.verdict = "passed" /\ (Told(run, q, s) \/ Same(run, q))
      BY <1>1, <1>8, <2>1, <2>2 DEF Turns
    <3>2. Same(run, q)
      BY <1>1, <1>2, <2>2, <3>1, CleanupMakesNothing
    <3> QED
      BY <1>2, <1>5, <3>1, <3>2 DEF Noting, NotedAll, Same
  <2>3. CASE run.phase = "body"
    <3>1. ~(Len(run.todo) > 1) /\ Told(run, q, s)
      BY <1>1, <1>8, <2>1, <2>3 DEF Turns
    <3>2. /\ Waits(run.todo, "own") => s = "own"
          /\ Waits(run.todo, "own image") => s = "own image"
      BY <1>3, <3>1, WaitsNext
    <3> QED
      BY <1>2, <1>5, <2>3, <3>1, <3>2 DEF Noting, NotedAll, Told
  <2> QED
    BY <1>3, <2>2, <2>3
<1>9. ASSUME q.phase # "body", q.verdict \in {"left over", "killed"},
             MakingOf(v, q)
      PROVE  MakingOf(w, run)
  <2>1. /\ Told(run, q, s) \/ Same(run, q)
        /\ \/ run.phase = "cleanup"
           \/ v = w /\ Same(run, q)
    BY <1>1, <1>9 DEF Turns
  <2>2. Same(run, q) /\ (v.image => w.image)
        /\ (w.namespace = "absent" => v.namespace = "absent")
    BY <1>1, <1>2, <2>1, CleanupMakesNothing
  <2> QED
    BY <1>9, <2>2 DEF MakingOf, Same
<1>10. Noting(v, q)
  BY <1>6, <1>7, <1>8 DEF Noting
<1> QED
  BY <1>9, <1>10

-----------------------------------------------------------------------------
\* The controllers create Pods with new numbers from the template.
Follows(w, v) ==
    /\ v.template = w.template /\ v.replicas = w.replicas
    /\ w.created <= v.created
    /\ \A p \in Pod : v.pods[p] # "absent" =>
          \/ w.pods[p] # "absent" /\ v.events[p] = w.events[p]
          \/ /\ w.created < p /\ p <= v.created
             /\ w.replicas = 1 /\ v.events[p] = w.template
\* What they leave alone.
Behind(w, v) ==
    /\ v \in World /\ v.image = w.image
    /\ \/ /\ v.namespace = w.namespace /\ w.namespace # "absent"
          /\ Follows(w, v)
       \/ /\ w.namespace = "terminating"
          /\ v.namespace = "absent" /\ Emptied(v)

LEMMA PlainBehind ==
    ASSUME NEW w \in World, NEW v, Plain(w, v), w.namespace # "absent"
    PROVE  Behind(w, v)
<1>1. w.created \in Int
  BY DEF World
<1> QED
  BY <1>1 DEF Plain, Apart, Behind, Follows

LEMMA PodsBehind ==
    ASSUME NEW w \in World, w.namespace # "absent",
           NEW f \in [Pod -> PodState],
           \A p \in Pod : w.pods[p] = "absent" => f[p] = "absent"
    PROVE  Behind(w, [w EXCEPT !.pods = f])
<1> DEFINE v == [w EXCEPT !.pods = f]
<1>1. /\ v \in World /\ v.namespace = w.namespace /\ v.image = w.image
      /\ v.pods = f /\ v.events = w.events /\ v.created = w.created
      /\ v.template = w.template /\ v.replicas = w.replicas
      /\ w.created \in Int
  BY DEF World
<1> HIDE DEF v
<1>2. Behind(w, v)
  BY <1>1 DEF Behind, Follows
<1> QED
  BY <1>2 DEF v

\* The controllers never bring a namespace or an image back.
LEMMA ControllersOK ==
    ASSUME Bounds, IInv, Controllers
    PROVE  Behind(world, world') /\ run' = run
<1>1. world \in World
  BY DEF IInv, Good
<1>2. world.pods \in [Pod -> PodState]
  BY <1>1 DEF World
<1>3. CASE StartElastic
  <2>1. world.namespace # "absent" /\ run' = run
    BY <1>3 DEF StartElastic, There
  <2>2. \/ world' = [world EXCEPT !.elastic = "starting", !.restarts = 1]
        \/ world' = [world EXCEPT !.elastic = "listening"]
        \/ world' = [world EXCEPT !.elastic = "serving"]
    BY <1>3 DEF StartElastic
  <2>3. CASE world' = [world EXCEPT !.elastic = "starting", !.restarts = 1]
    <3> DEFINE a == [world EXCEPT !.elastic = "starting"]
    <3>1. Plain(world, a) /\ a \in World
      BY <1>1, PlainField DEF Plain, Apart
    <3>2. world' = [a EXCEPT !.restarts = 1]
      BY <2>3
    <3> HIDE DEF a
    <3>3. Plain(a, world')
      BY <3>1, <3>2, PlainField
    <3> QED
      BY <1>1, <2>1, <3>1, <3>3, PlainTwice, PlainBehind
  <2>4. CASE \/ world' = [world EXCEPT !.elastic = "listening"]
             \/ world' = [world EXCEPT !.elastic = "serving"]
    <3>1. Plain(world, world')
      BY <1>1, <2>4, PlainField
    <3> QED
      BY <1>1, <2>1, <3>1, PlainBehind
  <2> QED
    BY <2>2, <2>3, <2>4
<1>4. CASE StartKafka
  <2>1. world.namespace # "absent" /\ run' = run
    BY <1>4 DEF StartKafka, There
  <2>2. \/ world' = [world EXCEPT !.kafka = "listening"]
        \/ world' = [world EXCEPT !.kafka = "serving"]
    BY <1>4 DEF StartKafka
  <2>3. Plain(world, world')
    BY <1>1, <2>2, PlainField
  <2> QED
    BY <1>1, <2>1, <2>3, PlainBehind
<1>5. CASE CreatePod
  <2> DEFINE p == world.created + 1
             f == [world.pods EXCEPT ![p] = "starting"]
             e == [world.events EXCEPT ![p] = world.template]
  <2>1. /\ world.namespace # "absent" /\ run' = run
        /\ world.created < MaxPods /\ world.replicas = 1
        /\ world' = [world EXCEPT !.created = p, !.pods = f, !.events = e]
    BY <1>5 DEF CreatePod, There
  <2>2. p \in 0 .. MaxPods
    BY <1>1, <2>1 DEF World, Bounds
  <2>3. /\ f \in [Pod -> PodState]
        /\ \A r \in Pod : r # p => f[r] = world.pods[r]
    BY <1>2 DEF PodState
  <2>4. /\ e \in [Pod -> BOOLEAN]
        /\ \A r \in Pod : r # p => e[r] = world.events[r]
        /\ p \in Pod => e[p] = world.template
    BY <1>1 DEF World
  <2>5. world.created \in Int /\ world.created < p /\ p <= p
    BY <1>1 DEF World
  <2> HIDE DEF p, f, e
  <2>6. /\ world' \in World /\ world'.namespace = world.namespace
        /\ world'.image = world.image
    BY <1>1, <2>1, <2>2, <2>3, <2>4 DEF World
  <2>7. /\ world'.created = p /\ world'.pods = f /\ world'.events = e
        /\ world'.template = world.template
        /\ world'.replicas = world.replicas
    BY <1>1, <2>1 DEF World
  <2>8. Follows(world, world')
    <3>1. world.created <= p
      BY <2>2, <2>5
    <3>2. ASSUME NEW r \in Pod, f[r] # "absent"
          PROVE  \/ world.pods[r] # "absent" /\ e[r] = world.events[r]
                 \/ world.created < r /\ r <= p /\ e[r] = world.template
      <4>1. CASE r = p
        BY <2>4, <2>5, <4>1
      <4>2. CASE r # p
        BY <2>3, <2>4, <3>2, <4>2
      <4> QED
        BY <4>1, <4>2
    <3> QED
      BY <2>1, <2>7, <3>1, <3>2 DEF Follows
  <2> QED
    BY <2>1, <2>6, <2>8 DEF Behind
<1>6. CASE UpdateStatus
  <2> DEFINE g == world.generation
             updated == {p \in Live(world) : world.events[p] = world.template}
             b == IF world.replicas = 0 THEN Live(world) = {}
                  ELSE /\ updated \cap ReadyPods(world) # {}
                       /\ Live(world) \ updated = {}
             a == [world EXCEPT !.observed = g]
  <2>1. /\ world.namespace # "absent" /\ run' = run
        /\ world' = [a EXCEPT !.available = b]
    BY <1>6 DEF UpdateStatus, There
  <2>2. b \in BOOLEAN /\ g \in Nat
    BY <1>1 DEF World
  <2> HIDE DEF b, g
  <2>3. Plain(world, a) /\ a \in World
    BY <1>1, <2>2, PlainField DEF Plain, Apart
  <2> HIDE DEF a
  <2>4. Plain(a, world')
    BY <2>1, <2>2, <2>3, PlainField
  <2> QED
    BY <1>1, <2>1, <2>3, <2>4, PlainTwice, PlainBehind
<1>7. CASE UpdateSlice
  <2> DEFINE x == ReadyPods(world)
  <2>1. /\ world.namespace # "absent" /\ run' = run
        /\ world' = [world EXCEPT !.slice = x]
    BY <1>7 DEF UpdateSlice, There
  <2>2. x \in SUBSET Pod
    BY DEF ReadyPods
  <2> HIDE DEF x
  <2>3. /\ world' \in World /\ world'.namespace = world.namespace
        /\ world'.image = world.image
        /\ world'.created = world.created /\ world'.pods = world.pods
        /\ world'.events = world.events
        /\ world'.template = world.template
        /\ world'.replicas = world.replicas /\ world.created \in Int
    BY <1>1, <2>1, <2>2 DEF World
  <2> QED
    BY <2>1, <2>3 DEF Behind, Follows
<1>8. CASE Project
  <2>1. /\ world.namespace # "absent" /\ run' = run
        /\ world' = [world EXCEPT !.projected = TRUE]
    BY <1>8 DEF Project, There
  <2>2. Plain(world, world')
    BY <1>1, <2>1, PlainField
  <2> QED
    BY <1>1, <2>1, <2>2, PlainBehind
<1>9. CASE RemoveNamespace
  <2> DEFINE i == world.image
  <2>1. /\ run' = run /\ world.namespace = "terminating"
        /\ world' = [Nothing EXCEPT !.image = i]
    BY <1>9 DEF RemoveNamespace
  <2>2. i \in BOOLEAN
    BY <1>1 DEF World
  <2> HIDE DEF i
  <2>3. /\ [p \in Pod |-> "absent"] \in [Pod -> PodState]
        /\ [p \in Pod |-> FALSE] \in [Pod -> BOOLEAN]
        /\ 0 \in 0 .. MaxPods
    BY DEF PodState, Bounds
  <2>4. Nothing \in World
    BY <2>3 DEF World, Nothing
  <2>5. Nothing.namespace = "absent" /\ Nothing.slice = {}
        /\ \A p \in Pod : Nothing.pods[p] = "absent"
    BY DEF Nothing
  <2>6. /\ world' \in World /\ world'.namespace = "absent"
        /\ world'.image = i /\ world'.slice = {}
        /\ world'.pods = Nothing.pods
    BY <2>1, <2>2, <2>4, <2>5 DEF World
  <2>7. Emptied(world')
    BY <2>5, <2>6 DEF Emptied
  <2> QED
    BY <2>1, <2>6, <2>7 DEF Behind, i
<1>10. CASE \E p \in Pod :
                RetirePod(p) \/ PodReady(p) \/ PodUnready(p) \/ PodGone(p)
  <2>1. PICK p \in Pod :
           RetirePod(p) \/ PodReady(p) \/ PodUnready(p) \/ PodGone(p)
    BY <1>10
  <2>2. PICK x \in PodState :
           /\ world' = [world EXCEPT !.pods = [world.pods EXCEPT ![p] = x]]
           /\ run' = run /\ world.namespace # "absent"
           /\ world.pods[p] # "absent"
    <3>1. CASE RetirePod(p)
      BY <3>1 DEF RetirePod, There, PodState, Live
    <3>2. CASE PodReady(p)
      BY <3>2 DEF PodReady, There, PodState
    <3>3. CASE PodUnready(p)
      BY <3>3 DEF PodUnready, There, PodState
    <3>4. CASE PodGone(p)
      BY <3>4 DEF PodGone, There, PodState
    <3> QED
      BY <2>1, <3>1, <3>2, <3>3, <3>4
  <2> DEFINE f == [world.pods EXCEPT ![p] = x]
  <2>3. /\ f \in [Pod -> PodState]
        /\ \A r \in Pod : world.pods[r] = "absent" => f[r] = "absent"
    BY <1>2, <2>2
  <2> HIDE DEF f
  <2> QED
    BY <1>1, <2>2, <2>3, PodsBehind DEF f
<1> QED
  BY <1>3, <1>4, <1>5, <1>6, <1>7, <1>8, <1>9, <1>10 DEF Controllers

\* Therefore they keep the invariant of a finally block under way.
LEMMA BehindOK ==
    ASSUME NEW w, NEW v, NEW r, Good(w, r), Behind(w, v)
    PROVE  /\ Good(v, r) /\ (HeldOf(v, r) => HeldOf(w, r))
           /\ MakingOf(v, r) => MakingOf(w, r)
           /\ Noting(w, r) => Noting(v, r)
<1>1. /\ v \in World /\ Emptied(v)
      /\ w.namespace = "absent" => v.namespace = "absent"
  BY DEF Behind, Good, Emptied
<1>2. Ahead(w, r) => Ahead(v, r)
  BY <1>1 DEF Ahead
<1> QED
  BY <1>1, <1>2 DEF Good, Behind, HeldOf, MakingOf, Noting

\* Nor do they create what the policy-search deletes, or without the worker.
LEMMA BehindReplacing ==
    ASSUME NEW w, NEW v, NEW r, Good(w, r), Replacing(w, r), Behind(w, v)
    PROVE  Replacing(v, r)
<1> SUFFICES ASSUME r.service = "policy-search", r.phase = "body"
             PROVE  PodsOfTemplate(v) /\ Restarting(r.todo) /\ Deleting(v, r)
  BY DEF Replacing
<1>1. PodsOfTemplate(w) /\ Restarting(r.todo) /\ Deleting(w, r)
  BY DEF Replacing
<1>2. Follows(w, v) /\ v.namespace # "terminating"
  BY <1>1 DEF Behind, PodsOfTemplate
<1>3. /\ w.created \in Int /\ v.created \in Int /\ w.created <= v.created
      /\ r.pod \in Int /\ Pod \subseteq Int
  <2>1. w \in World /\ v \in World /\ r \in Run
    BY DEF Good, Behind
  <2>2. w.created \in Int /\ v.created \in Int
    BY <2>1 DEF World
  <2>3. r.pod \in Pod
    BY <2>1 DEF Run
  <2> QED
    BY <1>2, <2>2, <2>3 DEF Follows, Pod
<1>4. PodsOfTemplate(v)
  <2>1. v.replicas = 1 => v.template = TRUE
    BY <1>1, <1>2 DEF Follows, PodsOfTemplate
  <2>2. ASSUME NEW p \in Pod, v.pods[p] # "absent"
        PROVE  p <= v.created /\ v.events[p] = TRUE
    <3>1. CASE w.pods[p] # "absent" /\ v.events[p] = w.events[p]
      <4>1. p <= w.created /\ w.events[p] = TRUE
        BY <1>1, <3>1 DEF PodsOfTemplate
      <4> QED
        BY <1>3, <3>1, <4>1
    <3>2. CASE /\ p <= v.created /\ w.replicas = 1
               /\ v.events[p] = w.template
      BY <1>1, <3>2 DEF PodsOfTemplate
    <3> QED
      BY <1>2, <2>2, <3>1, <3>2 DEF Follows
  <2> QED
    BY <1>2, <2>1, <2>2 DEF PodsOfTemplate
<1>5. Deleting(v, r)
  <2>1. Len(r.todo) \in {8, 9} => r.pod <= v.created
    BY <1>1, <1>3 DEF Deleting
  <2>2. ASSUME Len(r.todo) \in {6, 7}
        PROVE  /\ r.deleted \in Pod /\ r.deleted <= v.created
               /\ v.pods[r.deleted] = "absent"
    <3>1. /\ r.deleted \in Pod /\ r.deleted <= w.created
          /\ w.pods[r.deleted] = "absent"
      BY <1>1, <2>2 DEF Deleting
    <3>2. r.deleted \in Int /\ ~(w.created < r.deleted)
      BY <1>3, <3>1
    <3> QED
      BY <1>2, <1>3, <3>1, <3>2 DEF Follows
  <2>3. Len(r.todo) = 8 => r.deleted = r.pod
    BY <1>1 DEF Deleting
  <2> QED
    BY <2>1, <2>2, <2>3 DEF Deleting
<1> QED
  BY <1>1, <1>4, <1>5

-----------------------------------------------------------------------------
(* The scripts consist of steps.                                           *)

LEMMA Concatenated ==
    ASSUME NEW S, NEW s \in Seq(S), NEW t \in Seq(S)
    PROVE  s \o t \in Seq(S)
  BY ConcatProperties

LEMMA ConcatNotEmpty ==
    ASSUME NEW S, NEW s \in Seq(S), NEW t \in Seq(S), t # <<>>
    PROVE  s \o t # <<>>
<1>1. Len(s \o t) = Len(s) + Len(t)
  BY ConcatProperties
<1>2. Len(s) \in Nat /\ Len(t) \in Nat \ {0}
  BY EmptySeq, LenProperties
<1>3. Len(s \o t) # 0
  BY <1>1, <1>2
<1>4. Len(<<>>) = 0
  BY EmptySeq
<1> QED
  BY <1>3, <1>4, Zenon

LEMMA Tuple1OK ==
    ASSUME NEW S, NEW a \in S
    PROVE  <<a>> \in Seq(S)
  OBVIOUS

LEMMA Tuple2OK ==
    ASSUME NEW S, NEW a \in S, NEW b \in S
    PROVE  <<a, b>> \in Seq(S)
  OBVIOUS

LEMMA Tuple3OK ==
    ASSUME NEW S, NEW a \in S, NEW b \in S, NEW c \in S
    PROVE  <<a, b, c>> \in Seq(S)
  OBVIOUS

LEMMA Tuple4OK ==
    ASSUME NEW S, NEW a \in S, NEW b \in S, NEW c \in S, NEW d \in S
    PROVE  <<a, b, c, d>> \in Seq(S)
  OBVIOUS

LEMMA Tuple5OK ==
    ASSUME NEW S, NEW a \in S, NEW b \in S, NEW c \in S, NEW d \in S,
           NEW e \in S
    PROVE  <<a, b, c, d, e>> \in Seq(S)
  OBVIOUS

LEMMA Tuple6OK ==
    ASSUME NEW S, NEW a \in S, NEW b \in S, NEW c \in S, NEW d \in S,
           NEW e \in S, NEW f \in S
    PROVE  <<a, b, c, d, e, f>> \in Seq(S)
  OBVIOUS

LEMMA Tuple7OK ==
    ASSUME NEW S, NEW a \in S, NEW b \in S, NEW c \in S, NEW d \in S,
           NEW e \in S, NEW f \in S, NEW g \in S
    PROVE  <<a, b, c, d, e, f, g>> \in Seq(S)
  OBVIOUS

LEMMA Tuple8OK ==
    ASSUME NEW S, NEW a \in S, NEW b \in S, NEW c \in S, NEW d \in S,
           NEW e \in S, NEW f \in S, NEW g \in S, NEW h \in S
    PROVE  <<a, b, c, d, e, f, g, h>> \in Seq(S)
  OBVIOUS

LEMMA Tuple9OK ==
    ASSUME NEW S, NEW a \in S, NEW b \in S, NEW c \in S, NEW d \in S,
           NEW e \in S, NEW f \in S, NEW g \in S, NEW h \in S,
           NEW i \in S
    PROVE  <<a, b, c, d, e, f, g, h, i>> \in Seq(S)
  OBVIOUS

\* The parts of the scripts: none of them has the steps that Steps excludes.
LEMMA DashboardParts ==
    ASSUME NEW S, Name \ {"build image", "own image", "scale to zero"} \subseteq S
    PROVE  /\ DashboardCreate \in Seq(S) /\ SetupElastic \in Seq(S)
           /\ DashboardQueries \in Seq(S) /\ SetupKafka \in Seq(S)
           /\ Projection \in Seq(S) /\ DashboardEvents \in Seq(S)
           /\ DashboardLoss \in Seq(S) /\ DashboardRestart \in Seq(S)
           /\ DashboardRestart # <<>>
<1>1. DashboardCreate \in Seq(S)
  <2>1. /\ "load images" \in S /\ "create namespace" \in S /\ "own" \in S
    BY Zenon DEF Name
  <2>2. /\ "apply" \in S
    BY Zenon DEF Name
  <2> QED
    BY <2>1, <2>2, Tuple4OK DEF DashboardCreate
<1>2. SetupElastic \in Seq(S)
  <2>1. /\ "elastic rollout" \in S /\ "elastic setup" \in S
    BY Zenon DEF Name
  <2> QED
    BY <2>1, Tuple2OK DEF SetupElastic
<1>3. DashboardQueries \in Seq(S)
  <2>1. /\ "app rollout" \in S /\ "endpoint ready" \in S
        /\ "denied by elastic" \in S
    BY Zenon DEF Name
  <2>2. /\ "query" \in S /\ "identity" \in S
    BY Zenon DEF Name
  <2> QED
    BY <2>1, <2>2, Tuple7OK DEF DashboardQueries
<1>4. SetupKafka \in Seq(S)
  <2>1. /\ "certificates" \in S /\ "kafka apply" \in S
        /\ "kafka rollout" \in S
    BY Zenon DEF Name
  <2>2. /\ "kafka ready" \in S /\ "kafka topic" \in S
    BY Zenon DEF Name
  <2> QED
    BY <2>1, <2>2, Tuple5OK DEF SetupKafka
<1>5. Projection \in Seq(S)
  <2>1. /\ "produce" \in S /\ "projection" \in S /\ "query" \in S
    BY Zenon DEF Name
  <2> QED
    BY <2>1, Tuple3OK DEF Projection
<1>6. DashboardEvents \in Seq(S)
  <2> DEFINE c0 == <<"kafka tls", "permitted by elastic", "apply events",
               "app rollout", "endpoint ready">>
  <2>10. /\ "kafka tls" \in S /\ "permitted by elastic" \in S
         /\ "apply events" \in S
    BY Zenon DEF Name
  <2>11. /\ "app rollout" \in S /\ "endpoint ready" \in S
    BY Zenon DEF Name
  <2>1. /\ c0 \in Seq(S)
    BY <2>10, <2>11, Tuple5OK DEF c0
  <2> HIDE DEF c0
  <2>3. SetupKafka \o c0 \in Seq(S)
    BY <2>1, <1>4, <1>5, Concatenated
  <2>4. (SetupKafka \o c0) \o Projection \in Seq(S)
    BY <2>1, <2>3, <1>4, <1>5, Concatenated
  <2> QED
    BY <2>4 DEF DashboardEvents, c0
<1>7. DashboardLoss \in Seq(S)
  <2> DEFINE c0 == <<"pick pod", "elastic stop", "endpoint withdrawn",
               "unready pod", "elastic start">>
             c1 == <<"endpoint ready">>
  <2>10. /\ "pick pod" \in S /\ "elastic stop" \in S
         /\ "endpoint withdrawn" \in S
    BY Zenon DEF Name
  <2>11. /\ "unready pod" \in S /\ "elastic start" \in S
         /\ "endpoint ready" \in S
    BY Zenon DEF Name
  <2>1. /\ c0 \in Seq(S)
        /\ c1 \in Seq(S)
    BY <2>10, <2>11, Tuple1OK, Tuple5OK DEF c0, c1
  <2> HIDE DEF c0, c1
  <2>3. c0 \o SetupElastic \in Seq(S)
    BY <2>1, <1>2, Concatenated
  <2>4. (c0 \o SetupElastic) \o c1 \in Seq(S)
    BY <2>1, <2>3, <1>2, Concatenated
  <2> QED
    BY <2>4 DEF DashboardLoss, c0, c1
<1>8. DashboardRestart \in Seq(S) /\ DashboardRestart # <<>>
  <2>1. /\ "pick pod" \in S /\ "delete pod" \in S /\ "app rollout" \in S
    BY Zenon DEF Name
  <2>2. /\ "endpoint ready" \in S
    BY Zenon DEF Name
  <2> QED
    BY <2>1, <2>2, Tuple4OK DEF DashboardRestart
<1> QED
  BY <1>1, <1>2, <1>3, <1>4, <1>5, <1>6, <1>7, <1>8

LEMMA SearchParts ==
    ASSUME NEW S,
           Name \ {"apply", "apply product", "annotate", "delete namespace"}
               \subseteq S
    PROVE  /\ SearchSetupElastic \in Seq(S)
           /\ SearchSetupKafka \in Seq(S) /\ SearchDeploy \in Seq(S)
           /\ SearchLoss \in Seq(S) /\ SearchRestart \in Seq(S)
           /\ SearchRestore \in Seq(S) /\ SearchRestore # <<>>
<1>1. SearchSetupElastic \in Seq(S)
  <2>1. /\ "elastic apply" \in S /\ "elastic rollout" \in S
        /\ "elastic serving" \in S
    BY Zenon DEF Name
  <2>2. /\ "elastic setup" \in S
    BY Zenon DEF Name
  <2> QED
    BY <2>1, <2>2, Tuple4OK DEF SearchSetupElastic
<1>2. SearchSetupKafka \in Seq(S)
  <2>1. /\ "certificates" \in S /\ "kafka apply" \in S
        /\ "kafka rollout" \in S
    BY Zenon DEF Name
  <2>2. /\ "kafka ready" \in S /\ "kafka topic" \in S
    BY Zenon DEF Name
  <2> QED
    BY <2>1, <2>2, Tuple5OK DEF SearchSetupKafka
<1>3. SearchDeploy \in Seq(S)
  <2> DEFINE c0 == <<"apply events", "app rollout", "endpoint now", "query">>
  <2>10. /\ "apply events" \in S /\ "app rollout" \in S
         /\ "endpoint now" \in S
    BY Zenon DEF Name
  <2>11. /\ "query" \in S
    BY Zenon DEF Name
  <2>1. /\ c0 \in Seq(S)
    BY <2>10, <2>11, Tuple4OK DEF c0
  <2>2. SearchProjection \in Seq(S)
    <3>1. /\ "produce" \in S /\ "projection" \in S /\ "query" \in S
      BY Zenon DEF Name
    <3> QED
      BY <3>1, Tuple3OK DEF SearchProjection
  <2> HIDE DEF c0
  <2>4. c0 \o SearchProjection \in Seq(S)
    BY <2>1, <2>2, Concatenated
  <2> QED
    BY <2>4 DEF SearchDeploy, c0
<1>4. SearchLoss \in Seq(S)
  <2>1. /\ "note restarts" \in S /\ "kill elastic" \in S
        /\ "endpoint withdrawn" \in S
    BY Zenon DEF Name
  <2>2. /\ "one pod" \in S /\ "elastic restarted" \in S
        /\ "endpoint ready" \in S
    BY Zenon DEF Name
  <2> QED
    BY <2>1, <2>2, Tuple6OK DEF SearchLoss
<1>5. SearchRestart \in Seq(S)
  <2>1. /\ "pick pod" \in S /\ "delete pod" \in S /\ "pod gone" \in S
    BY Zenon DEF Name
  <2>2. /\ "app rollout" \in S /\ "query" \in S
    BY Zenon DEF Name
  <2> QED
    BY <2>1, <2>2, Tuple5OK DEF SearchRestart
<1>6. SearchRestore \in Seq(S) /\ SearchRestore # <<>>
  <2>1. /\ "scale to zero" \in S /\ "endpoint withdrawn" \in S
        /\ "apply events" \in S
    BY Zenon DEF Name
  <2>2. /\ "app rollout" \in S /\ "endpoint now" \in S
    BY Zenon DEF Name
  <2> QED
    BY <2>1, <2>2, Tuple5OK DEF SearchRestore
<1> QED
  BY <1>1, <1>2, <1>3, <1>4, <1>5, <1>6

LEMMA ProductParts ==
    ASSUME NEW S, Name \ {"build image", "own image", "scale to zero"} \subseteq S
    PROVE  /\ ProductCreate \in Seq(S) /\ ProductStore \in Seq(S)
           /\ FailsClosed \in Seq(S) /\ ProductDeploy \in Seq(S)
           /\ ProductOutage \in Seq(S) /\ ProductRollout \in Seq(S)
           /\ ProductDrain \in Seq(S) /\ ProductReplacement \in Seq(S)
           /\ ProductReplacement # <<>>
<1>1. ProductCreate \in Seq(S)
  <2>1. /\ "load images" \in S /\ "own" \in S /\ "create namespace" \in S
    BY Zenon DEF Name
  <2> QED
    BY <2>1, Tuple3OK DEF ProductCreate
<1>2. ProductStore \in Seq(S)
  <2>1. /\ "elastic apply" \in S /\ "elastic serving" \in S /\ "roles" \in S
    BY Zenon DEF Name
  <2> QED
    BY <2>1, Tuple3OK DEF ProductStore
<1>3. FailsClosed \in Seq(S)
  <2>1. /\ "missing config" \in S /\ "absent schema" \in S
        /\ "create table" \in S
    BY Zenon DEF Name
  <2>2. /\ "absent grant" \in S /\ "grant" \in S
        /\ "invalid credential" \in S
    BY Zenon DEF Name
  <2>3. /\ "unavailable store" \in S
    BY Zenon DEF Name
  <2> QED
    BY <2>1, <2>2, <2>3, Tuple7OK DEF FailsClosed
<1>4. ProductDeploy \in Seq(S)
  <2>1. /\ "open gate" \in S /\ "gate ready" \in S /\ "apply product" \in S
    BY Zenon DEF Name
  <2>2. /\ "app available" \in S /\ "endpoint ready" \in S
        /\ "one pod" \in S
    BY Zenon DEF Name
  <2>3. /\ "empty list" \in S /\ "seed" \in S /\ "query" \in S
    BY Zenon DEF Name
  <2> QED
    BY <2>1, <2>2, <2>3, Tuple9OK DEF ProductDeploy
<1>5. ProductOutage \in Seq(S)
  <2>1. /\ "close gate" \in S /\ "gate withdrawn" \in S
        /\ "end connections" \in S
    BY Zenon DEF Name
  <2>2. /\ "endpoint withdrawn" \in S /\ "one pod" \in S
        /\ "open gate" \in S
    BY Zenon DEF Name
  <2>3. /\ "endpoint ready" \in S
    BY Zenon DEF Name
  <2> QED
    BY <2>1, <2>2, <2>3, Tuple7OK DEF ProductOutage
<1>6. ProductRollout \in Seq(S)
  <2>1. /\ "annotate" \in S /\ "one pod available" \in S
    BY Zenon DEF Name
  <2> QED
    BY <2>1, Tuple2OK DEF ProductRollout
<1>7. ProductDrain \in Seq(S)
  <2>1. /\ "reads in flight" \in S /\ "delete pod" \in S
        /\ "not accepting" \in S
    BY Zenon DEF Name
  <2>2. /\ "reads drained" \in S /\ "pod gone" \in S
        /\ "endpoint ready" \in S
    BY Zenon DEF Name
  <2>3. /\ "app available" \in S /\ "one pod" \in S
    BY Zenon DEF Name
  <2> QED
    BY <2>1, <2>2, <2>3, Tuple8OK DEF ProductDrain
<1>8. ProductReplacement \in Seq(S) /\ ProductReplacement # <<>>
  <2>1. /\ "pick pod" \in S /\ "delete pod" \in S /\ "pod gone" \in S
    BY Zenon DEF Name
  <2>2. /\ "endpoint ready" \in S /\ "app available" \in S
        /\ "another pod" \in S
    BY Zenon DEF Name
  <2>3. /\ "unchanged" \in S
    BY Zenon DEF Name
  <2> QED
    BY <2>1, <2>2, <2>3, Tuple7OK DEF ProductReplacement
<1> QED
  BY <1>1, <1>2, <1>3, <1>4, <1>5, <1>6, <1>7, <1>8

LEMMA Five ==
    ASSUME NEW a, NEW b, NEW c, NEW d, NEW e, NEW x, x = <<a, b, c, d, e>>
    PROVE  /\ Len(x) = 5
           /\ x[1] = a /\ x[2] = b /\ x[3] = c /\ x[4] = d /\ x[5] = e
  OBVIOUS

LEMMA Shifted ==
    ASSUME NEW n \in Nat, NEW x, NEW y, NEW z, NEW t, NEW u,
           \A i \in 1 .. n + 5 : t[i] = IF i <= n THEN x[i] ELSE y[i - n],
           \A i \in 1 .. n + 5 + 5 :
              u[i] = IF i <= n + 5 THEN t[i] ELSE z[i - (n + 5)]
    PROVE  /\ u[n + 1] = y[1] /\ u[n + 2] = y[2] /\ u[n + 3] = y[3]
           /\ u[n + 4] = y[4] /\ u[n + 5] = y[5]
<1>1. ASSUME NEW k \in 1 .. 5 PROVE u[n + k] = y[k]
  <2> DEFINE i == n + k
  <2>1. /\ i \in 1 .. n + 5 /\ ~(i <= n) /\ i - n = k
        /\ i \in 1 .. n + 5 + 5 /\ i <= n + 5
    OBVIOUS
  <2> HIDE DEF i
  <2>2. u[i] = t[i] /\ t[i] = y[i - n]
    BY <2>1
  <2> QED
    BY <2>1, <2>2 DEF i
<1> QED
  BY <1>1

LEMMA RestoreBegins ==
    /\ SearchRestore # <<>> /\ Head(SearchRestore) = "scale to zero"
    /\ Len(SearchRestore) = 5
<1> DEFINE a == "scale to zero"
           b == "endpoint withdrawn"
           c == "apply events"
           d == "app rollout"
           e == "endpoint now"
<1>1. SearchRestore = <<a, b, c, d, e>>
  BY DEF SearchRestore
<1> HIDE DEF a, b, c, d, e
<1>2. /\ <<a, b, c, d, e>> # <<>> /\ Head(<<a, b, c, d, e>>) = a
      /\ Len(<<a, b, c, d, e>>) = 5
  OBVIOUS
<1> QED
  BY <1>1, <1>2, Zenon DEF a

LEMMA RestartAhead ==
    ASSUME NEW S, NEW x \in Seq(S), SearchRestart \in Seq(S),
           SearchRestore \in Seq(S)
    PROVE  /\ Restarting((x \o SearchRestart) \o SearchRestore)
           /\ Len((x \o SearchRestart) \o SearchRestore) > 9
<1> DEFINE y == SearchRestart
           z == SearchRestore
           t == x \o y
           u == t \o z
           n == Len(x)
<1>1. /\ Len(y) = 5 /\ y[1] = "pick pod" /\ y[2] = "delete pod"
      /\ y[3] = "pod gone" /\ y[4] = "app rollout" /\ y[5] = "query"
  BY Five, Zenon DEF SearchRestart
<1>2. Len(z) = 5
  BY Five, Zenon DEF SearchRestore
<1>3. n \in Nat /\ y \in Seq(S) /\ z \in Seq(S)
  BY LenProperties
<1> HIDE DEF y, z
<1>4. t \in Seq(S)
  BY <1>3, ConcatProperties
<1>5. /\ Len(t) = n + Len(y)
      /\ \A i \in 1 .. n + Len(y) :
            t[i] = IF i <= n THEN x[i] ELSE y[i - n]
  BY <1>3, ConcatProperties
<1> HIDE DEF t
<1>6. /\ Len(u) = Len(t) + Len(z)
      /\ \A i \in 1 .. Len(t) + Len(z) :
            u[i] = IF i <= Len(t) THEN t[i] ELSE z[i - Len(t)]
  BY <1>3, <1>4, ConcatProperties
<1> HIDE DEF u, n
<1>7. /\ Len(t) = n + 5 /\ Len(u) = n + 5 + 5
      /\ \A i \in 1 .. n + 5 : t[i] = IF i <= n THEN x[i] ELSE y[i - n]
      /\ \A i \in 1 .. n + 5 + 5 :
            u[i] = IF i <= n + 5 THEN t[i] ELSE z[i - (n + 5)]
  BY <1>1, <1>2, <1>5, <1>6, Zenon
<1>8. /\ u[n + 1] = y[1] /\ u[n + 2] = y[2] /\ u[n + 3] = y[3]
      /\ u[n + 4] = y[4] /\ u[n + 5] = y[5]
  BY <1>3, <1>7, Shifted
<1>9. /\ Len(u) - 9 = n + 1 /\ Len(u) - 8 = n + 2 /\ Len(u) - 7 = n + 3
      /\ Len(u) - 6 = n + 4 /\ Len(u) - 5 = n + 5 /\ Len(u) > 9
  <2> DEFINE m == Len(u)
  <2>1. m = n + 5 + 5
    BY <1>7
  <2> HIDE DEF m
  <2>2. /\ m - 9 = n + 1 /\ m - 8 = n + 2 /\ m - 7 = n + 3
        /\ m - 6 = n + 4 /\ m - 5 = n + 5 /\ m > 9
    BY <1>3, <2>1
  <2> QED
    BY <2>2 DEF m
<1>10. Restarting(u)
  BY <1>1, <1>8, <1>9, Zenon DEF Restarting
<1> QED
  BY <1>9, <1>10 DEF u, t, y, z

\* The scripts themselves: there is something to do, of the steps that Steps
\* allows, the policy-search's restart is where Restarting says, and what they
\* make they note.
LEMMA ScriptsOK ==
    /\ DashboardScript \in Seq(Steps("dashboard")) /\ DashboardScript # <<>>
    /\ SearchScript \in Seq(Steps("policy-search")) /\ SearchScript # <<>>
    /\ ProductScript \in Seq(Steps("product")) /\ ProductScript # <<>>
    /\ Restarting(SearchScript) /\ Len(SearchScript) > 9
    /\ Waits(DashboardScript, "own") /\ Waits(ProductScript, "own")
    /\ Waits(SearchScript, "own") /\ Waits(SearchScript, "own image")
<1>1. /\ DashboardScript \in Seq(Steps("dashboard")) /\ DashboardScript # <<>>
      /\ Waits(DashboardScript, "own")
  <2> DEFINE S == Steps("dashboard")
  <2>1. Name \ {"build image", "own image", "scale to zero"} \subseteq S
    BY DEF Steps
  <2> HIDE DEF S
  <2>2. /\ DashboardCreate \in Seq(S) /\ SetupElastic \in Seq(S)
        /\ DashboardQueries \in Seq(S) /\ DashboardEvents \in Seq(S)
        /\ DashboardLoss \in Seq(S) /\ DashboardRestart \in Seq(S)
        /\ DashboardRestart # <<>>
    BY <2>1, DashboardParts
  <2>20. Waits(DashboardCreate, "own")
    BY WaitsIn, Zenon DEF DashboardCreate
  <2> DEFINE a1 == DashboardCreate \o SetupElastic
  <2>4. a1 \in Seq(S)
    BY <2>2, Concatenated
  <2>21. Waits(a1, "own")
    BY <2>2, <2>20, WaitsMore
  <2> HIDE DEF a1
  <2> DEFINE a2 == a1 \o DashboardQueries
  <2>5. a2 \in Seq(S)
    BY <2>2, <2>4, Concatenated
  <2>22. Waits(a2, "own")
    BY <2>2, <2>4, <2>21, WaitsMore
  <2> HIDE DEF a2
  <2> DEFINE a3 == a2 \o DashboardEvents
  <2>6. a3 \in Seq(S)
    BY <2>2, <2>5, Concatenated
  <2>23. Waits(a3, "own")
    BY <2>2, <2>5, <2>22, WaitsMore
  <2> HIDE DEF a3
  <2> DEFINE a4 == a3 \o DashboardLoss
  <2>7. a4 \in Seq(S)
    BY <2>2, <2>6, Concatenated
  <2>24. Waits(a4, "own")
    BY <2>2, <2>6, <2>23, WaitsMore
  <2> HIDE DEF a4
  <2> DEFINE a5 == a4 \o DashboardRestart
  <2>8. a5 \in Seq(S)
    BY <2>2, <2>7, Concatenated
  <2>25. Waits(a5, "own")
    BY <2>2, <2>7, <2>24, WaitsMore
  <2>9. a5 # <<>>
    BY <2>2, <2>7, ConcatNotEmpty DEF a5
  <2> HIDE DEF a5
  <2> QED
    BY <2>8, <2>9, <2>25 DEF DashboardScript, S, a1, a2, a3, a4, a5
<1>2. /\ SearchScript \in Seq(Steps("policy-search")) /\ SearchScript # <<>>
      /\ Restarting(SearchScript) /\ Len(SearchScript) > 9
      /\ Waits(SearchScript, "own") /\ Waits(SearchScript, "own image")
  <2> DEFINE S == Steps("policy-search")
             c0 == <<"own", "create namespace">>
  <2>1. Name \ {"apply", "apply product", "annotate", "delete namespace"}
            \subseteq S
    BY DEF Steps
  <2> HIDE DEF S
  <2>2. /\ SearchSetupElastic \in Seq(S) /\ SearchSetupKafka \in Seq(S)
        /\ SearchDeploy \in Seq(S) /\ SearchLoss \in Seq(S)
        /\ SearchRestart \in Seq(S) /\ SearchRestore \in Seq(S)
        /\ SearchRestore # <<>>
    BY <2>1, SearchParts
  <2>3. BuildProbe \in Seq(S) /\ c0 \in Seq(S)
    <3>1. /\ "build image" \in S /\ "load images" \in S /\ "own image" \in S
          /\ "own" \in S /\ "create namespace" \in S
      BY <2>1, Zenon DEF Name
    <3> QED
      BY <3>1, Tuple2OK, Tuple3OK DEF BuildProbe
  <2>20. Waits(BuildProbe, "own image") /\ Waits(c0, "own")
    BY WaitsIn, Zenon DEF BuildProbe
  <2> HIDE DEF c0
  <2> DEFINE a1 == BuildProbe \o c0
  <2>4. a1 \in Seq(S)
    BY <2>2, <2>3, Concatenated
  <2>21. Waits(a1, "own") /\ Waits(a1, "own image")
    BY <2>3, <2>20, WaitsMore, WaitsLast
  <2> HIDE DEF a1
  <2> DEFINE a2 == a1 \o SearchSetupElastic
  <2>5. a2 \in Seq(S)
    BY <2>2, <2>3, <2>4, Concatenated
  <2>22. Waits(a2, "own") /\ Waits(a2, "own image")
    BY <2>2, <2>3, <2>4, <2>21, WaitsMore
  <2> HIDE DEF a2
  <2> DEFINE a3 == a2 \o SearchSetupKafka
  <2>6. a3 \in Seq(S)
    BY <2>2, <2>3, <2>5, Concatenated
  <2>23. Waits(a3, "own") /\ Waits(a3, "own image")
    BY <2>2, <2>3, <2>5, <2>22, WaitsMore
  <2> HIDE DEF a3
  <2> DEFINE a4 == a3 \o SearchDeploy
  <2>7. a4 \in Seq(S)
    BY <2>2, <2>3, <2>6, Concatenated
  <2>24. Waits(a4, "own") /\ Waits(a4, "own image")
    BY <2>2, <2>3, <2>6, <2>23, WaitsMore
  <2> HIDE DEF a4
  <2> DEFINE a5 == a4 \o SearchLoss
  <2>8. a5 \in Seq(S)
    BY <2>2, <2>3, <2>7, Concatenated
  <2>25. Waits(a5, "own") /\ Waits(a5, "own image")
    BY <2>2, <2>3, <2>7, <2>24, WaitsMore
  <2> HIDE DEF a5
  <2> DEFINE a6 == a5 \o SearchRestart
  <2>9. a6 \in Seq(S)
    BY <2>2, <2>3, <2>8, Concatenated
  <2>26. Waits(a6, "own") /\ Waits(a6, "own image")
    BY <2>2, <2>3, <2>8, <2>25, WaitsMore
  <2> HIDE DEF a6
  <2> DEFINE a7 == a6 \o SearchRestore
  <2>10. a7 \in Seq(S)
    BY <2>2, <2>3, <2>9, Concatenated
  <2>27. Waits(a7, "own") /\ Waits(a7, "own image")
    BY <2>2, <2>3, <2>9, <2>26, WaitsMore
  <2>11. a7 # <<>>
    BY <2>2, <2>3, <2>9, ConcatNotEmpty DEF a7
  <2>12. Restarting(a7) /\ Len(a7) > 9
    BY <2>2, <2>8, RestartAhead DEF a7, a6
  <2> HIDE DEF a7
  <2> QED
    BY <2>10, <2>11, <2>12, <2>27
    DEF SearchScript, S, c0, a1, a2, a3, a4, a5, a6, a7
<1>3. /\ ProductScript \in Seq(Steps("product")) /\ ProductScript # <<>>
      /\ Waits(ProductScript, "own")
  <2> DEFINE S == Steps("product")
  <2>1. Name \ {"build image", "own image", "scale to zero"} \subseteq S
    BY DEF Steps
  <2> HIDE DEF S
  <2>2. /\ ProductCreate \in Seq(S) /\ ProductStore \in Seq(S)
        /\ FailsClosed \in Seq(S) /\ ProductDeploy \in Seq(S)
        /\ ProductOutage \in Seq(S) /\ ProductRollout \in Seq(S)
        /\ ProductDrain \in Seq(S) /\ ProductReplacement \in Seq(S)
        /\ ProductReplacement # <<>>
    BY <2>1, ProductParts
  <2>20. Waits(ProductCreate, "own")
    BY WaitsIn, Zenon DEF ProductCreate
  <2> DEFINE a1 == ProductCreate \o ProductStore
  <2>4. a1 \in Seq(S)
    BY <2>2, Concatenated
  <2>21. Waits(a1, "own")
    BY <2>2, <2>20, WaitsMore
  <2> HIDE DEF a1
  <2> DEFINE a2 == a1 \o FailsClosed
  <2>5. a2 \in Seq(S)
    BY <2>2, <2>4, Concatenated
  <2>22. Waits(a2, "own")
    BY <2>2, <2>4, <2>21, WaitsMore
  <2> HIDE DEF a2
  <2> DEFINE a3 == a2 \o ProductDeploy
  <2>6. a3 \in Seq(S)
    BY <2>2, <2>5, Concatenated
  <2>23. Waits(a3, "own")
    BY <2>2, <2>5, <2>22, WaitsMore
  <2> HIDE DEF a3
  <2> DEFINE a4 == a3 \o ProductOutage
  <2>7. a4 \in Seq(S)
    BY <2>2, <2>6, Concatenated
  <2>24. Waits(a4, "own")
    BY <2>2, <2>6, <2>23, WaitsMore
  <2> HIDE DEF a4
  <2> DEFINE a5 == a4 \o ProductRollout
  <2>8. a5 \in Seq(S)
    BY <2>2, <2>7, Concatenated
  <2>25. Waits(a5, "own")
    BY <2>2, <2>7, <2>24, WaitsMore
  <2> HIDE DEF a5
  <2> DEFINE a6 == a5 \o ProductDrain
  <2>9. a6 \in Seq(S)
    BY <2>2, <2>8, Concatenated
  <2>26. Waits(a6, "own")
    BY <2>2, <2>8, <2>25, WaitsMore
  <2> HIDE DEF a6
  <2> DEFINE a7 == a6 \o ProductReplacement
  <2>10. a7 \in Seq(S)
    BY <2>2, <2>9, Concatenated
  <2>27. Waits(a7, "own")
    BY <2>2, <2>9, <2>26, WaitsMore
  <2>11. a7 # <<>>
    BY <2>2, <2>9, ConcatNotEmpty DEF a7
  <2> HIDE DEF a7
  <2> QED
    BY <2>10, <2>11, <2>27
    DEF ProductScript, S, a1, a2, a3, a4, a5, a6, a7
<1> QED
  BY <1>1, <1>2, <1>3

-----------------------------------------------------------------------------
(* The theorems.                                                           *)

LEMMA Starts == ASSUME Bounds, Init PROVE IInv
<1>1. PICK service \in Services :
         run = [service |-> service, phase |-> "body", verdict |-> "none",
                todo |-> CASE service = "dashboard" -> DashboardScript
                           [] service = "policy-search" -> SearchScript
                           [] service = "product" -> ProductScript,
                owns |-> FALSE, probe |-> FALSE, closed |-> FALSE,
                pod |-> 1, reading |-> 1, deleted |-> 0,
                restarts |-> 0, faults |-> 0, kills |-> 0]
  BY DEF Init, Services
<1> DEFINE t == CASE service = "dashboard" -> DashboardScript
                  [] service = "policy-search" -> SearchScript
                  [] service = "product" -> ProductScript
<1>2. t \in Seq(Steps(service))
  BY ScriptsOK DEF Services
<1> HIDE DEF t
<1>3. t \in Seq(Name)
  <2>1. Steps(service) \subseteq Name
    BY DEF Steps
  <2> QED
    BY <1>2, <2>1, SeqMonotonic
<1>4. t # <<>>
  BY ScriptsOK DEF t, Services
<1>5. /\ run.service = service /\ run.phase = "body" /\ run.verdict = "none"
      /\ run.todo = t /\ ~run.probe
  BY <1>1 DEF t
<1>6. run \in Run
  <2>1. 1 \in Pod
    BY DEF Pod, Bounds
  <2> QED
    BY <1>1, <1>3, <2>1 DEF Run, t
<1>7. world \in World /\ Emptied(world)
  <2>1. /\ [p \in Pod |-> "absent"] \in [Pod -> PodState]
        /\ [p \in Pod |-> FALSE] \in [Pod -> BOOLEAN]
        /\ 0 \in 0 .. MaxPods
    BY DEF PodState, Bounds
  <2>2. world = Nothing
    BY DEF Init
  <2> QED
    BY <2>1, <2>2 DEF World, Nothing, Emptied
<1> QED
  <2>1. Good(world, run)
    BY <1>2, <1>4, <1>5, <1>6, <1>7 DEF Good, Ending, Probing
  <2>2. PodsOfTemplate(world)
    BY DEF Init, Nothing, PodsOfTemplate
  <2>3. service = "policy-search" => t = SearchScript
    BY DEF t
  <2>4. service = "policy-search" => Restarting(t) /\ Len(t) > 9
    BY <2>3, ScriptsOK
  <2>5. service = "policy-search" => Len(t) \notin {6, 7, 8, 9}
    <3>1. \A n : n > 9 => n \notin {6, 7, 8, 9}
      OBVIOUS
    <3> QED
      BY <2>4, <3>1, Zenon
  <2>6. Replacing(world, run)
    BY <1>5, <2>2, <2>4, <2>5 DEF Replacing, Deleting
  <2>7. Waits(t, "own") /\ (service = "policy-search" => Waits(t, "own image"))
    BY ScriptsOK DEF t, Services
  <2>8. world.image = FALSE
    BY DEF Init, Nothing
  <2>9. Noting(world, run)
    BY <1>5, <2>7, <2>8 DEF Noting
  <2> QED
    BY <2>1, <2>6, <2>9 DEF IInv

LEMMA Preserves == ASSUME Bounds, IInv, [Next]_vars PROVE IInv'
<1>1. CASE ScriptGoes
  BY <1>1, ScriptOK, ReplacingOK, NotingOK DEF Lands, IInv
<1>2. CASE Controllers
  BY <1>2, ControllersOK, BehindOK, BehindReplacing DEF IInv
<1>3. CASE UNCHANGED vars
  BY <1>3 DEF vars, IInv
<1> QED
  BY <1>1, <1>2, <1>3 DEF Next, ScriptGoes

\* The invariant of the three scripts: while the finally block of run() or
\* main() (disposable_deployment.py of both services,
\* deployment_lifecycle.py) is under way, what is left of it still removes
\* every thing that the script owns and that is not gone already.
THEOREM Invariance == ASSUME Bounds PROVE Spec => []IInv
<1>1. Init => IInv
  BY Starts
<1>2. IInv /\ [Next]_vars => IInv'
  BY Preserves
<1> QED
  BY <1>1, <1>2, PTL DEF Spec

\* The invariant includes the type invariant of the model.
LEMMA Typed == IInv => TypeOK
BY DEF IInv, Good, World, Run, PodState, Emptied, Ending, TypeOK, Existing

\* The cluster and the script are always in a state that the operators of
\* the model cover: a namespace that is gone took its Pods and addresses
\* with it, and a script has a verdict once its body is over, and no steps
\* left once it has ended.
THEOREM DeploymentTypeOK == ASSUME Bounds PROVE Spec => []TypeOK
BY Typed, Invariance, PTL

\* Every step of policy-search-service's main() that takes it on to its
\* restoration leaves a state with a Pod other than the deleted one.
LEMMA RestartStep ==
    ASSUME Bounds, IInv, IInv', [Next]_vars PROVE [SearchReplaced]_vars
<1> SUFFICES ASSUME Next, run'.todo = SearchRestore,
                    run.todo # SearchRestore
             PROVE  \E p \in ReadyPods(world) :
                       p # run.deleted /\ world.events[p]
  BY DEF SearchReplaced, vars
<1>1. ScriptGoes
  BY ControllersOK DEF Next, ScriptGoes
<1>2. /\ SearchRestore # <<>> /\ Head(SearchRestore) = "scale to zero"
      /\ Len(SearchRestore) = 5
  BY RestoreBegins
<1>3. run'.phase = "body"
  <2>1. run'.phase # "ended"
    BY <1>2 DEF IInv, Good, Ending
  <2>2. ~Ahead(world', run')
    BY <1>2, CleanupFacts DEF Ahead
  <2> QED
    BY <2>1, <2>2 DEF IInv, Good, Run
<1>4. run'.service = "policy-search"
  <2>1. run'.todo \in Seq(Steps(run'.service))
    BY <1>3 DEF IInv, Good, Probing
  <2>2. Head(run'.todo) \in Steps(run'.service)
    BY <1>2, <2>1, SeqNext
  <2> QED
    BY <1>2, <2>2 DEF Steps
<1> DEFINE s == Head(run.todo)
<1>5. Proceeds(world, run, s, world', run')
  BY <1>1, <1>3, BodyGoesOn
<1>6. /\ run.service = "policy-search" /\ run.phase = "body"
      /\ Len(run.todo) > 1 /\ Holds(world, run, s)
      /\ run'.todo = Tail(run.todo)
  BY <1>4, <1>5 DEF Proceeds
<1>7. /\ PodsOfTemplate(world) /\ Restarting(run.todo)
      /\ Deleting(world, run)
  BY <1>6 DEF IInv, Replacing
<1>8. run.todo \in Seq(Name)
  BY DEF IInv, Good, Run
<1>9. Len(run.todo) = 6 /\ s = "query"
  <2>1. /\ Len(Tail(run.todo)) = Len(run.todo) - 1
        /\ Len(run.todo) \in Nat
        /\ Len(run.todo) = 6 => s = "query"
    BY <1>6, <1>7, <1>8, RestartingNext
  <2>2. Len(Tail(run.todo)) = 5
    BY <1>2, <1>6
  <2> QED
    BY <2>1, <2>2
<1>10. world.slice \cap ReadyPods(world) # {}
  BY <1>6, <1>9 DEF Holds, Answers
<1>11. PICK p \in ReadyPods(world) : TRUE
  BY <1>10
<1>12. p \in Pod /\ world.pods[p] = "ready"
  BY DEF ReadyPods
<1>13. world.events[p] = TRUE
  BY <1>7, <1>12 DEF PodsOfTemplate
<1>14. world.pods[run.deleted] = "absent"
  BY <1>7, <1>9 DEF Deleting
<1> QED
  BY <1>12, <1>13, <1>14

\* The restart of policy-search-service ends (its main() goes on to scale
\* it to zero) only with a ready Pod that is not the deleted one and
\* has the event worker, although its rollout wait and its query may both be
\* answered from a status and an EndpointSlice of the past: the wait for the
\* deletion of the very Pod is what excludes the old one.
THEOREM RestartReplacesThePod ==
    ASSUME Bounds PROVE Spec => [][SearchReplaced]_vars
<1>1. IInv /\ IInv' /\ [Next]_vars => [SearchReplaced]_vars
  BY RestartStep
<1> QED
  BY <1>1, Invariance, PTL DEF Spec

\* A script begins with nothing acquired and without a verdict.
LEMMA EnvironmentStarts == Init => Environment!Init
<1> SUFFICES ASSUME Init PROVE Environment!Init
  OBVIOUS
<1>1. /\ run.owns = FALSE /\ run.probe = FALSE /\ run.phase = "body"
      /\ world.namespace = "absent" /\ world.image = FALSE
  BY DEF Init, Nothing
<1>2. Held = FALSE /\ Making = FALSE
  BY <1>1 DEF Held, Making
<1>3. Verdict = "none"
  BY <1>1 DEF Verdict, Running
<1> QED
  BY <1>2, <1>3 DEF Environment!Init

\* Every step of a script and of the controllers is a step of
\* OwnedEnvironment, or leaves what is held and the verdict alone.
LEMMA EnvironmentStep ==
    ASSUME Bounds, IInv, IInv', [Next]_vars
    PROVE  [Environment!Next]_(Environment!vars)
<1>1. /\ Verdict = IF run.phase = "ended" THEN run.verdict ELSE "none"
      /\ Verdict' = IF run'.phase = "ended" THEN run'.verdict ELSE "none"
  BY DEF Verdict, Running
<1>2. /\ Held \in BOOLEAN /\ Held' \in BOOLEAN
      /\ Making \in BOOLEAN /\ Making' \in BOOLEAN
  <2>1. /\ run.probe \in BOOLEAN /\ run'.probe \in BOOLEAN
        /\ world.image \in BOOLEAN /\ world'.image \in BOOLEAN
        /\ run.owns \in BOOLEAN /\ run'.owns \in BOOLEAN
    BY DEF IInv, Good, World, Run
  <2> QED
    BY <2>1, Zenon DEF Held, Making
<1>3. /\ (Held <=> HeldOf(world, run)) /\ (Held' <=> HeldOf(world', run'))
      /\ Making <=> MakingOf(world, run)
      /\ Making' <=> MakingOf(world', run')
  BY DEF Held, HeldOf, Making, MakingOf
<1>4. CASE ScriptGoes
  <2>1. run.phase # "ended" /\ Lands(world, run, world', run')
    BY <1>4, ScriptOK DEF Running
  <2>2. CASE run'.phase # "ended"
    <3>1. Verdict = "none" /\ Verdict' = "none"
      BY <1>1, <2>1, <2>2
    <3> QED
      BY <1>2, <3>1 DEF Environment!Next, Environment!Work
  <2>3. CASE run'.phase = "ended" /\ run'.verdict \in {"passed", "failed"}
    <3>1. ~Held'
      BY <1>3, <2>1, <2>3 DEF Lands
    <3>2. Verdict = "none" /\ Verdict' = run'.verdict
      BY <1>1, <2>1, <2>3
    <3>3. Held' = FALSE
      BY <1>2, <3>1
    <3>4. CASE run'.verdict = "passed"
      <4>1. /\ NotedAll(run') /\ (run'.probe => run'.service = "policy-search")
            /\ world'.image => run'.service = "policy-search"
        BY <3>4 DEF IInv, Noting, Good, Probing
      <4>2. Making' = FALSE
        BY <1>2, <1>3, <4>1 DEF NotedAll, MakingOf
      <4> QED
        BY <3>2, <3>3, <3>4, <4>2 DEF Environment!Next, Environment!Finish
    <3>5. CASE run'.verdict = "failed"
      BY <1>2, <3>2, <3>3, <3>5 DEF Environment!Next, Environment!Finish
    <3> QED
      BY <2>3, <3>4, <3>5
  <2>4. CASE run'.phase = "ended" /\ run'.verdict \in {"left over", "killed"}
    <3>1. (Held' => Held) /\ (Making' => Making)
      BY <1>3, <1>4, <2>1, <2>4, NotingOK DEF Lands
    <3>2. Verdict = "none" /\ Verdict' \in {"left over", "killed"}
      BY <1>1, <2>1, <2>4
    <3>3. Held' \in {Held, FALSE} /\ Making' \in {Making, FALSE}
      BY <1>2, <3>1
    <3> QED
      BY <3>2, <3>3 DEF Environment!Next, Environment!LeaveOver
  <2> QED
    BY <2>1, <2>2, <2>3, <2>4 DEF Lands
<1>5. CASE Controllers
  <2>1. run' = run /\ (Held' => Held) /\ (Making' => Making)
    BY <1>3, <1>5, ControllersOK, BehindOK DEF IInv
  <2>2. Verdict' = Verdict
    BY <1>1, <2>1
  <2>3. Held' \in {Held, FALSE} /\ Making' \in {Making, FALSE}
    BY <1>2, <2>1
  <2> QED
    BY <2>2, <2>3 DEF Environment!Next, Environment!Release
<1>6. CASE UNCHANGED vars
  <2>1. Held' = Held /\ Making' = Making /\ Verdict' = Verdict
    BY <1>6 DEF vars, Held, Making, Verdict, Running
  <2> QED
    BY <2>1 DEF Environment!vars
<1> QED
  BY <1>4, <1>5, <1>6 DEF Next, ScriptGoes

\* The scripts implement the safety part of OwnedEnvironment: "passed" is
\* only said with the namespace gone and the probe image removed, "failed"
\* with those gone that the script had noted as its own (what it was making
\* when it failed may stay: the image that build_probe of the policy-search
\* built and could not load, the namespace whose creation the dashboard had
\* no answer to); a script that leaves behind what it had noted says "left
\* over" or was killed, and after the end nothing is acquired.  It holds for
\* any number of failing calls (before or after their effect), refused waits,
\* interrupts and kills, and any delay of the controllers; that the script
\* ends at all is liveness.
THEOREM DeploymentOwnsItsEnvironment ==
    ASSUME Bounds PROVE Spec => Environment!Safety
<1>1. IInv /\ IInv' /\ [Next]_vars => [Environment!Next]_(Environment!vars)
  BY EnvironmentStep
<1> QED
  BY <1>1, EnvironmentStarts, Invariance, PTL DEF Spec, Environment!Safety
=============================================================================
