-------------------- MODULE ClusterAdministrationProofs --------------------
(***************************************************************************)
(* What holds of the commands of k8s/scripts/admin for any number of them, *)
(* of failures and signals, and of changes by others: machines that a      *)
(* snapshot paused run again, what is restored is one quiet cut, passwords *)
(* and images agree, and nothing protected is left, each when the command  *)
(* says so.                                                                *)
(*                                                                         *)
(* A command relies on two things.  What it owes covers what it has        *)
(* changed for a time (Covered), from before the change, and is done last; *)
(* and the steps that are left are those that still have to do their part  *)
(* of what "passed" says (Ahead).                                          *)
(***************************************************************************)
EXTENDS ClusterAdministration, SequenceTheorems, TLAPS

Bounds == MaxValues \in Nat

-----------------------------------------------------------------------------
(* Types.                                                                  *)

MachineKind == {"launch", "pause", "pauseNode", "start", "resume", "delete"}
CutKind == {"drop", "snapshot", "restore"}
DebtKind == {"resume", "removeToken", "removeFiles", "removeRequest",
             "removePod", "removeArchive", "endForward"}
OtherKind == {"profile", "agent", "prepare", "exist", "serve", "active",
              "pushToken", "join", "restart", "nodesReady", "judge",
              "readConfig", "backUp", "replaceConfig", "operator",
              "established", "secret", "secretCopy", "readElastic",
              "copyElastic", "configure", "bucket", "readMinio",
              "readZipkin", "import",
              "request", "deletePod", "setupPod", "succeeded", "saveImage",
              "pushArchive", "importImage", "deploy", "redeploy",
              "createKind", "metrics", "forward", "ports", "servePorts",
              "deleteStorage", "deleteKind"}
Kind == MachineKind \cup CutKind \cup DebtKind \cup OtherKind
Arg == Node \cup {"one", "all", "postgres", "kafka", "minio", "zipkin",
                  "coredns", "rolledOut", "tenantReady", "bucket",
                  "confirmed", "postgresReady", "kafkaReady", "available",
                  "download", "patched"}
Calls == Kind \X Arg
VmState == {"absent", "running", "frozen", "stopped"}
Disk == SUBSET {"prepared", "k3s"}
Cuts == [cut : Nat, disk : Disk, quiet : BOOLEAN]
Config == [qa : Nat, others : Nat]
Service == {"postgres", "minio", "zipkin"}
Worlds == [vm : [Node -> VmState], disk : [Node -> Disk],
           snapshot : [Node -> Cuts], from : [Node -> Cuts],
           tokens : SUBSET Arg, config : Config, backup : Config,
           operators : SUBSET Arg, kind : BOOLEAN, forwards : SUBSET Arg,
           secret : [Service -> [data : Nat, copy : Nat]],
           elastic : [data : Nat, copy : Nat], user : Nat, files : BOOLEAN,
           zipkin : Nat, request : Nat,
           pod : {"absent", "pending", "succeeded", "failed"}, built : Nat,
           images : [Node -> Nat], archives : SUBSET Arg,
           served : [password : Nat, elastic : Nat], changes : Nat]
Name == {"create", "master", "cluster", "masterCluster", "pull", "suspend",
         "resume", "restore", "delete", "snapshot", "infra", "services",
         "secret", "zipkinSecret", "user", "zipkin", "image", "localCreate",
         "forward", "localDelete"}
Verdict == Clean \cup {"none", "leftOver", "cutOff", "killed"}
Runs == [profile : Profiles, script : Name \cup {"none"},
         state : {"idle", "body", "cleanup"}, verdict : Verdict,
         outcome : Verdict, todo : Seq(Calls), owed : Seq(Calls),
         errors : BOOLEAN, masked : BOOLEAN, asked : BOOLEAN, value : Nat,
         read : Nat, ran : SUBSET Node, missed : SUBSET Node,
         config : Config, operations : Nat,
         troubles : Nat, complete : BOOLEAN]

\* The steps that a command may consist of.
Kinds(script) ==
    CASE script \in {"create", "master"} ->
           {"profile", "launch", "agent", "prepare"}
      [] script \in {"cluster", "masterCluster"} ->
           {"exist", "agent", "serve", "active", "pushToken", "join",
            "removeToken", "restart", "nodesReady", "judge"}
      [] script = "pull" ->
           {"exist", "agent", "readConfig", "backUp", "replaceConfig"}
      [] script = "suspend" -> {"pauseNode"}
      [] script = "resume" -> {"start"}
      [] script = "restore" -> {"restore", "start"}
      [] script = "delete" -> {"delete"}
      [] script = "snapshot" -> {"pause", "drop", "snapshot"}
      [] script = "infra" ->
           {"operator", "established", "judge", "secret", "secretCopy",
            "deploy"}
      [] script = "services" ->
           {"readElastic", "copyElastic", "judge", "configure", "bucket",
            "removeFiles", "secret", "secretCopy", "readMinio", "import",
            "saveImage", "pushArchive", "importImage", "removeArchive",
            "redeploy"}
      [] script \in {"secret", "zipkinSecret"} -> {"secret", "secretCopy"}
      [] script = "user" ->
           {"judge", "readMinio", "configure", "import", "removeFiles"}
      [] script = "zipkin" ->
           {"readZipkin", "request", "deletePod", "setupPod", "succeeded",
            "removePod", "removeRequest"}
      [] script = "image" ->
           {"saveImage", "pushArchive", "importImage", "removeArchive"}
      [] script = "localCreate" -> {"createKind", "judge", "metrics"}
      [] script = "forward" -> {"forward", "ports", "servePorts"}
      [] OTHER -> {"deleteStorage", "deleteKind"}

\* The step for which something is owed.
Cause(debt) ==
    CASE debt = "resume" -> "pause"
      [] debt = "removeToken" -> "pushToken"
      [] debt = "removeFiles" -> "configure"
      [] debt \in {"removeRequest", "removePod"} -> "request"
      [] debt = "removeArchive" -> "pushArchive"
      [] debt = "endForward" -> "forward"

-----------------------------------------------------------------------------
(* What is owed covers what was changed for a time.                        *)

Owed(r) == ToSet(r.owed)
Covered(w, r) ==
    \/ r.errors
    \/ /\ \A n \in w.tokens : <<"removeToken", n>> \in Owed(r)
       /\ \A n \in w.archives : <<"removeArchive", n>> \in Owed(r)
       /\ \A p \in w.forwards : <<"endForward", p>> \in Owed(r)
       /\ w.files => <<"removeFiles", "one">> \in Owed(r)
       /\ r.asked =>
             /\ w.request # None => <<"removeRequest", "one">> \in Owed(r)
             /\ w.pod # "absent" => <<"removePod", "one">> \in Owed(r)
       /\ r.script = "snapshot" =>
             \A n \in r.ran :
                w.vm[n] = "running" \/ <<"resume", n>> \in Owed(r)

-----------------------------------------------------------------------------
(* The steps that are left, t, have to do the rest.                        *)

\* t is the end of the steps of a script.
Ending(script, t) ==
    /\ Len(t) <= Len(script)
    /\ \A i \in 1 .. Len(t) : t[i] = script[(Len(script) - Len(t)) + i]

\* What holds with n steps left.
ZipkinPart(w, r, n) ==
    LET password == w.secret["zipkin"].data
    IN /\ n = 6 => r.read = password
       /\ n \in 2 .. 5 => <<"removePod", "one">> \in Owed(r)
       /\ n \in 3 .. 5 => w.request = password
       /\ n = 4 => w.pod = "absent"
       /\ n = 3 => (w.pod = "succeeded" => w.zipkin = password)
       /\ n <= 2 => w.zipkin = password /\ w.pod # "pending"
ZipkinAhead(w, r, t) == Ending(ZipkinUser, t) /\ ZipkinPart(w, r, Len(t))

PullPart(w, r, n) ==
    /\ n \in 1 .. 2 => r.config = w.config
    /\ n = 1 => w.backup = w.config
PullAhead(w, r, t) == Ending(PullKubeconfig, t) /\ PullPart(w, r, Len(t))

ServicesSteps ==
    <<<<"readElastic", "one">>, <<"copyElastic", "one">>,
      <<"judge", "tenantReady">>, <<"configure", "one">>, <<"bucket", "one">>,
      <<"judge", "bucket">>, <<"removeFiles", "one">>, <<"secret", "minio">>,
      <<"secretCopy", "minio">>, <<"judge", "tenantReady">>,
      <<"readMinio", "one">>, <<"configure", "one">>, <<"import", "one">>,
      <<"judge", "confirmed">>, <<"removeFiles", "one">>,
      <<"saveImage", "one">>,
      <<"pushArchive", "master">>, <<"importImage", "master">>,
      <<"removeArchive", "master">>,
      <<"pushArchive", "worker1">>, <<"importImage", "worker1">>,
      <<"removeArchive", "worker1">>,
      <<"pushArchive", "worker2">>, <<"importImage", "worker2">>,
      <<"removeArchive", "worker2">>,
      <<"redeploy", "one">>, <<"judge", "available">>>>
ServicesPart(w, r, n) ==
    /\ n = 26 => r.read = w.elastic.data
    /\ n <= 25 => w.elastic.copy = w.elastic.data
    /\ n <= 19 => w.secret["minio"].data = r.value
    /\ n <= 18 => w.secret["minio"].copy = r.value
    /\ n \in 15 .. 16 => r.read = r.value
    /\ n <= 14 => w.user = r.value
    /\ n \in 3 .. 11 => r.read = w.built
    /\ n <= 9 => w.images["master"] = w.built
    /\ n <= 6 => w.images["worker1"] = w.built
    /\ n <= 3 => w.images["worker2"] = w.built
    /\ n <= 1 =>
          w.served = [password |-> r.value, elastic |-> w.elastic.data]
ServicesAhead(w, r, t) ==
    Ending(ServicesSteps, t) /\ ServicesPart(w, r, Len(t))

\* The order of the steps of a snapshot.
Position(n) == CASE n = "master" -> 1 [] n = "worker1" -> 2 [] OTHER -> 3
Rank(s) == CASE s[1] = "pause" -> Position(s[2])
             [] s[1] = "drop" -> 2 + 2 * Position(s[2])
             [] OTHER -> 3 + 2 * Position(s[2])
Sorted(t) == \A i, j \in 1 .. Len(t) : i < j => Rank(t[i]) < Rank(t[j])

Exists(w, t) == \A s \in ToSet(t) : s[2] \in Node /\ w.vm[s[2]] # "absent"
CutNow(w, r, n) == w.snapshot[n].cut = r.operations /\ w.snapshot[n].quiet
SnapshotAhead(w, r, t) ==
    /\ Sorted(t) /\ Exists(w, t) /\ Exists(w, r.owed)
    /\ r.missed = {} => \A n \in Node :
          /\ (w.vm[n] = "running" /\ t # <<>>) => <<"pause", n>> \in ToSet(t)
          /\ <<"drop", n>> \in ToSet(t) => <<"snapshot", n>> \in ToSet(t)
          /\ w.vm[n] # "absent" =>
                (<<"snapshot", n>> \in ToSet(t) \/ CutNow(w, r, n))

RestoreAhead(w, r, t) ==
    /\ Exists(w, t)
    /\ \A n \in Node \ r.missed :
          \/ w.vm[n] = "absent"
          \/ <<"restore", n>> \in ToSet(t)
          \/ w.from[n] = w.snapshot[n] /\ w.snapshot[n].cut # None

Ahead(w, r, t) ==
    /\ \A s \in ToSet(t) : s[1] \in Kinds(r.script)
    /\ r.script = "snapshot" => SnapshotAhead(w, r, t)
    /\ r.script = "restore" => RestoreAhead(w, r, t)
    /\ r.script = "zipkin" => ZipkinAhead(w, r, t)
    /\ r.script = "services" => ServicesAhead(w, r, t)
    /\ r.script = "pull" => PullAhead(w, r, t)

-----------------------------------------------------------------------------
(* The invariant.                                                          *)

Busy(r) == r.state \in {"body", "cleanup"}
Formed(r) ==
    /\ (r.state = "idle") <=> (r.todo = <<>>)
    /\ r.state = "idle" => r.owed = <<>>
    /\ r.state = "cleanup" => r.todo = Reverse(r.owed)
    /\ Busy(r) => r.script \in Commands(r.profile)
    /\ \A o \in Owed(r) : o[1] \in DebtKind /\ Cause(o[1]) \in Kinds(r.script)

Uniform(w) ==
    \A n, o \in Node :
        (w.snapshot[n].cut # None /\ w.snapshot[o].cut # None) =>
            (w.snapshot[n].cut = w.snapshot[o].cut /\ w.snapshot[n].quiet)
Machines(w, r) ==
    /\ r.profile = "platform" => \A n \in Node : w.vm[n] = "running"
    /\ \A n \in Node : w.vm[n] = "absent" => w.snapshot[n].cut = None
    /\ r.complete => (Uniform(w) \/ (Busy(r) /\ r.script = "snapshot"))

Good(w, r) ==
    /\ w \in Worlds /\ r \in Runs /\ Formed(r) /\ Machines(w, r)
    /\ Busy(r) => Covered(w, r)
    /\ r.state = "body" => Ahead(w, r, r.todo)
    /\ r.state = "cleanup" /\ r.outcome = "passed" => Ahead(w, r, <<>>)
IInv == Good(world, run)

-----------------------------------------------------------------------------
(* Sequences and the sets of their elements.                               *)

LEMMA Empty == ToSet(<<>>) = {} /\ Len(<<>>) = 0
<1>1. ASSUME NEW x \in ToSet(<<>>) PROVE FALSE
  BY <1>1 DEF ToSet
<1> QED
  BY <1>1

LEMMA Elements ==
    ASSUME NEW S, NEW t \in Seq(S)
    PROVE  /\ ToSet(t) = {t[i] : i \in 1 .. Len(t)} /\ ToSet(t) \subseteq S
           /\ Len(t) \in Nat
           /\ Len(t) = 0 <=> t = <<>>
           /\ \A x : x \in ToSet(t) <=> \E i \in 1 .. Len(t) : x = t[i]
<1>1. DOMAIN t = 1 .. Len(t) /\ Len(t) \in Nat
  BY LenProperties
<1>2. \A i \in 1 .. Len(t) : t[i] \in S
  BY ElementOfSeq
<1>3. Len(t) = 0 <=> t = <<>>
  BY EmptySeq
<1> QED
  BY <1>1, <1>2, <1>3 DEF ToSet

LEMMA First ==
    ASSUME NEW S, NEW t \in Seq(S), t # <<>>
    PROVE  /\ Head(t) = t[1] /\ Head(t) \in S /\ Head(t) \in ToSet(t)
           /\ Tail(t) \in Seq(S) /\ Len(Tail(t)) = Len(t) - 1
           /\ \A i \in 1 .. Len(t) - 1 : Tail(t)[i] = t[i + 1]
           /\ ToSet(t) = {Head(t)} \cup ToSet(Tail(t))
           /\ Len(t) \in Nat \ {0}
           /\ Len(t) = 1 <=> Tail(t) = <<>>
<1>1. /\ Head(t) \in S /\ Tail(t) \in Seq(S) /\ Head(t) = t[1]
      /\ Len(Tail(t)) = Len(t) - 1 /\ Len(t) \in Nat \ {0}
      /\ \A i \in 1 .. Len(t) - 1 : Tail(t)[i] = t[i + 1]
  BY HeadTailProperties, EmptySeq
<1> DEFINE u == Tail(t)
<1>2. /\ \A x : x \in ToSet(t) <=> \E i \in 1 .. Len(t) : x = t[i]
      /\ \A x : x \in ToSet(u) <=> \E i \in 1 .. Len(u) : x = u[i]
  BY <1>1, Elements
<1>3. Len(u) = 0 <=> u = <<>>
  BY <1>1, EmptySeq
<1> HIDE DEF u
<1>4. ASSUME NEW x \in ToSet(t) PROVE x = t[1] \/ x \in ToSet(u)
  <2>1. PICK i \in 1 .. Len(t) : x = t[i]
    BY <1>2
  <2>2. CASE i # 1
    <3>1. i - 1 \in 1 .. Len(u) /\ u[i - 1] = t[(i - 1) + 1]
      BY <1>1, <2>2 DEF u
    <3>2. (i - 1) + 1 = i
      BY <2>1
    <3> QED
      BY <1>2, <2>1, <3>1, <3>2
  <2> QED
    BY <2>1, <2>2
<1>5. ASSUME NEW x \in ToSet(u) PROVE x \in ToSet(t)
  <2>1. PICK i \in 1 .. Len(u) : x = u[i]
    BY <1>2
  <2>2. i + 1 \in 1 .. Len(t) /\ u[i] = t[i + 1]
    BY <1>1, <2>1 DEF u
  <2> QED
    BY <1>2, <2>1, <2>2
<1>6. t[1] \in ToSet(t)
  BY <1>1, <1>2
<1>7. Len(t) = 1 <=> u = <<>>
  BY <1>1, <1>3 DEF u
<1> QED
  BY <1>1, <1>4, <1>5, <1>6, <1>7 DEF u

LEMMA Joined ==
    ASSUME NEW S, NEW a \in Seq(S), NEW b \in Seq(S)
    PROVE  /\ a \o b \in Seq(S) /\ ToSet(a \o b) = ToSet(a) \cup ToSet(b)
           /\ Len(a \o b) = Len(a) + Len(b)
           /\ \A i \in 1 .. Len(a) + Len(b) :
                 (a \o b)[i] = IF i <= Len(a) THEN a[i] ELSE b[i - Len(a)]
<1> DEFINE c == a \o b
<1>1. /\ c \in Seq(S) /\ Len(c) = Len(a) + Len(b)
      /\ Len(a) \in Nat /\ Len(b) \in Nat
      /\ \A i \in 1 .. Len(a) + Len(b) :
            c[i] = IF i <= Len(a) THEN a[i] ELSE b[i - Len(a)]
  BY ConcatProperties, LenProperties
<1>2. /\ \A x : x \in ToSet(a) <=> \E i \in 1 .. Len(a) : x = a[i]
      /\ \A x : x \in ToSet(b) <=> \E i \in 1 .. Len(b) : x = b[i]
  BY Elements
<1>3. \A x : x \in ToSet(c) <=> \E i \in 1 .. Len(c) : x = c[i]
  BY <1>1, Elements
<1> HIDE DEF c
<1>4. ASSUME NEW x \in ToSet(c) PROVE x \in ToSet(a) \cup ToSet(b)
  <2>1. PICK i \in 1 .. Len(c) : x = c[i]
    BY <1>3
  <2>2. CASE i <= Len(a)
    <3>1. i \in 1 .. Len(a) /\ x = a[i]
      BY <1>1, <2>1, <2>2
    <3> QED
      BY <1>2, <3>1
  <2>3. CASE ~(i <= Len(a))
    <3>1. i - Len(a) \in 1 .. Len(b) /\ x = b[i - Len(a)]
      BY <1>1, <2>1, <2>3
    <3> QED
      BY <1>2, <3>1
  <2> QED
    BY <2>2, <2>3
<1>5. ASSUME NEW x \in ToSet(a) PROVE x \in ToSet(c)
  <2>1. PICK i \in 1 .. Len(a) : x = a[i]
    BY <1>2
  <2>2. i \in 1 .. Len(c) /\ c[i] = a[i]
    BY <1>1, <2>1
  <2> QED
    BY <1>3, <2>1, <2>2
<1>6. ASSUME NEW x \in ToSet(b) PROVE x \in ToSet(c)
  <2>1. PICK i \in 1 .. Len(b) : x = b[i]
    BY <1>2
  <2> DEFINE k == Len(a) + i
  <2>2. k \in 1 .. Len(c) /\ ~(k <= Len(a)) /\ k - Len(a) = i
    BY <1>1, <2>1
  <2>3. c[k] = b[k - Len(a)]
    BY <1>1, <2>2
  <2> QED
    BY <1>3, <2>1, <2>2, <2>3
<1>7. ToSet(c) = ToSet(a) \cup ToSet(b)
  BY <1>4, <1>5, <1>6
<1> QED
  BY <1>1, <1>7 DEF c

LEMMA Settling ==
    ASSUME NEW S, NEW o \in Seq(S), o # <<>>
    PROVE  /\ Front(o) \in Seq(S) /\ Last(o) \in S
           /\ ToSet(o) = ToSet(Front(o)) \cup {Last(o)}
           /\ Len(Front(o)) = Len(o) - 1
           /\ \A i \in 1 .. Len(o) - 1 : Front(o)[i] = o[i]
           /\ Len(o) \in Nat \ {0}
<1>1. Len(o) \in Nat \ {0} /\ \A i \in 1 .. Len(o) : o[i] \in S
  BY EmptySeq, ElementOfSeq
<1> DEFINE f == Front(o)
           n == Len(o)
<1>2. /\ f \in Seq(S) /\ Len(f) = n - 1
      /\ \A i \in 1 .. n - 1 : f[i] = o[i]
  <2>1. 1 \in 1 .. n + 1 /\ n - 1 \in 1 - 1 .. n
    BY <1>1
  <2>2. /\ f \in Seq(S)
        /\ Len(f) = IF 1 <= n - 1 THEN (n - 1) - 1 + 1 ELSE 0
        /\ \A i \in 1 .. (n - 1) - 1 + 1 : f[i] = o[1 + i - 1]
    BY <1>1, <2>1, SubSeqProperties DEF Front
  <2>3. ASSUME NEW i \in 1 .. n - 1 PROVE f[i] = o[i]
    <3>1. i \in 1 .. (n - 1) - 1 + 1 /\ 1 + i - 1 = i
      BY <1>1
    <3> QED
      BY <2>2, <3>1
  <2>4. Len(f) = n - 1
    <3>1. CASE n = 1
      BY <2>2, <3>1
    <3>2. CASE n # 1
      <4>1. \A k \in Nat \ {0} :
               k # 1 => 1 <= k - 1 /\ (k - 1) - 1 + 1 = k - 1
        OBVIOUS
      <4>2. 1 <= n - 1 /\ (n - 1) - 1 + 1 = n - 1
        BY <1>1, <3>2, <4>1
      <4> QED
        BY <2>2, <4>2
    <3> QED
      BY <3>1, <3>2
  <2> QED
    BY <2>2, <2>3, <2>4
<1>3. /\ \A x : x \in ToSet(o) <=> \E i \in 1 .. n : x = o[i]
      /\ \A x : x \in ToSet(f) <=> \E i \in 1 .. Len(f) : x = f[i]
  BY <1>2, Elements
<1>4. Last(o) = o[n]
  BY DEF Last
<1> HIDE DEF f, n
<1>5. ASSUME NEW x \in ToSet(o) PROVE x \in ToSet(f) \cup {o[n]}
  <2>1. PICK i \in 1 .. n : x = o[i]
    BY <1>3
  <2>2. CASE i # n
    <3>1. i \in 1 .. Len(f) /\ i \in 1 .. n - 1
      BY <1>1, <1>2, <2>2 DEF n
    <3>2. x = f[i]
      BY <1>2, <2>1, <3>1
    <3> QED
      BY <1>3, <3>1, <3>2
  <2> QED
    BY <2>1, <2>2
<1>6. ASSUME NEW x \in ToSet(f) PROVE x \in ToSet(o)
  <2>1. PICK i \in 1 .. Len(f) : x = f[i]
    BY <1>3
  <2>2. i \in 1 .. n /\ i \in 1 .. n - 1
    BY <1>1, <1>2, <2>1 DEF n
  <2> QED
    BY <1>2, <1>3, <2>1, <2>2
<1>7. o[n] \in ToSet(o)
  BY <1>1, <1>3 DEF n
<1>8. ToSet(o) = ToSet(f) \cup {o[n]}
  BY <1>5, <1>6, <1>7
<1>9. o[n] \in S
  BY <1>1 DEF n
<1> QED
  BY <1>1, <1>2, <1>4, <1>8, <1>9 DEF f, n

\* What is owed is settled from its end.
LEMMA Reversed ==
    ASSUME NEW S, NEW o \in Seq(S)
    PROVE  /\ Reverse(o) \in Seq(S) /\ Len(Reverse(o)) = Len(o)
           /\ Reverse(o) = <<>> <=> o = <<>>
           /\ o # <<>> => /\ Head(Reverse(o)) = Last(o)
                          /\ Tail(Reverse(o)) = Reverse(Front(o))
<1> DEFINE n == Len(o)
           v == Reverse(o)
<1>1. n \in Nat /\ \A i \in 1 .. n : o[i] \in S
  BY LenProperties, ElementOfSeq
<1>2. v = [i \in 1 .. n |-> o[(n - i) + 1]]
  BY DEF Reverse
<1>3. \A i \in 1 .. n : (n - i) + 1 \in 1 .. n
  BY <1>1
<1>4. v \in [1 .. n -> S]
  BY <1>1, <1>2, <1>3
<1>5. v \in Seq(S) /\ Len(v) = n
  <2>1. v \in Seq(S)
    BY <1>1, <1>4, IsASeq, SeqDef
  <2>2. DOMAIN v = 1 .. n /\ DOMAIN v = 1 .. Len(v) /\ Len(v) \in Nat
    BY <1>4, <2>1, LenProperties
  <2> QED
    BY <1>1, <2>1, <2>2
<1>6. v = <<>> <=> o = <<>>
  BY <1>5, Elements
<1>7. ASSUME o # <<>>
      PROVE  Head(v) = Last(o) /\ Tail(v) = Reverse(Front(o))
  <2>1. /\ v # <<>> /\ n \in Nat \ {0}
    BY <1>6, <1>7, EmptySeq
  <2>2. Head(v) = v[1] /\ Len(Tail(v)) = n - 1 /\ Tail(v) \in Seq(S)
        /\ \A i \in 1 .. n - 1 : Tail(v)[i] = v[i + 1]
    BY <1>5, <2>1, First
  <2>3. v[1] = o[n]
    <3>1. 1 \in 1 .. n /\ (n - 1) + 1 = n
      BY <2>1
    <3> QED
      BY <1>2, <3>1
  <2> DEFINE f == Front(o)
             g == Reverse(f)
  <2>4. /\ f \in Seq(S) /\ Len(f) = n - 1
        /\ \A i \in 1 .. n - 1 : f[i] = o[i]
    BY <1>7, Settling
  <2>5. g = [i \in 1 .. n - 1 |-> f[((n - 1) - i) + 1]]
    BY <2>4 DEF Reverse
  <2>6. ASSUME NEW i \in 1 .. n - 1 PROVE Tail(v)[i] = g[i]
    <3>1. /\ ((n - 1) - i) + 1 \in 1 .. n - 1 /\ i + 1 \in 1 .. n
          /\ ((n - 1) - i) + 1 = (n - (i + 1)) + 1
      BY <2>1
    <3>2. g[i] = f[((n - 1) - i) + 1]
      BY <2>5
    <3>3. f[((n - 1) - i) + 1] = o[((n - 1) - i) + 1]
      BY <2>4, <3>1
    <3>4. v[i + 1] = o[(n - (i + 1)) + 1]
      BY <1>2, <3>1
    <3> QED
      BY <2>2, <3>1, <3>2, <3>3, <3>4
  <2>7. Tail(v) \in [1 .. n - 1 -> S]
    BY <2>2, LenProperties
  <2>8. Tail(v) = [i \in 1 .. n - 1 |-> Tail(v)[i]]
    BY <2>7
  <2>9. Tail(v) = g
    BY <2>5, <2>6, <2>8
  <2> QED
    BY <2>2, <2>3, <2>9 DEF Last
<1> QED
  BY <1>5, <1>6, <1>7

-----------------------------------------------------------------------------
(* The scripts are sequences of steps, each of a kind of its command.      *)

Made(t, kinds) == t \in Seq(Calls) /\ \A s \in ToSet(t) : s[1] \in kinds

LEMMA ACall ==
    ASSUME NEW k \in Kind, NEW a \in Arg
    PROVE  <<k, a>> \in Calls /\ <<k, a>>[1] = k /\ <<k, a>>[2] = a
BY DEF Calls

LEMMA MadeEmpty == ASSUME NEW kinds PROVE Made(<<>>, kinds)
BY Empty, EmptySeq DEF Made

LEMMA MadeJoined ==
    ASSUME NEW kinds, NEW a, NEW b, Made(a, kinds), Made(b, kinds)
    PROVE  Made(a \o b, kinds)
BY Joined DEF Made

LEMMA Made1 ==
    ASSUME NEW kinds, kinds \subseteq Kind, NEW k1 \in kinds, NEW a1 \in Arg
    PROVE  Made(<<<<k1, a1>>>>, kinds)
<1> DEFINE
      s1 == <<k1, a1>>
      t == <<s1>>
<1>1. /\ s1 \in Calls /\ s1[1] = k1
  BY ACall
<1> HIDE DEF s1
<1>2. t \in Seq(Calls) /\ Len(t) = 1
  BY <1>1
<1>3. t[1] = s1
  OBVIOUS
<1> HIDE DEF t
<1>4. ASSUME NEW s \in ToSet(t) PROVE s[1] \in kinds
  <2>1. PICK i \in 1 .. 1 : s = t[i]
    BY <1>2, Elements
  <2>2. i = 1
    BY <2>1
  <2> QED
    BY <1>1, <1>3, <2>1, <2>2
<1>5. Made(t, kinds)
  BY <1>2, <1>4 DEF Made
<1> QED
  BY <1>5 DEF t, s1

LEMMA Made2 ==
    ASSUME NEW kinds, kinds \subseteq Kind, NEW k1 \in kinds,
           NEW k2 \in kinds, NEW a1 \in Arg, NEW a2 \in Arg
    PROVE  Made(<<<<k1, a1>>, <<k2, a2>>>>, kinds)
<1> DEFINE
      s1 == <<k1, a1>>
      s2 == <<k2, a2>>
      t == <<s1, s2>>
<1>1. /\ s1 \in Calls /\ s1[1] = k1
      /\ s2 \in Calls /\ s2[1] = k2
  BY ACall
<1> HIDE DEF s1, s2
<1>2. t \in Seq(Calls) /\ Len(t) = 2
  BY <1>1
<1>3. t[1] = s1 /\ t[2] = s2
  OBVIOUS
<1> HIDE DEF t
<1>4. ASSUME NEW s \in ToSet(t) PROVE s[1] \in kinds
  <2>1. PICK i \in 1 .. 2 : s = t[i]
    BY <1>2, Elements
  <2>2. i = 1 \/ i = 2
    BY <2>1
  <2> QED
    BY <1>1, <1>3, <2>1, <2>2
<1>5. Made(t, kinds)
  BY <1>2, <1>4 DEF Made
<1> QED
  BY <1>5 DEF t, s1, s2

LEMMA Made3 ==
    ASSUME NEW kinds, kinds \subseteq Kind, NEW k1 \in kinds,
           NEW k2 \in kinds, NEW k3 \in kinds, NEW a1 \in Arg,
           NEW a2 \in Arg, NEW a3 \in Arg
    PROVE  Made(<<<<k1, a1>>, <<k2, a2>>, <<k3, a3>>>>, kinds)
<1> DEFINE
      s1 == <<k1, a1>>
      s2 == <<k2, a2>>
      s3 == <<k3, a3>>
      t == <<s1, s2, s3>>
<1>1. /\ s1 \in Calls /\ s1[1] = k1
      /\ s2 \in Calls /\ s2[1] = k2
      /\ s3 \in Calls /\ s3[1] = k3
  BY ACall
<1> HIDE DEF s1, s2, s3
<1>2. t \in Seq(Calls) /\ Len(t) = 3
  BY <1>1
<1>3. t[1] = s1 /\ t[2] = s2 /\ t[3] = s3
  OBVIOUS
<1> HIDE DEF t
<1>4. ASSUME NEW s \in ToSet(t) PROVE s[1] \in kinds
  <2>1. PICK i \in 1 .. 3 : s = t[i]
    BY <1>2, Elements
  <2>2. i = 1 \/ i = 2 \/ i = 3
    BY <2>1
  <2> QED
    BY <1>1, <1>3, <2>1, <2>2
<1>5. Made(t, kinds)
  BY <1>2, <1>4 DEF Made
<1> QED
  BY <1>5 DEF t, s1, s2, s3

LEMMA Made4 ==
    ASSUME NEW kinds, kinds \subseteq Kind, NEW k1 \in kinds,
           NEW k2 \in kinds, NEW k3 \in kinds, NEW k4 \in kinds,
           NEW a1 \in Arg, NEW a2 \in Arg, NEW a3 \in Arg, NEW a4 \in Arg
    PROVE  Made(<<<<k1, a1>>, <<k2, a2>>, <<k3, a3>>, <<k4, a4>>>>, kinds)
<1> DEFINE
      s1 == <<k1, a1>>
      s2 == <<k2, a2>>
      s3 == <<k3, a3>>
      s4 == <<k4, a4>>
      t == <<s1, s2, s3, s4>>
<1>1. /\ s1 \in Calls /\ s1[1] = k1
      /\ s2 \in Calls /\ s2[1] = k2
      /\ s3 \in Calls /\ s3[1] = k3
      /\ s4 \in Calls /\ s4[1] = k4
  BY ACall
<1> HIDE DEF s1, s2, s3, s4
<1>2. t \in Seq(Calls) /\ Len(t) = 4
  BY <1>1
<1>3. t[1] = s1 /\ t[2] = s2 /\ t[3] = s3 /\ t[4] = s4
  OBVIOUS
<1> HIDE DEF t
<1>4. ASSUME NEW s \in ToSet(t) PROVE s[1] \in kinds
  <2>1. PICK i \in 1 .. 4 : s = t[i]
    BY <1>2, Elements
  <2>2. i = 1 \/ i = 2 \/ i = 3 \/ i = 4
    BY <2>1
  <2> QED
    BY <1>1, <1>3, <2>1, <2>2
<1>5. Made(t, kinds)
  BY <1>2, <1>4 DEF Made
<1> QED
  BY <1>5 DEF t, s1, s2, s3, s4

LEMMA Made5 ==
    ASSUME NEW kinds, kinds \subseteq Kind, NEW k1 \in kinds,
           NEW k2 \in kinds, NEW k3 \in kinds, NEW k4 \in kinds,
           NEW k5 \in kinds, NEW a1 \in Arg, NEW a2 \in Arg, NEW a3 \in Arg,
           NEW a4 \in Arg, NEW a5 \in Arg
    PROVE  Made(<<<<k1, a1>>, <<k2, a2>>, <<k3, a3>>, <<k4, a4>>,
                  <<k5, a5>>>>, kinds)
<1> DEFINE
      s1 == <<k1, a1>>
      s2 == <<k2, a2>>
      s3 == <<k3, a3>>
      s4 == <<k4, a4>>
      s5 == <<k5, a5>>
      t == <<s1, s2, s3, s4, s5>>
<1>1. /\ s1 \in Calls /\ s1[1] = k1
      /\ s2 \in Calls /\ s2[1] = k2
      /\ s3 \in Calls /\ s3[1] = k3
      /\ s4 \in Calls /\ s4[1] = k4
      /\ s5 \in Calls /\ s5[1] = k5
  BY ACall
<1> HIDE DEF s1, s2, s3, s4, s5
<1>2. t \in Seq(Calls) /\ Len(t) = 5
  BY <1>1
<1>3. t[1] = s1 /\ t[2] = s2 /\ t[3] = s3 /\ t[4] = s4 /\ t[5] = s5
  OBVIOUS
<1> HIDE DEF t
<1>4. ASSUME NEW s \in ToSet(t) PROVE s[1] \in kinds
  <2>1. PICK i \in 1 .. 5 : s = t[i]
    BY <1>2, Elements
  <2>2. i = 1 \/ i = 2 \/ i = 3 \/ i = 4 \/ i = 5
    BY <2>1
  <2> QED
    BY <1>1, <1>3, <2>1, <2>2
<1>5. Made(t, kinds)
  BY <1>2, <1>4 DEF Made
<1> QED
  BY <1>5 DEF t, s1, s2, s3, s4, s5

LEMMA Made6 ==
    ASSUME NEW kinds, kinds \subseteq Kind, NEW k1 \in kinds,
           NEW k2 \in kinds, NEW k3 \in kinds, NEW k4 \in kinds,
           NEW k5 \in kinds, NEW k6 \in kinds, NEW a1 \in Arg,
           NEW a2 \in Arg, NEW a3 \in Arg, NEW a4 \in Arg, NEW a5 \in Arg,
           NEW a6 \in Arg
    PROVE  Made(<<<<k1, a1>>, <<k2, a2>>, <<k3, a3>>, <<k4, a4>>, <<k5, a5>>,
                  <<k6, a6>>>>, kinds)
<1> DEFINE
      s1 == <<k1, a1>>
      s2 == <<k2, a2>>
      s3 == <<k3, a3>>
      s4 == <<k4, a4>>
      s5 == <<k5, a5>>
      s6 == <<k6, a6>>
      t == <<s1, s2, s3, s4, s5, s6>>
<1>1. /\ s1 \in Calls /\ s1[1] = k1
      /\ s2 \in Calls /\ s2[1] = k2
      /\ s3 \in Calls /\ s3[1] = k3
      /\ s4 \in Calls /\ s4[1] = k4
      /\ s5 \in Calls /\ s5[1] = k5
      /\ s6 \in Calls /\ s6[1] = k6
  BY ACall
<1> HIDE DEF s1, s2, s3, s4, s5, s6
<1>2. t \in Seq(Calls) /\ Len(t) = 6
  BY <1>1
<1>3. /\ t[1] = s1 /\ t[2] = s2 /\ t[3] = s3 /\ t[4] = s4 /\ t[5] = s5
      /\ t[6] = s6
  OBVIOUS
<1> HIDE DEF t
<1>4. ASSUME NEW s \in ToSet(t) PROVE s[1] \in kinds
  <2>1. PICK i \in 1 .. 6 : s = t[i]
    BY <1>2, Elements
  <2>2. i = 1 \/ i = 2 \/ i = 3 \/ i = 4 \/ i = 5 \/ i = 6
    BY <2>1
  <2> QED
    BY <1>1, <1>3, <2>1, <2>2
<1>5. Made(t, kinds)
  BY <1>2, <1>4 DEF Made
<1> QED
  BY <1>5 DEF t, s1, s2, s3, s4, s5, s6

LEMMA Made7 ==
    ASSUME NEW kinds, kinds \subseteq Kind, NEW k1 \in kinds,
           NEW k2 \in kinds, NEW k3 \in kinds, NEW k4 \in kinds,
           NEW k5 \in kinds, NEW k6 \in kinds, NEW k7 \in kinds,
           NEW a1 \in Arg, NEW a2 \in Arg, NEW a3 \in Arg, NEW a4 \in Arg,
           NEW a5 \in Arg, NEW a6 \in Arg, NEW a7 \in Arg
    PROVE  Made(<<<<k1, a1>>, <<k2, a2>>, <<k3, a3>>, <<k4, a4>>, <<k5, a5>>,
                  <<k6, a6>>, <<k7, a7>>>>, kinds)
<1> DEFINE
      s1 == <<k1, a1>>
      s2 == <<k2, a2>>
      s3 == <<k3, a3>>
      s4 == <<k4, a4>>
      s5 == <<k5, a5>>
      s6 == <<k6, a6>>
      s7 == <<k7, a7>>
      t == <<s1, s2, s3, s4, s5, s6, s7>>
<1>1. /\ s1 \in Calls /\ s1[1] = k1
      /\ s2 \in Calls /\ s2[1] = k2
      /\ s3 \in Calls /\ s3[1] = k3
      /\ s4 \in Calls /\ s4[1] = k4
      /\ s5 \in Calls /\ s5[1] = k5
      /\ s6 \in Calls /\ s6[1] = k6
      /\ s7 \in Calls /\ s7[1] = k7
  BY ACall
<1> HIDE DEF s1, s2, s3, s4, s5, s6, s7
<1>2. t \in Seq(Calls) /\ Len(t) = 7
  BY <1>1
<1>3. /\ t[1] = s1 /\ t[2] = s2 /\ t[3] = s3 /\ t[4] = s4 /\ t[5] = s5
      /\ t[6] = s6 /\ t[7] = s7
  OBVIOUS
<1> HIDE DEF t
<1>4. ASSUME NEW s \in ToSet(t) PROVE s[1] \in kinds
  <2>1. PICK i \in 1 .. 7 : s = t[i]
    BY <1>2, Elements
  <2>2. i = 1 \/ i = 2 \/ i = 3 \/ i = 4 \/ i = 5 \/ i = 6 \/ i = 7
    BY <2>1
  <2> QED
    BY <1>1, <1>3, <2>1, <2>2
<1>5. Made(t, kinds)
  BY <1>2, <1>4 DEF Made
<1> QED
  BY <1>5 DEF t, s1, s2, s3, s4, s5, s6, s7

LEMMA KindsAre ==
    /\ Kinds("create") =
          {"profile", "launch", "agent", "prepare"}
    /\ Kinds("master") =
          {"profile", "launch", "agent", "prepare"}
    /\ Kinds("cluster") =
          {"exist", "agent", "serve", "active", "pushToken", "join",
           "removeToken", "restart", "nodesReady", "judge"}
    /\ Kinds("masterCluster") =
          {"exist", "agent", "serve", "active", "pushToken", "join",
           "removeToken", "restart", "nodesReady", "judge"}
    /\ Kinds("pull") =
          {"exist", "agent", "readConfig", "backUp", "replaceConfig"}
    /\ Kinds("suspend") =
          {"pauseNode"}
    /\ Kinds("resume") =
          {"start"}
    /\ Kinds("restore") =
          {"restore", "start"}
    /\ Kinds("delete") =
          {"delete"}
    /\ Kinds("snapshot") =
          {"pause", "drop", "snapshot"}
    /\ Kinds("infra") =
          {"operator", "established", "judge", "secret", "secretCopy",
           "deploy"}
    /\ Kinds("services") =
          {"readElastic", "copyElastic", "judge", "configure", "bucket",
           "removeFiles", "secret", "secretCopy", "readMinio", "import",
           "saveImage", "pushArchive", "importImage", "removeArchive",
           "redeploy"}
    /\ Kinds("secret") =
          {"secret", "secretCopy"}
    /\ Kinds("zipkinSecret") =
          {"secret", "secretCopy"}
    /\ Kinds("user") =
          {"judge", "readMinio", "configure", "import", "removeFiles"}
    /\ Kinds("zipkin") =
          {"readZipkin", "request", "deletePod", "setupPod", "succeeded",
           "removePod", "removeRequest"}
    /\ Kinds("image") =
          {"saveImage", "pushArchive", "importImage", "removeArchive"}
    /\ Kinds("localCreate") =
          {"createKind", "judge", "metrics"}
    /\ Kinds("forward") =
          {"forward", "ports", "servePorts"}
    /\ Kinds("localDelete") =
          {"deleteStorage", "deleteKind"}
BY DEF Kinds

LEMMA KindsOK == \A script \in Name : Kinds(script) \subseteq Kind
<1> SUFFICES ASSUME NEW script \in Name PROVE Kinds(script) \subseteq Kind
  OBVIOUS
<1>1. Kinds("create") \subseteq Kind
  BY KindsAre DEF Kind, MachineKind, CutKind, DebtKind, OtherKind
<1>2. Kinds("master") \subseteq Kind
  BY KindsAre DEF Kind, MachineKind, CutKind, DebtKind, OtherKind
<1>3. Kinds("cluster") \subseteq Kind
  BY KindsAre DEF Kind, MachineKind, CutKind, DebtKind, OtherKind
<1>4. Kinds("masterCluster") \subseteq Kind
  BY KindsAre DEF Kind, MachineKind, CutKind, DebtKind, OtherKind
<1>5. Kinds("pull") \subseteq Kind
  BY KindsAre DEF Kind, MachineKind, CutKind, DebtKind, OtherKind
<1>6. Kinds("suspend") \subseteq Kind
  BY KindsAre DEF Kind, MachineKind, CutKind, DebtKind, OtherKind
<1>7. Kinds("resume") \subseteq Kind
  BY KindsAre DEF Kind, MachineKind, CutKind, DebtKind, OtherKind
<1>8. Kinds("restore") \subseteq Kind
  BY KindsAre DEF Kind, MachineKind, CutKind, DebtKind, OtherKind
<1>9. Kinds("delete") \subseteq Kind
  BY KindsAre DEF Kind, MachineKind, CutKind, DebtKind, OtherKind
<1>10. Kinds("snapshot") \subseteq Kind
  BY KindsAre DEF Kind, MachineKind, CutKind, DebtKind, OtherKind
<1>11. Kinds("infra") \subseteq Kind
  BY KindsAre DEF Kind, MachineKind, CutKind, DebtKind, OtherKind
<1>12. Kinds("services") \subseteq Kind
  BY KindsAre DEF Kind, MachineKind, CutKind, DebtKind, OtherKind
<1>13. Kinds("secret") \subseteq Kind
  BY KindsAre DEF Kind, MachineKind, CutKind, DebtKind, OtherKind
<1>14. Kinds("zipkinSecret") \subseteq Kind
  BY KindsAre DEF Kind, MachineKind, CutKind, DebtKind, OtherKind
<1>15. Kinds("user") \subseteq Kind
  BY KindsAre DEF Kind, MachineKind, CutKind, DebtKind, OtherKind
<1>16. Kinds("zipkin") \subseteq Kind
  BY KindsAre DEF Kind, MachineKind, CutKind, DebtKind, OtherKind
<1>17. Kinds("image") \subseteq Kind
  BY KindsAre DEF Kind, MachineKind, CutKind, DebtKind, OtherKind
<1>18. Kinds("localCreate") \subseteq Kind
  BY KindsAre DEF Kind, MachineKind, CutKind, DebtKind, OtherKind
<1>19. Kinds("forward") \subseteq Kind
  BY KindsAre DEF Kind, MachineKind, CutKind, DebtKind, OtherKind
<1>20. Kinds("localDelete") \subseteq Kind
  BY KindsAre DEF Kind, MachineKind, CutKind, DebtKind, OtherKind
<1> QED
  BY <1>1, <1>2, <1>3, <1>4, <1>5, <1>6, <1>7, <1>8, <1>9, <1>10, <1>11,
     <1>12, <1>13, <1>14, <1>15, <1>16, <1>17, <1>18, <1>19, <1>20 DEF Name

LEMMA EachMade ==
    ASSUME NEW kinds, NEW nodes, NEW steps,
           \A n \in Node : Made(steps[n], kinds)
    PROVE  Made(Each(nodes, steps), kinds)
<1> DEFINE Of(n) == IF n \in nodes THEN steps[n] ELSE <<>>
<1>1. \A n \in Node : Made(Of(n), kinds)
  BY MadeEmpty
<1>2. /\ Made(Of("master"), kinds) /\ Made(Of("worker1"), kinds)
      /\ Made(Of("worker2"), kinds)
  BY <1>1 DEF Node
<1>3. Each(nodes, steps) = (Of("master") \o Of("worker1")) \o Of("worker2")
  BY DEF Each
<1> HIDE DEF Of
<1> QED
  BY <1>2, <1>3, MadeJoined

LEMMA EachHas ==
    ASSUME NEW nodes \in SUBSET Node, NEW steps,
           \A n \in Node : steps[n] \in Seq(Calls), NEW x
    PROVE  x \in ToSet(Each(nodes, steps))
               <=> \E n \in nodes : x \in ToSet(steps[n])
<1> DEFINE Of(n) == IF n \in nodes THEN steps[n] ELSE <<>>
           a == Of("master")
           b == Of("worker1")
           c == Of("worker2")
<1>1. /\ a \in Seq(Calls) /\ b \in Seq(Calls) /\ c \in Seq(Calls)
  BY EmptySeq DEF Node
<1>2. Each(nodes, steps) = (a \o b) \o c
  BY DEF Each
<1>3. /\ x \in ToSet(a) <=> "master" \in nodes /\ x \in ToSet(steps["master"])
      /\ x \in ToSet(b) <=>
            "worker1" \in nodes /\ x \in ToSet(steps["worker1"])
      /\ x \in ToSet(c) <=>
            "worker2" \in nodes /\ x \in ToSet(steps["worker2"])
  BY Empty
<1> HIDE DEF a, b, c
<1>4. a \o b \in Seq(Calls) /\ ToSet(a \o b) = ToSet(a) \cup ToSet(b)
  BY <1>1, Joined
<1> DEFINE d == a \o b
<1>5. ToSet(d \o c) = ToSet(d) \cup ToSet(c)
  <2>1. d \in Seq(Calls)
    BY <1>4
  <2> HIDE DEF d
  <2> QED
    BY <1>1, <2>1, Joined
<1>6. (\E n \in nodes : x \in ToSet(steps[n])) <=>
          \/ "master" \in nodes /\ x \in ToSet(steps["master"])
          \/ "worker1" \in nodes /\ x \in ToSet(steps["worker1"])
          \/ "worker2" \in nodes /\ x \in ToSet(steps["worker2"])
  BY DEF Node
<1> QED
  BY <1>2, <1>3, <1>4, <1>5, <1>6

LEMMA ArgsAre ==
    /\ "one" \in Arg /\ "all" \in Arg /\ "postgres" \in Arg /\ "kafka" \in Arg
    /\ "minio" \in Arg /\ "zipkin" \in Arg /\ "coredns" \in Arg
    /\ "rolledOut" \in Arg /\ "tenantReady" \in Arg /\ "bucket" \in Arg
    /\ "confirmed" \in Arg /\ "postgresReady" \in Arg
    /\ "kafkaReady" \in Arg /\ "available" \in Arg /\ "download" \in Arg
    /\ "patched" \in Arg /\ "master" \in Arg /\ "worker1" \in Arg
    /\ "worker2" \in Arg /\ Node \subseteq Arg
BY DEF Arg, Node
LEMMA CreateMade ==
    ASSUME NEW w, NEW m PROVE Made(CreateNodes(w, m), Kinds("create"))
<1> DEFINE K == Kinds("create")
<1>0. K \subseteq Kind
  BY KindsOK DEF Name
<1>1. /\ "profile" \in K /\ "launch" \in K /\ "agent" \in K /\ "prepare" \in K
  BY KindsAre
<1> HIDE DEF K
<1>2. \A n \in Node :
         Made(<<<<"profile", n>>, <<"launch", n>>, <<"agent", n>>,
                <<"prepare", n>>>>, K)
  BY <1>0, <1>1, ArgsAre, Made4
<1> QED
  BY <1>2, EachMade DEF CreateNodes, K

LEMMA JoinMade ==
    ASSUME NEW n \in Node PROVE Made(JoinWorker(n), Kinds("cluster"))
<1> DEFINE K == Kinds("cluster")
<1>0. K \subseteq Kind
  BY KindsOK DEF Name
<1>1. /\ "pushToken" \in K /\ "join" \in K /\ "removeToken" \in K
      /\ "restart" \in K /\ "active" \in K
  BY KindsAre
<1> HIDE DEF K
<1>2. \A o \in Node :
         Made(<<<<"pushToken", o>>, <<"join", o>>, <<"removeToken", o>>,
                <<"restart", o>>, <<"active", o>>>>, K)
  BY <1>0, <1>1, ArgsAre, Made5
<1> QED
  BY <1>2 DEF JoinWorker, K

LEMMA ClusterMade ==
    ASSUME NEW m \in BOOLEAN PROVE Made(ClusterCreate(m), Kinds("cluster"))
<1> DEFINE K == Kinds("cluster")
<1>0. K \subseteq Kind
  BY KindsOK DEF Name
<1>1. /\ "exist" \in K /\ "agent" \in K /\ "serve" \in K /\ "active" \in K
      /\ "nodesReady" \in K /\ "judge" \in K
  BY KindsAre
<1> HIDE DEF K
<1>2. Made(<<<<"exist", IF m THEN "master" ELSE "all">>,
             <<"agent", "master">>, <<"serve", "master">>,
             <<"active", "master">>>>, K)
  BY <1>0, <1>1, ArgsAre, Made4
<1>3. Made(JoinWorker("worker1"), K)
  BY JoinMade DEF Node, K
<1>4. Made(JoinWorker("worker2"), K)
  BY JoinMade DEF Node, K
<1>5. Made(<<<<"nodesReady", IF m THEN "master" ELSE "all">>,
             <<"judge", "coredns">>>>, K)
  BY <1>0, <1>1, ArgsAre, Made2
<1> QED
  BY <1>2, <1>3, <1>4, <1>5, MadeJoined, MadeEmpty DEF ClusterCreate, K

LEMMA PullMade == Made(PullKubeconfig, Kinds("pull"))
<1> DEFINE K == Kinds("pull")
<1>0. K \subseteq Kind
  BY KindsOK DEF Name
<1>1. /\ "exist" \in K /\ "agent" \in K /\ "readConfig" \in K
      /\ "backUp" \in K /\ "replaceConfig" \in K
  BY KindsAre
<1> HIDE DEF K
<1>2. Made(<<<<"exist", "master">>, <<"agent", "master">>,
             <<"readConfig", "one">>, <<"backUp", "one">>,
             <<"replaceConfig", "one">>>>, K)
  BY <1>0, <1>1, ArgsAre, Made5
<1> QED
  BY <1>2, MadeJoined, MadeEmpty DEF PullKubeconfig, K

LEMMA InfraMade == Made(Infra, Kinds("infra"))
<1> DEFINE K == Kinds("infra")
<1>0. K \subseteq Kind
  BY KindsOK DEF Name
<1>1. /\ "operator" \in K /\ "established" \in K /\ "judge" \in K
      /\ "secret" \in K /\ "secretCopy" \in K /\ "deploy" \in K
  BY KindsAre
<1> HIDE DEF K
<1>2. Made(<<<<"operator", "postgres">>,
             <<"established", "postgres">>,
             <<"judge", "rolledOut">>>>, K)
  BY <1>0, <1>1, ArgsAre, Made3
<1>3. Made(<<<<"operator", "kafka">>, <<"established", "kafka">>,
             <<"judge", "rolledOut">>>>, K)
  BY <1>0, <1>1, ArgsAre, Made3
<1>4. Made(<<<<"secret", "postgres">>,
             <<"secretCopy", "postgres">>>>, K)
  BY <1>0, <1>1, ArgsAre, Made2
<1>5. Made(<<<<"deploy", "postgres">>, <<"deploy", "kafka">>>>, K)
  BY <1>0, <1>1, ArgsAre, Made2
<1>6. Made(<<<<"judge", "tenantReady">>>>, K)
  BY <1>0, <1>1, ArgsAre, Made1
<1>7. Made(<<<<"judge", "postgresReady">>,
             <<"judge", "kafkaReady">>>>, K)
  BY <1>0, <1>1, ArgsAre, Made2
<1> QED
  BY <1>2, <1>3, <1>4, <1>5, <1>6, <1>7, MadeJoined, MadeEmpty
     DEF Infra, DeployOperator, CreateSecret, TenantReady, K

LEMMA SecretMade ==
    ASSUME NEW p \in {"minio", "zipkin"}
    PROVE  Made(CreateSecret(p), Kinds("secret"))
<1> DEFINE K == Kinds("secret")
<1>0. K \subseteq Kind
  BY KindsOK DEF Name
<1>1. /\ "secret" \in K /\ "secretCopy" \in K
  BY KindsAre
<1> HIDE DEF K
<1>2. Made(<<<<"secret", p>>>>, K)
  BY <1>0, <1>1, ArgsAre, Made1
<1>3. Made(<<<<"secret", p>>, <<"secretCopy", p>>>>, K)
  BY <1>0, <1>1, ArgsAre, Made2
<1> QED
  BY <1>2, <1>3, MadeJoined, MadeEmpty DEF CreateSecret, K

LEMMA UserMade == Made(MinioUserPolicy, Kinds("user"))
<1> DEFINE K == Kinds("user")
<1>0. K \subseteq Kind
  BY KindsOK DEF Name
<1>1. /\ "judge" \in K /\ "readMinio" \in K /\ "configure" \in K
      /\ "import" \in K /\ "removeFiles" \in K
  BY KindsAre
<1> HIDE DEF K
<1>2. Made(<<<<"judge", "tenantReady">>>>, K)
  BY <1>0, <1>1, ArgsAre, Made1
<1>3. Made(<<<<"readMinio", "one">>, <<"configure", "one">>,
             <<"import", "one">>, <<"judge", "confirmed">>,
             <<"removeFiles", "one">>>>, K)
  BY <1>0, <1>1, ArgsAre, Made5
<1> QED
  BY <1>2, <1>3, MadeJoined, MadeEmpty DEF MinioUserPolicy, TenantReady, K

LEMMA ZipkinMade == Made(ZipkinUser, Kinds("zipkin"))
<1> DEFINE K == Kinds("zipkin")
<1>0. K \subseteq Kind
  BY KindsOK DEF Name
<1>1. /\ "readZipkin" \in K /\ "request" \in K /\ "deletePod" \in K
      /\ "setupPod" \in K /\ "succeeded" \in K /\ "removePod" \in K
      /\ "removeRequest" \in K
  BY KindsAre
<1> HIDE DEF K
<1>2. Made(<<<<"readZipkin", "one">>, <<"request", "one">>,
             <<"deletePod", "one">>, <<"setupPod", "one">>,
             <<"succeeded", "one">>, <<"removePod", "one">>,
             <<"removeRequest", "one">>>>, K)
  BY <1>0, <1>1, ArgsAre, Made7
<1> QED
  BY <1>2, MadeJoined, MadeEmpty DEF ZipkinUser, K

LEMMA ImageMade == ASSUME NEW w PROVE Made(LoadImage(w), Kinds("image"))
<1> DEFINE K == Kinds("image")
<1>0. K \subseteq Kind
  BY KindsOK DEF Name
<1>1. /\ "saveImage" \in K /\ "pushArchive" \in K /\ "importImage" \in K
      /\ "removeArchive" \in K
  BY KindsAre
<1> HIDE DEF K
<1>2. Made(<<<<"saveImage", "one">>>>, K)
  BY <1>0, <1>1, ArgsAre, Made1
<1>3. \A n \in Node :
         Made(<<<<"pushArchive", n>>, <<"importImage", n>>,
                <<"removeArchive", n>>>>, K)
  BY <1>0, <1>1, ArgsAre, Made3
<1> DEFINE steps ==
               [n \in Node |-> <<<<"pushArchive", n>>, <<"importImage", n>>,
                                 <<"removeArchive", n>>>>]
           e == Each(Existing(w), steps)
<1>4. Made(e, K)
  <2>1. \A n \in Node : Made(steps[n], K)
    BY <1>3, Zenon
  <2> HIDE DEF steps
  <2> QED
    BY <2>1, EachMade
<1>5. LoadImage(w) = <<<<"saveImage", "one">>>> \o e
  BY DEF LoadImage
<1> HIDE DEF e
<1> QED
  BY <1>2, <1>4, <1>5, MadeJoined DEF K

LEMMA ServicesImageMade ==
    ASSUME NEW w
    PROVE  Made(LoadImage(w), Kinds("services"))
<1> DEFINE K == Kinds("services")
<1>0. K \subseteq Kind
  BY KindsOK DEF Name
<1>1. /\ "saveImage" \in K /\ "pushArchive" \in K /\ "importImage" \in K
      /\ "removeArchive" \in K
  BY KindsAre
<1> HIDE DEF K
<1>2. Made(<<<<"saveImage", "one">>>>, K)
  BY <1>0, <1>1, ArgsAre, Made1
<1>3. \A n \in Node :
         Made(<<<<"pushArchive", n>>, <<"importImage", n>>,
                <<"removeArchive", n>>>>, K)
  BY <1>0, <1>1, ArgsAre, Made3
<1> DEFINE steps ==
               [n \in Node |-> <<<<"pushArchive", n>>, <<"importImage", n>>,
                                 <<"removeArchive", n>>>>]
           e == Each(Existing(w), steps)
<1>4. Made(e, K)
  <2>1. \A n \in Node : Made(steps[n], K)
    BY <1>3, Zenon
  <2> HIDE DEF steps
  <2> QED
    BY <2>1, EachMade
<1>5. LoadImage(w) = <<<<"saveImage", "one">>>> \o e
  BY DEF LoadImage
<1> HIDE DEF e
<1> QED
  BY <1>2, <1>4, <1>5, MadeJoined DEF K

LEMMA ServicesMade ==
    ASSUME NEW w PROVE Made(Services(w), Kinds("services"))
<1> DEFINE K == Kinds("services")
<1>0. K \subseteq Kind
  BY KindsOK DEF Name
<1>1. /\ "readElastic" \in K /\ "copyElastic" \in K /\ "judge" \in K
      /\ "configure" \in K /\ "bucket" \in K /\ "removeFiles" \in K
      /\ "secret" \in K /\ "secretCopy" \in K /\ "readMinio" \in K
      /\ "import" \in K /\ "redeploy" \in K
  BY KindsAre
<1> HIDE DEF K
<1>2. Made(<<<<"readElastic", "one">>, <<"copyElastic", "one">>>>, K)
  BY <1>0, <1>1, ArgsAre, Made2
<1>3. Made(<<<<"judge", "tenantReady">>>>, K)
  BY <1>0, <1>1, ArgsAre, Made1
<1>4. Made(<<<<"configure", "one">>, <<"bucket", "one">>,
             <<"judge", "bucket">>, <<"removeFiles", "one">>>>, K)
  BY <1>0, <1>1, ArgsAre, Made4
<1>5. Made(<<<<"secret", "minio">>, <<"secretCopy", "minio">>>>, K)
  BY <1>0, <1>1, ArgsAre, Made2
<1>6. Made(<<<<"readMinio", "one">>, <<"configure", "one">>,
             <<"import", "one">>, <<"judge", "confirmed">>,
             <<"removeFiles", "one">>>>, K)
  BY <1>0, <1>1, ArgsAre, Made5
<1>7. Made(LoadImage(w), K)
  BY ServicesImageMade DEF K
<1>8. Made(<<<<"redeploy", "one">>, <<"judge", "available">>>>, K)
  BY <1>0, <1>1, ArgsAre, Made2
<1> QED
  BY <1>2, <1>3, <1>4, <1>5, <1>6, <1>7, <1>8, MadeJoined,
     MadeEmpty
     DEF Services, CopySecret, MinioBucket, CreateSecret, MinioUserPolicy,
     TenantReady, K

LEMMA LocalMade == Made(CreateLocalCluster, Kinds("localCreate"))
<1> DEFINE K == Kinds("localCreate")
<1>0. K \subseteq Kind
  BY KindsOK DEF Name
<1>1. /\ "createKind" \in K /\ "judge" \in K /\ "metrics" \in K
  BY KindsAre
<1> HIDE DEF K
<1>2. Made(<<<<"createKind", "one">>, <<"judge", "download">>,
             <<"metrics", "one">>, <<"judge", "patched">>,
             <<"judge", "rolledOut">>>>, K)
  BY <1>0, <1>1, ArgsAre, Made5
<1> QED
  BY <1>2, MadeJoined, MadeEmpty DEF CreateLocalCluster, K

LEMMA ForwardMade == Made(PortForward, Kinds("forward"))
<1> DEFINE K == Kinds("forward")
<1>0. K \subseteq Kind
  BY KindsOK DEF Name
<1>1. /\ "forward" \in K /\ "ports" \in K /\ "servePorts" \in K
  BY KindsAre
<1> HIDE DEF K
<1>2. Made(<<<<"forward", "kafka">>, <<"forward", "postgres">>,
             <<"ports", "one">>, <<"servePorts", "one">>>>, K)
  BY <1>0, <1>1, ArgsAre, Made4
<1> QED
  BY <1>2, MadeJoined, MadeEmpty DEF PortForward, K

LEMMA LocalDeleteMade ==
    Made(<<<<"deleteStorage", "one">>, <<"deleteKind", "one">>>>,
         Kinds("localDelete"))
<1> DEFINE K == Kinds("localDelete")
<1>0. K \subseteq Kind
  BY KindsOK DEF Name
<1>1. /\ "deleteStorage" \in K /\ "deleteKind" \in K
  BY KindsAre
<1> HIDE DEF K
<1>2. Made(<<<<"deleteStorage", "one">>, <<"deleteKind", "one">>>>, K)
  BY <1>0, <1>1, ArgsAre, Made2
<1> QED
  BY <1>2, MadeJoined, MadeEmpty DEF Kinds, K

LEMMA SuspendMade ==
    ASSUME NEW nodes
    PROVE  Made(Do("pauseNode", nodes), Kinds("suspend"))
<1> DEFINE K == Kinds("suspend")
<1>0. K \subseteq Kind
  BY KindsOK DEF Name
<1>1. /\ "pauseNode" \in K
  BY KindsAre
<1> HIDE DEF K
<1>2. \A n \in Node : Made(<<<<"pauseNode", n>>>>, K)
  BY <1>0, <1>1, ArgsAre, Made1
<1> QED
  BY <1>2, EachMade DEF Do, K

LEMMA ResumeMade ==
    ASSUME NEW nodes
    PROVE  Made(Do("start", nodes), Kinds("resume"))
<1> DEFINE K == Kinds("resume")
<1>0. K \subseteq Kind
  BY KindsOK DEF Name
<1>1. /\ "start" \in K
  BY KindsAre
<1> HIDE DEF K
<1>2. \A n \in Node : Made(<<<<"start", n>>>>, K)
  BY <1>0, <1>1, ArgsAre, Made1
<1> QED
  BY <1>2, EachMade DEF Do, K

LEMMA DeleteMade ==
    ASSUME NEW nodes
    PROVE  Made(Do("delete", nodes), Kinds("delete"))
<1> DEFINE K == Kinds("delete")
<1>0. K \subseteq Kind
  BY KindsOK DEF Name
<1>1. /\ "delete" \in K
  BY KindsAre
<1> HIDE DEF K
<1>2. \A n \in Node : Made(<<<<"delete", n>>>>, K)
  BY <1>0, <1>1, ArgsAre, Made1
<1> QED
  BY <1>2, EachMade DEF Do, K

LEMMA PausesMade ==
    ASSUME NEW nodes
    PROVE  Made(Do("pause", nodes), Kinds("snapshot"))
<1> DEFINE K == Kinds("snapshot")
<1>0. K \subseteq Kind
  BY KindsOK DEF Name
<1>1. /\ "pause" \in K
  BY KindsAre
<1> HIDE DEF K
<1>2. \A n \in Node : Made(<<<<"pause", n>>>>, K)
  BY <1>0, <1>1, ArgsAre, Made1
<1> QED
  BY <1>2, EachMade DEF Do, K

LEMMA RestoreMade ==
    ASSUME NEW nodes
    PROVE  Made(Each(nodes,
                     [n \in Node |-> <<<<"restore", n>>, <<"start", n>>>>]),
                Kinds("restore"))
<1> DEFINE K == Kinds("restore")
<1>0. K \subseteq Kind
  BY KindsOK DEF Name
<1>1. /\ "restore" \in K /\ "start" \in K
  BY KindsAre
<1> HIDE DEF K
<1>2. \A n \in Node : Made(<<<<"restore", n>>, <<"start", n>>>>, K)
  BY <1>0, <1>1, ArgsAre, Made2
<1> QED
  BY <1>2, EachMade DEF K

\* What a snapshot does of a machine.
Retakes(w) == [n \in Node |-> IF w.snapshot[n].cut = None
                              THEN <<<<"snapshot", n>>>>
                              ELSE <<<<"drop", n>>, <<"snapshot", n>>>>]
LEMMA SnapshotMade ==
    ASSUME NEW w
    PROVE  Made(SnapshotNodes(w), Kinds("snapshot"))
<1> DEFINE K == Kinds("snapshot")
<1>0. K \subseteq Kind
  BY KindsOK DEF Name
<1>1. /\ "drop" \in K /\ "snapshot" \in K
  BY KindsAre
<1> HIDE DEF K
<1>2. \A n \in Node : /\ Made(<<<<"drop", n>>, <<"snapshot", n>>>>, K)
                      /\ Made(<<<<"snapshot", n>>>>, K)
  BY <1>0, <1>1, ArgsAre, Made1, Made2
<1> DEFINE a == Do("pause", In(w, {"running"}))
           b == Each(Existing(w), Retakes(w))
<1>3. Made(a, K)
  BY PausesMade DEF K
<1>4. Made(b, K)
  <2>1. \A n \in Node : Made(Retakes(w)[n], K)
    BY <1>2, Zenon DEF Retakes
  <2> QED
    BY <2>1, EachMade
<1>5. SnapshotNodes(w) = a \o b
  BY DEF SnapshotNodes, Retakes
<1> HIDE DEF a, b
<1> QED
  BY <1>3, <1>4, <1>5, MadeJoined DEF K

LEMMA ScriptMade ==
    ASSUME NEW w, NEW script \in Name
    PROVE  Made(Script(w, script), Kinds(script))
<1>1. CASE script = "create"
  <2>1. Script(w, "create") = CreateNodes(w, FALSE)
    BY DEF Script
  <2>2. Made(CreateNodes(w, FALSE), Kinds("create"))
    BY CreateMade
  <2> QED
    BY <1>1, <2>1, <2>2
<1>2. CASE script = "master"
  <2>1. Script(w, "master") = CreateNodes(w, TRUE)
    BY DEF Script
  <2>2. Made(CreateNodes(w, TRUE), Kinds("master"))
    BY CreateMade, KindsAre
  <2> QED
    BY <1>2, <2>1, <2>2
<1>3. CASE script = "cluster"
  <2>1. Script(w, "cluster") = ClusterCreate(FALSE)
    BY DEF Script
  <2>2. Made(ClusterCreate(FALSE), Kinds("cluster"))
    BY ClusterMade
  <2> QED
    BY <1>3, <2>1, <2>2
<1>4. CASE script = "masterCluster"
  <2>1. Script(w, "masterCluster") = ClusterCreate(TRUE)
    BY DEF Script
  <2>2. Made(ClusterCreate(TRUE), Kinds("masterCluster"))
    BY ClusterMade, KindsAre
  <2> QED
    BY <1>4, <2>1, <2>2
<1>5. CASE script = "pull"
  <2>1. Script(w, "pull") = PullKubeconfig
    BY DEF Script
  <2>2. Made(PullKubeconfig, Kinds("pull"))
    BY PullMade
  <2> QED
    BY <1>5, <2>1, <2>2
<1>6. CASE script = "infra"
  <2>1. Script(w, "infra") = Infra
    BY DEF Script
  <2>2. Made(Infra, Kinds("infra"))
    BY InfraMade
  <2> QED
    BY <1>6, <2>1, <2>2
<1>7. CASE script = "services"
  <2>1. Script(w, "services") = Services(w)
    BY DEF Script
  <2>2. Made(Services(w), Kinds("services"))
    BY ServicesMade
  <2> QED
    BY <1>7, <2>1, <2>2
<1>8. CASE script = "secret"
  <2>1. Script(w, "secret") = CreateSecret("minio")
    BY DEF Script
  <2>2. Made(CreateSecret("minio"), Kinds("secret"))
    BY SecretMade
  <2> QED
    BY <1>8, <2>1, <2>2
<1>9. CASE script = "zipkinSecret"
  <2>1. Script(w, "zipkinSecret") = CreateSecret("zipkin")
    BY DEF Script
  <2>2. Made(CreateSecret("zipkin"), Kinds("zipkinSecret"))
    BY SecretMade, KindsAre
  <2> QED
    BY <1>9, <2>1, <2>2
<1>10. CASE script = "user"
  <2>1. Script(w, "user") = MinioUserPolicy
    BY DEF Script
  <2>2. Made(MinioUserPolicy, Kinds("user"))
    BY UserMade
  <2> QED
    BY <1>10, <2>1, <2>2
<1>11. CASE script = "zipkin"
  <2>1. Script(w, "zipkin") = ZipkinUser
    BY DEF Script
  <2>2. Made(ZipkinUser, Kinds("zipkin"))
    BY ZipkinMade
  <2> QED
    BY <1>11, <2>1, <2>2
<1>12. CASE script = "image"
  <2>1. Script(w, "image") = LoadImage(w)
    BY DEF Script
  <2>2. Made(LoadImage(w), Kinds("image"))
    BY ImageMade
  <2> QED
    BY <1>12, <2>1, <2>2
<1>13. CASE script = "localCreate"
  <2>1. Script(w, "localCreate") = CreateLocalCluster
    BY DEF Script
  <2>2. Made(CreateLocalCluster, Kinds("localCreate"))
    BY LocalMade
  <2> QED
    BY <1>13, <2>1, <2>2
<1>14. CASE script = "forward"
  <2>1. Script(w, "forward") = PortForward
    BY DEF Script
  <2>2. Made(PortForward, Kinds("forward"))
    BY ForwardMade
  <2> QED
    BY <1>14, <2>1, <2>2
<1>15. CASE script = "localDelete"
  <2>1. Script(w, "localDelete") = <<<<"deleteStorage", "one">>,
                                     <<"deleteKind", "one">>>>
    BY DEF Script
  <2>2. Made(<<<<"deleteStorage", "one">>, <<"deleteKind", "one">>>>,
             Kinds("localDelete"))
    BY LocalDeleteMade
  <2> QED
    BY <1>15, <2>1, <2>2
<1>16. CASE script = "suspend"
  <2>1. Script(w, "suspend") = Do("pauseNode", In(w, {"running"}))
    BY DEF Script, NodeAction
  <2>2. Made(Do("pauseNode", In(w, {"running"})), Kinds("suspend"))
    BY SuspendMade
  <2> QED
    BY <1>16, <2>1, <2>2
<1>17. CASE script = "resume"
  <2>1. Script(w, "resume") = Do("start", In(w, {"stopped", "frozen"}))
    BY DEF Script, NodeAction
  <2>2. Made(Do("start", In(w, {"stopped", "frozen"})), Kinds("resume"))
    BY ResumeMade
  <2> QED
    BY <1>17, <2>1, <2>2
<1>18. CASE script = "restore"
  <2>1. Script(w, "restore") = Each(Existing(w),
                [n \in Node |-> <<<<"restore", n>>, <<"start", n>>>>])
    BY DEF Script, NodeAction
  <2>2. Made(Each(Existing(w),
                [n \in Node |-> <<<<"restore", n>>, <<"start", n>>>>]),
                Kinds("restore"))
    BY RestoreMade
  <2> QED
    BY <1>18, <2>1, <2>2
<1>19. CASE script = "delete"
  <2>1. Script(w, "delete") = Do("delete", Existing(w))
    BY DEF Script, NodeAction
  <2>2. Made(Do("delete", Existing(w)), Kinds("delete"))
    BY DeleteMade
  <2> QED
    BY <1>19, <2>1, <2>2
<1>20. CASE script = "snapshot"
  <2>1. Script(w, "snapshot") = SnapshotNodes(w)
    BY DEF Script, NodeAction
  <2>2. Made(SnapshotNodes(w), Kinds("snapshot"))
    BY SnapshotMade
  <2> QED
    BY <1>20, <2>1, <2>2
<1> QED
  BY <1>1, <1>2, <1>3, <1>4, <1>5, <1>6, <1>7, <1>8, <1>9, <1>10, <1>11,
     <1>12, <1>13, <1>14, <1>15, <1>16, <1>17, <1>18, <1>19, <1>20 DEF Name

-----------------------------------------------------------------------------
(* A command begins with all of its part ahead.                            *)

LEMMA Literals ==
    ASSUME NEW s1 \in Calls, NEW s2 \in Calls
    PROVE  /\ <<s1>> \in Seq(Calls) /\ ToSet(<<s1>>) = {s1}
           /\ <<s1, s2>> \in Seq(Calls) /\ ToSet(<<s1, s2>>) = {s1, s2}
<1> DEFINE t == <<s1>>
           u == <<s1, s2>>
<1>1. /\ t \in Seq(Calls) /\ Len(t) = 1 /\ t[1] = s1
      /\ u \in Seq(Calls) /\ Len(u) = 2 /\ u[1] = s1 /\ u[2] = s2
  OBVIOUS
<1> HIDE DEF t, u
<1>2. /\ \A x : x \in ToSet(t) <=> \E i \in 1 .. 1 : x = t[i]
      /\ \A x : x \in ToSet(u) <=> \E i \in 1 .. 2 : x = u[i]
  BY <1>1, Elements
<1>3. 1 .. 1 = {1} /\ 1 .. 2 = {1, 2}
  OBVIOUS
<1>4. ToSet(t) = {s1}
  BY <1>1, <1>2, <1>3
<1>5. ToSet(u) = {s1, s2}
  BY <1>1, <1>2, <1>3
<1> QED
  BY <1>1, <1>4, <1>5 DEF t, u

Between(t, a, b) ==
    /\ t \in Seq(Calls) /\ Sorted(t)
    /\ \A i \in 1 .. Len(t) : Rank(t[i]) \in a .. b

LEMMA BetweenEmpty == ASSUME NEW a, NEW b PROVE Between(<<>>, a, b)
<1>1. Len(<<>>) = 0 /\ <<>> \in Seq(Calls)
  BY Empty, EmptySeq
<1>2. \A i \in 1 .. 0 : FALSE
  OBVIOUS
<1> QED
  BY <1>1, <1>2 DEF Between, Sorted

LEMMA BetweenJoined ==
    ASSUME NEW t, NEW u, NEW a \in Nat, NEW b \in Nat, NEW c \in Nat,
           NEW d \in Nat, a <= b, b < c, c <= d, Between(t, a, b),
           Between(u, c, d)
    PROVE  Between(t \o u, a, d)
<1> DEFINE v == t \o u
           m == Len(t)
<1>1. /\ v \in Seq(Calls) /\ Len(v) = m + Len(u) /\ m \in Nat /\ Len(u) \in Nat
      /\ \A i \in 1 .. m + Len(u) : v[i] = IF i <= m THEN t[i] ELSE u[i - m]
  BY Joined, LenProperties DEF Between
<1> HIDE DEF v, m
<1>2. \A i \in 1 .. m + Len(u) : i <= m => i \in 1 .. m
  BY <1>1
<1>3. \A i \in 1 .. m + Len(u) : ~(i <= m) => i - m \in 1 .. Len(u)
  BY <1>1
<1>4. ASSUME NEW i \in 1 .. Len(v)
      PROVE  /\ i <= m => Rank(v[i]) = Rank(t[i]) /\ Rank(v[i]) \in a .. b
             /\ ~(i <= m) => /\ Rank(v[i]) = Rank(u[i - m])
                             /\ Rank(v[i]) \in c .. d
  BY <1>1, <1>2, <1>3 DEF Between, m
<1>5. ASSUME NEW i \in 1 .. Len(v), NEW j \in 1 .. Len(v), i < j
      PROVE  Rank(v[i]) < Rank(v[j])
  <2>1. CASE j <= m
    <3>1. i <= m /\ i \in 1 .. m /\ j \in 1 .. m
      BY <1>1, <1>5, <2>1
    <3>2. Rank(t[i]) < Rank(t[j])
      BY <1>5, <3>1 DEF Between, Sorted, m
    <3> QED
      BY <1>4, <2>1, <3>1, <3>2
  <2>2. CASE ~(j <= m) /\ i <= m
    <3>1. Rank(v[i]) \in a .. b /\ Rank(v[j]) \in c .. d
      BY <1>4, <2>2
    <3> QED
      BY <3>1
  <2>3. CASE ~(i <= m)
    <3>1. /\ ~(j <= m) /\ i - m < j - m
      BY <1>1, <1>5, <2>3
    <3>2. i - m \in 1 .. Len(u) /\ j - m \in 1 .. Len(u)
      BY <1>1, <1>3, <2>3, <3>1
    <3>3. Rank(u[i - m]) < Rank(u[j - m])
      BY <3>1, <3>2 DEF Between, Sorted
    <3> QED
      BY <1>4, <2>3, <3>1, <3>3
  <2> QED
    BY <2>1, <2>2, <2>3
<1>6. \A k : (k \in a .. b \/ k \in c .. d) => k \in a .. d
  OBVIOUS
<1> QED
  BY <1>1, <1>4, <1>5, <1>6 DEF Between, Sorted, v

LEMMA EachBetween ==
    ASSUME NEW nodes, NEW steps, NEW a \in Nat, NEW k \in Nat,
           Between(steps["master"], a, a + k),
           Between(steps["worker1"], a + k + 1, a + k + k + 1),
           Between(steps["worker2"], a + k + k + 2, a + k + k + k + 2)
    PROVE  Between(Each(nodes, steps), a, a + k + k + k + 2)
<1> DEFINE Of(n) == IF n \in nodes THEN steps[n] ELSE <<>>
           x == Of("master")
           y == Of("worker1")
           z == Of("worker2")
<1>1. /\ Between(x, a, a + k) /\ Between(y, a + k + 1, a + k + k + 1)
      /\ Between(z, a + k + k + 2, a + k + k + k + 2)
  BY BetweenEmpty
<1>2. Each(nodes, steps) = (x \o y) \o z
  BY DEF Each
<1> HIDE DEF x, y, z
<1>3. Between(x \o y, a, a + k + k + 1)
  BY <1>1, BetweenJoined
<1> DEFINE v == x \o y
<1> HIDE DEF v
<1>4. Between(v, a, a + k + k + 1)
  BY <1>3 DEF v
<1>5. Between(v \o z, a, a + k + k + k + 2)
  BY <1>1, <1>4, BetweenJoined
<1> QED
  BY <1>2, <1>5 DEF v

LEMMA Between1 ==
    ASSUME NEW s \in Calls, NEW a \in Nat, NEW b \in Nat, Rank(s) \in a .. b
    PROVE  Between(<<s>>, a, b)
<1> DEFINE t == <<s>>
<1>1. t \in Seq(Calls) /\ Len(t) = 1 /\ t[1] = s
  OBVIOUS
<1> HIDE DEF t
<1>2. \A i, j \in 1 .. 1 : i = 1 /\ ~(i < j)
  OBVIOUS
<1> QED
  BY <1>1, <1>2 DEF Between, Sorted, t

LEMMA Between2 ==
    ASSUME NEW s1 \in Calls, NEW s2 \in Calls, NEW a \in Nat,
           Rank(s1) = a, Rank(s2) = a + 1
    PROVE  Between(<<s1, s2>>, a, a + 1)
<1> DEFINE t == <<s1, s2>>
<1>1. t \in Seq(Calls) /\ Len(t) = 2 /\ t[1] = s1 /\ t[2] = s2
  OBVIOUS
<1> HIDE DEF t
<1>2. \A i, j \in 1 .. 2 : (i = 1 \/ i = 2) /\ (i < j => i = 1 /\ j = 2)
  OBVIOUS
<1>3. a \in a .. a + 1 /\ a + 1 \in a .. a + 1 /\ a < a + 1
  OBVIOUS
<1> QED
  BY <1>1, <1>2, <1>3 DEF Between, Sorted, t

LEMMA SnapshotSteps ==
    ASSUME NEW w
    PROVE  /\ Between(SnapshotNodes(w), 1, 9)
           /\ \A x : x \in ToSet(SnapshotNodes(w)) <=>
                 \/ \E n \in In(w, {"running"}) : x = <<"pause", n>>
                 \/ \E n \in Existing(w) : x \in ToSet(Retakes(w)[n])
           /\ \A n \in Node : ToSet(Retakes(w)[n]) =
                 IF w.snapshot[n].cut = None THEN {<<"snapshot", n>>}
                 ELSE {<<"drop", n>>, <<"snapshot", n>>}
<1>1. \A n \in Node : /\ <<"pause", n>> \in Calls /\ <<"drop", n>> \in Calls
                      /\ <<"snapshot", n>> \in Calls
  <2>1. "pause" \in Kind /\ "drop" \in Kind /\ "snapshot" \in Kind
    BY DEF Kind, MachineKind, CutKind
  <2>2. Node \subseteq Arg
    BY DEF Arg
  <2> QED
    BY <2>1, <2>2 DEF Calls
<1> DEFINE pauses == [n \in Node |-> <<<<"pause", n>>>>]
           a == Each(In(w, {"running"}), pauses)
           b == Each(Existing(w), Retakes(w))
<1>2. SnapshotNodes(w) = a \o b
  BY DEF SnapshotNodes, Retakes, Do
<1> HIDE DEF pauses
<1>3. \A n \in Node :
         pauses[n] \in Seq(Calls) /\ ToSet(pauses[n]) = {<<"pause", n>>}
  <2> SUFFICES ASSUME NEW n \in Node
               PROVE  pauses[n] \in Seq(Calls)
                      /\ ToSet(pauses[n]) = {<<"pause", n>>}
    OBVIOUS
  <2>1. pauses[n] = <<<<"pause", n>>>>
    BY DEF pauses
  <2> DEFINE s == <<"pause", n>>
  <2>2. s \in Calls /\ pauses[n] = <<s>>
    BY <1>1, <2>1
  <2> HIDE DEF s
  <2>3. pauses[n] \in Seq(Calls) /\ ToSet(pauses[n]) = {s}
    BY <2>2, Literals
  <2> QED
    BY <2>3 DEF s
<1>4. \A n \in Node : Retakes(w)[n] \in Seq(Calls) /\ ToSet(Retakes(w)[n]) =
                 IF w.snapshot[n].cut = None THEN {<<"snapshot", n>>}
                 ELSE {<<"drop", n>>, <<"snapshot", n>>}
  <2> SUFFICES ASSUME NEW n \in Node
               PROVE  /\ Retakes(w)[n] \in Seq(Calls)
                      /\ ToSet(Retakes(w)[n]) =
                            IF w.snapshot[n].cut = None
                            THEN {<<"snapshot", n>>}
                            ELSE {<<"drop", n>>, <<"snapshot", n>>}
    OBVIOUS
  <2> DEFINE s == <<"drop", n>>
             u == <<"snapshot", n>>
  <2>1. /\ s \in Calls /\ u \in Calls
        /\ Retakes(w)[n] = IF w.snapshot[n].cut = None THEN <<u>> ELSE <<s, u>>
    BY <1>1 DEF Retakes
  <2> HIDE DEF s, u
  <2>2. /\ Retakes(w)[n] \in Seq(Calls)
        /\ ToSet(Retakes(w)[n]) =
              IF w.snapshot[n].cut = None THEN {u} ELSE {s, u}
    <3>1. CASE w.snapshot[n].cut = None
      BY <2>1, <3>1, Literals
    <3>2. CASE w.snapshot[n].cut # None
      BY <2>1, <3>2, Literals
    <3> QED
      BY <3>1, <3>2
  <2> QED
    BY <2>2 DEF s, u
<1>5. In(w, {"running"}) \in SUBSET Node /\ Existing(w) \in SUBSET Node
  BY DEF In, Existing
<1>6. \A n \in Node : /\ Rank(<<"pause", n>>) = Position(n)
                      /\ Rank(<<"drop", n>>) = 2 + 2 * Position(n)
                      /\ Rank(<<"snapshot", n>>) = 3 + 2 * Position(n)
  BY DEF Rank
<1>7. /\ Position("master") = 1 /\ Position("worker1") = 2
      /\ Position("worker2") = 3
  BY DEF Position
<1>8. "master" \in Node /\ "worker1" \in Node /\ "worker2" \in Node
  BY DEF Node
<1>9. Between(a, 1, 3)
  <2>1. /\ Between(pauses["master"], 1, 1) /\ Between(pauses["worker1"], 2, 2)
        /\ Between(pauses["worker2"], 3, 3)
    <3>1. \A n \in Node : pauses[n] = <<<<"pause", n>>>>
      BY DEF pauses
    <3>2. 1 \in 1 .. 1 /\ 2 \in 2 .. 2 /\ 3 \in 3 .. 3
      OBVIOUS
    <3> QED
      BY <1>1, <1>6, <1>7, <1>8, <3>1, <3>2, Between1
  <2>2. /\ 1 + 0 = 1 /\ 1 + 0 + 1 = 2 /\ 1 + 0 + 0 + 1 = 2 /\ 1 + 0 + 0 + 2 = 3
        /\ 1 + 0 + 0 + 0 + 2 = 3 /\ 0 \in Nat /\ 1 \in Nat
    OBVIOUS
  <2> QED
    BY <2>1, <2>2, EachBetween
<1>10. Between(b, 4, 9)
  <2>1. /\ Between(Retakes(w)["master"], 4, 5)
        /\ Between(Retakes(w)["worker1"], 6, 7)
        /\ Between(Retakes(w)["worker2"], 8, 9)
    <3>1. \A n \in Node : \/ Retakes(w)[n] = <<<<"snapshot", n>>>>
                          \/ Retakes(w)[n] =
                                <<<<"drop", n>>, <<"snapshot", n>>>>
      BY DEF Retakes
    <3>5. 2 + 2 * 1 = 4 /\ 2 + 2 * 2 = 6 /\ 2 + 2 * 3 = 8
          /\ 3 + 2 * 1 = 5 /\ 3 + 2 * 2 = 7 /\ 3 + 2 * 3 = 9
      OBVIOUS
    <3>2. /\ Rank(<<"drop", "master">>) = 4
          /\ Rank(<<"snapshot", "master">>) = 5
          /\ Rank(<<"drop", "worker1">>) = 6
          /\ Rank(<<"snapshot", "worker1">>) = 7
          /\ Rank(<<"drop", "worker2">>) = 8
          /\ Rank(<<"snapshot", "worker2">>) = 9
      BY <1>6, <1>7, <1>8, <3>5
    <3>3. /\ 5 \in 4 .. 5 /\ 7 \in 6 .. 7 /\ 9 \in 8 .. 9
          /\ 4 + 1 = 5 /\ 6 + 1 = 7 /\ 8 + 1 = 9
      OBVIOUS
    <3>4. \A n \in Node, c \in {4, 6, 8} :
             Rank(<<"drop", n>>) = c /\ Rank(<<"snapshot", n>>) = c + 1 =>
                /\ Between(<<<<"snapshot", n>>>>, c, c + 1)
                /\ Between(<<<<"drop", n>>, <<"snapshot", n>>>>, c, c + 1)
      <4> SUFFICES ASSUME NEW n \in Node, NEW c \in {4, 6, 8},
                          Rank(<<"drop", n>>) = c,
                          Rank(<<"snapshot", n>>) = c + 1
                   PROVE  /\ Between(<<<<"snapshot", n>>>>, c, c + 1)
                          /\ Between(<<<<"drop", n>>, <<"snapshot", n>>>>, c,
                                     c + 1)
        OBVIOUS
      <4>1. c + 1 \in c .. c + 1 /\ c \in Nat /\ c + 1 \in Nat
        OBVIOUS
      <4> QED
        BY <1>1, <4>1, Between1, Between2
    <3> QED
      BY <1>8, <3>1, <3>2, <3>3, <3>4
  <2>2. /\ 4 + 1 = 5 /\ 4 + 1 + 1 = 6 /\ 4 + 1 + 1 + 1 = 7 /\ 4 + 1 + 1 + 2 = 8
        /\ 4 + 1 + 1 + 1 + 2 = 9 /\ 4 \in Nat /\ 1 \in Nat
    OBVIOUS
  <2> QED
    BY <2>1, <2>2, EachBetween
<1>11. \A x : x \in ToSet(a) <=>
                 \E n \in In(w, {"running"}) : x = <<"pause", n>>
  <2>1. \A n \in Node : pauses[n] \in Seq(Calls)
    BY <1>3
  <2>2. \A n \in Node : \A x : x \in ToSet(pauses[n]) <=> x = <<"pause", n>>
    BY <1>3
  <2>3. \A x : x \in ToSet(a) <=>
           \E n \in In(w, {"running"}) : x \in ToSet(pauses[n])
    BY <1>5, <2>1, EachHas
  <2> QED
    BY <1>5, <2>2, <2>3
<1>12. \A x : x \in ToSet(b) <=>
                 \E n \in Existing(w) : x \in ToSet(Retakes(w)[n])
  BY <1>4, <1>5, EachHas
<1> HIDE DEF a, b
<1>13. Between(a \o b, 1, 9)
  BY <1>9, <1>10, BetweenJoined
<1>14. ToSet(a \o b) = ToSet(a) \cup ToSet(b)
  BY <1>9, <1>10, Joined DEF Between
<1> QED
  BY <1>2, <1>4, <1>11, <1>12, <1>13, <1>14

LEMMA SnapshotBegins ==
    ASSUME NEW w, NEW v, NEW r, r.owed = <<>>,
           \A n \in Node : n \notin r.missed => v.vm[n] = w.vm[n],
           \A n \in Existing(w) : v.vm[n] = w.vm[n]
    PROVE  SnapshotAhead(v, r, SnapshotNodes(w))
<1> DEFINE t == SnapshotNodes(w)
<1>1. /\ Between(t, 1, 9)
      /\ \A x : x \in ToSet(t) <=>
            \/ \E n \in In(w, {"running"}) : x = <<"pause", n>>
            \/ \E n \in Existing(w) : x \in ToSet(Retakes(w)[n])
      /\ \A n \in Node : ToSet(Retakes(w)[n]) =
            IF w.snapshot[n].cut = None THEN {<<"snapshot", n>>}
            ELSE {<<"drop", n>>, <<"snapshot", n>>}
  BY SnapshotSteps
<1> HIDE DEF t
<1>2. Sorted(t)
  BY <1>1 DEF Between
<1>3. In(w, {"running"}) \subseteq Existing(w) /\ Existing(w) \subseteq Node
  BY DEF In, Existing
<1>4. ASSUME NEW s \in ToSet(t) PROVE s[2] \in Existing(w)
  <2>1. \E n \in Existing(w) :
           s \in {<<"pause", n>>, <<"drop", n>>, <<"snapshot", n>>}
    <3>1. CASE \E n \in In(w, {"running"}) : s = <<"pause", n>>
      BY <1>3, <3>1, Zenon
    <3>2. CASE \E n \in Existing(w) : s \in ToSet(Retakes(w)[n])
      <4>1. PICK n \in Existing(w) : s \in ToSet(Retakes(w)[n])
        BY <3>2
      <4>2. s \in {<<"drop", n>>, <<"snapshot", n>>}
        BY <1>1, <1>3, <4>1, Zenon
      <4> QED
        BY <4>1, <4>2, Zenon
    <3> QED
      BY <1>1, <3>1, <3>2, Zenon
  <2> QED
    BY <2>1
<1>5. Exists(v, t)
  BY <1>4 DEF Exists, Existing
<1>6. Exists(v, r.owed)
  BY Empty DEF Exists
<1>7. ASSUME r.missed = {}, NEW n \in Node
      PROVE  /\ v.vm[n] = "running" => <<"pause", n>> \in ToSet(t)
             /\ <<"drop", n>> \in ToSet(t) => <<"snapshot", n>> \in ToSet(t)
             /\ v.vm[n] # "absent" => <<"snapshot", n>> \in ToSet(t)
  <2>1. v.vm[n] = "running" => <<"pause", n>> \in ToSet(t)
    BY <1>1, <1>7 DEF In
  <2>2. n \in Existing(w) => <<"snapshot", n>> \in ToSet(t)
    BY <1>1, <1>3
  <2>3. v.vm[n] # "absent" => n \in Existing(w)
    BY <1>7 DEF Existing
  <2>4. <<"drop", n>> \in ToSet(t) => n \in Existing(w)
    BY <1>4
  <2> QED
    BY <2>1, <2>2, <2>3, <2>4
<1> QED
  BY <1>2, <1>5, <1>6, <1>7 DEF SnapshotAhead, t

LEMMA RestoreBegins ==
    ASSUME NEW w, NEW v, NEW r,
           \A n \in Node : n \notin r.missed => v.vm[n] = w.vm[n],
           \A n \in Existing(w) : v.vm[n] = w.vm[n]
    PROVE  RestoreAhead(v, r, NodeAction(w, "restore"))
<1> DEFINE steps == [n \in Node |-> <<<<"restore", n>>, <<"start", n>>>>]
           t == Each(Existing(w), steps)
<1>1. NodeAction(w, "restore") = t
  BY DEF NodeAction
<1> HIDE DEF steps
<1>2. ASSUME NEW n \in Node
      PROVE  /\ steps[n] \in Seq(Calls)
             /\ ToSet(steps[n]) = {<<"restore", n>>, <<"start", n>>}
  <2>1. "restore" \in Kind /\ "start" \in Kind /\ n \in Arg
    BY DEF Kind, MachineKind, CutKind, Arg
  <2> DEFINE s == <<"restore", n>>
             u == <<"start", n>>
  <2>2. s \in Calls /\ u \in Calls /\ steps[n] = <<s, u>>
    BY <2>1, ACall DEF steps
  <2> HIDE DEF s, u
  <2>3. steps[n] \in Seq(Calls) /\ ToSet(steps[n]) = {s, u}
    BY <2>2, Literals
  <2> QED
    BY <2>3 DEF s, u
<1>3. Existing(w) \in SUBSET Node
  BY DEF Existing
<1>4. \A x : x \in ToSet(t) <=> \E n \in Existing(w) : x \in ToSet(steps[n])
  BY <1>2, <1>3, EachHas
<1> HIDE DEF t
<1>5. \A x : x \in ToSet(t) <=>
         \E n \in Existing(w) : x = <<"restore", n>> \/ x = <<"start", n>>
  BY <1>2, <1>3, <1>4
<1>6. ASSUME NEW s \in ToSet(t) PROVE s[2] \in Existing(w)
  <2>1. PICK n \in Existing(w) : s = <<"restore", n>> \/ s = <<"start", n>>
    BY <1>5
  <2> QED
    BY <2>1
<1>7. Exists(v, t)
  BY <1>6 DEF Exists, Existing
<1>8. \A n \in Node \ r.missed :
         v.vm[n] = "absent" \/ <<"restore", n>> \in ToSet(t)
  BY <1>5 DEF Existing
<1> QED
  BY <1>1, <1>7, <1>8 DEF RestoreAhead

\* c has the elements of a, which are m, and then those of b, which are k.
Fits(a, b, c, m, k) ==
    /\ a \in Seq(Calls) /\ b \in Seq(Calls) /\ c \in Seq(Calls)
    /\ Len(a) = m /\ Len(b) = k /\ Len(c) = m + k
    /\ \A i \in 1 .. m : c[i] = a[i]
    /\ \A i \in 1 .. k : c[m + i] = b[i]

LEMMA Glued ==
    ASSUME NEW a, NEW b, NEW c, NEW m, NEW k, Fits(a, b, c, m, k)
    PROVE  a \o b = c
<1> DEFINE S == Calls
<1>0. /\ a \in Seq(S) /\ b \in Seq(S) /\ c \in Seq(S)
      /\ Len(c) = Len(a) + Len(b)
      /\ \A i \in 1 .. Len(a) : c[i] = a[i]
      /\ \A i \in 1 .. Len(b) : c[Len(a) + i] = b[i]
  BY DEF Fits
<1> HIDE DEF S
<1> DEFINE d == a \o b
<1>1. /\ d \in Seq(S) /\ Len(d) = Len(a) + Len(b)
      /\ Len(a) \in Nat /\ Len(b) \in Nat
      /\ \A i \in 1 .. Len(a) + Len(b) :
            d[i] = IF i <= Len(a) THEN a[i] ELSE b[i - Len(a)]
  BY <1>0, Joined, LenProperties
<1> HIDE DEF d
<1>2. ASSUME NEW i \in 1 .. Len(c) PROVE d[i] = c[i]
  <2>1. CASE i <= Len(a)
    <3>1. i \in 1 .. Len(a)
      BY <1>0, <1>1, <2>1
    <3> QED
      BY <1>0, <1>1, <2>1, <3>1
  <2>2. CASE ~(i <= Len(a))
    <3>1. i - Len(a) \in 1 .. Len(b) /\ Len(a) + (i - Len(a)) = i
      BY <1>0, <1>1, <2>2
    <3>2. c[Len(a) + (i - Len(a))] = b[i - Len(a)]
      BY <1>0, <3>1
    <3> QED
      BY <1>0, <1>1, <2>2, <3>1, <3>2
  <2> QED
    BY <2>1, <2>2
<1>3. d \in [1 .. Len(c) -> S] /\ c \in [1 .. Len(c) -> S]
  BY <1>0, <1>1, LenProperties
<1>4. d = [i \in 1 .. Len(c) |-> d[i]] /\ c = [i \in 1 .. Len(c) |-> c[i]]
  BY <1>3
<1>5. d = c
  BY <1>2, <1>4
<1> QED
  BY <1>5 DEF d

LEMMA CallsAre ==
    /\ <<"readElastic", "one">> \in Calls
    /\ <<"copyElastic", "one">> \in Calls
    /\ <<"judge", "tenantReady">> \in Calls
    /\ <<"configure", "one">> \in Calls /\ <<"bucket", "one">> \in Calls
    /\ <<"judge", "bucket">> \in Calls /\ <<"removeFiles", "one">> \in Calls
    /\ <<"secret", "minio">> \in Calls /\ <<"secretCopy", "minio">> \in Calls
    /\ <<"readMinio", "one">> \in Calls /\ <<"import", "one">> \in Calls
    /\ <<"judge", "confirmed">> \in Calls /\ <<"saveImage", "one">> \in Calls
    /\ <<"pushArchive", "master">> \in Calls
    /\ <<"importImage", "master">> \in Calls
    /\ <<"removeArchive", "master">> \in Calls
    /\ <<"pushArchive", "worker1">> \in Calls
    /\ <<"importImage", "worker1">> \in Calls
    /\ <<"removeArchive", "worker1">> \in Calls
    /\ <<"pushArchive", "worker2">> \in Calls
    /\ <<"importImage", "worker2">> \in Calls
    /\ <<"removeArchive", "worker2">> \in Calls
    /\ <<"redeploy", "one">> \in Calls /\ <<"judge", "available">> \in Calls
<1>1. "readElastic" \in Kind /\ "one" \in Arg
  BY DEF Kind, MachineKind, CutKind, DebtKind, OtherKind, Arg, Node
<1>2. "copyElastic" \in Kind /\ "one" \in Arg
  BY DEF Kind, MachineKind, CutKind, DebtKind, OtherKind, Arg, Node
<1>3. "judge" \in Kind /\ "tenantReady" \in Arg
  BY DEF Kind, MachineKind, CutKind, DebtKind, OtherKind, Arg, Node
<1>4. "configure" \in Kind /\ "one" \in Arg
  BY DEF Kind, MachineKind, CutKind, DebtKind, OtherKind, Arg, Node
<1>5. "bucket" \in Kind /\ "one" \in Arg
  BY DEF Kind, MachineKind, CutKind, DebtKind, OtherKind, Arg, Node
<1>6. "judge" \in Kind /\ "bucket" \in Arg
  BY DEF Kind, MachineKind, CutKind, DebtKind, OtherKind, Arg, Node
<1>7. "removeFiles" \in Kind /\ "one" \in Arg
  BY DEF Kind, MachineKind, CutKind, DebtKind, OtherKind, Arg, Node
<1>8. "secret" \in Kind /\ "minio" \in Arg
  BY DEF Kind, MachineKind, CutKind, DebtKind, OtherKind, Arg, Node
<1>9. "secretCopy" \in Kind /\ "minio" \in Arg
  BY DEF Kind, MachineKind, CutKind, DebtKind, OtherKind, Arg, Node
<1>10. "readMinio" \in Kind /\ "one" \in Arg
  BY DEF Kind, MachineKind, CutKind, DebtKind, OtherKind, Arg, Node
<1>11. "import" \in Kind /\ "one" \in Arg
  BY DEF Kind, MachineKind, CutKind, DebtKind, OtherKind, Arg, Node
<1>12. "judge" \in Kind /\ "confirmed" \in Arg
  BY DEF Kind, MachineKind, CutKind, DebtKind, OtherKind, Arg, Node
<1>13. "saveImage" \in Kind /\ "one" \in Arg
  BY DEF Kind, MachineKind, CutKind, DebtKind, OtherKind, Arg, Node
<1>14. "pushArchive" \in Kind /\ "master" \in Arg
  BY DEF Kind, MachineKind, CutKind, DebtKind, OtherKind, Arg, Node
<1>15. "importImage" \in Kind /\ "master" \in Arg
  BY DEF Kind, MachineKind, CutKind, DebtKind, OtherKind, Arg, Node
<1>16. "removeArchive" \in Kind /\ "master" \in Arg
  BY DEF Kind, MachineKind, CutKind, DebtKind, OtherKind, Arg, Node
<1>17. "pushArchive" \in Kind /\ "worker1" \in Arg
  BY DEF Kind, MachineKind, CutKind, DebtKind, OtherKind, Arg, Node
<1>18. "importImage" \in Kind /\ "worker1" \in Arg
  BY DEF Kind, MachineKind, CutKind, DebtKind, OtherKind, Arg, Node
<1>19. "removeArchive" \in Kind /\ "worker1" \in Arg
  BY DEF Kind, MachineKind, CutKind, DebtKind, OtherKind, Arg, Node
<1>20. "pushArchive" \in Kind /\ "worker2" \in Arg
  BY DEF Kind, MachineKind, CutKind, DebtKind, OtherKind, Arg, Node
<1>21. "importImage" \in Kind /\ "worker2" \in Arg
  BY DEF Kind, MachineKind, CutKind, DebtKind, OtherKind, Arg, Node
<1>22. "removeArchive" \in Kind /\ "worker2" \in Arg
  BY DEF Kind, MachineKind, CutKind, DebtKind, OtherKind, Arg, Node
<1>23. "redeploy" \in Kind /\ "one" \in Arg
  BY DEF Kind, MachineKind, CutKind, DebtKind, OtherKind, Arg, Node
<1>24. "judge" \in Kind /\ "available" \in Arg
  BY DEF Kind, MachineKind, CutKind, DebtKind, OtherKind, Arg, Node
<1> QED
  BY <1>1, <1>2, <1>3, <1>4, <1>5, <1>6, <1>7, <1>8, <1>9, <1>10, <1>11,
     <1>12, <1>13, <1>14, <1>15, <1>16, <1>17, <1>18, <1>19, <1>20, <1>21,
     <1>22, <1>23, <1>24, ACall

LEMMA ServicesLiteral ==
    ASSUME NEW w, Existing(w) = Node PROVE Services(w) = ServicesSteps
<1> DEFINE steps == [n \in Node |-> <<<<"pushArchive", n>>,
                                      <<"importImage", n>>,
                                      <<"removeArchive", n>>>>]
<1>1. /\ "master" \in Node /\ "worker1" \in Node /\ "worker2" \in Node
  BY DEF Node
<1>2. Each(Node, steps) =
        (<<<<"pushArchive", "master">>, <<"importImage", "master">>,
           <<"removeArchive", "master">>>>
           \o <<<<"pushArchive", "worker1">>, <<"importImage", "worker1">>,
                <<"removeArchive", "worker1">>>>)
           \o <<<<"pushArchive", "worker2">>, <<"importImage", "worker2">>,
                <<"removeArchive", "worker2">>>>
  BY <1>1, Zenon DEF Each
<1>3. LoadImage(w) = <<<<"saveImage", "one">>>> \o Each(Node, steps)
  BY Zenon DEF LoadImage
<1> DEFINE
  s1 == <<"readElastic", "one">>
  s2 == <<"copyElastic", "one">>
  s3 == <<"judge", "tenantReady">>
  s4 == <<"configure", "one">>
  s5 == <<"bucket", "one">>
  s6 == <<"judge", "bucket">>
  s7 == <<"removeFiles", "one">>
  s8 == <<"secret", "minio">>
  s9 == <<"secretCopy", "minio">>
  s10 == <<"judge", "tenantReady">>
  s11 == <<"readMinio", "one">>
  s12 == <<"configure", "one">>
  s13 == <<"import", "one">>
  s14 == <<"judge", "confirmed">>
  s15 == <<"removeFiles", "one">>
  s16 == <<"saveImage", "one">>
  s17 == <<"pushArchive", "master">>
  s18 == <<"importImage", "master">>
  s19 == <<"removeArchive", "master">>
  s20 == <<"pushArchive", "worker1">>
  s21 == <<"importImage", "worker1">>
  s22 == <<"removeArchive", "worker1">>
  s23 == <<"pushArchive", "worker2">>
  s24 == <<"importImage", "worker2">>
  s25 == <<"removeArchive", "worker2">>
  s26 == <<"redeploy", "one">>
  s27 == <<"judge", "available">>
<1>4. /\ s1 \in Calls /\ s2 \in Calls /\ s3 \in Calls /\ s4 \in Calls
      /\ s5 \in Calls /\ s6 \in Calls /\ s7 \in Calls /\ s8 \in Calls
      /\ s9 \in Calls /\ s10 \in Calls /\ s11 \in Calls /\ s12 \in Calls
      /\ s13 \in Calls /\ s14 \in Calls /\ s15 \in Calls /\ s16 \in Calls
      /\ s17 \in Calls /\ s18 \in Calls /\ s19 \in Calls /\ s20 \in Calls
      /\ s21 \in Calls /\ s22 \in Calls /\ s23 \in Calls /\ s24 \in Calls
      /\ s25 \in Calls /\ s26 \in Calls /\ s27 \in Calls
  BY CallsAre
<1>5. Services(w) =
          ((((<<s1, s2>> \o (<<s3>> \o <<s4, s5, s6, s7>>)) \o <<s8, s9>>)
          \o (<<s10>> \o <<s11, s12, s13, s14, s15>>)) \o (<<s16>> \o
          ((<<s17, s18, s19>> \o <<s20, s21, s22>>) \o <<s23, s24, s25>>)))
          \o <<s26, s27>>
  BY <1>2, <1>3, Zenon
     DEF Services, CopySecret, MinioBucket, CreateSecret, MinioUserPolicy,
         TenantReady
<1>6. ServicesSteps = <<s1, s2, s3, s4, s5, s6, s7, s8, s9, s10, s11, s12,
                      s13, s14, s15, s16, s17, s18, s19, s20, s21, s22, s23,
                      s24, s25, s26, s27>>
  BY DEF ServicesSteps
<1> HIDE DEF s1, s2, s3, s4, s5, s6, s7, s8, s9, s10, s11, s12, s13, s14,
       s15, s16, s17, s18, s19, s20, s21, s22, s23, s24, s25, s26, s27
<1>7. ((((<<s1, s2>> \o (<<s3>> \o <<s4, s5, s6, s7>>)) \o <<s8, s9>>) \o
      (<<s10>> \o <<s11, s12, s13, s14, s15>>)) \o (<<s16>> \o ((<<s17, s18,
      s19>> \o <<s20, s21, s22>>) \o <<s23, s24, s25>>))) \o <<s26, s27>>
         = <<s1, s2, s3, s4, s5, s6, s7, s8, s9, s10, s11, s12, s13, s14,
           s15, s16, s17, s18, s19, s20, s21, s22, s23, s24, s25, s26, s27>>
  <2> DEFINE
    t1t2 ==
        <<s1, s2>>
    t1t7 ==
        <<s1, s2, s3, s4, s5, s6, s7>>
    t1t9 ==
        <<s1, s2, s3, s4, s5, s6, s7, s8, s9>>
    t1t15 ==
        <<s1, s2, s3, s4, s5, s6, s7, s8, s9, s10, s11, s12, s13, s14, s15>>
    t1t25 ==
        <<s1, s2, s3, s4, s5, s6, s7, s8, s9, s10, s11, s12, s13, s14, s15,
        s16, s17, s18, s19, s20, s21, s22, s23, s24, s25>>
    t1t27 ==
        <<s1, s2, s3, s4, s5, s6, s7, s8, s9, s10, s11, s12, s13, s14, s15,
        s16, s17, s18, s19, s20, s21, s22, s23, s24, s25, s26, s27>>
    t3t3 ==
        <<s3>>
    t3t7 ==
        <<s3, s4, s5, s6, s7>>
    t4t7 ==
        <<s4, s5, s6, s7>>
    t8t9 ==
        <<s8, s9>>
    t10t10 ==
        <<s10>>
    t10t15 ==
        <<s10, s11, s12, s13, s14, s15>>
    t11t15 ==
        <<s11, s12, s13, s14, s15>>
    t16t16 ==
        <<s16>>
    t16t25 ==
        <<s16, s17, s18, s19, s20, s21, s22, s23, s24, s25>>
    t17t19 ==
        <<s17, s18, s19>>
    t17t22 ==
        <<s17, s18, s19, s20, s21, s22>>
    t17t25 ==
        <<s17, s18, s19, s20, s21, s22, s23, s24, s25>>
    t20t22 ==
        <<s20, s21, s22>>
    t23t25 ==
        <<s23, s24, s25>>
    t26t27 ==
        <<s26, s27>>
  <2>1. /\ t1t2 \in Seq(Calls) /\ Len(t1t2) = 2
        /\ t1t2[1] = s1 /\ t1t2[2] = s2
    BY <1>4
  <2>2. /\ t1t7 \in Seq(Calls) /\ Len(t1t7) = 7
        /\ t1t7[1] = s1 /\ t1t7[2] = s2 /\ t1t7[3] = s3 /\ t1t7[4] = s4
        /\ t1t7[5] = s5 /\ t1t7[6] = s6 /\ t1t7[7] = s7
    BY <1>4
  <2>3. /\ t1t9 \in Seq(Calls) /\ Len(t1t9) = 9
        /\ t1t9[1] = s1 /\ t1t9[2] = s2 /\ t1t9[3] = s3 /\ t1t9[4] = s4
        /\ t1t9[5] = s5 /\ t1t9[6] = s6 /\ t1t9[7] = s7 /\ t1t9[8] = s8
        /\ t1t9[9] = s9
    BY <1>4
  <2>4. /\ t1t15 \in Seq(Calls) /\ Len(t1t15) = 15
        /\ t1t15[1] = s1 /\ t1t15[2] = s2 /\ t1t15[3] = s3 /\ t1t15[4] = s4
        /\ t1t15[5] = s5 /\ t1t15[6] = s6 /\ t1t15[7] = s7 /\ t1t15[8] = s8
        /\ t1t15[9] = s9 /\ t1t15[10] = s10 /\ t1t15[11] = s11
        /\ t1t15[12] = s12 /\ t1t15[13] = s13 /\ t1t15[14] = s14
        /\ t1t15[15] = s15
    BY <1>4
  <2>5. /\ t1t25 \in Seq(Calls) /\ Len(t1t25) = 25
        /\ t1t25[1] = s1 /\ t1t25[2] = s2 /\ t1t25[3] = s3 /\ t1t25[4] = s4
        /\ t1t25[5] = s5 /\ t1t25[6] = s6 /\ t1t25[7] = s7 /\ t1t25[8] = s8
        /\ t1t25[9] = s9 /\ t1t25[10] = s10 /\ t1t25[11] = s11
        /\ t1t25[12] = s12 /\ t1t25[13] = s13 /\ t1t25[14] = s14
        /\ t1t25[15] = s15 /\ t1t25[16] = s16 /\ t1t25[17] = s17
        /\ t1t25[18] = s18 /\ t1t25[19] = s19 /\ t1t25[20] = s20
        /\ t1t25[21] = s21 /\ t1t25[22] = s22 /\ t1t25[23] = s23
        /\ t1t25[24] = s24 /\ t1t25[25] = s25
    BY <1>4
  <2>6. /\ t1t27 \in Seq(Calls) /\ Len(t1t27) = 27
        /\ t1t27[1] = s1 /\ t1t27[2] = s2 /\ t1t27[3] = s3 /\ t1t27[4] = s4
        /\ t1t27[5] = s5 /\ t1t27[6] = s6 /\ t1t27[7] = s7 /\ t1t27[8] = s8
        /\ t1t27[9] = s9 /\ t1t27[10] = s10 /\ t1t27[11] = s11
        /\ t1t27[12] = s12 /\ t1t27[13] = s13 /\ t1t27[14] = s14
        /\ t1t27[15] = s15 /\ t1t27[16] = s16 /\ t1t27[17] = s17
        /\ t1t27[18] = s18 /\ t1t27[19] = s19 /\ t1t27[20] = s20
        /\ t1t27[21] = s21 /\ t1t27[22] = s22 /\ t1t27[23] = s23
        /\ t1t27[24] = s24 /\ t1t27[25] = s25 /\ t1t27[26] = s26
        /\ t1t27[27] = s27
    BY <1>4
  <2>7. /\ t3t3 \in Seq(Calls) /\ Len(t3t3) = 1
        /\ t3t3[1] = s3
    BY <1>4
  <2>8. /\ t3t7 \in Seq(Calls) /\ Len(t3t7) = 5
        /\ t3t7[1] = s3 /\ t3t7[2] = s4 /\ t3t7[3] = s5 /\ t3t7[4] = s6
        /\ t3t7[5] = s7
    BY <1>4
  <2>9. /\ t4t7 \in Seq(Calls) /\ Len(t4t7) = 4
        /\ t4t7[1] = s4 /\ t4t7[2] = s5 /\ t4t7[3] = s6 /\ t4t7[4] = s7
    BY <1>4
  <2>10. /\ t8t9 \in Seq(Calls) /\ Len(t8t9) = 2
        /\ t8t9[1] = s8 /\ t8t9[2] = s9
    BY <1>4
  <2>11. /\ t10t10 \in Seq(Calls) /\ Len(t10t10) = 1
        /\ t10t10[1] = s10
    BY <1>4
  <2>12. /\ t10t15 \in Seq(Calls) /\ Len(t10t15) = 6
        /\ t10t15[1] = s10 /\ t10t15[2] = s11 /\ t10t15[3] = s12
        /\ t10t15[4] = s13 /\ t10t15[5] = s14 /\ t10t15[6] = s15
    BY <1>4
  <2>13. /\ t11t15 \in Seq(Calls) /\ Len(t11t15) = 5
        /\ t11t15[1] = s11 /\ t11t15[2] = s12 /\ t11t15[3] = s13
        /\ t11t15[4] = s14 /\ t11t15[5] = s15
    BY <1>4
  <2>14. /\ t16t16 \in Seq(Calls) /\ Len(t16t16) = 1
        /\ t16t16[1] = s16
    BY <1>4
  <2>15. /\ t16t25 \in Seq(Calls) /\ Len(t16t25) = 10
        /\ t16t25[1] = s16 /\ t16t25[2] = s17 /\ t16t25[3] = s18
        /\ t16t25[4] = s19 /\ t16t25[5] = s20 /\ t16t25[6] = s21
        /\ t16t25[7] = s22 /\ t16t25[8] = s23 /\ t16t25[9] = s24
        /\ t16t25[10] = s25
    BY <1>4
  <2>16. /\ t17t19 \in Seq(Calls) /\ Len(t17t19) = 3
        /\ t17t19[1] = s17 /\ t17t19[2] = s18 /\ t17t19[3] = s19
    BY <1>4
  <2>17. /\ t17t22 \in Seq(Calls) /\ Len(t17t22) = 6
        /\ t17t22[1] = s17 /\ t17t22[2] = s18 /\ t17t22[3] = s19
        /\ t17t22[4] = s20 /\ t17t22[5] = s21 /\ t17t22[6] = s22
    BY <1>4
  <2>18. /\ t17t25 \in Seq(Calls) /\ Len(t17t25) = 9
        /\ t17t25[1] = s17 /\ t17t25[2] = s18 /\ t17t25[3] = s19
        /\ t17t25[4] = s20 /\ t17t25[5] = s21 /\ t17t25[6] = s22
        /\ t17t25[7] = s23 /\ t17t25[8] = s24 /\ t17t25[9] = s25
    BY <1>4
  <2>19. /\ t20t22 \in Seq(Calls) /\ Len(t20t22) = 3
        /\ t20t22[1] = s20 /\ t20t22[2] = s21 /\ t20t22[3] = s22
    BY <1>4
  <2>20. /\ t23t25 \in Seq(Calls) /\ Len(t23t25) = 3
        /\ t23t25[1] = s23 /\ t23t25[2] = s24 /\ t23t25[3] = s25
    BY <1>4
  <2>21. /\ t26t27 \in Seq(Calls) /\ Len(t26t27) = 2
        /\ t26t27[1] = s26 /\ t26t27[2] = s27
    BY <1>4
  <2>22. /\ 1 .. 1 = {1}
        /\ 1 .. 2 = {1, 2}
        /\ 1 .. 3 = {1, 2, 3}
        /\ 1 .. 4 = {1, 2, 3, 4}
        /\ 1 .. 5 = {1, 2, 3, 4, 5}
        /\ 1 .. 6 = {1, 2, 3, 4, 5, 6}
        /\ 1 .. 7 = {1, 2, 3, 4, 5, 6, 7}
        /\ 1 .. 9 = {1, 2, 3, 4, 5, 6, 7, 8, 9}
        /\ 1 .. 10 = {1, 2, 3, 4, 5, 6, 7, 8, 9, 10}
        /\ 1 .. 15 = {1, 2, 3, 4, 5, 6, 7, 8, 9, 10, 11, 12, 13, 14, 15}
        /\ 1 .. 25 = {1, 2, 3, 4, 5, 6, 7, 8, 9, 10, 11, 12, 13, 14, 15, 16,
        17, 18, 19, 20, 21, 22, 23, 24, 25}
        /\ 1 .. 27 = {1, 2, 3, 4, 5, 6, 7, 8, 9, 10, 11, 12, 13, 14, 15, 16,
        17, 18, 19, 20, 21, 22, 23, 24, 25, 26, 27}
    OBVIOUS
  <2> HIDE DEF t1t2, t1t7, t1t9, t1t15, t1t25, t1t27, t3t3, t3t7, t4t7, t8t9,
         t10t10, t10t15, t11t15, t16t16, t16t25, t17t19, t17t22, t17t25,
         t20t22, t23t25, t26t27
  <2>23. t3t3 \o t4t7 = t3t7
    <3>1. \A i \in 1 .. 1 : t3t7[i] = t3t3[i]
      BY <2>7, <2>8, <2>22
    <3>2. \A i \in 1 .. 4 : t3t7[1 + i] = t4t7[i]
      <4>1. /\ 1 + 1 = 2 /\ 1 + 2 = 3 /\ 1 + 3 = 4 /\ 1 + 4 = 5
        OBVIOUS
      <4> QED
        BY <2>9, <2>8, <2>22, <4>1
    <3>3. 1 + 4 = 5
      OBVIOUS
    <3>4. /\ t3t3 \in Seq(Calls) /\ t4t7 \in Seq(Calls) /\ t3t7 \in Seq(Calls)
          /\ Len(t3t3) = 1 /\ Len(t4t7) = 4 /\ Len(t3t7) = 1 + 4
      BY <2>7, <2>9, <2>8, <3>3
    <3>5. Fits(t3t3, t4t7, t3t7, 1, 4)
      BY <3>1, <3>2, <3>4 DEF Fits
    <3> QED
      BY <3>5, Glued
  <2>24. t10t10 \o t11t15 = t10t15
    <3>1. \A i \in 1 .. 1 : t10t15[i] = t10t10[i]
      BY <2>11, <2>12, <2>22
    <3>2. \A i \in 1 .. 5 : t10t15[1 + i] = t11t15[i]
      <4>1. /\ 1 + 1 = 2 /\ 1 + 2 = 3 /\ 1 + 3 = 4 /\ 1 + 4 = 5 /\ 1 + 5 = 6
        OBVIOUS
      <4> QED
        BY <2>13, <2>12, <2>22, <4>1
    <3>3. 1 + 5 = 6
      OBVIOUS
    <3>4. /\ t10t10 \in Seq(Calls) /\ t11t15 \in Seq(Calls)
          /\ t10t15 \in Seq(Calls)
          /\ Len(t10t10) = 1 /\ Len(t11t15) = 5 /\ Len(t10t15) = 1 + 5
      BY <2>11, <2>13, <2>12, <3>3
    <3>5. Fits(t10t10, t11t15, t10t15, 1, 5)
      BY <3>1, <3>2, <3>4 DEF Fits
    <3> QED
      BY <3>5, Glued
  <2>25. t17t19 \o t20t22 = t17t22
    <3>1. \A i \in 1 .. 3 : t17t22[i] = t17t19[i]
      BY <2>16, <2>17, <2>22
    <3>2. \A i \in 1 .. 3 : t17t22[3 + i] = t20t22[i]
      <4>1. /\ 3 + 1 = 4 /\ 3 + 2 = 5 /\ 3 + 3 = 6
        OBVIOUS
      <4> QED
        BY <2>19, <2>17, <2>22, <4>1
    <3>3. 3 + 3 = 6
      OBVIOUS
    <3>4. /\ t17t19 \in Seq(Calls) /\ t20t22 \in Seq(Calls)
          /\ t17t22 \in Seq(Calls)
          /\ Len(t17t19) = 3 /\ Len(t20t22) = 3 /\ Len(t17t22) = 3 + 3
      BY <2>16, <2>19, <2>17, <3>3
    <3>5. Fits(t17t19, t20t22, t17t22, 3, 3)
      BY <3>1, <3>2, <3>4 DEF Fits
    <3> QED
      BY <3>5, Glued
  <2>26. t1t2 \o t3t7 = t1t7
    <3>1. \A i \in 1 .. 2 : t1t7[i] = t1t2[i]
      BY <2>1, <2>2, <2>22
    <3>2. \A i \in 1 .. 5 : t1t7[2 + i] = t3t7[i]
      <4>1. /\ 2 + 1 = 3 /\ 2 + 2 = 4 /\ 2 + 3 = 5 /\ 2 + 4 = 6 /\ 2 + 5 = 7
        OBVIOUS
      <4> QED
        BY <2>8, <2>2, <2>22, <4>1
    <3>3. 2 + 5 = 7
      OBVIOUS
    <3>4. /\ t1t2 \in Seq(Calls) /\ t3t7 \in Seq(Calls) /\ t1t7 \in Seq(Calls)
          /\ Len(t1t2) = 2 /\ Len(t3t7) = 5 /\ Len(t1t7) = 2 + 5
      BY <2>1, <2>8, <2>2, <3>3
    <3>5. Fits(t1t2, t3t7, t1t7, 2, 5)
      BY <3>1, <3>2, <3>4 DEF Fits
    <3> QED
      BY <3>5, Glued
  <2>27. t17t22 \o t23t25 = t17t25
    <3>1. \A i \in 1 .. 6 : t17t25[i] = t17t22[i]
      BY <2>17, <2>18, <2>22
    <3>2. \A i \in 1 .. 3 : t17t25[6 + i] = t23t25[i]
      <4>1. /\ 6 + 1 = 7 /\ 6 + 2 = 8 /\ 6 + 3 = 9
        OBVIOUS
      <4> QED
        BY <2>20, <2>18, <2>22, <4>1
    <3>3. 6 + 3 = 9
      OBVIOUS
    <3>4. /\ t17t22 \in Seq(Calls) /\ t23t25 \in Seq(Calls)
          /\ t17t25 \in Seq(Calls)
          /\ Len(t17t22) = 6 /\ Len(t23t25) = 3 /\ Len(t17t25) = 6 + 3
      BY <2>17, <2>20, <2>18, <3>3
    <3>5. Fits(t17t22, t23t25, t17t25, 6, 3)
      BY <3>1, <3>2, <3>4 DEF Fits
    <3> QED
      BY <3>5, Glued
  <2>28. t1t7 \o t8t9 = t1t9
    <3>1. \A i \in 1 .. 7 : t1t9[i] = t1t7[i]
      BY <2>2, <2>3, <2>22
    <3>2. \A i \in 1 .. 2 : t1t9[7 + i] = t8t9[i]
      <4>1. /\ 7 + 1 = 8 /\ 7 + 2 = 9
        OBVIOUS
      <4> QED
        BY <2>10, <2>3, <2>22, <4>1
    <3>3. 7 + 2 = 9
      OBVIOUS
    <3>4. /\ t1t7 \in Seq(Calls) /\ t8t9 \in Seq(Calls) /\ t1t9 \in Seq(Calls)
          /\ Len(t1t7) = 7 /\ Len(t8t9) = 2 /\ Len(t1t9) = 7 + 2
      BY <2>2, <2>10, <2>3, <3>3
    <3>5. Fits(t1t7, t8t9, t1t9, 7, 2)
      BY <3>1, <3>2, <3>4 DEF Fits
    <3> QED
      BY <3>5, Glued
  <2>29. t16t16 \o t17t25 = t16t25
    <3>1. \A i \in 1 .. 1 : t16t25[i] = t16t16[i]
      BY <2>14, <2>15, <2>22
    <3>2. \A i \in 1 .. 9 : t16t25[1 + i] = t17t25[i]
      <4>1. /\ 1 + 1 = 2 /\ 1 + 2 = 3 /\ 1 + 3 = 4 /\ 1 + 4 = 5 /\ 1 + 5 = 6
            /\ 1 + 6 = 7 /\ 1 + 7 = 8 /\ 1 + 8 = 9 /\ 1 + 9 = 10
        OBVIOUS
      <4> QED
        BY <2>18, <2>15, <2>22, <4>1
    <3>3. 1 + 9 = 10
      OBVIOUS
    <3>4. /\ t16t16 \in Seq(Calls) /\ t17t25 \in Seq(Calls)
          /\ t16t25 \in Seq(Calls)
          /\ Len(t16t16) = 1 /\ Len(t17t25) = 9 /\ Len(t16t25) = 1 + 9
      BY <2>14, <2>18, <2>15, <3>3
    <3>5. Fits(t16t16, t17t25, t16t25, 1, 9)
      BY <3>1, <3>2, <3>4 DEF Fits
    <3> QED
      BY <3>5, Glued
  <2>30. t1t9 \o t10t15 = t1t15
    <3>1. \A i \in 1 .. 9 : t1t15[i] = t1t9[i]
      BY <2>3, <2>4, <2>22
    <3>2. \A i \in 1 .. 6 : t1t15[9 + i] = t10t15[i]
      <4>1. /\ 9 + 1 = 10 /\ 9 + 2 = 11 /\ 9 + 3 = 12 /\ 9 + 4 = 13
            /\ 9 + 5 = 14 /\ 9 + 6 = 15
        OBVIOUS
      <4> QED
        BY <2>12, <2>4, <2>22, <4>1
    <3>3. 9 + 6 = 15
      OBVIOUS
    <3>4. /\ t1t9 \in Seq(Calls) /\ t10t15 \in Seq(Calls)
          /\ t1t15 \in Seq(Calls)
          /\ Len(t1t9) = 9 /\ Len(t10t15) = 6 /\ Len(t1t15) = 9 + 6
      BY <2>3, <2>12, <2>4, <3>3
    <3>5. Fits(t1t9, t10t15, t1t15, 9, 6)
      BY <3>1, <3>2, <3>4 DEF Fits
    <3> QED
      BY <3>5, Glued
  <2>31. t1t15 \o t16t25 = t1t25
    <3>1. \A i \in 1 .. 15 : t1t25[i] = t1t15[i]
      BY <2>4, <2>5, <2>22, SMTT(90)
    <3>2. \A i \in 1 .. 10 : t1t25[15 + i] = t16t25[i]
      <4>1. /\ 15 + 1 = 16 /\ 15 + 2 = 17 /\ 15 + 3 = 18 /\ 15 + 4 = 19
            /\ 15 + 5 = 20 /\ 15 + 6 = 21 /\ 15 + 7 = 22 /\ 15 + 8 = 23
            /\ 15 + 9 = 24 /\ 15 + 10 = 25
        OBVIOUS
      <4> QED
        BY <2>15, <2>5, <2>22, <4>1, SMTT(90)
    <3>3. 15 + 10 = 25
      OBVIOUS
    <3>4. /\ t1t15 \in Seq(Calls) /\ t16t25 \in Seq(Calls)
          /\ t1t25 \in Seq(Calls)
          /\ Len(t1t15) = 15 /\ Len(t16t25) = 10 /\ Len(t1t25) = 15 + 10
      BY <2>4, <2>15, <2>5, <3>3
    <3>5. Fits(t1t15, t16t25, t1t25, 15, 10)
      BY <3>1, <3>2, <3>4 DEF Fits
    <3> QED
      BY <3>5, Glued
  <2>32. t1t25 \o t26t27 = t1t27
    <3>1. \A i \in 1 .. 25 : t1t27[i] = t1t25[i]
      BY <2>5, <2>6, <2>22, SMTT(90)
    <3>2. \A i \in 1 .. 2 : t1t27[25 + i] = t26t27[i]
      <4>1. /\ 25 + 1 = 26 /\ 25 + 2 = 27
        OBVIOUS
      <4> QED
        BY <2>21, <2>6, <2>22, <4>1
    <3>3. 25 + 2 = 27
      OBVIOUS
    <3>4. /\ t1t25 \in Seq(Calls) /\ t26t27 \in Seq(Calls)
          /\ t1t27 \in Seq(Calls)
          /\ Len(t1t25) = 25 /\ Len(t26t27) = 2 /\ Len(t1t27) = 25 + 2
      BY <2>5, <2>21, <2>6, <3>3
    <3>5. Fits(t1t25, t26t27, t1t27, 25, 2)
      BY <3>1, <3>2, <3>4 DEF Fits
    <3> QED
      BY <3>5, Glued
  <2>33. ((((t1t2 \o (t3t3 \o t4t7)) \o t8t9) \o (t10t10 \o t11t15))
             \o (t16t16 \o ((t17t19 \o t20t22) \o t23t25))) \o t26t27 = t1t27
    BY <2>23, <2>24, <2>25, <2>26, <2>27, <2>28, <2>29, <2>30, <2>31, <2>32,
       Zenon
  <2> QED
    BY <2>33, Zenon
       DEF t1t2, t1t7, t1t9, t1t15, t1t25, t1t27, t3t3, t3t7, t4t7, t8t9,
           t10t10, t10t15, t11t15, t16t16, t16t25, t17t19, t17t22, t17t25,
           t20t22, t23t25, t26t27
<1> QED
  BY <1>5, <1>6, <1>7, Zenon

-----------------------------------------------------------------------------
(* What a step does, field by field.                                       *)

PutsMachines(w, e, k, a) ==
    /\ k \in {"launch", "start", "resume"} =>
          e.vm = [w.vm EXCEPT ![a] = "running"]
    /\ k \in {"pause", "pauseNode"} => e.vm = [w.vm EXCEPT ![a] = "frozen"]
    /\ k = "delete" => e.vm = [w.vm EXCEPT ![a] = "absent"]
    /\ k \notin MachineKind => e.vm = w.vm
PutsDebts(w, e, k, a) ==
    /\ e.tokens = CASE k = "pushToken" -> w.tokens \cup {a}
                    [] k \in {"removeToken", "delete"} -> w.tokens \ {a}
                    [] OTHER -> w.tokens
    /\ e.archives = CASE k = "pushArchive" -> w.archives \cup {a}
                      [] k = "removeArchive" -> w.archives \ {a}
                      [] OTHER -> w.archives
    /\ e.forwards = CASE k = "forward" -> w.forwards \cup {a}
                      [] k = "endForward" -> w.forwards \ {a}
                      [] k = "deleteKind" -> {}
                      [] OTHER -> w.forwards
    /\ e.files = CASE k = "configure" -> TRUE
                   [] k = "removeFiles" -> FALSE
                   [] OTHER -> w.files
    /\ k # "setupPod" =>
          e.pod = IF k \in {"deletePod", "removePod"} THEN "absent" ELSE w.pod
    /\ k # "request" =>
          e.request = IF k = "removeRequest" THEN None ELSE w.request
PutsRest(w, e, k) ==
    /\ k # "import" => e.user = w.user
    /\ k # "importImage" => e.images = w.images
    /\ k \notin {"secret", "secretCopy"} => e.secret = w.secret
    /\ k # "copyElastic" => e.elastic = w.elastic
    /\ k # "redeploy" => e.served = w.served
    /\ k # "replaceConfig" => e.config = w.config
    /\ k # "backUp" => e.backup = w.backup
    /\ k \notin {"drop", "snapshot", "delete"} => e.snapshot = w.snapshot
    /\ k \notin {"restore", "delete"} => e.from = w.from
    /\ e.built = w.built /\ e.zipkin = w.zipkin /\ e.changes = w.changes
Puts(w, e, k, a) ==
    PutsMachines(w, e, k, a) /\ PutsDebts(w, e, k, a) /\ PutsRest(w, e, k)

LEMMA WorldFields ==
    ASSUME NEW w \in Worlds
    PROVE 
      /\ w.vm \in [Node -> VmState]
      /\ w.disk \in [Node -> Disk]
      /\ w.snapshot \in [Node -> Cuts]
      /\ w.from \in [Node -> Cuts]
      /\ w.tokens \in SUBSET Arg
      /\ w.config \in Config
      /\ w.backup \in Config
      /\ w.operators \in SUBSET Arg
      /\ w.kind \in BOOLEAN
      /\ w.forwards \in SUBSET Arg
      /\ w.secret \in [Service -> [data : Nat, copy : Nat]]
      /\ w.elastic \in [data : Nat, copy : Nat]
      /\ w.user \in Nat
      /\ w.files \in BOOLEAN
      /\ w.zipkin \in Nat
      /\ w.request \in Nat
      /\ w.pod \in {"absent", "pending", "succeeded", "failed"}
      /\ w.built \in Nat
      /\ w.images \in [Node -> Nat]
      /\ w.archives \in SUBSET Arg
      /\ w.served \in [password : Nat, elastic : Nat]
      /\ w.changes \in Nat
BY DEF Worlds

LEMMA RunFields ==
    ASSUME NEW r \in Runs
    PROVE  /\ r.profile \in Profiles /\ r.script \in Name \cup {"none"}
           /\ r.state \in {"idle", "body", "cleanup"}
           /\ r.verdict \in Verdict /\ r.outcome \in Verdict
           /\ r.todo \in Seq(Calls) /\ r.owed \in Seq(Calls)
           /\ r.errors \in BOOLEAN /\ r.masked \in BOOLEAN
           /\ r.asked \in BOOLEAN /\ r.value \in Nat /\ r.read \in Nat
           /\ r.ran \in SUBSET Node /\ r.missed \in SUBSET Node
           /\ r.config \in Config
           /\ r.operations \in Nat /\ r.troubles \in Nat
           /\ r.complete \in BOOLEAN
BY DEF Runs

\* A field of a value of its type can be put into a world.
LEMMA PutArchives ==
    ASSUME NEW w \in Worlds, NEW x \in SUBSET Arg, NEW v,
           v = [w EXCEPT !.archives = x]
    PROVE
      /\ v \in Worlds /\ v.archives = x /\ v.vm = w.vm /\ v.disk = w.disk
      /\ v.snapshot = w.snapshot /\ v.from = w.from /\ v.tokens = w.tokens
      /\ v.config = w.config /\ v.backup = w.backup
      /\ v.operators = w.operators /\ v.kind = w.kind
      /\ v.forwards = w.forwards /\ v.secret = w.secret
      /\ v.elastic = w.elastic /\ v.user = w.user /\ v.files = w.files
      /\ v.zipkin = w.zipkin /\ v.request = w.request /\ v.pod = w.pod
      /\ v.built = w.built /\ v.images = w.images /\ v.served = w.served
      /\ v.changes = w.changes
BY DEF Worlds

LEMMA PutBackup ==
    ASSUME NEW w \in Worlds, NEW x \in Config, NEW v,
           v = [w EXCEPT !.backup = x]
    PROVE
      /\ v \in Worlds /\ v.backup = x /\ v.vm = w.vm /\ v.disk = w.disk
      /\ v.snapshot = w.snapshot /\ v.from = w.from /\ v.tokens = w.tokens
      /\ v.config = w.config /\ v.operators = w.operators /\ v.kind = w.kind
      /\ v.forwards = w.forwards /\ v.secret = w.secret
      /\ v.elastic = w.elastic /\ v.user = w.user /\ v.files = w.files
      /\ v.zipkin = w.zipkin /\ v.request = w.request /\ v.pod = w.pod
      /\ v.built = w.built /\ v.images = w.images /\ v.archives = w.archives
      /\ v.served = w.served /\ v.changes = w.changes
BY DEF Worlds

LEMMA PutConfig ==
    ASSUME NEW w \in Worlds, NEW x \in Config, NEW v,
           v = [w EXCEPT !.config = x]
    PROVE
      /\ v \in Worlds /\ v.config = x /\ v.vm = w.vm /\ v.disk = w.disk
      /\ v.snapshot = w.snapshot /\ v.from = w.from /\ v.tokens = w.tokens
      /\ v.backup = w.backup /\ v.operators = w.operators /\ v.kind = w.kind
      /\ v.forwards = w.forwards /\ v.secret = w.secret
      /\ v.elastic = w.elastic /\ v.user = w.user /\ v.files = w.files
      /\ v.zipkin = w.zipkin /\ v.request = w.request /\ v.pod = w.pod
      /\ v.built = w.built /\ v.images = w.images /\ v.archives = w.archives
      /\ v.served = w.served /\ v.changes = w.changes
BY DEF Worlds

LEMMA PutDisk ==
    ASSUME NEW w \in Worlds, NEW x \in [Node -> Disk], NEW v,
           v = [w EXCEPT !.disk = x]
    PROVE
      /\ v \in Worlds /\ v.disk = x /\ v.vm = w.vm /\ v.snapshot = w.snapshot
      /\ v.from = w.from /\ v.tokens = w.tokens /\ v.config = w.config
      /\ v.backup = w.backup /\ v.operators = w.operators /\ v.kind = w.kind
      /\ v.forwards = w.forwards /\ v.secret = w.secret
      /\ v.elastic = w.elastic /\ v.user = w.user /\ v.files = w.files
      /\ v.zipkin = w.zipkin /\ v.request = w.request /\ v.pod = w.pod
      /\ v.built = w.built /\ v.images = w.images /\ v.archives = w.archives
      /\ v.served = w.served /\ v.changes = w.changes
BY DEF Worlds

LEMMA PutElastic ==
    ASSUME NEW w \in Worlds, NEW x \in [data : Nat, copy : Nat], NEW v,
           v = [w EXCEPT !.elastic = x]
    PROVE
      /\ v \in Worlds /\ v.elastic = x /\ v.vm = w.vm /\ v.disk = w.disk
      /\ v.snapshot = w.snapshot /\ v.from = w.from /\ v.tokens = w.tokens
      /\ v.config = w.config /\ v.backup = w.backup
      /\ v.operators = w.operators /\ v.kind = w.kind
      /\ v.forwards = w.forwards /\ v.secret = w.secret /\ v.user = w.user
      /\ v.files = w.files /\ v.zipkin = w.zipkin /\ v.request = w.request
      /\ v.pod = w.pod /\ v.built = w.built /\ v.images = w.images
      /\ v.archives = w.archives /\ v.served = w.served
      /\ v.changes = w.changes
BY DEF Worlds

LEMMA PutFiles ==
    ASSUME NEW w \in Worlds, NEW x \in BOOLEAN, NEW v,
           v = [w EXCEPT !.files = x]
    PROVE
      /\ v \in Worlds /\ v.files = x /\ v.vm = w.vm /\ v.disk = w.disk
      /\ v.snapshot = w.snapshot /\ v.from = w.from /\ v.tokens = w.tokens
      /\ v.config = w.config /\ v.backup = w.backup
      /\ v.operators = w.operators /\ v.kind = w.kind
      /\ v.forwards = w.forwards /\ v.secret = w.secret
      /\ v.elastic = w.elastic /\ v.user = w.user /\ v.zipkin = w.zipkin
      /\ v.request = w.request /\ v.pod = w.pod /\ v.built = w.built
      /\ v.images = w.images /\ v.archives = w.archives
      /\ v.served = w.served /\ v.changes = w.changes
BY DEF Worlds

LEMMA PutForwards ==
    ASSUME NEW w \in Worlds, NEW x \in SUBSET Arg, NEW v,
           v = [w EXCEPT !.forwards = x]
    PROVE
      /\ v \in Worlds /\ v.forwards = x /\ v.vm = w.vm /\ v.disk = w.disk
      /\ v.snapshot = w.snapshot /\ v.from = w.from /\ v.tokens = w.tokens
      /\ v.config = w.config /\ v.backup = w.backup
      /\ v.operators = w.operators /\ v.kind = w.kind /\ v.secret = w.secret
      /\ v.elastic = w.elastic /\ v.user = w.user /\ v.files = w.files
      /\ v.zipkin = w.zipkin /\ v.request = w.request /\ v.pod = w.pod
      /\ v.built = w.built /\ v.images = w.images /\ v.archives = w.archives
      /\ v.served = w.served /\ v.changes = w.changes
BY DEF Worlds

LEMMA PutFrom ==
    ASSUME NEW w \in Worlds, NEW x \in [Node -> Cuts], NEW v,
           v = [w EXCEPT !.from = x]
    PROVE
      /\ v \in Worlds /\ v.from = x /\ v.vm = w.vm /\ v.disk = w.disk
      /\ v.snapshot = w.snapshot /\ v.tokens = w.tokens
      /\ v.config = w.config /\ v.backup = w.backup
      /\ v.operators = w.operators /\ v.kind = w.kind
      /\ v.forwards = w.forwards /\ v.secret = w.secret
      /\ v.elastic = w.elastic /\ v.user = w.user /\ v.files = w.files
      /\ v.zipkin = w.zipkin /\ v.request = w.request /\ v.pod = w.pod
      /\ v.built = w.built /\ v.images = w.images /\ v.archives = w.archives
      /\ v.served = w.served /\ v.changes = w.changes
BY DEF Worlds

LEMMA PutImages ==
    ASSUME NEW w \in Worlds, NEW x \in [Node -> Nat], NEW v,
           v = [w EXCEPT !.images = x]
    PROVE
      /\ v \in Worlds /\ v.images = x /\ v.vm = w.vm /\ v.disk = w.disk
      /\ v.snapshot = w.snapshot /\ v.from = w.from /\ v.tokens = w.tokens
      /\ v.config = w.config /\ v.backup = w.backup
      /\ v.operators = w.operators /\ v.kind = w.kind
      /\ v.forwards = w.forwards /\ v.secret = w.secret
      /\ v.elastic = w.elastic /\ v.user = w.user /\ v.files = w.files
      /\ v.zipkin = w.zipkin /\ v.request = w.request /\ v.pod = w.pod
      /\ v.built = w.built /\ v.archives = w.archives /\ v.served = w.served
      /\ v.changes = w.changes
BY DEF Worlds

LEMMA PutKind ==
    ASSUME NEW w \in Worlds, NEW x \in BOOLEAN, NEW v,
           v = [w EXCEPT !.kind = x]
    PROVE
      /\ v \in Worlds /\ v.kind = x /\ v.vm = w.vm /\ v.disk = w.disk
      /\ v.snapshot = w.snapshot /\ v.from = w.from /\ v.tokens = w.tokens
      /\ v.config = w.config /\ v.backup = w.backup
      /\ v.operators = w.operators /\ v.forwards = w.forwards
      /\ v.secret = w.secret /\ v.elastic = w.elastic /\ v.user = w.user
      /\ v.files = w.files /\ v.zipkin = w.zipkin /\ v.request = w.request
      /\ v.pod = w.pod /\ v.built = w.built /\ v.images = w.images
      /\ v.archives = w.archives /\ v.served = w.served
      /\ v.changes = w.changes
BY DEF Worlds

LEMMA PutOperators ==
    ASSUME NEW w \in Worlds, NEW x \in SUBSET Arg, NEW v,
           v = [w EXCEPT !.operators = x]
    PROVE
      /\ v \in Worlds /\ v.operators = x /\ v.vm = w.vm /\ v.disk = w.disk
      /\ v.snapshot = w.snapshot /\ v.from = w.from /\ v.tokens = w.tokens
      /\ v.config = w.config /\ v.backup = w.backup /\ v.kind = w.kind
      /\ v.forwards = w.forwards /\ v.secret = w.secret
      /\ v.elastic = w.elastic /\ v.user = w.user /\ v.files = w.files
      /\ v.zipkin = w.zipkin /\ v.request = w.request /\ v.pod = w.pod
      /\ v.built = w.built /\ v.images = w.images /\ v.archives = w.archives
      /\ v.served = w.served /\ v.changes = w.changes
BY DEF Worlds

LEMMA PutPod ==
    ASSUME NEW w \in Worlds, NEW x \in {"absent", "pending", "succeeded",
                                        "failed"}, NEW v,
           v = [w EXCEPT !.pod = x]
    PROVE
      /\ v \in Worlds /\ v.pod = x /\ v.vm = w.vm /\ v.disk = w.disk
      /\ v.snapshot = w.snapshot /\ v.from = w.from /\ v.tokens = w.tokens
      /\ v.config = w.config /\ v.backup = w.backup
      /\ v.operators = w.operators /\ v.kind = w.kind
      /\ v.forwards = w.forwards /\ v.secret = w.secret
      /\ v.elastic = w.elastic /\ v.user = w.user /\ v.files = w.files
      /\ v.zipkin = w.zipkin /\ v.request = w.request /\ v.built = w.built
      /\ v.images = w.images /\ v.archives = w.archives
      /\ v.served = w.served /\ v.changes = w.changes
BY DEF Worlds

LEMMA PutRequest ==
    ASSUME NEW w \in Worlds, NEW x \in Nat, NEW v,
           v = [w EXCEPT !.request = x]
    PROVE
      /\ v \in Worlds /\ v.request = x /\ v.vm = w.vm /\ v.disk = w.disk
      /\ v.snapshot = w.snapshot /\ v.from = w.from /\ v.tokens = w.tokens
      /\ v.config = w.config /\ v.backup = w.backup
      /\ v.operators = w.operators /\ v.kind = w.kind
      /\ v.forwards = w.forwards /\ v.secret = w.secret
      /\ v.elastic = w.elastic /\ v.user = w.user /\ v.files = w.files
      /\ v.zipkin = w.zipkin /\ v.pod = w.pod /\ v.built = w.built
      /\ v.images = w.images /\ v.archives = w.archives
      /\ v.served = w.served /\ v.changes = w.changes
BY DEF Worlds

LEMMA PutSecret ==
    ASSUME NEW w \in Worlds, NEW x \in [Service -> [data : Nat, copy : Nat]],
           NEW v,
           v = [w EXCEPT !.secret = x]
    PROVE
      /\ v \in Worlds /\ v.secret = x /\ v.vm = w.vm /\ v.disk = w.disk
      /\ v.snapshot = w.snapshot /\ v.from = w.from /\ v.tokens = w.tokens
      /\ v.config = w.config /\ v.backup = w.backup
      /\ v.operators = w.operators /\ v.kind = w.kind
      /\ v.forwards = w.forwards /\ v.elastic = w.elastic /\ v.user = w.user
      /\ v.files = w.files /\ v.zipkin = w.zipkin /\ v.request = w.request
      /\ v.pod = w.pod /\ v.built = w.built /\ v.images = w.images
      /\ v.archives = w.archives /\ v.served = w.served
      /\ v.changes = w.changes
BY DEF Worlds

LEMMA PutServed ==
    ASSUME NEW w \in Worlds, NEW x \in [password : Nat, elastic : Nat], NEW v,
           v = [w EXCEPT !.served = x]
    PROVE
      /\ v \in Worlds /\ v.served = x /\ v.vm = w.vm /\ v.disk = w.disk
      /\ v.snapshot = w.snapshot /\ v.from = w.from /\ v.tokens = w.tokens
      /\ v.config = w.config /\ v.backup = w.backup
      /\ v.operators = w.operators /\ v.kind = w.kind
      /\ v.forwards = w.forwards /\ v.secret = w.secret
      /\ v.elastic = w.elastic /\ v.user = w.user /\ v.files = w.files
      /\ v.zipkin = w.zipkin /\ v.request = w.request /\ v.pod = w.pod
      /\ v.built = w.built /\ v.images = w.images /\ v.archives = w.archives
      /\ v.changes = w.changes
BY DEF Worlds

LEMMA PutSnapshot ==
    ASSUME NEW w \in Worlds, NEW x \in [Node -> Cuts], NEW v,
           v = [w EXCEPT !.snapshot = x]
    PROVE
      /\ v \in Worlds /\ v.snapshot = x /\ v.vm = w.vm /\ v.disk = w.disk
      /\ v.from = w.from /\ v.tokens = w.tokens /\ v.config = w.config
      /\ v.backup = w.backup /\ v.operators = w.operators /\ v.kind = w.kind
      /\ v.forwards = w.forwards /\ v.secret = w.secret
      /\ v.elastic = w.elastic /\ v.user = w.user /\ v.files = w.files
      /\ v.zipkin = w.zipkin /\ v.request = w.request /\ v.pod = w.pod
      /\ v.built = w.built /\ v.images = w.images /\ v.archives = w.archives
      /\ v.served = w.served /\ v.changes = w.changes
BY DEF Worlds

LEMMA PutTokens ==
    ASSUME NEW w \in Worlds, NEW x \in SUBSET Arg, NEW v,
           v = [w EXCEPT !.tokens = x]
    PROVE
      /\ v \in Worlds /\ v.tokens = x /\ v.vm = w.vm /\ v.disk = w.disk
      /\ v.snapshot = w.snapshot /\ v.from = w.from /\ v.config = w.config
      /\ v.backup = w.backup /\ v.operators = w.operators /\ v.kind = w.kind
      /\ v.forwards = w.forwards /\ v.secret = w.secret
      /\ v.elastic = w.elastic /\ v.user = w.user /\ v.files = w.files
      /\ v.zipkin = w.zipkin /\ v.request = w.request /\ v.pod = w.pod
      /\ v.built = w.built /\ v.images = w.images /\ v.archives = w.archives
      /\ v.served = w.served /\ v.changes = w.changes
BY DEF Worlds

LEMMA PutUser ==
    ASSUME NEW w \in Worlds, NEW x \in Nat, NEW v,
           v = [w EXCEPT !.user = x]
    PROVE
      /\ v \in Worlds /\ v.user = x /\ v.vm = w.vm /\ v.disk = w.disk
      /\ v.snapshot = w.snapshot /\ v.from = w.from /\ v.tokens = w.tokens
      /\ v.config = w.config /\ v.backup = w.backup
      /\ v.operators = w.operators /\ v.kind = w.kind
      /\ v.forwards = w.forwards /\ v.secret = w.secret
      /\ v.elastic = w.elastic /\ v.files = w.files /\ v.zipkin = w.zipkin
      /\ v.request = w.request /\ v.pod = w.pod /\ v.built = w.built
      /\ v.images = w.images /\ v.archives = w.archives
      /\ v.served = w.served /\ v.changes = w.changes
BY DEF Worlds

LEMMA PutVm ==
    ASSUME NEW w \in Worlds, NEW x \in [Node -> VmState], NEW v,
           v = [w EXCEPT !.vm = x]
    PROVE
      /\ v \in Worlds /\ v.vm = x /\ v.disk = w.disk
      /\ v.snapshot = w.snapshot /\ v.from = w.from /\ v.tokens = w.tokens
      /\ v.config = w.config /\ v.backup = w.backup
      /\ v.operators = w.operators /\ v.kind = w.kind
      /\ v.forwards = w.forwards /\ v.secret = w.secret
      /\ v.elastic = w.elastic /\ v.user = w.user /\ v.files = w.files
      /\ v.zipkin = w.zipkin /\ v.request = w.request /\ v.pod = w.pod
      /\ v.built = w.built /\ v.images = w.images /\ v.archives = w.archives
      /\ v.served = w.served /\ v.changes = w.changes
BY DEF Worlds

\* The effects, one by one.
LEMMA Effects ==
    ASSUME NEW w \in Worlds, NEW r \in Runs, NEW s \in Calls
    PROVE  /\ Effect(w, r, s) \in Worlds
           /\ Puts(w, Effect(w, r, s), s[1], s[2])
<1>0. s[2] \in Arg /\ s[1] \in Kind
  BY DEF Calls
<1>a. s[2] \in Node => w.snapshot[s[2]].disk \in Disk
  BY WorldFields DEF Cuts
<1>b. s[2] \in Service =>
         /\ [w.secret[s[2]] EXCEPT !.data = r.value] \in
               [data : Nat, copy : Nat]
         /\ [w.secret[s[2]] EXCEPT !.copy = r.value] \in
               [data : Nat, copy : Nat]
  <2> DEFINE y == w.secret[s[2]]
  <2>1. s[2] \in Service => y \in [data : Nat, copy : Nat]
    BY WorldFields
  <2>2. r.value \in Nat
    BY RunFields
  <2> HIDE DEF y
  <2>3. y \in [data : Nat, copy : Nat] =>
           /\ [y EXCEPT !.data = r.value] \in [data : Nat, copy : Nat]
           /\ [y EXCEPT !.copy = r.value] \in [data : Nat, copy : Nat]
    BY <2>2
  <2> QED
    BY <2>1, <2>3 DEF y
<1>00. NoSnapshot \in Cuts
  BY DEF NoSnapshot, Cuts, Disk, None
<1>000. ASSUME s[2] \in Node PROVE Snapshot(w, r, s[2]) \in Cuts
  <2>1. w.disk[s[2]] \in Disk /\ r.operations \in Nat
    BY <1>000, WorldFields, RunFields
  <2>2. (\A o \in Node : w.vm[o] # "running") \in BOOLEAN
    OBVIOUS
  <2> QED
    BY <2>1, <2>2 DEF Snapshot, Cuts
<1>1. CASE s[1] = "launch"
  <2> DEFINE
    x == [w.vm EXCEPT ![s[2]] = "running"]
    v == Effect(w, r, s)
  <2>1. v = [w EXCEPT !.vm = x]
    BY <1>1 DEF Effect
  <2>a1. x \in [Node -> VmState]
    BY <1>0, WorldFields, RunFields DEF VmState
  <2> HIDE DEF x, v
  <2>3.
        /\ v \in Worlds /\ v.vm = x /\ v.disk = w.disk
        /\ v.snapshot = w.snapshot /\ v.from = w.from /\ v.tokens = w.tokens
        /\ v.config = w.config /\ v.backup = w.backup
        /\ v.operators = w.operators /\ v.kind = w.kind
        /\ v.forwards = w.forwards /\ v.secret = w.secret
        /\ v.elastic = w.elastic /\ v.user = w.user /\ v.files = w.files
        /\ v.zipkin = w.zipkin /\ v.request = w.request /\ v.pod = w.pod
        /\ v.built = w.built /\ v.images = w.images
        /\ v.archives = w.archives /\ v.served = w.served
        /\ v.changes = w.changes
    BY <2>1, <2>a1, PutVm
  <2>4. PutsMachines(w, v, "launch", s[2])
    BY <2>3 DEF PutsMachines, MachineKind, x
  <2>5. PutsDebts(w, v, "launch", s[2])
    BY <2>3 DEF PutsDebts
  <2>6. PutsRest(w, v, "launch")
    BY <2>3 DEF PutsRest
  <2>7. v \in Worlds
    BY <2>3
  <2> QED
    BY <1>1, <2>4, <2>5, <2>6, <2>7 DEF Puts, v
<1>2. CASE s[1] = "prepare"
  <2> DEFINE
    x == [w.disk EXCEPT ![s[2]] = @ \cup {"prepared"}]
    v == Effect(w, r, s)
  <2>1. v = [w EXCEPT !.disk = x]
    BY <1>2 DEF Effect
  <2>a1. x \in [Node -> Disk]
    BY <1>0, WorldFields, RunFields DEF Disk
  <2> HIDE DEF x, v
  <2>3.
        /\ v \in Worlds /\ v.disk = x /\ v.vm = w.vm
        /\ v.snapshot = w.snapshot /\ v.from = w.from /\ v.tokens = w.tokens
        /\ v.config = w.config /\ v.backup = w.backup
        /\ v.operators = w.operators /\ v.kind = w.kind
        /\ v.forwards = w.forwards /\ v.secret = w.secret
        /\ v.elastic = w.elastic /\ v.user = w.user /\ v.files = w.files
        /\ v.zipkin = w.zipkin /\ v.request = w.request /\ v.pod = w.pod
        /\ v.built = w.built /\ v.images = w.images
        /\ v.archives = w.archives /\ v.served = w.served
        /\ v.changes = w.changes
    BY <2>1, <2>a1, PutDisk
  <2>4. PutsMachines(w, v, "prepare", s[2])
    BY <2>3 DEF PutsMachines, MachineKind
  <2>5. PutsDebts(w, v, "prepare", s[2])
    BY <2>3 DEF PutsDebts
  <2>6. PutsRest(w, v, "prepare")
    BY <2>3 DEF PutsRest
  <2>7. v \in Worlds
    BY <2>3
  <2> QED
    BY <1>2, <2>4, <2>5, <2>6, <2>7 DEF Puts, v
<1>3. CASE s[1] = "pause"
  <2> DEFINE
    x == [w.vm EXCEPT ![s[2]] = "frozen"]
    v == Effect(w, r, s)
  <2>1. v = [w EXCEPT !.vm = x]
    BY <1>3 DEF Effect
  <2>a1. x \in [Node -> VmState]
    BY <1>0, WorldFields, RunFields DEF VmState
  <2> HIDE DEF x, v
  <2>3.
        /\ v \in Worlds /\ v.vm = x /\ v.disk = w.disk
        /\ v.snapshot = w.snapshot /\ v.from = w.from /\ v.tokens = w.tokens
        /\ v.config = w.config /\ v.backup = w.backup
        /\ v.operators = w.operators /\ v.kind = w.kind
        /\ v.forwards = w.forwards /\ v.secret = w.secret
        /\ v.elastic = w.elastic /\ v.user = w.user /\ v.files = w.files
        /\ v.zipkin = w.zipkin /\ v.request = w.request /\ v.pod = w.pod
        /\ v.built = w.built /\ v.images = w.images
        /\ v.archives = w.archives /\ v.served = w.served
        /\ v.changes = w.changes
    BY <2>1, <2>a1, PutVm
  <2>4. PutsMachines(w, v, "pause", s[2])
    BY <2>3 DEF PutsMachines, MachineKind, x
  <2>5. PutsDebts(w, v, "pause", s[2])
    BY <2>3 DEF PutsDebts
  <2>6. PutsRest(w, v, "pause")
    BY <2>3 DEF PutsRest
  <2>7. v \in Worlds
    BY <2>3
  <2> QED
    BY <1>3, <2>4, <2>5, <2>6, <2>7 DEF Puts, v
<1>4. CASE s[1] = "pauseNode"
  <2> DEFINE
    x == [w.vm EXCEPT ![s[2]] = "frozen"]
    v == Effect(w, r, s)
  <2>1. v = [w EXCEPT !.vm = x]
    BY <1>4 DEF Effect
  <2>a1. x \in [Node -> VmState]
    BY <1>0, WorldFields, RunFields DEF VmState
  <2> HIDE DEF x, v
  <2>3.
        /\ v \in Worlds /\ v.vm = x /\ v.disk = w.disk
        /\ v.snapshot = w.snapshot /\ v.from = w.from /\ v.tokens = w.tokens
        /\ v.config = w.config /\ v.backup = w.backup
        /\ v.operators = w.operators /\ v.kind = w.kind
        /\ v.forwards = w.forwards /\ v.secret = w.secret
        /\ v.elastic = w.elastic /\ v.user = w.user /\ v.files = w.files
        /\ v.zipkin = w.zipkin /\ v.request = w.request /\ v.pod = w.pod
        /\ v.built = w.built /\ v.images = w.images
        /\ v.archives = w.archives /\ v.served = w.served
        /\ v.changes = w.changes
    BY <2>1, <2>a1, PutVm
  <2>4. PutsMachines(w, v, "pauseNode", s[2])
    BY <2>3 DEF PutsMachines, MachineKind, x
  <2>5. PutsDebts(w, v, "pauseNode", s[2])
    BY <2>3 DEF PutsDebts
  <2>6. PutsRest(w, v, "pauseNode")
    BY <2>3 DEF PutsRest
  <2>7. v \in Worlds
    BY <2>3
  <2> QED
    BY <1>4, <2>4, <2>5, <2>6, <2>7 DEF Puts, v
<1>5. CASE s[1] = "start"
  <2> DEFINE
    x == [w.vm EXCEPT ![s[2]] = "running"]
    v == Effect(w, r, s)
  <2>1. v = [w EXCEPT !.vm = x]
    BY <1>5 DEF Effect
  <2>a1. x \in [Node -> VmState]
    BY <1>0, WorldFields, RunFields DEF VmState
  <2> HIDE DEF x, v
  <2>3.
        /\ v \in Worlds /\ v.vm = x /\ v.disk = w.disk
        /\ v.snapshot = w.snapshot /\ v.from = w.from /\ v.tokens = w.tokens
        /\ v.config = w.config /\ v.backup = w.backup
        /\ v.operators = w.operators /\ v.kind = w.kind
        /\ v.forwards = w.forwards /\ v.secret = w.secret
        /\ v.elastic = w.elastic /\ v.user = w.user /\ v.files = w.files
        /\ v.zipkin = w.zipkin /\ v.request = w.request /\ v.pod = w.pod
        /\ v.built = w.built /\ v.images = w.images
        /\ v.archives = w.archives /\ v.served = w.served
        /\ v.changes = w.changes
    BY <2>1, <2>a1, PutVm
  <2>4. PutsMachines(w, v, "start", s[2])
    BY <2>3 DEF PutsMachines, MachineKind, x
  <2>5. PutsDebts(w, v, "start", s[2])
    BY <2>3 DEF PutsDebts
  <2>6. PutsRest(w, v, "start")
    BY <2>3 DEF PutsRest
  <2>7. v \in Worlds
    BY <2>3
  <2> QED
    BY <1>5, <2>4, <2>5, <2>6, <2>7 DEF Puts, v
<1>6. CASE s[1] = "resume"
  <2> DEFINE
    x == [w.vm EXCEPT ![s[2]] = "running"]
    v == Effect(w, r, s)
  <2>1. v = [w EXCEPT !.vm = x]
    BY <1>6 DEF Effect
  <2>a1. x \in [Node -> VmState]
    BY <1>0, WorldFields, RunFields DEF VmState
  <2> HIDE DEF x, v
  <2>3.
        /\ v \in Worlds /\ v.vm = x /\ v.disk = w.disk
        /\ v.snapshot = w.snapshot /\ v.from = w.from /\ v.tokens = w.tokens
        /\ v.config = w.config /\ v.backup = w.backup
        /\ v.operators = w.operators /\ v.kind = w.kind
        /\ v.forwards = w.forwards /\ v.secret = w.secret
        /\ v.elastic = w.elastic /\ v.user = w.user /\ v.files = w.files
        /\ v.zipkin = w.zipkin /\ v.request = w.request /\ v.pod = w.pod
        /\ v.built = w.built /\ v.images = w.images
        /\ v.archives = w.archives /\ v.served = w.served
        /\ v.changes = w.changes
    BY <2>1, <2>a1, PutVm
  <2>4. PutsMachines(w, v, "resume", s[2])
    BY <2>3 DEF PutsMachines, MachineKind, x
  <2>5. PutsDebts(w, v, "resume", s[2])
    BY <2>3 DEF PutsDebts
  <2>6. PutsRest(w, v, "resume")
    BY <2>3 DEF PutsRest
  <2>7. v \in Worlds
    BY <2>3
  <2> QED
    BY <1>6, <2>4, <2>5, <2>6, <2>7 DEF Puts, v
<1>7. CASE s[1] = "delete"
  <2> DEFINE
    x1 == [w.vm EXCEPT ![s[2]] = "absent"]
    x2 == [w.snapshot EXCEPT ![s[2]] = NoSnapshot]
    x3 == [w.disk EXCEPT ![s[2]] = {}]
    x4 == w.tokens \ {s[2]}
    x5 == [w.from EXCEPT ![s[2]] = NoSnapshot]
    v == Effect(w, r, s)
  <2>1. v = [w EXCEPT !.vm = x1, !.snapshot = x2, !.disk = x3, !.tokens = x4,
             !.from = x5]
    BY <1>7 DEF Effect
  <2>a1. x1 \in [Node -> VmState]
    BY <1>0, WorldFields, RunFields DEF VmState
  <2>a2. x2 \in [Node -> Cuts]
    BY <1>0, WorldFields, RunFields, <1>00
  <2>a3. x3 \in [Node -> Disk]
    BY <1>0, WorldFields, RunFields DEF Disk
  <2>a4. x4 \in SUBSET Arg
    BY <1>0, WorldFields, RunFields
  <2>a5. x5 \in [Node -> Cuts]
    BY <1>0, WorldFields, RunFields, <1>00
  <2> HIDE DEF x1, x2, x3, x4, x5, v
  <2>3.
        /\ v \in Worlds /\ v.vm = x1 /\ v.snapshot = x2 /\ v.disk = x3
        /\ v.tokens = x4 /\ v.from = x5 /\ v.config = w.config
        /\ v.backup = w.backup /\ v.operators = w.operators
        /\ v.kind = w.kind /\ v.forwards = w.forwards /\ v.secret = w.secret
        /\ v.elastic = w.elastic /\ v.user = w.user /\ v.files = w.files
        /\ v.zipkin = w.zipkin /\ v.request = w.request /\ v.pod = w.pod
        /\ v.built = w.built /\ v.images = w.images
        /\ v.archives = w.archives /\ v.served = w.served
        /\ v.changes = w.changes
    BY <2>1, <2>a1, <2>a2, <2>a3, <2>a4, <2>a5 DEF Worlds
  <2>4. PutsMachines(w, v, "delete", s[2])
    BY <2>3 DEF PutsMachines, MachineKind, x1
  <2>5. PutsDebts(w, v, "delete", s[2])
    BY <2>3 DEF PutsDebts, x4
  <2>6. PutsRest(w, v, "delete")
    BY <2>3 DEF PutsRest
  <2>7. v \in Worlds
    BY <2>3
  <2> QED
    BY <1>7, <2>4, <2>5, <2>6, <2>7 DEF Puts, v
<1>8. CASE s[1] = "drop"
  <2> DEFINE
    x == [w.snapshot EXCEPT ![s[2]] = NoSnapshot]
    v == Effect(w, r, s)
  <2>1. v = [w EXCEPT !.snapshot = x]
    BY <1>8 DEF Effect
  <2>a1. x \in [Node -> Cuts]
    BY <1>0, WorldFields, RunFields, <1>00
  <2> HIDE DEF x, v
  <2>3.
        /\ v \in Worlds /\ v.snapshot = x /\ v.vm = w.vm /\ v.disk = w.disk
        /\ v.from = w.from /\ v.tokens = w.tokens /\ v.config = w.config
        /\ v.backup = w.backup /\ v.operators = w.operators
        /\ v.kind = w.kind /\ v.forwards = w.forwards /\ v.secret = w.secret
        /\ v.elastic = w.elastic /\ v.user = w.user /\ v.files = w.files
        /\ v.zipkin = w.zipkin /\ v.request = w.request /\ v.pod = w.pod
        /\ v.built = w.built /\ v.images = w.images
        /\ v.archives = w.archives /\ v.served = w.served
        /\ v.changes = w.changes
    BY <2>1, <2>a1, PutSnapshot
  <2>4. PutsMachines(w, v, "drop", s[2])
    BY <2>3 DEF PutsMachines, MachineKind
  <2>5. PutsDebts(w, v, "drop", s[2])
    BY <2>3 DEF PutsDebts
  <2>6. PutsRest(w, v, "drop")
    BY <2>3 DEF PutsRest
  <2>7. v \in Worlds
    BY <2>3
  <2> QED
    BY <1>8, <2>4, <2>5, <2>6, <2>7 DEF Puts, v
<1>9. CASE s[1] = "snapshot"
  <2> DEFINE
    x == [w.snapshot EXCEPT ![s[2]] = Snapshot(w, r, s[2])]
    v == Effect(w, r, s)
  <2>1. v = [w EXCEPT !.snapshot = x]
    BY <1>9 DEF Effect
  <2>a1. x \in [Node -> Cuts]
    BY <1>0, WorldFields, RunFields, <1>000
  <2> HIDE DEF x, v
  <2>3.
        /\ v \in Worlds /\ v.snapshot = x /\ v.vm = w.vm /\ v.disk = w.disk
        /\ v.from = w.from /\ v.tokens = w.tokens /\ v.config = w.config
        /\ v.backup = w.backup /\ v.operators = w.operators
        /\ v.kind = w.kind /\ v.forwards = w.forwards /\ v.secret = w.secret
        /\ v.elastic = w.elastic /\ v.user = w.user /\ v.files = w.files
        /\ v.zipkin = w.zipkin /\ v.request = w.request /\ v.pod = w.pod
        /\ v.built = w.built /\ v.images = w.images
        /\ v.archives = w.archives /\ v.served = w.served
        /\ v.changes = w.changes
    BY <2>1, <2>a1, PutSnapshot
  <2>4. PutsMachines(w, v, "snapshot", s[2])
    BY <2>3 DEF PutsMachines, MachineKind
  <2>5. PutsDebts(w, v, "snapshot", s[2])
    BY <2>3 DEF PutsDebts
  <2>6. PutsRest(w, v, "snapshot")
    BY <2>3 DEF PutsRest
  <2>7. v \in Worlds
    BY <2>3
  <2> QED
    BY <1>9, <2>4, <2>5, <2>6, <2>7 DEF Puts, v
<1>10. CASE s[1] = "restore"
  <2> DEFINE
    x1 == [w.from EXCEPT ![s[2]] = w.snapshot[s[2]]]
    x2 == [w.disk EXCEPT ![s[2]] = w.snapshot[s[2]].disk]
    v == Effect(w, r, s)
  <2>1. v = [w EXCEPT !.from = x1, !.disk = x2]
    BY <1>10 DEF Effect
  <2>a1. x1 \in [Node -> Cuts]
    BY <1>0, WorldFields, RunFields
  <2>a2. x2 \in [Node -> Disk]
    BY <1>0, WorldFields, RunFields, <1>a
  <2> HIDE DEF x1, x2, v
  <2>3.
        /\ v \in Worlds /\ v.from = x1 /\ v.disk = x2 /\ v.vm = w.vm
        /\ v.snapshot = w.snapshot /\ v.tokens = w.tokens
        /\ v.config = w.config /\ v.backup = w.backup
        /\ v.operators = w.operators /\ v.kind = w.kind
        /\ v.forwards = w.forwards /\ v.secret = w.secret
        /\ v.elastic = w.elastic /\ v.user = w.user /\ v.files = w.files
        /\ v.zipkin = w.zipkin /\ v.request = w.request /\ v.pod = w.pod
        /\ v.built = w.built /\ v.images = w.images
        /\ v.archives = w.archives /\ v.served = w.served
        /\ v.changes = w.changes
    BY <2>1, <2>a1, <2>a2 DEF Worlds
  <2>4. PutsMachines(w, v, "restore", s[2])
    BY <2>3 DEF PutsMachines, MachineKind
  <2>5. PutsDebts(w, v, "restore", s[2])
    BY <2>3 DEF PutsDebts
  <2>6. PutsRest(w, v, "restore")
    BY <2>3 DEF PutsRest
  <2>7. v \in Worlds
    BY <2>3
  <2> QED
    BY <1>10, <2>4, <2>5, <2>6, <2>7 DEF Puts, v
<1>11. CASE s[1] = "serve"
  <2> DEFINE
    x == [w.disk EXCEPT ![s[2]] = @ \cup {"k3s"}]
    v == Effect(w, r, s)
  <2>1. v = [w EXCEPT !.disk = x]
    BY <1>11 DEF Effect
  <2>a1. x \in [Node -> Disk]
    BY <1>0, WorldFields, RunFields DEF Disk
  <2> HIDE DEF x, v
  <2>3.
        /\ v \in Worlds /\ v.disk = x /\ v.vm = w.vm
        /\ v.snapshot = w.snapshot /\ v.from = w.from /\ v.tokens = w.tokens
        /\ v.config = w.config /\ v.backup = w.backup
        /\ v.operators = w.operators /\ v.kind = w.kind
        /\ v.forwards = w.forwards /\ v.secret = w.secret
        /\ v.elastic = w.elastic /\ v.user = w.user /\ v.files = w.files
        /\ v.zipkin = w.zipkin /\ v.request = w.request /\ v.pod = w.pod
        /\ v.built = w.built /\ v.images = w.images
        /\ v.archives = w.archives /\ v.served = w.served
        /\ v.changes = w.changes
    BY <2>1, <2>a1, PutDisk
  <2>4. PutsMachines(w, v, "serve", s[2])
    BY <2>3 DEF PutsMachines, MachineKind
  <2>5. PutsDebts(w, v, "serve", s[2])
    BY <2>3 DEF PutsDebts
  <2>6. PutsRest(w, v, "serve")
    BY <2>3 DEF PutsRest
  <2>7. v \in Worlds
    BY <2>3
  <2> QED
    BY <1>11, <2>4, <2>5, <2>6, <2>7 DEF Puts, v
<1>12. CASE s[1] = "join"
  <2> DEFINE
    x == [w.disk EXCEPT ![s[2]] = @ \cup {"k3s"}]
    v == Effect(w, r, s)
  <2>1. v = [w EXCEPT !.disk = x]
    BY <1>12 DEF Effect
  <2>a1. x \in [Node -> Disk]
    BY <1>0, WorldFields, RunFields DEF Disk
  <2> HIDE DEF x, v
  <2>3.
        /\ v \in Worlds /\ v.disk = x /\ v.vm = w.vm
        /\ v.snapshot = w.snapshot /\ v.from = w.from /\ v.tokens = w.tokens
        /\ v.config = w.config /\ v.backup = w.backup
        /\ v.operators = w.operators /\ v.kind = w.kind
        /\ v.forwards = w.forwards /\ v.secret = w.secret
        /\ v.elastic = w.elastic /\ v.user = w.user /\ v.files = w.files
        /\ v.zipkin = w.zipkin /\ v.request = w.request /\ v.pod = w.pod
        /\ v.built = w.built /\ v.images = w.images
        /\ v.archives = w.archives /\ v.served = w.served
        /\ v.changes = w.changes
    BY <2>1, <2>a1, PutDisk
  <2>4. PutsMachines(w, v, "join", s[2])
    BY <2>3 DEF PutsMachines, MachineKind
  <2>5. PutsDebts(w, v, "join", s[2])
    BY <2>3 DEF PutsDebts
  <2>6. PutsRest(w, v, "join")
    BY <2>3 DEF PutsRest
  <2>7. v \in Worlds
    BY <2>3
  <2> QED
    BY <1>12, <2>4, <2>5, <2>6, <2>7 DEF Puts, v
<1>13. CASE s[1] = "pushToken"
  <2> DEFINE
    x == w.tokens \cup {s[2]}
    v == Effect(w, r, s)
  <2>1. v = [w EXCEPT !.tokens = x]
    BY <1>13 DEF Effect
  <2>a1. x \in SUBSET Arg
    BY <1>0, WorldFields, RunFields
  <2> HIDE DEF x, v
  <2>3.
        /\ v \in Worlds /\ v.tokens = x /\ v.vm = w.vm /\ v.disk = w.disk
        /\ v.snapshot = w.snapshot /\ v.from = w.from /\ v.config = w.config
        /\ v.backup = w.backup /\ v.operators = w.operators
        /\ v.kind = w.kind /\ v.forwards = w.forwards /\ v.secret = w.secret
        /\ v.elastic = w.elastic /\ v.user = w.user /\ v.files = w.files
        /\ v.zipkin = w.zipkin /\ v.request = w.request /\ v.pod = w.pod
        /\ v.built = w.built /\ v.images = w.images
        /\ v.archives = w.archives /\ v.served = w.served
        /\ v.changes = w.changes
    BY <2>1, <2>a1, PutTokens
  <2>4. PutsMachines(w, v, "pushToken", s[2])
    BY <2>3 DEF PutsMachines, MachineKind
  <2>5. PutsDebts(w, v, "pushToken", s[2])
    BY <2>3 DEF PutsDebts, x
  <2>6. PutsRest(w, v, "pushToken")
    BY <2>3 DEF PutsRest
  <2>7. v \in Worlds
    BY <2>3
  <2> QED
    BY <1>13, <2>4, <2>5, <2>6, <2>7 DEF Puts, v
<1>14. CASE s[1] = "removeToken"
  <2> DEFINE
    x == w.tokens \ {s[2]}
    v == Effect(w, r, s)
  <2>1. v = [w EXCEPT !.tokens = x]
    BY <1>14 DEF Effect
  <2>a1. x \in SUBSET Arg
    BY <1>0, WorldFields, RunFields
  <2> HIDE DEF x, v
  <2>3.
        /\ v \in Worlds /\ v.tokens = x /\ v.vm = w.vm /\ v.disk = w.disk
        /\ v.snapshot = w.snapshot /\ v.from = w.from /\ v.config = w.config
        /\ v.backup = w.backup /\ v.operators = w.operators
        /\ v.kind = w.kind /\ v.forwards = w.forwards /\ v.secret = w.secret
        /\ v.elastic = w.elastic /\ v.user = w.user /\ v.files = w.files
        /\ v.zipkin = w.zipkin /\ v.request = w.request /\ v.pod = w.pod
        /\ v.built = w.built /\ v.images = w.images
        /\ v.archives = w.archives /\ v.served = w.served
        /\ v.changes = w.changes
    BY <2>1, <2>a1, PutTokens
  <2>4. PutsMachines(w, v, "removeToken", s[2])
    BY <2>3 DEF PutsMachines, MachineKind
  <2>5. PutsDebts(w, v, "removeToken", s[2])
    BY <2>3 DEF PutsDebts, x
  <2>6. PutsRest(w, v, "removeToken")
    BY <2>3 DEF PutsRest
  <2>7. v \in Worlds
    BY <2>3
  <2> QED
    BY <1>14, <2>4, <2>5, <2>6, <2>7 DEF Puts, v
<1>15. CASE s[1] = "backUp"
  <2> DEFINE
    x == w.config
    v == Effect(w, r, s)
  <2>1. v = [w EXCEPT !.backup = x]
    BY <1>15 DEF Effect
  <2>a1. x \in Config
    BY <1>0, WorldFields, RunFields
  <2> HIDE DEF x, v
  <2>3.
        /\ v \in Worlds /\ v.backup = x /\ v.vm = w.vm /\ v.disk = w.disk
        /\ v.snapshot = w.snapshot /\ v.from = w.from /\ v.tokens = w.tokens
        /\ v.config = w.config /\ v.operators = w.operators
        /\ v.kind = w.kind /\ v.forwards = w.forwards /\ v.secret = w.secret
        /\ v.elastic = w.elastic /\ v.user = w.user /\ v.files = w.files
        /\ v.zipkin = w.zipkin /\ v.request = w.request /\ v.pod = w.pod
        /\ v.built = w.built /\ v.images = w.images
        /\ v.archives = w.archives /\ v.served = w.served
        /\ v.changes = w.changes
    BY <2>1, <2>a1, PutBackup
  <2>4. PutsMachines(w, v, "backUp", s[2])
    BY <2>3 DEF PutsMachines, MachineKind
  <2>5. PutsDebts(w, v, "backUp", s[2])
    BY <2>3 DEF PutsDebts
  <2>6. PutsRest(w, v, "backUp")
    BY <2>3 DEF PutsRest
  <2>7. v \in Worlds
    BY <2>3
  <2> QED
    BY <1>15, <2>4, <2>5, <2>6, <2>7 DEF Puts, v
<1>16. CASE s[1] = "replaceConfig"
  <2> DEFINE
    x == [r.config EXCEPT !.qa = r.value]
    v == Effect(w, r, s)
  <2>1. v = [w EXCEPT !.config = x]
    BY <1>16 DEF Effect
  <2>a1. x \in Config
    BY <1>0, WorldFields, RunFields DEF Config
  <2> HIDE DEF x, v
  <2>3.
        /\ v \in Worlds /\ v.config = x /\ v.vm = w.vm /\ v.disk = w.disk
        /\ v.snapshot = w.snapshot /\ v.from = w.from /\ v.tokens = w.tokens
        /\ v.backup = w.backup /\ v.operators = w.operators
        /\ v.kind = w.kind /\ v.forwards = w.forwards /\ v.secret = w.secret
        /\ v.elastic = w.elastic /\ v.user = w.user /\ v.files = w.files
        /\ v.zipkin = w.zipkin /\ v.request = w.request /\ v.pod = w.pod
        /\ v.built = w.built /\ v.images = w.images
        /\ v.archives = w.archives /\ v.served = w.served
        /\ v.changes = w.changes
    BY <2>1, <2>a1, PutConfig
  <2>4. PutsMachines(w, v, "replaceConfig", s[2])
    BY <2>3 DEF PutsMachines, MachineKind
  <2>5. PutsDebts(w, v, "replaceConfig", s[2])
    BY <2>3 DEF PutsDebts
  <2>6. PutsRest(w, v, "replaceConfig")
    BY <2>3 DEF PutsRest
  <2>7. v \in Worlds
    BY <2>3
  <2> QED
    BY <1>16, <2>4, <2>5, <2>6, <2>7 DEF Puts, v
<1>17. CASE s[1] = "operator"
  <2> DEFINE
    x == w.operators \cup {s[2]}
    v == Effect(w, r, s)
  <2>1. v = [w EXCEPT !.operators = x]
    BY <1>17 DEF Effect
  <2>a1. x \in SUBSET Arg
    BY <1>0, WorldFields, RunFields
  <2> HIDE DEF x, v
  <2>3.
        /\ v \in Worlds /\ v.operators = x /\ v.vm = w.vm /\ v.disk = w.disk
        /\ v.snapshot = w.snapshot /\ v.from = w.from /\ v.tokens = w.tokens
        /\ v.config = w.config /\ v.backup = w.backup /\ v.kind = w.kind
        /\ v.forwards = w.forwards /\ v.secret = w.secret
        /\ v.elastic = w.elastic /\ v.user = w.user /\ v.files = w.files
        /\ v.zipkin = w.zipkin /\ v.request = w.request /\ v.pod = w.pod
        /\ v.built = w.built /\ v.images = w.images
        /\ v.archives = w.archives /\ v.served = w.served
        /\ v.changes = w.changes
    BY <2>1, <2>a1, PutOperators
  <2>4. PutsMachines(w, v, "operator", s[2])
    BY <2>3 DEF PutsMachines, MachineKind
  <2>5. PutsDebts(w, v, "operator", s[2])
    BY <2>3 DEF PutsDebts
  <2>6. PutsRest(w, v, "operator")
    BY <2>3 DEF PutsRest
  <2>7. v \in Worlds
    BY <2>3
  <2> QED
    BY <1>17, <2>4, <2>5, <2>6, <2>7 DEF Puts, v
<1>18. CASE s[1] = "secret"
  <2> DEFINE
    x == [w.secret EXCEPT ![s[2]] = [@ EXCEPT !.data = r.value]]
    v == Effect(w, r, s)
  <2>1. v = [w EXCEPT !.secret = x]
    BY <1>18 DEF Effect
  <2>a1. x \in [Service -> [data : Nat, copy : Nat]]
    BY <1>0, WorldFields, RunFields, <1>b
  <2> HIDE DEF x, v
  <2>3.
        /\ v \in Worlds /\ v.secret = x /\ v.vm = w.vm /\ v.disk = w.disk
        /\ v.snapshot = w.snapshot /\ v.from = w.from /\ v.tokens = w.tokens
        /\ v.config = w.config /\ v.backup = w.backup
        /\ v.operators = w.operators /\ v.kind = w.kind
        /\ v.forwards = w.forwards /\ v.elastic = w.elastic
        /\ v.user = w.user /\ v.files = w.files /\ v.zipkin = w.zipkin
        /\ v.request = w.request /\ v.pod = w.pod /\ v.built = w.built
        /\ v.images = w.images /\ v.archives = w.archives
        /\ v.served = w.served /\ v.changes = w.changes
    BY <2>1, <2>a1, PutSecret
  <2>4. PutsMachines(w, v, "secret", s[2])
    BY <2>3 DEF PutsMachines, MachineKind
  <2>5. PutsDebts(w, v, "secret", s[2])
    BY <2>3 DEF PutsDebts
  <2>6. PutsRest(w, v, "secret")
    BY <2>3 DEF PutsRest
  <2>7. v \in Worlds
    BY <2>3
  <2> QED
    BY <1>18, <2>4, <2>5, <2>6, <2>7 DEF Puts, v
<1>19. CASE s[1] = "secretCopy"
  <2> DEFINE
    x == [w.secret EXCEPT ![s[2]] = [@ EXCEPT !.copy = r.value]]
    v == Effect(w, r, s)
  <2>1. v = [w EXCEPT !.secret = x]
    BY <1>19 DEF Effect
  <2>a1. x \in [Service -> [data : Nat, copy : Nat]]
    BY <1>0, WorldFields, RunFields, <1>b
  <2> HIDE DEF x, v
  <2>3.
        /\ v \in Worlds /\ v.secret = x /\ v.vm = w.vm /\ v.disk = w.disk
        /\ v.snapshot = w.snapshot /\ v.from = w.from /\ v.tokens = w.tokens
        /\ v.config = w.config /\ v.backup = w.backup
        /\ v.operators = w.operators /\ v.kind = w.kind
        /\ v.forwards = w.forwards /\ v.elastic = w.elastic
        /\ v.user = w.user /\ v.files = w.files /\ v.zipkin = w.zipkin
        /\ v.request = w.request /\ v.pod = w.pod /\ v.built = w.built
        /\ v.images = w.images /\ v.archives = w.archives
        /\ v.served = w.served /\ v.changes = w.changes
    BY <2>1, <2>a1, PutSecret
  <2>4. PutsMachines(w, v, "secretCopy", s[2])
    BY <2>3 DEF PutsMachines, MachineKind
  <2>5. PutsDebts(w, v, "secretCopy", s[2])
    BY <2>3 DEF PutsDebts
  <2>6. PutsRest(w, v, "secretCopy")
    BY <2>3 DEF PutsRest
  <2>7. v \in Worlds
    BY <2>3
  <2> QED
    BY <1>19, <2>4, <2>5, <2>6, <2>7 DEF Puts, v
<1>20. CASE s[1] = "copyElastic"
  <2> DEFINE
    x == [w.elastic EXCEPT !.copy = r.read]
    v == Effect(w, r, s)
  <2>1. v = [w EXCEPT !.elastic = x]
    BY <1>20 DEF Effect
  <2>a1. x \in [data : Nat, copy : Nat]
    BY <1>0, WorldFields, RunFields
  <2> HIDE DEF x, v
  <2>3.
        /\ v \in Worlds /\ v.elastic = x /\ v.vm = w.vm /\ v.disk = w.disk
        /\ v.snapshot = w.snapshot /\ v.from = w.from /\ v.tokens = w.tokens
        /\ v.config = w.config /\ v.backup = w.backup
        /\ v.operators = w.operators /\ v.kind = w.kind
        /\ v.forwards = w.forwards /\ v.secret = w.secret /\ v.user = w.user
        /\ v.files = w.files /\ v.zipkin = w.zipkin /\ v.request = w.request
        /\ v.pod = w.pod /\ v.built = w.built /\ v.images = w.images
        /\ v.archives = w.archives /\ v.served = w.served
        /\ v.changes = w.changes
    BY <2>1, <2>a1, PutElastic
  <2>4. PutsMachines(w, v, "copyElastic", s[2])
    BY <2>3 DEF PutsMachines, MachineKind
  <2>5. PutsDebts(w, v, "copyElastic", s[2])
    BY <2>3 DEF PutsDebts
  <2>6. PutsRest(w, v, "copyElastic")
    BY <2>3 DEF PutsRest
  <2>7. v \in Worlds
    BY <2>3
  <2> QED
    BY <1>20, <2>4, <2>5, <2>6, <2>7 DEF Puts, v
<1>21. CASE s[1] = "configure"
  <2> DEFINE
    x == TRUE
    v == Effect(w, r, s)
  <2>1. v = [w EXCEPT !.files = x]
    BY <1>21 DEF Effect
  <2>a1. x \in BOOLEAN
    BY <1>0, WorldFields, RunFields
  <2> HIDE DEF x, v
  <2>3.
        /\ v \in Worlds /\ v.files = x /\ v.vm = w.vm /\ v.disk = w.disk
        /\ v.snapshot = w.snapshot /\ v.from = w.from /\ v.tokens = w.tokens
        /\ v.config = w.config /\ v.backup = w.backup
        /\ v.operators = w.operators /\ v.kind = w.kind
        /\ v.forwards = w.forwards /\ v.secret = w.secret
        /\ v.elastic = w.elastic /\ v.user = w.user /\ v.zipkin = w.zipkin
        /\ v.request = w.request /\ v.pod = w.pod /\ v.built = w.built
        /\ v.images = w.images /\ v.archives = w.archives
        /\ v.served = w.served /\ v.changes = w.changes
    BY <2>1, <2>a1, PutFiles
  <2>4. PutsMachines(w, v, "configure", s[2])
    BY <2>3 DEF PutsMachines, MachineKind
  <2>5. PutsDebts(w, v, "configure", s[2])
    BY <2>3 DEF PutsDebts, x
  <2>6. PutsRest(w, v, "configure")
    BY <2>3 DEF PutsRest
  <2>7. v \in Worlds
    BY <2>3
  <2> QED
    BY <1>21, <2>4, <2>5, <2>6, <2>7 DEF Puts, v
<1>22. CASE s[1] = "import"
  <2> DEFINE
    x == r.read
    v == Effect(w, r, s)
  <2>1. v = [w EXCEPT !.user = x]
    BY <1>22 DEF Effect
  <2>a1. x \in Nat
    BY <1>0, WorldFields, RunFields
  <2> HIDE DEF x, v
  <2>3.
        /\ v \in Worlds /\ v.user = x /\ v.vm = w.vm /\ v.disk = w.disk
        /\ v.snapshot = w.snapshot /\ v.from = w.from /\ v.tokens = w.tokens
        /\ v.config = w.config /\ v.backup = w.backup
        /\ v.operators = w.operators /\ v.kind = w.kind
        /\ v.forwards = w.forwards /\ v.secret = w.secret
        /\ v.elastic = w.elastic /\ v.files = w.files /\ v.zipkin = w.zipkin
        /\ v.request = w.request /\ v.pod = w.pod /\ v.built = w.built
        /\ v.images = w.images /\ v.archives = w.archives
        /\ v.served = w.served /\ v.changes = w.changes
    BY <2>1, <2>a1, PutUser
  <2>4. PutsMachines(w, v, "import", s[2])
    BY <2>3 DEF PutsMachines, MachineKind
  <2>5. PutsDebts(w, v, "import", s[2])
    BY <2>3 DEF PutsDebts
  <2>6. PutsRest(w, v, "import")
    BY <2>3 DEF PutsRest
  <2>7. v \in Worlds
    BY <2>3
  <2> QED
    BY <1>22, <2>4, <2>5, <2>6, <2>7 DEF Puts, v
<1>23. CASE s[1] = "removeFiles"
  <2> DEFINE
    x == FALSE
    v == Effect(w, r, s)
  <2>1. v = [w EXCEPT !.files = x]
    BY <1>23 DEF Effect
  <2>a1. x \in BOOLEAN
    BY <1>0, WorldFields, RunFields
  <2> HIDE DEF x, v
  <2>3.
        /\ v \in Worlds /\ v.files = x /\ v.vm = w.vm /\ v.disk = w.disk
        /\ v.snapshot = w.snapshot /\ v.from = w.from /\ v.tokens = w.tokens
        /\ v.config = w.config /\ v.backup = w.backup
        /\ v.operators = w.operators /\ v.kind = w.kind
        /\ v.forwards = w.forwards /\ v.secret = w.secret
        /\ v.elastic = w.elastic /\ v.user = w.user /\ v.zipkin = w.zipkin
        /\ v.request = w.request /\ v.pod = w.pod /\ v.built = w.built
        /\ v.images = w.images /\ v.archives = w.archives
        /\ v.served = w.served /\ v.changes = w.changes
    BY <2>1, <2>a1, PutFiles
  <2>4. PutsMachines(w, v, "removeFiles", s[2])
    BY <2>3 DEF PutsMachines, MachineKind
  <2>5. PutsDebts(w, v, "removeFiles", s[2])
    BY <2>3 DEF PutsDebts, x
  <2>6. PutsRest(w, v, "removeFiles")
    BY <2>3 DEF PutsRest
  <2>7. v \in Worlds
    BY <2>3
  <2> QED
    BY <1>23, <2>4, <2>5, <2>6, <2>7 DEF Puts, v
<1>24. CASE s[1] = "request"
  <2> DEFINE
    x == r.read
    v == Effect(w, r, s)
  <2>1. v = [w EXCEPT !.request = x]
    BY <1>24 DEF Effect
  <2>a1. x \in Nat
    BY <1>0, WorldFields, RunFields
  <2> HIDE DEF x, v
  <2>3.
        /\ v \in Worlds /\ v.request = x /\ v.vm = w.vm /\ v.disk = w.disk
        /\ v.snapshot = w.snapshot /\ v.from = w.from /\ v.tokens = w.tokens
        /\ v.config = w.config /\ v.backup = w.backup
        /\ v.operators = w.operators /\ v.kind = w.kind
        /\ v.forwards = w.forwards /\ v.secret = w.secret
        /\ v.elastic = w.elastic /\ v.user = w.user /\ v.files = w.files
        /\ v.zipkin = w.zipkin /\ v.pod = w.pod /\ v.built = w.built
        /\ v.images = w.images /\ v.archives = w.archives
        /\ v.served = w.served /\ v.changes = w.changes
    BY <2>1, <2>a1, PutRequest
  <2>4. PutsMachines(w, v, "request", s[2])
    BY <2>3 DEF PutsMachines, MachineKind
  <2>5. PutsDebts(w, v, "request", s[2])
    BY <2>3 DEF PutsDebts, x
  <2>6. PutsRest(w, v, "request")
    BY <2>3 DEF PutsRest
  <2>7. v \in Worlds
    BY <2>3
  <2> QED
    BY <1>24, <2>4, <2>5, <2>6, <2>7 DEF Puts, v
<1>25. CASE s[1] = "deletePod"
  <2> DEFINE
    x == "absent"
    v == Effect(w, r, s)
  <2>1. v = [w EXCEPT !.pod = x]
    BY <1>25 DEF Effect
  <2>a1. x \in {"absent", "pending", "succeeded", "failed"}
    BY <1>0, WorldFields, RunFields
  <2> HIDE DEF x, v
  <2>3.
        /\ v \in Worlds /\ v.pod = x /\ v.vm = w.vm /\ v.disk = w.disk
        /\ v.snapshot = w.snapshot /\ v.from = w.from /\ v.tokens = w.tokens
        /\ v.config = w.config /\ v.backup = w.backup
        /\ v.operators = w.operators /\ v.kind = w.kind
        /\ v.forwards = w.forwards /\ v.secret = w.secret
        /\ v.elastic = w.elastic /\ v.user = w.user /\ v.files = w.files
        /\ v.zipkin = w.zipkin /\ v.request = w.request /\ v.built = w.built
        /\ v.images = w.images /\ v.archives = w.archives
        /\ v.served = w.served /\ v.changes = w.changes
    BY <2>1, <2>a1, PutPod
  <2>4. PutsMachines(w, v, "deletePod", s[2])
    BY <2>3 DEF PutsMachines, MachineKind
  <2>5. PutsDebts(w, v, "deletePod", s[2])
    BY <2>3 DEF PutsDebts, x
  <2>6. PutsRest(w, v, "deletePod")
    BY <2>3 DEF PutsRest
  <2>7. v \in Worlds
    BY <2>3
  <2> QED
    BY <1>25, <2>4, <2>5, <2>6, <2>7 DEF Puts, v
<1>26. CASE s[1] = "removePod"
  <2> DEFINE
    x == "absent"
    v == Effect(w, r, s)
  <2>1. v = [w EXCEPT !.pod = x]
    BY <1>26 DEF Effect
  <2>a1. x \in {"absent", "pending", "succeeded", "failed"}
    BY <1>0, WorldFields, RunFields
  <2> HIDE DEF x, v
  <2>3.
        /\ v \in Worlds /\ v.pod = x /\ v.vm = w.vm /\ v.disk = w.disk
        /\ v.snapshot = w.snapshot /\ v.from = w.from /\ v.tokens = w.tokens
        /\ v.config = w.config /\ v.backup = w.backup
        /\ v.operators = w.operators /\ v.kind = w.kind
        /\ v.forwards = w.forwards /\ v.secret = w.secret
        /\ v.elastic = w.elastic /\ v.user = w.user /\ v.files = w.files
        /\ v.zipkin = w.zipkin /\ v.request = w.request /\ v.built = w.built
        /\ v.images = w.images /\ v.archives = w.archives
        /\ v.served = w.served /\ v.changes = w.changes
    BY <2>1, <2>a1, PutPod
  <2>4. PutsMachines(w, v, "removePod", s[2])
    BY <2>3 DEF PutsMachines, MachineKind
  <2>5. PutsDebts(w, v, "removePod", s[2])
    BY <2>3 DEF PutsDebts, x
  <2>6. PutsRest(w, v, "removePod")
    BY <2>3 DEF PutsRest
  <2>7. v \in Worlds
    BY <2>3
  <2> QED
    BY <1>26, <2>4, <2>5, <2>6, <2>7 DEF Puts, v
<1>27. CASE s[1] = "setupPod"
  <2> DEFINE
    x == IF w.pod = "absent" THEN "pending" ELSE w.pod
    v == Effect(w, r, s)
  <2>1. v = [w EXCEPT !.pod = x]
    BY <1>27 DEF Effect
  <2>a1. x \in {"absent", "pending", "succeeded", "failed"}
    BY <1>0, WorldFields, RunFields
  <2> HIDE DEF x, v
  <2>3.
        /\ v \in Worlds /\ v.pod = x /\ v.vm = w.vm /\ v.disk = w.disk
        /\ v.snapshot = w.snapshot /\ v.from = w.from /\ v.tokens = w.tokens
        /\ v.config = w.config /\ v.backup = w.backup
        /\ v.operators = w.operators /\ v.kind = w.kind
        /\ v.forwards = w.forwards /\ v.secret = w.secret
        /\ v.elastic = w.elastic /\ v.user = w.user /\ v.files = w.files
        /\ v.zipkin = w.zipkin /\ v.request = w.request /\ v.built = w.built
        /\ v.images = w.images /\ v.archives = w.archives
        /\ v.served = w.served /\ v.changes = w.changes
    BY <2>1, <2>a1, PutPod
  <2>4. PutsMachines(w, v, "setupPod", s[2])
    BY <2>3 DEF PutsMachines, MachineKind
  <2>5. PutsDebts(w, v, "setupPod", s[2])
    BY <2>3 DEF PutsDebts, x
  <2>6. PutsRest(w, v, "setupPod")
    BY <2>3 DEF PutsRest
  <2>7. v \in Worlds
    BY <2>3
  <2> QED
    BY <1>27, <2>4, <2>5, <2>6, <2>7 DEF Puts, v
<1>28. CASE s[1] = "removeRequest"
  <2> DEFINE
    x == None
    v == Effect(w, r, s)
  <2>1. v = [w EXCEPT !.request = x]
    BY <1>28 DEF Effect
  <2>a1. x \in Nat
    BY <1>0, WorldFields, RunFields DEF None
  <2> HIDE DEF x, v
  <2>3.
        /\ v \in Worlds /\ v.request = x /\ v.vm = w.vm /\ v.disk = w.disk
        /\ v.snapshot = w.snapshot /\ v.from = w.from /\ v.tokens = w.tokens
        /\ v.config = w.config /\ v.backup = w.backup
        /\ v.operators = w.operators /\ v.kind = w.kind
        /\ v.forwards = w.forwards /\ v.secret = w.secret
        /\ v.elastic = w.elastic /\ v.user = w.user /\ v.files = w.files
        /\ v.zipkin = w.zipkin /\ v.pod = w.pod /\ v.built = w.built
        /\ v.images = w.images /\ v.archives = w.archives
        /\ v.served = w.served /\ v.changes = w.changes
    BY <2>1, <2>a1, PutRequest
  <2>4. PutsMachines(w, v, "removeRequest", s[2])
    BY <2>3 DEF PutsMachines, MachineKind
  <2>5. PutsDebts(w, v, "removeRequest", s[2])
    BY <2>3 DEF PutsDebts, x
  <2>6. PutsRest(w, v, "removeRequest")
    BY <2>3 DEF PutsRest
  <2>7. v \in Worlds
    BY <2>3
  <2> QED
    BY <1>28, <2>4, <2>5, <2>6, <2>7 DEF Puts, v
<1>29. CASE s[1] = "pushArchive"
  <2> DEFINE
    x == w.archives \cup {s[2]}
    v == Effect(w, r, s)
  <2>1. v = [w EXCEPT !.archives = x]
    BY <1>29 DEF Effect
  <2>a1. x \in SUBSET Arg
    BY <1>0, WorldFields, RunFields
  <2> HIDE DEF x, v
  <2>3.
        /\ v \in Worlds /\ v.archives = x /\ v.vm = w.vm /\ v.disk = w.disk
        /\ v.snapshot = w.snapshot /\ v.from = w.from /\ v.tokens = w.tokens
        /\ v.config = w.config /\ v.backup = w.backup
        /\ v.operators = w.operators /\ v.kind = w.kind
        /\ v.forwards = w.forwards /\ v.secret = w.secret
        /\ v.elastic = w.elastic /\ v.user = w.user /\ v.files = w.files
        /\ v.zipkin = w.zipkin /\ v.request = w.request /\ v.pod = w.pod
        /\ v.built = w.built /\ v.images = w.images /\ v.served = w.served
        /\ v.changes = w.changes
    BY <2>1, <2>a1, PutArchives
  <2>4. PutsMachines(w, v, "pushArchive", s[2])
    BY <2>3 DEF PutsMachines, MachineKind
  <2>5. PutsDebts(w, v, "pushArchive", s[2])
    BY <2>3 DEF PutsDebts, x
  <2>6. PutsRest(w, v, "pushArchive")
    BY <2>3 DEF PutsRest
  <2>7. v \in Worlds
    BY <2>3
  <2> QED
    BY <1>29, <2>4, <2>5, <2>6, <2>7 DEF Puts, v
<1>30. CASE s[1] = "importImage"
  <2> DEFINE
    x == [w.images EXCEPT ![s[2]] = r.read]
    v == Effect(w, r, s)
  <2>1. v = [w EXCEPT !.images = x]
    BY <1>30 DEF Effect
  <2>a1. x \in [Node -> Nat]
    BY <1>0, WorldFields, RunFields
  <2> HIDE DEF x, v
  <2>3.
        /\ v \in Worlds /\ v.images = x /\ v.vm = w.vm /\ v.disk = w.disk
        /\ v.snapshot = w.snapshot /\ v.from = w.from /\ v.tokens = w.tokens
        /\ v.config = w.config /\ v.backup = w.backup
        /\ v.operators = w.operators /\ v.kind = w.kind
        /\ v.forwards = w.forwards /\ v.secret = w.secret
        /\ v.elastic = w.elastic /\ v.user = w.user /\ v.files = w.files
        /\ v.zipkin = w.zipkin /\ v.request = w.request /\ v.pod = w.pod
        /\ v.built = w.built /\ v.archives = w.archives
        /\ v.served = w.served /\ v.changes = w.changes
    BY <2>1, <2>a1, PutImages
  <2>4. PutsMachines(w, v, "importImage", s[2])
    BY <2>3 DEF PutsMachines, MachineKind, x
  <2>5. PutsDebts(w, v, "importImage", s[2])
    BY <2>3 DEF PutsDebts
  <2>6. PutsRest(w, v, "importImage")
    BY <2>3 DEF PutsRest
  <2>7. v \in Worlds
    BY <2>3
  <2> QED
    BY <1>30, <2>4, <2>5, <2>6, <2>7 DEF Puts, v
<1>31. CASE s[1] = "removeArchive"
  <2> DEFINE
    x == w.archives \ {s[2]}
    v == Effect(w, r, s)
  <2>1. v = [w EXCEPT !.archives = x]
    BY <1>31 DEF Effect
  <2>a1. x \in SUBSET Arg
    BY <1>0, WorldFields, RunFields
  <2> HIDE DEF x, v
  <2>3.
        /\ v \in Worlds /\ v.archives = x /\ v.vm = w.vm /\ v.disk = w.disk
        /\ v.snapshot = w.snapshot /\ v.from = w.from /\ v.tokens = w.tokens
        /\ v.config = w.config /\ v.backup = w.backup
        /\ v.operators = w.operators /\ v.kind = w.kind
        /\ v.forwards = w.forwards /\ v.secret = w.secret
        /\ v.elastic = w.elastic /\ v.user = w.user /\ v.files = w.files
        /\ v.zipkin = w.zipkin /\ v.request = w.request /\ v.pod = w.pod
        /\ v.built = w.built /\ v.images = w.images /\ v.served = w.served
        /\ v.changes = w.changes
    BY <2>1, <2>a1, PutArchives
  <2>4. PutsMachines(w, v, "removeArchive", s[2])
    BY <2>3 DEF PutsMachines, MachineKind
  <2>5. PutsDebts(w, v, "removeArchive", s[2])
    BY <2>3 DEF PutsDebts, x
  <2>6. PutsRest(w, v, "removeArchive")
    BY <2>3 DEF PutsRest
  <2>7. v \in Worlds
    BY <2>3
  <2> QED
    BY <1>31, <2>4, <2>5, <2>6, <2>7 DEF Puts, v
<1>32. CASE s[1] = "redeploy"
  <2> DEFINE
    x == [password |-> w.secret["minio"].copy, elastic |-> w.elastic.copy]
    v == Effect(w, r, s)
  <2>1. v = [w EXCEPT !.served = x]
    BY <1>32 DEF Effect
  <2>a1. x \in [password : Nat, elastic : Nat]
    BY <1>0, WorldFields, RunFields DEF Service
  <2> HIDE DEF x, v
  <2>3.
        /\ v \in Worlds /\ v.served = x /\ v.vm = w.vm /\ v.disk = w.disk
        /\ v.snapshot = w.snapshot /\ v.from = w.from /\ v.tokens = w.tokens
        /\ v.config = w.config /\ v.backup = w.backup
        /\ v.operators = w.operators /\ v.kind = w.kind
        /\ v.forwards = w.forwards /\ v.secret = w.secret
        /\ v.elastic = w.elastic /\ v.user = w.user /\ v.files = w.files
        /\ v.zipkin = w.zipkin /\ v.request = w.request /\ v.pod = w.pod
        /\ v.built = w.built /\ v.images = w.images
        /\ v.archives = w.archives /\ v.changes = w.changes
    BY <2>1, <2>a1, PutServed
  <2>4. PutsMachines(w, v, "redeploy", s[2])
    BY <2>3 DEF PutsMachines, MachineKind
  <2>5. PutsDebts(w, v, "redeploy", s[2])
    BY <2>3 DEF PutsDebts
  <2>6. PutsRest(w, v, "redeploy")
    BY <2>3 DEF PutsRest
  <2>7. v \in Worlds
    BY <2>3
  <2> QED
    BY <1>32, <2>4, <2>5, <2>6, <2>7 DEF Puts, v
<1>33. CASE s[1] = "createKind"
  <2> DEFINE
    x == TRUE
    v == Effect(w, r, s)
  <2>1. v = [w EXCEPT !.kind = x]
    BY <1>33 DEF Effect
  <2>a1. x \in BOOLEAN
    BY <1>0, WorldFields, RunFields
  <2> HIDE DEF x, v
  <2>3.
        /\ v \in Worlds /\ v.kind = x /\ v.vm = w.vm /\ v.disk = w.disk
        /\ v.snapshot = w.snapshot /\ v.from = w.from /\ v.tokens = w.tokens
        /\ v.config = w.config /\ v.backup = w.backup
        /\ v.operators = w.operators /\ v.forwards = w.forwards
        /\ v.secret = w.secret /\ v.elastic = w.elastic /\ v.user = w.user
        /\ v.files = w.files /\ v.zipkin = w.zipkin /\ v.request = w.request
        /\ v.pod = w.pod /\ v.built = w.built /\ v.images = w.images
        /\ v.archives = w.archives /\ v.served = w.served
        /\ v.changes = w.changes
    BY <2>1, <2>a1, PutKind
  <2>4. PutsMachines(w, v, "createKind", s[2])
    BY <2>3 DEF PutsMachines, MachineKind
  <2>5. PutsDebts(w, v, "createKind", s[2])
    BY <2>3 DEF PutsDebts
  <2>6. PutsRest(w, v, "createKind")
    BY <2>3 DEF PutsRest
  <2>7. v \in Worlds
    BY <2>3
  <2> QED
    BY <1>33, <2>4, <2>5, <2>6, <2>7 DEF Puts, v
<1>34. CASE s[1] = "deleteKind"
  <2> DEFINE
    x1 == FALSE
    x2 == {}
    v == Effect(w, r, s)
  <2>1. v = [w EXCEPT !.kind = x1, !.forwards = x2]
    BY <1>34 DEF Effect
  <2>a1. x1 \in BOOLEAN
    BY <1>0, WorldFields, RunFields
  <2>a2. x2 \in SUBSET Arg
    BY <1>0, WorldFields, RunFields
  <2> HIDE DEF x1, x2, v
  <2>3.
        /\ v \in Worlds /\ v.kind = x1 /\ v.forwards = x2 /\ v.vm = w.vm
        /\ v.disk = w.disk /\ v.snapshot = w.snapshot /\ v.from = w.from
        /\ v.tokens = w.tokens /\ v.config = w.config /\ v.backup = w.backup
        /\ v.operators = w.operators /\ v.secret = w.secret
        /\ v.elastic = w.elastic /\ v.user = w.user /\ v.files = w.files
        /\ v.zipkin = w.zipkin /\ v.request = w.request /\ v.pod = w.pod
        /\ v.built = w.built /\ v.images = w.images
        /\ v.archives = w.archives /\ v.served = w.served
        /\ v.changes = w.changes
    BY <2>1, <2>a1, <2>a2 DEF Worlds
  <2>4. PutsMachines(w, v, "deleteKind", s[2])
    BY <2>3 DEF PutsMachines, MachineKind
  <2>5. PutsDebts(w, v, "deleteKind", s[2])
    BY <2>3 DEF PutsDebts, x2
  <2>6. PutsRest(w, v, "deleteKind")
    BY <2>3 DEF PutsRest
  <2>7. v \in Worlds
    BY <2>3
  <2> QED
    BY <1>34, <2>4, <2>5, <2>6, <2>7 DEF Puts, v
<1>35. CASE s[1] = "forward"
  <2> DEFINE
    x == w.forwards \cup {s[2]}
    v == Effect(w, r, s)
  <2>1. v = [w EXCEPT !.forwards = x]
    BY <1>35 DEF Effect
  <2>a1. x \in SUBSET Arg
    BY <1>0, WorldFields, RunFields
  <2> HIDE DEF x, v
  <2>3.
        /\ v \in Worlds /\ v.forwards = x /\ v.vm = w.vm /\ v.disk = w.disk
        /\ v.snapshot = w.snapshot /\ v.from = w.from /\ v.tokens = w.tokens
        /\ v.config = w.config /\ v.backup = w.backup
        /\ v.operators = w.operators /\ v.kind = w.kind
        /\ v.secret = w.secret /\ v.elastic = w.elastic /\ v.user = w.user
        /\ v.files = w.files /\ v.zipkin = w.zipkin /\ v.request = w.request
        /\ v.pod = w.pod /\ v.built = w.built /\ v.images = w.images
        /\ v.archives = w.archives /\ v.served = w.served
        /\ v.changes = w.changes
    BY <2>1, <2>a1, PutForwards
  <2>4. PutsMachines(w, v, "forward", s[2])
    BY <2>3 DEF PutsMachines, MachineKind
  <2>5. PutsDebts(w, v, "forward", s[2])
    BY <2>3 DEF PutsDebts, x
  <2>6. PutsRest(w, v, "forward")
    BY <2>3 DEF PutsRest
  <2>7. v \in Worlds
    BY <2>3
  <2> QED
    BY <1>35, <2>4, <2>5, <2>6, <2>7 DEF Puts, v
<1>36. CASE s[1] = "endForward"
  <2> DEFINE
    x == w.forwards \ {s[2]}
    v == Effect(w, r, s)
  <2>1. v = [w EXCEPT !.forwards = x]
    BY <1>36 DEF Effect
  <2>a1. x \in SUBSET Arg
    BY <1>0, WorldFields, RunFields
  <2> HIDE DEF x, v
  <2>3.
        /\ v \in Worlds /\ v.forwards = x /\ v.vm = w.vm /\ v.disk = w.disk
        /\ v.snapshot = w.snapshot /\ v.from = w.from /\ v.tokens = w.tokens
        /\ v.config = w.config /\ v.backup = w.backup
        /\ v.operators = w.operators /\ v.kind = w.kind
        /\ v.secret = w.secret /\ v.elastic = w.elastic /\ v.user = w.user
        /\ v.files = w.files /\ v.zipkin = w.zipkin /\ v.request = w.request
        /\ v.pod = w.pod /\ v.built = w.built /\ v.images = w.images
        /\ v.archives = w.archives /\ v.served = w.served
        /\ v.changes = w.changes
    BY <2>1, <2>a1, PutForwards
  <2>4. PutsMachines(w, v, "endForward", s[2])
    BY <2>3 DEF PutsMachines, MachineKind
  <2>5. PutsDebts(w, v, "endForward", s[2])
    BY <2>3 DEF PutsDebts, x
  <2>6. PutsRest(w, v, "endForward")
    BY <2>3 DEF PutsRest
  <2>7. v \in Worlds
    BY <2>3
  <2> QED
    BY <1>36, <2>4, <2>5, <2>6, <2>7 DEF Puts, v
<1>37. CASE s[1] \notin
           {"launch", "prepare", "pause", "pauseNode",
            "start", "resume", "delete", "drop", "snapshot",
            "restore", "serve", "join", "pushToken",
            "removeToken", "backUp", "replaceConfig",
            "operator", "secret", "secretCopy",
            "copyElastic", "configure", "import",
            "removeFiles", "request", "deletePod",
            "removePod", "setupPod", "removeRequest",
            "pushArchive", "importImage", "removeArchive",
            "redeploy", "createKind", "deleteKind",
            "forward", "endForward"}
  <2>1. Effect(w, r, s) = w
    BY <1>37 DEF Effect
  <2>2. Puts(w, w, s[1], s[2])
    BY <1>37 DEF Puts, PutsMachines, PutsDebts, PutsRest, MachineKind
  <2> QED
    BY <2>1, <2>2
<1> QED
  BY <1>1, <1>2, <1>3, <1>4, <1>5, <1>6, <1>7, <1>8, <1>9, <1>10, <1>11,
     <1>12, <1>13, <1>14, <1>15, <1>16, <1>17, <1>18, <1>19, <1>20, <1>21,
     <1>22, <1>23, <1>24, <1>25, <1>26, <1>27, <1>28, <1>29, <1>30, <1>31,
     <1>32, <1>33, <1>34, <1>35, <1>36, <1>37

\* What a step does to the machines, and to each of them.
LEMMA Moves ==
    ASSUME NEW w \in Worlds, NEW e, NEW k, NEW a, PutsMachines(w, e, k, a),
           NEW n \in Node
    PROVE  /\ (n # a \/ k \notin MachineKind) => e.vm[n] = w.vm[n]
           /\ (n = a /\ k \in {"launch", "start", "resume"}) =>
                 e.vm[n] = "running"
           /\ (n = a /\ k \in {"pause", "pauseNode"}) => e.vm[n] = "frozen"
           /\ (n = a /\ k = "delete") => e.vm[n] = "absent"
<1>1. w.vm \in [Node -> VmState]
  BY WorldFields
<1> DEFINE v == w.vm
<1>2. /\ k \in {"launch", "start", "resume"} =>
            e.vm = [v EXCEPT ![a] = "running"]
      /\ k \in {"pause", "pauseNode"} => e.vm = [v EXCEPT ![a] = "frozen"]
      /\ k = "delete" => e.vm = [v EXCEPT ![a] = "absent"]
      /\ k \notin MachineKind => e.vm = v
  BY DEF PutsMachines
<1>3. v \in [Node -> VmState]
  BY <1>1
<1>4. MachineKind =
         {"launch", "start", "resume"} \cup {"pause", "pauseNode"}
            \cup {"delete"}
  BY DEF MachineKind
<1> HIDE DEF v
<1>5. CASE k \in {"launch", "start", "resume"}
  BY <1>2, <1>3, <1>4, <1>5 DEF v
<1>6. CASE k \in {"pause", "pauseNode"}
  BY <1>2, <1>3, <1>4, <1>6 DEF v
<1>7. CASE k = "delete"
  BY <1>2, <1>3, <1>4, <1>7 DEF v
<1>8. CASE k \notin MachineKind
  BY <1>2, <1>4, <1>8 DEF v
<1> QED
  BY <1>4, <1>5, <1>6, <1>7, <1>8

-----------------------------------------------------------------------------
(* What a step does to the command.                                        *)

\* All but what is owed and learnt.
Keeps(q, r) ==
    /\ q \in Runs /\ q.profile = r.profile /\ q.script = r.script
    /\ q.state = r.state /\ q.outcome = r.outcome /\ q.todo = r.todo
    /\ q.value = r.value /\ q.ran = r.ran
    /\ q.missed = r.missed /\ q.operations = r.operations
    /\ q.complete = r.complete /\ (r.asked => q.asked)

Mid(w, r, s) == Settled(Owing(Learns(w, r, s), s, TRUE), s)

LEMMA PutRead ==
    ASSUME NEW r \in Runs, NEW x0 \in Nat, NEW q,
           q = [r EXCEPT !.read = x0]
    PROVE
      /\ q \in Runs /\ q.read = x0 /\ q.profile = r.profile
      /\ q.script = r.script /\ q.state = r.state /\ q.verdict = r.verdict
      /\ q.outcome = r.outcome /\ q.todo = r.todo /\ q.owed = r.owed
      /\ q.errors = r.errors /\ q.masked = r.masked /\ q.asked = r.asked
      /\ q.value = r.value /\ q.ran = r.ran
      /\ q.missed = r.missed /\ q.config = r.config
      /\ q.operations = r.operations /\ q.troubles = r.troubles
      /\ q.complete = r.complete
BY DEF Runs

LEMMA PutConfigured ==
    ASSUME NEW r \in Runs, NEW x0 \in Config, NEW q,
           q = [r EXCEPT !.config = x0]
    PROVE
      /\ q \in Runs /\ q.config = x0 /\ q.profile = r.profile
      /\ q.script = r.script /\ q.state = r.state /\ q.verdict = r.verdict
      /\ q.outcome = r.outcome /\ q.todo = r.todo /\ q.owed = r.owed
      /\ q.errors = r.errors /\ q.masked = r.masked /\ q.asked = r.asked
      /\ q.value = r.value /\ q.read = r.read /\ q.ran = r.ran
      /\ q.missed = r.missed
      /\ q.operations = r.operations /\ q.troubles = r.troubles
      /\ q.complete = r.complete
BY DEF Runs

LEMMA PutOwed ==
    ASSUME NEW r \in Runs, NEW x0 \in Seq(Calls), NEW q,
           q = [r EXCEPT !.owed = x0]
    PROVE
      /\ q \in Runs /\ q.owed = x0 /\ q.profile = r.profile
      /\ q.script = r.script /\ q.state = r.state /\ q.verdict = r.verdict
      /\ q.outcome = r.outcome /\ q.todo = r.todo /\ q.errors = r.errors
      /\ q.masked = r.masked /\ q.asked = r.asked /\ q.value = r.value
      /\ q.read = r.read /\ q.ran = r.ran
      /\ q.missed = r.missed /\ q.config = r.config
      /\ q.operations = r.operations /\ q.troubles = r.troubles
      /\ q.complete = r.complete
BY DEF Runs

LEMMA PutTodo ==
    ASSUME NEW r \in Runs, NEW x0 \in Seq(Calls), NEW q,
           q = [r EXCEPT !.todo = x0]
    PROVE
      /\ q \in Runs /\ q.todo = x0 /\ q.profile = r.profile
      /\ q.script = r.script /\ q.state = r.state /\ q.verdict = r.verdict
      /\ q.outcome = r.outcome /\ q.owed = r.owed /\ q.errors = r.errors
      /\ q.masked = r.masked /\ q.asked = r.asked /\ q.value = r.value
      /\ q.read = r.read /\ q.ran = r.ran
      /\ q.missed = r.missed /\ q.config = r.config
      /\ q.operations = r.operations /\ q.troubles = r.troubles
      /\ q.complete = r.complete
BY DEF Runs

LEMMA PutErrors ==
    ASSUME NEW r \in Runs, NEW x0 \in BOOLEAN, NEW q,
           q = [r EXCEPT !.errors = x0]
    PROVE
      /\ q \in Runs /\ q.errors = x0 /\ q.profile = r.profile
      /\ q.script = r.script /\ q.state = r.state /\ q.verdict = r.verdict
      /\ q.outcome = r.outcome /\ q.todo = r.todo /\ q.owed = r.owed
      /\ q.masked = r.masked /\ q.asked = r.asked /\ q.value = r.value
      /\ q.read = r.read /\ q.ran = r.ran
      /\ q.missed = r.missed /\ q.config = r.config
      /\ q.operations = r.operations /\ q.troubles = r.troubles
      /\ q.complete = r.complete
BY DEF Runs

LEMMA PutTroubles ==
    ASSUME NEW r \in Runs, NEW x0 \in Nat, NEW q,
           q = [r EXCEPT !.troubles = x0]
    PROVE
      /\ q \in Runs /\ q.troubles = x0 /\ q.profile = r.profile
      /\ q.script = r.script /\ q.state = r.state /\ q.verdict = r.verdict
      /\ q.outcome = r.outcome /\ q.todo = r.todo /\ q.owed = r.owed
      /\ q.errors = r.errors /\ q.masked = r.masked /\ q.asked = r.asked
      /\ q.value = r.value /\ q.read = r.read /\ q.ran = r.ran
      /\ q.missed = r.missed
      /\ q.config = r.config /\ q.operations = r.operations
      /\ q.complete = r.complete
BY DEF Runs

LEMMA PutMasked ==
    ASSUME NEW r \in Runs, NEW x0 \in Nat, NEW x1 \in BOOLEAN, NEW q,
           q = [r EXCEPT !.troubles = x0, !.masked = x1]
    PROVE
      /\ q \in Runs /\ q.troubles = x0 /\ q.masked = x1
      /\ q.profile = r.profile /\ q.script = r.script /\ q.state = r.state
      /\ q.verdict = r.verdict /\ q.outcome = r.outcome /\ q.todo = r.todo
      /\ q.owed = r.owed /\ q.errors = r.errors /\ q.asked = r.asked
      /\ q.value = r.value /\ q.read = r.read /\ q.ran = r.ran
      /\ q.missed = r.missed
      /\ q.config = r.config /\ q.operations = r.operations
      /\ q.complete = r.complete
BY DEF Runs

LEMMA PutCleanup ==
    ASSUME NEW r \in Runs, NEW x0 \in {"idle", "body", "cleanup"},
           NEW x1 \in Verdict, NEW x2 \in Seq(Calls), NEW q,
           q = [r EXCEPT !.state = x0, !.outcome = x1, !.todo = x2]
    PROVE
      /\ q \in Runs /\ q.state = x0 /\ q.outcome = x1 /\ q.todo = x2
      /\ q.profile = r.profile /\ q.script = r.script
      /\ q.verdict = r.verdict /\ q.owed = r.owed /\ q.errors = r.errors
      /\ q.masked = r.masked /\ q.asked = r.asked /\ q.value = r.value
      /\ q.read = r.read /\ q.ran = r.ran
      /\ q.missed = r.missed /\ q.config = r.config
      /\ q.operations = r.operations /\ q.troubles = r.troubles
      /\ q.complete = r.complete
BY DEF Runs

LEMMA LearnsRun ==
    ASSUME NEW w \in Worlds, NEW r \in Runs, NEW s \in Calls, NEW q,
           q = Learns(w, r, s)
    PROVE  /\ Keeps(q, r) /\ q.owed = r.owed /\ q.errors = r.errors
           /\ q.asked = r.asked
           /\ s[1] \notin {"readMinio", "readZipkin", "readElastic",
                           "saveImage"}
                 => q.read = r.read
           /\ s[1] = "readMinio" => q.read = w.secret["minio"].data
           /\ s[1] = "readZipkin" => q.read = w.secret["zipkin"].data
           /\ s[1] = "readElastic" => q.read = w.elastic.data
           /\ s[1] = "saveImage" => q.read = w.built
           /\ s[1] = "readConfig" => q.config = w.config
           /\ s[1] # "readConfig" => q.config = r.config
<1>0. /\ w.secret["minio"].data \in Nat /\ w.secret["zipkin"].data \in Nat
      /\ w.elastic.data \in Nat /\ w.built \in Nat /\ w.config \in Config
  BY WorldFields DEF Service
<1>1. CASE s[1] = "readMinio"
  <2>1. q = [r EXCEPT !.read = w.secret["minio"].data]
    BY <1>1 DEF Learns
  <2> QED
    BY <1>0, <1>1, <2>1, PutRead DEF Keeps
<1>2. CASE s[1] = "readZipkin"
  <2>1. q = [r EXCEPT !.read = w.secret["zipkin"].data]
    BY <1>2 DEF Learns
  <2> QED
    BY <1>0, <1>2, <2>1, PutRead DEF Keeps
<1>3. CASE s[1] = "readElastic"
  <2>1. q = [r EXCEPT !.read = w.elastic.data]
    BY <1>3 DEF Learns
  <2> QED
    BY <1>0, <1>3, <2>1, PutRead DEF Keeps
<1>4. CASE s[1] = "saveImage"
  <2>1. q = [r EXCEPT !.read = w.built]
    BY <1>4 DEF Learns
  <2> QED
    BY <1>0, <1>4, <2>1, PutRead DEF Keeps
<1>5. CASE s[1] = "readConfig"
  <2>1. q = [r EXCEPT !.config = w.config]
    BY <1>5 DEF Learns
  <2> QED
    BY <1>0, <1>5, <2>1, PutConfigured DEF Keeps
<1>6. CASE s[1] \notin {"readMinio", "readZipkin", "readElastic", "saveImage",
                        "readConfig"}
  <2>1. q = r
    BY <1>6 DEF Learns
  <2> QED
    BY <1>6, <2>1 DEF Keeps
<1> QED
  BY <1>1, <1>2, <1>3, <1>4, <1>5, <1>6

\* What a step owes, and why.
LEMMA OwesAre ==
    ASSUME NEW s \in Calls
    PROVE  /\ Owes(s) \in Seq(Calls)
           /\ \A o \in ToSet(Owes(s)) : o[1] \in DebtKind /\ Cause(o[1]) = s[1]
           /\ s[1] = "pause" => <<"resume", s[2]>> \in ToSet(Owes(s))
           /\ s[1] = "pause" => \A o \in ToSet(Owes(s)) : o[2] = s[2]
           /\ s[1] = "pushToken" => <<"removeToken", s[2]>> \in ToSet(Owes(s))
           /\ s[1] = "pushArchive" =>
                 <<"removeArchive", s[2]>> \in ToSet(Owes(s))
           /\ s[1] = "forward" => <<"endForward", s[2]>> \in ToSet(Owes(s))
           /\ s[1] = "configure" => <<"removeFiles", "one">> \in ToSet(Owes(s))
           /\ s[1] = "request" =>
                 /\ <<"removeRequest", "one">> \in ToSet(Owes(s))
                 /\ <<"removePod", "one">> \in ToSet(Owes(s))
<1>0. s[2] \in Arg /\ "one" \in Arg
  BY DEF Calls, Arg
<1>1. CASE s[1] = "pause"
  <2> DEFINE d == <<"resume", s[2]>>
             t == Owes(s)
  <2>1. t = <<d>>
    BY <1>1, Zenon DEF Owes
  <2>2. "resume" \in Kind /\ "resume" \in DebtKind /\ Cause("resume") = "pause"
    BY DEF Kind, DebtKind, Cause
  <2>3. d \in Calls /\ d[1] = "resume" /\ d[2] = s[2]
    BY <1>0, <2>2, ACall
  <2>4. t \in Seq(Calls) /\ ToSet(t) = {d}
    <3> HIDE DEF d, t
    <3> QED
      BY <2>1, <2>3, Literals
  <2> HIDE DEF t
  <2>5. \A o \in ToSet(t) : o = d
    BY <2>4
  <2>6. d \in ToSet(t)
    BY <2>4
  <2> HIDE DEF d
  <2>7. \A o \in ToSet(t) : /\ o[1] \in DebtKind /\ Cause(o[1]) = s[1]
                            /\ o[2] = s[2]
    BY <1>1, <2>2, <2>3, <2>5
  <2> QED
    BY <1>1, <2>4, <2>6, <2>7 DEF d, t
<1>2. CASE s[1] = "pushToken"
  <2> DEFINE d == <<"removeToken", s[2]>>
             t == Owes(s)
  <2>1. t = <<d>>
    BY <1>2, Zenon DEF Owes
  <2>2. /\ "removeToken" \in Kind /\ "removeToken" \in DebtKind
        /\ Cause("removeToken") = "pushToken"
    BY DEF Kind, DebtKind, Cause
  <2>3. d \in Calls /\ d[1] = "removeToken" /\ d[2] = s[2]
    BY <1>0, <2>2, ACall
  <2>4. t \in Seq(Calls) /\ ToSet(t) = {d}
    <3> HIDE DEF d, t
    <3> QED
      BY <2>1, <2>3, Literals
  <2> HIDE DEF t
  <2>5. \A o \in ToSet(t) : o = d
    BY <2>4
  <2>6. d \in ToSet(t)
    BY <2>4
  <2> HIDE DEF d
  <2>7. \A o \in ToSet(t) : /\ o[1] \in DebtKind /\ Cause(o[1]) = s[1]
                            /\ o[2] = s[2]
    BY <1>2, <2>2, <2>3, <2>5
  <2> QED
    BY <1>2, <2>4, <2>6, <2>7 DEF d, t
<1>3. CASE s[1] = "pushArchive"
  <2> DEFINE d == <<"removeArchive", s[2]>>
             t == Owes(s)
  <2>1. t = <<d>>
    BY <1>3, Zenon DEF Owes
  <2>2. /\ "removeArchive" \in Kind /\ "removeArchive" \in DebtKind
        /\ Cause("removeArchive") = "pushArchive"
    BY DEF Kind, DebtKind, Cause
  <2>3. d \in Calls /\ d[1] = "removeArchive" /\ d[2] = s[2]
    BY <1>0, <2>2, ACall
  <2>4. t \in Seq(Calls) /\ ToSet(t) = {d}
    <3> HIDE DEF d, t
    <3> QED
      BY <2>1, <2>3, Literals
  <2> HIDE DEF t
  <2>5. \A o \in ToSet(t) : o = d
    BY <2>4
  <2>6. d \in ToSet(t)
    BY <2>4
  <2> HIDE DEF d
  <2>7. \A o \in ToSet(t) : /\ o[1] \in DebtKind /\ Cause(o[1]) = s[1]
                            /\ o[2] = s[2]
    BY <1>3, <2>2, <2>3, <2>5
  <2> QED
    BY <1>3, <2>4, <2>6, <2>7 DEF d, t
<1>4. CASE s[1] = "forward"
  <2> DEFINE d == <<"endForward", s[2]>>
             t == Owes(s)
  <2>1. t = <<d>>
    BY <1>4, Zenon DEF Owes
  <2>2. /\ "endForward" \in Kind /\ "endForward" \in DebtKind
        /\ Cause("endForward") = "forward"
    BY DEF Kind, DebtKind, Cause
  <2>3. d \in Calls /\ d[1] = "endForward" /\ d[2] = s[2]
    BY <1>0, <2>2, ACall
  <2>4. t \in Seq(Calls) /\ ToSet(t) = {d}
    <3> HIDE DEF d, t
    <3> QED
      BY <2>1, <2>3, Literals
  <2> HIDE DEF t
  <2>5. \A o \in ToSet(t) : o = d
    BY <2>4
  <2>6. d \in ToSet(t)
    BY <2>4
  <2> HIDE DEF d
  <2>7. \A o \in ToSet(t) : /\ o[1] \in DebtKind /\ Cause(o[1]) = s[1]
                            /\ o[2] = s[2]
    BY <1>4, <2>2, <2>3, <2>5
  <2> QED
    BY <1>4, <2>4, <2>6, <2>7 DEF d, t
<1>5. CASE s[1] = "configure"
  <2> DEFINE d == <<"removeFiles", "one">>
             t == Owes(s)
  <2>1. t = <<d>>
    BY <1>5, Zenon DEF Owes
  <2>2. /\ "removeFiles" \in Kind /\ "removeFiles" \in DebtKind
        /\ Cause("removeFiles") = "configure"
    BY DEF Kind, DebtKind, Cause
  <2>3. d \in Calls /\ d[1] = "removeFiles" /\ d[2] = "one"
    BY <1>0, <2>2, ACall
  <2>4. t \in Seq(Calls) /\ ToSet(t) = {d}
    <3> HIDE DEF d, t
    <3> QED
      BY <2>1, <2>3, Literals
  <2> HIDE DEF t
  <2>5. \A o \in ToSet(t) : o = d
    BY <2>4
  <2>6. d \in ToSet(t)
    BY <2>4
  <2> HIDE DEF d
  <2>7. \A o \in ToSet(t) : /\ o[1] \in DebtKind /\ Cause(o[1]) = s[1]
                            /\ o[2] = "one"
    BY <1>5, <2>2, <2>3, <2>5
  <2> QED
    BY <1>5, <2>4, <2>6, <2>7 DEF d, t
<1>6. CASE s[1] = "request"
  <2> DEFINE c == <<"removeRequest", "one">>
             d == <<"removePod", "one">>
             t == Owes(s)
  <2>1. t = <<c, d>>
    BY <1>6, Zenon DEF Owes
  <2>2. /\ "removeRequest" \in Kind /\ "removeRequest" \in DebtKind
        /\ Cause("removeRequest") = "request"
        /\ "removePod" \in Kind /\ "removePod" \in DebtKind
        /\ Cause("removePod") = "request"
    BY DEF Kind, DebtKind, Cause
  <2>3. /\ c \in Calls /\ c[1] = "removeRequest"
        /\ d \in Calls /\ d[1] = "removePod"
    BY <1>0, <2>2, ACall
  <2>4. t \in Seq(Calls) /\ ToSet(t) = {c, d}
    <3> HIDE DEF c, d, t
    <3> QED
      BY <2>1, <2>3, Literals
  <2> HIDE DEF t
  <2>5. \A o \in ToSet(t) : o = c \/ o = d
    BY <2>4
  <2>6. c \in ToSet(t) /\ d \in ToSet(t)
    BY <2>4
  <2> HIDE DEF c, d
  <2>7. \A o \in ToSet(t) : /\ o[1] \in DebtKind /\ Cause(o[1]) = s[1]
    BY <1>6, <2>2, <2>3, <2>5
  <2> QED
    BY <1>6, <2>4, <2>6, <2>7 DEF c, d, t
<1>7. CASE s[1] \notin {"pause", "pushToken", "pushArchive", "forward",
                        "configure", "request"}
  <2>1. Owes(s) = <<>>
    BY <1>7 DEF Owes
  <2> QED
    BY <1>7, <2>1, Empty, EmptySeq
<1> QED
  BY <1>1, <1>2, <1>3, <1>4, <1>5, <1>6, <1>7

\* A debt owes nothing in its turn.
LEMMA OwesNothing ==
    ASSUME NEW s, s[1] \in DebtKind PROVE Owes(s) = <<>>
BY DEF Owes, DebtKind

\* A step is owed for, as Owing says, done or not.
Charged(r, s) == [r EXCEPT !.owed = r.owed \o Owes(s),
                           !.asked = r.asked \/ s[1] = "request"]
LEMMA OwingRun ==
    ASSUME NEW r \in Runs, NEW s \in Calls, NEW q, q = Charged(r, s)
    PROVE  /\ Keeps(q, r) /\ q.errors = r.errors /\ q.read = r.read
           /\ q.config = r.config /\ q.owed = r.owed \o Owes(s)
           /\ Owed(q) = Owed(r) \cup ToSet(Owes(s))
           /\ q.asked = (r.asked \/ s[1] = "request")
<1> DEFINE o == r.owed \o Owes(s)
           a == r.asked \/ s[1] = "request"
<1>1. q = [r EXCEPT !.owed = o, !.asked = a]
  BY DEF Charged
<1>2. r.owed \in Seq(Calls) /\ Owes(s) \in Seq(Calls)
  BY OwesAre, RunFields
<1>3. o \in Seq(Calls) /\ ToSet(o) = ToSet(r.owed) \cup ToSet(Owes(s))
  BY <1>2, Joined
<1>4. a \in BOOLEAN /\ (r.asked => a)
  BY RunFields
<1> HIDE DEF o, a
<1>6. /\ q \in Runs /\ q.profile = r.profile /\ q.script = r.script
      /\ q.state = r.state /\ q.outcome = r.outcome /\ q.todo = r.todo
      /\ q.value = r.value /\ q.ran = r.ran
      /\ q.missed = r.missed /\ q.operations = r.operations
      /\ q.complete = r.complete /\ q.errors = r.errors /\ q.read = r.read
      /\ q.config = r.config /\ q.owed = o /\ q.asked = a
  BY <1>1, <1>3, <1>4 DEF Runs
<1>5. Keeps(q, r) /\ q.errors = r.errors /\ q.read = r.read
      /\ q.config = r.config /\ q.owed = o /\ q.asked = a
  BY <1>4, <1>6 DEF Keeps
<1> QED
  BY <1>3, <1>5 DEF Owed, o, a

LEMMA SettledRun ==
    ASSUME NEW r \in Runs, NEW s \in Calls, NEW q, q = Settled(r, s)
    PROVE  /\ Keeps(q, r) /\ q.errors = r.errors /\ q.read = r.read
           /\ q.config = r.config /\ q.asked = r.asked
           /\ Owed(q) \subseteq Owed(r)
           /\ \A x \in Owed(r) : x # s => x \in Owed(q)
           /\ s \notin Owed(r) => q = r
           /\ (r.owed # <<>> /\ Last(r.owed) = s) => q.owed = Front(r.owed)
<1>0. r.owed \in Seq(Calls)
  BY RunFields
<1>1. CASE r.owed # <<>> /\ Last(r.owed) = s
  <2>1. q = [r EXCEPT !.owed = Front(r.owed)]
    BY <1>1 DEF Settled
  <2>2. /\ Front(r.owed) \in Seq(Calls)
        /\ ToSet(r.owed) = ToSet(Front(r.owed)) \cup {s}
    BY <1>0, <1>1, Settling
  <2>3. /\ Keeps(q, r) /\ q.errors = r.errors /\ q.read = r.read
        /\ q.config = r.config /\ q.asked = r.asked
        /\ q.owed = Front(r.owed)
    BY <2>1, <2>2, PutOwed DEF Keeps
  <2> QED
    BY <2>2, <2>3 DEF Owed
<1>2. CASE ~(r.owed # <<>> /\ Last(r.owed) = s)
  <2>1. q = r
    BY <1>2 DEF Settled
  <2> QED
    BY <1>2, <2>1 DEF Keeps
<1> QED
  BY <1>1, <1>2

LEMMA KeepsOn ==
    ASSUME NEW r, NEW p, NEW q, Keeps(p, r), Keeps(q, p) PROVE Keeps(q, r)
BY DEF Keeps

LEMMA MidRun ==
    ASSUME NEW w \in Worlds, NEW r \in Runs, NEW s \in Calls, NEW q,
           q = Mid(w, r, s)
    PROVE  /\ Keeps(q, r) /\ q.errors = r.errors
           /\ q.asked = (r.asked \/ s[1] = "request")
           /\ s[1] \notin {"readMinio", "readZipkin", "readElastic",
                           "saveImage"}
                 => q.read = r.read
           /\ s[1] = "readMinio" => q.read = w.secret["minio"].data
           /\ s[1] = "readZipkin" => q.read = w.secret["zipkin"].data
           /\ s[1] = "readElastic" => q.read = w.elastic.data
           /\ s[1] = "saveImage" => q.read = w.built
           /\ s[1] = "readConfig" => q.config = w.config
           /\ s[1] # "readConfig" => q.config = r.config
           /\ Owed(q) \subseteq Owed(r) \cup ToSet(Owes(s))
           /\ \A x \in Owed(r) \cup ToSet(Owes(s)) : x # s => x \in Owed(q)
           /\ (s[1] \in DebtKind /\ r.owed # <<>> /\ Last(r.owed) = s) =>
                 q.owed = Front(r.owed)
<1> DEFINE a == Learns(w, r, s)
           b == Owing(a, s, TRUE)
<1>1. q = Settled(b, s)
  BY DEF Mid
<1>2. /\ Keeps(a, r) /\ a.owed = r.owed /\ a.errors = r.errors
      /\ a.asked = r.asked
      /\ s[1] \notin {"readMinio", "readZipkin", "readElastic", "saveImage"}
            => a.read = r.read
      /\ s[1] = "readMinio" => a.read = w.secret["minio"].data
      /\ s[1] = "readZipkin" => a.read = w.secret["zipkin"].data
      /\ s[1] = "readElastic" => a.read = w.elastic.data
      /\ s[1] = "saveImage" => a.read = w.built
      /\ s[1] = "readConfig" => a.config = w.config
      /\ s[1] # "readConfig" => a.config = r.config
  <2> HIDE DEF a
  <2>1. a = Learns(w, r, s)
    BY DEF a
  <2> QED
    BY <2>1, LearnsRun
<1> HIDE DEF a
<1>3. a \in Runs
  BY <1>2 DEF Keeps
<1>4. /\ Keeps(b, a) /\ b.errors = a.errors /\ b.read = a.read
      /\ b.config = a.config /\ b.owed = a.owed \o Owes(s)
      /\ Owed(b) = Owed(a) \cup ToSet(Owes(s))
      /\ b.asked = (a.asked \/ s[1] = "request")
  <2> HIDE DEF b
  <2>1. b = Charged(a, s)
    BY DEF b, Owing, Charged
  <2> QED
    BY <1>3, <2>1, OwingRun
<1> HIDE DEF b
<1>5. b \in Runs
  BY <1>4 DEF Keeps
<1>6. /\ Keeps(q, b) /\ q.errors = b.errors /\ q.read = b.read
      /\ q.config = b.config /\ q.asked = b.asked
      /\ Owed(q) \subseteq Owed(b)
      /\ \A x \in Owed(b) : x # s => x \in Owed(q)
      /\ (b.owed # <<>> /\ Last(b.owed) = s) => q.owed = Front(b.owed)
  BY <1>1, <1>5, SettledRun
<1>7. Keeps(q, r)
  BY <1>2, <1>4, <1>6, KeepsOn
<1>8. Owed(a) = Owed(r)
  BY <1>2 DEF Owed
<1>9. s[1] \in DebtKind => b.owed = r.owed
  <2>1. r.owed \in Seq(Calls)
    BY RunFields
  <2> QED
    BY <1>2, <1>4, <2>1, OwesNothing, ConcatEmptySeq
<1> QED
  BY <1>2, <1>4, <1>6, <1>7, <1>8, <1>9

-----------------------------------------------------------------------------
(* What is owed goes on covering what was changed for a time.              *)

\* q owes what r does and what s makes necessary, but perhaps s itself.
Follows(q, r, s) ==
    /\ Keeps(q, r) /\ q.errors = r.errors
    /\ q.asked = (r.asked \/ s[1] = "request")
    /\ \A x \in Owed(r) \cup ToSet(Owes(s)) : x # s => x \in Owed(q)

LEMMA CoveredCharged ==
    ASSUME NEW w, NEW r \in Runs, NEW s \in Calls, NEW q, q = Charged(r, s),
           Covered(w, r)
    PROVE  Covered(w, q)
<1>1. /\ Keeps(q, r) /\ q.errors = r.errors
      /\ Owed(q) = Owed(r) \cup ToSet(Owes(s))
      /\ q.asked = (r.asked \/ s[1] = "request")
  BY OwingRun
<1>4. q.script = r.script /\ q.ran = r.ran /\ q.missed = r.missed
  BY <1>1 DEF Keeps
<1>5. Owed(r) \subseteq Owed(q)
  BY <1>1
<1>6. ASSUME ~r.errors, q.script = "snapshot", NEW n \in q.ran
      PROVE  w.vm[n] = "running" \/ <<"resume", n>> \in Owed(q)
  BY <1>4, <1>5, <1>6 DEF Covered
<1>2. CASE r.errors
  BY <1>1, <1>2 DEF Covered
<1>3. CASE ~r.errors
  <2>1. /\ \A n \in w.tokens : <<"removeToken", n>> \in Owed(q)
        /\ \A n \in w.archives : <<"removeArchive", n>> \in Owed(q)
        /\ \A p \in w.forwards : <<"endForward", p>> \in Owed(q)
        /\ w.files => <<"removeFiles", "one">> \in Owed(q)
    BY <1>1, <1>3 DEF Covered
  <2>2. CASE r.asked
    <3>1. /\ w.request # None => <<"removeRequest", "one">> \in Owed(q)
          /\ w.pod # "absent" => <<"removePod", "one">> \in Owed(q)
      BY <1>1, <1>3, <2>2 DEF Covered
    <3>2. ASSUME q.script = "snapshot", NEW n \in q.ran
          PROVE  w.vm[n] = "running" \/ <<"resume", n>> \in Owed(q)
      BY <1>3, <1>6, <3>2
    <3> QED
      BY <2>1, <3>1, <3>2 DEF Covered
  <2>3. CASE ~r.asked
    <3>1. q.asked => /\ <<"removeRequest", "one">> \in Owed(q)
                     /\ <<"removePod", "one">> \in Owed(q)
      BY <1>1, <2>3, OwesAre
    <3>2. ASSUME q.script = "snapshot", NEW n \in q.ran
          PROVE  w.vm[n] = "running" \/ <<"resume", n>> \in Owed(q)
      BY <1>3, <1>6, <3>2
    <3> QED
      BY <2>1, <3>1, <3>2 DEF Covered
  <2> QED
    BY <2>2, <2>3
<1> QED
  BY <1>2, <1>3

LEMMA CoveredDone ==
    ASSUME NEW w \in Worlds, NEW r \in Runs, NEW s \in Calls, NEW q, NEW e,
           Puts(w, e, s[1], s[2]), Follows(q, r, s), Covered(w, r),
           s[1] = "setupPod" => <<"removePod", "one">> \in Owed(r),
           r.script = "snapshot" =>
              s[1] \in {"pause", "drop", "snapshot", "resume"}
    PROVE  Covered(e, q)
<1>0. s = <<s[1], s[2]>>
  BY DEF Calls
<1> DEFINE O == Owed(r) \cup ToSet(Owes(s))
<1>00. /\ Keeps(q, r) /\ q.errors = r.errors
       /\ q.asked = (r.asked \/ s[1] = "request")
       /\ \A x \in O : x # s => x \in Owed(q)
  BY DEF Follows
<1>000. /\ PutsMachines(w, e, s[1], s[2]) /\ PutsDebts(w, e, s[1], s[2])
  BY DEF Puts
<1> DEFINE k == s[1]
           a == s[2]
<1>01. /\ k = "pushToken" => <<"removeToken", a>> \in O
       /\ k = "pushArchive" => <<"removeArchive", a>> \in O
       /\ k = "forward" => <<"endForward", a>> \in O
       /\ k = "configure" => <<"removeFiles", "one">> \in O
       /\ k = "request" => /\ <<"removeRequest", "one">> \in O
                           /\ <<"removePod", "one">> \in O
       /\ k = "pause" => <<"resume", a>> \in O
  BY OwesAre
<1>02. /\ k = "setupPod" => <<"removePod", "one">> \in O
       /\ r.script = "snapshot" => k \in {"pause", "drop", "snapshot",
                                          "resume"}
       /\ PutsMachines(w, e, k, a) /\ PutsDebts(w, e, k, a)
       /\ s = <<k, a>> /\ Owed(r) \subseteq O
  BY <1>0, <1>000
<1> HIDE DEF O, k, a
<1>1. CASE r.errors
  BY <1>00, <1>1 DEF Covered
<1>2. CASE ~r.errors
  <2>0. /\ \A n \in w.tokens : <<"removeToken", n>> \in O
        /\ \A n \in w.archives : <<"removeArchive", n>> \in O
        /\ \A p \in w.forwards : <<"endForward", p>> \in O
        /\ w.files => <<"removeFiles", "one">> \in O
        /\ r.asked =>
              /\ w.request # None => <<"removeRequest", "one">> \in O
              /\ w.pod # "absent" => <<"removePod", "one">> \in O
        /\ r.script = "snapshot" =>
              \A n \in r.ran : w.vm[n] = "running" \/ <<"resume", n>> \in O
    BY <1>02, <1>2 DEF Covered
  <2>1. ASSUME NEW n \in e.tokens PROVE <<"removeToken", n>> \in Owed(q)
    <3>1. <<"removeToken", n>> \in O
      BY <1>01, <1>02, <2>0, <2>1 DEF PutsDebts
    <3>2. <<"removeToken", n>> # s
      <4> SUFFICES ASSUME k = "removeToken", a = n PROVE FALSE
        BY <1>02
      <4>1. e.tokens = w.tokens \ {a}
        BY <1>02 DEF PutsDebts
      <4> QED
        BY <2>1, <4>1
    <3> QED
      BY <1>00, <3>1, <3>2
  <2>2. ASSUME NEW n \in e.archives PROVE <<"removeArchive", n>> \in Owed(q)
    <3>1. <<"removeArchive", n>> \in O
      BY <1>01, <1>02, <2>0, <2>2 DEF PutsDebts
    <3>2. <<"removeArchive", n>> # s
      <4> SUFFICES ASSUME k = "removeArchive", a = n PROVE FALSE
        BY <1>02
      <4>1. e.archives = w.archives \ {a}
        BY <1>02 DEF PutsDebts
      <4> QED
        BY <2>2, <4>1
    <3> QED
      BY <1>00, <3>1, <3>2
  <2>3. ASSUME NEW n \in e.forwards PROVE <<"endForward", n>> \in Owed(q)
    <3>1. <<"endForward", n>> \in O
      BY <1>01, <1>02, <2>0, <2>3 DEF PutsDebts
    <3>2. <<"endForward", n>> # s
      <4> SUFFICES ASSUME k = "endForward", a = n PROVE FALSE
        BY <1>02
      <4>1. e.forwards = w.forwards \ {a}
        BY <1>02 DEF PutsDebts
      <4> QED
        BY <2>3, <4>1
    <3> QED
      BY <1>00, <3>1, <3>2
  <2>4. ASSUME e.files PROVE <<"removeFiles", "one">> \in Owed(q)
    <3>1. <<"removeFiles", "one">> \in O
      BY <1>01, <1>02, <2>0, <2>4 DEF PutsDebts
    <3>2. k # "removeFiles"
      BY <1>02, <2>4 DEF PutsDebts
    <3>3. <<"removeFiles", "one">> # s
      BY <1>02, <3>2
    <3> QED
      BY <1>00, <3>1, <3>3
  <2>5. ASSUME q.asked, e.request # None
        PROVE  <<"removeRequest", "one">> \in Owed(q)
    <3>1. k # "removeRequest"
      BY <1>02, <2>5 DEF PutsDebts
    <3>2. k # "request" => e.request = w.request
      BY <1>02, <3>1 DEF PutsDebts
    <3>3. k # "request" => r.asked
      BY <1>00, <2>5 DEF k
    <3>4. <<"removeRequest", "one">> \in O
      BY <1>01, <2>0, <2>5, <3>2, <3>3
    <3>5. <<"removeRequest", "one">> # s
      BY <1>02, <3>1
    <3> QED
      BY <1>00, <3>4, <3>5
  <2>6. ASSUME q.asked, e.pod # "absent"
        PROVE  <<"removePod", "one">> \in Owed(q)
    <3>1. k # "removePod"
      BY <1>02, <2>6 DEF PutsDebts
    <3>2. k # "setupPod" => w.pod # "absent"
      BY <1>02, <2>6 DEF PutsDebts
    <3>3. k # "request" => r.asked
      BY <1>00, <2>6 DEF k
    <3>4. <<"removePod", "one">> \in O
      BY <1>01, <1>02, <2>0, <3>2, <3>3
    <3>5. <<"removePod", "one">> # s
      BY <1>02, <3>1
    <3> QED
      BY <1>00, <3>4, <3>5
  <2>7. ASSUME q.script = "snapshot", NEW n \in q.ran
        PROVE  e.vm[n] = "running" \/ <<"resume", n>> \in Owed(q)
    <3>1. /\ r.script = "snapshot" /\ n \in r.ran /\ n \in Node
          /\ k \in {"pause", "drop", "snapshot", "resume"}
      BY <1>00, <1>02, <2>7, RunFields DEF Keeps
    <3>2. w.vm[n] = "running" \/ <<"resume", n>> \in O
      BY <2>0, <3>1
    <3>3. /\ (n # a \/ k \notin MachineKind) => e.vm[n] = w.vm[n]
          /\ (n = a /\ k \in {"launch", "start", "resume"}) =>
                e.vm[n] = "running"
      BY <1>02, <3>1, Moves
    <3>4. CASE n = a /\ k = "resume"
      BY <3>3, <3>4
    <3>5. CASE n = a /\ k = "pause"
      <4>1. <<"resume", n>> \in O /\ <<"resume", n>> # s
        BY <1>01, <1>02, <3>5
      <4> QED
        BY <1>00, <4>1
    <3>6. CASE n # a \/ k \in {"drop", "snapshot"}
      <4>1. e.vm[n] = w.vm[n]
        BY <3>3, <3>6 DEF MachineKind
      <4>2. <<"resume", n>> # s
        BY <1>02, <3>6
      <4> QED
        BY <1>00, <3>2, <4>1, <4>2
    <3> QED
      BY <3>1, <3>4, <3>5, <3>6
  <2> QED
    BY <2>1, <2>2, <2>3, <2>4, <2>5, <2>6, <2>7 DEF Covered
<1> QED
  BY <1>1, <1>2

-----------------------------------------------------------------------------
(* Every step does its part of what is ahead.                              *)

\* What the steps put, where it is more than a state.
Special(w, r, s, e) ==
    /\ s[1] = "request" => e.request = r.read
    /\ s[1] = "setupPod" =>
          e.pod = IF w.pod = "absent" THEN "pending" ELSE w.pod
    /\ s[1] = "import" => e.user = r.read
    /\ s[1] = "secret" =>
          e.secret = [w.secret EXCEPT ![s[2]].data = r.value]
    /\ s[1] = "secretCopy" =>
          e.secret = [w.secret EXCEPT ![s[2]].copy = r.value]
    /\ s[1] = "copyElastic" =>
          e.elastic = [w.elastic EXCEPT !.copy = r.read]
    /\ s[1] = "redeploy" =>
          e.served = [password |-> w.secret["minio"].copy,
                      elastic |-> w.elastic.copy]
    /\ s[1] = "importImage" => e.images = [w.images EXCEPT ![s[2]] = r.read]
    /\ s[1] = "replaceConfig" =>
          e.config = [r.config EXCEPT !.qa = r.value]
    /\ s[1] = "backUp" => e.backup = w.config
    /\ s[1] = "drop" =>
          e.snapshot = [w.snapshot EXCEPT ![s[2]] = NoSnapshot]
    /\ s[1] = "delete" =>
          e.snapshot = [w.snapshot EXCEPT ![s[2]] = NoSnapshot]
    /\ s[1] = "snapshot" =>
          e.snapshot = [w.snapshot EXCEPT ![s[2]] = Snapshot(w, r, s[2])]
    /\ s[1] = "restore" => e.from = [w.from EXCEPT ![s[2]] = w.snapshot[s[2]]]

LEMMA Specials ==
    ASSUME NEW w \in Worlds, NEW r \in Runs, NEW s \in Calls, NEW e,
           e = Effect(w, r, s)
    PROVE  Special(w, r, s, e)
<1>1. CASE s[1] = "request"
  <2> DEFINE x == r.read
  <2>1. e = [w EXCEPT !.request = x]
    BY <1>1 DEF Effect
  <2>2. e.request = x
    <3> HIDE DEF x
    <3> QED
      BY <2>1 DEF Worlds
  <2> QED
    BY <1>1, <2>2 DEF Special
<1>2. CASE s[1] = "setupPod"
  <2> DEFINE x == IF w.pod = "absent" THEN "pending" ELSE w.pod
  <2>1. e = [w EXCEPT !.pod = x]
    BY <1>2 DEF Effect
  <2>2. e.pod = x
    <3> HIDE DEF x
    <3> QED
      BY <2>1 DEF Worlds
  <2> QED
    BY <1>2, <2>2 DEF Special
<1>3. CASE s[1] = "import"
  <2> DEFINE x == r.read
  <2>1. e = [w EXCEPT !.user = x]
    BY <1>3 DEF Effect
  <2>2. e.user = x
    <3> HIDE DEF x
    <3> QED
      BY <2>1 DEF Worlds
  <2> QED
    BY <1>3, <2>2 DEF Special
<1>4. CASE s[1] = "secret"
  <2> DEFINE x == [w.secret EXCEPT ![s[2]].data = r.value]
  <2>1. e = [w EXCEPT !.secret = x]
    BY <1>4 DEF Effect
  <2>2. e.secret = x
    <3> HIDE DEF x
    <3> QED
      BY <2>1 DEF Worlds
  <2> QED
    BY <1>4, <2>2 DEF Special
<1>5. CASE s[1] = "secretCopy"
  <2> DEFINE x == [w.secret EXCEPT ![s[2]].copy = r.value]
  <2>1. e = [w EXCEPT !.secret = x]
    BY <1>5 DEF Effect
  <2>2. e.secret = x
    <3> HIDE DEF x
    <3> QED
      BY <2>1 DEF Worlds
  <2> QED
    BY <1>5, <2>2 DEF Special
<1>6. CASE s[1] = "copyElastic"
  <2> DEFINE x == [w.elastic EXCEPT !.copy = r.read]
  <2>1. e = [w EXCEPT !.elastic = x]
    BY <1>6 DEF Effect
  <2>2. e.elastic = x
    <3> HIDE DEF x
    <3> QED
      BY <2>1 DEF Worlds
  <2> QED
    BY <1>6, <2>2 DEF Special
<1>7. CASE s[1] = "redeploy"
  <2> DEFINE x == [password |-> w.secret["minio"].copy,
                   elastic |-> w.elastic.copy]
  <2>1. e = [w EXCEPT !.served = x]
    BY <1>7 DEF Effect
  <2>2. e.served = x
    <3> HIDE DEF x
    <3> QED
      BY <2>1 DEF Worlds
  <2> QED
    BY <1>7, <2>2 DEF Special
<1>8. CASE s[1] = "importImage"
  <2> DEFINE x == [w.images EXCEPT ![s[2]] = r.read]
  <2>1. e = [w EXCEPT !.images = x]
    BY <1>8 DEF Effect
  <2>2. e.images = x
    <3> HIDE DEF x
    <3> QED
      BY <2>1 DEF Worlds
  <2> QED
    BY <1>8, <2>2 DEF Special
<1>9. CASE s[1] = "replaceConfig"
  <2> DEFINE x == [r.config EXCEPT !.qa = r.value]
  <2>1. e = [w EXCEPT !.config = x]
    BY <1>9 DEF Effect
  <2>2. e.config = x
    <3> HIDE DEF x
    <3> QED
      BY <2>1 DEF Worlds
  <2> QED
    BY <1>9, <2>2 DEF Special
<1>10. CASE s[1] = "backUp"
  <2> DEFINE x == w.config
  <2>1. e = [w EXCEPT !.backup = x]
    BY <1>10 DEF Effect
  <2>2. e.backup = x
    <3> HIDE DEF x
    <3> QED
      BY <2>1 DEF Worlds
  <2> QED
    BY <1>10, <2>2 DEF Special
<1>11. CASE s[1] = "drop"
  <2> DEFINE x == [w.snapshot EXCEPT ![s[2]] = NoSnapshot]
  <2>1. e = [w EXCEPT !.snapshot = x]
    BY <1>11 DEF Effect
  <2>2. e.snapshot = x
    <3> HIDE DEF x
    <3> QED
      BY <2>1 DEF Worlds
  <2> QED
    BY <1>11, <2>2 DEF Special
<1>12. CASE s[1] = "delete"
  <2> DEFINE x == [w.snapshot EXCEPT ![s[2]] = NoSnapshot]
             v == [w.vm EXCEPT ![s[2]] = "absent"]
             d == [w.disk EXCEPT ![s[2]] = {}]
             t == w.tokens \ {s[2]}
             f == [w.from EXCEPT ![s[2]] = NoSnapshot]
  <2>1. e = [w EXCEPT !.vm = v, !.snapshot = x, !.disk = d, !.tokens = t,
                      !.from = f]
    BY <1>12 DEF Effect
  <2>2. e.snapshot = x
    <3> HIDE DEF x, v, d, t, f
    <3> QED
      BY <2>1 DEF Worlds
  <2> QED
    BY <1>12, <2>2 DEF Special
<1>13. CASE s[1] = "snapshot"
  <2> DEFINE x == [w.snapshot EXCEPT ![s[2]] = Snapshot(w, r, s[2])]
  <2>1. e = [w EXCEPT !.snapshot = x]
    BY <1>13 DEF Effect
  <2>2. e.snapshot = x
    <3> HIDE DEF x
    <3> QED
      BY <2>1 DEF Worlds
  <2> QED
    BY <1>13, <2>2 DEF Special
<1>14. CASE s[1] = "restore"
  <2> DEFINE x == [w.from EXCEPT ![s[2]] = w.snapshot[s[2]]]
             d == [w.disk EXCEPT ![s[2]] = w.snapshot[s[2]].disk]
  <2>1. e = [w EXCEPT !.from = x, !.disk = d]
    BY <1>14 DEF Effect
  <2>2. e.from = x
    <3> HIDE DEF x, d
    <3> QED
      BY <2>1 DEF Worlds
  <2> QED
    BY <1>14, <2>2 DEF Special
<1>99. CASE s[1] \notin {"request", "setupPod", "import", "secret",
                         "secretCopy", "copyElastic", "redeploy",
                         "importImage", "replaceConfig", "backUp", "drop",
                         "delete", "snapshot", "restore"}
  BY <1>99 DEF Special
<1> QED
  BY <1>1, <1>2, <1>3, <1>4, <1>5, <1>6, <1>7,
     <1>8, <1>9, <1>10, <1>11, <1>12, <1>13, <1>14, <1>99

LEMMA Ended ==
    ASSUME NEW script \in Seq(Calls), NEW t \in Seq(Calls), t # <<>>,
           Ending(script, t)
    PROVE  /\ Head(t) = script[(Len(script) - Len(t)) + 1]
           /\ Ending(script, Tail(t))
<1>1. /\ Head(t) = t[1] /\ Tail(t) \in Seq(Calls)
      /\ Len(Tail(t)) = Len(t) - 1 /\ Len(t) \in Nat \ {0}
      /\ \A i \in 1 .. Len(t) - 1 : Tail(t)[i] = t[i + 1]
  BY First
<1>2. Len(script) \in Nat
  BY LenProperties
<1>3. /\ Len(t) <= Len(script)
      /\ \A i \in 1 .. Len(t) : t[i] = script[(Len(script) - Len(t)) + i]
  BY DEF Ending
<1> DEFINE n == Len(t)
           k == Len(script)
           u == Tail(t)
<1> HIDE DEF n, k, u
<1>4. ASSUME NEW i \in 1 .. n - 1 PROVE u[i] = script[(k - (n - 1)) + i]
  <2>1. i + 1 \in 1 .. n /\ (k - n) + (i + 1) = (k - (n - 1)) + i
    BY <1>1, <1>2 DEF n, k
  <2>2. u[i] = t[i + 1]
    BY <1>1 DEF n, u
  <2>3. t[i + 1] = script[(k - n) + (i + 1)]
    BY <1>3, <2>1 DEF n, k
  <2> QED
    BY <2>1, <2>2, <2>3
<1>5. n - 1 <= k
  BY <1>1, <1>2, <1>3 DEF n, k
<1>6. Len(u) = n - 1 /\ Ending(script, u)
  <2>1. Len(u) = n - 1
    BY <1>1 DEF n, u
  <2> QED
    BY <1>4, <1>5, <2>1 DEF Ending, k
<1>7. 1 \in 1 .. n
  BY <1>1 DEF n
<1> QED
  BY <1>1, <1>3, <1>6, <1>7 DEF n, k, u

LEMMA ZipkinSteps ==
    /\ ZipkinUser \in Seq(Calls) /\ Len(ZipkinUser) = 7
    /\ ZipkinUser[1] = <<"readZipkin", "one">>
    /\ ZipkinUser[2] = <<"request", "one">>
    /\ ZipkinUser[3] = <<"deletePod", "one">>
    /\ ZipkinUser[4] = <<"setupPod", "one">>
    /\ ZipkinUser[5] = <<"succeeded", "one">>
    /\ ZipkinUser[6] = <<"removePod", "one">>
    /\ ZipkinUser[7] = <<"removeRequest", "one">>
<1>1. "readZipkin" \in Kind /\ "one" \in Arg
  BY DEF Kind, MachineKind, CutKind, DebtKind, OtherKind, Arg, Node
<1>2. "request" \in Kind /\ "one" \in Arg
  BY DEF Kind, MachineKind, CutKind, DebtKind, OtherKind, Arg, Node
<1>3. "deletePod" \in Kind /\ "one" \in Arg
  BY DEF Kind, MachineKind, CutKind, DebtKind, OtherKind, Arg, Node
<1>4. "setupPod" \in Kind /\ "one" \in Arg
  BY DEF Kind, MachineKind, CutKind, DebtKind, OtherKind, Arg, Node
<1>5. "succeeded" \in Kind /\ "one" \in Arg
  BY DEF Kind, MachineKind, CutKind, DebtKind, OtherKind, Arg, Node
<1>6. "removePod" \in Kind /\ "one" \in Arg
  BY DEF Kind, MachineKind, CutKind, DebtKind, OtherKind, Arg, Node
<1>7. "removeRequest" \in Kind /\ "one" \in Arg
  BY DEF Kind, MachineKind, CutKind, DebtKind, OtherKind, Arg, Node
<1> DEFINE
  s1 == <<"readZipkin", "one">>
  s2 == <<"request", "one">>
  s3 == <<"deletePod", "one">>
  s4 == <<"setupPod", "one">>
  s5 == <<"succeeded", "one">>
  s6 == <<"removePod", "one">>
  s7 == <<"removeRequest", "one">>
<1>8.
      /\ s1 \in Calls /\ s2 \in Calls /\ s3 \in Calls /\ s4 \in Calls
      /\ s5 \in Calls /\ s6 \in Calls /\ s7 \in Calls
  BY <1>1, <1>2, <1>3, <1>4, <1>5, <1>6, <1>7, ACall
<1>9. ZipkinUser = <<s1, s2, s3, s4, s5, s6, s7>>
  BY DEF ZipkinUser
<1> HIDE DEF s1, s2, s3, s4, s5, s6, s7
<1>10. ZipkinUser \in Seq(Calls) /\ Len(ZipkinUser) = 7
  BY <1>8, <1>9
<1>11.
      /\ ZipkinUser[1] = s1 /\ ZipkinUser[2] = s2 /\ ZipkinUser[3] = s3
      /\ ZipkinUser[4] = s4 /\ ZipkinUser[5] = s5 /\ ZipkinUser[6] = s6
      /\ ZipkinUser[7] = s7
  BY <1>9
<1> QED
  BY <1>10, <1>11 DEF s1, s2, s3, s4, s5, s6, s7

LEMMA PullSteps ==
    /\ PullKubeconfig \in Seq(Calls) /\ Len(PullKubeconfig) = 5
    /\ PullKubeconfig[1] = <<"exist", "master">>
    /\ PullKubeconfig[2] = <<"agent", "master">>
    /\ PullKubeconfig[3] = <<"readConfig", "one">>
    /\ PullKubeconfig[4] = <<"backUp", "one">>
    /\ PullKubeconfig[5] = <<"replaceConfig", "one">>
<1>1. "exist" \in Kind /\ "master" \in Arg
  BY DEF Kind, MachineKind, CutKind, DebtKind, OtherKind, Arg, Node
<1>2. "agent" \in Kind /\ "master" \in Arg
  BY DEF Kind, MachineKind, CutKind, DebtKind, OtherKind, Arg, Node
<1>3. "readConfig" \in Kind /\ "one" \in Arg
  BY DEF Kind, MachineKind, CutKind, DebtKind, OtherKind, Arg, Node
<1>4. "backUp" \in Kind /\ "one" \in Arg
  BY DEF Kind, MachineKind, CutKind, DebtKind, OtherKind, Arg, Node
<1>5. "replaceConfig" \in Kind /\ "one" \in Arg
  BY DEF Kind, MachineKind, CutKind, DebtKind, OtherKind, Arg, Node
<1> DEFINE
  s1 == <<"exist", "master">>
  s2 == <<"agent", "master">>
  s3 == <<"readConfig", "one">>
  s4 == <<"backUp", "one">>
  s5 == <<"replaceConfig", "one">>
<1>6.
      /\ s1 \in Calls /\ s2 \in Calls /\ s3 \in Calls /\ s4 \in Calls
      /\ s5 \in Calls
  BY <1>1, <1>2, <1>3, <1>4, <1>5, ACall
<1>7. PullKubeconfig = <<s1, s2, s3, s4, s5>>
  BY DEF PullKubeconfig
<1> HIDE DEF s1, s2, s3, s4, s5
<1>8. PullKubeconfig \in Seq(Calls) /\ Len(PullKubeconfig) = 5
  BY <1>6, <1>7
<1>9.
      /\ PullKubeconfig[1] = s1 /\ PullKubeconfig[2] = s2
      /\ PullKubeconfig[3] = s3 /\ PullKubeconfig[4] = s4
      /\ PullKubeconfig[5] = s5
  BY <1>7
<1> QED
  BY <1>8, <1>9 DEF s1, s2, s3, s4, s5

LEMMA ServicesStepsAre ==
    /\ ServicesSteps \in Seq(Calls) /\ Len(ServicesSteps) = 27
    /\ ServicesSteps[1] = <<"readElastic", "one">>
    /\ ServicesSteps[2] = <<"copyElastic", "one">>
    /\ ServicesSteps[3] = <<"judge", "tenantReady">>
    /\ ServicesSteps[4] = <<"configure", "one">>
    /\ ServicesSteps[5] = <<"bucket", "one">>
    /\ ServicesSteps[6] = <<"judge", "bucket">>
    /\ ServicesSteps[7] = <<"removeFiles", "one">>
    /\ ServicesSteps[8] = <<"secret", "minio">>
    /\ ServicesSteps[9] = <<"secretCopy", "minio">>
    /\ ServicesSteps[10] = <<"judge", "tenantReady">>
    /\ ServicesSteps[11] = <<"readMinio", "one">>
    /\ ServicesSteps[12] = <<"configure", "one">>
    /\ ServicesSteps[13] = <<"import", "one">>
    /\ ServicesSteps[14] = <<"judge", "confirmed">>
    /\ ServicesSteps[15] = <<"removeFiles", "one">>
    /\ ServicesSteps[16] = <<"saveImage", "one">>
    /\ ServicesSteps[17] = <<"pushArchive", "master">>
    /\ ServicesSteps[18] = <<"importImage", "master">>
    /\ ServicesSteps[19] = <<"removeArchive", "master">>
    /\ ServicesSteps[20] = <<"pushArchive", "worker1">>
    /\ ServicesSteps[21] = <<"importImage", "worker1">>
    /\ ServicesSteps[22] = <<"removeArchive", "worker1">>
    /\ ServicesSteps[23] = <<"pushArchive", "worker2">>
    /\ ServicesSteps[24] = <<"importImage", "worker2">>
    /\ ServicesSteps[25] = <<"removeArchive", "worker2">>
    /\ ServicesSteps[26] = <<"redeploy", "one">>
    /\ ServicesSteps[27] = <<"judge", "available">>
<1>1. "readElastic" \in Kind /\ "one" \in Arg
  BY DEF Kind, MachineKind, CutKind, DebtKind, OtherKind, Arg, Node
<1>2. "copyElastic" \in Kind /\ "one" \in Arg
  BY DEF Kind, MachineKind, CutKind, DebtKind, OtherKind, Arg, Node
<1>3. "judge" \in Kind /\ "tenantReady" \in Arg
  BY DEF Kind, MachineKind, CutKind, DebtKind, OtherKind, Arg, Node
<1>4. "configure" \in Kind /\ "one" \in Arg
  BY DEF Kind, MachineKind, CutKind, DebtKind, OtherKind, Arg, Node
<1>5. "bucket" \in Kind /\ "one" \in Arg
  BY DEF Kind, MachineKind, CutKind, DebtKind, OtherKind, Arg, Node
<1>6. "judge" \in Kind /\ "bucket" \in Arg
  BY DEF Kind, MachineKind, CutKind, DebtKind, OtherKind, Arg, Node
<1>7. "removeFiles" \in Kind /\ "one" \in Arg
  BY DEF Kind, MachineKind, CutKind, DebtKind, OtherKind, Arg, Node
<1>8. "secret" \in Kind /\ "minio" \in Arg
  BY DEF Kind, MachineKind, CutKind, DebtKind, OtherKind, Arg, Node
<1>9. "secretCopy" \in Kind /\ "minio" \in Arg
  BY DEF Kind, MachineKind, CutKind, DebtKind, OtherKind, Arg, Node
<1>10. "readMinio" \in Kind /\ "one" \in Arg
  BY DEF Kind, MachineKind, CutKind, DebtKind, OtherKind, Arg, Node
<1>11. "import" \in Kind /\ "one" \in Arg
  BY DEF Kind, MachineKind, CutKind, DebtKind, OtherKind, Arg, Node
<1>12. "judge" \in Kind /\ "confirmed" \in Arg
  BY DEF Kind, MachineKind, CutKind, DebtKind, OtherKind, Arg, Node
<1>13. "saveImage" \in Kind /\ "one" \in Arg
  BY DEF Kind, MachineKind, CutKind, DebtKind, OtherKind, Arg, Node
<1>14. "pushArchive" \in Kind /\ "master" \in Arg
  BY DEF Kind, MachineKind, CutKind, DebtKind, OtherKind, Arg, Node
<1>15. "importImage" \in Kind /\ "master" \in Arg
  BY DEF Kind, MachineKind, CutKind, DebtKind, OtherKind, Arg, Node
<1>16. "removeArchive" \in Kind /\ "master" \in Arg
  BY DEF Kind, MachineKind, CutKind, DebtKind, OtherKind, Arg, Node
<1>17. "pushArchive" \in Kind /\ "worker1" \in Arg
  BY DEF Kind, MachineKind, CutKind, DebtKind, OtherKind, Arg, Node
<1>18. "importImage" \in Kind /\ "worker1" \in Arg
  BY DEF Kind, MachineKind, CutKind, DebtKind, OtherKind, Arg, Node
<1>19. "removeArchive" \in Kind /\ "worker1" \in Arg
  BY DEF Kind, MachineKind, CutKind, DebtKind, OtherKind, Arg, Node
<1>20. "pushArchive" \in Kind /\ "worker2" \in Arg
  BY DEF Kind, MachineKind, CutKind, DebtKind, OtherKind, Arg, Node
<1>21. "importImage" \in Kind /\ "worker2" \in Arg
  BY DEF Kind, MachineKind, CutKind, DebtKind, OtherKind, Arg, Node
<1>22. "removeArchive" \in Kind /\ "worker2" \in Arg
  BY DEF Kind, MachineKind, CutKind, DebtKind, OtherKind, Arg, Node
<1>23. "redeploy" \in Kind /\ "one" \in Arg
  BY DEF Kind, MachineKind, CutKind, DebtKind, OtherKind, Arg, Node
<1>24. "judge" \in Kind /\ "available" \in Arg
  BY DEF Kind, MachineKind, CutKind, DebtKind, OtherKind, Arg, Node
<1> DEFINE
  s1 == <<"readElastic", "one">>
  s2 == <<"copyElastic", "one">>
  s3 == <<"judge", "tenantReady">>
  s4 == <<"configure", "one">>
  s5 == <<"bucket", "one">>
  s6 == <<"judge", "bucket">>
  s7 == <<"removeFiles", "one">>
  s8 == <<"secret", "minio">>
  s9 == <<"secretCopy", "minio">>
  s10 == <<"judge", "tenantReady">>
  s11 == <<"readMinio", "one">>
  s12 == <<"configure", "one">>
  s13 == <<"import", "one">>
  s14 == <<"judge", "confirmed">>
  s15 == <<"removeFiles", "one">>
  s16 == <<"saveImage", "one">>
  s17 == <<"pushArchive", "master">>
  s18 == <<"importImage", "master">>
  s19 == <<"removeArchive", "master">>
  s20 == <<"pushArchive", "worker1">>
  s21 == <<"importImage", "worker1">>
  s22 == <<"removeArchive", "worker1">>
  s23 == <<"pushArchive", "worker2">>
  s24 == <<"importImage", "worker2">>
  s25 == <<"removeArchive", "worker2">>
  s26 == <<"redeploy", "one">>
  s27 == <<"judge", "available">>
<1>25.
      /\ s1 \in Calls /\ s2 \in Calls /\ s3 \in Calls /\ s4 \in Calls
      /\ s5 \in Calls /\ s6 \in Calls /\ s7 \in Calls /\ s8 \in Calls
      /\ s9 \in Calls /\ s10 \in Calls /\ s11 \in Calls /\ s12 \in Calls
      /\ s13 \in Calls /\ s14 \in Calls /\ s15 \in Calls /\ s16 \in Calls
      /\ s17 \in Calls /\ s18 \in Calls /\ s19 \in Calls /\ s20 \in Calls
      /\ s21 \in Calls /\ s22 \in Calls /\ s23 \in Calls /\ s24 \in Calls
      /\ s25 \in Calls /\ s26 \in Calls /\ s27 \in Calls
  BY <1>1, <1>2, <1>3, <1>4, <1>5, <1>6, <1>7, <1>8, <1>9, <1>10, <1>11,
     <1>12, <1>13, <1>14, <1>15, <1>16, <1>17, <1>18, <1>19, <1>20, <1>21,
     <1>22, <1>23, <1>24, ACall
<1>26. ServicesSteps = <<s1, s2, s3, s4, s5, s6, s7, s8, s9, s10, s11, s12,
                         s13, s14, s15, s16, s17, s18, s19, s20, s21, s22,
                         s23, s24, s25, s26, s27>>
  BY DEF ServicesSteps
<1> HIDE DEF s1, s2, s3, s4, s5, s6, s7, s8, s9, s10, s11, s12, s13, s14,
            s15, s16, s17, s18, s19, s20, s21, s22, s23, s24, s25, s26,
            s27
<1>27. ServicesSteps \in Seq(Calls) /\ Len(ServicesSteps) = 27
  BY <1>25, <1>26
<1>28.
      /\ ServicesSteps[1] = s1 /\ ServicesSteps[2] = s2
      /\ ServicesSteps[3] = s3 /\ ServicesSteps[4] = s4
      /\ ServicesSteps[5] = s5 /\ ServicesSteps[6] = s6
      /\ ServicesSteps[7] = s7 /\ ServicesSteps[8] = s8
      /\ ServicesSteps[9] = s9 /\ ServicesSteps[10] = s10
      /\ ServicesSteps[11] = s11 /\ ServicesSteps[12] = s12
      /\ ServicesSteps[13] = s13 /\ ServicesSteps[14] = s14
      /\ ServicesSteps[15] = s15 /\ ServicesSteps[16] = s16
      /\ ServicesSteps[17] = s17 /\ ServicesSteps[18] = s18
      /\ ServicesSteps[19] = s19 /\ ServicesSteps[20] = s20
      /\ ServicesSteps[21] = s21 /\ ServicesSteps[22] = s22
      /\ ServicesSteps[23] = s23 /\ ServicesSteps[24] = s24
      /\ ServicesSteps[25] = s25 /\ ServicesSteps[26] = s26
      /\ ServicesSteps[27] = s27
  BY <1>26
<1> QED
  BY <1>27, <1>28 DEF s1, s2, s3, s4, s5, s6, s7, s8, s9, s10, s11, s12, s13,
                      s14, s15, s16, s17, s18, s19, s20, s21, s22, s23, s24,
                      s25, s26, s27

LEMMA ZipkinStep ==
    ASSUME NEW w \in Worlds, NEW r \in Runs, NEW t \in Seq(Calls), t # <<>>,
           ZipkinAhead(w, r, t), NEW s, s = Head(t), Holds(w, r, s),
           NEW e, e = Effect(w, r, s), NEW q, q = Mid(w, r, s)
    PROVE  ZipkinAhead(e, q, Tail(t))
<1> DEFINE u == Tail(t)
<1>1. /\ s \in Calls /\ Len(t) \in Nat \ {0} /\ Len(u) = Len(t) - 1
  BY First
<1>2. /\ s = ZipkinUser[(7 - Len(t)) + 1] /\ Ending(ZipkinUser, u)
      /\ Len(t) <= 7
      /\ ZipkinPart(w, r, Len(t))
  BY ZipkinSteps, Ended DEF ZipkinAhead, Ending
<1>3. Puts(w, e, s[1], s[2]) /\ Special(w, r, s, e)
  BY <1>1, Effects, Specials
<1>4. /\ PutsDebts(w, e, s[1], s[2]) /\ PutsRest(w, e, s[1])
  BY <1>3 DEF Puts
<1> DEFINE m == Len(t)
<1>5. m \in 1 .. 7
  <2>1. m \in Nat \ {0} /\ m <= 7
    BY <1>1, <1>2
  <2> HIDE DEF m
  <2> QED
    BY <2>1
<1>6. ZipkinPart(e, q, m - 1) => ZipkinAhead(e, q, u)
  BY <1>1, <1>2 DEF ZipkinAhead
<1>7. s = ZipkinUser[(7 - m) + 1] /\ ZipkinPart(w, r, m)
  BY <1>2
<1> HIDE DEF m, u
<1>9. /\ Keeps(q, r)
      /\ s[1] \notin {"readMinio", "readZipkin", "readElastic", "saveImage"}
            => q.read = r.read
      /\ s[1] = "readMinio" => q.read = w.secret["minio"].data
      /\ s[1] = "readZipkin" => q.read = w.secret["zipkin"].data
      /\ s[1] = "readElastic" => q.read = w.elastic.data
      /\ s[1] = "saveImage" => q.read = w.built
      /\ s[1] = "readConfig" => q.config = w.config
      /\ s[1] # "readConfig" => q.config = r.config
      /\ \A x \in Owed(r) \cup ToSet(Owes(s)) : x # s => x \in Owed(q)
  BY <1>1, MidRun
<1>10. s[1] = "request" => <<"removePod", "one">> \in ToSet(Owes(s))
  BY <1>1, OwesAre
<1> DEFINE d == <<"removePod", "one">>
<1>11. s[1] # "removePod" => s # d
  OBVIOUS
<1>c7. CASE m = 7
  <2>1. s[1] = "readZipkin" /\ s[2] = "one"
    <3>1. (7 - 7) + 1 = 1
      OBVIOUS
    <3>2. s = <<"readZipkin", "one">>
      BY <1>7, <1>c7, <3>1, ZipkinSteps
    <3> QED
      BY <3>2
  <2>2. ZipkinPart(w, r, 7)
    BY <1>7, <1>c7
  <2>3. e.secret = w.secret /\ e.zipkin = w.zipkin
    BY <1>4, <2>1 DEF PutsRest
  <2>4. q.read = w.secret["zipkin"].data
    BY <1>9, <2>1
  <2>5. ZipkinPart(e, q, 6)
    BY <2>2, <2>3, <2>4 DEF ZipkinPart
  <2>6. m - 1 = 6
    BY <1>c7
  <2> QED
    BY <1>6, <2>5, <2>6 DEF u
<1>c6. CASE m = 6
  <2>1. s[1] = "request" /\ s[2] = "one"
    <3>1. (7 - 6) + 1 = 2
      OBVIOUS
    <3>2. s = <<"request", "one">>
      BY <1>7, <1>c6, <3>1, ZipkinSteps
    <3> QED
      BY <3>2
  <2>2. ZipkinPart(w, r, 6)
    BY <1>7, <1>c6
  <2>3. e.secret = w.secret /\ e.zipkin = w.zipkin
    BY <1>4, <2>1 DEF PutsRest
  <2>4. d \in Owed(q)
    BY <1>9, <1>10, <1>11, <2>1
  <2>5. e.request = r.read
    BY <1>3, <2>1 DEF Special
  <2>6. ZipkinPart(e, q, 5)
    BY <2>2, <2>3, <2>4, <2>5 DEF ZipkinPart
  <2>7. m - 1 = 5
    BY <1>c6
  <2> QED
    BY <1>6, <2>6, <2>7 DEF u
<1>c5. CASE m = 5
  <2>1. s[1] = "deletePod" /\ s[2] = "one"
    <3>1. (7 - 5) + 1 = 3
      OBVIOUS
    <3>2. s = <<"deletePod", "one">>
      BY <1>7, <1>c5, <3>1, ZipkinSteps
    <3> QED
      BY <3>2
  <2>2. ZipkinPart(w, r, 5)
    BY <1>7, <1>c5
  <2>3. e.secret = w.secret /\ e.zipkin = w.zipkin
    BY <1>4, <2>1 DEF PutsRest
  <2>4. d \in Owed(q)
    BY <1>9, <1>11, <2>1, <2>2 DEF ZipkinPart
  <2>5. e.pod = "absent" /\ e.request = w.request
    BY <1>4, <2>1 DEF PutsDebts
  <2>6. ZipkinPart(e, q, 4)
    BY <2>2, <2>3, <2>4, <2>5 DEF ZipkinPart
  <2>7. m - 1 = 4
    BY <1>c5
  <2> QED
    BY <1>6, <2>6, <2>7 DEF u
<1>c4. CASE m = 4
  <2>1. s[1] = "setupPod" /\ s[2] = "one"
    <3>1. (7 - 4) + 1 = 4
      OBVIOUS
    <3>2. s = <<"setupPod", "one">>
      BY <1>7, <1>c4, <3>1, ZipkinSteps
    <3> QED
      BY <3>2
  <2>2. ZipkinPart(w, r, 4)
    BY <1>7, <1>c4
  <2>3. e.secret = w.secret /\ e.zipkin = w.zipkin
    BY <1>4, <2>1 DEF PutsRest
  <2>4. d \in Owed(q)
    BY <1>9, <1>11, <2>1, <2>2 DEF ZipkinPart
  <2>5. e.pod = "pending" /\ e.request = w.request
    BY <1>3, <1>4, <2>1, <2>2 DEF Special, PutsDebts, ZipkinPart
  <2>6. ZipkinPart(e, q, 3)
    BY <2>2, <2>3, <2>4, <2>5 DEF ZipkinPart
  <2>7. m - 1 = 3
    BY <1>c4
  <2> QED
    BY <1>6, <2>6, <2>7 DEF u
<1>c3. CASE m = 3
  <2>1. s[1] = "succeeded" /\ s[2] = "one"
    <3>1. (7 - 3) + 1 = 5
      OBVIOUS
    <3>2. s = <<"succeeded", "one">>
      BY <1>7, <1>c3, <3>1, ZipkinSteps
    <3> QED
      BY <3>2
  <2>2. ZipkinPart(w, r, 3)
    BY <1>7, <1>c3
  <2>3. e.secret = w.secret /\ e.zipkin = w.zipkin
    BY <1>4, <2>1 DEF PutsRest
  <2>4. d \in Owed(q)
    BY <1>9, <1>11, <2>1, <2>2 DEF ZipkinPart
  <2>5. e.pod = w.pod /\ w.pod = "succeeded"
    BY <1>4, <2>1 DEF PutsDebts, Holds
  <2>6. ZipkinPart(e, q, 2)
    BY <2>2, <2>3, <2>4, <2>5 DEF ZipkinPart
  <2>7. m - 1 = 2
    BY <1>c3
  <2> QED
    BY <1>6, <2>6, <2>7 DEF u
<1>c2. CASE m = 2
  <2>1. s[1] = "removePod" /\ s[2] = "one"
    <3>1. (7 - 2) + 1 = 6
      OBVIOUS
    <3>2. s = <<"removePod", "one">>
      BY <1>7, <1>c2, <3>1, ZipkinSteps
    <3> QED
      BY <3>2
  <2>2. ZipkinPart(w, r, 2)
    BY <1>7, <1>c2
  <2>3. e.secret = w.secret /\ e.zipkin = w.zipkin
    BY <1>4, <2>1 DEF PutsRest
  <2>4. e.pod = "absent"
    BY <1>4, <2>1 DEF PutsDebts
  <2>5. ZipkinPart(e, q, 1)
    BY <2>2, <2>3, <2>4 DEF ZipkinPart
  <2>6. m - 1 = 1
    BY <1>c2
  <2> QED
    BY <1>6, <2>5, <2>6 DEF u
<1>c1. CASE m = 1
  <2>1. s[1] = "removeRequest" /\ s[2] = "one"
    <3>1. (7 - 1) + 1 = 7
      OBVIOUS
    <3>2. s = <<"removeRequest", "one">>
      BY <1>7, <1>c1, <3>1, ZipkinSteps
    <3> QED
      BY <3>2
  <2>2. ZipkinPart(w, r, 1)
    BY <1>7, <1>c1
  <2>3. e.secret = w.secret /\ e.zipkin = w.zipkin
    BY <1>4, <2>1 DEF PutsRest
  <2>4. e.pod = w.pod
    BY <1>4, <2>1 DEF PutsDebts
  <2>5. ZipkinPart(e, q, 0)
    BY <2>2, <2>3, <2>4 DEF ZipkinPart
  <2>6. m - 1 = 0
    BY <1>c1
  <2> QED
    BY <1>6, <2>5, <2>6 DEF u
<1>8. m \in {1, 2, 3, 4, 5, 6, 7}
  BY <1>5
<1> QED
  BY <1>8, <1>c1, <1>c2, <1>c3, <1>c4, <1>c5, <1>c6, <1>c7 DEF u

LEMMA PullStep ==
    ASSUME NEW w \in Worlds, NEW r \in Runs, NEW t \in Seq(Calls), t # <<>>,
           PullAhead(w, r, t), NEW s, s = Head(t), Holds(w, r, s),
           NEW e, e = Effect(w, r, s), NEW q, q = Mid(w, r, s)
    PROVE  PullAhead(e, q, Tail(t))
<1> DEFINE u == Tail(t)
<1>1. /\ s \in Calls /\ Len(t) \in Nat \ {0} /\ Len(u) = Len(t) - 1
  BY First
<1>2. /\ s = PullKubeconfig[(5 - Len(t)) + 1] /\ Ending(PullKubeconfig, u)
      /\ Len(t) <= 5
      /\ PullPart(w, r, Len(t))
  BY PullSteps, Ended DEF PullAhead, Ending
<1>3. Puts(w, e, s[1], s[2]) /\ Special(w, r, s, e)
  BY <1>1, Effects, Specials
<1>4. /\ PutsDebts(w, e, s[1], s[2]) /\ PutsRest(w, e, s[1])
  BY <1>3 DEF Puts
<1> DEFINE m == Len(t)
<1>5. m \in 1 .. 5
  <2>1. m \in Nat \ {0} /\ m <= 5
    BY <1>1, <1>2
  <2> HIDE DEF m
  <2> QED
    BY <2>1
<1>6. PullPart(e, q, m - 1) => PullAhead(e, q, u)
  BY <1>1, <1>2 DEF PullAhead
<1>7. s = PullKubeconfig[(5 - m) + 1] /\ PullPart(w, r, m)
  BY <1>2
<1> HIDE DEF m, u
<1>9. /\ Keeps(q, r)
      /\ s[1] \notin {"readMinio", "readZipkin", "readElastic", "saveImage"}
            => q.read = r.read
      /\ s[1] = "readMinio" => q.read = w.secret["minio"].data
      /\ s[1] = "readZipkin" => q.read = w.secret["zipkin"].data
      /\ s[1] = "readElastic" => q.read = w.elastic.data
      /\ s[1] = "saveImage" => q.read = w.built
      /\ s[1] = "readConfig" => q.config = w.config
      /\ s[1] # "readConfig" => q.config = r.config
      /\ \A x \in Owed(r) \cup ToSet(Owes(s)) : x # s => x \in Owed(q)
  BY <1>1, MidRun
<1>c5. CASE m = 5
  <2>1. s[1] = "exist" /\ s[2] = "master"
    <3>1. (5 - 5) + 1 = 1
      OBVIOUS
    <3>2. s = <<"exist", "master">>
      BY <1>7, <1>c5, <3>1, PullSteps
    <3> QED
      BY <3>2
  <2>2. PullPart(w, r, 5)
    BY <1>7, <1>c5
  <2>3. e.config = w.config
    BY <1>4, <2>1 DEF PutsRest
  <2>4. PullPart(e, q, 4)
    BY <2>2, <2>3 DEF PullPart
  <2>5. m - 1 = 4
    BY <1>c5
  <2> QED
    BY <1>6, <2>4, <2>5 DEF u
<1>c4. CASE m = 4
  <2>1. s[1] = "agent" /\ s[2] = "master"
    <3>1. (5 - 4) + 1 = 2
      OBVIOUS
    <3>2. s = <<"agent", "master">>
      BY <1>7, <1>c4, <3>1, PullSteps
    <3> QED
      BY <3>2
  <2>2. PullPart(w, r, 4)
    BY <1>7, <1>c4
  <2>3. e.config = w.config
    BY <1>4, <2>1 DEF PutsRest
  <2>4. PullPart(e, q, 3)
    BY <2>2, <2>3 DEF PullPart
  <2>5. m - 1 = 3
    BY <1>c4
  <2> QED
    BY <1>6, <2>4, <2>5 DEF u
<1>c3. CASE m = 3
  <2>1. s[1] = "readConfig" /\ s[2] = "one"
    <3>1. (5 - 3) + 1 = 3
      OBVIOUS
    <3>2. s = <<"readConfig", "one">>
      BY <1>7, <1>c3, <3>1, PullSteps
    <3> QED
      BY <3>2
  <2>2. PullPart(w, r, 3)
    BY <1>7, <1>c3
  <2>3. e.config = w.config
    BY <1>4, <2>1 DEF PutsRest
  <2>4. q.config = w.config
    BY <1>9, <2>1
  <2>5. PullPart(e, q, 2)
    BY <2>2, <2>3, <2>4 DEF PullPart
  <2>6. m - 1 = 2
    BY <1>c3
  <2> QED
    BY <1>6, <2>5, <2>6 DEF u
<1>c2. CASE m = 2
  <2>1. s[1] = "backUp" /\ s[2] = "one"
    <3>1. (5 - 2) + 1 = 4
      OBVIOUS
    <3>2. s = <<"backUp", "one">>
      BY <1>7, <1>c2, <3>1, PullSteps
    <3> QED
      BY <3>2
  <2>2. PullPart(w, r, 2)
    BY <1>7, <1>c2
  <2>3. e.config = w.config
    BY <1>4, <2>1 DEF PutsRest
  <2>4. q.config = r.config
    BY <1>9, <2>1
  <2>5. e.backup = w.config
    BY <1>3, <2>1 DEF Special
  <2>6. PullPart(e, q, 1)
    BY <2>2, <2>3, <2>4, <2>5 DEF PullPart
  <2>7. m - 1 = 1
    BY <1>c2
  <2> QED
    BY <1>6, <2>6, <2>7 DEF u
<1>c1. CASE m = 1
  <2>1. s[1] = "replaceConfig" /\ s[2] = "one"
    <3>1. (5 - 1) + 1 = 5
      OBVIOUS
    <3>2. s = <<"replaceConfig", "one">>
      BY <1>7, <1>c1, <3>1, PullSteps
    <3> QED
      BY <3>2
  <2>2. PullPart(w, r, 1)
    BY <1>7, <1>c1
  <2>3. PullPart(e, q, 0)
    BY <2>2 DEF PullPart
  <2>4. m - 1 = 0
    BY <1>c1
  <2> QED
    BY <1>6, <2>3, <2>4 DEF u
<1>8. m \in {1, 2, 3, 4, 5}
  BY <1>5
<1> QED
  BY <1>8, <1>c1, <1>c2, <1>c3, <1>c4, <1>c5 DEF u

LEMMA ServicesStep ==
    ASSUME NEW w \in Worlds, NEW r \in Runs, NEW t \in Seq(Calls), t # <<>>,
           ServicesAhead(w, r, t), NEW s, s = Head(t), Holds(w, r, s),
           NEW e, e = Effect(w, r, s), NEW q, q = Mid(w, r, s)
    PROVE  ServicesAhead(e, q, Tail(t))
<1> DEFINE u == Tail(t)
<1>1. /\ s \in Calls /\ Len(t) \in Nat \ {0} /\ Len(u) = Len(t) - 1
  BY First
<1>2. /\ s = ServicesSteps[(27 - Len(t)) + 1] /\ Ending(ServicesSteps, u)
      /\ Len(t) <= 27
      /\ ServicesPart(w, r, Len(t))
  BY ServicesStepsAre, Ended DEF ServicesAhead, Ending
<1>3. Puts(w, e, s[1], s[2]) /\ Special(w, r, s, e)
  BY <1>1, Effects, Specials
<1>4. /\ PutsDebts(w, e, s[1], s[2]) /\ PutsRest(w, e, s[1])
  BY <1>3 DEF Puts
<1> DEFINE m == Len(t)
<1>5. m \in 1 .. 27
  <2>1. m \in Nat \ {0} /\ m <= 27
    BY <1>1, <1>2
  <2> HIDE DEF m
  <2> QED
    BY <2>1
<1>6. ServicesPart(e, q, m - 1) => ServicesAhead(e, q, u)
  BY <1>1, <1>2 DEF ServicesAhead
<1>7. s = ServicesSteps[(27 - m) + 1] /\ ServicesPart(w, r, m)
  BY <1>2
<1> HIDE DEF m, u
<1>9. /\ Keeps(q, r)
      /\ s[1] \notin {"readMinio", "readZipkin", "readElastic", "saveImage"}
            => q.read = r.read
      /\ s[1] = "readMinio" => q.read = w.secret["minio"].data
      /\ s[1] = "readZipkin" => q.read = w.secret["zipkin"].data
      /\ s[1] = "readElastic" => q.read = w.elastic.data
      /\ s[1] = "saveImage" => q.read = w.built
      /\ s[1] = "readConfig" => q.config = w.config
      /\ s[1] # "readConfig" => q.config = r.config
      /\ \A x \in Owed(r) \cup ToSet(Owes(s)) : x # s => x \in Owed(q)
  BY <1>1, MidRun
<1>10. q.value = r.value
  BY <1>9 DEF Keeps
<1>11. /\ w.secret \in [Service -> [data : Nat, copy : Nat]]
       /\ w.elastic \in [data : Nat, copy : Nat] /\ w.images \in [Node -> Nat]
       /\ "minio" \in Service
       /\ "master" \in Node /\ "worker1" \in Node /\ "worker2" \in Node
  BY WorldFields DEF Service, Node
<1>12. e.built = w.built
  BY <1>4 DEF PutsRest
<1>c27. CASE m = 27
  <2>1. s[1] = "readElastic" /\ s[2] = "one"
    <3>1. (27 - 27) + 1 = 1
      OBVIOUS
    <3>2. s = <<"readElastic", "one">>
      BY <1>7, <1>c27, <3>1, ServicesStepsAre
    <3> QED
      BY <3>2
  <2>2. ServicesPart(w, r, 27)
    BY <1>7, <1>c27
  <2>3. /\ e.elastic = w.elastic /\ e.secret = w.secret /\ e.user = w.user
        /\ e.served = w.served /\ e.images = w.images
    BY <1>4, <2>1 DEF PutsRest
  <2>4. q.read = w.elastic.data
    BY <1>9, <2>1
  <2>5. ServicesPart(e, q, 26)
    BY <2>2, <2>3, <2>4, <1>10, <1>12 DEF ServicesPart
  <2>6. m - 1 = 26
    BY <1>c27
  <2> QED
    BY <1>6, <2>5, <2>6 DEF u
<1>c26. CASE m = 26
  <2>1. s[1] = "copyElastic" /\ s[2] = "one"
    <3>1. (27 - 26) + 1 = 2
      OBVIOUS
    <3>2. s = <<"copyElastic", "one">>
      BY <1>7, <1>c26, <3>1, ServicesStepsAre
    <3> QED
      BY <3>2
  <2>2. ServicesPart(w, r, 26)
    BY <1>7, <1>c26
  <2>3. /\ e.secret = w.secret /\ e.user = w.user /\ e.served = w.served
        /\ e.images = w.images
    BY <1>4, <2>1 DEF PutsRest
  <2>4. e.elastic = [w.elastic EXCEPT !.copy = r.read]
    BY <1>3, <2>1 DEF Special
  <2>5. e.elastic.data = w.elastic.data /\ e.elastic.copy = r.read
    BY <1>11, <2>4
  <2>6. q.read = r.read
    BY <1>9, <2>1
  <2>7. ServicesPart(e, q, 25)
    BY <2>2, <2>3, <2>4, <2>5, <2>6, <1>10, <1>12 DEF ServicesPart
  <2>8. m - 1 = 25
    BY <1>c26
  <2> QED
    BY <1>6, <2>7, <2>8 DEF u
<1>c25. CASE m = 25
  <2>1. s[1] = "judge" /\ s[2] = "tenantReady"
    <3>1. (27 - 25) + 1 = 3
      OBVIOUS
    <3>2. s = <<"judge", "tenantReady">>
      BY <1>7, <1>c25, <3>1, ServicesStepsAre
    <3> QED
      BY <3>2
  <2>2. ServicesPart(w, r, 25)
    BY <1>7, <1>c25
  <2>3. /\ e.elastic = w.elastic /\ e.secret = w.secret /\ e.user = w.user
        /\ e.served = w.served /\ e.images = w.images
    BY <1>4, <2>1 DEF PutsRest
  <2>4. q.read = r.read
    BY <1>9, <2>1
  <2>5. ServicesPart(e, q, 24)
    BY <2>2, <2>3, <2>4, <1>10, <1>12 DEF ServicesPart
  <2>6. m - 1 = 24
    BY <1>c25
  <2> QED
    BY <1>6, <2>5, <2>6 DEF u
<1>c24. CASE m = 24
  <2>1. s[1] = "configure" /\ s[2] = "one"
    <3>1. (27 - 24) + 1 = 4
      OBVIOUS
    <3>2. s = <<"configure", "one">>
      BY <1>7, <1>c24, <3>1, ServicesStepsAre
    <3> QED
      BY <3>2
  <2>2. ServicesPart(w, r, 24)
    BY <1>7, <1>c24
  <2>3. /\ e.elastic = w.elastic /\ e.secret = w.secret /\ e.user = w.user
        /\ e.served = w.served /\ e.images = w.images
    BY <1>4, <2>1 DEF PutsRest
  <2>4. q.read = r.read
    BY <1>9, <2>1
  <2>5. ServicesPart(e, q, 23)
    BY <2>2, <2>3, <2>4, <1>10, <1>12 DEF ServicesPart
  <2>6. m - 1 = 23
    BY <1>c24
  <2> QED
    BY <1>6, <2>5, <2>6 DEF u
<1>c23. CASE m = 23
  <2>1. s[1] = "bucket" /\ s[2] = "one"
    <3>1. (27 - 23) + 1 = 5
      OBVIOUS
    <3>2. s = <<"bucket", "one">>
      BY <1>7, <1>c23, <3>1, ServicesStepsAre
    <3> QED
      BY <3>2
  <2>2. ServicesPart(w, r, 23)
    BY <1>7, <1>c23
  <2>3. /\ e.elastic = w.elastic /\ e.secret = w.secret /\ e.user = w.user
        /\ e.served = w.served /\ e.images = w.images
    BY <1>4, <2>1 DEF PutsRest
  <2>4. q.read = r.read
    BY <1>9, <2>1
  <2>5. ServicesPart(e, q, 22)
    BY <2>2, <2>3, <2>4, <1>10, <1>12 DEF ServicesPart
  <2>6. m - 1 = 22
    BY <1>c23
  <2> QED
    BY <1>6, <2>5, <2>6 DEF u
<1>c22. CASE m = 22
  <2>1. s[1] = "judge" /\ s[2] = "bucket"
    <3>1. (27 - 22) + 1 = 6
      OBVIOUS
    <3>2. s = <<"judge", "bucket">>
      BY <1>7, <1>c22, <3>1, ServicesStepsAre
    <3> QED
      BY <3>2
  <2>2. ServicesPart(w, r, 22)
    BY <1>7, <1>c22
  <2>3. /\ e.elastic = w.elastic /\ e.secret = w.secret /\ e.user = w.user
        /\ e.served = w.served /\ e.images = w.images
    BY <1>4, <2>1 DEF PutsRest
  <2>4. q.read = r.read
    BY <1>9, <2>1
  <2>5. ServicesPart(e, q, 21)
    BY <2>2, <2>3, <2>4, <1>10, <1>12 DEF ServicesPart
  <2>6. m - 1 = 21
    BY <1>c22
  <2> QED
    BY <1>6, <2>5, <2>6 DEF u
<1>c21. CASE m = 21
  <2>1. s[1] = "removeFiles" /\ s[2] = "one"
    <3>1. (27 - 21) + 1 = 7
      OBVIOUS
    <3>2. s = <<"removeFiles", "one">>
      BY <1>7, <1>c21, <3>1, ServicesStepsAre
    <3> QED
      BY <3>2
  <2>2. ServicesPart(w, r, 21)
    BY <1>7, <1>c21
  <2>3. /\ e.elastic = w.elastic /\ e.secret = w.secret /\ e.user = w.user
        /\ e.served = w.served /\ e.images = w.images
    BY <1>4, <2>1 DEF PutsRest
  <2>4. q.read = r.read
    BY <1>9, <2>1
  <2>5. ServicesPart(e, q, 20)
    BY <2>2, <2>3, <2>4, <1>10, <1>12 DEF ServicesPart
  <2>6. m - 1 = 20
    BY <1>c21
  <2> QED
    BY <1>6, <2>5, <2>6 DEF u
<1>c20. CASE m = 20
  <2>1. s[1] = "secret" /\ s[2] = "minio"
    <3>1. (27 - 20) + 1 = 8
      OBVIOUS
    <3>2. s = <<"secret", "minio">>
      BY <1>7, <1>c20, <3>1, ServicesStepsAre
    <3> QED
      BY <3>2
  <2>2. ServicesPart(w, r, 20)
    BY <1>7, <1>c20
  <2>3. /\ e.elastic = w.elastic /\ e.user = w.user /\ e.served = w.served
        /\ e.images = w.images
    BY <1>4, <2>1 DEF PutsRest
  <2>4. e.secret = [w.secret EXCEPT !["minio"].data = r.value]
    BY <1>3, <2>1 DEF Special
  <2>5. e.secret["minio"].data = r.value
    BY <1>11, <2>4
  <2>6. q.read = r.read
    BY <1>9, <2>1
  <2>7. ServicesPart(e, q, 19)
    BY <2>2, <2>3, <2>4, <2>5, <2>6, <1>10, <1>12 DEF ServicesPart
  <2>8. m - 1 = 19
    BY <1>c20
  <2> QED
    BY <1>6, <2>7, <2>8 DEF u
<1>c19. CASE m = 19
  <2>1. s[1] = "secretCopy" /\ s[2] = "minio"
    <3>1. (27 - 19) + 1 = 9
      OBVIOUS
    <3>2. s = <<"secretCopy", "minio">>
      BY <1>7, <1>c19, <3>1, ServicesStepsAre
    <3> QED
      BY <3>2
  <2>2. ServicesPart(w, r, 19)
    BY <1>7, <1>c19
  <2>3. /\ e.elastic = w.elastic /\ e.user = w.user /\ e.served = w.served
        /\ e.images = w.images
    BY <1>4, <2>1 DEF PutsRest
  <2>4. e.secret = [w.secret EXCEPT !["minio"].copy = r.value]
    BY <1>3, <2>1 DEF Special
  <2>5. w.secret["minio"] \in [data : Nat, copy : Nat]
    BY <1>11
  <2>6. e.secret["minio"] = [w.secret["minio"] EXCEPT !.copy = r.value]
    BY <1>11, <2>4
  <2>7. /\ e.secret["minio"].copy = r.value
        /\ e.secret["minio"].data = w.secret["minio"].data
    BY <2>5, <2>6
  <2>8. q.read = r.read
    BY <1>9, <2>1
  <2>9. ServicesPart(e, q, 18)
    BY <2>2, <2>3, <2>4, <2>5, <2>6, <2>7, <2>8, <1>10, <1>12 DEF ServicesPart
  <2>10. m - 1 = 18
    BY <1>c19
  <2> QED
    BY <1>6, <2>9, <2>10 DEF u
<1>c18. CASE m = 18
  <2>1. s[1] = "judge" /\ s[2] = "tenantReady"
    <3>1. (27 - 18) + 1 = 10
      OBVIOUS
    <3>2. s = <<"judge", "tenantReady">>
      BY <1>7, <1>c18, <3>1, ServicesStepsAre
    <3> QED
      BY <3>2
  <2>2. ServicesPart(w, r, 18)
    BY <1>7, <1>c18
  <2>3. /\ e.elastic = w.elastic /\ e.secret = w.secret /\ e.user = w.user
        /\ e.served = w.served /\ e.images = w.images
    BY <1>4, <2>1 DEF PutsRest
  <2>4. q.read = r.read
    BY <1>9, <2>1
  <2>5. ServicesPart(e, q, 17)
    BY <2>2, <2>3, <2>4, <1>10, <1>12 DEF ServicesPart
  <2>6. m - 1 = 17
    BY <1>c18
  <2> QED
    BY <1>6, <2>5, <2>6 DEF u
<1>c17. CASE m = 17
  <2>1. s[1] = "readMinio" /\ s[2] = "one"
    <3>1. (27 - 17) + 1 = 11
      OBVIOUS
    <3>2. s = <<"readMinio", "one">>
      BY <1>7, <1>c17, <3>1, ServicesStepsAre
    <3> QED
      BY <3>2
  <2>2. ServicesPart(w, r, 17)
    BY <1>7, <1>c17
  <2>3. /\ e.elastic = w.elastic /\ e.secret = w.secret /\ e.user = w.user
        /\ e.served = w.served /\ e.images = w.images
    BY <1>4, <2>1 DEF PutsRest
  <2>4. q.read = w.secret["minio"].data
    BY <1>9, <2>1
  <2>5. ServicesPart(e, q, 16)
    BY <2>2, <2>3, <2>4, <1>10, <1>12 DEF ServicesPart
  <2>6. m - 1 = 16
    BY <1>c17
  <2> QED
    BY <1>6, <2>5, <2>6 DEF u
<1>c16. CASE m = 16
  <2>1. s[1] = "configure" /\ s[2] = "one"
    <3>1. (27 - 16) + 1 = 12
      OBVIOUS
    <3>2. s = <<"configure", "one">>
      BY <1>7, <1>c16, <3>1, ServicesStepsAre
    <3> QED
      BY <3>2
  <2>2. ServicesPart(w, r, 16)
    BY <1>7, <1>c16
  <2>3. /\ e.elastic = w.elastic /\ e.secret = w.secret /\ e.user = w.user
        /\ e.served = w.served /\ e.images = w.images
    BY <1>4, <2>1 DEF PutsRest
  <2>4. q.read = r.read
    BY <1>9, <2>1
  <2>5. ServicesPart(e, q, 15)
    BY <2>2, <2>3, <2>4, <1>10, <1>12 DEF ServicesPart
  <2>6. m - 1 = 15
    BY <1>c16
  <2> QED
    BY <1>6, <2>5, <2>6 DEF u
<1>c15. CASE m = 15
  <2>1. s[1] = "import" /\ s[2] = "one"
    <3>1. (27 - 15) + 1 = 13
      OBVIOUS
    <3>2. s = <<"import", "one">>
      BY <1>7, <1>c15, <3>1, ServicesStepsAre
    <3> QED
      BY <3>2
  <2>2. ServicesPart(w, r, 15)
    BY <1>7, <1>c15
  <2>3. /\ e.elastic = w.elastic /\ e.secret = w.secret /\ e.served = w.served
        /\ e.images = w.images
    BY <1>4, <2>1 DEF PutsRest
  <2>4. e.user = r.read
    BY <1>3, <2>1 DEF Special
  <2>5. q.read = r.read
    BY <1>9, <2>1
  <2>6. ServicesPart(e, q, 14)
    BY <2>2, <2>3, <2>4, <2>5, <1>10, <1>12 DEF ServicesPart
  <2>7. m - 1 = 14
    BY <1>c15
  <2> QED
    BY <1>6, <2>6, <2>7 DEF u
<1>c14. CASE m = 14
  <2>1. s[1] = "judge" /\ s[2] = "confirmed"
    <3>1. (27 - 14) + 1 = 14
      OBVIOUS
    <3>2. s = <<"judge", "confirmed">>
      BY <1>7, <1>c14, <3>1, ServicesStepsAre
    <3> QED
      BY <3>2
  <2>2. ServicesPart(w, r, 14)
    BY <1>7, <1>c14
  <2>3. /\ e.elastic = w.elastic /\ e.secret = w.secret /\ e.user = w.user
        /\ e.served = w.served /\ e.images = w.images
    BY <1>4, <2>1 DEF PutsRest
  <2>4. q.read = r.read
    BY <1>9, <2>1
  <2>5. ServicesPart(e, q, 13)
    BY <2>2, <2>3, <2>4, <1>10, <1>12 DEF ServicesPart
  <2>6. m - 1 = 13
    BY <1>c14
  <2> QED
    BY <1>6, <2>5, <2>6 DEF u
<1>c13. CASE m = 13
  <2>1. s[1] = "removeFiles" /\ s[2] = "one"
    <3>1. (27 - 13) + 1 = 15
      OBVIOUS
    <3>2. s = <<"removeFiles", "one">>
      BY <1>7, <1>c13, <3>1, ServicesStepsAre
    <3> QED
      BY <3>2
  <2>2. ServicesPart(w, r, 13)
    BY <1>7, <1>c13
  <2>3. /\ e.elastic = w.elastic /\ e.secret = w.secret /\ e.user = w.user
        /\ e.served = w.served /\ e.images = w.images
    BY <1>4, <2>1 DEF PutsRest
  <2>4. q.read = r.read
    BY <1>9, <2>1
  <2>5. ServicesPart(e, q, 12)
    BY <2>2, <2>3, <2>4, <1>10, <1>12 DEF ServicesPart
  <2>6. m - 1 = 12
    BY <1>c13
  <2> QED
    BY <1>6, <2>5, <2>6 DEF u
<1>c12. CASE m = 12
  <2>1. s[1] = "saveImage" /\ s[2] = "one"
    <3>1. (27 - 12) + 1 = 16
      OBVIOUS
    <3>2. s = <<"saveImage", "one">>
      BY <1>7, <1>c12, <3>1, ServicesStepsAre
    <3> QED
      BY <3>2
  <2>2. ServicesPart(w, r, 12)
    BY <1>7, <1>c12
  <2>3. /\ e.elastic = w.elastic /\ e.secret = w.secret /\ e.user = w.user
        /\ e.served = w.served /\ e.images = w.images
    BY <1>4, <2>1 DEF PutsRest
  <2>4. q.read = w.built
    BY <1>9, <2>1
  <2>5. ServicesPart(e, q, 11)
    BY <2>2, <2>3, <2>4, <1>10, <1>12 DEF ServicesPart
  <2>6. m - 1 = 11
    BY <1>c12
  <2> QED
    BY <1>6, <2>5, <2>6 DEF u
<1>c11. CASE m = 11
  <2>1. s[1] = "pushArchive" /\ s[2] = "master"
    <3>1. (27 - 11) + 1 = 17
      OBVIOUS
    <3>2. s = <<"pushArchive", "master">>
      BY <1>7, <1>c11, <3>1, ServicesStepsAre
    <3> QED
      BY <3>2
  <2>2. ServicesPart(w, r, 11)
    BY <1>7, <1>c11
  <2>3. /\ e.elastic = w.elastic /\ e.secret = w.secret /\ e.user = w.user
        /\ e.served = w.served /\ e.images = w.images
    BY <1>4, <2>1 DEF PutsRest
  <2>4. q.read = r.read
    BY <1>9, <2>1
  <2>5. ServicesPart(e, q, 10)
    BY <2>2, <2>3, <2>4, <1>10, <1>12 DEF ServicesPart
  <2>6. m - 1 = 10
    BY <1>c11
  <2> QED
    BY <1>6, <2>5, <2>6 DEF u
<1>c10. CASE m = 10
  <2>1. s[1] = "importImage" /\ s[2] = "master"
    <3>1. (27 - 10) + 1 = 18
      OBVIOUS
    <3>2. s = <<"importImage", "master">>
      BY <1>7, <1>c10, <3>1, ServicesStepsAre
    <3> QED
      BY <3>2
  <2>2. ServicesPart(w, r, 10)
    BY <1>7, <1>c10
  <2>3. /\ e.elastic = w.elastic /\ e.secret = w.secret /\ e.user = w.user
        /\ e.served = w.served
    BY <1>4, <2>1 DEF PutsRest
  <2>4. e.images = [w.images EXCEPT !["master"] = r.read]
    BY <1>3, <2>1 DEF Special
  <2>5. /\ e.images["master"] = r.read
        /\ e.images["worker1"] = w.images["worker1"]
        /\ e.images["worker2"] = w.images["worker2"]
    BY <1>11, <2>4
  <2>6. q.read = r.read
    BY <1>9, <2>1
  <2>7. ServicesPart(e, q, 9)
    BY <2>2, <2>3, <2>4, <2>5, <2>6, <1>10, <1>12 DEF ServicesPart
  <2>8. m - 1 = 9
    BY <1>c10
  <2> QED
    BY <1>6, <2>7, <2>8 DEF u
<1>c9. CASE m = 9
  <2>1. s[1] = "removeArchive" /\ s[2] = "master"
    <3>1. (27 - 9) + 1 = 19
      OBVIOUS
    <3>2. s = <<"removeArchive", "master">>
      BY <1>7, <1>c9, <3>1, ServicesStepsAre
    <3> QED
      BY <3>2
  <2>2. ServicesPart(w, r, 9)
    BY <1>7, <1>c9
  <2>3. /\ e.elastic = w.elastic /\ e.secret = w.secret /\ e.user = w.user
        /\ e.served = w.served /\ e.images = w.images
    BY <1>4, <2>1 DEF PutsRest
  <2>4. q.read = r.read
    BY <1>9, <2>1
  <2>5. ServicesPart(e, q, 8)
    BY <2>2, <2>3, <2>4, <1>10, <1>12 DEF ServicesPart
  <2>6. m - 1 = 8
    BY <1>c9
  <2> QED
    BY <1>6, <2>5, <2>6 DEF u
<1>c8. CASE m = 8
  <2>1. s[1] = "pushArchive" /\ s[2] = "worker1"
    <3>1. (27 - 8) + 1 = 20
      OBVIOUS
    <3>2. s = <<"pushArchive", "worker1">>
      BY <1>7, <1>c8, <3>1, ServicesStepsAre
    <3> QED
      BY <3>2
  <2>2. ServicesPart(w, r, 8)
    BY <1>7, <1>c8
  <2>3. /\ e.elastic = w.elastic /\ e.secret = w.secret /\ e.user = w.user
        /\ e.served = w.served /\ e.images = w.images
    BY <1>4, <2>1 DEF PutsRest
  <2>4. q.read = r.read
    BY <1>9, <2>1
  <2>5. ServicesPart(e, q, 7)
    BY <2>2, <2>3, <2>4, <1>10, <1>12 DEF ServicesPart
  <2>6. m - 1 = 7
    BY <1>c8
  <2> QED
    BY <1>6, <2>5, <2>6 DEF u
<1>c7. CASE m = 7
  <2>1. s[1] = "importImage" /\ s[2] = "worker1"
    <3>1. (27 - 7) + 1 = 21
      OBVIOUS
    <3>2. s = <<"importImage", "worker1">>
      BY <1>7, <1>c7, <3>1, ServicesStepsAre
    <3> QED
      BY <3>2
  <2>2. ServicesPart(w, r, 7)
    BY <1>7, <1>c7
  <2>3. /\ e.elastic = w.elastic /\ e.secret = w.secret /\ e.user = w.user
        /\ e.served = w.served
    BY <1>4, <2>1 DEF PutsRest
  <2>4. e.images = [w.images EXCEPT !["worker1"] = r.read]
    BY <1>3, <2>1 DEF Special
  <2>5. /\ e.images["worker1"] = r.read
        /\ e.images["master"] = w.images["master"]
        /\ e.images["worker2"] = w.images["worker2"]
    BY <1>11, <2>4
  <2>6. q.read = r.read
    BY <1>9, <2>1
  <2>7. ServicesPart(e, q, 6)
    BY <2>2, <2>3, <2>4, <2>5, <2>6, <1>10, <1>12 DEF ServicesPart
  <2>8. m - 1 = 6
    BY <1>c7
  <2> QED
    BY <1>6, <2>7, <2>8 DEF u
<1>c6. CASE m = 6
  <2>1. s[1] = "removeArchive" /\ s[2] = "worker1"
    <3>1. (27 - 6) + 1 = 22
      OBVIOUS
    <3>2. s = <<"removeArchive", "worker1">>
      BY <1>7, <1>c6, <3>1, ServicesStepsAre
    <3> QED
      BY <3>2
  <2>2. ServicesPart(w, r, 6)
    BY <1>7, <1>c6
  <2>3. /\ e.elastic = w.elastic /\ e.secret = w.secret /\ e.user = w.user
        /\ e.served = w.served /\ e.images = w.images
    BY <1>4, <2>1 DEF PutsRest
  <2>4. q.read = r.read
    BY <1>9, <2>1
  <2>5. ServicesPart(e, q, 5)
    BY <2>2, <2>3, <2>4, <1>10, <1>12 DEF ServicesPart
  <2>6. m - 1 = 5
    BY <1>c6
  <2> QED
    BY <1>6, <2>5, <2>6 DEF u
<1>c5. CASE m = 5
  <2>1. s[1] = "pushArchive" /\ s[2] = "worker2"
    <3>1. (27 - 5) + 1 = 23
      OBVIOUS
    <3>2. s = <<"pushArchive", "worker2">>
      BY <1>7, <1>c5, <3>1, ServicesStepsAre
    <3> QED
      BY <3>2
  <2>2. ServicesPart(w, r, 5)
    BY <1>7, <1>c5
  <2>3. /\ e.elastic = w.elastic /\ e.secret = w.secret /\ e.user = w.user
        /\ e.served = w.served /\ e.images = w.images
    BY <1>4, <2>1 DEF PutsRest
  <2>4. q.read = r.read
    BY <1>9, <2>1
  <2>5. ServicesPart(e, q, 4)
    BY <2>2, <2>3, <2>4, <1>10, <1>12 DEF ServicesPart
  <2>6. m - 1 = 4
    BY <1>c5
  <2> QED
    BY <1>6, <2>5, <2>6 DEF u
<1>c4. CASE m = 4
  <2>1. s[1] = "importImage" /\ s[2] = "worker2"
    <3>1. (27 - 4) + 1 = 24
      OBVIOUS
    <3>2. s = <<"importImage", "worker2">>
      BY <1>7, <1>c4, <3>1, ServicesStepsAre
    <3> QED
      BY <3>2
  <2>2. ServicesPart(w, r, 4)
    BY <1>7, <1>c4
  <2>3. /\ e.elastic = w.elastic /\ e.secret = w.secret /\ e.user = w.user
        /\ e.served = w.served
    BY <1>4, <2>1 DEF PutsRest
  <2>4. e.images = [w.images EXCEPT !["worker2"] = r.read]
    BY <1>3, <2>1 DEF Special
  <2>5. /\ e.images["worker2"] = r.read
        /\ e.images["master"] = w.images["master"]
        /\ e.images["worker1"] = w.images["worker1"]
    BY <1>11, <2>4
  <2>6. q.read = r.read
    BY <1>9, <2>1
  <2>7. ServicesPart(e, q, 3)
    BY <2>2, <2>3, <2>4, <2>5, <2>6, <1>10, <1>12 DEF ServicesPart
  <2>8. m - 1 = 3
    BY <1>c4
  <2> QED
    BY <1>6, <2>7, <2>8 DEF u
<1>c3. CASE m = 3
  <2>1. s[1] = "removeArchive" /\ s[2] = "worker2"
    <3>1. (27 - 3) + 1 = 25
      OBVIOUS
    <3>2. s = <<"removeArchive", "worker2">>
      BY <1>7, <1>c3, <3>1, ServicesStepsAre
    <3> QED
      BY <3>2
  <2>2. ServicesPart(w, r, 3)
    BY <1>7, <1>c3
  <2>3. /\ e.elastic = w.elastic /\ e.secret = w.secret /\ e.user = w.user
        /\ e.served = w.served /\ e.images = w.images
    BY <1>4, <2>1 DEF PutsRest
  <2>4. q.read = r.read
    BY <1>9, <2>1
  <2>5. ServicesPart(e, q, 2)
    BY <2>2, <2>3, <2>4, <1>10, <1>12 DEF ServicesPart
  <2>6. m - 1 = 2
    BY <1>c3
  <2> QED
    BY <1>6, <2>5, <2>6 DEF u
<1>c2. CASE m = 2
  <2>1. s[1] = "redeploy" /\ s[2] = "one"
    <3>1. (27 - 2) + 1 = 26
      OBVIOUS
    <3>2. s = <<"redeploy", "one">>
      BY <1>7, <1>c2, <3>1, ServicesStepsAre
    <3> QED
      BY <3>2
  <2>2. ServicesPart(w, r, 2)
    BY <1>7, <1>c2
  <2>3. /\ e.elastic = w.elastic /\ e.secret = w.secret /\ e.user = w.user
        /\ e.images = w.images
    BY <1>4, <2>1 DEF PutsRest
  <2>4. e.served = [password |-> w.secret["minio"].copy,
                    elastic |-> w.elastic.copy]
    BY <1>3, <2>1 DEF Special
  <2>5. q.read = r.read
    BY <1>9, <2>1
  <2>6. ServicesPart(e, q, 1)
    BY <2>2, <2>3, <2>4, <2>5, <1>10, <1>12 DEF ServicesPart
  <2>7. m - 1 = 1
    BY <1>c2
  <2> QED
    BY <1>6, <2>6, <2>7 DEF u
<1>c1. CASE m = 1
  <2>1. s[1] = "judge" /\ s[2] = "available"
    <3>1. (27 - 1) + 1 = 27
      OBVIOUS
    <3>2. s = <<"judge", "available">>
      BY <1>7, <1>c1, <3>1, ServicesStepsAre
    <3> QED
      BY <3>2
  <2>2. ServicesPart(w, r, 1)
    BY <1>7, <1>c1
  <2>3. /\ e.elastic = w.elastic /\ e.secret = w.secret /\ e.user = w.user
        /\ e.served = w.served /\ e.images = w.images
    BY <1>4, <2>1 DEF PutsRest
  <2>4. q.read = r.read
    BY <1>9, <2>1
  <2>5. ServicesPart(e, q, 0)
    BY <2>2, <2>3, <2>4, <1>10, <1>12 DEF ServicesPart
  <2>6. m - 1 = 0
    BY <1>c1
  <2> QED
    BY <1>6, <2>5, <2>6 DEF u
<1>8. m \in {1, 2, 3, 4, 5, 6, 7, 8, 9, 10, 11, 12, 13, 14, 15, 16, 17, 18, 19,
             20, 21, 22, 23, 24, 25, 26, 27}
  BY <1>5
<1> QED
  BY <1>8, <1>c1, <1>c2, <1>c3, <1>c4, <1>c5, <1>c6, <1>c7, <1>c8, <1>c9,
     <1>c10, <1>c11, <1>c12, <1>c13, <1>c14, <1>c15, <1>c16, <1>c17,
     <1>c18, <1>c19, <1>c20, <1>c21, <1>c22, <1>c23, <1>c24, <1>c25,
     <1>c26, <1>c27 DEF u


LEMMA SortedOn ==
    ASSUME NEW t \in Seq(Calls), t # <<>>, Sorted(t)
    PROVE  /\ Sorted(Tail(t))
           /\ \A x \in ToSet(Tail(t)) : Rank(Head(t)) < Rank(x)
<1> DEFINE u == Tail(t)
           n == Len(t)
<1>1. /\ Head(t) = t[1] /\ u \in Seq(Calls) /\ Len(u) = n - 1
      /\ \A i \in 1 .. n - 1 : u[i] = t[i + 1]
      /\ n \in Nat \ {0}
  BY First
<1>2. \A i, j \in 1 .. n : i < j => Rank(t[i]) < Rank(t[j])
  BY DEF Sorted
<1>3. \A x : x \in ToSet(u) <=> \E i \in 1 .. Len(u) : x = u[i]
  BY <1>1, Elements
<1> HIDE DEF u, n
<1>4. \A i \in 1 .. n - 1 : i + 1 \in 1 .. n /\ 1 < i + 1 /\ 1 \in 1 .. n
  BY <1>1
<1>5. Sorted(u)
  <2> SUFFICES ASSUME NEW i \in 1 .. Len(u), NEW j \in 1 .. Len(u), i < j
               PROVE  Rank(u[i]) < Rank(u[j])
    BY DEF Sorted
  <2>1. i \in 1 .. n - 1 /\ j \in 1 .. n - 1 /\ i + 1 < j + 1
    BY <1>1
  <2>2. u[i] = t[i + 1] /\ u[j] = t[j + 1]
    BY <1>1, <2>1
  <2> QED
    BY <1>2, <1>4, <2>1, <2>2
<1>6. ASSUME NEW x \in ToSet(u) PROVE Rank(Head(t)) < Rank(x)
  <2>1. PICK i \in 1 .. Len(u) : x = u[i]
    BY <1>3
  <2>2. i \in 1 .. n - 1 /\ u[i] = t[i + 1]
    BY <1>1, <2>1
  <2> QED
    BY <1>1, <1>2, <1>4, <2>1, <2>2
<1> QED
  BY <1>5, <1>6 DEF u

\* A machine that exists is not taken away by these steps.
LEMMA ExistsOn ==
    ASSUME NEW w \in Worlds, NEW e, NEW k, NEW a, PutsMachines(w, e, k, a),
           k # "delete", NEW t, Exists(w, t)
    PROVE  Exists(e, t)
<1> SUFFICES ASSUME NEW x \in ToSet(t)
             PROVE  x[2] \in Node /\ e.vm[x[2]] # "absent"
  BY DEF Exists
<1>1. x[2] \in Node /\ w.vm[x[2]] # "absent"
  BY DEF Exists
<1> DEFINE n == x[2]
<1>2. n \in Node
  BY <1>1
<1> HIDE DEF n
<1>3. /\ (n # a \/ k \notin MachineKind) => e.vm[n] = w.vm[n]
      /\ (n = a /\ k \in {"launch", "start", "resume"}) => e.vm[n] = "running"
      /\ (n = a /\ k \in {"pause", "pauseNode"}) => e.vm[n] = "frozen"
  BY <1>2, Moves
<1> QED
  BY <1>1, <1>3 DEF n, MachineKind

LEMMA RankOf ==
    ASSUME NEW n \in Node
    PROVE  /\ Rank(<<"pause", n>>) = Position(n)
           /\ Rank(<<"drop", n>>) = 2 + 2 * Position(n)
           /\ Rank(<<"snapshot", n>>) = 3 + 2 * Position(n)
           /\ Position(n) \in {1, 2, 3}
BY DEF Rank, Position

LEMMA SnapshotStep ==
    ASSUME NEW w \in Worlds, NEW r \in Runs, NEW t \in Seq(Calls), t # <<>>,
           \A x \in ToSet(t) : x[1] \in {"pause", "drop", "snapshot"},
           SnapshotAhead(w, r, t), NEW s, s = Head(t),
           NEW e, e = Effect(w, r, s), NEW q, q = Mid(w, r, s)
    PROVE  SnapshotAhead(e, q, Tail(t))
<1> DEFINE u == Tail(t)
           k == s[1]
           a == s[2]
<1>1. /\ s \in Calls /\ s \in ToSet(t) /\ u \in Seq(Calls)
      /\ ToSet(t) = {s} \cup ToSet(u)
  BY First
<1>2. /\ Sorted(t) /\ Exists(w, t) /\ Exists(w, r.owed)
      /\ r.missed = {} => \A n \in Node :
            /\ (w.vm[n] = "running" /\ t # <<>>) => <<"pause", n>> \in ToSet(t)
            /\ <<"drop", n>> \in ToSet(t) => <<"snapshot", n>> \in ToSet(t)
            /\ w.vm[n] # "absent" =>
                  (<<"snapshot", n>> \in ToSet(t) \/ CutNow(w, r, n))
  BY DEF SnapshotAhead
<1>3. Sorted(u) /\ \A x \in ToSet(u) : Rank(s) < Rank(x)
  BY <1>2, SortedOn
<1>4. a \in Node /\ w.vm[a] # "absent"
  BY <1>1, <1>2 DEF Exists
<1>5. k \in {"pause", "drop", "snapshot"} /\ s = <<k, a>>
  BY <1>1 DEF Calls
<1>6. PutsMachines(w, e, k, a) /\ PutsRest(w, e, k)
  BY <1>1, Effects DEF Puts
<1>7. Special(w, r, s, e)
  BY <1>1, Specials
<1>8. /\ Keeps(q, r) /\ Owed(q) \subseteq Owed(r) \cup ToSet(Owes(s))
  BY <1>1, MidRun
<1>9. q.operations = r.operations /\ q.missed = r.missed
  BY <1>8 DEF Keeps
<1>10. /\ \A x \in ToSet(Owes(s)) : k = "pause" /\ x[2] = a
  <2>1. k = "pause" => \A x \in ToSet(Owes(s)) : x[2] = a
    BY <1>1, OwesAre
  <2>2. k # "pause" => Owes(s) = <<>>
    BY <1>5 DEF Owes
  <2> QED
    BY <2>1, <2>2, Empty
<1>11. w.snapshot \in [Node -> Cuts]
  BY WorldFields
<1>12. ASSUME NEW n \in Node
       PROVE  /\ (n # a \/ k # "pause") => e.vm[n] = w.vm[n]
              /\ (n = a /\ k = "pause") => e.vm[n] = "frozen"
  <2>1. /\ (n # a \/ k \notin MachineKind) => e.vm[n] = w.vm[n]
        /\ (n = a /\ k \in {"pause", "pauseNode"}) => e.vm[n] = "frozen"
    BY <1>6, <1>12, Moves
  <2> QED
    BY <1>5, <2>1 DEF MachineKind
<1>13. /\ k = "drop" => e.snapshot = [w.snapshot EXCEPT ![a] = NoSnapshot]
       /\ k = "snapshot" =>
             e.snapshot = [w.snapshot EXCEPT ![a] = Snapshot(w, r, s[2])]
       /\ k = "pause" => e.snapshot = w.snapshot
  BY <1>6, <1>7 DEF Special, PutsRest
<1>14. \A n \in Node : /\ Rank(<<"pause", n>>) = Position(n)
                       /\ Rank(<<"drop", n>>) = 2 + 2 * Position(n)
                       /\ Rank(<<"snapshot", n>>) = 3 + 2 * Position(n)
                       /\ Position(n) \in {1, 2, 3}
  BY RankOf, Zenon
<1> HIDE DEF u, k, a
<1>15. Exists(e, u)
  <2>1. Exists(w, u)
    BY <1>1, <1>2 DEF Exists
  <2> QED
    BY <1>5, <1>6, <2>1, ExistsOn
<1>16. Exists(e, q.owed)
  <2>1. Exists(e, r.owed)
    BY <1>2, <1>5, <1>6, ExistsOn
  <2>2. e.vm[a] # "absent"
    BY <1>4, <1>12
  <2> QED
    BY <1>4, <1>8, <1>10, <2>1, <2>2 DEF Exists, Owed
\* Once a machine is cut, all the pauses are done.
<1>17. ASSUME r.missed = {}, k # "pause", NEW n \in Node
       PROVE  w.vm[n] # "running"
  <2> SUFFICES ASSUME <<"pause", n>> \in ToSet(t) PROVE FALSE
    BY <1>2, <1>17
  <2>1. <<"pause", n>> # s
    BY <1>5, <1>17
  <2>2. Rank(s) < Rank(<<"pause", n>>)
    BY <1>1, <1>3, <2>1
  <2>3. Rank(s) = 2 + 2 * Position(a) \/ Rank(s) = 3 + 2 * Position(a)
    BY <1>4, <1>5, <1>14, <1>17
  <2>4. Rank(<<"pause", n>>) = Position(n) /\ Position(n) \in {1, 2, 3}
        /\ Position(a) \in {1, 2, 3}
    BY <1>4, <1>14
  <2>5. \A i, j, h \in {1, 2, 3} :
           ~((2 + 2 * i) < j) /\ ~((3 + 2 * i) < j)
    OBVIOUS
  <2> QED
    BY <2>2, <2>3, <2>4, <2>5
<1>18. ASSUME r.missed = {}, NEW n \in Node
       PROVE  (e.vm[n] = "running" /\ u # <<>>) => <<"pause", n>> \in ToSet(u)
  <2> SUFFICES ASSUME e.vm[n] = "running" PROVE <<"pause", n>> \in ToSet(u)
    OBVIOUS
  <2>1. w.vm[n] = "running" /\ (n # a \/ k # "pause")
    BY <1>12
  <2>2. k = "pause"
    BY <1>17, <1>18, <2>1
  <2>3. <<"pause", n>> \in ToSet(t)
    BY <1>2, <1>18, <2>1, Zenon
  <2>4. <<"pause", n>> # s
    BY <1>5, <2>1, <2>2
  <2> QED
    BY <1>1, <2>3, <2>4
<1>19. ASSUME r.missed = {}, NEW n \in Node, <<"drop", n>> \in ToSet(u)
       PROVE  <<"snapshot", n>> \in ToSet(u)
  <2>1. <<"snapshot", n>> \in ToSet(t)
    BY <1>1, <1>2, <1>19
  <2>2. <<"snapshot", n>> # s
    <3> SUFFICES ASSUME <<"snapshot", n>> = s PROVE FALSE
      OBVIOUS
    <3>1. Rank(<<"snapshot", n>>) < Rank(<<"drop", n>>)
      BY <1>3, <1>19
    <3>2. \A i \in {1, 2, 3} : ~((3 + 2 * i) < (2 + 2 * i))
      OBVIOUS
    <3> QED
      BY <1>14, <3>1, <3>2
  <2> QED
    BY <1>1, <2>1, <2>2
<1>20. ASSUME r.missed = {}, NEW n \in Node, e.vm[n] # "absent"
       PROVE  <<"snapshot", n>> \in ToSet(u) \/ CutNow(e, q, n)
  <2>1. w.vm[n] # "absent"
    BY <1>4, <1>12, <1>20
  <2>2. CASE <<"snapshot", n>> = s
    <3>1. k = "snapshot" /\ a = n
      BY <1>5, <2>2
    <3>2. e.snapshot[n] = Snapshot(w, r, n)
      BY <1>11, <1>13, <3>1 DEF a
    <3>3. Snapshot(w, r, n).cut = r.operations /\ Snapshot(w, r, n).quiet
      BY <1>17, <1>20, <3>1 DEF Snapshot
    <3> QED
      BY <1>9, <3>2, <3>3 DEF CutNow
  <2>3. CASE <<"snapshot", n>> # s /\ <<"snapshot", n>> \in ToSet(t)
    BY <1>1, <2>3
  <2>4. CASE <<"snapshot", n>> \notin ToSet(t)
    <3>1. CutNow(w, r, n)
      BY <1>2, <1>20, <2>1, <2>4
    <3>2. ~(k = "drop" /\ a = n) /\ ~(k = "snapshot" /\ a = n)
      BY <1>1, <1>2, <1>5, <1>20, <2>4
    <3>3. e.snapshot[n] = w.snapshot[n]
      BY <1>5, <1>11, <1>13, <3>2
    <3> QED
      BY <1>9, <3>1, <3>3 DEF CutNow
  <2> QED
    BY <2>2, <2>3, <2>4
<1> QED
  BY <1>3, <1>9, <1>15, <1>16, <1>18, <1>19, <1>20 DEF SnapshotAhead, u

LEMMA RestoreStep ==
    ASSUME NEW w \in Worlds, NEW r \in Runs, NEW t \in Seq(Calls), t # <<>>,
           \A x \in ToSet(t) : x[1] \in {"restore", "start"},
           RestoreAhead(w, r, t), NEW s, s = Head(t), Holds(w, r, s),
           NEW e, e = Effect(w, r, s), NEW q,
           q.missed = r.missed
    PROVE  RestoreAhead(e, q, Tail(t))
<1> DEFINE u == Tail(t)
           k == s[1]
           a == s[2]
<1>1. /\ s \in Calls /\ s \in ToSet(t) /\ u \in Seq(Calls)
      /\ ToSet(t) = {s} \cup ToSet(u)
  BY First
<1>2. /\ Exists(w, t)
      /\ \A n \in Node \ r.missed :
            \/ w.vm[n] = "absent"
            \/ <<"restore", n>> \in ToSet(t)
            \/ w.from[n] = w.snapshot[n] /\ w.snapshot[n].cut # None
  BY DEF RestoreAhead
<1>3. a \in Node /\ w.vm[a] # "absent"
  BY <1>1, <1>2 DEF Exists
<1>4. k \in {"restore", "start"} /\ s = <<k, a>>
  BY <1>1 DEF Calls
<1>5. PutsMachines(w, e, k, a) /\ PutsRest(w, e, k)
  BY <1>1, Effects DEF Puts
<1>6. Special(w, r, s, e)
  BY <1>1, Specials
<1>7. w.snapshot \in [Node -> Cuts] /\ w.from \in [Node -> Cuts]
  BY WorldFields
<1>8. /\ e.snapshot = w.snapshot
      /\ k = "start" => e.from = w.from
      /\ k = "restore" => e.from = [w.from EXCEPT ![a] = w.snapshot[a]]
  BY <1>4, <1>5, <1>6 DEF Special, PutsRest
<1>9. k = "restore" => w.snapshot[a].cut # None
  BY DEF Holds
<1>10. ASSUME NEW n \in Node PROVE n # a => e.vm[n] = w.vm[n]
  BY <1>5, <1>10, Moves
<1> HIDE DEF u, k, a
<1>11. Exists(e, u)
  <2>1. Exists(w, u)
    BY <1>1, <1>2 DEF Exists
  <2> QED
    BY <1>4, <1>5, <2>1, ExistsOn
<1>12. ASSUME NEW n \in Node \ r.missed
       PROVE  \/ e.vm[n] = "absent"
              \/ <<"restore", n>> \in ToSet(u)
              \/ e.from[n] = e.snapshot[n] /\ e.snapshot[n].cut # None
  <2>1. CASE <<"restore", n>> = s
    <3>1. k = "restore" /\ a = n
      BY <1>4, <2>1
    <3>2. e.from[n] = w.snapshot[n]
      BY <1>7, <1>8, <3>1
    <3> QED
      BY <1>8, <1>9, <3>1, <3>2
  <2>2. CASE <<"restore", n>> # s
    <3>1. \/ w.vm[n] = "absent"
          \/ <<"restore", n>> \in ToSet(u)
          \/ w.from[n] = w.snapshot[n] /\ w.snapshot[n].cut # None
      BY <1>1, <1>2, <2>2
    <3>2. e.from[n] = w.from[n]
      BY <1>4, <1>7, <1>8, <2>2
    <3> QED
      BY <1>3, <1>8, <1>10, <3>1, <3>2
  <2> QED
    BY <2>1, <2>2
<1> QED
  BY <1>11, <1>12 DEF RestoreAhead, u

LEMMA AheadStep ==
    ASSUME NEW w \in Worlds, NEW r \in Runs, NEW t \in Seq(Calls), t # <<>>,
           Ahead(w, r, t), NEW s, s = Head(t), Holds(w, r, s),
           NEW e, e = Effect(w, r, s), NEW q, q = Mid(w, r, s)
    PROVE  Ahead(e, q, Tail(t))
<1> DEFINE script == r.script
           u == Tail(t)
<1>1. /\ s \in Calls /\ ToSet(t) = {s} \cup ToSet(u)
  BY First
<1>2. q.script = script /\ q.missed = r.missed
  BY <1>1, MidRun DEF Keeps
<1>3. /\ \A x \in ToSet(t) : x[1] \in Kinds(script)
      /\ script = "snapshot" => SnapshotAhead(w, r, t)
      /\ script = "restore" => RestoreAhead(w, r, t)
      /\ script = "zipkin" => ZipkinAhead(w, r, t)
      /\ script = "services" => ServicesAhead(w, r, t)
      /\ script = "pull" => PullAhead(w, r, t)
  BY DEF Ahead
<1> HIDE DEF script, u
<1>4. \A x \in ToSet(u) : x[1] \in Kinds(script)
  BY <1>1, <1>3
<1>5. ASSUME script = "snapshot" PROVE SnapshotAhead(e, q, u)
  <2>1. \A x \in ToSet(t) : x[1] \in {"pause", "drop", "snapshot"}
    BY <1>3, <1>5, KindsAre
  <2> QED
    BY <1>3, <1>5, <2>1, SnapshotStep DEF u
<1>6. ASSUME script = "restore" PROVE RestoreAhead(e, q, u)
  <2>1. \A x \in ToSet(t) : x[1] \in {"restore", "start"}
    BY <1>3, <1>6, KindsAre
  <2> QED
    BY <1>2, <1>3, <1>6, <2>1, RestoreStep DEF u
<1>7. ASSUME script = "zipkin" PROVE ZipkinAhead(e, q, u)
  BY <1>3, <1>7, ZipkinStep DEF u
<1>8. ASSUME script = "services" PROVE ServicesAhead(e, q, u)
  BY <1>3, <1>8, ServicesStep DEF u
<1>9. ASSUME script = "pull" PROVE PullAhead(e, q, u)
  BY <1>3, <1>9, PullStep DEF u
<1> QED
  BY <1>2, <1>4, <1>5, <1>6, <1>7, <1>8, <1>9 DEF Ahead, u

\* What is owed, done or not, takes nothing away from what was achieved.
LEMMA AheadDebt ==
    ASSUME NEW w \in Worlds, NEW r \in Runs, NEW s \in Calls, s \in Owed(r),
           s[1] \in DebtKind, Cause(s[1]) \in Kinds(r.script),
           Ahead(w, r, <<>>), NEW e \in Worlds,
           Puts(w, e, s[1], s[2]) \/ e = w,
           NEW q, Keeps(q, r), Owed(q) \subseteq Owed(r)
    PROVE  Ahead(e, q, <<>>)
<1> DEFINE script == r.script
           k == s[1]
           a == s[2]
<1>1. q.script = script /\ q.value = r.value /\ q.operations = r.operations
  BY DEF Keeps
<1>2. /\ script = "snapshot" => SnapshotAhead(w, r, <<>>)
      /\ script = "restore" => RestoreAhead(w, r, <<>>)
      /\ script = "zipkin" => ZipkinAhead(w, r, <<>>)
      /\ script = "services" => ServicesAhead(w, r, <<>>)
      /\ script = "pull" => PullAhead(w, r, <<>>)
  BY DEF Ahead
<1>3. e = w \/ (/\ PutsMachines(w, e, k, a) /\ PutsDebts(w, e, k, a)
                /\ PutsRest(w, e, k))
  BY DEF Puts
<1>4. k \in DebtKind /\ Cause(k) \in Kinds(script)
  OBVIOUS
<1>5. /\ k = "resume" => Cause(k) = "pause"
      /\ k = "removeToken" => Cause(k) = "pushToken"
      /\ k = "removeFiles" => Cause(k) = "configure"
      /\ k \in {"removeRequest", "removePod"} => Cause(k) = "request"
      /\ k = "removeArchive" => Cause(k) = "pushArchive"
      /\ k = "endForward" => Cause(k) = "forward"
  BY DEF Cause
<1> HIDE DEF script, k, a
<1>6. /\ k # "resume" => Cause(k) # "pause" 
      /\ script = "snapshot" => k = "resume"
      /\ script # "restore"
      /\ script = "zipkin" => k \in {"removeRequest", "removePod"}
  BY <1>4, <1>5, KindsAre DEF DebtKind
<1>7. /\ e.secret = w.secret /\ e.elastic = w.elastic /\ e.user = w.user
      /\ e.images = w.images /\ e.built = w.built /\ e.served = w.served
      /\ e.zipkin = w.zipkin /\ e.snapshot = w.snapshot
      /\ e.pod = w.pod \/ e.pod = "absent"
  <2>1. CASE e = w
    BY <2>1
  <2>2. CASE e # w
    BY <1>3, <1>4, <2>2 DEF PutsRest, PutsDebts, DebtKind
  <2> QED
    BY <2>1, <2>2
<1>8. ASSUME script = "snapshot" PROVE SnapshotAhead(e, q, <<>>)
  <2>1. /\ Sorted(<<>>) /\ Exists(w, <<>>) /\ Exists(w, r.owed)
        /\ \A n \in Node :
              r.missed = {} /\ w.vm[n] # "absent" =>
                 (<<"snapshot", n>> \in ToSet(<<>>) \/ CutNow(w, r, n))
    BY <1>2, <1>8 DEF SnapshotAhead
  <2>2. s \in Owed(r) /\ k = "resume" /\ k # "delete"
    BY <1>6, <1>8
  <2>3. a \in Node /\ w.vm[a] # "absent"
    BY <2>1, <2>2 DEF Exists, Owed, a
  <2>4. Exists(e, r.owed)
    <3>1. CASE e = w
      BY <2>1, <3>1
    <3>2. CASE e # w
      BY <1>3, <2>1, <2>2, <3>2, ExistsOn
    <3> QED
      BY <3>1, <3>2
  <2>5. Exists(e, q.owed)
    BY <2>4 DEF Exists, Owed
  <2>6. ASSUME r.missed = {}, NEW n \in Node, e.vm[n] # "absent"
        PROVE  CutNow(e, q, n)
    <3>1. w.vm[n] # "absent"
      <4>1. CASE e = w
        BY <2>6, <4>1
      <4>2. CASE e # w /\ n # a
        <5>1. e.vm[n] = w.vm[n]
          BY <1>3, <2>6, <4>2, Moves
        <5> QED
          BY <2>6, <5>1
      <4>3. CASE n = a
        BY <2>3, <4>3
      <4> QED
        BY <4>1, <4>2, <4>3
    <3>2. CutNow(w, r, n)
      BY <2>1, <2>6, <3>1, Empty
    <3> QED
      BY <1>1, <1>7, <3>2 DEF CutNow
  <2>7. Exists(e, <<>>)
    BY Empty DEF Exists
  <2>8. q.missed = r.missed
    BY DEF Keeps
  <2> QED
    BY <2>1, <2>5, <2>6, <2>7, <2>8, Empty DEF SnapshotAhead
<1>9. ASSUME script = "zipkin" PROVE ZipkinAhead(e, q, <<>>)
  <2>1. Ending(ZipkinUser, <<>>) /\ ZipkinPart(w, r, 0)
    BY <1>2, <1>9, Empty DEF ZipkinAhead
  <2>2. ZipkinPart(e, q, 0)
    BY <1>7, <2>1 DEF ZipkinPart
  <2> QED
    BY <2>1, <2>2, Empty DEF ZipkinAhead
<1>10. ASSUME script = "services" PROVE ServicesAhead(e, q, <<>>)
  <2>1. Ending(ServicesSteps, <<>>) /\ ServicesPart(w, r, 0)
    BY <1>2, <1>10, Empty DEF ServicesAhead
  <2>2. ServicesPart(e, q, 0)
    BY <1>1, <1>7, <2>1 DEF ServicesPart
  <2> QED
    BY <2>1, <2>2, Empty DEF ServicesAhead
<1>11. ASSUME script = "pull" PROVE PullAhead(e, q, <<>>)
  <2>1. Ending(PullKubeconfig, <<>>) /\ PullPart(w, r, 0)
    BY <1>2, <1>11, Empty DEF PullAhead
  <2>2. PullPart(e, q, 0)
    BY DEF PullPart
  <2> QED
    BY <2>1, <2>2, Empty DEF PullAhead
<1>12. \A x \in ToSet(<<>>) : x[1] \in Kinds(script)
  BY Empty
<1> QED
  BY <1>1, <1>6, <1>8, <1>9, <1>10, <1>11, <1>12 DEF Ahead

-----------------------------------------------------------------------------
(* A step and what is left after it.                                       *)

LEMMA CommandNames ==
    /\ Commands("nodes") =
          {"create", "master", "cluster", "masterCluster", "pull", "suspend",
           "resume", "restore", "delete", "snapshot"}
    /\ Commands("platform") =
          {"infra", "services", "secret", "zipkinSecret", "user", "zipkin",
           "image"}
    /\ Commands("local") = {"localCreate", "forward", "localDelete"}
    /\ \A p \in Profiles : Commands(p) \subseteq Name
<1>1. /\ Commands("nodes") =
            {"create", "master", "cluster", "masterCluster", "pull", "suspend",
             "resume", "restore", "delete", "snapshot"}
      /\ Commands("platform") =
            {"infra", "services", "secret", "zipkinSecret", "user", "zipkin",
             "image"}
      /\ Commands("local") = {"localCreate", "forward", "localDelete"}
  BY DEF Commands
<1> QED
  BY <1>1 DEF Profiles, Name

\* A step that a command may take: one of its own, or one that it owes.
Allowed(r, s) ==
    \/ s[1] \in Kinds(r.script)
    \/ s[1] \in DebtKind /\ Cause(s[1]) \in Kinds(r.script)

\* The platform's commands leave the machines alone.
LEMMA PlatformSteps ==
    ASSUME NEW r, r.script \in Commands("platform"), NEW s, Allowed(r, s)
    PROVE  s[1] \notin MachineKind
<1> DEFINE script == r.script
           k == s[1]
<1>1. k \in Kinds(script) \/ (k \in DebtKind /\ Cause(k) \in Kinds(script))
  BY DEF Allowed
<1>2. script \in {"infra", "services", "secret", "zipkinSecret", "user",
                  "zipkin", "image"}
  BY CommandNames
<1>3. k = "resume" => Cause(k) = "pause"
  BY DEF Cause
<1> HIDE DEF script, k
<1>4. ASSUME NEW x \in Kinds(script)
      PROVE  x \notin MachineKind
  <2>1. CASE script = "infra"
    BY <1>4, <2>1, KindsAre DEF MachineKind
  <2>2. CASE script = "services"
    BY <1>4, <2>2, KindsAre DEF MachineKind
  <2>3. CASE script \in {"secret", "zipkinSecret"}
    BY <1>4, <2>3, KindsAre DEF MachineKind
  <2>4. CASE script = "user"
    BY <1>4, <2>4, KindsAre DEF MachineKind
  <2>5. CASE script = "zipkin"
    BY <1>4, <2>5, KindsAre DEF MachineKind
  <2>6. CASE script = "image"
    BY <1>4, <2>6, KindsAre DEF MachineKind
  <2> QED
    BY <1>2, <2>1, <2>2, <2>3, <2>4, <2>5, <2>6
<1>5. "pause" \in MachineKind
  BY DEF MachineKind
<1>6. k # "resume"  /\ k \in DebtKind => k \notin MachineKind
  BY DEF MachineKind, DebtKind
<1> QED
  BY <1>1, <1>3, <1>4, <1>5, <1>6 DEF k

\* Only a snapshot command takes or drops snapshots.
LEMMA SnapshotKinds ==
    ASSUME NEW p \in Profiles, NEW r, r.script \in Commands(p), NEW s,
           Allowed(r, s), s[1] \in {"drop", "snapshot"}
    PROVE  r.script = "snapshot"
<1> DEFINE script == r.script
           k == s[1]
<1>1. k \in Kinds(script) \/ (k \in DebtKind /\ Cause(k) \in Kinds(script))
  BY DEF Allowed
<1>2. k \in {"drop", "snapshot"} /\ script \in Name
  BY CommandNames
<1> HIDE DEF script, k
<1>3. k \in Kinds(script)
  BY <1>1, <1>2 DEF DebtKind
<1>4. ASSUME script \in Name \ {"snapshot"}
      PROVE  "drop" \notin Kinds(script) /\ "snapshot" \notin Kinds(script)
  <2>1. CASE script \in {"create", "master", "pull", "suspend", "resume"}
    BY <2>1, KindsAre
  <2>2. CASE script \in {"cluster", "masterCluster", "restore", "delete"}
    BY <2>2, KindsAre
  <2>3. CASE script \in {"infra", "services"}
    BY <2>3, KindsAre
  <2>4. CASE script \in {"secret", "zipkinSecret", "user", "zipkin"}
    BY <2>4, KindsAre
  <2>5. CASE script \in {"image", "localCreate", "forward", "localDelete"}
    BY <2>5, KindsAre
  <2> QED
    BY <1>4, <2>1, <2>2, <2>3, <2>4, <2>5 DEF Name
<1> QED
  BY <1>2, <1>3, <1>4 DEF script

LEMMA MachinesStep ==
    ASSUME NEW w \in Worlds, NEW r \in Runs, Busy(r),
           r.script \in Commands(r.profile), Machines(w, r),
           NEW s \in Calls, Allowed(r, s),
           s[1] = "snapshot" => (s[2] \in Node /\ w.vm[s[2]] # "absent"),
           NEW e, e = Effect(w, r, s), NEW q, Keeps(q, r)
    PROVE  Machines(e, q)
<1> DEFINE k == s[1]
           a == s[2]
<1>1. /\ q.profile = r.profile /\ q.script = r.script /\ q.state = r.state
      /\ q.complete = r.complete /\ r.profile \in Profiles
  BY RunFields DEF Keeps
<1>2. /\ r.profile = "platform" => \A n \in Node : w.vm[n] = "running"
      /\ \A n \in Node : w.vm[n] = "absent" => w.snapshot[n].cut = None
      /\ r.complete => (Uniform(w) \/ (Busy(r) /\ r.script = "snapshot"))
  BY DEF Machines
<1>3. PutsMachines(w, e, k, a) /\ PutsRest(w, e, k) /\ Special(w, r, s, e)
  BY Effects, Specials DEF Puts
<1>4. /\ k \notin {"drop", "snapshot", "delete"} => e.snapshot = w.snapshot
      /\ k \in {"drop", "delete"} =>
            e.snapshot = [w.snapshot EXCEPT ![a] = NoSnapshot]
      /\ k = "snapshot" =>
            e.snapshot = [w.snapshot EXCEPT ![a] = Snapshot(w, r, s[2])]
  BY <1>3 DEF Special, PutsRest
<1>5. w.snapshot \in [Node -> Cuts] /\ NoSnapshot.cut = None
  BY WorldFields DEF NoSnapshot
<1>6. k \in {"drop", "snapshot"} => r.script = "snapshot"
  BY <1>1, SnapshotKinds
<1>7. r.profile = "platform" => k \notin MachineKind
  BY PlatformSteps
<1>8. k = "snapshot" => a \in Node /\ w.vm[a] # "absent"
  OBVIOUS
<1> HIDE DEF k, a
<1>9. ASSUME NEW n \in Node
      PROVE  /\ (n # a \/ k \notin MachineKind) => e.vm[n] = w.vm[n]
             /\ (n = a /\ k \in {"launch", "start", "resume"}) =>
                   e.vm[n] = "running"
             /\ (n = a /\ k \in {"pause", "pauseNode"}) => e.vm[n] = "frozen"
             /\ (n = a /\ k = "delete") => e.vm[n] = "absent"
  BY <1>3, <1>9, Moves
<1>10. ASSUME NEW n \in Node, e.vm[n] = "absent" PROVE e.snapshot[n].cut = None
  <2>1. CASE k = "delete" /\ n = a
    BY <1>4, <1>5, <2>1
  <2>2. CASE ~(k = "delete" /\ n = a)
    <3>1. w.vm[n] = "absent"
      BY <1>9, <1>10, <2>2 DEF MachineKind
    <3>2. w.snapshot[n].cut = None /\ ~(k = "snapshot" /\ n = a)
      BY <1>2, <1>8, <3>1
    <3>3. e.snapshot[n] = w.snapshot[n] \/ e.snapshot[n] = NoSnapshot
      BY <1>4, <1>5, <3>2
    <3> QED
      BY <1>5, <3>2, <3>3
  <2> QED
    BY <2>1, <2>2
<1>11. ASSUME r.profile = "platform", NEW n \in Node PROVE e.vm[n] = "running"
  BY <1>2, <1>7, <1>9, <1>11
<1>12. ASSUME r.complete, r.script # "snapshot" PROVE Uniform(e)
  <2>1. Uniform(w)
    BY <1>2, <1>12
  <2>2. ASSUME NEW n \in Node
        PROVE  e.snapshot[n] = w.snapshot[n] \/ e.snapshot[n] = NoSnapshot
    BY <1>4, <1>5, <1>6, <1>12
  <2> QED
    BY <1>5, <2>1, <2>2 DEF Uniform
<1> QED
  BY <1>1, <1>10, <1>11, <1>12 DEF Machines, Busy

\* What the rest of a handler needs to know of the world and the command.
Debts(r) ==
    \A o \in Owed(r) : o[1] \in DebtKind /\ Cause(o[1]) \in Kinds(r.script)
Sound(w, r) ==
    /\ w \in Worlds /\ r \in Runs /\ Busy(r)
    /\ r.script \in Commands(r.profile) /\ Debts(r)
    /\ Machines(w, r) /\ Covered(w, r)

LEMMA GoodSound ==
    ASSUME NEW w, NEW r, Good(w, r), Busy(r) PROVE Sound(w, r)
BY DEF Good, Formed, Sound, Debts

\* The step that a command takes next.
LEMMA Next1 ==
    ASSUME NEW w, NEW r, Good(w, r), Busy(r), NEW s, s = Head(r.todo)
    PROVE  /\ r.todo \in Seq(Calls) /\ r.todo # <<>> /\ s \in Calls
           /\ Allowed(r, s)
           /\ r.state = "body" =>
                 Ahead(w, r, r.todo) /\ s[1] \in Kinds(r.script)
           /\ r.state = "cleanup" =>
                 /\ r.owed # <<>> /\ s = Last(r.owed) /\ s \in Owed(r)
                 /\ s[1] \in DebtKind /\ Cause(s[1]) \in Kinds(r.script)
                 /\ Tail(r.todo) = Reverse(Front(r.owed))
                 /\ r.outcome = "passed" => Ahead(w, r, <<>>)
<1>1. /\ r.todo \in Seq(Calls) /\ r.owed \in Seq(Calls)
  BY RunFields DEF Good
<1>2. /\ r.todo # <<>>
      /\ r.state = "cleanup" => r.todo = Reverse(r.owed)
      /\ \A o \in Owed(r) :
            o[1] \in DebtKind /\ Cause(o[1]) \in Kinds(r.script)
  BY DEF Good, Formed, Busy
<1>3. s \in Calls /\ s \in ToSet(r.todo)
  BY <1>1, <1>2, First
<1>4. CASE r.state = "body"
  <2>1. Ahead(w, r, r.todo)
    BY <1>4 DEF Good
  <2>2. s[1] \in Kinds(r.script)
    BY <1>3, <2>1 DEF Ahead
  <2> QED
    BY <1>1, <1>2, <1>3, <1>4, <2>1, <2>2 DEF Allowed
<1>5. CASE r.state = "cleanup"
  <2>1. r.todo = Reverse(r.owed)
    BY <1>2, <1>5
  <2>2. /\ r.owed # <<>> /\ s = Last(r.owed)
        /\ Tail(r.todo) = Reverse(Front(r.owed))
    BY <1>1, <1>2, <2>1, Reversed
  <2>3. s \in Owed(r)
    BY <1>1, <2>2, Settling DEF Owed
  <2>4. r.outcome = "passed" => Ahead(w, r, <<>>)
    BY <1>5 DEF Good
  <2> QED
    BY <1>1, <1>2, <1>3, <1>5, <2>2, <2>3, <2>4 DEF Allowed
<1> QED
  BY <1>4, <1>5 DEF Busy

\* A Pod is set up only where its removal is owed.
LEMMA SetupOwed ==
    ASSUME NEW w, NEW r \in Runs, NEW t \in Seq(Calls), t # <<>>,
           ZipkinAhead(w, r, t), Head(t)[1] = "setupPod"
    PROVE  <<"removePod", "one">> \in Owed(r)
<1> DEFINE m == Len(t)
           s == Head(t)
<1>1. /\ m \in Nat \ {0} /\ s = ZipkinUser[(7 - m) + 1] /\ m <= 7
  BY First, ZipkinSteps, Ended DEF ZipkinAhead, Ending
<1>2. ZipkinPart(w, r, m) /\ s[1] = "setupPod"
  BY DEF ZipkinAhead
<1> HIDE DEF m, s
<1>3. m \in {1, 2, 3, 4, 5, 6, 7}
  BY <1>1
<1>4. m \in {1, 6, 7} => FALSE
  <2>1. (7 - 1) + 1 = 7 /\ (7 - 6) + 1 = 2 /\ (7 - 7) + 1 = 1
    OBVIOUS
  <2>2. m = 1 => s[1] = "removeRequest"
    BY <1>1, <2>1, ZipkinSteps
  <2>3. m = 6 => s[1] = "request"
    BY <1>1, <2>1, ZipkinSteps
  <2>4. m = 7 => s[1] = "readZipkin"
    BY <1>1, <2>1, ZipkinSteps
  <2> QED
    BY <1>2, <2>2, <2>3, <2>4
<1>5. m \in 2 .. 5
  BY <1>3, <1>4
<1> QED
  BY <1>2, <1>5 DEF ZipkinPart

LEMMA SetupKinds ==
    ASSUME NEW p \in Profiles, NEW script \in Commands(p),
           "setupPod" \in Kinds(script)
    PROVE  script = "zipkin"
<1>1. script \in Name
  BY CommandNames
<1>2. CASE script \in {"create", "master", "pull", "suspend", "resume"}
  BY <1>2, KindsAre
<1>3. CASE script \in {"cluster", "masterCluster", "restore", "delete"}
  BY <1>3, KindsAre
<1>4. CASE script \in {"infra", "services", "snapshot"}
  BY <1>4, KindsAre
<1>5. CASE script \in {"secret", "zipkinSecret", "user"}
  BY <1>5, KindsAre
<1>6. CASE script \in {"image", "localCreate", "forward", "localDelete"}
  BY <1>6, KindsAre
<1> QED
  BY <1>1, <1>2, <1>3, <1>4, <1>5, <1>6 DEF Name

LEMMA StepDone ==
    ASSUME NEW w, NEW r, Good(w, r), Busy(r), NEW s, s = Head(r.todo),
           NEW e, e = Effect(w, r, s), NEW q, Follows(q, r, s),
           Owed(q) \subseteq Owed(r) \cup ToSet(Owes(s))
    PROVE  Sound(e, q)
<1>1. /\ r.todo \in Seq(Calls) /\ r.todo # <<>> /\ s \in Calls
      /\ Allowed(r, s)
      /\ r.state = "body" => Ahead(w, r, r.todo) /\ s[1] \in Kinds(r.script)
      /\ r.state = "cleanup" =>
            s[1] \in DebtKind /\ Cause(s[1]) \in Kinds(r.script)
  BY Next1
<1>2. /\ w \in Worlds /\ r \in Runs /\ r.script \in Commands(r.profile)
      /\ Debts(r) /\ Machines(w, r) /\ Covered(w, r)
  BY GoodSound DEF Sound
<1>3. /\ Keeps(q, r) /\ q \in Runs /\ q.script = r.script
      /\ q.profile = r.profile /\ q.state = r.state
  BY DEF Follows, Keeps
<1>4. e \in Worlds /\ Puts(w, e, s[1], s[2])
  BY <1>1, <1>2, Effects
<1>5. s \in ToSet(r.todo) /\ r.profile \in Profiles
  BY <1>1, <1>2, First, RunFields
<1>6. r.state \in {"body", "cleanup"}
  BY DEF Busy
<1>7. s[1] = "snapshot" => s[2] \in Node /\ w.vm[s[2]] # "absent"
  <2> SUFFICES ASSUME s[1] = "snapshot"
               PROVE  s[2] \in Node /\ w.vm[s[2]] # "absent"
    OBVIOUS
  <2>1. r.script = "snapshot"
    BY <1>1, <1>2, <1>5, SnapshotKinds
  <2>2. r.state = "body"
    BY <1>1, <1>6 DEF DebtKind
  <2>3. Exists(w, r.todo)
    BY <1>1, <2>1, <2>2 DEF Ahead, SnapshotAhead
  <2> QED
    BY <1>5, <2>3 DEF Exists
<1>8. s[1] = "setupPod" => <<"removePod", "one">> \in Owed(r)
  <2> SUFFICES ASSUME s[1] = "setupPod"
               PROVE  <<"removePod", "one">> \in Owed(r)
    OBVIOUS
  <2>1. r.state = "body" /\ "setupPod" \in Kinds(r.script)
    BY <1>1, <1>6 DEF DebtKind
  <2>2. r.script = "zipkin"
    BY <1>2, <1>5, <2>1, SetupKinds
  <2>3. ZipkinAhead(w, r, r.todo)
    BY <1>1, <2>1, <2>2 DEF Ahead
  <2> QED
    BY <1>1, <1>2, <2>3, SetupOwed
<1>9. r.script = "snapshot" => s[1] \in {"pause", "drop", "snapshot", "resume"}
  <2> SUFFICES ASSUME r.script = "snapshot"
               PROVE  s[1] \in {"pause", "drop", "snapshot", "resume"}
    OBVIOUS
  <2>1. Kinds(r.script) = {"pause", "drop", "snapshot"}
    BY KindsAre
  <2> DEFINE k == s[1]
  <2>2. \/ k \in Kinds(r.script)
        \/ k \in DebtKind /\ Cause(k) \in Kinds(r.script)
    BY <1>1 DEF Allowed
  <2> HIDE DEF k
  <2>3. CASE k \in Kinds(r.script)
    BY <2>1, <2>3 DEF k
  <2>4. CASE k \in DebtKind /\ Cause(k) \in Kinds(r.script)
    <3>1. /\ k = "removeToken" => Cause(k) = "pushToken"
          /\ k = "removeFiles" => Cause(k) = "configure"
          /\ k \in {"removeRequest", "removePod"} => Cause(k) = "request"
          /\ k = "removeArchive" => Cause(k) = "pushArchive"
          /\ k = "endForward" => Cause(k) = "forward"
      BY DEF Cause
    <3> QED
      BY <2>1, <2>4, <3>1 DEF DebtKind, k
  <2> QED
    BY <2>2, <2>3, <2>4
<1>10. Covered(e, q)
  BY <1>1, <1>2, <1>4, <1>8, <1>9, CoveredDone
<1>11. Machines(e, q)
  BY <1>1, <1>2, <1>3, <1>7, MachinesStep
<1>12. Debts(q)
  <2> SUFFICES ASSUME NEW o \in Owed(q)
               PROVE  o[1] \in DebtKind /\ Cause(o[1]) \in Kinds(r.script)
    BY <1>3 DEF Debts
  <2>1. CASE o \in Owed(r)
    BY <1>2, <2>1 DEF Debts
  <2>2. CASE o \in ToSet(Owes(s))
    <3>1. o[1] \in DebtKind /\ Cause(o[1]) = s[1] /\ Owes(s) # <<>>
      BY <1>1, <2>2, OwesAre, Empty
    <3>2. s[1] \notin DebtKind
      BY <3>1, OwesNothing
    <3>3. s[1] \in Kinds(r.script)
      BY <1>1, <3>2 DEF Allowed
    <3> QED
      BY <3>1, <3>3
  <2> QED
    BY <2>1, <2>2
<1> QED
  BY <1>2, <1>3, <1>4, <1>10, <1>11, <1>12 DEF Sound, Busy

\* A step that was not done, but owed for.
LEMMA StepCharged ==
    ASSUME NEW w, NEW r, Good(w, r), Busy(r), NEW s, s = Head(r.todo),
           NEW q, q = Charged(r, s)
    PROVE  Sound(w, q)
<1>1. s \in Calls /\ Allowed(r, s)
  BY Next1
<1>2. Sound(w, r)
  BY GoodSound
<1>3. /\ Keeps(q, r) /\ Owed(q) = Owed(r) \cup ToSet(Owes(s))
  BY <1>1, <1>2, OwingRun DEF Sound
<1>4. Covered(w, q)
  BY <1>1, <1>2, CoveredCharged DEF Sound
<1>5. Machines(w, q)
  BY <1>2, <1>3 DEF Sound, Machines, Busy, Keeps
<1>6. Debts(q)
  <2> SUFFICES ASSUME NEW o \in Owed(q)
               PROVE  o[1] \in DebtKind /\ Cause(o[1]) \in Kinds(r.script)
    BY <1>3 DEF Debts, Keeps
  <2>1. CASE o \in Owed(r)
    BY <1>2, <2>1 DEF Sound, Debts
  <2>2. CASE o \in ToSet(Owes(s))
    <3>1. o[1] \in DebtKind /\ Cause(o[1]) = s[1] /\ Owes(s) # <<>>
      BY <1>1, <2>2, OwesAre, Empty
    <3>2. s[1] \notin DebtKind
      BY <3>1, OwesNothing
    <3>3. s[1] \in Kinds(r.script)
      BY <1>1, <3>2 DEF Allowed
    <3> QED
      BY <3>1, <3>3
  <2> QED
    BY <1>3, <2>1, <2>2
<1> QED
  BY <1>2, <1>3, <1>4, <1>5, <1>6 DEF Sound, Keeps, Busy

-----------------------------------------------------------------------------
(* How a command goes on and how it ends.                                  *)

\* A command at r that ends as p does, with the world w.
Settles(w, r, p) ==
    p.state = "idle" =>
       /\ r.script # "snapshot" => p.complete = r.complete
       /\ Told(r, p.verdict) => ~p.errors
       /\ p.verdict \in Clean /\ ~p.errors =>
             \E q \in Runs : /\ Keeps(q, r) /\ q.owed = <<>> /\ ~q.errors
                             /\ Covered(w, q)
                             /\ p.verdict = "passed" => Ahead(w, q, <<>>)

LEMMA IdleRun ==
    ASSUME NEW r \in Runs, NEW p, p = Idle(r)
    PROVE  /\ p \in Runs /\ p.profile = r.profile /\ p.script = r.script
           /\ p.state = "idle" /\ p.verdict = "none" /\ p.outcome = "none"
           /\ p.todo = <<>> /\ p.owed = <<>> /\ p.errors = FALSE
           /\ p.masked = FALSE /\ p.asked = FALSE /\ p.value = None
           /\ p.read = None /\ p.ran = {} /\ p.missed = {}
           /\ p.config = NoConfig
           /\ p.operations = r.operations /\ p.troubles = r.troubles
           /\ p.complete = r.complete
<1> DEFINE v == "none"
           t == <<>>
           n == None
           f == FALSE
           c == NoConfig
           i == "idle"
           m == {}
<1>1. p = [r EXCEPT !.state = i, !.verdict = v, !.outcome = v, !.todo = t,
                    !.owed = t, !.errors = f, !.masked = f, !.asked = f,
                    !.value = n, !.read = n, !.ran = m, !.missed = m,
                    !.config = c]
  BY DEF Idle
<1>2. /\ v \in Verdict /\ n \in Nat /\ f \in BOOLEAN /\ c \in Config
      /\ i \in {"idle", "body", "cleanup"} /\ m \in SUBSET Node
  BY DEF Verdict, None, Config, NoConfig
<1>3. t \in Seq(Calls)
  BY EmptySeq
<1> DEFINE a == [r EXCEPT !.state = i, !.verdict = v, !.outcome = v,
                 !.todo = t]
           b == [a EXCEPT !.owed = t, !.errors = f, !.masked = f, !.asked = f]
<1>4. p = [b EXCEPT !.value = n, !.read = n, !.ran = m, !.missed = m,
                    !.config = c]
  BY <1>1, Zenon
<1> HIDE DEF v, t, n, f, c, i, m
<1>5. /\ a \in Runs /\ a.profile = r.profile /\ a.script = r.script
      /\ a.state = i /\ a.verdict = v /\ a.outcome = v /\ a.todo = t
      /\ a.operations = r.operations /\ a.troubles = r.troubles
      /\ a.complete = r.complete
  BY <1>2, <1>3 DEF Runs
<1> HIDE DEF a
<1>6. /\ b \in Runs /\ b.profile = a.profile /\ b.script = a.script
      /\ b.state = a.state /\ b.verdict = a.verdict
      /\ b.outcome = a.outcome /\ b.todo = a.todo
      /\ b.owed = t /\ b.errors = f /\ b.masked = f /\ b.asked = f
      /\ b.operations = a.operations /\ b.troubles = a.troubles
      /\ b.complete = a.complete
  BY <1>2, <1>3, <1>5 DEF Runs
<1> HIDE DEF b
<1>7. /\ p \in Runs /\ p.profile = b.profile /\ p.script = b.script
      /\ p.state = b.state /\ p.verdict = b.verdict
      /\ p.outcome = b.outcome /\ p.todo = b.todo /\ p.owed = b.owed
      /\ p.errors = b.errors /\ p.masked = b.masked /\ p.asked = b.asked
      /\ p.value = n /\ p.read = n /\ p.ran = m /\ p.missed = m
      /\ p.config = c
      /\ p.operations = b.operations /\ p.troubles = b.troubles
      /\ p.complete = b.complete
  <2>1. b \in Runs
    BY <1>6
  <2>2. n \in Nat /\ m \in SUBSET Node /\ c \in Config
    BY <1>2
  <2>3. p \in Runs
    BY <1>4, <2>1, <2>2 DEF Runs
  <2> QED
    BY <1>4, <2>1, <2>3 DEF Runs
<1> QED
  BY <1>5, <1>6, <1>7 DEF v, t, n, f, c, i, m

LEMMA EndsRun ==
    ASSUME NEW r \in Runs, NEW v \in Verdict, NEW p, p = Ends(r, v)
    PROVE  /\ p \in Runs /\ p.profile = r.profile /\ p.script = r.script
           /\ p.state = "idle" /\ p.verdict = v /\ p.todo = <<>>
           /\ p.owed = <<>> /\ p.troubles = r.troubles
           /\ p.errors = r.errors
           /\ p.complete = IF r.script = "snapshot"
                           THEN v = "passed" /\ r.missed = {}
                           ELSE r.complete
<1> DEFINE q == Idle(r)
           e == r.errors
           c == IF r.script = "snapshot" THEN v = "passed" /\ r.missed = {}
                ELSE r.complete
<1>1. p = [q EXCEPT !.verdict = v, !.errors = e, !.complete = c]
  <2>1. q.complete = r.complete
    BY IdleRun
  <2>2. p = [q EXCEPT !.verdict = v, !.errors = e,
                      !.complete = IF r.script = "snapshot"
                                   THEN v = "passed" /\ r.missed = {}
                                   ELSE q.complete]
    BY DEF Ends
  <2> QED
    BY <2>1, <2>2, Zenon
<1>2. c \in BOOLEAN /\ e \in BOOLEAN
  BY RunFields
<1>3. /\ q \in Runs /\ q.profile = r.profile /\ q.script = r.script
      /\ q.state = "idle" /\ q.todo = <<>> /\ q.owed = <<>>
      /\ q.troubles = r.troubles
  BY IdleRun
<1> HIDE DEF q, c, e
<1>4. /\ p \in Runs /\ p.profile = q.profile /\ p.script = q.script
      /\ p.state = q.state /\ p.verdict = v /\ p.todo = q.todo
      /\ p.owed = q.owed /\ p.troubles = q.troubles /\ p.complete = c
      /\ p.errors = e
  BY <1>1, <1>2, <1>3 DEF Runs
<1> QED
  BY <1>3, <1>4 DEF c, e

\* Snapshots of one command, all of them quiet.
LEMMA OneCut ==
    ASSUME NEW w, NEW r, NEW p, Machines(w, p), SnapshotAhead(w, r, <<>>),
           r.missed = {}
    PROVE  Uniform(w)
<1>1. \A n \in Node : w.vm[n] # "absent" => CutNow(w, r, n)
  BY Empty DEF SnapshotAhead
<1>2. \A n \in Node : w.vm[n] = "absent" => w.snapshot[n].cut = None
  BY DEF Machines
<1> QED
  BY <1>1, <1>2 DEF Uniform, CutNow

LEMMA EndsGood ==
    ASSUME NEW w, NEW r, Sound(w, r), NEW v \in Verdict, NEW p,
           p = Ends(r, v), v = "passed" => Ahead(w, r, <<>>)
    PROVE  /\ Good(w, p)
           /\ p.state = "idle" /\ p.verdict = v /\ p.errors = r.errors
           /\ r.script # "snapshot" => p.complete = r.complete
<1>1. w \in Worlds /\ r \in Runs /\ Machines(w, r)
  BY DEF Sound
<1>2. /\ p \in Runs /\ p.profile = r.profile
      /\ p.state = "idle" /\ p.verdict = v /\ p.todo = <<>>
      /\ p.owed = <<>> /\ p.errors = r.errors
      /\ p.complete = IF r.script = "snapshot"
                      THEN v = "passed" /\ r.missed = {}
                      ELSE r.complete
  BY <1>1, EndsRun
<1>3. Formed(p)
  BY <1>2, Empty DEF Formed, Busy, Owed
<1>4. p.complete => Uniform(w)
  <2>1. CASE r.script = "snapshot" /\ v = "passed" /\ r.missed = {}
    <3>1. SnapshotAhead(w, r, <<>>)
      BY <2>1 DEF Ahead
    <3> QED
      BY <1>1, <2>1, <3>1, OneCut
  <2>2. CASE r.script # "snapshot"
    BY <1>1, <1>2, <2>2 DEF Machines
  <2> QED
    BY <1>2, <2>1, <2>2
<1>5. Machines(w, p)
  BY <1>1, <1>2, <1>4 DEF Machines
<1> QED
  BY <1>1, <1>2, <1>3, <1>5 DEF Good, Busy

LEMMA FinallyGood ==
    ASSUME NEW w, NEW r, Sound(w, r), NEW v \in Verdict, NEW p,
           p = Finally(r, v), v = "passed" => Ahead(w, r, <<>>)
    PROVE  Good(w, p) /\ Settles(w, r, p)
<1>1. /\ w \in Worlds /\ r \in Runs /\ Machines(w, r) /\ Covered(w, r)
      /\ r.script \in Commands(r.profile) /\ Debts(r)
      /\ r.owed \in Seq(Calls) /\ r.errors \in BOOLEAN /\ Busy(r)
  BY RunFields DEF Sound
<1>2. CASE r.owed # <<>>
  <2> DEFINE t == Reverse(r.owed)
             c == "cleanup"
  <2>1. p = [r EXCEPT !.state = c, !.outcome = v, !.todo = t]
    BY <1>2 DEF Finally
  <2>2. t \in Seq(Calls) /\ t # <<>> /\ c \in {"idle", "body", "cleanup"}
    BY <1>1, <1>2, Reversed
  <2> HIDE DEF t, c
  <2>3. /\ p \in Runs /\ p.state = c /\ p.outcome = v /\ p.todo = t
        /\ p.profile = r.profile /\ p.script = r.script
        /\ p.owed = r.owed /\ p.errors = r.errors /\ p.asked = r.asked
        /\ p.value = r.value /\ p.ran = r.ran /\ p.missed = r.missed
        /\ p.operations = r.operations /\ p.complete = r.complete
    <3>1. r \in Runs
      BY <1>1
    <3>2. t \in Seq(Calls) /\ c \in {"idle", "body", "cleanup"}
      BY <2>2
    <3>3. p \in Runs
      BY <2>1, <3>1, <3>2 DEF Runs
    <3> QED
      BY <2>1, <3>1, <3>3 DEF Runs
  <2>4. p.state = "cleanup" /\ p.todo = Reverse(p.owed) /\ p.todo # <<>>
    BY <2>2, <2>3 DEF t, c
  <2>5. Formed(p)
    BY <1>1, <2>3, <2>4 DEF Formed, Debts, Owed
  <2>6. Machines(w, p)
    BY <1>1, <2>3, <2>4 DEF Machines, Busy
  <2>7. Covered(w, p)
    BY <1>1, <2>3 DEF Covered, Owed
  <2>8. p.outcome = "passed" => Ahead(w, p, <<>>)
    <3> SUFFICES ASSUME v = "passed" PROVE Ahead(w, p, <<>>)
      BY <2>3
    <3>1. Ahead(w, r, <<>>)
      OBVIOUS
    <3> QED
      BY <2>3, <3>1, Empty
         DEF Ahead, SnapshotAhead, CutNow, RestoreAhead, ZipkinAhead,
             ZipkinPart, ServicesAhead, ServicesPart, PullAhead, PullPart,
             Exists, Owed
  <2> QED
    BY <1>1, <2>3, <2>4, <2>5, <2>6, <2>7, <2>8 DEF Good, Settles, Busy
<1>3. CASE r.owed = <<>> /\ r.errors /\ Told(r, v)
  <2>1. p = Ends(r, "leftOver")
    BY <1>3 DEF Finally
  <2>2. /\ "leftOver" \in Verdict /\ "leftOver" \notin Clean
        /\ "leftOver" # "passed" /\ ~Told(r, "leftOver")
    BY DEF Verdict, Clean, Told
  <2> QED
    BY <2>1, <2>2, EndsGood DEF Settles
<1>4. CASE r.owed = <<>> /\ ~(r.errors /\ Told(r, v))
  <2>1. p = Ends(r, v)
    BY <1>4 DEF Finally
  <2>2. /\ Good(w, p) /\ p.state = "idle" /\ p.verdict = v
        /\ p.errors = r.errors
        /\ r.script # "snapshot" => p.complete = r.complete
    BY <2>1, EndsGood
  <2>3. Keeps(r, r)
    BY <1>1 DEF Keeps
  <2> QED
    BY <1>1, <1>4, <2>2, <2>3 DEF Settles
<1> QED
  BY <1>1, <1>2, <1>3, <1>4

LEMMA Several == \A i \in Nat : i > 1 => i # 1
OBVIOUS

LEMMA AdvancedGood ==
    ASSUME NEW w, NEW r, Sound(w, r), r.todo # <<>>,
           r.state = "body" => Ahead(w, r, Tail(r.todo)),
           r.state = "cleanup" =>
              /\ Tail(r.todo) = Reverse(r.owed)
              /\ r.outcome = "passed" => Ahead(w, r, <<>>),
           NEW p, p = Advanced(r)
    PROVE  Good(w, p) /\ Settles(w, r, p)
<1>1. /\ w \in Worlds /\ r \in Runs /\ Machines(w, r) /\ Covered(w, r)
      /\ r.script \in Commands(r.profile) /\ Debts(r) /\ Busy(r)
      /\ r.todo \in Seq(Calls) /\ r.outcome \in Verdict
  BY RunFields DEF Sound
<1>2. /\ Tail(r.todo) \in Seq(Calls) /\ Len(r.todo) \in Nat \ {0}
      /\ Len(r.todo) = 1 <=> Tail(r.todo) = <<>>
  BY <1>1, First
<1>3. CASE Len(r.todo) > 1
  <2> DEFINE t == Tail(r.todo)
  <2>1. p = [r EXCEPT !.todo = t]
    BY <1>3, Zenon DEF Advanced
  <2>2. t \in Seq(Calls) /\ t # <<>>
    <3>1. Len(r.todo) # 1
      BY <1>2, <1>3, Several
    <3> QED
      BY <1>2, <3>1, Zenon
  <2>3. /\ r.state = "body" => Ahead(w, r, t)
        /\ r.state = "cleanup" =>
              /\ t = Reverse(r.owed)
              /\ r.outcome = "passed" => Ahead(w, r, <<>>)
    OBVIOUS
  <2> HIDE DEF t
  <2>4. /\ p \in Runs /\ p.todo = t /\ p.profile = r.profile
        /\ p.script = r.script /\ p.state = r.state /\ p.outcome = r.outcome
        /\ p.owed = r.owed /\ p.errors = r.errors /\ p.asked = r.asked
        /\ p.value = r.value /\ p.read = r.read /\ p.ran = r.ran
        /\ p.missed = r.missed
        /\ p.config = r.config /\ p.operations = r.operations
        /\ p.complete = r.complete
    BY <1>1, <2>1, <2>2, PutTodo
  <2>5. Formed(p)
    BY <1>1, <2>2, <2>3, <2>4 DEF Formed, Busy, Debts, Owed
  <2>6. Machines(w, p)
    BY <1>1, <2>4 DEF Machines, Busy
  <2>7. Covered(w, p)
    BY <1>1, <2>4 DEF Covered, Owed
  <2>8. ASSUME NEW x, Ahead(w, r, x) PROVE Ahead(w, p, x)
    BY <2>4, <2>8
       DEF Ahead, SnapshotAhead, CutNow, RestoreAhead, ZipkinAhead,
           ZipkinPart, ServicesAhead, ServicesPart, PullAhead, PullPart,
           Exists, Owed
  <2> QED
    BY <1>1, <2>3, <2>4, <2>5, <2>6, <2>7, <2>8 DEF Good, Settles, Busy
<1>4. CASE ~(Len(r.todo) > 1)
  <2>1. Tail(r.todo) = <<>>
    BY <1>2, <1>4
  <2>2. CASE r.state = "body"
    <3>1. p = Finally(r, "passed") /\ "passed" \in Verdict
      BY <1>4, <2>2 DEF Advanced, Verdict, Clean
    <3> QED
      BY <2>1, <2>2, <3>1, FinallyGood
  <2>3. CASE r.state = "cleanup"
    <3>1. p = Finally(r, r.outcome)
      BY <1>4, <2>3 DEF Advanced
    <3> QED
      BY <1>1, <2>3, <3>1, FinallyGood
  <2> QED
    BY <1>1, <2>2, <2>3 DEF Busy
<1> QED
  BY <1>3, <1>4

\* A command whose next step raises an error; cf. Next1.
Poised(w, r, s) ==
    /\ r.todo # <<>>
    /\ r.state = "cleanup" =>
          /\ r.owed # <<>> /\ s = Last(r.owed) /\ s \in Owed(r)
          /\ s[1] \in DebtKind /\ Cause(s[1]) \in Kinds(r.script)
          /\ Tail(r.todo) = Reverse(Front(r.owed))
          /\ r.outcome = "passed" => Ahead(w, r, <<>>)

LEMMA ErrorSound ==
    ASSUME NEW w, NEW r, Sound(w, r), NEW s \in Calls, NEW q,
           q = Settled([r EXCEPT !.errors = TRUE], s)
    PROVE  /\ Sound(w, q) /\ Keeps(q, r) /\ Owed(q) \subseteq Owed(r)
           /\ (r.owed # <<>> /\ Last(r.owed) = s) => q.owed = Front(r.owed)
<1> DEFINE b == TRUE
           p == [r EXCEPT !.errors = b]
<1>1. /\ w \in Worlds /\ r \in Runs /\ Machines(w, r)
      /\ r.script \in Commands(r.profile) /\ Debts(r) /\ Busy(r)
  BY DEF Sound
<1>2. /\ p \in Runs /\ p.errors = TRUE /\ p.profile = r.profile
      /\ p.script = r.script /\ p.state = r.state
      /\ p.outcome = r.outcome /\ p.todo = r.todo /\ p.owed = r.owed
      /\ p.asked = r.asked
      /\ p.value = r.value /\ p.ran = r.ran /\ p.missed = r.missed
      /\ p.operations = r.operations /\ p.complete = r.complete
  <2>1. b \in BOOLEAN
    OBVIOUS
  <2> DEFINE u == p
  <2>2. u = [r EXCEPT !.errors = b]
    OBVIOUS
  <2> HIDE DEF u, b
  <2>3. /\ u \in Runs /\ u.errors = b /\ u.profile = r.profile
        /\ u.script = r.script /\ u.state = r.state
        /\ u.outcome = r.outcome /\ u.todo = r.todo /\ u.owed = r.owed
        /\ u.asked = r.asked
        /\ u.value = r.value /\ u.ran = r.ran /\ u.missed = r.missed
        /\ u.operations = r.operations /\ u.complete = r.complete
    BY <1>1, <2>1, <2>2 DEF Runs
  <2> QED
    BY <2>3 DEF u, b
<1>3. q = Settled(p, s)
  OBVIOUS
<1> HIDE DEF p
<1>4. Keeps(p, r)
  BY <1>2 DEF Keeps
<1>5. /\ Keeps(q, p) /\ q.errors = p.errors
      /\ Owed(q) \subseteq Owed(p)
      /\ (p.owed # <<>> /\ Last(p.owed) = s) => q.owed = Front(p.owed)
  BY <1>2, <1>3, SettledRun
<1>6. Keeps(q, r)
  BY <1>4, <1>5, KeepsOn
<1>7. Covered(w, q)
  BY <1>2, <1>5 DEF Covered
<1>8. Owed(q) \subseteq Owed(r)
  BY <1>2, <1>5 DEF Owed
<1>9. Machines(w, q) /\ Debts(q) /\ Busy(q) /\ q.script \in Commands(q.profile)
      /\ q \in Runs
  BY <1>1, <1>6, <1>8 DEF Machines, Debts, Busy, Keeps
<1> QED
  BY <1>1, <1>2, <1>5, <1>6, <1>7, <1>8, <1>9 DEF Sound

LEMMA SettlesOn ==
    ASSUME NEW w, NEW r, NEW q, NEW p, Keeps(q, r), Settles(w, q, p)
    PROVE  Settles(w, r, p)
<1>1. /\ q.script = r.script /\ q.complete = r.complete
      /\ Told(q, p.verdict) = Told(r, p.verdict)
  BY DEF Keeps, Told
<1>2. ASSUME NEW x, Keeps(x, q) PROVE Keeps(x, r)
  BY <1>2, KeepsOn
<1> QED
  BY <1>1, <1>2 DEF Settles

LEMMA RaisedGood ==
    ASSUME NEW w, NEW r, NEW s \in Calls, Sound(w, r), Poised(w, r, s),
           NEW p, p = Raised(r, s)
    PROVE  Good(w, p) /\ Settles(w, r, p)
<1> DEFINE q == Settled([r EXCEPT !.errors = TRUE], s)
<1>1. /\ w \in Worlds /\ r \in Runs /\ Busy(r)
  BY DEF Sound
<1>2. /\ Sound(w, q) /\ Keeps(q, r) /\ Owed(q) \subseteq Owed(r)
      /\ (r.owed # <<>> /\ Last(r.owed) = s) => q.owed = Front(r.owed)
  <2> DEFINE x == q
  <2>1. x = q
    OBVIOUS
  <2> HIDE DEF x
  <2> QED
    BY <2>1, ErrorSound
<1>3. /\ "failed" \in Verdict /\ "failed" # "passed"
      /\ "leftOver" \in Verdict /\ "leftOver" # "passed"
  BY DEF Verdict, Clean
<1>4. CASE r.state = "cleanup"
  <2>1. p = Advanced(q)
    BY <1>4 DEF Raised
  <2> HIDE DEF q
  <2>2. /\ r.todo # <<>> /\ s = Last(r.owed) /\ s \in Owed(r)
        /\ s[1] \in DebtKind /\ Cause(s[1]) \in Kinds(r.script)
        /\ r.owed # <<>>
        /\ Tail(r.todo) = Reverse(Front(r.owed))
        /\ r.outcome = "passed" => Ahead(w, r, <<>>)
    BY <1>4 DEF Poised
  <2>3. /\ q.todo = r.todo /\ q.outcome = r.outcome /\ q.state = r.state
        /\ q.owed = Front(r.owed)
    BY <1>2, <2>2 DEF Keeps
  <2>4. q.outcome = "passed" => Ahead(w, q, <<>>)
    BY <1>1, <1>2, <2>2, <2>3, AheadDebt
  <2>5. Good(w, p) /\ Settles(w, q, p)
    BY <1>2, <1>4, <2>1, <2>2, <2>3, <2>4, AdvancedGood
  <2> QED
    BY <1>2, <2>5, SettlesOn
<1>5. CASE r.state = "body" /\ Cleaning(r, s)
  <2>1. p = Finally(q, "leftOver")
    BY <1>5 DEF Raised
  <2> HIDE DEF q
  <2>2. Good(w, p) /\ Settles(w, q, p)
    BY <1>2, <1>3, <2>1, FinallyGood
  <2> QED
    BY <1>2, <2>2, SettlesOn
<1>6. CASE r.state = "body" /\ ~Cleaning(r, s)
  <2>1. p = Finally(r, "failed")
    BY <1>6 DEF Raised
  <2> QED
    BY <1>3, <2>1, FinallyGood
<1> QED
  BY <1>1, <1>4, <1>5, <1>6 DEF Busy

-----------------------------------------------------------------------------
(* The steps of a command.                                                 *)

\* What the predicates do not see: troubles and masks.
LEMMA GoodLike ==
    ASSUME NEW w, NEW r, Good(w, r), NEW q, Keeps(q, r), q.owed = r.owed,
           q.errors = r.errors, q.asked = r.asked, q.read = r.read,
           q.config = r.config
    PROVE  Good(w, q)
<1>1. /\ w \in Worlds /\ r \in Runs /\ Formed(r) /\ Machines(w, r)
      /\ Busy(r) => Covered(w, r)
      /\ r.state = "body" => Ahead(w, r, r.todo)
      /\ r.state = "cleanup" /\ r.outcome = "passed" => Ahead(w, r, <<>>)
  BY DEF Good
<1>2. /\ q \in Runs /\ q.profile = r.profile /\ q.script = r.script
      /\ q.state = r.state /\ q.outcome = r.outcome /\ q.todo = r.todo
      /\ q.value = r.value /\ q.ran = r.ran
      /\ q.missed = r.missed /\ q.operations = r.operations
      /\ q.complete = r.complete
  BY DEF Keeps
<1>3. Formed(q)
  BY <1>1, <1>2 DEF Formed, Busy, Owed
<1>4. Machines(w, q)
  BY <1>1, <1>2 DEF Machines, Busy
<1>5. Busy(q) => Covered(w, q)
  BY <1>1, <1>2 DEF Covered, Busy, Owed
<1>6. ASSUME NEW x, Ahead(w, r, x) PROVE Ahead(w, q, x)
  BY <1>2, <1>6
     DEF Ahead, SnapshotAhead, CutNow, RestoreAhead, ZipkinAhead,
         ZipkinPart, ServicesAhead, ServicesPart, PullAhead, PullPart,
         Exists, Owed
<1> QED
  BY <1>1, <1>2, <1>3, <1>4, <1>5, <1>6 DEF Good

LEMMA PoisedOn ==
    ASSUME NEW w, NEW r, Good(w, r), Busy(r), NEW s, s = Head(r.todo),
           NEW e, e = w \/ e = Effect(w, r, s), NEW q, Keeps(q, r),
           s[1] \in DebtKind => q.owed = r.owed
    PROVE  Poised(e, q, s)
<1>1. /\ r.todo # <<>> /\ s \in Calls
      /\ r.state = "cleanup" =>
            /\ r.owed # <<>> /\ s = Last(r.owed) /\ s \in Owed(r)
            /\ s[1] \in DebtKind /\ Cause(s[1]) \in Kinds(r.script)
            /\ Tail(r.todo) = Reverse(Front(r.owed))
            /\ r.outcome = "passed" => Ahead(w, r, <<>>)
  BY Next1
<1>2. /\ q.todo = r.todo /\ q.script = r.script /\ q.state = r.state
      /\ q.outcome = r.outcome
  BY DEF Keeps
<1>3. w \in Worlds /\ r \in Runs
  BY DEF Good
<1>4. CASE r.state = "cleanup"
  <2>1. q.owed = r.owed /\ Owed(q) = Owed(r)
    BY <1>1, <1>4 DEF Owed
  <2>2. e \in Worlds /\ (Puts(w, e, s[1], s[2]) \/ e = w)
    BY <1>1, <1>3, Effects
  <2>3. r.outcome = "passed" => Ahead(e, q, <<>>)
    BY <1>1, <1>3, <1>4, <2>1, <2>2, AheadDebt
  <2> QED
    BY <1>1, <1>2, <1>4, <2>1, <2>3 DEF Poised
<1>5. CASE r.state # "cleanup"
  BY <1>1, <1>2, <1>5 DEF Poised
<1> QED
  BY <1>4, <1>5

Outcome == Running => Settles(world', run, run')

LEMMA PerformGood ==
    ASSUME Good(world, run), Perform
    PROVE  Good(world', run') /\ Outcome
<1> DEFINE s == Head(run.todo)
           q == Mid(world, run, s)
<1>1. /\ Busy(run) /\ Holds(world, run, s) /\ world' = Effect(world, run, s)
      /\ run' = Advanced(q)
  BY DEF Perform, Running, Busy, Mid
<1>2. world \in Worlds /\ run \in Runs
  BY DEF Good
<1>3. /\ run.todo \in Seq(Calls) /\ run.todo # <<>> /\ s \in Calls
      /\ run.state = "body" => Ahead(world, run, run.todo)
      /\ run.state = "cleanup" =>
            /\ run.owed # <<>> /\ s = Last(run.owed) /\ s \in Owed(run)
            /\ s[1] \in DebtKind /\ Cause(s[1]) \in Kinds(run.script)
            /\ Tail(run.todo) = Reverse(Front(run.owed))
            /\ run.outcome = "passed" => Ahead(world, run, <<>>)
  BY <1>1, Next1
<1>4. /\ Keeps(q, run) /\ q.errors = run.errors
      /\ q.asked = (run.asked \/ s[1] = "request")
      /\ Owed(q) \subseteq Owed(run) \cup ToSet(Owes(s))
      /\ \A x \in Owed(run) \cup ToSet(Owes(s)) : x # s => x \in Owed(q)
      /\ (s[1] \in DebtKind /\ run.owed # <<>> /\ Last(run.owed) = s) =>
            q.owed = Front(run.owed)
  <2> HIDE DEF q, s
  <2>1. q = Mid(world, run, s)
    BY DEF q
  <2> QED
    BY <1>2, <1>3, <2>1, MidRun
<1>5. q.todo = run.todo /\ q.state = run.state /\ q.outcome = run.outcome
  BY <1>4 DEF Keeps
<1>6. Follows(q, run, s)
  BY <1>4 DEF Follows
<1>7. Sound(world', q)
  BY <1>1, <1>4, <1>6, StepDone
<1>8. ASSUME run.state = "body" PROVE Ahead(world', q, Tail(run.todo))
  BY <1>1, <1>2, <1>3, <1>8, AheadStep
<1>9. ASSUME run.state = "cleanup"
      PROVE  /\ q.owed = Front(run.owed)
             /\ run.outcome = "passed" => Ahead(world', q, <<>>)
  <2>1. Owes(s) = <<>>
    BY <1>3, <1>9, OwesNothing
  <2>2. Owed(q) \subseteq Owed(run)
    BY <1>4, <2>1, Empty
  <2>3. world' \in Worlds /\ Puts(world, world', s[1], s[2])
    BY <1>1, <1>2, <1>3, Effects
  <2> HIDE DEF q, s
  <2>4. run.outcome = "passed" => Ahead(world', q, <<>>)
    BY <1>2, <1>3, <1>4, <1>9, <2>2, <2>3, AheadDebt
  <2> QED
    BY <1>3, <1>4, <1>9, <2>4
<1> HIDE DEF q, s
<1>10. Good(world', run') /\ Settles(world', q, run')
  BY <1>1, <1>3, <1>5, <1>7, <1>8, <1>9, AdvancedGood
<1> QED
  BY <1>4, <1>10, SettlesOn DEF Outcome

\* A step that raises an error, done or not.
LEMMA RaisedStep ==
    ASSUME NEW w, NEW r, Good(w, r), Busy(r), NEW s, s = Head(r.todo),
           NEW e, NEW q, Sound(e, q), e = w \/ e = Effect(w, r, s),
           Keeps(q, r), s[1] \in DebtKind => q.owed = r.owed,
           NEW p, p = Raised(q, s)
    PROVE  Good(e, p) /\ Settles(e, r, p)
<1>1. s \in Calls
  BY Next1
<1>2. Poised(e, q, s)
  BY PoisedOn
<1>3. Good(e, p) /\ Settles(e, q, p)
  BY <1>1, <1>2, RaisedGood
<1> QED
  BY <1>3, SettlesOn

\* b differs from r in what is not seen, and q is b after Owing.
Twin(w, b, r) ==
    /\ Good(w, b) /\ Keeps(b, r) /\ b.owed = r.owed
    /\ b.errors = r.errors /\ b.asked = r.asked
Charges(w, r, s, q) ==
    /\ Keeps(q, r) /\ Sound(w, q) /\ Sound(Effect(w, r, s), q)
    /\ s[1] \in DebtKind => q.owed = r.owed

LEMMA OwingCharged ==
    ASSUME NEW r, NEW s PROVE Owing(r, s, FALSE) = Charged(r, s)
BY DEF Owing, Charged

LEMMA ChargedOf ==
    ASSUME NEW w, NEW r, Good(w, r), Busy(r), NEW s, s = Head(r.todo),
           NEW b, Twin(w, b, r), NEW q, q = Charged(b, s)
    PROVE  Charges(w, r, s, q)
<1>1. /\ Good(w, b) /\ Keeps(b, r) /\ b.owed = r.owed
      /\ b.errors = r.errors /\ b.asked = r.asked
  BY DEF Twin
<1>2. s \in Calls
  BY Next1
<1>3. b \in Runs /\ r \in Runs
  BY <1>1 DEF Good
<1>4. /\ Keeps(q, b) /\ q.errors = b.errors /\ q.owed = b.owed \o Owes(s)
      /\ Owed(q) = Owed(b) \cup ToSet(Owes(s))
  <2>1. b \in Runs
    BY <1>3
  <2>2. Keeps(q, b) /\ Owed(q) = Owed(b) \cup ToSet(Owes(s))
    BY <1>2, <2>1, OwingRun
  <2>3. q.errors = b.errors /\ q.owed = b.owed \o Owes(s)
    <3>1. q \in Runs
      BY <2>2 DEF Keeps
    <3> QED
      BY <2>1, <3>1 DEF Charged, Runs
  <2> QED
    BY <2>2, <2>3
<1>13. q.asked = (b.asked \/ s[1] = "request")
  <2>1. q \in Runs /\ b \in Runs
    BY <1>3, <1>4 DEF Keeps
  <2> QED
    BY <2>1 DEF Charged, Runs
<1>5. Keeps(q, r)
  BY <1>1, <1>4, KeepsOn
<1>6. Busy(b) /\ s = Head(b.todo)
  BY <1>1 DEF Keeps, Busy
<1>7. Sound(w, q)
  BY <1>1, <1>6, StepCharged
<1>8. Owed(b) = Owed(r)
  BY <1>1 DEF Owed
<1>9. q.asked = (r.asked \/ s[1] = "request")
  BY <1>1, <1>13
<1>10. Follows(q, r, s) /\ Owed(q) = Owed(r) \cup ToSet(Owes(s))
  BY <1>1, <1>4, <1>5, <1>8, <1>9 DEF Follows
<1>11. Sound(Effect(w, r, s), q)
  BY <1>10, StepDone
<1>12. ASSUME s[1] \in DebtKind PROVE q.owed = r.owed
  <2>1. r.owed \in Seq(Calls) /\ Owes(s) = <<>>
    BY <1>3, <1>12, OwesNothing, RunFields
  <2>2. r.owed \o <<>> = r.owed
    BY <2>1
  <2> QED
    BY <1>1, <1>4, <2>1, <2>2
<1> QED
  BY <1>5, <1>7, <1>11, <1>12 DEF Charges

LEMMA RefuseGood ==
    ASSUME Good(world, run), Refuse
    PROVE  Good(world', run') /\ Outcome
<1> DEFINE s == Head(run.todo)
           q == Owing(run, s, FALSE)
<1>1. Busy(run) /\ world' = world /\ run' = Raised(q, s)
  BY DEF Refuse, Running, Busy
<1>2. Twin(world, run, run)
  BY DEF Twin, Keeps, Good
<1>3. q = Charged(run, s)
  BY OwingCharged
<1> HIDE DEF q
<1> HIDE DEF s
<1>4. s = Head(run.todo)
  BY DEF s
<1>5. /\ Keeps(q, run) /\ Sound(world, q)
      /\ s[1] \in DebtKind => q.owed = run.owed
  BY <1>1, <1>2, <1>3, <1>4, ChargedOf DEF Charges
<1>6. Good(world, run') /\ Settles(world, run, run')
  BY <1>1, <1>4, <1>5, RaisedStep
<1> QED
  BY <1>1, <1>6 DEF Outcome

\* A trouble more.
LEMMA Troubled ==
    ASSUME NEW w, NEW r, Good(w, r), NEW q,
           q = [r EXCEPT !.troubles = r.troubles + 1]
    PROVE  /\ Good(w, q) /\ Keeps(q, r) /\ q.owed = r.owed
           /\ q.errors = r.errors /\ q.asked = r.asked
<1> DEFINE x == r.troubles + 1
<1>1. r \in Runs /\ x \in Nat
  BY RunFields DEF Good
<1>2. q = [r EXCEPT !.troubles = x]
  OBVIOUS
<1> HIDE DEF x
<1>3. /\ q \in Runs /\ q.profile = r.profile
      /\ q.script = r.script /\ q.state = r.state
      /\ q.outcome = r.outcome /\ q.todo = r.todo /\ q.owed = r.owed
      /\ q.errors = r.errors /\ q.asked = r.asked
      /\ q.value = r.value /\ q.read = r.read /\ q.ran = r.ran
      /\ q.missed = r.missed
      /\ q.config = r.config /\ q.operations = r.operations
      /\ q.complete = r.complete
  BY <1>1, <1>2, PutTroubles
<1>4. Keeps(q, r)
  BY <1>3 DEF Keeps
<1> QED
  BY <1>3, <1>4, GoodLike

LEMMA FailGood ==
    ASSUME Good(world, run), Fail
    PROVE  Good(world', run') /\ Outcome
<1> DEFINE s == Head(run.todo)
           b == [run EXCEPT !.troubles = run.troubles + 1]
           q == Owing(b, s, FALSE)
           e == Effect(world, run, s)
<1>1. /\ Busy(run) /\ (world' = world \/ (world' = e /\ s[1] # "forward"))
      /\ run' = Raised(IF s[1] = "forward" THEN b ELSE q, s)
  BY DEF Fail, Running, Busy
<1>2. /\ Good(world, b) /\ Keeps(b, run) /\ b.owed = run.owed
      /\ b.errors = run.errors /\ b.asked = run.asked
  <2> HIDE DEF b
  <2>1. b = [run EXCEPT !.troubles = run.troubles + 1]
    BY DEF b
  <2> QED
    BY <2>1, Troubled
<1>3. s = Head(run.todo) /\ q = Charged(b, s) /\ e = Effect(world, run, s)
  BY OwingCharged
<1> HIDE DEF b, e, q, s
<1>7. Twin(world, b, run)
  BY <1>2 DEF Twin
<1>8. Charges(world, run, s, q)
  BY <1>1, <1>3, <1>7, ChargedOf
<1>4. /\ Keeps(q, run) /\ Sound(world, q) /\ Sound(e, q)
      /\ s[1] \in DebtKind => q.owed = run.owed
  BY <1>3, <1>8 DEF Charges
<1>5. CASE s[1] = "forward"
  <2>1. world' = world /\ run' = Raised(b, s)
    BY <1>1, <1>5
  <2>2. Sound(world, b)
    BY <1>1, <1>2, GoodSound DEF Busy, Keeps
  <2>3. Good(world, run') /\ Settles(world, run, run')
    BY <1>1, <1>2, <1>3, <2>1, <2>2, RaisedStep
  <2> QED
    BY <2>1, <2>3 DEF Outcome
<1>6. CASE s[1] # "forward"
  <2>1. run' = Raised(q, s) /\ (world' = world \/ world' = e)
    BY <1>1, <1>6
  <2>2. Sound(world', q)
    BY <1>4, <2>1
  <2>3. Good(world', run') /\ Settles(world', run, run')
    BY <1>1, <1>3, <1>4, <2>1, <2>2, RaisedStep
  <2> QED
    BY <2>3 DEF Outcome
<1> QED
  BY <1>5, <1>6

\* What is left counts as owed once it is marked.
LEMMA Marking ==
    ASSUME NEW w, NEW r, Sound(w, r), NEW v, v \in Worlds, Machines(v, r),
           NEW b \in BOOLEAN, NEW q, q = [r EXCEPT !.errors = b],
           b \/ (v = w /\ ~r.errors)
    PROVE  Sound(v, q) /\ Keeps(q, r)
<1>1. r \in Runs
  BY DEF Sound
<1>2. /\ q \in Runs /\ q.errors = b /\ q.profile = r.profile
      /\ q.script = r.script /\ q.state = r.state
      /\ q.outcome = r.outcome /\ q.todo = r.todo /\ q.owed = r.owed
      /\ q.asked = r.asked /\ q.value = r.value /\ q.read = r.read
      /\ q.ran = r.ran /\ q.missed = r.missed /\ q.config = r.config
      /\ q.operations = r.operations /\ q.complete = r.complete
  BY <1>1, PutErrors
<1>3. Keeps(q, r)
  BY <1>2 DEF Keeps
<1>4. Covered(v, q)
  <2>1. CASE b
    BY <1>2, <2>1 DEF Covered
  <2>2. CASE v = w /\ ~r.errors
    BY <1>2, <2>2 DEF Sound, Covered, Owed
  <2> QED
    BY <2>1, <2>2
<1>5. Machines(v, q) /\ Debts(q) /\ Busy(q) /\ q.script \in Commands(q.profile)
  BY <1>2 DEF Sound, Machines, Debts, Busy, Owed
<1> QED
  BY <1>2, <1>3, <1>4, <1>5 DEF Sound

LEMMA InterruptGood ==
    ASSUME Good(world, run), Interrupt
    PROVE  Good(world', run') /\ Outcome
<1> DEFINE s == Head(run.todo)
           x == run.troubles + 1
           m == TRUE
           f == run.errors
           b == [run EXCEPT !.troubles = x, !.masked = m, !.errors = f]
           Marked(mark) == [run EXCEPT !.troubles = x, !.masked = m,
                                       !.errors = run.errors \/ mark]
           q == Owing(b, s, FALSE)
           e == Effect(world, run, s)
<1>2. /\ run \in Runs /\ x \in Nat /\ m \in BOOLEAN /\ f \in BOOLEAN
      /\ Busy(run)
  BY RunFields DEF Good, Interrupt, Running, Busy
<1>1. PICK done \in BOOLEAN :
         /\ world' = IF done THEN e ELSE world
         /\ run' = IF Cleaning(run, s) THEN Ends(Marked(TRUE), "interrupted")
                   ELSE Finally(IF s[1] = "forward" THEN Marked(done)
                                ELSE Owing(Marked(FALSE), s, FALSE),
                                "interrupted")
  BY Zenon DEF Interrupt
<1>15. /\ Marked(FALSE) = b
       /\ Marked(TRUE) = [b EXCEPT !.errors = TRUE]
       /\ Marked(done) = [b EXCEPT !.errors = f \/ done]
  <2>1. (run.errors \/ FALSE) = f /\ (run.errors \/ TRUE) = TRUE
    BY <1>2
  <2> HIDE DEF x, m
  <2>2. Marked(FALSE) = b
    BY <2>1
  <2>3. \A c : [b EXCEPT !.errors = c] =
                 [run EXCEPT !.troubles = x, !.masked = m, !.errors = c]
    BY <1>2 DEF Runs
  <2> QED
    BY <2>1, <2>2, <2>3
<1>16. s = Head(run.todo) /\ q = Charged(b, s) /\ e = Effect(world, run, s)
  BY OwingCharged
<1>17. run' = IF Cleaning(run, s)
              THEN Ends([b EXCEPT !.errors = TRUE], "interrupted")
              ELSE Finally(IF s[1] = "forward"
                           THEN [b EXCEPT !.errors = f \/ done] ELSE q,
                           "interrupted")
  <2> HIDE DEF Marked, b, s, f
  <2> QED
    BY <1>1, <1>15, Zenon
<1> HIDE DEF x, m, Marked
<1>3. /\ b \in Runs /\ b.profile = run.profile /\ b.script = run.script
      /\ b.state = run.state /\ b.outcome = run.outcome
      /\ b.todo = run.todo /\ b.owed = run.owed /\ b.errors = run.errors
      /\ b.asked = run.asked /\ b.value = run.value /\ b.read = run.read
      /\ b.ran = run.ran /\ b.missed = run.missed /\ b.config = run.config
      /\ b.operations = run.operations /\ b.complete = run.complete
  <2> HIDE DEF b
  <2>1. b = [run EXCEPT !.troubles = x, !.masked = m, !.errors = f]
    BY DEF b
  <2> HIDE DEF f
  <2>2. b \in Runs
    BY <1>2, <2>1 DEF Runs
  <2>3. f = run.errors
    BY DEF f
  <2> QED
    BY <1>2, <2>1, <2>2, <2>3 DEF Runs
<1>18. f = b.errors
  BY <1>3
<1> HIDE DEF b, e, q, s, f
<1>5. Keeps(b, run) /\ Busy(b)
  BY <1>2, <1>3 DEF Keeps, Busy
<1>6. Good(world, b)
  BY <1>3, <1>5, GoodLike
<1>13. Twin(world, b, run)
  BY <1>3, <1>5, <1>6 DEF Twin
<1>14. Charges(world, run, s, q)
  BY <1>2, <1>13, <1>16, ChargedOf
<1>7. Keeps(q, run) /\ Sound(world, q) /\ Sound(e, q)
  BY <1>14, <1>16 DEF Charges
<1>8. Sound(world, b)
  BY <1>5, <1>6, GoodSound
<1>9. /\ "interrupted" \in Verdict /\ "interrupted" # "passed"
      /\ ~Told(b, "interrupted")
  BY DEF Verdict, Clean, Told
<1>19. world' \in Worlds /\ Machines(world', b)
  <2>1. /\ world \in Worlds /\ Machines(world, b)
        /\ e \in Worlds /\ Machines(e, q)
    BY <1>7, <1>8 DEF Sound
  <2>2. Machines(e, b)
    BY <1>3, <1>7, <2>1 DEF Keeps, Machines, Busy
  <2> QED
    BY <1>1, <2>1, <2>2
<1>10. CASE Cleaning(run, s)
  <2> DEFINE c == [b EXCEPT !.errors = TRUE]
  <2>1. run' = Ends(c, "interrupted")
    <3>1. run' = Ends([b EXCEPT !.errors = TRUE], "interrupted")
      BY <1>10, <1>17, Zenon
    <3> QED
      BY <3>1
  <2>2. c = [b EXCEPT !.errors = TRUE]
    OBVIOUS
  <2> HIDE DEF c
  <2>3. Sound(world', c) /\ Keeps(c, b)
    BY <1>8, <1>19, <2>2, Marking
  <2>4. c.errors
    BY <1>3, <2>2 DEF Runs
  <2>5. /\ Good(world', run') /\ run'.verdict = "interrupted"
        /\ run'.errors = c.errors
        /\ c.script # "snapshot" => run'.complete = c.complete
    BY <1>9, <2>1, <2>3, EndsGood
  <2>6. /\ c.script = run.script /\ c.complete = run.complete
        /\ ~Told(run, "interrupted")
    BY <1>3, <2>3 DEF Keeps, Told
  <2> QED
    BY <2>4, <2>5, <2>6 DEF Outcome, Settles
<1>11. CASE ~Cleaning(run, s) /\ s[1] = "forward"
  <2> DEFINE d == f \/ done
             c == [b EXCEPT !.errors = d]
  <2>1. run' = Finally(c, "interrupted")
    BY <1>11, <1>17
  <2>2. c = [b EXCEPT !.errors = d] /\ d \in BOOLEAN
        /\ (d \/ (world' = world /\ ~b.errors))
    BY <1>1, <1>2, <1>18
  <2> HIDE DEF c, d
  <2>3. Sound(world', c) /\ Keeps(c, b)
    BY <1>8, <1>19, <2>2, Marking
  <2>4. Good(world', run') /\ Settles(world', c, run')
    BY <1>9, <2>1, <2>3, FinallyGood
  <2> QED
    BY <1>5, <2>3, <2>4, SettlesOn, KeepsOn DEF Outcome
<1>12. CASE ~Cleaning(run, s) /\ s[1] # "forward"
  <2>1. run' = Finally(q, "interrupted") /\ Sound(world', q)
    BY <1>1, <1>7, <1>12, <1>17
  <2>2. Good(world', run') /\ Settles(world', q, run')
    BY <1>9, <2>1, FinallyGood
  <2> QED
    BY <1>7, <2>2, SettlesOn DEF Outcome
<1> QED
  BY <1>10, <1>11, <1>12

\* An end that nobody reports of.
LEMMA SilentEnd ==
    ASSUME Good(world, run), Running, NEW v \in Verdict \ Clean,
           run' = [Ends(run, v) EXCEPT !.troubles = @ + 1], world' = world
    PROVE  Good(world', run') /\ Outcome
<1> DEFINE b == Ends(run, v)
<1>1. Sound(world, run) /\ v # "passed" /\ ~Told(run, v)
  BY GoodSound DEF Running, Busy, Clean, Told
<1>2. /\ Good(world, b) /\ b.state = "idle" /\ b.verdict = v
      /\ run.script # "snapshot" => b.complete = run.complete
  <2>1. b = Ends(run, v)
    OBVIOUS
  <2> HIDE DEF b
  <2> QED
    BY <1>1, <2>1, EndsGood
<1>3. run' = [b EXCEPT !.troubles = b.troubles + 1]
  OBVIOUS
<1> HIDE DEF b
<1>4. Good(world, run') /\ Keeps(run', b)
  BY <1>2, <1>3, Troubled
<1>5. run'.verdict = v
  BY <1>2, <1>3 DEF Good, Runs
<1>6. run'.complete = b.complete
  BY <1>4 DEF Keeps
<1> QED
  BY <1>1, <1>2, <1>4, <1>5, <1>6 DEF Outcome, Settles

LEMMA CutOffGood ==
    ASSUME Good(world, run), CutOff
    PROVE  Good(world', run') /\ Outcome
<1>1. "cutOff" \in Verdict \ Clean
  BY DEF Verdict, Clean
<1> QED
  BY <1>1, SilentEnd DEF CutOff

LEMMA KillGood ==
    ASSUME Good(world, run), Kill
    PROVE  Good(world', run') /\ Outcome
<1>1. "killed" \in Verdict \ Clean
  BY DEF Verdict, Clean
<1> QED
  BY <1>1, SilentEnd DEF Kill

-----------------------------------------------------------------------------
(* What others do, and how commands begin.                                 *)

LEMMA PodPart ==
    ASSUME NEW w, NEW r, NEW e, NEW n \in Nat, ZipkinPart(w, r, n),
           w.pod = "pending", e.secret = w.secret, e.request = w.request,
           \/ e.pod = "succeeded" /\ e.zipkin = w.request
           \/ e.pod = "failed" /\ e.zipkin = w.zipkin
    PROVE  ZipkinPart(e, r, n)
<1> DEFINE password == w.secret["zipkin"].data
<1>1. /\ n = 6 => r.read = password
      /\ n \in 2 .. 5 => <<"removePod", "one">> \in Owed(r)
      /\ n \in 3 .. 5 => w.request = password
      /\ n # 4 /\ ~(n <= 2)
  BY DEF ZipkinPart
<1>2. e.secret["zipkin"].data = password
  OBVIOUS
<1> HIDE DEF password
<1>3. n = 3 => (e.pod = "succeeded" => e.zipkin = password)
  BY <1>1
<1> QED
  BY <1>1, <1>2, <1>3 DEF ZipkinPart

\* A world that a command cannot tell from w.
Alike(e, w) ==
    /\ e \in Worlds /\ e.vm = w.vm /\ e.snapshot = w.snapshot
    /\ e.from = w.from /\ e.tokens = w.tokens /\ e.config = w.config
    /\ e.backup = w.backup /\ e.forwards \subseteq w.forwards
    /\ e.secret = w.secret /\ e.elastic = w.elastic /\ e.user = w.user
    /\ e.files = w.files /\ e.request = w.request /\ e.built = w.built
    /\ e.images = w.images /\ e.archives = w.archives
    /\ e.served = w.served

LEMMA AlikeGood ==
    ASSUME NEW w, NEW r, Good(w, r), NEW e, Alike(e, w),
           w.pod = "absent" => e.pod = "absent",
           \A n \in Nat : ZipkinPart(w, r, n) => ZipkinPart(e, r, n)
    PROVE  Good(e, r)
<1>1. /\ w \in Worlds /\ r \in Runs /\ Formed(r) /\ Machines(w, r)
      /\ Busy(r) => Covered(w, r)
      /\ r.state = "body" => Ahead(w, r, r.todo)
      /\ r.state = "cleanup" /\ r.outcome = "passed" => Ahead(w, r, <<>>)
  BY DEF Good
<1>2. Machines(e, r)
  BY <1>1 DEF Machines, Alike, Uniform
<1>3. Busy(r) => Covered(e, r)
  BY <1>1 DEF Covered, Alike
<1>4. ASSUME NEW t \in Seq(Calls), Ahead(w, r, t) PROVE Ahead(e, r, t)
  <2>1. Len(t) \in Nat
    OBVIOUS
  <2>2. /\ \A s \in ToSet(t) : s[1] \in Kinds(r.script)
        /\ r.script = "snapshot" => SnapshotAhead(w, r, t)
        /\ r.script = "restore" => RestoreAhead(w, r, t)
        /\ r.script = "zipkin" => ZipkinAhead(w, r, t)
        /\ r.script = "services" => ServicesAhead(w, r, t)
        /\ r.script = "pull" => PullAhead(w, r, t)
    BY <1>4 DEF Ahead
  <2>3. SnapshotAhead(w, r, t) => SnapshotAhead(e, r, t)
    BY DEF SnapshotAhead, CutNow, Exists, Alike
  <2>4. RestoreAhead(w, r, t) => RestoreAhead(e, r, t)
    BY DEF RestoreAhead, Exists, Alike
  <2>5. ZipkinAhead(w, r, t) => ZipkinAhead(e, r, t)
    BY <2>1 DEF ZipkinAhead
  <2>6. ServicesAhead(w, r, t) => ServicesAhead(e, r, t)
    BY DEF ServicesAhead, ServicesPart, Alike
  <2>7. PullAhead(w, r, t) => PullAhead(e, r, t)
    BY DEF PullAhead, PullPart, Alike
  <2> QED
    BY <2>2, <2>3, <2>4, <2>5, <2>6, <2>7 DEF Ahead
<1>5. r.todo \in Seq(Calls) /\ <<>> \in Seq(Calls)
  BY <1>1, RunFields, EmptySeq
<1>6. /\ r.state = "body" => Ahead(e, r, r.todo)
      /\ r.state = "cleanup" /\ r.outcome = "passed" => Ahead(e, r, <<>>)
  BY <1>1, <1>4, <1>5
<1> QED
  BY <1>1, <1>2, <1>3, <1>6 DEF Good, Alike

LEMMA Quiet ==
    ASSUME run' = run PROVE Outcome
BY DEF Outcome, Running, Settles

LEMMA PodRunsGood ==
    ASSUME Good(world, run), PodRuns
    PROVE  Good(world', run') /\ Outcome
<1>1. world \in Worlds
  BY DEF Good
<1>2. /\ world.pod = "pending" /\ run' = run
      /\ \/ world' = [world EXCEPT !.zipkin = world.request,
                      !.pod = "succeeded"]
         \/ world' = [world EXCEPT !.pod = "failed"]
  BY DEF PodRuns
<1>3. world.request \in Nat
  BY <1>1, WorldFields
<1>4. /\ Alike(world', world)
      /\ \/ world'.pod = "succeeded" /\ world'.zipkin = world.request
         \/ world'.pod = "failed" /\ world'.zipkin = world.zipkin
  <2>1. CASE world' = [world EXCEPT !.pod = "failed"]
    <3>1. "failed" \in {"absent", "pending", "succeeded", "failed"}
      OBVIOUS
    <3> DEFINE x == "failed"
    <3>2. x \in {"absent", "pending", "succeeded", "failed"}
      BY <3>1
    <3>3. world' = [world EXCEPT !.pod = x]
      BY <2>1
    <3> HIDE DEF x
    <3>4. /\ Alike(world', world) /\ world'.pod = x
          /\ world'.zipkin = world.zipkin
      BY <1>1, <3>2, <3>3, PutPod DEF Alike
    <3> QED
      BY <3>4 DEF x
  <2>2. CASE world' = [world EXCEPT !.zipkin = world.request,
                                    !.pod = "succeeded"]
    <3> DEFINE x == "succeeded"
               y == world.request
               v == [world EXCEPT !.zipkin = y]
    <3>1. world' = [v EXCEPT !.pod = x]
      BY <2>2, Zenon
    <3>2. x \in {"absent", "pending", "succeeded", "failed"} /\ y \in Nat
      BY <1>3
    <3>3. x = "succeeded" /\ y = world.request
      OBVIOUS
    <3> HIDE DEF x, y
    <3>4. v \in Worlds /\ v.zipkin = y
      BY <1>1, <3>2 DEF Worlds
    <3>5. /\ v.vm = world.vm /\ v.snapshot = world.snapshot
          /\ v.from = world.from /\ v.tokens = world.tokens
          /\ v.config = world.config /\ v.backup = world.backup
          /\ v.forwards = world.forwards /\ v.secret = world.secret
          /\ v.elastic = world.elastic /\ v.user = world.user
          /\ v.files = world.files /\ v.request = world.request
          /\ v.built = world.built /\ v.images = world.images
          /\ v.archives = world.archives /\ v.served = world.served
      BY <1>1 DEF Worlds
    <3> HIDE DEF v
    <3>6. /\ world' \in Worlds /\ world'.pod = x /\ world'.zipkin = v.zipkin
          /\ world'.vm = v.vm /\ world'.snapshot = v.snapshot
          /\ world'.from = v.from /\ world'.tokens = v.tokens
          /\ world'.config = v.config /\ world'.backup = v.backup
          /\ world'.forwards = v.forwards /\ world'.secret = v.secret
          /\ world'.elastic = v.elastic /\ world'.user = v.user
          /\ world'.files = v.files /\ world'.request = v.request
          /\ world'.built = v.built /\ world'.images = v.images
          /\ world'.archives = v.archives /\ world'.served = v.served
      BY <3>1, <3>2, <3>4, PutPod
    <3>7. Alike(world', world)
      BY <3>5, <3>6 DEF Alike
    <3> QED
      BY <3>3, <3>4, <3>6, <3>7
  <2> QED
    BY <1>2, <2>1, <2>2
<1>5. world'.secret = world.secret /\ world'.request = world.request
  BY <1>4 DEF Alike
<1>6. ASSUME NEW n \in Nat, ZipkinPart(world, run, n)
      PROVE  ZipkinPart(world', run, n)
  BY <1>2, <1>4, <1>5, <1>6, PodPart
<1>7. Good(world', run)
  BY <1>2, <1>4, <1>6, AlikeGood
<1> QED
  BY <1>2, <1>7, Quiet

LEMMA ForwardEndsGood ==
    ASSUME Good(world, run), ForwardEnds
    PROVE  Good(world', run') /\ Outcome
<1>1. world \in Worlds /\ run' = run
  BY DEF Good, ForwardEnds
<1>2. PICK p \in world.forwards :
         world' = [world EXCEPT !.forwards = world.forwards \ {p}]
  BY DEF ForwardEnds
<1> DEFINE x == world.forwards \ {p}
<1>3. x \in SUBSET Arg /\ world' = [world EXCEPT !.forwards = x]
  BY <1>1, <1>2, WorldFields
<1>4. x \subseteq world.forwards
  OBVIOUS
<1> HIDE DEF x
<1>5. /\ Alike(world', world) /\ world'.pod = world.pod
      /\ world'.zipkin = world.zipkin
  BY <1>1, <1>3, <1>4, PutForwards DEF Alike
<1>6. ASSUME NEW n \in Nat, ZipkinPart(world, run, n)
      PROVE  ZipkinPart(world', run, n)
  BY <1>5, <1>6 DEF ZipkinPart, Alike
<1>7. Good(world', run)
  BY <1>5, <1>6, AlikeGood
<1> QED
  BY <1>1, <1>7, Quiet

LEMMA OutsideGood ==
    ASSUME Good(world, run), Outside
    PROVE  Good(world', run') /\ Outcome
<1>1. /\ world \in Worlds /\ run \in Runs /\ Formed(run)
      /\ Machines(world, run) /\ ~Busy(run) /\ run.state = "idle"
  <2>1. ~Running
    BY Zenon DEF Outside
  <2> QED
    BY <2>1, RunFields DEF Good, Running, Busy
<1>2. run' = run
  BY Zenon DEF Outside
<1> DEFINE c == world.changes + 1
<1>3. c \in Nat
  BY <1>1 DEF Worlds
<1>4. ASSUME world' \in Worlds, Machines(world', run)
      PROVE  Good(world', run') /\ Outcome
  BY <1>1, <1>2, <1>4, Quiet DEF Good, Busy
<1>5. ASSUME run.profile = "nodes", NEW n \in Node,
             world.vm[n] = "running",
             world' = [world EXCEPT !.vm[n] = "stopped", !.changes = c]
      PROVE  world' \in Worlds /\ Machines(world', run)
  <2> DEFINE x == [world.vm EXCEPT ![n] = "stopped"]
  <2>1. world' = [world EXCEPT !.vm = x, !.changes = c]
    BY <1>5, Zenon
  <2>2. x \in [Node -> VmState]
    <3>1. world.vm \in [Node -> VmState] /\ "stopped" \in VmState
      BY <1>1, WorldFields DEF VmState
    <3> QED
      BY <3>1
  <2>3. \A o \in Node : x[o] = "absent" => world.vm[o] = "absent"
    <3>1. world.vm \in [Node -> VmState]
      BY <1>1, WorldFields
    <3> QED
      BY <3>1
  <2> HIDE DEF x, c
  <2>4. /\ world' \in Worlds /\ world'.vm = x
        /\ world'.snapshot = world.snapshot
    BY <1>1, <1>3, <2>1, <2>2 DEF Worlds
  <2>5. Machines(world', run)
    BY <1>1, <1>5, <2>3, <2>4 DEF Machines, Uniform
  <2> QED
    BY <2>4, <2>5
<1>6. ASSUME world' \in Worlds, world'.vm = world.vm,
             world'.snapshot = world.snapshot
      PROVE  world' \in Worlds /\ Machines(world', run)
  BY <1>1, <1>6 DEF Machines, Uniform
<1>7. ASSUME world' = [world EXCEPT !.config.others =
                                       world.config.others + 1,
                                    !.changes = c]
      PROVE  world' \in Worlds /\ Machines(world', run)
  <2> DEFINE x == [world.config EXCEPT !.others = world.config.others + 1]
  <2>1. world' = [world EXCEPT !.config = x, !.changes = c]
    BY <1>7, Zenon
  <2>2. x \in Config
    BY <1>1, WorldFields DEF Config
  <2> HIDE DEF x, c
  <2>3. /\ world' \in Worlds /\ world'.vm = world.vm
        /\ world'.snapshot = world.snapshot
    BY <1>1, <1>3, <2>1, <2>2 DEF Worlds
  <2> QED
    BY <1>6, <2>3
<1>8. ASSUME world' = [world EXCEPT !.built = world.built + 1, !.changes = c]
      PROVE  world' \in Worlds /\ Machines(world', run)
  <2> DEFINE x == world.built + 1
  <2>1. world' = [world EXCEPT !.built = x, !.changes = c]
    BY <1>8
  <2>2. x \in Nat
    BY <1>1 DEF Worlds
  <2> HIDE DEF x, c
  <2>3. /\ world' \in Worlds /\ world'.vm = world.vm
        /\ world'.snapshot = world.snapshot
    BY <1>1, <1>3, <2>1, <2>2 DEF Worlds
  <2> QED
    BY <1>6, <2>3
<1>9. ASSUME world' = [world EXCEPT !.elastic.data = world.elastic.data + 1,
                                    !.changes = c]
      PROVE  world' \in Worlds /\ Machines(world', run)
  <2> DEFINE x == [world.elastic EXCEPT !.data = world.elastic.data + 1]
  <2>1. world' = [world EXCEPT !.elastic = x, !.changes = c]
    BY <1>9, Zenon
  <2>2. x \in [data : Nat, copy : Nat]
    BY <1>1, WorldFields
  <2> HIDE DEF x, c
  <2>3. /\ world' \in Worlds /\ world'.vm = world.vm
        /\ world'.snapshot = world.snapshot
    BY <1>1, <1>3, <2>1, <2>2 DEF Worlds
  <2> QED
    BY <1>6, <2>3
<1>10. \/ /\ run.profile = "nodes"
          /\ \E n \in Node :
                /\ world.vm[n] = "running"
                /\ world' = [world EXCEPT !.vm[n] = "stopped", !.changes = c]
       \/ world' = [world EXCEPT !.config.others = world.config.others + 1,
                                 !.changes = c]
       \/ world' = [world EXCEPT !.built = world.built + 1, !.changes = c]
       \/ world' = [world EXCEPT !.elastic.data = world.elastic.data + 1,
                                 !.changes = c]
  BY Zenon DEF Outside
<1> HIDE DEF c
<1> QED
  <2>1. world' \in Worlds /\ Machines(world', run)
    BY <1>5, <1>7, <1>8, <1>9, <1>10, Zenon
  <2> QED
    BY <1>4, <2>1

\* The steps of a command at its start.
LEMMA ScriptAhead ==
    ASSUME NEW w, NEW v, NEW r \in Runs, r.owed = <<>>, r.script \in Name,
           \A n \in Node : n \notin r.missed => v.vm[n] = w.vm[n],
           \A n \in Existing(w) : v.vm[n] = w.vm[n],
           r.script = "services" => \A n \in Node : w.vm[n] = "running"
    PROVE  /\ Script(w, r.script) \in Seq(Calls)
           /\ Ahead(v, r, Script(w, r.script))
<1> DEFINE t == Script(w, r.script)
<1>1. t \in Seq(Calls) /\ \A s \in ToSet(t) : s[1] \in Kinds(r.script)
  BY ScriptMade DEF Made
<1>2. ASSUME r.script = "snapshot" PROVE SnapshotAhead(v, r, t)
  <2>1. t = SnapshotNodes(w)
    BY <1>2 DEF Script, NodeAction
  <2> QED
    BY <2>1, SnapshotBegins
<1>3. ASSUME r.script = "restore" PROVE RestoreAhead(v, r, t)
  <2>1. t = NodeAction(w, "restore")
    BY <1>3 DEF Script
  <2> QED
    BY <2>1, RestoreBegins
<1>4. ASSUME NEW u \in Seq(Calls) PROVE Ending(u, u)
  <2>1. Len(u) \in Nat
    OBVIOUS
  <2>2. \A i \in 1 .. Len(u) : (Len(u) - Len(u)) + i = i
    BY <2>1
  <2> QED
    BY <2>1, <2>2 DEF Ending
<1>5. ASSUME r.script = "zipkin" PROVE ZipkinAhead(v, r, t)
  <2>1. t = ZipkinUser /\ ZipkinUser \in Seq(Calls) /\ Len(ZipkinUser) = 7
    BY <1>5, ZipkinSteps DEF Script
  <2>2. ZipkinPart(v, r, 7)
    BY DEF ZipkinPart
  <2> QED
    BY <1>4, <2>1, <2>2 DEF ZipkinAhead
<1>6. ASSUME r.script = "pull" PROVE PullAhead(v, r, t)
  <2>1. /\ t = PullKubeconfig /\ PullKubeconfig \in Seq(Calls)
        /\ Len(PullKubeconfig) = 5
    BY <1>6, PullSteps DEF Script
  <2>2. PullPart(v, r, 5)
    BY DEF PullPart
  <2> QED
    BY <1>4, <2>1, <2>2 DEF PullAhead
<1>7. ASSUME r.script = "services" PROVE ServicesAhead(v, r, t)
  <2>1. Existing(w) = Node
    BY <1>7 DEF Existing
  <2>2. /\ t = ServicesSteps /\ ServicesSteps \in Seq(Calls)
        /\ Len(ServicesSteps) = 27
    BY <1>7, <2>1, ServicesLiteral, ServicesStepsAre DEF Script
  <2>3. ServicesPart(v, r, 27)
    BY DEF ServicesPart
  <2> QED
    BY <1>4, <2>2, <2>3 DEF ServicesAhead
<1> HIDE DEF t
<1>8. Ahead(v, r, t)
  BY <1>1, <1>2, <1>3, <1>5, <1>6, <1>7 DEF Ahead
<1> QED
  BY <1>1, <1>8 DEF t

LEMMA BeginGood ==
    ASSUME Bounds, Good(world, run), Begin
    PROVE  Good(world', run') /\ Outcome
<1>1. /\ world \in Worlds /\ run \in Runs /\ Machines(world, run)
      /\ ~Running /\ ~Busy(run) /\ run.state = "idle"
  BY RunFields DEF Good, Begin, Running, Busy
<1> DEFINE Started(name, value, missed) ==
              /\ missed # {} => name \in Asking /\ Trouble
              /\ Script(Seen(world, missed), name) # <<>>
              /\ run' = [Idle(run) EXCEPT
                            !.state = "body", !.script = name,
                            !.todo = Script(Seen(world, missed), name),
                            !.value = value, !.missed = missed,
                            !.ran = IF name = "snapshot"
                                    THEN In(world, {"running"}) ELSE {},
                            !.operations = @ + 1,
                            !.troubles = IF missed = {} THEN @ ELSE @ + 1]
<1>19. PICK name \in Commands(run.profile) :
          \E value \in IF name \in Valued THEN 1 .. MaxValues ELSE {None} :
          \E missed \in SUBSET Existing(world) : Started(name, value, missed)
  BY Zenon DEF Begin
<1>20. PICK value \in IF name \in Valued THEN 1 .. MaxValues ELSE {None} :
          \E missed \in SUBSET Existing(world) : Started(name, value, missed)
  BY <1>19, Zenon
<1>21. PICK missed \in SUBSET Existing(world) : Started(name, value, missed)
  BY <1>20, Zenon
<1> DEFINE i == Idle(run)
           b == "body"
           w == Seen(world, missed)
           t == Script(w, name)
           m == IF name = "snapshot" THEN In(world, {"running"}) ELSE {}
           o == i.operations + 1
           c == IF missed = {} THEN i.troubles ELSE i.troubles + 1
<1>2. /\ missed # {} => name \in Asking
      /\ t # <<>>
      /\ run' = [i EXCEPT !.state = b, !.script = name, !.todo = t,
                          !.value = value, !.missed = missed, !.ran = m,
                          !.operations = o, !.troubles = c]
  BY <1>21, Zenon
<1> HIDE DEF Started
<1>3. run.profile \in Profiles /\ name \in Name
  BY <1>1, CommandNames, RunFields
<1>4. value \in Nat /\ missed \in SUBSET Node
  BY DEF Bounds, None, Existing
<1>5. run' = [i EXCEPT !.state = b, !.script = name, !.todo = t,
                       !.value = value, !.missed = missed, !.ran = m,
                       !.operations = o, !.troubles = c]
  BY <1>2, Zenon
<1>22. /\ \A n \in Node : n \notin missed => world.vm[n] = w.vm[n]
       /\ \A n \in Existing(w) : world.vm[n] = w.vm[n]
  <2>1. w.vm = [n \in Node |-> IF n \in missed THEN "absent"
                               ELSE world.vm[n]]
    BY <1>1, WorldFields DEF Seen, Worlds
  <2>2. \A n \in Node : w.vm[n] = IF n \in missed THEN "absent"
                                  ELSE world.vm[n]
    BY <2>1
  <2> QED
    BY <2>2 DEF Existing
<1>6. /\ i \in Runs /\ i.profile = run.profile
      /\ i.owed = <<>> /\ i.errors = FALSE
      /\ i.asked = FALSE /\ i.complete = run.complete
  BY <1>1, IdleRun
<1>7. b \in {"idle", "body", "cleanup"} /\ b = "body"
  OBVIOUS
<1>8. t \in Seq(Calls) /\ t # <<>>
  BY <1>2, <1>3, ScriptMade DEF Made
<1>9. /\ m \in SUBSET Node /\ \A n \in m : world.vm[n] = "running"
  BY DEF In
<1>10. o \in Nat /\ c \in Nat
  <2>1. i.operations \in Nat /\ i.troubles \in Nat
    BY <1>6, RunFields
  <2> HIDE DEF i
  <2> QED
    BY <2>1
<1>11. t = Script(w, name)
  OBVIOUS
<1> HIDE DEF i, b, t, m, o, c, w
<1>12. name \in Name \cup {"none"}
  BY <1>3
<1>13. /\ run' \in Runs /\ run'.profile = i.profile /\ run'.script = name
       /\ run'.state = b /\ run'.todo = t /\ run'.owed = i.owed
       /\ run'.errors = i.errors /\ run'.asked = i.asked
       /\ run'.ran = m /\ run'.missed = missed
       /\ run'.complete = i.complete
  <2>1. i \in Runs
    BY <1>6
  <2> DEFINE u == [i EXCEPT !.state = b, !.script = name, !.todo = t]
  <2>2. run' = [u EXCEPT !.value = value, !.missed = missed, !.ran = m,
                         !.operations = o, !.troubles = c]
    BY <1>5, Zenon
  <2>3. u \in Runs
    BY <1>7, <1>8, <1>12, <2>1 DEF Runs
  <2>4. /\ u.profile = i.profile /\ u.script = name
        /\ u.state = b /\ u.todo = t /\ u.owed = i.owed
        /\ u.errors = i.errors /\ u.asked = i.asked
        /\ u.complete = i.complete
    BY <2>1, <2>3 DEF Runs
  <2> HIDE DEF u
  <2>5. run' \in Runs
    BY <1>4, <1>9, <1>10, <2>2, <2>3 DEF Runs
  <2> QED
    BY <2>2, <2>3, <2>4, <2>5 DEF Runs
<1>14. /\ world' \in Worlds /\ world'.vm = world.vm
       /\ world'.snapshot = world.snapshot
       /\ world'.tokens = {} /\ world'.archives = {} /\ world'.forwards = {}
       /\ ~world'.files
  <2> DEFINE z == {}
             f == FALSE
             g == [n \in Node |-> NoSnapshot]
  <2>1. world' = [world EXCEPT !.tokens = z, !.archives = z,
                               !.files = f, !.forwards = z, !.from = g]
    BY DEF Begin
  <2>2. /\ z \in SUBSET Arg /\ f \in BOOLEAN
    OBVIOUS
  <2>3. g \in [Node -> Cuts]
    BY DEF Cuts, NoSnapshot, None, Disk
  <2> HIDE DEF z, f, g
  <2>4. world' \in Worlds
    BY <1>1, <2>1, <2>2, <2>3 DEF Worlds
  <2>5. /\ world'.vm = world.vm
        /\ world'.snapshot = world.snapshot
        /\ world'.tokens = z /\ world'.archives = z /\ world'.forwards = z
        /\ world'.files = f
    BY <1>1, <2>1, <2>4 DEF Worlds
  <2> QED
    BY <2>4, <2>5 DEF z, f
<1>15. Formed(run')
  BY <1>3, <1>6, <1>7, <1>8, <1>13, Empty DEF Formed, Owed
<1>16. Machines(world', run')
  BY <1>1, <1>6, <1>13, <1>14 DEF Machines, Uniform
<1>17. Covered(world', run')
  BY <1>6, <1>9, <1>13, <1>14 DEF Covered
<1>18. Ahead(world', run', run'.todo)
  <2>1. run'.todo = Script(w, run'.script)
    BY <1>11, <1>13
  <2>2. run'.script \in Name /\ run'.owed = <<>>
    BY <1>3, <1>6, <1>13
  <2>3. run'.script = "services" => \A n \in Node : w.vm[n] = "running"
    <3>1. name = "services" => run.profile = "platform"
      BY <1>3, CommandNames DEF Profiles
    <3>2. name = "services" => missed = {}
      BY <1>2 DEF Asking
    <3> QED
      BY <1>1, <1>13, <1>22, <3>1, <3>2 DEF Machines
  <2>4. /\ \A n \in Node : n \notin run'.missed => world'.vm[n] = w.vm[n]
        /\ \A n \in Existing(w) : world'.vm[n] = w.vm[n]
    BY <1>13, <1>14, <1>22
  <2> QED
    BY <1>13, <2>1, <2>2, <2>3, <2>4, ScriptAhead
<1> QED
  BY <1>1, <1>7, <1>13, <1>14, <1>15, <1>16, <1>17, <1>18 DEF Good, Outcome

LEMMA InitGood == Init => IInv
<1> SUFFICES ASSUME Init PROVE Good(world, run)
  BY DEF IInv
<1>1. PICK profile \in Profiles :
         \E up \in IF profile = "nodes" THEN BOOLEAN
                  ELSE {profile = "platform"} :
            /\ run = [profile |-> profile, script |-> "none", state |-> "idle",
                      verdict |-> "none", outcome |-> "none", todo |-> <<>>,
                      owed |-> <<>>, errors |-> FALSE, masked |-> FALSE,
                      asked |-> FALSE, value |-> None, read |-> None,
                      ran |-> {}, missed |-> {}, config |-> NoConfig,
                      operations |-> 0, troubles |-> 0, complete |-> FALSE]
            /\ world =
                 [vm |-> [n \in Node |-> IF up THEN "running" ELSE "absent"],
                  disk |-> [n \in Node |-> IF up THEN {"prepared"} ELSE {}],
                  snapshot |-> [n \in Node |-> NoSnapshot],
                  from |-> [n \in Node |-> NoSnapshot], tokens |-> {},
                  config |-> NoConfig, backup |-> NoConfig,
                  operators |-> {}, kind |-> FALSE, forwards |-> {},
                  secret |-> [p \in {"postgres", "minio", "zipkin"} |->
                                [data |-> IF p = "zipkin" THEN 1 ELSE None,
                                 copy |-> None]],
                  elastic |-> [data |-> 1, copy |-> None],
                  user |-> None, files |-> FALSE, zipkin |-> None,
                  request |-> None, pod |-> "absent",
                  built |-> 1, images |-> [n \in Node |-> None],
                  archives |-> {},
                  served |-> [password |-> None, elastic |-> None],
                  changes |-> 0]
  BY Zenon DEF Init
<1>2. PICK up \in IF profile = "nodes" THEN BOOLEAN
                 ELSE {profile = "platform"} :
            /\ run = [profile |-> profile, script |-> "none", state |-> "idle",
                      verdict |-> "none", outcome |-> "none", todo |-> <<>>,
                      owed |-> <<>>, errors |-> FALSE, masked |-> FALSE,
                      asked |-> FALSE, value |-> None, read |-> None,
                      ran |-> {}, missed |-> {}, config |-> NoConfig,
                      operations |-> 0, troubles |-> 0, complete |-> FALSE]
            /\ world =
                 [vm |-> [n \in Node |-> IF up THEN "running" ELSE "absent"],
                  disk |-> [n \in Node |-> IF up THEN {"prepared"} ELSE {}],
                  snapshot |-> [n \in Node |-> NoSnapshot],
                  from |-> [n \in Node |-> NoSnapshot], tokens |-> {},
                  config |-> NoConfig, backup |-> NoConfig,
                  operators |-> {}, kind |-> FALSE, forwards |-> {},
                  secret |-> [p \in {"postgres", "minio", "zipkin"} |->
                                [data |-> IF p = "zipkin" THEN 1 ELSE None,
                                 copy |-> None]],
                  elastic |-> [data |-> 1, copy |-> None],
                  user |-> None, files |-> FALSE, zipkin |-> None,
                  request |-> None, pod |-> "absent",
                  built |-> 1, images |-> [n \in Node |-> None],
                  archives |-> {},
                  served |-> [password |-> None, elastic |-> None],
                  changes |-> 0]
  BY <1>1, Zenon
<1> DEFINE vm0 == [n \in Node |-> IF up THEN "running" ELSE "absent"]
           disk0 == [n \in Node |-> IF up THEN {"prepared"} ELSE {}]
           cuts0 == [n \in Node |-> NoSnapshot]
           secret0 == [p \in {"postgres", "minio", "zipkin"} |->
                         [data |-> IF p = "zipkin" THEN 1 ELSE None,
                          copy |-> None]]
           elastic0 == [data |-> 1, copy |-> None]
           images0 == [n \in Node |-> None]
           served0 == [password |-> None, elastic |-> None]
           config0 == NoConfig
           empty == {}
           todo0 == <<>>
<1>3. /\ vm0 \in [Node -> VmState] /\ disk0 \in [Node -> Disk]
      /\ cuts0 \in [Node -> Cuts] /\ images0 \in [Node -> Nat]
      /\ served0 \in [password : Nat, elastic : Nat]
      /\ elastic0 \in [data : Nat, copy : Nat] /\ config0 \in Config
      /\ empty \in SUBSET Arg /\ empty \in SUBSET Node
      /\ secret0 \in [Service -> [data : Nat, copy : Nat]]
  BY DEF VmState, Disk, Cuts, NoSnapshot, None, Config, NoConfig, Service
<1>4. todo0 \in Seq(Calls)
  BY EmptySeq
<1>5. "none" \in Verdict /\ 0 \in Nat /\ None \in Nat
  BY DEF Verdict, None
<1>6. /\ profile = "platform" => \A n \in Node : vm0[n] = "running"
      /\ \A n \in Node : cuts0[n].cut = None
  BY DEF NoSnapshot
<1>7. /\ run = [profile |-> profile, script |-> "none", state |-> "idle",
                verdict |-> "none", outcome |-> "none", todo |-> todo0,
                owed |-> todo0, errors |-> FALSE, masked |-> FALSE,
                asked |-> FALSE, value |-> None, read |-> None,
                ran |-> empty, missed |-> empty, config |-> config0,
                operations |-> 0, troubles |-> 0, complete |-> FALSE]
      /\ world =
           [vm |-> vm0, disk |-> disk0, snapshot |-> cuts0, from |-> cuts0,
            tokens |-> empty, config |-> config0, backup |-> config0,
            operators |-> empty, kind |-> FALSE, forwards |-> empty,
            secret |-> secret0, elastic |-> elastic0, user |-> None,
            files |-> FALSE, zipkin |-> None, request |-> None,
            pod |-> "absent", built |-> 1, images |-> images0,
            archives |-> empty, served |-> served0, changes |-> 0]
  BY <1>2, Zenon
<1>8. todo0 = <<>>
  OBVIOUS
<1> HIDE DEF vm0, disk0, cuts0, secret0, elastic0, images0, served0, config0,
         empty, todo0
<1>9. world \in Worlds
  BY <1>3, <1>5, <1>7 DEF Worlds
<1>10. run \in Runs
  BY <1>3, <1>4, <1>5, <1>7 DEF Runs
<1>11. /\ run.profile = profile /\ run.state = "idle" /\ run.todo = <<>>
       /\ run.owed = <<>> /\ run.complete = FALSE /\ world.vm = vm0
       /\ world.snapshot = cuts0
  BY <1>7, <1>8
<1>12. Formed(run)
  BY <1>11, Empty DEF Formed, Busy, Owed
<1>13. Machines(world, run)
  BY <1>6, <1>11 DEF Machines
<1> QED
  BY <1>9, <1>10, <1>11, <1>12, <1>13 DEF Good, Busy

\* What a command relies on holds after every step, and at its end what it
\* says is so.
LEMMA StepGood ==
    ASSUME Bounds, IInv, [Next]_vars PROVE IInv' /\ Outcome
<1>1. Good(world, run)
  BY DEF IInv
<1> SUFFICES Good(world', run') /\ Outcome
  BY DEF IInv
<1>2. CASE UNCHANGED vars
  BY <1>1, <1>2, Quiet DEF vars
<1>3. CASE Next
  BY <1>1, <1>3, BeginGood, PerformGood, RefuseGood, FailGood,
     InterruptGood, CutOffGood, KillGood, PodRunsGood, ForwardEndsGood,
     OutsideGood DEF Next
<1> QED
  BY <1>2, <1>3

LEMMA Invariance == ASSUME Bounds PROVE Spec => []IInv
<1>1. IInv /\ [Next]_vars => IInv'
  BY StepGood
<1> QED
  BY <1>1, InitGood, PTL DEF Spec

-----------------------------------------------------------------------------
(* What commands promise.                                                  *)

\* The end of a command that an operator can rely on.
LEMMA Reported ==
    ASSUME Bounds, IInv, [Next]_vars, Reports, run'.verdict \in Clean,
           Told(run, run'.verdict) \/ ~Untold
    PROVE  \E q \in Runs :
              /\ Keeps(q, run) /\ Owed(q) = {} /\ ~q.errors
              /\ Covered(world', q)
              /\ run'.verdict = "passed" => Ahead(world', q, <<>>)
<1>1. /\ Outcome /\ Running /\ run'.state = "idle" /\ ~run'.errors
  BY StepGood DEF Reports, Outcome, Settles, Untold
<1>2. PICK q \in Runs :
         /\ Keeps(q, run) /\ q.owed = <<>> /\ ~q.errors
         /\ Covered(world', q)
         /\ run'.verdict = "passed" => Ahead(world', q, <<>>)
  BY <1>1 DEF Outcome, Settles
<1>3. Owed(q) = {}
  BY <1>2, Empty DEF Owed
<1> QED
  BY <1>2, <1>3

LEMMA Typed == IInv => TypeOK
<1> SUFFICES ASSUME Good(world, run) PROVE TypeOK
  BY DEF IInv
<1>1. /\ world \in Worlds /\ run \in Runs
      /\ (run.state = "idle") <=> (run.todo = <<>>)
      /\ run.state = "idle" => run.owed = <<>>
  BY DEF Good, Formed
<1>2. /\ world.vm \in [Node -> VmState]
      /\ world.pod \in {"absent", "pending", "succeeded", "failed"}
      /\ run.state \in {"idle", "body", "cleanup"}
  BY <1>1, WorldFields, RunFields
<1> QED
  BY <1>1, <1>2 DEF TypeOK, VmState

LEMMA Resuming == ASSUME Bounds, IInv, [Next]_vars PROVE Resumed
<1> SUFFICES ASSUME Reports, run.script = "snapshot", run'.verdict \in Clean,
                    run'.verdict = "interrupted" => ~Untold,
                    NEW n \in run.ran
             PROVE  world'.vm[n] = "running"
  BY DEF Resumed
<1>3. Told(run, run'.verdict) \/ ~Untold
  BY DEF Told, Clean
<1>1. PICK q \in Runs : Keeps(q, run) /\ Owed(q) = {} /\ ~q.errors
                        /\ Covered(world', q)
  BY <1>3, Reported
<1>2. q.script = "snapshot" /\ n \in q.ran
  BY <1>1 DEF Keeps
<1> QED
  BY <1>1, <1>2 DEF Covered

LEMMA Passed ==
    ASSUME Bounds, IInv, [Next]_vars, Reports, run'.verdict = "passed"
    PROVE  \E q \in Runs : Keeps(q, run) /\ Ahead(world', q, <<>>)
<1>1. run'.verdict \in Clean /\ Told(run, run'.verdict)
  BY DEF Clean, Told
<1> QED
  BY <1>1, Reported

LEMMA Restoring == ASSUME Bounds, IInv, [Next]_vars PROVE RestoredTogether
<1> SUFFICES ASSUME Reports, run.script = "restore",
                    run'.verdict = "passed", run.complete,
                    NEW n \in Existing(world') \ run.missed,
                    NEW o \in Existing(world') \ run.missed
             PROVE  /\ world'.from[n].cut = world'.from[o].cut
                    /\ world'.from[n].quiet
  BY DEF RestoredTogether
<1>1. PICK q \in Runs : Keeps(q, run) /\ Ahead(world', q, <<>>)
  BY Passed
<1>2. q.script = "restore" /\ q.missed = run.missed
  BY <1>1 DEF Keeps
<1>3. RestoreAhead(world', q, <<>>)
  BY <1>1, <1>2 DEF Ahead
<1>4. \A m \in Existing(world') \ run.missed :
         /\ m \in Node /\ world'.from[m] = world'.snapshot[m]
         /\ world'.snapshot[m].cut # None
  BY <1>2, <1>3, Empty DEF RestoreAhead, Existing
<1>5. Good(world', run') /\ Settles(world', run, run') /\ run'.state = "idle"
  BY StepGood DEF IInv, Outcome, Reports
<1>6. run'.complete
  BY <1>5 DEF Settles
<1>7. Uniform(world')
  BY <1>5, <1>6 DEF Good, Machines, Busy
<1> QED
  BY <1>4, <1>7 DEF Uniform

LEMMA Cleaned == ASSUME Bounds, IInv, [Next]_vars PROVE ProtectedGone
<1> SUFFICES ASSUME Reports, run'.verdict \in Clean,
                    run'.verdict # "passed" => ~Untold
             PROVE  /\ world'.tokens = {} /\ world'.archives = {}
                    /\ ~world'.files /\ world'.forwards = {}
                    /\ run.asked =>
                          world'.request = None /\ world'.pod = "absent"
  BY DEF ProtectedGone
<1>3. Told(run, run'.verdict) \/ ~Untold
  BY DEF Told
<1>1. PICK q \in Runs : Keeps(q, run) /\ Owed(q) = {} /\ ~q.errors
                        /\ Covered(world', q)
  BY <1>3, Reported
<1>2. run.asked => q.asked
  BY <1>1 DEF Keeps
<1> QED
  BY <1>1, <1>2 DEF Covered

LEMMA ZipkinSets == ASSUME Bounds, IInv, [Next]_vars PROVE ZipkinDone
<1> SUFFICES ASSUME Reports, run.script = "zipkin", run'.verdict = "passed"
             PROVE  world'.zipkin = world'.secret["zipkin"].data
  BY DEF ZipkinDone
<1>1. PICK q \in Runs : Keeps(q, run) /\ Ahead(world', q, <<>>)
  BY Passed
<1>2. q.script = "zipkin"
  BY <1>1 DEF Keeps
<1>3. ZipkinPart(world', q, 0)
  BY <1>1, <1>2, Empty DEF Ahead, ZipkinAhead
<1> QED
  BY <1>3 DEF ZipkinPart

LEMMA Agreeing == ASSUME Bounds, IInv, [Next]_vars PROVE InStep
<1> SUFFICES ASSUME Reports, run.script = "services", run'.verdict = "passed"
             PROVE  /\ world'.user = run.value
                    /\ world'.secret["minio"] =
                          [data |-> run.value, copy |-> run.value]
                    /\ world'.served = [password |-> run.value,
                                        elastic |-> world'.elastic.data]
                    /\ \A n \in Existing(world') :
                          world'.images[n] = world'.built
  BY DEF InStep
<1>1. PICK q \in Runs : Keeps(q, run) /\ Ahead(world', q, <<>>)
  BY Passed
<1>2. q.script = "services" /\ q.value = run.value
  BY <1>1 DEF Keeps
<1>3. ServicesPart(world', q, 0)
  BY <1>1, <1>2, Empty DEF Ahead, ServicesAhead
<1>4. /\ world'.secret["minio"].data = q.value
      /\ world'.secret["minio"].copy = q.value
      /\ world'.user = q.value
      /\ world'.images["master"] = world'.built
      /\ world'.images["worker1"] = world'.built
      /\ world'.images["worker2"] = world'.built
      /\ world'.served =
            [password |-> q.value, elastic |-> world'.elastic.data]
  BY <1>3 DEF ServicesPart
<1>5. world'.secret["minio"] \in [data : Nat, copy : Nat]
  <2>1. world' \in Worlds
    BY StepGood DEF IInv, Good
  <2>2. world'.secret \in [Service -> [data : Nat, copy : Nat]]
    BY <2>1, WorldFields
  <2> QED
    BY <2>2 DEF Service
<1>6. world'.secret["minio"] = [data |-> run.value, copy |-> run.value]
  BY <1>2, <1>4, <1>5
<1>7. \A n \in Existing(world') : world'.images[n] = world'.built
  BY <1>4 DEF Existing, Node
<1> QED
  BY <1>2, <1>4, <1>6, <1>7

LEMMA Merging == ASSUME Bounds, IInv, [Next]_vars PROVE PreviousKept
<1> SUFFICES ASSUME run.script = "pull", world'.config # world.config, Running
             PROVE  /\ world'.config.others = world.config.others
                    /\ world.backup = world.config
  BY DEF PreviousKept
<1> DEFINE s == Head(run.todo)
           e == Effect(world, run, s)
<1>1. Good(world, run) /\ Busy(run) /\ world \in Worlds /\ run \in Runs
  BY DEF IInv, Good, Running, Busy
<1>2. world' = e
  <2>1. ASSUME Begin \/ Outside PROVE FALSE
    BY <2>1, Zenon DEF Begin, Outside
  <2>2. ASSUME Refuse \/ CutOff \/ Kill PROVE FALSE
    BY <2>2 DEF Refuse, CutOff, Kill
  <2>3. ASSUME PodRuns PROVE FALSE
    BY <1>1, <2>3 DEF PodRuns, Worlds
  <2>4. ASSUME ForwardEnds PROVE FALSE
    BY <1>1, <2>4 DEF ForwardEnds, Worlds
  <2>5. ASSUME Perform PROVE world' = e
    BY <2>5 DEF Perform
  <2>6. ASSUME Fail PROVE world' = e
    BY <2>6 DEF Fail
  <2>7. ASSUME Interrupt PROVE world' = e
    BY <2>7 DEF Interrupt
  <2>8. ASSUME UNCHANGED vars PROVE FALSE
    BY <2>8 DEF vars
  <2> HIDE DEF e, s
  <2> QED
    BY <2>1, <2>2, <2>3, <2>4, <2>5, <2>6, <2>7, <2>8 DEF Next
<1>3. /\ run.todo \in Seq(Calls) /\ run.todo # <<>> /\ s \in Calls
      /\ run.state = "body" => Ahead(world, run, run.todo)
      /\ run.state = "cleanup" => s[1] \in DebtKind
  BY <1>1, Next1
<1>4. PutsRest(world, world', s[1])
  BY <1>1, <1>2, <1>3, Effects DEF Puts
<1>5. Special(world, run, s, world')
  BY <1>1, <1>2, <1>3, Specials
<1>6. s[1] = "replaceConfig"
  BY <1>4 DEF PutsRest
<1>7. world'.config = [run.config EXCEPT !.qa = run.value]
  BY <1>5, <1>6 DEF Special
<1>8. run.state = "body"
  BY <1>1, <1>3, <1>6 DEF DebtKind, Busy
<1> DEFINE t == run.todo
           n == Len(run.todo)
<1>9. Ending(PullKubeconfig, t) /\ PullPart(world, run, n)
  BY <1>3, <1>8 DEF Ahead, PullAhead
<1>10. n \in 1 .. 5 /\ s = PullKubeconfig[(5 - n) + 1]
  <2>1. n \in Nat \ {0}
    BY <1>3, First
  <2>2. Head(t) = PullKubeconfig[(5 - n) + 1]
    BY <1>3, <1>9, PullSteps, Ended
  <2>3. n <= 5
    BY <1>9, PullSteps DEF Ending
  <2>4. s = Head(t)
    OBVIOUS
  <2> HIDE DEF n, s, t
  <2>5. n \in 1 .. 5
    BY <2>1, <2>3
  <2> QED
    BY <2>2, <2>4, <2>5, Zenon
<1> HIDE DEF n, s, t
<1>11. n = 1
  <2>1. CASE n = 5
    BY <1>6, <1>10, <2>1, PullSteps
  <2>2. CASE n = 4
    BY <1>6, <1>10, <2>2, PullSteps
  <2>3. CASE n = 3
    BY <1>6, <1>10, <2>3, PullSteps
  <2>4. CASE n = 2
    BY <1>6, <1>10, <2>4, PullSteps
  <2> QED
    BY <1>10, <2>1, <2>2, <2>3, <2>4
<1>12. PullPart(world, run, 1)
  BY <1>9, <1>11
<1>13. run.config = world.config /\ world.backup = world.config
  BY <1>12 DEF PullPart
<1>14. run.config \in Config
  BY <1>1, RunFields
<1> QED
  BY <1>7, <1>13, <1>14 DEF Config

-----------------------------------------------------------------------------
(* Machines, Pods and commands have one of the states that the steps of    *)
(* qa.py and cluster.py know, and a command that has ended owes nothing.   *)
THEOREM TypeCorrect == ASSUME Bounds PROVE Spec => []TypeOK
<1>1. Spec => []IInv
  BY Invariance
<1> QED
  BY <1>1, Typed, PTL

(* A snapshot command of qa.py that does not say that a resume failed has  *)
(* every machine running that ran when it began, however it ended.         *)
THEOREM MachinesResumed == ASSUME Bounds PROVE Spec => [][Resumed]_vars
<1>1. Spec => []IInv
  BY Invariance
<1>2. IInv /\ [Next]_vars => [Resumed]_vars
  BY Resuming
<1> QED
  BY <1>1, <1>2, PTL DEF Spec

(* What a restore that passes brings back is one cut: the snapshots of one *)
(* command that passed, none taken while any machine ran.                  *)
THEOREM Together == ASSUME Bounds PROVE Spec => [][RestoredTogether]_vars
<1>1. Spec => []IInv
  BY Invariance
<1>2. IInv /\ [Next]_vars => [RestoredTogether]_vars
  BY Restoring
<1> QED
  BY <1>1, <1>2, PTL DEF Spec

(* Join tokens, root credentials, Zipkin's request, image archives and     *)
(* forwards do not outlive the command that made them, unless it says so.  *)
THEOREM NothingKept == ASSUME Bounds PROVE Spec => [][ProtectedGone]_vars
<1>1. Spec => []IInv
  BY Invariance
<1>2. IInv /\ [Next]_vars => [ProtectedGone]_vars
  BY Cleaned
<1> QED
  BY <1>1, <1>2, PTL DEF Spec

(* Zipkin's user has the password of Zipkin's Secret when its setup        *)
(* passes: no Pod of an earlier command is taken for this one's.           *)
THEOREM ZipkinSet == ASSUME Bounds PROVE Spec => [][ZipkinDone]_vars
<1>1. Spec => []IInv
  BY Invariance
<1>2. IInv /\ [Next]_vars => [ZipkinDone]_vars
  BY ZipkinSets
<1> QED
  BY <1>1, <1>2, PTL DEF Spec

(* After the services aggregate that passes MinIO, both Secrets and the    *)
(* services that read one at their start agree, and every machine has the  *)
(* image that was built.                                                   *)
THEOREM AllInStep == ASSUME Bounds PROVE Spec => [][InStep]_vars
<1>1. Spec => []IInv
  BY Invariance
<1>2. IInv /\ [Next]_vars => [InStep]_vars
  BY Agreeing
<1> QED
  BY <1>1, <1>2, PTL DEF Spec

(* A merge into the operator's kubeconfig that fails or is cut short       *)
(* anywhere leaves it as it was or merged, and its backup what it was.     *)
THEOREM ConfigKept == ASSUME Bounds PROVE Spec => [][PreviousKept]_vars
<1>1. Spec => []IInv
  BY Invariance
<1>2. IInv /\ [Next]_vars => [PreviousKept]_vars
  BY Merging
<1> QED
  BY <1>1, <1>2, PTL DEF Spec
=============================================================================
