-------------------- MODULE ObservabilityAcceptanceProofs --------------------
(***************************************************************************)
(* What holds of the disposable telemetry checks for any number of scripts *)
(* started, of failures and signals, and of candidates.                    *)
(*                                                                         *)
(* The invariant says, of a script under way, what the rest of it relies   *)
(* on, part by part:                                                       *)
(*   body      a mark, the script's knowledge of the counter, stands, and  *)
(*             the steps that are left lead from it through the other      *)
(*             marks (a Floyd-Hoare outline of every script, proved once   *)
(*             with the composition of the parts it is written from); and  *)
(*             everything that exists was claimed by its name              *)
(*   teardown  the removal of everything that still exists is still ahead, *)
(*             until one removal failed                                    *)
(*   report    nothing is left, what the phase tested is proved, and the   *)
(*             identity, once read, is the one that was tested             *)
(* with the flow of samples between Product, Alloy and Prometheus, which   *)
(* the marks need at the steps that happen behind the script's back.       *)
(***************************************************************************)
EXTENDS MCAcceptance, SequenceTheorems, TLAPS

Bounds == MaxCandidates \in Nat \ {0}

-----------------------------------------------------------------------------
(* Types.                                                                  *)

\* What is claimed by name; the probe runs and is removed in one call.
Tracked == Container \ {"probe"}
Detail == {"", "none", "some", "1", "ready", "seeded", "traces and logs",
           "load", "resources", "overhead", "intervals", "metrics",
           "service", "series", "platform metric", "traces"}
Plain == {"judge", "follow", "own", "stop", "unfollow", "pause", "unpause",
          "pending", "exact", "latest", "rejected", "probe", "counted",
          "stored", "load", "post", "baseline", "identify", "same"}
Phases == Phase \cup {"aggregate"}
\* Steps of a script's body, of its teardown and of its report.
BodyStep == (Plain \X (Detail \cup {"product"}))
            \cup {<<"network", "create">>}
            \cup ({"start"} \X (Tracked \cup {"deaf"}))
            \cup ({"remove"} \X Tracked)
            \cup ({"discard", "write"} \X Phases)
TearStep == {<<"stop", "product">>, <<"unfollow", "product">>,
             <<"network", "remove">>} \cup ({"remove"} \X Container)
Step == BodyStep \cup TearStep

World == [containers : SUBSET Container, network : BOOLEAN,
          follower : BOOLEAN, paused : BOOLEAN, deaf : BOOLEAN,
          made : Nat, held : Nat, sent : Nat, stored : Nat,
          rejected : BOOLEAN, candidate : 1 .. MaxCandidates,
          evidence : [Phases -> 0 .. MaxCandidates]]
Run == [state : {"idle", "body", "teardown", "report"},
        script : {"none", "ingestion", "acceptance"} \cup Phases,
        verdict : {"none", "passed", "failed", "left over", "killed"},
        outcome : {"none", "passed", "failed"}, todo : Seq(Step),
        claimed : SUBSET Tracked, network : BOOLEAN, follows : BOOLEAN,
        owns : BOOLEAN, probing : BOOLEAN, errors : BOOLEAN,
        baseline : Nat, identity : 0 .. MaxCandidates,
        tested : 0 .. MaxCandidates,
        profile : {"ingestion", "acceptance", "phases"},
        proved : SUBSET (Phase \X (0 .. MaxCandidates)),
        operations : Nat, troubles : Nat]

-----------------------------------------------------------------------------
(* The proof outline of the scripts.  A mark says what the script knows of *)
(* the counter between two steps:                                          *)
(*   gone     Product is not up                                            *)
(*   drained  ... and Alloy holds nothing of it                            *)
(*   clean    ... and Prometheus neither                                   *)
(*   fresh    Product counted nothing                                      *)
(*   first    Product counted one request                                  *)
(*   settled  Prometheus has everything that Product counted               *)
(*   noted    ... when the script noted it as its baseline                 *)
(*   loaded   Product counted one request since the baseline               *)
(*   named    the aggregate has read the identity of the candidate         *)
(*   agreed   ... and every phase's evidence names it                      *)
Mark == {"gone", "drained", "clean", "fresh", "first", "settled", "noted",
         "loaded", "named", "agreed"}
Stands(a, w, r) ==
    /\ a \in {"gone", "drained", "clean"} => "product" \notin w.containers
    /\ a \in {"drained", "clean"} => w.held = 0
    /\ a = "clean" => w.stored = 0
    /\ a = "fresh" => w.made = 0
    /\ a = "first" => w.made = 1
    /\ a = "settled" => w.stored = w.made
    /\ a = "noted" => w.made = r.baseline
    /\ a = "loaded" => w.made = r.baseline + 1
    /\ a \in {"named", "agreed"} => r.identity # None
    /\ a = "agreed" => \A p \in Phase : w.evidence[p] = r.identity

\* A step leads from one mark to another.
Quiet == {"judge", "follow", "own", "stop", "unfollow", "pause", "unpause",
          "pending", "exact", "latest", "rejected", "probe"}
Stays(a, s) ==
    \/ s[1] \in Quiet
    \/ s = <<"network", "create">>
    \/ s[1] = "start" /\ s[2] # "product"
    \/ s = <<"remove", "stores">>
    \/ s[1] = "discard" /\ a = "clean"
    \/ s = <<"remove", "alloy">> /\ a \in {"noted", "gone"}
    \/ s = <<"remove", "prometheus">> /\ a = "gone"
    \/ s = <<"write", "aggregate">> /\ a = "agreed"
Moves(a, s, b) ==
    \/ s = <<"start", "product">> /\ a = "clean" /\ b = "fresh"
    \/ s[1] = "load" /\ a = "fresh" /\ b = "first"
    \/ s[1] = "load" /\ a = "noted" /\ b = "loaded"
    \/ s[1] = "stored" /\ a = "first" /\ b = "settled"
    \/ s[1] = "baseline" /\ a = "settled" /\ b = "noted"
    \/ s[1] = "counted" /\ a = "loaded" /\ b = "settled"
    \/ s = <<"remove", "product">> /\ b = "gone"
    \/ s = <<"remove", "alloy">> /\ a = "gone" /\ b = "drained"
    \/ s = <<"remove", "prometheus">> /\ a = "drained" /\ b = "clean"
    \/ s[1] = "post" /\ a \in {"clean", "gone"} /\ b = "gone"
    \/ s[1] = "identify" /\ a = "clean" /\ b = "named"
    \/ s[1] = "same" /\ a = "named" /\ b = "agreed"
Takes(a, s, b) ==
    /\ a \in Mark /\ b \in Mark /\ s \in BodyStep
    /\ (Stays(a, s) /\ a = b) \/ Moves(a, s, b)
\* A sequence of steps leads from one mark to another.
Leads(a, steps, b) ==
    /\ steps \in Seq(BodyStep)
    /\ \E m \in [1 .. Len(steps) + 1 -> Mark] :
          /\ m[1] = a /\ m[Len(steps) + 1] = b
          /\ \A n \in 1 .. Len(steps) : Takes(m[n], steps[n], m[n + 1])
Outlined(a, steps) == \E b \in Mark : Leads(a, steps, b)

-----------------------------------------------------------------------------
(* Leading: composition, tuples, the first step.                           *)

LEMMA LeadsConcat ==
    ASSUME NEW a, NEW b, NEW c, NEW s, NEW t, Leads(a, s, b), Leads(b, t, c)
    PROVE  Leads(a, s \o t, c)
<1>1. s \in Seq(BodyStep) /\ t \in Seq(BodyStep)
  BY DEF Leads
<1>2. PICK m \in [1 .. Len(s) + 1 -> Mark] :
          /\ m[1] = a /\ m[Len(s) + 1] = b
          /\ \A n \in 1 .. Len(s) : Takes(m[n], s[n], m[n + 1])
  BY DEF Leads
<1>3. PICK k \in [1 .. Len(t) + 1 -> Mark] :
          /\ k[1] = b /\ k[Len(t) + 1] = c
          /\ \A n \in 1 .. Len(t) : Takes(k[n], t[n], k[n + 1])
  BY DEF Leads
<1> DEFINE u == s \o t
           j == [n \in 1 .. Len(u) + 1 |->
                    IF n <= Len(s) THEN m[n] ELSE k[n - Len(s)]]
<1>4. /\ Len(s) \in Nat /\ Len(t) \in Nat /\ u \in Seq(BodyStep)
      /\ Len(u) = Len(s) + Len(t)
      /\ \A n \in 1 .. Len(u) : u[n] = IF n <= Len(s) THEN s[n]
                                       ELSE t[n - Len(s)]
  BY <1>1, ConcatProperties, LenProperties
<1> HIDE DEF u
<1>5. j \in [1 .. Len(u) + 1 -> Mark]
  BY <1>2, <1>3, <1>4
<1>6. j[1] = a /\ j[Len(u) + 1] = c
  BY <1>2, <1>3, <1>4
<1>7. ASSUME NEW n \in 1 .. Len(u) PROVE Takes(j[n], u[n], j[n + 1])
  <2>1. CASE n < Len(s)
    <3>1. /\ n + 1 \in 1 .. Len(u) + 1 /\ n + 1 <= Len(s) /\ n <= Len(s)
          /\ n \in 1 .. Len(s) /\ n \in 1 .. Len(u) + 1
      BY <1>4, <2>1
    <3>2. j[n] = m[n] /\ j[n + 1] = m[n + 1] /\ u[n] = s[n]
      BY <1>4, <3>1
    <3>3. Takes(m[n], s[n], m[n + 1])
      BY <1>2, <3>1
    <3> QED
      BY <3>2, <3>3
  <2>2. CASE n = Len(s)
    <3>1. /\ n + 1 \in 1 .. Len(u) + 1 /\ ~(n + 1 <= Len(s))
          /\ (n + 1) - Len(s) = 1 /\ n \in 1 .. Len(s)
      BY <1>4, <2>2
    <3>2. j[n] = m[n] /\ j[n + 1] = b /\ u[n] = s[n] /\ m[n + 1] = b
      BY <1>2, <1>3, <1>4, <2>2, <3>1
    <3>3. Takes(m[n], s[n], m[n + 1])
      BY <1>2, <3>1
    <3> QED
      BY <3>2, <3>3
  <2>3. CASE n > Len(s)
    <3>1. /\ n - Len(s) \in 1 .. Len(t)
          /\ j[n] = k[n - Len(s)] /\ u[n] = t[n - Len(s)]
          /\ j[n + 1] = k[(n - Len(s)) + 1]
      BY <1>4, <2>3
    <3> QED
      BY <3>1, <1>3
  <2> QED
    BY <1>4, <2>1, <2>2, <2>3
<1> QED
  BY <1>4, <1>5, <1>6, <1>7 DEF Leads, u

\* Only an empty sequence leads nowhere.
LEMMA LeadsNonEmpty ==
    ASSUME NEW a, NEW s, NEW b, Leads(a, s, b), a # b
    PROVE  s # <<>>
<1> SUFFICES ASSUME s = <<>> PROVE FALSE
  OBVIOUS
<1>1. PICK m \in [1 .. Len(s) + 1 -> Mark] : m[1] = a /\ m[Len(s) + 1] = b
  BY DEF Leads
<1> QED
  BY <1>1

LEMMA LeadsHead ==
    ASSUME NEW a, NEW s, NEW c, Leads(a, s, c), s # <<>>
    PROVE  /\ Head(s) \in BodyStep
           /\ \E b \in Mark : Takes(a, Head(s), b) /\ Leads(b, Tail(s), c)
<1>1. PICK m \in [1 .. Len(s) + 1 -> Mark] :
          /\ m[1] = a /\ m[Len(s) + 1] = c
          /\ \A n \in 1 .. Len(s) : Takes(m[n], s[n], m[n + 1])
  BY DEF Leads
<1>2. /\ s \in Seq(BodyStep) /\ Len(s) \in Nat \ {0} /\ Head(s) = s[1]
      /\ Head(s) \in BodyStep /\ Tail(s) \in Seq(BodyStep)
      /\ Len(Tail(s)) = Len(s) - 1
      /\ \A n \in 1 .. Len(Tail(s)) : Tail(s)[n] = s[n + 1]
  BY HeadTailProperties, EmptySeq DEF Leads
<1> DEFINE k == [n \in 1 .. Len(Tail(s)) + 1 |-> m[n + 1]]
<1>3. k \in [1 .. Len(Tail(s)) + 1 -> Mark]
  BY <1>1, <1>2
<1>4. k[1] = m[2] /\ k[Len(Tail(s)) + 1] = c
  BY <1>1, <1>2
<1>5. ASSUME NEW n \in 1 .. Len(Tail(s))
      PROVE Takes(k[n], Tail(s)[n], k[n + 1])
  <2>1. /\ k[n] = m[n + 1] /\ k[n + 1] = m[(n + 1) + 1]
        /\ n + 1 \in 1 .. Len(s) /\ Tail(s)[n] = s[n + 1]
    BY <1>2
  <2> QED
    BY <1>1, <2>1
<1>6. Leads(m[2], Tail(s), c)
  BY <1>2, <1>3, <1>4, <1>5 DEF Leads
<1>7. Takes(a, Head(s), m[2]) /\ m[2] \in Mark
  BY <1>1, <1>2
<1> QED
  BY <1>2, <1>6, <1>7

LEMMA Leads1 == ASSUME NEW a, NEW b, NEW x, Takes(a, x, b)
                PROVE  Leads(a, <<x>>, b)
<1> DEFINE m == <<a, b>>
<1>1. m \in [1 .. 2 -> Mark] /\ m[1] = a /\ m[2] = b /\ <<x>> \in Seq(BodyStep)
  BY DEF Takes
<1> QED
  BY <1>1 DEF Leads

LEMMA Leads2 ==
    ASSUME NEW a, NEW b, NEW c, NEW x, NEW y, Takes(a, x, b), Takes(b, y, c)
    PROVE  Leads(a, <<x, y>>, c)
<1> DEFINE m == <<a, b, c>>
           s == <<x, y>>
<1>1. /\ m \in [1 .. 3 -> Mark] /\ m[1] = a /\ m[2] = b /\ m[3] = c
      /\ s \in Seq(BodyStep) /\ Len(s) = 2 /\ s[1] = x /\ s[2] = y
  BY DEF Takes
<1>2. \A n \in 1 .. 2 : Takes(m[n], s[n], m[n + 1])
  BY <1>1
<1> HIDE DEF m, s
<1>3. Leads(a, s, c)
  BY <1>1, <1>2 DEF Leads
<1> QED
  BY <1>3 DEF s

LEMMA Leads3 ==
    ASSUME NEW a, NEW b, NEW c, NEW d, NEW x, NEW y, NEW z,
           Takes(a, x, b), Takes(b, y, c), Takes(c, z, d)
    PROVE  Leads(a, <<x, y, z>>, d)
<1>1. <<x, y, z>> = <<x>> \o <<y, z>>
  OBVIOUS
<1> QED
  BY <1>1, Leads1, Leads2, LeadsConcat

LEMMA Leads4 ==
    ASSUME NEW a, NEW b, NEW c, NEW d, NEW e,
           NEW x, NEW y, NEW z, NEW v,
           Takes(a, x, b), Takes(b, y, c), Takes(c, z, d), Takes(d, v, e)
    PROVE  Leads(a, <<x, y, z, v>>, e)
<1>1. <<x, y, z, v>> = <<x, y>> \o <<z, v>>
  OBVIOUS
<1> QED
  BY <1>1, Leads2, LeadsConcat

LEMMA Leads5 ==
    ASSUME NEW a, NEW b, NEW c, NEW d, NEW e, NEW f,
           NEW x, NEW y, NEW z, NEW v, NEW w,
           Takes(a, x, b), Takes(b, y, c), Takes(c, z, d), Takes(d, v, e),
           Takes(e, w, f)
    PROVE  Leads(a, <<x, y, z, v, w>>, f)
<1>1. <<x, y, z, v, w>> = <<x, y, z>> \o <<v, w>>
  OBVIOUS
<1> QED
  BY <1>1, Leads2, Leads3, LeadsConcat

LEMMA Leads7 ==
    ASSUME NEW a, NEW b, NEW c, NEW d, NEW e, NEW f, NEW g, NEW h,
           NEW x, NEW y, NEW z, NEW v, NEW w, NEW u, NEW t,
           Takes(a, x, b), Takes(b, y, c), Takes(c, z, d), Takes(d, v, e),
           Takes(e, w, f), Takes(f, u, g), Takes(g, t, h)
    PROVE  Leads(a, <<x, y, z, v, w, u, t>>, h)
<1>1. <<x, y, z, v, w, u, t>> = <<x, y, z, v>> \o <<w, u, t>>
  OBVIOUS
<1> QED
  BY <1>1, Leads4, Leads3, LeadsConcat

-----------------------------------------------------------------------------
(* The steps of the scripts and the marks between them.                    *)

LEMMA Stay ==
    ASSUME NEW a \in Mark
    PROVE  /\ \A k \in Quiet, d \in Detail \cup {"product"} :
                  Takes(a, <<k, d>>, a)
           /\ \A c \in {"stores", "postgres", "prometheus", "alloy", "deaf"} :
                  Takes(a, <<"start", c>>, a)
           /\ Takes(a, <<"network", "create">>, a)
           /\ Takes(a, <<"remove", "stores">>, a)
<1>1. ASSUME NEW k \in Quiet, NEW d \in Detail \cup {"product"}
      PROVE  Takes(a, <<k, d>>, a)
  BY DEF Takes, Stays, Quiet, BodyStep, Plain
<1>2. ASSUME NEW c \in {"stores", "postgres", "prometheus", "alloy", "deaf"}
      PROVE  Takes(a, <<"start", c>>, a)
  BY DEF Takes, Stays, BodyStep, Tracked, Container
<1>3. Takes(a, <<"network", "create">>, a)
  BY DEF Takes, Stays, BodyStep
<1>4. Takes(a, <<"remove", "stores">>, a)
  BY DEF Takes, Stays, BodyStep, Tracked, Container
<1> QED
  BY <1>1, <1>2, <1>3, <1>4

LEMMA Counting ==
    /\ Takes("clean", <<"start", "product">>, "fresh")
    /\ Takes("fresh", <<"load", "">>, "first")
    /\ Takes("first", <<"stored", "1">>, "settled")
    /\ Takes("settled", <<"baseline", "">>, "noted")
    /\ Takes("noted", <<"load", "">>, "loaded")
    /\ Takes("loaded", <<"counted", "">>, "settled")
    /\ Takes("clean", <<"post", "">>, "gone")
    /\ Takes("gone", <<"post", "">>, "gone")
  BY DEF Takes, Moves, Stays, Mark, BodyStep, Plain, Detail, Tracked,
         Container

LEMMA Removing ==
    /\ \A a \in Mark : Takes(a, <<"remove", "product">>, "gone")
    /\ Takes("gone", <<"remove", "alloy">>, "drained")
    /\ Takes("gone", <<"remove", "alloy">>, "gone")
    /\ Takes("noted", <<"remove", "alloy">>, "noted")
    /\ Takes("drained", <<"remove", "prometheus">>, "clean")
    /\ Takes("gone", <<"remove", "prometheus">>, "gone")
  BY DEF Takes, Moves, Stays, Mark, BodyStep, Tracked, Container

LEMMA Evidence ==
    /\ \A p \in Phases : Takes("clean", <<"discard", p>>, "clean")
    /\ Takes("clean", <<"identify", "">>, "named")
    /\ Takes("named", <<"same", "">>, "agreed")
    /\ Takes("agreed", <<"write", "aggregate">>, "agreed")
  BY DEF Takes, Moves, Stays, Mark, BodyStep, Plain, Detail, Phases

LEMMA Judged ==
    ASSUME NEW a \in Mark
    PROVE  /\ Leads(a, Seeded, a) /\ Leads(a, TracesAndLogs, a)
           /\ Leads(a, VerifyLoad, a) /\ Leads(a, VerifyResources, a)
           /\ Leads(a, VerifyOverhead, a) /\ Leads(a, Intervals, a)
           /\ Leads(a, ServiceMetrics, a) /\ Leads(a, ServiceBackends, a)
<1>1. \A d \in Detail : Takes(a, <<"judge", d>>, a)
  BY Stay DEF Quiet
<1>2. \A d \in Detail : Leads(a, <<<<"judge", d>>>>, a)
  BY <1>1, Leads1
<1>3. Leads(a, ServiceMetrics, a) /\ Leads(a, <<<<"judge", "service">>>>, a)
  BY <1>2 DEF ServiceMetrics, Detail
<1> QED
  BY <1>2, <1>3, LeadsConcat
     DEF Seeded, TracesAndLogs, VerifyLoad, VerifyResources, VerifyOverhead,
         Intervals, ServiceBackends, Detail

LEMMA Starts ==
    /\ Leads("clean", StartBackends, "clean")
    /\ Leads("clean", Prepared, "clean")
    /\ Leads("clean", StartProduct, "fresh")
    /\ \A a \in Mark : Leads(a, StopProduct, "gone")
<1>0. "clean" \in Mark /\ "fresh" \in Mark
  BY DEF Mark
<1>1. Leads("clean", StartBackends, "clean")
  BY <1>0, Stay, Leads3 DEF StartBackends
<1>2. Leads("clean", Prepared, "clean")
  <2>1. Leads("clean", <<<<"network", "create">>, <<"start", "postgres">>>>,
              "clean")
    BY <1>0, Stay, Leads2
  <2> QED
    BY <2>1, <1>0, Judged, LeadsConcat DEF Prepared
<1>3. Leads("clean", StartProduct, "fresh")
  <2>1. /\ Takes("fresh", <<"follow", "product">>, "fresh")
        /\ Takes("fresh", <<"judge", "ready">>, "fresh")
        /\ Takes("fresh", <<"own", "product">>, "fresh")
    BY <1>0, Stay DEF Quiet, Detail
  <2> QED
    BY <2>1, Counting, Leads4 DEF StartProduct
<1>4. ASSUME NEW a \in Mark PROVE Leads(a, StopProduct, "gone")
  <2>1. /\ Takes(a, <<"stop", "product">>, a)
        /\ Takes(a, <<"unfollow", "product">>, a)
    BY Stay DEF Quiet
  <2> QED
    BY <2>1, Removing, Leads3 DEF StopProduct
<1> QED
  BY <1>1, <1>2, <1>3, <1>4

LEMMA Measures ==
    /\ Leads("settled", VerifyFreshness, "settled")
    /\ Leads("settled", VerifyInputs, "settled")
    /\ Leads("settled", RecoveryMarker, "settled")
    /\ Leads("fresh", HealthyLoad, "first")
    /\ Leads("first", VerifyBackends, "settled")
    /\ Leads("fresh", Primer, "settled")
<1>0. "settled" \in Mark /\ "first" \in Mark /\ "loaded" \in Mark
  BY DEF Mark
<1>1. Leads("settled", <<<<"baseline", "">>, <<"load", "">>>>, "loaded")
  BY Counting, Leads2
<1>2. Leads("loaded", <<<<"counted", "">>>>, "settled")
  BY Counting, Leads1
<1>3. Leads("settled", <<<<"baseline", "">>, <<"load", "">>>>
                            \o TracesAndLogs, "loaded")
  BY <1>0, <1>1, Judged, LeadsConcat
<1>4. Leads("settled", RecoveryMarker, "settled")
  BY <1>2, <1>3, LeadsConcat DEF RecoveryMarker
<1>5. Leads("settled", VerifyFreshness, "settled")
  BY <1>2, <1>3, LeadsConcat DEF VerifyFreshness
<1>6. Leads("settled", VerifyInputs, "settled")
  <2>1. Takes("settled", <<"judge", "series">>, "settled")
    BY <1>0, Stay DEF Quiet, Detail
  <2> QED
    BY <2>1, Counting, Leads4 DEF VerifyInputs
<1>7. Leads("fresh", HealthyLoad, "first")
  <2>1. Leads("fresh", <<<<"load", "">>>>, "first")
    BY Counting, Leads1
  <2>2. Leads("fresh", <<<<"load", "">>>> \o VerifyLoad, "first")
    BY <2>1, <1>0, Judged, LeadsConcat
  <2> QED
    BY <2>2, <1>0, Judged, LeadsConcat DEF HealthyLoad
<1>8. Leads("first", VerifyBackends, "settled")
  <2>1. Leads("first", <<<<"stored", "1">>>>, "settled")
    BY Counting, Leads1
  <2>2. Leads("first", <<<<"stored", "1">>>> \o TracesAndLogs, "settled")
    BY <2>1, <1>0, Judged, LeadsConcat
  <2> QED
    BY <2>2, <1>0, Judged, LeadsConcat DEF VerifyBackends
<1>9. Leads("fresh", Primer, "settled")
  BY Counting, Leads2 DEF Primer
<1> QED
  BY <1>4, <1>5, <1>6, <1>7, <1>8, <1>9

LEMMA Disturbances ==
    /\ Leads("settled", Outage, "settled")
    /\ Leads("settled", Replacement, "settled")
<1>0. /\ "settled" \in Mark /\ "noted" \in Mark /\ "loaded" \in Mark
  BY DEF Mark
<1>1. /\ Takes("noted", <<"pause", "">>, "noted")
      /\ Takes("loaded", <<"unpause", "">>, "loaded")
      /\ Takes("loaded", <<"pending", "none">>, "loaded")
      /\ Takes("settled", <<"exact", "">>, "settled")
      /\ Takes("loaded", <<"start", "alloy">>, "loaded")
      /\ Takes("settled", <<"judge", "platform metric">>, "settled")
  BY <1>0, Stay DEF Quiet, Detail
<1>2. Leads("settled",
            <<<<"baseline", "">>, <<"pause", "">>, <<"load", "">>,
              <<"unpause", "">>, <<"pending", "none">>, <<"counted", "">>,
              <<"exact", "">>>>, "settled")
  BY <1>1, Counting, Leads7
<1>3. Leads("settled",
            <<<<"baseline", "">>, <<"remove", "alloy">>, <<"load", "">>,
              <<"start", "alloy">>, <<"pending", "none">>, <<"counted", "">>,
              <<"exact", "">>>>, "settled")
  BY <1>1, Counting, Removing, Leads7
<1>4. Leads("settled", <<<<"judge", "platform metric">>>>, "settled")
  BY <1>1, Leads1
<1>5. Leads("settled", TracesAndLogs, "settled")
  BY <1>0, Judged
<1>6. Leads("settled", RecoveryMarker, "settled")
  BY Measures
<1>7. Leads("settled", Outage, "settled")
  BY <1>2, <1>5, <1>6, LeadsConcat DEF Outage
<1>8. Leads("settled", Replacement, "settled")
  BY <1>3, <1>4, <1>5, <1>6, LeadsConcat DEF Replacement
<1> QED
  BY <1>7, <1>8

LEMMA Chain3 ==
    ASSUME NEW a, NEW b, NEW c, NEW d, NEW s, NEW t, NEW u,
           Leads(a, s, b), Leads(b, t, c), Leads(c, u, d)
    PROVE  Leads(a, s \o t \o u, d)
  BY LeadsConcat

LEMMA Chain4 ==
    ASSUME NEW a, NEW b, NEW c, NEW d, NEW e, NEW s, NEW t, NEW u, NEW v,
           Leads(a, s, b), Leads(b, t, c), Leads(c, u, d), Leads(d, v, e)
    PROVE  Leads(a, s \o t \o u \o v, e)
  BY LeadsConcat, Chain3

LEMMA Pairs ==
    /\ Leads("clean", OverheadPair, "gone")
    /\ Leads("gone", ResetBackends, "clean")
<1>0. "first" \in Mark /\ "clean" \in Mark
  BY DEF Mark
<1>1. Leads("clean", OverheadPair, "gone")
  <2>1. Leads("fresh", <<<<"load", "">>>>, "first")
    BY Counting, Leads1
  <2>2. Leads("clean", StartProduct \o <<<<"load", "">>>> \o VerifyLoad
                           \o VerifyResources, "first")
    BY <2>1, <1>0, Starts, Judged, Chain4
  <2> QED
    BY <2>2, <1>0, Starts, LeadsConcat DEF OverheadPair
<1>2. Leads("gone", ResetBackends, "clean")
  <2>1. Leads("gone", <<<<"remove", "alloy">>, <<"remove", "prometheus">>,
                         <<"remove", "stores">>>>, "clean")
    BY <1>0, Removing, Stay, Leads3
  <2> QED
    BY <2>1, Starts, LeadsConcat DEF ResetBackends
<1> QED
  BY <1>1, <1>2

LEMMA BodiesOutlined ==
    /\ Leads("clean", OverheadPhase, "gone")
    /\ Leads("clean", HealthyPhase, "gone")
    /\ Leads("clean", RecoveryPhase, "gone")
    /\ Leads("clean", AcceptanceScript, "gone")
<1>0. "settled" \in Mark /\ "gone" \in Mark
  BY DEF Mark
<1>1. Leads("clean", OverheadPhase, "gone")
  BY Starts, Pairs, Chain3 DEF OverheadPhase
<1>2. Leads("clean", Prepared \o StartBackends \o StartProduct, "fresh")
  BY Starts, Chain3
<1>3. Leads("clean", HealthyPhase, "gone")
  <2>1. Leads("clean", Prepared \o StartBackends \o StartProduct
                           \o HealthyLoad \o VerifyBackends, "settled")
    BY <1>2, Measures, Chain3
  <2> QED
    BY <2>1, <1>0, Starts, LeadsConcat DEF HealthyPhase
<1>4. Leads("clean", RecoveryPhase, "gone")
  <2>1. Leads("clean", Prepared \o StartBackends \o StartProduct
                           \o Primer \o VerifyFreshness, "settled")
    BY <1>2, Measures, Chain3
  <2>2. Leads("clean", Prepared \o StartBackends \o StartProduct
                           \o Primer \o VerifyFreshness \o VerifyInputs
                           \o Outage, "settled")
    BY <2>1, Measures, Disturbances, Chain3
  <2> QED
    BY <2>2, <1>0, Disturbances, Starts, Chain3 DEF RecoveryPhase
<1>5. Leads("clean", AcceptanceScript, "gone")
  <2>1. Leads("clean", Prepared \o StartBackends \o OverheadPair, "gone")
    BY Starts, Pairs, Chain3
  <2>2. Leads("clean", Prepared \o StartBackends \o OverheadPair
                           \o VerifyOverhead \o ResetBackends, "clean")
    BY <2>1, <1>0, Judged, Pairs, Chain3
  <2>3. Leads("clean", Prepared \o StartBackends \o OverheadPair
                           \o VerifyOverhead \o ResetBackends
                           \o StartProduct \o HealthyLoad, "first")
    BY <2>2, Starts, Measures, Chain3
  <2>4. Leads("clean", Prepared \o StartBackends \o OverheadPair
                           \o VerifyOverhead \o ResetBackends
                           \o StartProduct \o HealthyLoad
                           \o VerifyBackends \o VerifyFreshness, "settled")
    BY <2>3, Measures, Chain3
  <2>5. Leads("clean", Prepared \o StartBackends \o OverheadPair
                           \o VerifyOverhead \o ResetBackends
                           \o StartProduct \o HealthyLoad
                           \o VerifyBackends \o VerifyFreshness
                           \o VerifyInputs \o Outage, "settled")
    BY <2>4, Measures, Disturbances, Chain3
  <2> QED
    BY <2>5, <1>0, Disturbances, Starts, Chain3 DEF AcceptanceScript
<1> QED
  BY <1>1, <1>3, <1>4, <1>5

LEMMA Leads10 ==
    ASSUME NEW m0, NEW m1, NEW m2, NEW m3, NEW m4, NEW m5, NEW m6, NEW m7,
           NEW m8, NEW m9, NEW m10,
           NEW x1, NEW x2, NEW x3, NEW x4, NEW x5, NEW x6, NEW x7, NEW x8,
           NEW x9, NEW x10,
           Takes(m0, x1, m1), Takes(m1, x2, m2), Takes(m2, x3, m3), Takes(m3,
           x4, m4), Takes(m4, x5, m5), Takes(m5, x6, m6), Takes(m6, x7, m7),
           Takes(m7, x8, m8), Takes(m8, x9, m9), Takes(m9, x10, m10)
    PROVE  Leads(m0, <<x1, x2, x3, x4, x5, x6, x7, x8, x9, x10>>, m10)
<1>1. <<x1, x2, x3, x4, x5, x6, x7, x8, x9, x10>>
          = <<x1, x2, x3, x4, x5>> \o <<x6, x7, x8, x9, x10>>
  OBVIOUS
<1>2. Leads(m0, <<x1, x2, x3, x4, x5>>, m5)
  BY Leads5
<1>3. Leads(m5, <<x6, x7, x8, x9, x10>>, m10)
  BY Leads5
<1> QED
  BY <1>1, <1>2, <1>3, LeadsConcat

LEMMA Cut12 ==
    ASSUME NEW a, NEW b, NEW c, NEW x1, NEW x2, NEW x3, NEW x4, NEW x5,
           NEW x6, NEW x7, NEW x8, NEW x9, NEW x10, NEW x11, NEW x12,
           Leads(a, <<x1, x2, x3, x4, x5>>, b),
           Leads(b, <<x6, x7, x8, x9, x10, x11, x12>>, c)
    PROVE  Leads(a, <<x1, x2, x3, x4, x5, x6, x7, x8, x9, x10, x11, x12>>, c)
<1>1. <<x1, x2, x3, x4, x5, x6, x7, x8, x9, x10, x11, x12>>
          = <<x1, x2, x3, x4, x5>> \o <<x6, x7, x8, x9, x10, x11, x12>>
  OBVIOUS
<1> QED
  BY <1>1, LeadsConcat

LEMMA Ingestion ==
    Leads("clean", IngestionScript \o IngestionOutage \o Probe, "gone")
<1>0. "clean" \in Mark /\ "gone" \in Mark
  BY DEF Mark
<1>1. ASSUME NEW a \in Mark
      PROVE  /\ Takes(a, <<"rejected", "none">>, a)
             /\ Takes(a, <<"rejected", "some">>, a)
             /\ Takes(a, <<"pending", "none">>, a)
             /\ Takes(a, <<"pending", "some">>, a)
             /\ Takes(a, <<"latest", "">>, a)
             /\ Takes(a, <<"probe", "">>, a)
             /\ Takes(a, <<"judge", "traces">>, a)
             /\ Takes(a, <<"start", "stores">>, a)
             /\ Takes(a, <<"start", "deaf">>, a)
             /\ Takes(a, <<"start", "alloy">>, a)
             /\ Takes(a, <<"start", "prometheus">>, a)
             /\ Takes(a, <<"network", "create">>, a)
  <2>1. \A k \in Quiet, d \in Detail : Takes(a, <<k, d>>, a)
    BY Stay
  <2> QED
    BY <2>1, Stay DEF Quiet, Detail
<1>2. /\ Takes("clean", <<"post", "">>, "gone")
      /\ Takes("gone", <<"post", "">>, "gone")
      /\ Takes("gone", <<"remove", "alloy">>, "gone")
      /\ Takes("gone", <<"remove", "prometheus">>, "gone")
  BY Counting, Removing
<1>3. /\ Takes("clean", <<"network", "create">>, "clean")
      /\ Takes("clean", <<"start", "stores">>, "clean")
      /\ Takes("clean", <<"start", "deaf">>, "clean")
      /\ Takes("clean", <<"start", "alloy">>, "clean")
      /\ Takes("clean", <<"rejected", "none">>, "clean")
      /\ Takes("gone", <<"rejected", "some">>, "gone")
      /\ Takes("gone", <<"start", "prometheus">>, "gone")
      /\ Takes("gone", <<"start", "alloy">>, "gone")
      /\ Takes("gone", <<"latest", "">>, "gone")
      /\ Takes("gone", <<"judge", "traces">>, "gone")
      /\ Takes("gone", <<"pending", "none">>, "gone")
      /\ Takes("gone", <<"pending", "some">>, "gone")
  BY <1>0, <1>1
<1>6. Leads("clean", IngestionScript, "gone")
  <2>1. Leads("clean",
              <<<<"network", "create">>, <<"start", "stores">>,
                <<"start", "deaf">>, <<"start", "alloy">>,
                <<"rejected", "none">>>>, "clean")
    BY <1>3, Leads5
  <2>2. Leads("clean",
              <<<<"post", "">>, <<"rejected", "some">>,
                <<"remove", "prometheus">>, <<"start", "prometheus">>,
                <<"post", "">>, <<"latest", "">>, <<"judge", "traces">>>>,
              "gone")
    BY <1>2, <1>3, Leads7
  <2> QED
    BY <2>1, <2>2, Cut12, Zenon DEF IngestionScript
<1>10. Leads("gone", IngestionOutage, "gone")
  BY <1>2, <1>3, Leads10 DEF IngestionOutage
<1>11. Leads("gone", Probe, "gone")
  <2>1. Leads("gone", <<<<"probe", "">>>>, "gone")
    BY <1>0, <1>1, Leads1
  <2> QED
    BY <2>1, <1>0, Judged, LeadsConcat DEF Probe
<1> QED
  BY <1>6, <1>10, <1>11, Chain3

\* Every script that is started is outlined.
LEMMA ScriptsOutlined ==
    ASSUME NEW s \in {"ingestion", "acceptance"} \cup Phases
    PROVE  Outlined("clean", Script(s)) /\ Script(s) # <<>>
<1>0. "clean" \in Mark /\ "gone" \in Mark /\ "agreed" \in Mark
  BY DEF Mark
<1>1. CASE s = "ingestion"
  <2>1. Script(s) = IngestionScript \o IngestionOutage \o Probe
    BY <1>1 DEF Script
  <2> QED
    BY <2>1, <1>0, Ingestion, LeadsNonEmpty DEF Outlined
<1>2. CASE s = "acceptance"
  <2>1. Script(s) = AcceptanceScript
    BY <1>2 DEF Script
  <2> QED
    BY <2>1, <1>0, BodiesOutlined, LeadsNonEmpty DEF Outlined
<1>3. CASE s = "aggregate"
  <2>1. Script(s) = Aggregate
    BY <1>3 DEF Script
  <2>2. /\ Takes("clean", <<"discard", "aggregate">>, "clean")
        /\ Takes("agreed", <<"judge", "overhead">>, "agreed")
    BY <1>0, Evidence, Stay DEF Phases, Quiet, Detail
  <2>3. Leads("clean", Aggregate, "agreed")
    BY <2>2, Evidence, Leads5 DEF Aggregate
  <2> QED
    BY <2>1, <2>3, <1>0, LeadsNonEmpty DEF Outlined
<1>4. CASE s \in Phase
  <2>1. Script(s) = PhaseScript(s)
    BY <1>4 DEF Script, Phase
  <2>2. Leads("clean", <<<<"discard", s>>>>, "clean")
    BY <1>4, Evidence, Leads1 DEF Phases
  <2>3. PICK t : PhaseScript(s) = <<<<"discard", s>>>> \o t
                 /\ t \in {OverheadPhase, HealthyPhase, RecoveryPhase}
    BY <1>4 DEF PhaseScript, Phase
  <2>4. Leads("clean", PhaseScript(s), "gone")
    BY <2>2, <2>3, BodiesOutlined, LeadsConcat
  <2> QED
    BY <2>1, <2>4, <1>0, LeadsNonEmpty DEF Outlined
<1> QED
  BY <1>1, <1>2, <1>3, <1>4 DEF Phases

-----------------------------------------------------------------------------
(* The invariant.                                                          *)

\* No sample is sent that Alloy did not get, none stored that was not made.
Flow(w) ==
    /\ w.sent <= w.held /\ w.held <= w.made /\ w.stored <= w.made
    /\ w.held = 0 \/ w.stored <= w.held
Has(t, s) == \E n \in 1 .. Len(t) : t[n] = s
Empty(w) == w.containers = {} /\ ~w.network
\* What exists was claimed by its name.
Covered(w, r) ==
    /\ w.containers \subseteq
           r.claimed \cup (IF r.probing THEN {"probe"} ELSE {})
    /\ w.network => r.network

Body(w, r) ==
    /\ ~r.errors /\ w.containers \subseteq r.claimed /\ (w.network => r.network)
    /\ \E a \in Mark : Stands(a, w, r) /\ Outlined(a, r.todo)
\* The removal of everything that exists is still ahead, until one failed.
Ahead(w, t) ==
    /\ \A c \in w.containers : Has(t, <<"remove", c>>)
    /\ w.network => Has(t, <<"network", "remove">>)
Tears(w, r) ==
    /\ r.todo \in Seq(TearStep) /\ r.outcome \in {"passed", "failed"}
    /\ ~r.errors => Ahead(w, r.todo)
Writes(w, r) ==
    /\ Empty(w) /\ r.script \in Phase /\ <<r.script, r.tested>> \in r.proved
    /\ \/ r.todo = WriteEvidence(r.script)
       \/ /\ r.todo = <<<<"write", r.script>>>>
          /\ ~Rebuilds => r.identity = r.tested

Coherent(w, r) ==
    /\ (r.state = "idle") <=> (r.todo = <<>>)
    /\ r.state = "body" => Body(w, r)
    /\ r.state = "teardown" => Tears(w, r)
    /\ r.state = "report" => Writes(w, r)
    /\ r.state = "idle" /\ r.verdict \in {"passed", "failed"} => Empty(w)
\* What the evidence files name was proved: EvidenceTrue.
Truth(w, r) ==
    /\ \A p \in Phase : w.evidence[p] # None =>
          <<p, w.evidence[p]>> \in r.proved
    /\ LET c == w.evidence["aggregate"]
       IN c # None => \A p \in Phase : <<p, c>> \in r.proved
\* A candidate that is not replaced during a script.
Firm(w, r) ==
    ~Rebuilds =>
        /\ r.state # "idle" => w.candidate = r.tested
        /\ Truth(w, r)
Good(w, r) == /\ w \in World /\ r \in Run
              /\ Flow(w) /\ Coherent(w, r) /\ Firm(w, r)
IInv == Good(world, run)

-----------------------------------------------------------------------------
(* What a step does.                                                       *)

LEMMA StepIs ==
    ASSUME NEW s \in Step
    PROVE  /\ s[1] \in Plain \cup {"network", "start", "remove", "discard",
                                   "write"}
           /\ s[1] = "start" => s[2] \in Tracked \cup {"deaf"}
           /\ s[1] = "remove" => s[2] \in Container
           /\ s[1] \in {"discard", "write"} => s[2] \in Phases
           /\ s = <<s[1], s[2]>>
<1>1. CASE s \in Plain \X (Detail \cup {"product"})
  BY <1>1 DEF Plain
<1>2. CASE s \in {"start"} \X (Tracked \cup {"deaf"})
  BY <1>2
<1>3. CASE s \in {"remove"} \X Container
  BY <1>3
<1>4. CASE s \in {"discard", "write"} \X Phases
  BY <1>4
<1>5. CASE s \in {<<"stop", "product">>, <<"unfollow", "product">>,
                  <<"network", "remove">>, <<"network", "create">>}
  BY <1>5 DEF Plain
<1> QED
  BY <1>1, <1>2, <1>3, <1>4, <1>5 DEF Step, BodyStep, TearStep, Tracked

\* What stays the same in the script when a step is taken.
Alike(r, q) ==
    /\ q.state = r.state /\ q.script = r.script /\ q.outcome = r.outcome
    /\ q.todo = r.todo /\ q.errors = r.errors /\ q.tested = r.tested
    /\ q.proved = r.proved /\ q.verdict = r.verdict

LEMMA ClaimedOK ==
    ASSUME NEW r \in Run, NEW s \in Step
    PROVE  LET q == Claimed(r, s)
           IN /\ q \in Run /\ Alike(r, q) /\ q.probing = r.probing
              /\ q.baseline = r.baseline /\ q.identity = r.identity
              /\ r.claimed \subseteq q.claimed /\ (r.network => q.network)
              /\ s[1] = "start" =>
                    (IF s[2] = "deaf" THEN "prometheus" ELSE s[2]) \in q.claimed
              /\ s[1] = "network" => q.network
<1>1. CASE s[1] = "start"
  <2> DEFINE c == IF s[2] = "deaf" THEN "prometheus" ELSE s[2]
             k == r.claimed \cup {c}
             q == [r EXCEPT !.claimed = k]
  <2>1. c \in Tracked
    BY <1>1, StepIs DEF Tracked, Container
  <2>2. k \in SUBSET Tracked
    BY <2>1 DEF Run
  <2>3. Claimed(r, s) = q
    BY <1>1 DEF Claimed
  <2>4. r.claimed \subseteq k /\ c \in k
    OBVIOUS
  <2> HIDE DEF k
  <2>5. q \in Run /\ Alike(r, q) /\ q.probing = r.probing
        /\ q.baseline = r.baseline /\ q.identity = r.identity
        /\ q.claimed = k /\ q.network = r.network
    BY <2>2 DEF Run, Alike
  <2> QED
    BY <1>1, <2>3, <2>4, <2>5
<1>2. CASE s[1] = "network"
  <2> DEFINE q == [r EXCEPT !.network = TRUE]
  <2>1. Claimed(r, s) = q
    BY <1>2 DEF Claimed
  <2>2. q \in Run /\ Alike(r, q) /\ q.probing = r.probing
        /\ q.baseline = r.baseline /\ q.identity = r.identity
        /\ q.claimed = r.claimed /\ q.network
    BY DEF Run, Alike
  <2> QED
    BY <1>2, <2>1, <2>2
<1>3. CASE s[1] \notin {"start", "network"}
  BY <1>3 DEF Claimed, Alike
<1> QED
  BY <1>1, <1>2, <1>3

LEMMA LearnsOK ==
    ASSUME NEW w \in World, NEW r \in Run, NEW s \in Step, Bounds
    PROVE  LET q == Learns(w, r, s)
           IN /\ q \in Run /\ Alike(r, q) /\ q.probing = r.probing
              /\ q.baseline = IF s[1] = "baseline" THEN w.stored
                              ELSE r.baseline
              /\ q.identity = IF s[1] = "identify" THEN w.candidate
                              ELSE r.identity
              /\ q.claimed = CASE s[1] = "remove" -> r.claimed \ {s[2]}
                               [] OTHER -> Claimed(r, s).claimed
              /\ q.network = Claimed(r, s).network
<1>1. CASE s[1] = "baseline"
  <2> DEFINE q == [r EXCEPT !.baseline = w.stored]
  <2>1. Learns(w, r, s) = q /\ Claimed(r, s) = r
    BY <1>1 DEF Learns, Claimed, Total
  <2>2. w.stored \in Nat
    BY DEF World
  <2>3. q \in Run /\ Alike(r, q) /\ q.probing = r.probing
        /\ q.baseline = w.stored /\ q.identity = r.identity
        /\ q.claimed = r.claimed /\ q.network = r.network
    BY <2>2 DEF Run, Alike
  <2> QED
    BY <1>1, <2>1, <2>3
<1>2. CASE s[1] = "identify"
  <2> DEFINE q == [r EXCEPT !.identity = w.candidate]
  <2>1. Learns(w, r, s) = q /\ Claimed(r, s) = r
    BY <1>2 DEF Learns, Claimed
  <2>2. w.candidate \in 0 .. MaxCandidates
    BY DEF World, Bounds
  <2>3. q \in Run /\ Alike(r, q) /\ q.probing = r.probing
        /\ q.baseline = r.baseline /\ q.identity = w.candidate
        /\ q.claimed = r.claimed /\ q.network = r.network
    BY <2>2 DEF Run, Alike
  <2> QED
    BY <1>2, <2>1, <2>3
<1>3. CASE s[1] = "follow"
  <2> DEFINE q == [r EXCEPT !.follows = TRUE]
  <2>1. Learns(w, r, s) = q /\ Claimed(r, s) = r
    BY <1>3 DEF Learns, Claimed
  <2>3. q \in Run /\ Alike(r, q) /\ q.probing = r.probing
        /\ q.baseline = r.baseline /\ q.identity = r.identity
        /\ q.claimed = r.claimed /\ q.network = r.network
    BY DEF Run, Alike
  <2> QED
    BY <1>3, <2>1, <2>3
<1>4. CASE s[1] = "own"
  <2> DEFINE q == [r EXCEPT !.owns = TRUE]
  <2>1. Learns(w, r, s) = q /\ Claimed(r, s) = r
    BY <1>4 DEF Learns, Claimed
  <2>3. q \in Run /\ Alike(r, q) /\ q.probing = r.probing
        /\ q.baseline = r.baseline /\ q.identity = r.identity
        /\ q.claimed = r.claimed /\ q.network = r.network
    BY DEF Run, Alike
  <2> QED
    BY <1>4, <2>1, <2>3
<1>5. CASE s[1] = "remove"
  <2> DEFINE k == r.claimed \ {s[2]}
             f == r.follows /\ s[2] # "product"
             o == r.owns /\ s[2] # "product"
             q == [r EXCEPT !.claimed = k, !.follows = f, !.owns = o]
  <2>1. Learns(w, r, s) = q /\ Claimed(r, s) = r
    BY <1>5 DEF Learns, Claimed
  <2>2. k \in SUBSET Tracked /\ f \in BOOLEAN /\ o \in BOOLEAN
    BY DEF Run
  <2>4. k = r.claimed \ {s[2]}
    OBVIOUS
  <2> HIDE DEF k, f, o
  <2>3. q \in Run /\ Alike(r, q) /\ q.probing = r.probing
        /\ q.baseline = r.baseline /\ q.identity = r.identity
        /\ q.claimed = k /\ q.network = r.network
    BY <2>2 DEF Run, Alike
  <2> QED
    BY <1>5, <2>1, <2>3, <2>4
<1>6. CASE s[1] \notin {"baseline", "identify", "follow", "own", "remove"}
  <2>1. Learns(w, r, s) = Claimed(r, s)
    BY <1>6 DEF Learns
  <2> QED
    BY <1>6, <2>1, ClaimedOK
<1> QED
  BY <1>1, <1>2, <1>3, <1>4, <1>5, <1>6

Launched(s) == IF s[2] = "deaf" THEN "prometheus" ELSE s[2]
\* What Docker and the evidence files are after a step.
Becomes(w, r, s, v) ==
    /\ v \in World /\ v.candidate = w.candidate
    /\ v.containers = IF s[1] = "start" THEN w.containers \cup {Launched(s)}
                      ELSE IF s[1] = "remove" THEN w.containers \ {s[2]}
                      ELSE w.containers
    /\ IF s[1] = "network" THEN v.network <=> s[2] = "create"
       ELSE v.network = w.network
    /\ v.made = IF s[1] \in {"load", "post"} THEN w.made + 1
                ELSE IF s = <<"start", "product">> THEN 0 ELSE w.made
    /\ v.held = IF s[1] = "post" THEN w.made + 1
                ELSE IF s = <<"remove", "alloy">> THEN 0 ELSE w.held
    /\ v.sent = IF s = <<"remove", "alloy">> THEN 0 ELSE w.sent
    /\ v.stored = IF s = <<"remove", "prometheus">> THEN 0 ELSE w.stored
    /\ v.evidence = IF s[1] = "discard" THEN [w.evidence EXCEPT ![s[2]] = 0]
                    ELSE IF s[1] = "write"
                    THEN [w.evidence EXCEPT ![s[2]] = r.identity]
                    ELSE w.evidence

LEMMA StartBecomes ==
    ASSUME NEW w \in World, NEW r \in Run, NEW s \in Step, s[1] = "start"
    PROVE  Becomes(w, r, s, Started(w, s[2]))
<1>1. s[2] \in Tracked \cup {"deaf"} /\ s = <<"start", s[2]>>
  BY StepIs
<1> DEFINE k == w.containers \cup {Launched(s)}
<1>2. k \in SUBSET Container
  BY <1>1 DEF World, Tracked, Container, Launched
<1>3. CASE s[2] = "deaf"
  <2> DEFINE v == [w EXCEPT !.containers = k, !.deaf = TRUE]
  <2>1. Started(w, s[2]) = v
    BY <1>3 DEF Started, Launched
  <2>2. k = w.containers \cup {Launched(s)}
    OBVIOUS
  <2> HIDE DEF k
  <2>3. /\ v \in World /\ v.candidate = w.candidate /\ v.containers = k
        /\ v.network = w.network /\ v.made = w.made /\ v.held = w.held
        /\ v.sent = w.sent /\ v.stored = w.stored
        /\ v.evidence = w.evidence
    BY <1>2 DEF World
  <2> HIDE DEF v
  <2> QED
    BY <1>1, <1>3, <2>1, <2>2, <2>3 DEF Becomes
<1>4. CASE s[2] = "product"
  <2> DEFINE v == [w EXCEPT !.containers = k, !.made = 0]
  <2>1. Started(w, s[2]) = v
    BY <1>4 DEF Started, Launched
  <2>2. k = w.containers \cup {Launched(s)}
    OBVIOUS
  <2> HIDE DEF k
  <2>3. /\ v \in World /\ v.candidate = w.candidate /\ v.containers = k
        /\ v.network = w.network /\ v.made = 0 /\ v.held = w.held
        /\ v.sent = w.sent /\ v.stored = w.stored
        /\ v.evidence = w.evidence
    BY <1>2 DEF World
  <2> HIDE DEF v
  <2> QED
    BY <1>1, <1>4, <2>1, <2>2, <2>3 DEF Becomes
<1>5. CASE s[2] \notin {"product", "deaf"}
  <2> DEFINE v == [w EXCEPT !.containers = k]
  <2>1. Started(w, s[2]) = v
    BY <1>5 DEF Started, Launched
  <2>2. k = w.containers \cup {Launched(s)}
    OBVIOUS
  <2> HIDE DEF k
  <2>3. /\ v \in World /\ v.candidate = w.candidate /\ v.containers = k
        /\ v.network = w.network /\ v.made = w.made /\ v.held = w.held
        /\ v.sent = w.sent /\ v.stored = w.stored
        /\ v.evidence = w.evidence
    BY <1>2 DEF World
  <2> HIDE DEF v
  <2> QED
    BY <1>1, <1>5, <2>1, <2>2, <2>3 DEF Becomes
<1> QED
  BY <1>3, <1>4, <1>5

LEMMA RemoveBecomes ==
    ASSUME NEW w \in World, NEW r \in Run, NEW s \in Step, s[1] = "remove"
    PROVE  Becomes(w, r, s, Removed(w, s[2]))
<1>1. s[2] \in Container /\ s = <<"remove", s[2]>>
  BY StepIs
<1> DEFINE k == w.containers \ {s[2]}
<1>2. k \in SUBSET Container
  BY DEF World
<1>3. CASE s[2] = "prometheus"
  <2> DEFINE u == [w EXCEPT !.containers = k, !.stored = 0]
             v == [u EXCEPT !.deaf = FALSE, !.paused = FALSE]
  <2>1. Removed(w, s[2]) = v
    BY <1>3 DEF Removed, None, World
  <2>2. k = w.containers \ {s[2]}
    OBVIOUS
  <2> HIDE DEF k
  <2>3. /\ u \in World /\ u.candidate = w.candidate /\ u.containers = k
        /\ u.network = w.network /\ u.made = w.made /\ u.held = w.held
        /\ u.sent = w.sent /\ u.stored = 0 /\ u.evidence = w.evidence
    BY <1>2 DEF World
  <2> HIDE DEF u
  <2>4. /\ v \in World /\ v.candidate = u.candidate
        /\ v.containers = u.containers
        /\ v.network = u.network /\ v.made = u.made /\ v.held = u.held
        /\ v.sent = u.sent /\ v.stored = u.stored
        /\ v.evidence = u.evidence
    BY <2>3 DEF World
  <2> HIDE DEF v
  <2> QED
    BY <1>1, <1>3, <2>1, <2>2, <2>3, <2>4 DEF Becomes
<1>4. CASE s[2] = "alloy"
  <2> DEFINE u == [w EXCEPT !.containers = k, !.held = 0]
             v == [u EXCEPT !.sent = 0, !.rejected = FALSE]
  <2>1. Removed(w, s[2]) = v
    BY <1>4 DEF Removed, None, World
  <2>2. k = w.containers \ {s[2]}
    OBVIOUS
  <2> HIDE DEF k
  <2>3. /\ u \in World /\ u.candidate = w.candidate /\ u.containers = k
        /\ u.network = w.network /\ u.made = w.made /\ u.held = 0
        /\ u.sent = w.sent /\ u.stored = w.stored
        /\ u.evidence = w.evidence
    BY <1>2 DEF World
  <2> HIDE DEF u
  <2>4. /\ v \in World /\ v.candidate = u.candidate
        /\ v.containers = u.containers
        /\ v.network = u.network /\ v.made = u.made /\ v.held = u.held
        /\ v.sent = 0 /\ v.stored = u.stored
        /\ v.evidence = u.evidence
    BY <2>3 DEF World
  <2> HIDE DEF v
  <2> QED
    BY <1>1, <1>4, <2>1, <2>2, <2>3, <2>4 DEF Becomes
<1>5. CASE s[2] \notin {"prometheus", "alloy"}
  <2> DEFINE v == [w EXCEPT !.containers = k]
  <2>1. Removed(w, s[2]) = v
    BY <1>5 DEF Removed, World
  <2>2. k = w.containers \ {s[2]}
    OBVIOUS
  <2> HIDE DEF k
  <2>3. /\ v \in World /\ v.candidate = w.candidate /\ v.containers = k
        /\ v.network = w.network /\ v.made = w.made /\ v.held = w.held
        /\ v.sent = w.sent /\ v.stored = w.stored
        /\ v.evidence = w.evidence
    BY <1>2 DEF World
  <2> HIDE DEF v
  <2> QED
    BY <1>1, <1>5, <2>1, <2>2, <2>3 DEF Becomes
<1> QED
  BY <1>3, <1>4, <1>5

\* The telemetry and the evidence.
LEMMA CountBecomes ==
    ASSUME NEW w \in World, NEW r \in Run, NEW s \in Step,
           s[1] \in {"load", "post", "discard", "write"}, Bounds
    PROVE  Becomes(w, r, s, Effect(w, r, s))
<1>0. /\ s = <<s[1], s[2]>>
      /\ s # <<"start", "product">> /\ s # <<"remove", "alloy">>
      /\ s # <<"remove", "prometheus">>
  BY StepIs
<1>1. CASE s[1] = "load"
  <2> DEFINE v == [w EXCEPT !.made = w.made + 1]
  <2>1. Effect(w, r, s) = v
    BY <1>1 DEF Effect
  <2>2. /\ v \in World /\ v.candidate = w.candidate
        /\ v.containers = w.containers
        /\ v.network = w.network /\ v.made = w.made + 1 /\ v.held = w.held
        /\ v.sent = w.sent /\ v.stored = w.stored
        /\ v.evidence = w.evidence
    BY DEF World
  <2> HIDE DEF v
  <2> QED
    BY <1>0, <1>1, <2>1, <2>2 DEF Becomes
<1>2. CASE s[1] = "post"
  <2> DEFINE n == w.made + 1
             v == [w EXCEPT !.made = n, !.held = n]
  <2>1. Effect(w, r, s) = v
    BY <1>2 DEF Effect
  <2>3. n = w.made + 1 /\ n \in Nat
    BY DEF World
  <2> HIDE DEF n
  <2>2. /\ v \in World /\ v.candidate = w.candidate
        /\ v.containers = w.containers
        /\ v.network = w.network /\ v.made = n /\ v.held = n
        /\ v.sent = w.sent /\ v.stored = w.stored
        /\ v.evidence = w.evidence
    BY <2>3 DEF World
  <2> HIDE DEF v
  <2> QED
    BY <1>0, <1>2, <2>1, <2>2, <2>3 DEF Becomes
<1>3. CASE s[1] \in {"discard", "write"}
  <2> DEFINE n == IF s[1] = "discard" THEN 0 ELSE r.identity
             e == [w.evidence EXCEPT ![s[2]] = n]
             v == [w EXCEPT !.evidence = e]
  <2>1. Effect(w, r, s) = v
    BY <1>3 DEF Effect, None
  <2>5. n \in 0 .. MaxCandidates
    <3>1. r.identity \in 0 .. MaxCandidates
      BY DEF Run
    <3>2. 0 \in 0 .. MaxCandidates
      BY DEF Bounds
    <3> QED
      BY <3>1, <3>2
  <2>2. e \in [Phases -> 0 .. MaxCandidates]
    <3> HIDE DEF n
    <3> QED
      BY <2>5 DEF World
  <2>3. /\ s[1] = "discard" => e = [w.evidence EXCEPT ![s[2]] = 0]
        /\ s[1] = "write" => e = [w.evidence EXCEPT ![s[2]] = r.identity]
    OBVIOUS
  <2> HIDE DEF e
  <2>4. /\ v \in World /\ v.candidate = w.candidate
        /\ v.containers = w.containers
        /\ v.network = w.network /\ v.made = w.made /\ v.held = w.held
        /\ v.sent = w.sent /\ v.stored = w.stored
        /\ v.evidence = e
    BY <2>2 DEF World
  <2> HIDE DEF v
  <2> QED
    BY <1>0, <1>3, <2>1, <2>3, <2>4 DEF Becomes
<1> QED
  BY <1>1, <1>2, <1>3

LEMMA EffectBecomes ==
    ASSUME NEW w \in World, NEW r \in Run, NEW s \in Step, Bounds
    PROVE  Becomes(w, r, s, Effect(w, r, s))
<1>1. CASE s[1] = "start"
  BY <1>1, StartBecomes DEF Effect
<1>2. CASE s[1] = "remove"
  BY <1>2, RemoveBecomes DEF Effect
<1>3. CASE s[1] \in {"load", "post", "discard", "write"}
  BY <1>3, CountBecomes
<1> DEFINE Same(v) == /\ v.candidate = w.candidate
                      /\ v.containers = w.containers
                      /\ v.made = w.made /\ v.held = w.held
                      /\ v.sent = w.sent /\ v.stored = w.stored
                      /\ v.evidence = w.evidence
<1>0. s[1] \notin {"start", "remove"} =>
          /\ s # <<"start", "product">> /\ s # <<"remove", "alloy">>
          /\ s # <<"remove", "prometheus">>
  BY StepIs
<1>4. CASE s[1] = "network"
  <2> DEFINE n == s[2] = "create"
             v == [w EXCEPT !.network = n]
  <2>1. Effect(w, r, s) = v
    BY <1>4 DEF Effect
  <2>2. v \in World /\ Same(v)
    BY DEF World
  <2>3. v.network <=> s[2] = "create"
    BY DEF World
  <2> HIDE DEF v
  <2> QED
    BY <1>0, <1>4, <2>1, <2>2, <2>3 DEF Becomes
<1>5. CASE s[1] \notin {"start", "remove", "load", "post", "discard",
                        "write", "network"}
  <2> DEFINE v == Effect(w, r, s)
  <2>1. v \in World /\ Same(v) /\ v.network = w.network
    <3>1. CASE s[1] = "follow"
      <4> DEFINE u == [w EXCEPT !.follower = TRUE]
      <4>1. v = u
        BY <3>1 DEF Effect
      <4>2. u \in World /\ Same(u) /\ u.network = w.network
        BY DEF World
      <4> QED
        BY <4>1, <4>2
    <3>2. CASE s[1] = "unfollow"
      <4> DEFINE u == [w EXCEPT !.follower = FALSE]
      <4>1. v = u
        BY <3>2 DEF Effect
      <4>2. u \in World /\ Same(u) /\ u.network = w.network
        BY DEF World
      <4> QED
        BY <4>1, <4>2
    <3>3. CASE s[1] = "pause"
      <4> DEFINE u == [w EXCEPT !.paused = TRUE]
      <4>1. v = u
        BY <3>3 DEF Effect
      <4>2. u \in World /\ Same(u) /\ u.network = w.network
        BY DEF World
      <4> QED
        BY <4>1, <4>2
    <3>4. CASE s[1] = "unpause"
      <4> DEFINE u == [w EXCEPT !.paused = FALSE]
      <4>1. v = u
        BY <3>4 DEF Effect
      <4>2. u \in World /\ Same(u) /\ u.network = w.network
        BY DEF World
      <4> QED
        BY <4>1, <4>2
    <3>5. CASE s[1] \notin {"follow", "unfollow", "pause", "unpause"}
      <4>1. v = w
        BY <1>5, <3>5 DEF Effect
      <4> QED
        BY <4>1
    <3> QED
      BY <3>1, <3>2, <3>3, <3>4, <3>5
  <2> HIDE DEF v
  <2>2. Becomes(w, r, s, v)
    BY <1>0, <1>5, <2>1 DEF Becomes
  <2> QED
    BY <2>2 DEF v
<1> QED
  BY <1>1, <1>2, <1>3, <1>4, <1>5

-----------------------------------------------------------------------------
(* What a step keeps: the flow of samples, the marks, the claims.          *)

LEMMA FlowKept ==
    ASSUME NEW w \in World, NEW r \in Run, NEW s \in Step, NEW v,
           Flow(w), Becomes(w, r, s, v),
           s = <<"start", "product">> => w.held = 0 /\ w.stored = 0
    PROVE  Flow(v)
<1>1. /\ w.made \in Nat /\ w.held \in Nat /\ w.sent \in Nat
      /\ w.stored \in Nat
  BY DEF World
<1>2. CASE s = <<"start", "product">>
  <2>1. v.made = 0 /\ v.held = w.held /\ v.sent = w.sent /\ v.stored = w.stored
    BY <1>2 DEF Becomes
  <2> QED
    BY <1>1, <1>2, <2>1 DEF Flow
<1>3. CASE s = <<"remove", "alloy">>
  <2>1. v.made = w.made /\ v.held = 0 /\ v.sent = 0 /\ v.stored = w.stored
    BY <1>3 DEF Becomes
  <2> QED
    BY <1>1, <2>1 DEF Flow
<1>4. CASE s = <<"remove", "prometheus">>
  <2>1. v.made = w.made /\ v.held = w.held /\ v.sent = w.sent /\ v.stored = 0
    BY <1>4 DEF Becomes
  <2> QED
    BY <1>1, <2>1 DEF Flow
<1>5. CASE s[1] = "post"
  <2>1. /\ v.made = w.made + 1 /\ v.held = w.made + 1 /\ v.sent = w.sent
        /\ v.stored = w.stored
    BY <1>5 DEF Becomes
  <2> QED
    BY <1>1, <2>1 DEF Flow
<1>6. CASE s[1] = "load"
  <2>1. /\ v.made = w.made + 1 /\ v.held = w.held /\ v.sent = w.sent
        /\ v.stored = w.stored
    BY <1>6 DEF Becomes
  <2> QED
    BY <1>1, <2>1 DEF Flow
<1>7. CASE /\ s # <<"start", "product">> /\ s # <<"remove", "alloy">>
           /\ s # <<"remove", "prometheus">>
           /\ s[1] \notin {"post", "load"}
  <2>1. /\ v.made = w.made /\ v.held = w.held /\ v.sent = w.sent
        /\ v.stored = w.stored
    BY <1>7 DEF Becomes
  <2> QED
    BY <2>1 DEF Flow
<1> QED
  BY <1>2, <1>3, <1>4, <1>5, <1>6, <1>7

\* A step that stays at a mark.
LEMMA StandsStays ==
    ASSUME NEW w \in World, NEW r \in Run, NEW s \in BodyStep, NEW v, NEW q,
           NEW a \in Mark, Stands(a, w, r), Stays(a, s),
           Becomes(w, r, s, v), q.baseline = r.baseline,
           q.identity = r.identity
    PROVE  Stands(a, v, q)
<1>1. s \in Step
  BY DEF Step
<1>2. s = <<s[1], s[2]>>
  BY <1>1, StepIs
<1>3. CASE s[1] \in Quiet
  <2>1. /\ v.containers = w.containers /\ v.held = w.held
        /\ v.stored = w.stored /\ v.made = w.made /\ v.evidence = w.evidence
    BY <1>2, <1>3 DEF Becomes, Quiet
  <2> QED
    BY <2>1 DEF Stands
<1>4. CASE s = <<"network", "create">> \/ s = <<"remove", "stores">>
           \/ (s[1] = "start" /\ s[2] # "product")
  <2>1. /\ "product" \notin w.containers => "product" \notin v.containers
        /\ v.held = w.held
        /\ v.stored = w.stored /\ v.made = w.made /\ v.evidence = w.evidence
    BY <1>2, <1>4 DEF Becomes, Launched
  <2> QED
    BY <2>1 DEF Stands
<1>5. CASE s[1] = "discard" /\ a = "clean"
  <2>1. /\ v.containers = w.containers /\ v.held = w.held
        /\ v.stored = w.stored
    BY <1>2, <1>5 DEF Becomes
  <2> QED
    BY <1>5, <2>1 DEF Stands
<1>6. CASE s = <<"remove", "alloy">> /\ a \in {"noted", "gone"}
  <2>1. /\ v.containers = w.containers \ {"alloy"} /\ v.made = w.made
    BY <1>6 DEF Becomes
  <2> QED
    BY <1>6, <2>1 DEF Stands
<1>7. CASE s = <<"remove", "prometheus">> /\ a = "gone"
  <2>1. /\ v.containers = w.containers \ {"prometheus"}
    BY <1>7 DEF Becomes
  <2> QED
    BY <1>7, <2>1 DEF Stands
<1>8. CASE s = <<"write", "aggregate">> /\ a = "agreed"
  <2>1. v.evidence = [w.evidence EXCEPT !["aggregate"] = r.identity]
    BY <1>8 DEF Becomes
  <2>2. \A p \in Phase : v.evidence[p] = w.evidence[p]
    BY <2>1 DEF Phase, World, Phases
  <2> QED
    BY <1>8, <2>2 DEF Stands
<1> QED
  BY <1>3, <1>4, <1>5, <1>6, <1>7, <1>8 DEF Stays

\* A step that moves from one mark to another.
LEMMA StandsMoves ==
    ASSUME NEW w \in World, NEW r \in Run, NEW s \in BodyStep, NEW v, NEW q,
           NEW a \in Mark, NEW b \in Mark, Stands(a, w, r), Moves(a, s, b),
           Flow(w), Holds(w, r, s), Becomes(w, r, s, v), Bounds,
           q.baseline = IF s[1] = "baseline" THEN w.stored ELSE r.baseline,
           q.identity = IF s[1] = "identify" THEN w.candidate ELSE r.identity
    PROVE  Stands(b, v, q)
<1>0. s = <<s[1], s[2]>> /\ s \in Step
  BY StepIs DEF Step
<1>00. /\ w.made \in Nat /\ w.held \in Nat /\ w.stored \in Nat
       /\ w.candidate # 0 /\ r.baseline \in Nat
  <2>1. w.candidate \in 1 .. MaxCandidates
    BY DEF World
  <2>2. w.candidate # 0
    BY <2>1 DEF Bounds
  <2>3. w.made \in Nat /\ w.held \in Nat /\ w.stored \in Nat
    BY DEF World
  <2> QED
    BY <2>2, <2>3 DEF Run
<1>1. CASE s = <<"start", "product">> /\ b = "fresh"
  <2>1. v.made = 0
    BY <1>1 DEF Becomes
  <2> QED
    BY <1>1, <2>1 DEF Stands
<1>2. CASE s[1] = "load" /\ a = "fresh" /\ b = "first"
  <2>1. v.made = w.made + 1 /\ w.made = 0
    BY <1>2 DEF Becomes, Stands
  <2> QED
    BY <1>2, <2>1 DEF Stands
<1>3. CASE s[1] = "load" /\ a = "noted" /\ b = "loaded"
  <2>1. v.made = w.made + 1 /\ w.made = r.baseline /\ q.baseline = r.baseline
    BY <1>3 DEF Becomes, Stands
  <2> QED
    BY <1>3, <2>1 DEF Stands
<1>4. CASE s[1] = "stored" /\ a = "first" /\ b = "settled"
  <2>1. v.made = w.made /\ v.stored = w.stored /\ w.made = 1
    BY <1>0, <1>4 DEF Becomes, Stands
  <2>2. w.stored = 1
    BY <1>4 DEF Holds, Total
  <2> QED
    BY <1>4, <2>1, <2>2 DEF Stands
<1>5. CASE s[1] = "baseline" /\ a = "settled" /\ b = "noted"
  <2>1. v.made = w.made /\ w.stored = w.made /\ q.baseline = w.stored
    BY <1>0, <1>5 DEF Becomes, Stands
  <2> QED
    BY <1>5, <2>1 DEF Stands
<1>6. CASE s[1] = "counted" /\ a = "loaded" /\ b = "settled"
  <2>1. /\ v.made = w.made /\ v.stored = w.stored
        /\ w.made = r.baseline + 1
    BY <1>0, <1>6 DEF Becomes, Stands
  <2>2. w.stored >= r.baseline + 1 /\ w.stored <= w.made
    BY <1>6 DEF Holds, Total, Flow
  <2> QED
    BY <1>6, <1>00, <2>1, <2>2 DEF Stands
<1>7. CASE s = <<"remove", "product">> /\ b = "gone"
  <2>1. v.containers = w.containers \ {"product"}
    BY <1>7 DEF Becomes
  <2> QED
    BY <1>7, <2>1 DEF Stands
<1>8. CASE s = <<"remove", "alloy">> /\ a = "gone" /\ b = "drained"
  <2>1. v.containers = w.containers \ {"alloy"} /\ v.held = 0
    BY <1>8 DEF Becomes
  <2> QED
    BY <1>8, <2>1 DEF Stands
<1>9. CASE s = <<"remove", "prometheus">> /\ a = "drained" /\ b = "clean"
  <2>1. /\ v.containers = w.containers \ {"prometheus"} /\ v.stored = 0
        /\ v.held = w.held
    BY <1>9 DEF Becomes
  <2> QED
    BY <1>9, <2>1 DEF Stands
<1>10. CASE s[1] = "post" /\ a \in {"clean", "gone"} /\ b = "gone"
  <2>1. v.containers = w.containers
    BY <1>10 DEF Becomes
  <2> QED
    BY <1>10, <2>1 DEF Stands
<1>11. CASE s[1] = "identify" /\ b = "named"
  <2>1. q.identity # 0
    BY <1>11, <1>00
  <2> QED
    BY <1>11, <2>1 DEF Stands, None
<1>12. CASE s[1] = "same" /\ a = "named" /\ b = "agreed"
  <2>1. v.evidence = w.evidence /\ q.identity = r.identity
    BY <1>0, <1>12 DEF Becomes
  <2>2. \A p \in Phase : w.evidence[p] = r.identity
    BY <1>12 DEF Holds
  <2>3. r.identity # None
    BY <1>12 DEF Stands
  <2> QED
    BY <1>12, <2>1, <2>2, <2>3 DEF Stands
<1> QED
  BY <1>1, <1>2, <1>3, <1>4, <1>5, <1>6, <1>7, <1>8, <1>9, <1>10, <1>11,
     <1>12 DEF Moves

LEMMA StandsOn ==
    ASSUME NEW w \in World, NEW r \in Run, NEW s, NEW v, NEW a, NEW b, Bounds,
           Stands(a, w, r), Takes(a, s, b), Flow(w), Holds(w, r, s),
           Becomes(w, r, s, v)
    PROVE  Stands(b, v, Learns(w, r, s))
<1> DEFINE q == Learns(w, r, s)
<1>1. s \in BodyStep /\ s \in Step /\ a \in Mark /\ b \in Mark
  BY DEF Takes, Step
<1>2. /\ q.baseline = IF s[1] = "baseline" THEN w.stored ELSE r.baseline
      /\ q.identity = IF s[1] = "identify" THEN w.candidate ELSE r.identity
  BY <1>1, LearnsOK
<1> HIDE DEF q
<1>3. CASE Stays(a, s) /\ a = b
  <2>1. s[1] \notin {"baseline", "identify"}
    BY <1>3 DEF Stays, Quiet
  <2> QED
    BY <1>1, <1>2, <1>3, <2>1, StandsStays DEF q
<1>4. CASE Moves(a, s, b)
  BY <1>1, <1>2, <1>4, StandsMoves DEF q
<1> QED
  BY <1>3, <1>4 DEF Takes

\* Nothing is created that is not claimed.
LEMMA CoveredOn ==
    ASSUME NEW w \in World, NEW r \in Run, NEW s \in Step, NEW v, Bounds,
           w.containers \subseteq r.claimed, w.network => r.network,
           Becomes(w, r, s, v)
    PROVE  LET q == Learns(w, r, s) k == Claimed(r, s)
           IN /\ v.containers \subseteq q.claimed /\ (v.network => q.network)
              /\ v.containers \subseteq k.claimed /\ (v.network => k.network)
<1> DEFINE q == Learns(w, r, s)
           k == Claimed(r, s)
<1>1. /\ r.claimed \subseteq k.claimed /\ (r.network => k.network)
      /\ s[1] = "start" => Launched(s) \in k.claimed
      /\ s[1] = "network" => k.network
  BY ClaimedOK DEF Launched
<1>2. /\ q.claimed = CASE s[1] = "remove" -> r.claimed \ {s[2]}
                       [] OTHER -> k.claimed
      /\ q.network = k.network
  BY LearnsOK
<1> HIDE DEF q, k
<1>3. CASE s[1] = "start"
  <2>1. v.containers = w.containers \cup {Launched(s)} /\ v.network = w.network
    BY <1>3 DEF Becomes
  <2>2. q.claimed = k.claimed
    BY <1>2, <1>3
  <2>3. v.containers \subseteq k.claimed
    BY <1>1, <1>3, <2>1
  <2> QED
    BY <1>1, <1>2, <2>1, <2>2, <2>3 DEF q, k
<1>4. CASE s[1] = "remove"
  <2>1. v.containers = w.containers \ {s[2]} /\ v.network = w.network
    BY <1>4 DEF Becomes
  <2>2. q.claimed = r.claimed \ {s[2]}
    BY <1>2, <1>4
  <2> QED
    BY <1>1, <1>2, <2>1, <2>2 DEF q, k
<1>5. CASE s[1] \notin {"start", "remove"}
  <2>1. v.containers = w.containers
    BY <1>5 DEF Becomes
  <2>2. q.claimed = k.claimed
    BY <1>2, <1>5
  <2>3. v.network => k.network
    BY <1>1 DEF Becomes
  <2> QED
    BY <1>1, <1>2, <2>1, <2>2, <2>3 DEF q, k
<1> QED
  BY <1>3, <1>4, <1>5

\* A file that is written names what was proved.
LEMMA TruthKept ==
    ASSUME NEW w \in World, NEW r \in Run, NEW s \in Step, NEW v,
           Truth(w, r), Becomes(w, r, s, v),
           s[1] = "write" /\ s[2] \in Phase =>
               <<s[2], r.identity>> \in r.proved,
           s[1] = "write" /\ s[2] \notin Phase =>
               \A p \in Phase : <<p, r.identity>> \in r.proved
    PROVE  Truth(v, r)
<1>0. "aggregate" \notin Phase
  BY DEF Phase
<1>1. CASE s[1] \in {"discard", "write"}
  <2> DEFINE n == IF s[1] = "discard" THEN 0 ELSE r.identity
  <2>1. v.evidence = [w.evidence EXCEPT ![s[2]] = n] /\ s[2] \in Phases
    BY <1>1, StepIs DEF Becomes
  <2>2. /\ s[2] \in Phase /\ n # 0 => <<s[2], n>> \in r.proved
        /\ s[2] \notin Phase /\ n # 0 =>
               \A p \in Phase : <<p, n>> \in r.proved
    BY <1>1
  <2> HIDE DEF n
  <2>3. \A p \in Phases : v.evidence[p] = IF p = s[2] THEN n
                                          ELSE w.evidence[p]
    BY <2>1 DEF World
  <2>4. s[2] \in Phase \/ s[2] = "aggregate"
    BY <2>1 DEF Phases
  <2>5. ASSUME NEW p \in Phase, v.evidence[p] # None
        PROVE  <<p, v.evidence[p]>> \in r.proved
    BY <2>2, <2>3, <2>5 DEF Truth, None, Phases
  <2>6. ASSUME v.evidence["aggregate"] # None, NEW p \in Phase
        PROVE  <<p, v.evidence["aggregate"]>> \in r.proved
    BY <1>0, <2>2, <2>3, <2>4, <2>6 DEF Truth, None, Phases
  <2> QED
    BY <2>5, <2>6 DEF Truth
<1>2. CASE s[1] \notin {"discard", "write"}
  <2>1. v.evidence = w.evidence
    BY <1>2 DEF Becomes
  <2> QED
    BY <2>1 DEF Truth
<1> QED
  BY <1>1, <1>2

-----------------------------------------------------------------------------
(* The teardown.                                                           *)

LEMMA HasConcat ==
    ASSUME NEW S, NEW s \in Seq(S), NEW t \in Seq(S), NEW x
    PROVE  /\ s \o t \in Seq(S)
           /\ Has(s, x) \/ Has(t, x) => Has(s \o t, x)
<1>1. /\ Len(s) \in Nat /\ Len(t) \in Nat /\ s \o t \in Seq(S)
      /\ Len(s \o t) = Len(s) + Len(t)
      /\ \A n \in 1 .. Len(s) : (s \o t)[n] = s[n]
      /\ \A n \in 1 .. Len(t) : (s \o t)[Len(s) + n] = t[n]
  <2>1. /\ Len(s) \in Nat /\ Len(t) \in Nat /\ s \o t \in Seq(S)
        /\ Len(s \o t) = Len(s) + Len(t)
        /\ \A n \in 1 .. Len(s) + Len(t) :
              (s \o t)[n] = IF n <= Len(s) THEN s[n] ELSE t[n - Len(s)]
    BY ConcatProperties, LenProperties
  <2> QED
    BY <2>1
<1>2. ASSUME Has(s, x) PROVE Has(s \o t, x)
  <2>1. PICK n \in 1 .. Len(s) : s[n] = x
    BY <1>2 DEF Has
  <2> QED
    BY <1>1, <2>1 DEF Has
<1>3. ASSUME Has(t, x) PROVE Has(s \o t, x)
  <2>1. PICK n \in 1 .. Len(t) : t[n] = x
    BY <1>3 DEF Has
  <2>2. Len(s) + n \in 1 .. Len(s \o t)
    BY <1>1, <2>1
  <2> QED
    BY <1>1, <2>1, <2>2 DEF Has
<1> QED
  BY <1>1, <1>2, <1>3

LEMMA HasOne == ASSUME NEW x PROVE Has(<<x>>, x)
  BY DEF Has

LEMMA HasTail ==
    ASSUME NEW S, NEW t \in Seq(S), t # <<>>, NEW x, Has(t, x), x # Head(t)
    PROVE  Has(Tail(t), x)
<1>1. /\ Len(t) \in Nat \ {0} /\ Head(t) = t[1]
      /\ Len(Tail(t)) = Len(t) - 1
      /\ \A n \in 1 .. Len(Tail(t)) : Tail(t)[n] = t[n + 1]
  BY HeadTailProperties, EmptySeq
<1>2. PICK n \in 1 .. Len(t) : t[n] = x
  BY DEF Has
<1>3. n - 1 \in 1 .. Len(Tail(t)) /\ Tail(t)[n - 1] = t[(n - 1) + 1]
      /\ (n - 1) + 1 = n
  BY <1>1, <1>2
<1> QED
  BY <1>2, <1>3 DEF Has

LEMMA ReclaimedOK ==
    ASSUME NEW r, NEW c \in Container
    PROVE  /\ Reclaimed(r, c) \in Seq(TearStep)
           /\ c \in r.claimed => Has(Reclaimed(r, c), <<"remove", c>>)
<1>1. <<"remove", c>> \in TearStep
  BY DEF TearStep
<1> QED
  BY <1>1, HasOne DEF Reclaimed

\* The cleanup removes what is claimed.
LEMMA CleanupOK ==
    ASSUME NEW r \in Run
    PROVE  /\ Cleanup(r) \in Seq(TearStep)
           /\ \A c \in r.claimed : Has(Cleanup(r), <<"remove", c>>)
           /\ r.network => Has(Cleanup(r), <<"network", "remove">>)
<1> DEFINE a == Reclaimed(r, "product")
           b == Reclaimed(r, "alloy")
           c == Reclaimed(r, "prometheus")
           d == Reclaimed(r, "stores")
           e == Reclaimed(r, "postgres")
           f == IF r.network THEN <<<<"network", "remove">>>> ELSE <<>>
<1>1. /\ a \in Seq(TearStep) /\ b \in Seq(TearStep) /\ c \in Seq(TearStep)
      /\ d \in Seq(TearStep) /\ e \in Seq(TearStep)
      /\ "product" \in r.claimed => Has(a, <<"remove", "product">>)
      /\ "alloy" \in r.claimed => Has(b, <<"remove", "alloy">>)
      /\ "prometheus" \in r.claimed => Has(c, <<"remove", "prometheus">>)
      /\ "stores" \in r.claimed => Has(d, <<"remove", "stores">>)
      /\ "postgres" \in r.claimed => Has(e, <<"remove", "postgres">>)
  BY ReclaimedOK DEF Container
<1>2. f \in Seq(TearStep) /\ (r.network => Has(f, <<"network", "remove">>))
  <2>1. <<"network", "remove">> \in TearStep
    BY DEF TearStep
  <2>2. <<<<"network", "remove">>>> \in Seq(TearStep)
    BY <2>1
  <2> QED
    BY <2>2, HasOne
<1>3. Cleanup(r) = a \o b \o c \o d \o e \o f
  BY DEF Cleanup
<1> HIDE DEF a, b, c, d, e, f
<1>4. ASSUME NEW x
      PROVE  /\ a \o b \o c \o d \o e \o f \in Seq(TearStep)
             /\ Has(a, x) \/ Has(b, x) \/ Has(c, x) \/ Has(d, x)
                  \/ Has(e, x) \/ Has(f, x) =>
                      Has(a \o b \o c \o d \o e \o f, x)
  <2>1. /\ a \o b \in Seq(TearStep)
        /\ Has(a, x) \/ Has(b, x) => Has(a \o b, x)
    BY <1>1, HasConcat
  <2>2. /\ a \o b \o c \in Seq(TearStep)
        /\ Has(a \o b, x) \/ Has(c, x) => Has(a \o b \o c, x)
    BY <1>1, <2>1, HasConcat
  <2>3. /\ a \o b \o c \o d \in Seq(TearStep)
        /\ Has(a \o b \o c, x) \/ Has(d, x) => Has(a \o b \o c \o d, x)
    BY <1>1, <2>2, HasConcat
  <2>4. /\ a \o b \o c \o d \o e \in Seq(TearStep)
        /\ Has(a \o b \o c \o d, x) \/ Has(e, x)
               => Has(a \o b \o c \o d \o e, x)
    BY <1>1, <2>3, HasConcat
  <2>5. /\ a \o b \o c \o d \o e \o f \in Seq(TearStep)
        /\ Has(a \o b \o c \o d \o e, x) \/ Has(f, x)
               => Has(a \o b \o c \o d \o e \o f, x)
    BY <1>2, <2>4, HasConcat
  <2> QED
    BY <2>1, <2>2, <2>3, <2>4, <2>5, Zenon
<1>5. r.claimed \subseteq {"product", "alloy", "prometheus", "stores",
                           "postgres"}
  BY DEF Run, Tracked, Container
<1>6. ASSUME NEW k \in r.claimed PROVE Has(Cleanup(r), <<"remove", k>>)
  <2>1. \/ Has(a, <<"remove", k>>) \/ Has(b, <<"remove", k>>)
        \/ Has(c, <<"remove", k>>) \/ Has(d, <<"remove", k>>)
        \/ Has(e, <<"remove", k>>)
    BY <1>1, <1>5
  <2> QED
    BY <1>3, <1>4, <2>1
<1> QED
  BY <1>2, <1>3, <1>4, <1>6

\* ... and the teardown everything that was created.
LEMMA TeardownOK ==
    ASSUME NEW w \in World, NEW r \in Run, Covered(w, r)
    PROVE  Teardown(r) \in Seq(TearStep) /\ Ahead(w, Teardown(r))
<1> DEFINE a == IF r.probing THEN ReclaimProbe ELSE <<>>
           b == IF r.owns THEN CleanupProducts
                ELSE IF r.follows THEN <<<<"unfollow", "product">>>> ELSE <<>>
           c == Cleanup(r)
<1>1. a \in Seq(TearStep) /\ (r.probing => Has(a, <<"remove", "probe">>))
  <2>1. <<"remove", "probe">> \in TearStep
    BY DEF TearStep, Container
  <2>2. ReclaimProbe \in Seq(TearStep)
    BY <2>1 DEF ReclaimProbe
  <2> QED
    BY <2>2, HasOne DEF ReclaimProbe
<1>2. b \in Seq(TearStep)
  <2>1. /\ <<"stop", "product">> \in TearStep
        /\ <<"unfollow", "product">> \in TearStep
        /\ <<"remove", "product">> \in TearStep
    BY DEF TearStep, Container
  <2>2. CleanupProducts \in Seq(TearStep)
    BY <2>1 DEF CleanupProducts
  <2>3. <<<<"unfollow", "product">>>> \in Seq(TearStep)
    BY <2>1
  <2> QED
    BY <2>2, <2>3
<1>3. /\ c \in Seq(TearStep)
      /\ \A k \in r.claimed : Has(c, <<"remove", k>>)
      /\ r.network => Has(c, <<"network", "remove">>)
  BY CleanupOK
<1>4. Teardown(r) = a \o b \o c
  BY DEF Teardown, Run
<1> HIDE DEF a, b, c
<1>5. ASSUME NEW x
      PROVE  /\ a \o b \o c \in Seq(TearStep)
             /\ Has(a, x) \/ Has(c, x) => Has(a \o b \o c, x)
  <2>1. /\ a \o b \in Seq(TearStep)
        /\ Has(a, x) => Has(a \o b, x)
    BY <1>1, <1>2, HasConcat
  <2>2. /\ a \o b \o c \in Seq(TearStep)
        /\ Has(a \o b, x) \/ Has(c, x) => Has(a \o b \o c, x)
    BY <1>3, <2>1, HasConcat
  <2> QED
    BY <2>1, <2>2, Zenon
<1>6. ASSUME NEW k \in w.containers PROVE Has(Teardown(r), <<"remove", k>>)
  <2>1. k \in r.claimed \/ (r.probing /\ k = "probe")
    BY DEF Covered
  <2> QED
    BY <1>1, <1>3, <1>4, <1>5, <2>1
<1>7. w.network => Has(Teardown(r), <<"network", "remove">>)
  BY <1>3, <1>4, <1>5 DEF Covered
<1> QED
  BY <1>4, <1>5, <1>6, <1>7 DEF Ahead

-----------------------------------------------------------------------------
(* What comes after a step.                                                *)

\* The script r, with the world as it is now, goes on as p.
Follows(w, r, p) ==
    /\ p \in Run /\ Coherent(w, p)
    /\ p.tested = r.tested /\ r.proved \subseteq p.proved
    /\ p.state = "idle" =>
          /\ p.verdict \in {"passed", "failed", "left over"}
          /\ p.verdict = "left over" => r.state = "teardown"

LEMMA EndsTyped ==
    ASSUME NEW r \in Run,
           NEW v \in {"passed", "failed", "left over", "killed"}
    PROVE  LET p == Ends(r, v)
           IN /\ p \in Run /\ p.verdict = v /\ p.todo = <<>>
              /\ p.state = "idle" /\ p.tested = r.tested
              /\ p.proved = r.proved
<1>1. <<>> \in Seq(Step)
  BY EmptySeq
<1> QED
  BY <1>1 DEF Ends, Run

LEMMA EndsClean ==
    ASSUME NEW r \in Run, NEW w, NEW v, v = "passed" \/ v = "failed",
           Empty(w)
    PROVE  Follows(w, r, Ends(r, v))
<1> DEFINE p == Ends(r, v)
<1>1. v \in {"passed", "failed", "left over", "killed"}
  OBVIOUS
<1>2. /\ p \in Run /\ p.verdict = v /\ p.todo = <<>>
      /\ p.state = "idle" /\ p.tested = r.tested
      /\ p.proved = r.proved
  BY <1>1, EndsTyped
<1> HIDE DEF p
<1>3. Coherent(w, p)
  BY <1>2 DEF Coherent
<1>4. Follows(w, r, p)
  BY <1>2, <1>3 DEF Follows
<1> QED
  BY <1>4 DEF p

LEMMA EndsUnclean ==
    ASSUME NEW r \in Run, NEW w, NEW v, v = "left over" \/ v = "killed"
    PROVE  LET p == Ends(r, v)
           IN /\ p \in Run /\ Coherent(w, p) /\ p.verdict = v
              /\ p.state = "idle" /\ p.tested = r.tested
              /\ p.proved = r.proved
<1> DEFINE p == Ends(r, v)
<1>1. v \in {"passed", "failed", "left over", "killed"}
  OBVIOUS
<1>2. /\ p \in Run /\ p.verdict = v /\ p.todo = <<>>
      /\ p.state = "idle" /\ p.tested = r.tested
      /\ p.proved = r.proved
  BY <1>1, EndsTyped
<1> HIDE DEF p
<1>3. Coherent(w, p)
  BY <1>2 DEF Coherent
<1> QED
  BY <1>2, <1>3 DEF p

LEMMA TearingOK ==
    ASSUME NEW w \in World, NEW r \in Run, Covered(w, r), ~r.errors,
           NEW v \in {"passed", "failed"}
    PROVE  Follows(w, r, Tearing(r, v))
<1>1. Teardown(r) \in Seq(TearStep) /\ Ahead(w, Teardown(r))
  BY TeardownOK
<1>2. CASE Teardown(r) = <<>>
  <2>1. Tearing(r, v) = Ends(r, v)
    BY <1>2 DEF Tearing
  <2>2. Empty(w)
    BY <1>1, <1>2 DEF Ahead, Has, Empty
  <2> QED
    BY <2>1, <2>2, EndsClean
<1>3. CASE Teardown(r) # <<>>
  <2> DEFINE t == Teardown(r)
             p == [r EXCEPT !.state = "teardown", !.outcome = v, !.todo = t]
  <2>1. Tearing(r, v) = p
    BY <1>3 DEF Tearing
  <2>2. t \in Seq(Step) /\ t \in Seq(TearStep) /\ Ahead(w, t) /\ t # <<>>
    BY <1>1, <1>3 DEF Step
  <2> HIDE DEF t
  <2>3. /\ p \in Run /\ p.state = "teardown" /\ p.outcome = v /\ p.todo = t
        /\ p.errors = r.errors /\ p.tested = r.tested /\ p.proved = r.proved
    BY <2>2 DEF Run
  <2> HIDE DEF p
  <2>4. Coherent(w, p)
    BY <2>2, <2>3 DEF Coherent, Tears
  <2> QED
    BY <2>1, <2>3, <2>4 DEF Follows
<1> QED
  BY <1>2, <1>3

LEMMA WriteSteps ==
    ASSUME NEW k \in Phase
    PROVE  /\ WriteEvidence(k) \in Seq(Step) /\ WriteEvidence(k) # <<>>
           /\ Head(WriteEvidence(k)) = <<"identify", "">>
           /\ Tail(WriteEvidence(k)) = <<<<"write", k>>>>
           /\ Len(WriteEvidence(k)) = 2
<1>1. <<"identify", "">> \in Step /\ <<"write", k>> \in Step
  BY DEF Step, BodyStep, Plain, Detail, Phases
<1> DEFINE x == <<"identify", "">> y == <<"write", k>>
<1>4. x \in Step /\ y \in Step
  BY <1>1
<1> HIDE DEF x, y
<1>2. <<x, y>> # <<>> /\ Head(<<x, y>>) = x /\ Tail(<<x, y>>) = <<y>>
      /\ Len(<<x, y>>) = 2
  OBVIOUS
<1>3. <<x, y>> \in Seq(Step)
  BY <1>4
<1> QED
  BY <1>2, <1>3 DEF WriteEvidence, x, y

\* The teardown is over.
LEMMA FinishedOK ==
    ASSUME NEW w \in World, NEW r \in Run, r.state = "teardown",
           r.outcome \in {"passed", "failed"}, ~r.errors => Empty(w)
    PROVE  Follows(w, r, Finished(r))
<1>1. CASE r.errors
  <2>1. Finished(r) = Ends(r, "left over")
    BY <1>1 DEF Finished
  <2>2. /\ Ends(r, "left over") \in Run /\ Coherent(w, Ends(r, "left over"))
        /\ Ends(r, "left over").verdict = "left over"
        /\ Ends(r, "left over").tested = r.tested
        /\ Ends(r, "left over").proved = r.proved
    BY EndsUnclean
  <2> QED
    BY <2>1, <2>2 DEF Follows
<1>2. CASE ~r.errors /\ r.outcome = "passed" /\ r.script \in Phase
  <2> DEFINE t == WriteEvidence(r.script)
             k == r.proved \cup {<<r.script, r.tested>>}
             p == [r EXCEPT !.state = "report", !.todo = t, !.proved = k]
  <2>1. Finished(r) = p
    BY <1>2 DEF Finished
  <2>2. t \in Seq(Step) /\ t # <<>> /\ t = WriteEvidence(r.script)
    BY <1>2, WriteSteps
  <2>3. /\ k \in SUBSET (Phase \X (0 .. MaxCandidates))
        /\ r.proved \subseteq k /\ <<r.script, r.tested>> \in k
    <3>1. /\ r.proved \in SUBSET (Phase \X (0 .. MaxCandidates))
          /\ r.tested \in 0 .. MaxCandidates
      BY DEF Run
    <3>2. <<r.script, r.tested>> \in Phase \X (0 .. MaxCandidates)
      BY <1>2, <3>1
    <3> QED
      BY <3>1, <3>2
  <2> HIDE DEF t, k
  <2>4. /\ p \in Run /\ p.state = "report" /\ p.todo = t /\ p.proved = k
        /\ p.script = r.script /\ p.tested = r.tested
    BY <2>2, <2>3 DEF Run
  <2> HIDE DEF p
  <2>5. Coherent(w, p)
    BY <1>2, <2>2, <2>3, <2>4 DEF Coherent, Writes
  <2> QED
    BY <2>1, <2>3, <2>4, <2>5 DEF Follows
<1>3. CASE ~r.errors /\ ~(r.outcome = "passed" /\ r.script \in Phase)
  <2>1. Finished(r) = Ends(r, r.outcome)
    BY <1>3 DEF Finished
  <2> QED
    BY <1>3, <2>1, EndsClean
<1> QED
  BY <1>1, <1>2, <1>3 DEF Run

\* The rest of a part of the script.
LEMMA TailOK ==
    ASSUME NEW r \in Run, r.todo # <<>>
    PROVE  LET p == [r EXCEPT !.todo = Tail(@)]
           IN /\ Head(r.todo) \in Step /\ Len(r.todo) \in Nat \ {0}
              /\ (Len(r.todo) > 1) <=> (Tail(r.todo) # <<>>)
              /\ p \in Run /\ p.todo = Tail(r.todo) /\ p.state = r.state
              /\ p.script = r.script /\ p.outcome = r.outcome
              /\ p.errors = r.errors /\ p.claimed = r.claimed
              /\ p.network = r.network /\ p.baseline = r.baseline
              /\ p.identity = r.identity /\ p.tested = r.tested
              /\ p.proved = r.proved /\ p.verdict = r.verdict
<1> DEFINE t == Tail(r.todo)
           p == [r EXCEPT !.todo = t]
<1>1. r.todo \in Seq(Step)
  BY DEF Run
<1>2. /\ Head(r.todo) \in Step /\ Len(r.todo) \in Nat \ {0}
      /\ t \in Seq(Step) /\ Len(t) = Len(r.todo) - 1
  BY <1>1, HeadTailProperties, EmptySeq
<1>3. (Len(r.todo) > 1) <=> (t # <<>>)
  <2>1. (Len(t) = 0) <=> (t = <<>>)
    BY <1>2, EmptySeq
  <2>2. (Len(r.todo) > 1) <=> (Len(t) # 0)
    <3>1. \A m \in Nat \ {0}, n \in Int :
             n = m - 1 => ((m > 1) <=> (n # 0))
      OBVIOUS
    <3>2. Len(t) \in Int
      BY <1>2
    <3> HIDE DEF t
    <3> QED
      BY <1>2, <3>1, <3>2, Zenon
  <2> QED
    BY <2>1, <2>2
<1>4. t = Tail(r.todo)
  OBVIOUS
<1> HIDE DEF t
<1>5. /\ p \in Run /\ p.todo = t /\ p.state = r.state
      /\ p.script = r.script /\ p.outcome = r.outcome
      /\ p.errors = r.errors /\ p.claimed = r.claimed
      /\ p.network = r.network /\ p.baseline = r.baseline
      /\ p.identity = r.identity /\ p.tested = r.tested
      /\ p.proved = r.proved /\ p.verdict = r.verdict
  BY <1>2 DEF Run
<1> QED
  BY <1>2, <1>3, <1>4, <1>5

LEMMA AdvancedBody ==
    ASSUME NEW w \in World, NEW r \in Run, r.state = "body", r.todo # <<>>,
           ~r.errors, w.containers \subseteq r.claimed,
           w.network => r.network,
           \E b \in Mark : Stands(b, w, r) /\ Outlined(b, Tail(r.todo))
    PROVE  Follows(w, r, Advanced(r))
<1> DEFINE p == [r EXCEPT !.todo = Tail(@)]
<1>1. /\ (Len(r.todo) > 1) <=> (Tail(r.todo) # <<>>)
      /\ p \in Run /\ p.todo = Tail(r.todo) /\ p.state = "body"
      /\ p.errors = r.errors /\ p.claimed = r.claimed
      /\ p.network = r.network /\ p.baseline = r.baseline
      /\ p.identity = r.identity /\ p.tested = r.tested
      /\ p.proved = r.proved
  BY TailOK
<1>2. CASE Len(r.todo) > 1
  <2>1. Advanced(r) = p
    BY <1>2 DEF Advanced
  <2> HIDE DEF p
  <2>2. PICK b \in Mark : Stands(b, w, r) /\ Outlined(b, Tail(r.todo))
    OBVIOUS
  <2>3. Stands(b, w, p) /\ Outlined(b, p.todo)
    BY <1>1, <2>2 DEF Stands
  <2>4. Body(w, p)
    BY <1>1, <2>3 DEF Body
  <2>5. Coherent(w, p)
    BY <1>1, <1>2, <2>4 DEF Coherent
  <2> QED
    BY <1>1, <2>1, <2>5 DEF Follows
<1>3. CASE ~(Len(r.todo) > 1)
  <2>1. Advanced(r) = Tearing(r, "passed")
    BY <1>3 DEF Advanced
  <2>2. Covered(w, r)
    BY DEF Covered
  <2> QED
    BY <2>1, <2>2, TearingOK
<1> QED
  BY <1>2, <1>3

LEMMA AdvancedTear ==
    ASSUME NEW w \in World, NEW r \in Run, r.state = "teardown",
           r.todo # <<>>, r.todo \in Seq(TearStep),
           r.outcome \in {"passed", "failed"},
           ~r.errors => Ahead(w, Tail(r.todo))
    PROVE  Follows(w, r, Advanced(r))
<1> DEFINE p == [r EXCEPT !.todo = Tail(@)]
<1>1. /\ (Len(r.todo) > 1) <=> (Tail(r.todo) # <<>>)
      /\ p \in Run /\ p.todo = Tail(r.todo) /\ p.state = "teardown"
      /\ p.errors = r.errors /\ p.outcome = r.outcome
      /\ p.tested = r.tested /\ p.proved = r.proved
  BY TailOK
<1>2. CASE Len(r.todo) > 1
  <2>1. Advanced(r) = p
    BY <1>2 DEF Advanced
  <2> HIDE DEF p
  <2>2. p.todo \in Seq(TearStep)
    BY <1>1, HeadTailProperties
  <2>3. Tears(w, p)
    BY <1>1, <2>2 DEF Tears
  <2>4. Coherent(w, p)
    BY <1>1, <1>2, <2>3 DEF Coherent
  <2> QED
    BY <1>1, <2>1, <2>4 DEF Follows
<1>3. CASE ~(Len(r.todo) > 1)
  <2>1. Advanced(r) = Finished(r)
    BY <1>3 DEF Advanced
  <2>2. ~r.errors => Empty(w)
    <3>1. Tail(r.todo) = <<>>
      BY <1>1, <1>3
    <3>2. \A x : ~Has(<<>>, x)
      BY DEF Has
    <3> QED
      BY <3>1, <3>2 DEF Ahead, Empty
  <2> QED
    BY <2>1, <2>2, FinishedOK
<1> QED
  BY <1>2, <1>3

LEMMA AdvancedReport ==
    ASSUME NEW w \in World, NEW r \in Run, r.state = "report",
           r.todo # <<>>, Empty(w), r.script \in Phase,
           <<r.script, r.tested>> \in r.proved,
           Tail(r.todo) # <<>> =>
               /\ Tail(r.todo) = <<<<"write", r.script>>>>
               /\ ~Rebuilds => r.identity = r.tested
    PROVE  Follows(w, r, Advanced(r))
<1> DEFINE p == [r EXCEPT !.todo = Tail(@)]
<1>1. /\ (Len(r.todo) > 1) <=> (Tail(r.todo) # <<>>)
      /\ p \in Run /\ p.todo = Tail(r.todo) /\ p.state = "report"
      /\ p.script = r.script /\ p.identity = r.identity
      /\ p.tested = r.tested /\ p.proved = r.proved
  BY TailOK
<1>2. CASE Len(r.todo) > 1
  <2>1. Advanced(r) = p
    BY <1>2 DEF Advanced
  <2> HIDE DEF p
  <2>3. Writes(w, p)
    BY <1>1, <1>2 DEF Writes
  <2>4. Coherent(w, p)
    BY <1>1, <1>2, <2>3 DEF Coherent
  <2> QED
    BY <1>1, <2>1, <2>4 DEF Follows
<1>3. CASE ~(Len(r.todo) > 1)
  <2>1. Advanced(r) = Ends(r, "passed")
    BY <1>3 DEF Advanced
  <2> QED
    BY <1>3, <2>1, EndsClean
<1> QED
  BY <1>2, <1>3

\* A failure, of every part of the script.
LEMMA RaisedOK ==
    ASSUME NEW w \in World, NEW r \in Run, r.todo # <<>>,
           r.state \in {"body", "teardown", "report"},
           r.state = "body" => ~r.errors /\ Covered(w, r),
           r.state = "teardown" => /\ r.todo \in Seq(TearStep)
                                   /\ r.outcome \in {"passed", "failed"},
           r.state = "report" => Empty(w)
    PROVE  Follows(w, r, Raised(r))
<1>1. CASE r.state = "body"
  <2>1. Raised(r) = Tearing(r, "failed")
    BY <1>1 DEF Raised
  <2> QED
    BY <1>1, <2>1, TearingOK
<1>2. CASE r.state = "teardown"
  <2> DEFINE q == [r EXCEPT !.errors = TRUE]
  <2>1. Raised(r) = Advanced(q)
    BY <1>2 DEF Raised
  <2>2. /\ q \in Run /\ q.state = r.state /\ q.todo = r.todo
        /\ q.outcome = r.outcome /\ q.errors /\ q.tested = r.tested
        /\ q.proved = r.proved
    BY DEF Run
  <2> HIDE DEF q
  <2>3. Follows(w, q, Advanced(q))
    BY <1>2, <2>2, AdvancedTear
  <2> QED
    BY <2>1, <2>2, <2>3 DEF Follows
<1>3. CASE r.state = "report"
  <2>1. Raised(r) = Ends(r, "failed")
    BY <1>3 DEF Raised
  <2> QED
    BY <1>3, <2>1, EndsClean
<1> QED
  BY <1>1, <1>2, <1>3

-----------------------------------------------------------------------------
(* The first step of each part of a script, with its effect.               *)

LEMMA BodyHead ==
    ASSUME NEW w, NEW r, Good(w, r), r.state = "body"
    PROVE  /\ r.todo # <<>> /\ Body(w, r) /\ Head(r.todo) \in BodyStep
           /\ \E a \in Mark, b \in Mark :
                 /\ Stands(a, w, r) /\ Takes(a, Head(r.todo), b)
                 /\ Outlined(b, Tail(r.todo))
<1>1. r.todo # <<>> /\ Body(w, r)
  BY DEF Good, Coherent
<1>2. PICK a \in Mark : Stands(a, w, r) /\ Outlined(a, r.todo)
  BY <1>1 DEF Body
<1>3. PICK c \in Mark : Leads(a, r.todo, c)
  BY <1>2 DEF Outlined
<1>4. /\ Head(r.todo) \in BodyStep
      /\ \E b \in Mark : Takes(a, Head(r.todo), b)
                         /\ Leads(b, Tail(r.todo), c)
  BY <1>1, <1>3, LeadsHead
<1> QED
  BY <1>1, <1>2, <1>4 DEF Outlined

LEMMA BodyStepOK ==
    ASSUME NEW w, NEW r, Good(w, r), r.state = "body", Bounds,
           Holds(w, r, Head(r.todo))
    PROVE  LET s == Head(r.todo)
               v == Effect(w, r, s) q == Learns(w, r, s) k == Claimed(r, s)
           IN /\ s \in BodyStep
              /\ v \in World /\ v.candidate = w.candidate /\ Flow(v)
              /\ ~Rebuilds => Truth(v, r)
              /\ v.containers \subseteq q.claimed /\ (v.network => q.network)
              /\ v.containers \subseteq k.claimed /\ (v.network => k.network)
              /\ \E b \in Mark : Stands(b, v, q) /\ Outlined(b, Tail(r.todo))
<1> DEFINE s == Head(r.todo)
           v == Effect(w, r, s)
           q == Learns(w, r, s)
           k == Claimed(r, s)
<1>1. /\ Body(w, r) /\ s \in BodyStep /\ s \in Step
      /\ w \in World /\ r \in Run /\ Flow(w)
  BY BodyHead DEF Good, Step
<1>2. PICK a \in Mark, b \in Mark :
          Stands(a, w, r) /\ Takes(a, s, b) /\ Outlined(b, Tail(r.todo))
  BY BodyHead
<1> HIDE DEF s
<1>3. Becomes(w, r, s, v)
  BY <1>1, EffectBecomes
<1>4. Stands(b, v, q)
  BY <1>1, <1>2, <1>3, StandsOn DEF s
<1>5. Flow(v)
  <2>1. s = <<"start", "product">> => a = "clean"
    BY <1>2 DEF Takes, Stays, Moves, Quiet
  <2>2. s = <<"start", "product">> => w.held = 0 /\ w.stored = 0
    BY <1>2, <2>1 DEF Stands
  <2> HIDE DEF v
  <2> QED
    BY <1>1, <1>3, <2>2, FlowKept
<1>6. ASSUME ~Rebuilds PROVE Truth(v, r)
  <2>1. s[1] = "write" => s = <<"write", "aggregate">> /\ a = "agreed"
    BY <1>2 DEF Takes, Stays, Moves, Quiet
  <2>2. s[1] = "write" => /\ s[2] \notin Phase
                          /\ \A p \in Phase : w.evidence[p] = r.identity
                          /\ r.identity # None
    BY <1>2, <2>1 DEF Stands, Phase
  <2>3. Truth(w, r)
    BY <1>6 DEF Good, Firm
  <2>4. s[1] = "write" => \A p \in Phase : <<p, r.identity>> \in r.proved
    BY <2>2, <2>3 DEF Truth
  <2> HIDE DEF v
  <2> QED
    BY <1>1, <1>3, <2>2, <2>3, <2>4, TruthKept
<1>7. /\ v.containers \subseteq q.claimed /\ (v.network => q.network)
      /\ v.containers \subseteq k.claimed /\ (v.network => k.network)
  <2>1. w.containers \subseteq r.claimed /\ (w.network => r.network)
    BY <1>1 DEF Body
  <2> HIDE DEF v
  <2> QED
    BY <1>1, <1>3, <2>1, CoveredOn
<1>8. v \in World /\ v.candidate = w.candidate
  BY <1>3 DEF Becomes
<1> QED
  BY <1>1, <1>2, <1>4, <1>5, <1>6, <1>7, <1>8 DEF s

LEMMA TearStepOK ==
    ASSUME NEW w, NEW r, Good(w, r), r.state = "teardown", Bounds,
           Holds(w, r, Head(r.todo))
    PROVE  LET s == Head(r.todo) v == Effect(w, r, s)
           IN /\ s \in TearStep /\ r.todo # <<>> /\ Tears(w, r)
              /\ v \in World /\ v.candidate = w.candidate /\ Flow(v)
              /\ ~Rebuilds => Truth(v, r)
              /\ v.containers \subseteq w.containers
              /\ v.network => w.network
              /\ ~r.errors => Ahead(v, Tail(r.todo))
<1> DEFINE s == Head(r.todo)
           v == Effect(w, r, s)
<1>1. /\ w \in World /\ r \in Run /\ Flow(w) /\ Tears(w, r)
      /\ r.todo # <<>> /\ r.todo \in Seq(TearStep)
  BY DEF Good, Coherent, Tears
<1>2. s \in TearStep /\ s \in Step
  BY <1>1, HeadTailProperties DEF Step
<1> HIDE DEF s
<1>3. Becomes(w, r, s, v)
  BY <1>1, <1>2, EffectBecomes
<1> HIDE DEF v
<1>4. /\ s[1] \notin {"start", "write", "discard"}
      /\ s[1] = "network" => s[2] = "remove"
      /\ s = <<s[1], s[2]>>
  BY <1>2 DEF TearStep
<1>5. Flow(v)
  BY <1>1, <1>2, <1>3, <1>4, FlowKept
<1>6. ASSUME ~Rebuilds PROVE Truth(v, r)
  <2>1. Truth(w, r)
    BY <1>6 DEF Good, Firm
  <2> QED
    BY <1>1, <1>2, <1>3, <1>4, <2>1, TruthKept
<1>7. /\ v.containers = IF s[1] = "remove" THEN w.containers \ {s[2]}
                        ELSE w.containers
      /\ v.network => w.network /\ s # <<"network", "remove">>
      /\ v \in World /\ v.candidate = w.candidate
  BY <1>3, <1>4 DEF Becomes
<1>8. ASSUME ~r.errors PROVE Ahead(v, Tail(r.todo))
  <2>1. Ahead(w, r.todo)
    BY <1>1, <1>8 DEF Tears
  <2>2. ASSUME NEW c \in v.containers
        PROVE  Has(Tail(r.todo), <<"remove", c>>)
    <3>1. c \in w.containers /\ s # <<"remove", c>>
      BY <1>7
    <3>2. Has(r.todo, <<"remove", c>>)
      BY <2>1, <3>1 DEF Ahead
    <3> QED
      BY <1>1, <3>1, <3>2, HasTail DEF s
  <2>3. ASSUME v.network PROVE Has(Tail(r.todo), <<"network", "remove">>)
    <3>1. Has(r.todo, <<"network", "remove">>)
      BY <1>7, <2>1, <2>3 DEF Ahead
    <3> QED
      BY <1>1, <1>7, <2>3, <3>1, HasTail DEF s
  <2> QED
    BY <2>2, <2>3 DEF Ahead
<1>9. v.containers \subseteq w.containers
  BY <1>7
<1> QED
  BY <1>1, <1>2, <1>5, <1>6, <1>7, <1>8, <1>9 DEF s, v

LEMMA ReportStepOK ==
    ASSUME NEW w, NEW r, Good(w, r), r.state = "report", Bounds
    PROVE  LET s == Head(r.todo)
               v == Effect(w, r, s) q == Learns(w, r, s)
           IN /\ s \in BodyStep /\ s[1] \in {"identify", "write"}
              /\ r.todo # <<>> /\ Writes(w, r)
              /\ v \in World /\ v.candidate = w.candidate /\ Flow(v)
              /\ Empty(v) /\ (~Rebuilds => Truth(v, r))
              /\ Tail(r.todo) # <<>> =>
                    /\ Tail(r.todo) = <<<<"write", r.script>>>>
                    /\ ~Rebuilds => q.identity = r.tested
<1> DEFINE s == Head(r.todo)
           v == Effect(w, r, s)
           q == Learns(w, r, s)
<1>1. /\ w \in World /\ r \in Run /\ Flow(w) /\ Writes(w, r)
      /\ r.todo # <<>> /\ r.script \in Phase
      /\ <<r.script, r.tested>> \in r.proved
      /\ ~Rebuilds => Truth(w, r) /\ w.candidate = r.tested
  BY DEF Good, Coherent, Writes, Firm
<1>2. \/ /\ s = <<"identify", "">>
         /\ Tail(r.todo) = <<<<"write", r.script>>>>
      \/ /\ s = <<"write", r.script>> /\ Tail(r.todo) = <<>>
         /\ ~Rebuilds => r.identity = r.tested
  <2>1. CASE r.todo = WriteEvidence(r.script)
    BY <1>1, <2>1, WriteSteps
  <2>2. CASE /\ r.todo = <<<<"write", r.script>>>>
             /\ ~Rebuilds => r.identity = r.tested
    <3>1. \A x : Head(<<x>>) = x /\ Tail(<<x>>) = <<>>
      OBVIOUS
    <3> QED
      BY <2>2, <3>1
  <2> QED
    BY <1>1, <2>1, <2>2 DEF Writes
<1> HIDE DEF s
<1>11. \/ s = <<"identify", "">>
       \/ s = <<"write", r.script>> /\ (~Rebuilds => r.identity = r.tested)
  BY <1>2, Zenon
<1>12. Tail(r.todo) # <<>> => /\ s = <<"identify", "">>
                              /\ Tail(r.todo) = <<<<"write", r.script>>>>
  BY <1>2, Zenon
<1>3. s \in BodyStep /\ s \in Step /\ s[1] \in {"identify", "write"}
  <2>1. CASE s = <<"identify", "">>
    BY <2>1 DEF BodyStep, Step, Plain, Detail
  <2>2. CASE s = <<"write", r.script>>
    BY <1>1, <2>2 DEF BodyStep, Step, Phases
  <2> QED
    BY <1>11, <2>1, <2>2
<1>4. Becomes(w, r, s, v)
  BY <1>1, <1>3, EffectBecomes
<1>5. s[1] = "identify" => q.identity = w.candidate
  BY <1>1, <1>3, LearnsOK
<1> HIDE DEF v, q
<1>6. Flow(v)
  BY <1>1, <1>3, <1>4, FlowKept
<1>7. Empty(v)
  <2>1. v.containers = w.containers /\ v.network = w.network
    BY <1>3, <1>4 DEF Becomes
  <2> QED
    BY <1>1, <2>1 DEF Empty, Writes
<1>8. ASSUME ~Rebuilds PROVE Truth(v, r)
  <2>1. Truth(w, r) /\ <<r.script, r.tested>> \in r.proved
    BY <1>1, <1>8
  <2>2. ASSUME s[1] = "write" PROVE s[2] = r.script /\ r.identity = r.tested
    <3>1. ASSUME s = <<"identify", "">> PROVE FALSE
      <4>1. s[1] = "identify"
        BY <3>1
      <4> QED
        BY <2>2, <4>1
    <3>2. s = <<"write", r.script>> /\ r.identity = r.tested
      BY <1>8, <1>11, <3>1, Zenon
    <3> QED
      BY <3>2
  <2> QED
    BY <1>1, <1>3, <1>4, <2>1, <2>2, TruthKept
<1>9. v \in World /\ v.candidate = w.candidate
  BY <1>4 DEF Becomes
<1>10. Tail(r.todo) # <<>> =>
          /\ Tail(r.todo) = <<<<"write", r.script>>>>
          /\ ~Rebuilds => q.identity = r.tested
  <2>1. ASSUME s = <<"identify", "">> PROVE q.identity = w.candidate
    <3>1. s[1] = "identify"
      BY <2>1
    <3> QED
      BY <1>5, <3>1
  <2>2. ~Rebuilds => w.candidate = r.tested
    BY <1>1
  <2> QED
    BY <1>12, <2>1, <2>2, Zenon
<1> QED
  BY <1>1, <1>3, <1>6, <1>7, <1>8, <1>9, <1>10 DEF s, v, q

\* The invariant after a step, from what the step does to both halves.
LEMMA GoodAfter ==
    ASSUME NEW w, NEW r, Good(w, r), r.state # "idle",
           NEW v \in World, v.candidate = w.candidate, Flow(v),
           ~Rebuilds => Truth(v, r), NEW p, Follows(v, r, p)
    PROVE  Good(v, p)
<1>1. ASSUME ~Rebuilds PROVE Truth(v, p)
  <2>1. Truth(v, r) /\ r.proved \subseteq p.proved
    BY <1>1 DEF Follows
  <2> QED
    BY <2>1 DEF Truth
<1>2. Firm(v, p)
  BY <1>1 DEF Firm, Good, Follows
<1> QED
  BY <1>2 DEF Good, Follows

-----------------------------------------------------------------------------
(* The actions.                                                            *)

\* What a step of a running script leads to: the invariant, and at its end
\* a verdict; one that is not "passed" or "failed" adds nothing.
Goes(w, r, v, p) ==
    /\ Good(v, p)
    /\ p.state = "idle" =>
          /\ p.verdict \in {"passed", "failed", "left over", "killed"}
          /\ p.verdict \in {"left over", "killed"} =>
                v.containers \subseteq w.containers /\ (v.network => w.network)

LEMMA GoesAfter ==
    ASSUME NEW w, NEW r, Good(w, r), r.state # "idle",
           NEW v \in World, v.candidate = w.candidate, Flow(v),
           ~Rebuilds => Truth(v, r), NEW p, Follows(v, r, p),
           r.state = "teardown" =>
               v.containers \subseteq w.containers /\ (v.network => w.network)
    PROVE  Goes(w, r, v, p)
<1>1. Good(v, p)
  BY GoodAfter
<1> QED
  BY <1>1 DEF Goes, Follows

LEMMA FollowsAlike ==
    ASSUME NEW w, NEW r, NEW q, NEW p, Alike(r, q), Follows(w, q, p)
    PROVE  Follows(w, r, p)
  BY DEF Alike, Follows

LEMMA PerformOK ==
    ASSUME NEW w, NEW r, Good(w, r), r.state \in {"body", "teardown", "report"},
           Bounds, Holds(w, r, Head(r.todo))
    PROVE  LET s == Head(r.todo)
           IN Goes(w, r, Effect(w, r, s), Advanced(Learns(w, r, s)))
<1> DEFINE s == Head(r.todo)
           v == Effect(w, r, s)
           q == Learns(w, r, s)
<1>1. w \in World /\ r \in Run /\ r.state # "idle"
  BY DEF Good
<1>2. ASSUME s \in Step PROVE q \in Run /\ Alike(r, q)
  BY <1>1, <1>2, LearnsOK
<1>3. CASE r.state = "body"
  <2>1. /\ s \in BodyStep
        /\ v \in World /\ v.candidate = w.candidate /\ Flow(v)
        /\ ~Rebuilds => Truth(v, r)
        /\ v.containers \subseteq q.claimed /\ (v.network => q.network)
        /\ \E b \in Mark : Stands(b, v, q) /\ Outlined(b, Tail(r.todo))
    BY <1>3, BodyStepOK
  <2>2. ~r.errors /\ r.todo # <<>>
    BY <1>3, BodyHead DEF Body
  <2>3. q \in Run /\ Alike(r, q)
    BY <1>2, <2>1 DEF Step
  <2> HIDE DEF s, v, q
  <2>4. Follows(v, q, Advanced(q))
    BY <1>3, <2>1, <2>2, <2>3, AdvancedBody DEF Alike
  <2>5. Follows(v, r, Advanced(q))
    BY <2>3, <2>4, FollowsAlike
  <2>6. Goes(w, r, v, Advanced(q))
    BY <1>1, <1>3, <2>1, <2>5, GoesAfter
  <2> QED
    BY <2>6 DEF s, v, q
<1>4. CASE r.state = "teardown"
  <2>1. /\ s \in TearStep /\ r.todo # <<>> /\ Tears(w, r)
        /\ v \in World /\ v.candidate = w.candidate /\ Flow(v)
        /\ ~Rebuilds => Truth(v, r)
        /\ v.containers \subseteq w.containers
        /\ v.network => w.network
        /\ ~r.errors => Ahead(v, Tail(r.todo))
    BY <1>4, TearStepOK
  <2>3. q \in Run /\ Alike(r, q)
    BY <1>2, <2>1 DEF Step
  <2> HIDE DEF s, v, q
  <2>4. Follows(v, q, Advanced(q))
    BY <1>4, <2>1, <2>3, AdvancedTear DEF Alike, Tears
  <2>5. Follows(v, r, Advanced(q))
    BY <2>3, <2>4, FollowsAlike
  <2>6. Goes(w, r, v, Advanced(q))
    BY <1>1, <1>4, <2>1, <2>5, GoesAfter
  <2> QED
    BY <2>6 DEF s, v, q
<1>5. CASE r.state = "report"
  <2>1. /\ s \in BodyStep /\ r.todo # <<>> /\ Writes(w, r)
        /\ v \in World /\ v.candidate = w.candidate /\ Flow(v)
        /\ Empty(v) /\ (~Rebuilds => Truth(v, r))
        /\ Tail(r.todo) # <<>> =>
              /\ Tail(r.todo) = <<<<"write", r.script>>>>
              /\ ~Rebuilds => q.identity = r.tested
    BY <1>5, ReportStepOK
  <2>3. q \in Run /\ Alike(r, q)
    BY <1>2, <2>1 DEF Step
  <2> HIDE DEF s, v, q
  <2>4. Follows(v, q, Advanced(q))
    BY <1>5, <2>1, <2>3, AdvancedReport DEF Alike, Writes
  <2>5. Follows(v, r, Advanced(q))
    BY <2>3, <2>4, FollowsAlike
  <2>6. Goes(w, r, v, Advanced(q))
    BY <1>1, <1>5, <2>1, <2>5, GoesAfter
  <2> QED
    BY <2>6 DEF s, v, q
<1> QED
  BY <1>3, <1>4, <1>5

\* A failure of a running script, with the world as the step left it.
LEMMA RaisedGoes ==
    ASSUME NEW w, NEW r, Good(w, r), r.state \in {"body", "teardown", "report"},
           NEW v \in World, v.candidate = w.candidate, Flow(v),
           ~Rebuilds => Truth(v, r), NEW q \in Run, Alike(r, q),
           r.state = "body" => Covered(v, q),
           r.state = "report" => Empty(v),
           r.state = "teardown" =>
               v.containers \subseteq w.containers /\ (v.network => w.network)
    PROVE  Goes(w, r, v, Raised(q))
<1>1. /\ r.todo # <<>>
      /\ r.state = "body" => ~r.errors
      /\ r.state = "teardown" => /\ r.todo \in Seq(TearStep)
                                 /\ r.outcome \in {"passed", "failed"}
  BY DEF Good, Coherent, Body, Tears
<1>2. Follows(v, q, Raised(q))
  BY <1>1, RaisedOK DEF Alike
<1>3. Follows(v, r, Raised(q))
  BY <1>2, FollowsAlike
<1> QED
  BY <1>3, GoesAfter

LEMMA SameGood ==
    ASSUME NEW w, NEW r, Good(w, r), r.state # "idle"
    PROVE  /\ w \in World /\ r \in Run /\ Flow(w)
           /\ ~Rebuilds => Truth(w, r)
           /\ r.state = "body" => Covered(w, r)
           /\ r.state = "report" => Empty(w)
  BY DEF Good, Firm, Coherent, Body, Writes, Covered

LEMMA RefuseOK ==
    ASSUME NEW w, NEW r, Good(w, r), r.state \in {"body", "teardown", "report"}
    PROVE  Goes(w, r, w, Raised(r))
<1>1. Alike(r, r)
  BY DEF Alike
<1> QED
  BY <1>1, SameGood, RaisedGoes

LEMMA HeadStep ==
    ASSUME NEW w, NEW r, Good(w, r), r.state \in {"body", "teardown", "report"}
    PROVE  /\ Head(r.todo) \in Step
           /\ r.state # "body" => Head(r.todo)[1] \notin {"probe", "baseline"}
<1>1. r.todo # <<>> /\ r \in Run
  BY DEF Good, Coherent
<1>2. Head(r.todo) \in Step
  BY <1>1, TailOK
<1>3. CASE r.state = "teardown"
  <2>1. r.todo \in Seq(TearStep)
    BY <1>3 DEF Good, Coherent, Tears
  <2>2. Head(r.todo) \in TearStep
    BY <1>1, <2>1, HeadTailProperties
  <2> QED
    BY <1>2, <2>2 DEF TearStep
<1>4. CASE r.state = "report"
  <2>1. r.script \in Phase
        /\ (r.todo = WriteEvidence(r.script)
            \/ r.todo = <<<<"write", r.script>>>>)
    BY <1>4 DEF Good, Coherent, Writes
  <2>2. \A x : Head(<<x>>) = x
    OBVIOUS
  <2>3. \/ Head(r.todo) = <<"identify", "">>
        \/ Head(r.todo) = <<"write", r.script>>
    BY <2>1, <2>2, WriteSteps
  <2> DEFINE s == Head(r.todo)
  <2> HIDE DEF s
  <2>5. s = <<"identify", "">> \/ s = <<"write", r.script>>
    BY <2>3 DEF s
  <2>6. ASSUME s = <<"identify", "">> PROVE s[1] \notin {"probe", "baseline"}
    BY <2>6
  <2>7. ASSUME s = <<"write", r.script>> PROVE s[1] \notin {"probe", "baseline"}
    BY <2>7
  <2>4. Head(r.todo)[1] \notin {"probe", "baseline"}
    BY <2>5, <2>6, <2>7 DEF s
  <2> QED
    BY <1>2, <2>4
<1> QED
  BY <1>2, <1>3, <1>4

\* The probe is started in the script's own call.
LEMMA ProbeStarted ==
    ASSUME NEW w, NEW r, Good(w, r), r.state # "idle"
    PROVE  LET v == Started(w, "probe")
           IN /\ v \in World /\ v.candidate = w.candidate /\ Flow(v)
              /\ ~Rebuilds => Truth(v, r)
              /\ v.containers = w.containers \cup {"probe"}
              /\ v.network = w.network
<1> DEFINE k == w.containers \cup {"probe"}
           v == [w EXCEPT !.containers = k]
<1>1. Started(w, "probe") = v
  BY DEF Started
<1>2. w \in World /\ Flow(w) /\ (~Rebuilds => Truth(w, r))
  BY DEF Good, Firm
<1>3. k \in SUBSET Container /\ k = w.containers \cup {"probe"}
  BY <1>2 DEF World, Container
<1> HIDE DEF k
<1>4. /\ v \in World /\ v.candidate = w.candidate /\ v.containers = k
      /\ v.network = w.network /\ v.made = w.made /\ v.held = w.held
      /\ v.sent = w.sent /\ v.stored = w.stored /\ v.evidence = w.evidence
  BY <1>2, <1>3 DEF World
<1> HIDE DEF v
<1>5. Flow(v) /\ (~Rebuilds => Truth(v, r))
  BY <1>2, <1>4 DEF Flow, Truth
<1> QED
  BY <1>1, <1>3, <1>4, <1>5

\* A step that fails, before or after its effect.
LEMMA FailOK ==
    ASSUME NEW w, NEW r, Good(w, r), r.state \in {"body", "teardown", "report"},
           Bounds, Holds(w, r, Head(r.todo))
    PROVE  LET s == Head(r.todo)
               q == [r EXCEPT !.troubles = @ + 1, !.probing = s[1] = "probe",
                              !.follows = @ /\ s[1] # "own"]
               v == IF s[1] = "probe" THEN Started(w, "probe")
                    ELSE Effect(w, r, s)
           IN /\ Goes(w, r, v, Raised(Claimed(q, s)))
              /\ Goes(w, r, w, Raised(q))
              /\ Goes(w, r, w, Raised(Claimed(q, s)))
<1> DEFINE s == Head(r.todo)
           n == r.troubles + 1
           b == s[1] = "probe"
           f == r.follows /\ s[1] # "own"
           q == [r EXCEPT !.troubles = n, !.probing = b, !.follows = f]
           k == Claimed(q, s)
           v == IF s[1] = "probe" THEN Started(w, "probe")
                ELSE Effect(w, r, s)
<1>1. r \in Run /\ r.state # "idle" /\ w \in World
  BY SameGood
<1>2. s \in Step /\ (r.state # "body" => s[1] # "probe")
  BY HeadStep
<1>3. n \in Nat /\ b \in BOOLEAN /\ f \in BOOLEAN /\ (b <=> s[1] = "probe")
  <2>1. r.troubles \in Nat /\ r.follows \in BOOLEAN
    BY <1>1 DEF Run
  <2>2. n \in Nat
    BY <2>1
  <2>3. b \in BOOLEAN /\ (b <=> s[1] = "probe")
    OBVIOUS
  <2>4. f \in BOOLEAN
    OBVIOUS
  <2> QED
    BY <2>2, <2>3, <2>4
<1> HIDE DEF n, b, f
<1>4. /\ q \in Run /\ Alike(r, q) /\ q.claimed = r.claimed
      /\ q.network = r.network /\ q.probing = b
  BY <1>1, <1>3 DEF Run, Alike
<1> HIDE DEF q
<1>5. /\ k \in Run /\ Alike(q, k) /\ k.probing = b
      /\ r.claimed \subseteq k.claimed /\ (r.network => k.network)
  BY <1>2, <1>4, ClaimedOK
<1>6. Alike(r, k)
  BY <1>4, <1>5 DEF Alike
<1>7. r.state = "body" => Covered(w, q) /\ Covered(w, k)
  <2>1. r.state = "body" =>
            w.containers \subseteq r.claimed /\ (w.network => r.network)
    BY DEF Good, Coherent, Body
  <2> HIDE DEF k
  <2> QED
    BY <1>4, <1>5, <2>1 DEF Covered
<1>8. /\ Goes(w, r, w, Raised(q)) /\ Goes(w, r, w, Raised(k))
  <2> HIDE DEF k
  <2>1. Goes(w, r, w, Raised(q))
    BY <1>1, <1>4, <1>7, SameGood, RaisedGoes
  <2>2. Goes(w, r, w, Raised(k))
    BY <1>1, <1>5, <1>6, <1>7, SameGood, RaisedGoes
  <2> QED
    BY <2>1, <2>2
<1>9. Goes(w, r, v, Raised(k))
  <2>1. CASE s[1] = "probe"
    <3>1. /\ v \in World /\ v.candidate = w.candidate /\ Flow(v)
          /\ ~Rebuilds => Truth(v, r)
          /\ v.containers = w.containers \cup {"probe"}
          /\ v.network = w.network
      BY <1>1, <2>1, ProbeStarted
    <3>2. r.state = "body"
      BY <1>2, <2>1
    <3>3. w.containers \subseteq r.claimed /\ (w.network => r.network)
      BY <3>2 DEF Good, Coherent, Body
    <3> HIDE DEF k, v
    <3>4. Covered(v, k)
      BY <1>3, <1>5, <2>1, <3>1, <3>3 DEF Covered
    <3> QED
      BY <1>5, <1>6, <3>1, <3>2, <3>4, RaisedGoes
  <2>2. CASE s[1] # "probe" /\ r.state = "body"
    <3>1. /\ v \in World /\ v.candidate = w.candidate /\ Flow(v)
          /\ ~Rebuilds => Truth(v, r)
          /\ v.containers \subseteq Claimed(r, s).claimed
          /\ v.network => Claimed(r, s).network
      BY <2>2, BodyStepOK
    <3>2. Claimed(r, s).claimed = k.claimed /\ Claimed(r, s).network = k.network
      <4>1. CASE s[1] = "start"
        BY <1>1, <1>4, <4>1 DEF Claimed, Run
      <4>2. CASE s[1] = "network"
        BY <1>1, <1>4, <4>2 DEF Claimed, Run
      <4>3. CASE s[1] \notin {"start", "network"}
        BY <1>4, <4>3 DEF Claimed
      <4> QED
        BY <4>1, <4>2, <4>3
    <3> HIDE DEF k, v
    <3>4. Covered(v, k)
      BY <3>1, <3>2 DEF Covered
    <3> QED
      BY <1>5, <1>6, <2>2, <3>1, <3>4, RaisedGoes
  <2>3. CASE r.state = "teardown"
    <3>1. /\ v \in World /\ v.candidate = w.candidate /\ Flow(v)
          /\ ~Rebuilds => Truth(v, r)
          /\ v.containers \subseteq w.containers
          /\ v.network => w.network
      BY <1>2, <2>3, TearStepOK
    <3> HIDE DEF k, v
    <3> QED
      BY <1>5, <1>6, <2>3, <3>1, RaisedGoes
  <2>4. CASE r.state = "report"
    <3>1. /\ v \in World /\ v.candidate = w.candidate /\ Flow(v)
          /\ Empty(v) /\ (~Rebuilds => Truth(v, r))
      BY <1>2, <2>4, ReportStepOK
    <3> HIDE DEF k, v
    <3> QED
      BY <1>5, <1>6, <2>4, <3>1, RaisedGoes
  <2> QED
    BY <2>1, <2>2, <2>3, <2>4
<1> QED
  BY <1>8, <1>9 DEF q, n, b, f

LEMMA Successor == \A m \in Nat : m + 1 \in Nat
  OBVIOUS

\* A script that ends without its teardown, or in the middle of it.
LEMMA StopsOK ==
    ASSUME NEW w, NEW r, Good(w, r), r.state # "idle", NEW v,
           v = "left over" \/ v = "killed"
    PROVE  Goes(w, r, w, [Ends(r, v) EXCEPT !.troubles = @ + 1])
<1> DEFINE e == Ends(r, v)
           n == e.troubles + 1
           p == [e EXCEPT !.troubles = n]
<1>1. w \in World /\ r \in Run /\ Flow(w) /\ (~Rebuilds => Truth(w, r))
  BY SameGood
<1>2. /\ e \in Run /\ Coherent(w, e) /\ e.verdict = v
      /\ e.state = "idle" /\ e.tested = r.tested /\ e.proved = r.proved
  BY <1>1, EndsUnclean
<1> HIDE DEF e
<1>7. n \in Nat
  <2>1. e.troubles \in Nat
    BY <1>2 DEF Run
  <2> QED
    BY <2>1, Successor, Zenon
<1>8. p = [e EXCEPT !.troubles = @ + 1]
  OBVIOUS
<1> HIDE DEF n
<1>3. /\ p \in Run /\ p.verdict = v /\ p.state = "idle"
      /\ p.todo = e.todo /\ p.proved = r.proved
  BY <1>2, <1>7 DEF Run
<1> HIDE DEF p
<1>4. Coherent(w, p)
  BY <1>2, <1>3 DEF Coherent
<1>5. Firm(w, p)
  BY <1>1, <1>3 DEF Firm, Truth
<1>6. Goes(w, r, w, p)
  BY <1>1, <1>3, <1>4, <1>5 DEF Goes, Good
<1> QED
  BY <1>6, <1>8 DEF e

-----------------------------------------------------------------------------
(* What happens behind the script's back.                                  *)

\* Nothing that the script counts on changes.
LEMMA BehindOK ==
    ASSUME NEW w, NEW r, Good(w, r), NEW v \in World, Flow(v),
           v.containers = w.containers, v.network = w.network,
           v.evidence = w.evidence,
           ~Rebuilds /\ r.state # "idle" => v.candidate = w.candidate,
           r.state = "body" =>
               \A a \in Mark : Stands(a, w, r) => Stands(a, v, r)
    PROVE  Good(v, r)
<1>1. Body(w, r) /\ r.state = "body" => Body(v, r)
  BY DEF Body
<1>2. Tears(w, r) => Tears(v, r)
  BY DEF Tears, Ahead
<1>3. Writes(w, r) => Writes(v, r)
  BY DEF Writes, Empty
<1>4. Coherent(v, r)
  BY <1>1, <1>2, <1>3 DEF Good, Coherent, Empty
<1>5. Firm(v, r)
  BY DEF Good, Firm, Truth
<1> QED
  BY <1>4, <1>5 DEF Good

LEMMA ExportOK ==
    ASSUME NEW w, NEW r, Good(w, r), "product" \in w.containers
    PROVE  Good([w EXCEPT !.held = w.made], r)
<1> DEFINE v == [w EXCEPT !.held = w.made]
<1>1. /\ w \in World /\ Flow(w) /\ w.made \in Nat /\ w.held \in Nat
      /\ w.sent \in Nat /\ w.stored \in Nat
  BY DEF Good, World
<1>2. /\ v \in World /\ v.containers = w.containers /\ v.network = w.network
      /\ v.evidence = w.evidence /\ v.candidate = w.candidate
      /\ v.made = w.made /\ v.held = w.made /\ v.sent = w.sent
      /\ v.stored = w.stored
  BY <1>1 DEF World
<1> HIDE DEF v
<1>3. Flow(v)
  BY <1>1, <1>2 DEF Flow
<1>4. ASSUME NEW a \in Mark, Stands(a, w, r) PROVE Stands(a, v, r)
  BY <1>2, <1>4 DEF Stands
<1>5. Good(v, r)
  BY <1>2, <1>3, <1>4, BehindOK
<1> QED
  BY <1>5 DEF v

LEMMA DeliverOK ==
    ASSUME NEW w, NEW r, Good(w, r), Pending(w)
    PROVE  /\ Good([w EXCEPT !.sent = w.held, !.rejected = TRUE], r)
           /\ Good([w EXCEPT !.sent = w.held, !.stored = w.held], r)
<1>1. /\ w \in World /\ Flow(w) /\ w.made \in Nat /\ w.held \in Nat
      /\ w.sent \in Nat /\ w.stored \in Nat /\ w.held > w.sent
  BY DEF Good, World, Pending
<1>2. Good([w EXCEPT !.sent = w.held, !.rejected = TRUE], r)
  <2> DEFINE n == w.held
             v == [w EXCEPT !.sent = n, !.rejected = TRUE]
  <2>1. n = w.held /\ n \in Nat
    BY <1>1
  <2> HIDE DEF n
  <2>2. /\ v \in World /\ v.containers = w.containers
        /\ v.network = w.network
        /\ v.evidence = w.evidence /\ v.candidate = w.candidate
        /\ v.made = w.made /\ v.held = w.held /\ v.sent = n
        /\ v.stored = w.stored
    BY <1>1, <2>1 DEF World
  <2> HIDE DEF v
  <2>3. Flow(v)
    BY <1>1, <2>1, <2>2 DEF Flow
  <2>4. ASSUME NEW a \in Mark, Stands(a, w, r) PROVE Stands(a, v, r)
    BY <2>2, <2>4 DEF Stands
  <2>5. Good(v, r)
    BY <2>2, <2>3, <2>4, BehindOK
  <2> QED
    BY <2>5 DEF v, n
<1>3. Good([w EXCEPT !.sent = w.held, !.stored = w.held], r)
  <2> DEFINE n == w.held
             v == [w EXCEPT !.sent = n, !.stored = n]
  <2>1. n = w.held /\ n \in Nat
    BY <1>1
  <2> HIDE DEF n
  <2>2. /\ v \in World /\ v.containers = w.containers
        /\ v.network = w.network
        /\ v.evidence = w.evidence /\ v.candidate = w.candidate
        /\ v.made = w.made /\ v.held = w.held /\ v.sent = n
        /\ v.stored = n
    BY <1>1, <2>1 DEF World
  <2> HIDE DEF v
  <2>3. Flow(v)
    BY <1>1, <2>1, <2>2 DEF Flow
  <2>4. ASSUME NEW a \in Mark, Stands(a, w, r) PROVE Stands(a, v, r)
    <3>1. a \notin {"drained", "clean"}
      BY <1>1, <2>4 DEF Stands
    <3>2. w.stored = w.made => w.held = w.made
      BY <1>1 DEF Flow
    <3> QED
      BY <2>1, <2>2, <2>4, <3>1, <3>2 DEF Stands
  <2>5. Good(v, r)
    BY <2>2, <2>3, <2>4, BehindOK
  <2> QED
    BY <2>5 DEF v, n
<1> QED
  BY <1>2, <1>3

LEMMA FollowerOK ==
    ASSUME NEW w, NEW r, Good(w, r)
    PROVE  Good([w EXCEPT !.follower = FALSE], r)
<1> DEFINE v == [w EXCEPT !.follower = FALSE]
<1>1. w \in World /\ Flow(w)
  BY DEF Good
<1>2. /\ v \in World /\ v.containers = w.containers /\ v.network = w.network
      /\ v.evidence = w.evidence /\ v.candidate = w.candidate
      /\ v.made = w.made /\ v.held = w.held /\ v.sent = w.sent
      /\ v.stored = w.stored
  BY <1>1 DEF World
<1> HIDE DEF v
<1>3. Flow(v)
  BY <1>1, <1>2 DEF Flow
<1>4. ASSUME NEW a \in Mark, Stands(a, w, r) PROVE Stands(a, v, r)
  BY <1>2, <1>4 DEF Stands
<1>5. Good(v, r)
  BY <1>2, <1>3, <1>4, BehindOK
<1> QED
  BY <1>5 DEF v

LEMMA RebuildOK ==
    ASSUME NEW w, NEW r, Good(w, r), Bounds, Rebuilds \/ r.state = "idle",
           w.candidate < MaxCandidates
    PROVE  Good([w EXCEPT !.candidate = @ + 1], r)
<1> DEFINE n == w.candidate + 1
           v == [w EXCEPT !.candidate = n]
<1>1. w \in World /\ Flow(w)
  BY DEF Good
<1>2. w.candidate \in 1 .. MaxCandidates
  BY <1>1 DEF World
<1>3. n \in 1 .. MaxCandidates
  BY <1>2 DEF Bounds
<1>4. v = [w EXCEPT !.candidate = @ + 1]
  OBVIOUS
<1> HIDE DEF n
<1>5. /\ v \in World /\ v.containers = w.containers /\ v.network = w.network
      /\ v.evidence = w.evidence
      /\ v.made = w.made /\ v.held = w.held /\ v.sent = w.sent
      /\ v.stored = w.stored
  BY <1>1, <1>3 DEF World
<1> HIDE DEF v
<1>6. Flow(v)
  BY <1>1, <1>5 DEF Flow
<1>7. ASSUME NEW a \in Mark, Stands(a, w, r) PROVE Stands(a, v, r)
  BY <1>5, <1>7 DEF Stands
<1>8. Good(v, r)
  BY <1>5, <1>6, <1>7, BehindOK
<1> QED
  BY <1>4, <1>8

-----------------------------------------------------------------------------
(* The inductive invariant.                                                *)

LEMMA DockerIs ==
    ASSUME NEW candidate \in 1 .. MaxCandidates,
           NEW evidence \in [Phases -> 0 .. MaxCandidates]
    PROVE  LET w == Docker(candidate, evidence)
           IN /\ w \in World /\ w.candidate = candidate
              /\ w.evidence = evidence /\ w.containers = {} /\ ~w.network
              /\ w.made = 0 /\ w.held = 0 /\ w.sent = 0 /\ w.stored = 0
  BY DEF Docker, World

LEMMA Initially == Bounds /\ Init => IInv
<1> SUFFICES ASSUME Bounds, Init PROVE IInv
  OBVIOUS
<1> DEFINE e == [p \in Phase \cup {"aggregate"} |-> None]
<1>1. 1 \in 1 .. MaxCandidates /\ None \in 0 .. MaxCandidates
  BY DEF Bounds, None
<1>2. e \in [Phases -> 0 .. MaxCandidates]
      /\ \A p \in Phases : e[p] = None
  BY <1>1 DEF Phases
<1>3. world = Docker(1, e)
  BY DEF Init
<1> HIDE DEF e
<1>4. PICK profile \in {"ingestion", "acceptance", "phases"} :
          run = Idle(profile, {}, 0, 0)
  BY DEF Init
<1>5. /\ world \in World /\ world.evidence = e /\ world.containers = {}
      /\ ~world.network /\ world.made = 0 /\ world.held = 0
      /\ world.sent = 0 /\ world.stored = 0
  BY <1>1, <1>2, <1>3, DockerIs
<1>6. /\ run \in Run /\ run.state = "idle" /\ run.todo = <<>>
      /\ run.verdict = "none"
  <2>1. {} \in SUBSET (Phase \X (0 .. MaxCandidates)) /\ 0 \in Nat
    OBVIOUS
  <2> DEFINE r == Idle(profile, {}, 0, 0)
  <2>2. /\ r \in Run /\ r.state = "idle" /\ r.todo = <<>>
        /\ r.verdict = "none" /\ r.proved = {}
        /\ r.claimed = {} /\ ~r.network /\ ~r.errors
    <3>1. <<>> \in Seq(Step)
      BY EmptySeq
    <3> QED
      BY <1>1, <2>1, <3>1 DEF Idle, Run, Tracked
  <2> QED
    BY <1>4, <2>2
<1>7. Flow(world)
  BY <1>5 DEF Flow
<1>8. Coherent(world, run)
  BY <1>6 DEF Coherent
<1>9. Firm(world, run)
  BY <1>2, <1>5, <1>6 DEF Firm, Truth, Phases
<1> QED
  BY <1>5, <1>6, <1>7, <1>8, <1>9 DEF IInv, Good

LEMMA RunningIs == IInv => (Running <=> run.state \in {"body", "teardown",
                                                       "report"})
                           /\ (Running <=> run.state # "idle")
  BY DEF IInv, Good, Run, Running

LEMMA BeginOK == Bounds /\ IInv /\ Begin => IInv' /\ run'.state = "body"
                                            /\ ~Held'
<1> SUFFICES ASSUME Bounds, IInv, Begin
             PROVE  IInv' /\ run'.state = "body" /\ ~Held'
  OBVIOUS
<1>1. world \in World /\ run \in Run /\ Firm(world, run) /\ run.state = "idle"
  BY RunningIs DEF IInv, Good, Begin
<1>2. PICK s \in Scripts :
          run' = [Idle(run.profile, run.proved, run.operations + 1,
                       run.troubles)
                     EXCEPT !.state = "body", !.script = s,
                            !.todo = Script(s), !.tested = world.candidate]
  BY DEF Begin
<1>3. s \in {"ingestion", "acceptance"} \cup Phases
  BY <1>2 DEF Scripts, Phases
<1> DEFINE t == Script(s)
           c == world.candidate
           n == run.operations + 1
           i == Idle(run.profile, run.proved, n, run.troubles)
           j == [i EXCEPT !.state = "body", !.script = s]
           k == [j EXCEPT !.todo = t, !.tested = c]
<1>4. Outlined("clean", t) /\ t # <<>>
  BY <1>3, ScriptsOutlined
<1>5. t \in Seq(Step)
  <2>1. t \in Seq(BodyStep)
    BY <1>4 DEF Outlined, Leads
  <2> QED
    BY <2>1 DEF Step
<1>6. c \in 1 .. MaxCandidates /\ c \in 0 .. MaxCandidates
  <2>1. c \in 1 .. MaxCandidates
    BY <1>1 DEF World
  <2> QED
    BY <2>1 DEF Bounds
<1>7. n \in Nat
  <2>1. run.operations \in Nat
    BY <1>1 DEF Run
  <2> QED
    BY <2>1
<1>8. run' = k
  <2>1. run' = [i EXCEPT !.state = "body", !.script = s, !.todo = t,
                         !.tested = c]
    BY <1>2
  <2> QED
    BY <2>1 DEF Idle
<1> HIDE DEF t, c, n
<1>9. /\ i \in Run /\ i.proved = run.proved
      /\ i.claimed = {} /\ ~i.network /\ ~i.errors
  <2>1. /\ run.profile \in {"ingestion", "acceptance", "phases"}
        /\ run.proved \in SUBSET (Phase \X (0 .. MaxCandidates))
        /\ run.troubles \in Nat
    BY <1>1 DEF Run
  <2>2. /\ i \in Run /\ i.state = "idle" /\ i.todo = <<>>
        /\ i.verdict = "none" /\ i.proved = run.proved
        /\ i.claimed = {} /\ ~i.network /\ ~i.errors
    <3>1. <<>> \in Seq(Step)
      BY EmptySeq
    <3>2. None \in 0 .. MaxCandidates
      BY DEF None, Bounds
    <3> QED
      BY <1>7, <2>1, <3>1, <3>2 DEF Idle, Run, Tracked, i
  <2> QED
    BY <2>2
<1> HIDE DEF i
<1>10. /\ j \in Run /\ j.proved = run.proved /\ j.state = "body"
       /\ j.claimed = {} /\ ~j.network /\ ~j.errors
  BY <1>3, <1>9 DEF Run
<1> HIDE DEF j
<1>11. /\ k \in Run /\ k.proved = run.proved /\ k.state = "body"
       /\ k.todo = t /\ k.tested = c
       /\ k.claimed = {} /\ ~k.network /\ ~k.errors
  BY <1>5, <1>6, <1>10 DEF Run
<1> HIDE DEF k
<1>12. world' = Docker(c, world.evidence)
  BY DEF Begin, c
<1>13. world.evidence \in [Phases -> 0 .. MaxCandidates]
  BY <1>1 DEF World
<1> DEFINE d == Docker(c, world.evidence)
<1>14. /\ d \in World /\ d.candidate = c /\ d.evidence = world.evidence
       /\ d.containers = {} /\ ~d.network /\ d.made = 0 /\ d.held = 0
       /\ d.sent = 0 /\ d.stored = 0
  BY <1>6, <1>13, DockerIs
<1> HIDE DEF d
<1>15. Flow(d)
  BY <1>14 DEF Flow
<1>16. Stands("clean", d, k)
  BY <1>14 DEF Stands
<1>17. Body(d, k)
  BY <1>4, <1>11, <1>14, <1>16 DEF Body, Mark
<1>18. Coherent(d, k)
  BY <1>4, <1>11, <1>17 DEF Coherent
<1>19. Firm(d, k)
  <2>1. ASSUME ~Rebuilds PROVE Truth(d, k)
    BY <1>1, <1>11, <1>14, <2>1 DEF Firm, Truth
  <2> QED
    BY <1>11, <1>14, <2>1 DEF Firm
<1>20. Good(d, k)
  BY <1>11, <1>14, <1>15, <1>18, <1>19 DEF Good
<1>21. world' = d /\ run' = k
  BY <1>8, <1>12 DEF d
<1> QED
  BY <1>11, <1>14, <1>20, <1>21 DEF IInv, Held

\* A step of a running script.
ScriptSteps == Perform \/ Refuse \/ Fail \/ Exhaust \/ Kill

LEMMA ScriptOK ==
    Bounds /\ IInv /\ ScriptSteps =>
        Running /\ Goes(world, run, world', run')
<1> SUFFICES ASSUME Bounds, IInv, ScriptSteps
             PROVE  Running /\ Goes(world, run, world', run')
  OBVIOUS
<1>1. Good(world, run)
  BY DEF IInv
<1>2. Running
  BY DEF ScriptSteps, Perform, Refuse, Fail, Exhaust, Kill, Running
<1>3. run.state \in {"body", "teardown", "report"} /\ run.state # "idle"
  BY <1>2, RunningIs
<1>4. CASE Perform
  <2>1. /\ Holds(world, run, Head(run.todo))
        /\ world' = Effect(world, run, Head(run.todo))
        /\ run' = Advanced(Learns(world, run, Head(run.todo)))
    BY <1>4 DEF Perform
  <2>2. Goes(world, run, Effect(world, run, Head(run.todo)),
             Advanced(Learns(world, run, Head(run.todo))))
    BY <1>1, <1>3, <2>1, PerformOK
  <2> QED
    BY <1>2, <2>1, <2>2
<1>5. CASE Refuse
  <2>1. run' = Raised(run) /\ world' = world
    BY <1>5 DEF Refuse
  <2>2. Goes(world, run, world, Raised(run))
    BY <1>1, <1>3, RefuseOK
  <2> QED
    BY <1>2, <2>1, <2>2
<1>6. CASE Fail
  <2> DEFINE s == Head(run.todo)
             q == [run EXCEPT !.troubles = @ + 1, !.probing = s[1] = "probe",
                              !.follows = @ /\ s[1] # "own"]
             v == IF s[1] = "probe" THEN Started(world, "probe")
                  ELSE Effect(world, run, s)
  <2>1. /\ Holds(world, run, s)
        /\ \/ world' = v /\ run' = Raised(Claimed(q, s))
           \/ world' = world /\ run' \in {Raised(q), Raised(Claimed(q, s))}
    BY <1>6 DEF Fail
  <2>2. /\ Goes(world, run, v, Raised(Claimed(q, s)))
        /\ Goes(world, run, world, Raised(q))
        /\ Goes(world, run, world, Raised(Claimed(q, s)))
    BY <1>1, <1>3, <2>1, FailOK
  <2> HIDE DEF s, q, v
  <2>3. Goes(world, run, world', run')
    BY <2>1, <2>2
  <2> QED
    BY <1>2, <2>3
<1>7. CASE Exhaust
  <2>1. /\ run' = [Ends(run, "left over") EXCEPT !.troubles = @ + 1]
        /\ world' = world
    BY <1>7 DEF Exhaust
  <2>2. Goes(world, run, world,
             [Ends(run, "left over") EXCEPT !.troubles = @ + 1])
    BY <1>1, <1>3, StopsOK
  <2> QED
    BY <1>2, <2>1, <2>2
<1>8. CASE Kill
  <2>1. /\ run' = [Ends(run, "killed") EXCEPT !.troubles = @ + 1]
        /\ world' = world
    BY <1>8 DEF Kill
  <2>2. Goes(world, run, world,
             [Ends(run, "killed") EXCEPT !.troubles = @ + 1])
    BY <1>1, <1>3, StopsOK
  <2> QED
    BY <1>2, <2>1, <2>2
<1> QED
  BY <1>4, <1>5, <1>6, <1>7, <1>8 DEF ScriptSteps

\* What happens behind its back.
Behind == Export \/ Deliver \/ FollowerEnds \/ Rebuild

LEMMA BehindBack ==
    Bounds /\ IInv /\ Behind =>
        IInv' /\ run' = run /\ world'.containers = world.containers
              /\ world'.network = world.network
<1> SUFFICES ASSUME Bounds, IInv, Behind
             PROVE  IInv' /\ run' = run
                    /\ world'.containers = world.containers
                    /\ world'.network = world.network
  OBVIOUS
<1>1. Good(world, run) /\ world \in World
  BY DEF IInv, Good
<1>2. CASE Export
  <2>1. Good([world EXCEPT !.held = world.made], run)
    BY <1>1, <1>2, ExportOK DEF Export, Up
  <2>2. world' = [world EXCEPT !.held = world.made] /\ run' = run
    BY <1>2 DEF Export
  <2>3. world'.containers = world.containers /\ world'.network = world.network
    BY <1>1, <2>2 DEF World
  <2> QED
    BY <2>1, <2>2, <2>3 DEF IInv
<1>3. CASE Deliver
  <2>1. /\ Good([world EXCEPT !.sent = world.held, !.rejected = TRUE], run)
        /\ Good([world EXCEPT !.sent = world.held, !.stored = world.held], run)
    BY <1>1, <1>3, DeliverOK DEF Deliver
  <2>2. /\ \/ world' = [world EXCEPT !.sent = world.held, !.rejected = TRUE]
           \/ world' = [world EXCEPT !.sent = world.held,
                                     !.stored = world.held]
        /\ run' = run
    BY <1>3 DEF Deliver
  <2>3. world'.containers = world.containers /\ world'.network = world.network
    BY <1>1, <2>2 DEF World
  <2>4. Good(world', run')
    BY <2>1, <2>2
  <2> QED
    BY <2>2, <2>3, <2>4 DEF IInv
<1>4. CASE FollowerEnds
  <2>1. Good([world EXCEPT !.follower = FALSE], run)
    BY <1>1, FollowerOK
  <2>2. world' = [world EXCEPT !.follower = FALSE] /\ run' = run
    BY <1>4 DEF FollowerEnds
  <2>3. world'.containers = world.containers /\ world'.network = world.network
    BY <1>1, <2>2 DEF World
  <2> QED
    BY <2>1, <2>2, <2>3 DEF IInv
<1>5. CASE Rebuild
  <2>1. Rebuilds \/ run.state = "idle"
    BY <1>5, RunningIs DEF Rebuild
  <2>2. /\ world' = [world EXCEPT !.candidate = @ + 1] /\ run' = run
        /\ world.candidate < MaxCandidates
    BY <1>5 DEF Rebuild
  <2>3. Good([world EXCEPT !.candidate = @ + 1], run)
    BY <1>1, <2>1, <2>2, RebuildOK
  <2>4. world'.containers = world.containers /\ world'.network = world.network
    BY <1>1, <2>2 DEF World
  <2> QED
    BY <2>2, <2>3, <2>4 DEF IInv
<1> QED
  BY <1>2, <1>3, <1>4, <1>5 DEF Behind

LEMMA Inductive == Bounds /\ IInv /\ [Next]_vars => IInv'
<1> SUFFICES ASSUME Bounds, IInv, [Next]_vars PROVE IInv'
  OBVIOUS
<1>1. CASE Begin
  BY <1>1, BeginOK
<1>2. CASE ScriptSteps
  <2>1. Good(world', run')
    BY <1>2, ScriptOK DEF Goes
  <2> QED
    BY <2>1 DEF IInv
<1>3. CASE Behind
  BY <1>3, BehindBack
<1>4. CASE UNCHANGED vars
  BY <1>4 DEF IInv, vars
<1> QED
  BY <1>1, <1>2, <1>3, <1>4 DEF Next, ScriptSteps, Behind

LEMMA Invariance == ASSUME Bounds PROVE Spec => []IInv
<1>1. Init => IInv
  BY Initially
<1>2. IInv /\ [Next]_vars => IInv'
  BY Inductive
<1> QED
  BY <1>1, <1>2, PTL DEF Spec

\* The invariant includes the type invariant of the model.
LEMMA Typed == IInv => TypeOK
<1> SUFFICES ASSUME IInv PROVE TypeOK
  OBVIOUS
<1>1. /\ world \in World /\ run \in Run
      /\ (run.state = "idle") <=> (run.todo = <<>>)
      /\ world.sent <= world.held /\ world.held <= world.made
  BY DEF IInv, Good, Coherent, Flow
<1>2. /\ world.containers \subseteq Container
      /\ world.evidence \in [Phase \cup {"aggregate"} -> 0 .. MaxCandidates]
  BY <1>1 DEF World, Phases
<1>3. /\ run.state \in {"idle", "body", "teardown", "report"}
      /\ run.verdict \in {"none", "passed", "failed", "left over", "killed"}
  BY <1>1 DEF Run
<1>4. (run.state = "idle") = (run.todo = <<>>)
  BY <1>1
<1> QED
  BY <1>1, <1>2, <1>3, <1>4 DEF TypeOK

\* Containers, evidence files and scripts have the values that the steps of
\* the telemetry checks give them, and no sample is sent that Alloy did not
\* get or made twice, for any number of scripts, failures and candidates.
THEOREM AcceptanceTypeOK == ASSUME Bounds PROVE Spec => []TypeOK
BY Typed, Invariance, PTL

\* When a check of backend_ingestion or of the acceptance notes the counter
\* that its recovery is measured from, Prometheus has every request that
\* Product counted: whatever was exported, delivered, rejected, lost with a
\* container or repeated before, and wherever an earlier script stopped.
THEOREM BaselineComplete == ASSUME Bounds PROVE Spec => []NothingMissing
<1>1. IInv => NothingMissing
  <2> SUFFICES ASSUME IInv, Running, Head(run.todo)[1] = "baseline"
               PROVE  world.stored = world.made
    BY DEF NothingMissing
  <2>1. Good(world, run) /\ run.state \in {"body", "teardown", "report"}
    BY RunningIs DEF IInv
  <2>2. run.state = "body"
    BY <2>1, HeadStep
  <2>3. PICK a \in Mark, b \in Mark :
            Stands(a, world, run) /\ Takes(a, Head(run.todo), b)
    BY <2>1, <2>2, BodyHead
  <2>4. a = "settled"
    <3> DEFINE s == Head(run.todo)
    <3>1. s[1] = "baseline" /\ Takes(a, s, b)
      BY <2>3
    <3> HIDE DEF s
    <3> QED
      BY <3>1 DEF Takes, Stays, Moves, Quiet
  <2> QED
    BY <2>3, <2>4 DEF Stands
<1> QED
  BY <1>1, Invariance, PTL

\* An evidence file of the restartable phases names the candidate that its
\* phase tested and passed, with everything removed afterwards, and the
\* aggregate one for which every phase did: through failures, signals,
\* repeated and interrupted phases, if no candidate is replaced meanwhile.
THEOREM EvidenceNamesTested ==
    ASSUME Bounds, ~Rebuilds PROVE Spec => []EvidenceTrue
<1>1. IInv => EvidenceTrue
  BY DEF IInv, Good, Firm, Truth, EvidenceTrue
<1> QED
  BY <1>1, Invariance, PTL

\* Before the first script nothing is acquired, and there is no verdict.
LEMMA EnvironmentStarts == Init => Environment!Init
<1> SUFFICES ASSUME Init PROVE Environment!Init
  OBVIOUS
<1>1. world.network = FALSE /\ world.containers = {}
  BY DEF Init, Docker
<1>2. run.state = "idle" /\ run.verdict = "none"
  BY DEF Init, Idle
<1>3. Held = FALSE
  BY <1>1 DEF Held
<1>4. Verdict = "idle"
  BY <1>2 DEF Verdict, Running
<1> QED
  BY <1>3, <1>4 DEF Environment!Init

\* Every step of a script, and everything that happens behind its back, is a
\* step of OwnedEnvironment or leaves what is held and the verdict alone.
LEMMA EnvironmentStep ==
    ASSUME Bounds, IInv, IInv', [Next]_vars
    PROVE  [Environment!Next]_(Environment!vars)
<1>0. /\ Verdict = IF run.state # "idle" THEN "none"
                   ELSE IF run.verdict = "none" THEN "idle" ELSE run.verdict
      /\ Verdict' = IF run'.state # "idle" THEN "none"
                    ELSE IF run'.verdict = "none" THEN "idle"
                    ELSE run'.verdict
  BY DEF Verdict, IInv, Good, Run, Running
<1>00. Held \in BOOLEAN /\ Held' \in BOOLEAN
  <2>1. world.network \in BOOLEAN /\ world'.network \in BOOLEAN
    BY DEF IInv, Good, World
  <2> QED
    BY <2>1, Zenon DEF Held
<1>1. CASE Begin
  <2>1. run.state = "idle" /\ run'.state = "body" /\ ~Held'
    BY <1>1, BeginOK, RunningIs DEF Begin
  <2>2. Held' = FALSE
    BY <1>00, <2>1
  <2>3. Verdict # "none" /\ Verdict' = "none"
    BY <1>0, <2>1
  <2> QED
    BY <2>2, <2>3 DEF Environment!Next, Environment!Begin
<1>2. CASE ScriptSteps
  <2>1. Running /\ Goes(world, run, world', run')
    BY <1>2, ScriptOK
  <2>2. run.state # "idle" /\ Verdict = "none"
    BY <1>0, <2>1, RunningIs
  <2>3. CASE run'.state # "idle"
    <3>1. Verdict' = Verdict
      BY <1>0, <2>2, <2>3
    <3> QED
      BY <1>00, <2>2, <3>1
         DEF Environment!Next, Environment!Work
  <2>4. CASE run'.state = "idle" /\ run'.verdict \in {"passed", "failed"}
    <3>1. Empty(world')
      BY <2>1, <2>4 DEF Goes, Good, Coherent
    <3>2. ~Held'
      BY <3>1 DEF Held, Empty
    <3>3. Held' = FALSE
      BY <1>00, <3>2
    <3>4. Verdict' \in {"passed", "failed"}
      BY <1>0, <2>4
    <3> QED
      BY <2>2, <3>3, <3>4 DEF Environment!Next, Environment!Finish
  <2>5. CASE run'.state = "idle" /\ run'.verdict \in {"left over", "killed"}
    <3>1. /\ world'.containers \subseteq world.containers
          /\ world'.network => world.network
      BY <2>1, <2>5 DEF Goes
    <3>2. Held' => Held
      BY <3>1 DEF Held
    <3>3. Held' \in {Held, FALSE}
      BY <1>00, <3>2
    <3>4. Verdict' \in {"left over", "killed"}
      BY <1>0, <2>5
    <3> QED
      BY <2>2, <3>3, <3>4 DEF Environment!Next, Environment!LeaveOver
  <2> QED
    BY <2>1, <2>3, <2>4, <2>5 DEF Goes
<1>3. CASE Behind
  <2>1. /\ run' = run /\ world'.containers = world.containers
        /\ world'.network = world.network
    BY <1>3, BehindBack
  <2>2. Verdict' = Verdict
    BY <1>0, <2>1
  <2>3. Held' = Held
    BY <2>1 DEF Held
  <2> QED
    BY <2>2, <2>3 DEF Environment!vars
<1>4. CASE UNCHANGED vars
  <2>1. world' = world /\ run' = run
    BY <1>4 DEF vars
  <2>2. Held' = Held /\ Verdict' = Verdict
    BY <2>1 DEF Held, Verdict, Running
  <2> QED
    BY <2>2 DEF Environment!vars
<1> QED
  BY <1>1, <1>2, <1>3, <1>4 DEF Next, ScriptSteps, Behind

\* A telemetry check acquires its environment while it runs and never
\* afterwards, and leaves nothing of it when it says "passed" or "failed":
\* every step is one of OwnedEnvironment or leaves held and verdict alone.
THEOREM OwnsItsEnvironment == ASSUME Bounds PROVE Spec => Environment!Safety
<1>1. IInv /\ IInv' /\ [Next]_vars => [Environment!Next]_(Environment!vars)
  BY EnvironmentStep
<1> QED
  BY <1>1, EnvironmentStarts, Invariance, PTL DEF Spec, Environment!Safety

-----------------------------------------------------------------------------
(* Both kinds of script together, as they are checked: the telemetry ones  *)
(* above, or a deployment, whose proofs are those of                       *)
(* DisposableDeploymentProofs.                                             *)

Proofs == INSTANCE DisposableDeploymentProofs WITH
    world <- cluster, run <- script

AnyBounds == Bounds /\ MaxPods \in Nat \ {0}
DeploymentInv == tool = "deployment" => Proofs!IInv
AnyInv == IInv /\ tool \in {"telemetry", "deployment"} /\ DeploymentInv

\* The deployment of the runs is the one that the proofs are about: the two
\* instances of its module have the same definitions.
Matches(init, next, typed, replaced, held, making, verdict) ==
    /\ Deployment!Init => init
    /\ Deployment!Next => next
    /\ typed => Deployment!TypeOK
    /\ replaced => Deployment!SearchReplaced
    /\ held = Deployment!Held
    /\ making = Deployment!Making
    /\ verdict = Deployment!Verdict
LEMMA SameDeployment ==
    Matches(Proofs!Init, Proofs!Next, Proofs!TypeOK, Proofs!SearchReplaced,
          Proofs!Held, Proofs!Making, Proofs!Verdict)
<1>1. Matches(Deployment!Init, Deployment!Next, Deployment!TypeOK,
            Deployment!SearchReplaced, Deployment!Held,
            Deployment!Making, Deployment!Verdict)
  BY DEF Matches
<1> QED
  BY Zenon, <1>1 DEF Deployment!Pod, Deployment!DashboardCreate,
     Deployment!SetupElastic, Deployment!DashboardQueries,
     Deployment!SetupKafka, Deployment!Projection,
     Deployment!DashboardEvents, Deployment!DashboardLoss,
     Deployment!DashboardRestart, Deployment!DashboardScript,
     Deployment!BuildProbe, Deployment!SearchSetupElastic,
     Deployment!SearchSetupKafka, Deployment!SearchProjection,
     Deployment!SearchDeploy, Deployment!SearchLoss,
     Deployment!SearchRestart, Deployment!SearchRestore,
     Deployment!SearchScript, Deployment!ProductCreate,
     Deployment!ProductStore, Deployment!FailsClosed,
     Deployment!ProductDeploy, Deployment!ProductOutage,
     Deployment!ProductRollout, Deployment!ProductDrain,
     Deployment!ProductReplacement, Deployment!ProductScript,
     Deployment!ProductCleanup, Deployment!DashboardCleanup,
     Deployment!SearchCleanup, Deployment!Live, Deployment!Existing,
     Deployment!ReadyPods, Deployment!RolledOut, Deployment!EndpointCount,
     Deployment!Answers, Deployment!EmptyList, Deployment!CatalogRead,
     Deployment!Unready, Deployment!Denied, Deployment!Permitted,
     Deployment!Identified, Deployment!Installable, Deployment!Trusted,
     Deployment!Stops, Deployment!NotAccepting, Deployment!Drained,
     Deployment!Holds, Deployment!ElasticStarting,
     Deployment!SearchElasticStarting, Deployment!Certified,
     Deployment!KafkaStarting, Deployment!Applied, Deployment!Effect,
     Deployment!Learns, Deployment!Running, Deployment!Cleanup,
     Deployment!Ends, Deployment!Cleaning, Deployment!Advanced,
     Deployment!Raised, Deployment!Step, Deployment!Refuse, Deployment!Fail,
     Deployment!Kill, Deployment!There, Deployment!StartElastic,
     Deployment!StartKafka, Deployment!CreatePod, Deployment!RetirePod,
     Deployment!Healthy, Deployment!PodReady, Deployment!PodUnready,
     Deployment!PodGone, Deployment!UpdateStatus, Deployment!UpdateSlice,
     Deployment!Project, Deployment!Nothing, Deployment!RemoveNamespace,
     Deployment!Controllers, Deployment!Init, Deployment!Next,
     Deployment!TypeOK, Deployment!SearchReplaced, Deployment!Recovered,
     Deployment!Held, Deployment!Making, Deployment!Verdict,
     Deployment!Cardinality, Deployment!Last, Proofs!Pod,
     Proofs!DashboardCreate, Proofs!SetupElastic, Proofs!DashboardQueries,
     Proofs!SetupKafka, Proofs!Projection, Proofs!DashboardEvents,
     Proofs!DashboardLoss, Proofs!DashboardRestart, Proofs!DashboardScript,
     Proofs!BuildProbe, Proofs!SearchSetupElastic, Proofs!SearchSetupKafka,
     Proofs!SearchProjection, Proofs!SearchDeploy, Proofs!SearchLoss,
     Proofs!SearchRestart, Proofs!SearchRestore, Proofs!SearchScript,
     Proofs!ProductCreate, Proofs!ProductStore, Proofs!FailsClosed,
     Proofs!ProductDeploy, Proofs!ProductOutage, Proofs!ProductRollout,
     Proofs!ProductDrain, Proofs!ProductReplacement, Proofs!ProductScript,
     Proofs!ProductCleanup, Proofs!DashboardCleanup, Proofs!SearchCleanup,
     Proofs!Live, Proofs!Existing, Proofs!ReadyPods, Proofs!RolledOut,
     Proofs!EndpointCount, Proofs!Answers, Proofs!EmptyList,
     Proofs!CatalogRead, Proofs!Unready, Proofs!Denied, Proofs!Permitted,
     Proofs!Identified, Proofs!Installable, Proofs!Trusted, Proofs!Stops,
     Proofs!NotAccepting, Proofs!Drained, Proofs!Holds,
     Proofs!ElasticStarting, Proofs!SearchElasticStarting, Proofs!Certified,
     Proofs!KafkaStarting, Proofs!Applied, Proofs!Effect, Proofs!Learns,
     Proofs!Running, Proofs!Cleanup, Proofs!Ends, Proofs!Cleaning,
     Proofs!Advanced, Proofs!Raised, Proofs!Step, Proofs!Refuse, Proofs!Fail,
     Proofs!Kill, Proofs!There, Proofs!StartElastic, Proofs!StartKafka,
     Proofs!CreatePod, Proofs!RetirePod, Proofs!Healthy, Proofs!PodReady,
     Proofs!PodUnready, Proofs!PodGone, Proofs!UpdateStatus,
     Proofs!UpdateSlice, Proofs!Project, Proofs!Nothing,
     Proofs!RemoveNamespace, Proofs!Controllers, Proofs!Init, Proofs!Next,
     Proofs!TypeOK, Proofs!SearchReplaced, Proofs!Recovered, Proofs!Held,
     Proofs!Making, Proofs!Verdict, Proofs!Cardinality, Proofs!Last

LEMMA SameBounds == AnyBounds => Proofs!Bounds
BY DEF AnyBounds, Proofs!Bounds

LEMMA AnyStarts == ASSUME AnyBounds, AnyInit PROVE AnyInv
<1>1. IInv
  BY Initially DEF AnyBounds, AnyInit
<1>2. DeploymentInv
  <2> SUFFICES ASSUME tool = "deployment" PROVE Proofs!IInv
    BY DEF DeploymentInv
  <2>1. Deployment!Init
    BY DEF AnyInit
  <2>2. Proofs!Init
    BY <2>1, SameDeployment DEF Matches
  <2> QED
    BY <2>2, SameBounds, Proofs!Starts
<1> QED
  BY <1>1, <1>2 DEF AnyInv, AnyInit

\* A step of the composition is a step of the script that is looked at.
LEMMA AnyStep ==
    ASSUME [AnyNext]_<<vars, mcVars>>
    PROVE  /\ tool' = tool
           /\ [Next]_vars
           /\ tool = "deployment" => [Proofs!Next]_(Proofs!vars)
           /\ tool = "deployment" => UNCHANGED vars
           /\ tool = "telemetry" => UNCHANGED <<cluster, script>>
<1>1. CASE Observes
  BY <1>1 DEF Observes, mcVars
<1>2. CASE Deploys
  <2>1. Proofs!Next
    BY <1>2, SameDeployment DEF Deploys, Matches
  <2> QED
    BY <1>2, <2>1 DEF Deploys
<1>3. CASE UNCHANGED <<vars, mcVars>>
  BY <1>3 DEF vars, mcVars, Proofs!vars
<1> QED
  BY <1>1, <1>2, <1>3 DEF AnyNext

LEMMA AnyPreserves ==
    ASSUME AnyBounds, AnyInv, [AnyNext]_<<vars, mcVars>> PROVE AnyInv'
<1>1. /\ tool' = tool /\ [Next]_vars
      /\ tool = "deployment" => [Proofs!Next]_(Proofs!vars)
  BY AnyStep
<1>2. IInv'
  BY <1>1, Inductive DEF AnyBounds, AnyInv
<1>3. tool = "deployment" => Proofs!IInv'
  BY <1>1, SameBounds, Proofs!Preserves DEF AnyInv, DeploymentInv
<1> QED
  BY <1>1, <1>2, <1>3 DEF AnyInv, DeploymentInv

\* The invariants of the telemetry checks and of the disposable deployments
\* hold in the composition, where either kind of script is looked at.
THEOREM AnyInvariance == ASSUME AnyBounds PROVE AnySpec => []AnyInv
<1>1. AnyInit => AnyInv
  BY AnyStarts
<1>2. AnyInv /\ [AnyNext]_<<vars, mcVars>> => AnyInv'
  BY AnyPreserves
<1> QED
  BY <1>1, <1>2, PTL DEF AnySpec

\* The environments of both kinds of script, and the scripts themselves, are
\* in states that the operators of the models cover, for any number of Pods,
\* candidates, failures, interrupts and kills.
THEOREM AllTyped == ASSUME AnyBounds PROVE AnySpec => []AllTypeOK
<1>1. AnyInv => AllTypeOK
  BY Typed, Proofs!Typed, SameDeployment
     DEF AnyInv, DeploymentInv, Matches, AllTypeOK
<1> QED
  BY <1>1, AnyInvariance, PTL

\* The restart of the policy-search's disposable_deployment.py ends with a
\* ready Pod that is not the deleted one and has the event worker, whatever
\* the Deployment's status and the EndpointSlice said of the past.
THEOREM RestartReplaces == ASSUME AnyBounds PROVE AnySpec => SearchReplaced
<1>1. ASSUME AnyInv, AnyInv', [AnyNext]_<<vars, mcVars>>
      PROVE  [tool = "deployment" => Deployment!SearchReplaced]_mcVars
  <2> SUFFICES ASSUME tool = "deployment", ~UNCHANGED mcVars
               PROVE  Deployment!SearchReplaced
    OBVIOUS
  <2>1. /\ tool' = tool /\ [Proofs!Next]_(Proofs!vars)
    BY <1>1, AnyStep
  <2>2. [Proofs!SearchReplaced]_(Proofs!vars)
    BY <1>1, <2>1, SameBounds, Proofs!RestartStep DEF AnyInv, DeploymentInv
  <2>3. ~UNCHANGED Proofs!vars
    BY <2>1 DEF mcVars, Proofs!vars
  <2> QED
    BY <2>2, <2>3, SameDeployment DEF Matches
<1> QED
  BY <1>1, AnyInvariance, PTL DEF AnySpec, SearchReplaced

\* Every script, of a telemetry check or of a deployment, acquires its
\* environment while it runs and never afterwards, nothing of it is left when
\* it says "passed", and nothing that it had noted as its own when it says
\* "failed": each step of any of them is one of OwnedEnvironment or leaves
\* what is held, what is in the making and the verdict alone.
THEOREM EveryScriptOwnsItsEnvironment ==
    ASSUME AnyBounds PROVE AnySpec => Kept!Safety
<1>1. ASSUME AnyBounds, AnyInit PROVE Kept!Init
  <2>1. CASE tool = "deployment"
    <3>1. Proofs!Init
      BY <1>1, <2>1, SameDeployment DEF Matches, AnyInit
    <3>2. Proofs!Environment!Init
      BY <3>1, Proofs!EnvironmentStarts
    <3>3. /\ Proofs!Held = AnyHeld /\ Proofs!Making = AnyMaking
          /\ Proofs!Verdict = AnyVerdict
      BY <2>1, SameDeployment DEF Matches, AnyHeld, AnyMaking, AnyVerdict
    <3> QED
      BY <3>2, <3>3 DEF Proofs!Environment!Init, Kept!Init
  <2>2. CASE tool = "telemetry"
    <3>1. Environment!Init
      BY <1>1, EnvironmentStarts DEF AnyInit
    <3> QED
      BY <2>2, <3>1
         DEF Environment!Init, Kept!Init, AnyHeld, AnyMaking, AnyVerdict
  <2> QED
    BY <1>1, <2>1, <2>2 DEF AnyInit
<1>2. ASSUME AnyInv, AnyInv', [AnyNext]_<<vars, mcVars>>
      PROVE  [Kept!Next]_(Kept!vars)
  <2>1. CASE tool = "deployment"
    <3>1. tool' = "deployment" /\ [Proofs!Next]_(Proofs!vars)
      BY <2>1, <1>2, AnyStep
    <3>2. [Proofs!Environment!Next]_(Proofs!Environment!vars)
      BY <1>2, <2>1, <3>1, SameBounds, Proofs!EnvironmentStep
         DEF AnyInv, DeploymentInv
    <3>3. /\ Proofs!Held = AnyHeld /\ Proofs!Making = AnyMaking
          /\ Proofs!Verdict = AnyVerdict
      BY <2>1, SameDeployment DEF Matches, AnyHeld, AnyMaking, AnyVerdict
    <3>4. /\ Proofs!Held' = AnyHeld' /\ Proofs!Making' = AnyMaking'
          /\ Proofs!Verdict' = AnyVerdict'
      BY <3>1 DEF AnyHeld, AnyMaking, AnyVerdict, Deployment!Held,
         Deployment!Making, Deployment!Verdict, Deployment!Running,
         Proofs!Held, Proofs!Making, Proofs!Verdict, Proofs!Running
    <3> QED
      BY <3>2, <3>3, <3>4
         DEF Kept!Next, Kept!Begin, Kept!Work, Kept!Release, Kept!Finish,
             Kept!LeaveOver, Kept!vars, Proofs!Environment!Next,
             Proofs!Environment!Begin, Proofs!Environment!Work,
             Proofs!Environment!Release, Proofs!Environment!Finish,
             Proofs!Environment!LeaveOver, Proofs!Environment!vars
  <2>2. CASE tool = "telemetry"
    <3>1. tool' = "telemetry" /\ [Next]_vars
      BY <2>2, <1>2, AnyStep
    <3>2. [Environment!Next]_(Environment!vars)
      BY <1>2, <3>1, EnvironmentStep DEF AnyBounds, AnyInv
    <3>3. /\ Held = AnyHeld /\ Verdict = AnyVerdict
          /\ Held' = AnyHeld' /\ Verdict' = AnyVerdict'
          /\ AnyMaking = FALSE /\ AnyMaking' = FALSE
      BY <2>2, <3>1 DEF AnyHeld, AnyMaking, AnyVerdict
    <3> QED
      BY <3>2, <3>3
         DEF Kept!Next, Kept!Begin, Kept!Work, Kept!Release, Kept!Finish,
             Kept!LeaveOver, Kept!vars, Environment!Next, Environment!Begin,
             Environment!Work, Environment!Release, Environment!Finish,
             Environment!LeaveOver, Environment!vars
  <2> QED
    BY <1>2, <2>1, <2>2 DEF AnyInv
<1> QED
  BY <1>1, <1>2, AnyInvariance, PTL DEF AnySpec, Kept!Safety
=============================================================================
