-------------------- MODULE ElasticAdministrationProofs --------------------
(***************************************************************************)
(* What holds of the scripts that administer Elasticsearch identities for  *)
(* any number of scripts, failures, kills and renewed CAs: "passed" is     *)
(* said of what the script was run for, "restored" of a Secret that logs   *)
(* in again, a setup that is repeated takes no login away, and a script    *)
(* that refuses has changed nothing, as far as it promises.                *)
(*                                                                         *)
(* A script shares no transaction with anything: what it has found or made *)
(* it knows from the calls it made so far.  The invariant names that       *)
(* knowledge: a mark is a set of facts, and the calls that are left lead   *)
(* from a mark that is true now to one with everything that "passed"       *)
(* says (Leads).  A call adds facts, or takes them away (Follows);         *)
(* which facts a call needs depends on what the script promises (Allowed). *)
(*                                                                         *)
(* First come the outlines of the scripts, then what a call does, field by *)
(* field, the invariant over all steps, and the theorems.                  *)
(***************************************************************************)
EXTENDS ElasticAdministration, SequenceTheorems, TLAPS

Bounds == MaxRenewals \in Nat /\ MaxDocuments \in Nat

-----------------------------------------------------------------------------
(***************************************************************************)
(* Outlines of scripts that are sequences of steps.  Between two steps     *)
(* stands a mark, what the script knows there; T is the set of the         *)
(* <<mark, step, mark>> that are sound for a script.  A sequence of steps  *)
(* leads from a mark to another if there are marks in between such that    *)
(* each step is sound.  The lemmas are the composition of outlines, as the *)
(* scripts are composed of tuples, and what is left after the first step.  *)
(***************************************************************************)
StepsOf(T) == {t[2] : t \in T}
Marks(m, steps) == m = [n \in 1 .. Len(steps) + 1 |-> m[n]]
Leads(T, a, steps, b) ==
    /\ steps \in Seq(StepsOf(T))
    /\ \E m : /\ Marks(m, steps) /\ m[1] = a /\ m[Len(steps) + 1] = b
              /\ \A n \in 1 .. Len(steps) : <<m[n], steps[n], m[n + 1]>> \in T

\* What leads to a mark goes on with what leads on from it.
LEMMA LeadsConcat ==
    ASSUME NEW T, NEW a, NEW b, NEW c, NEW s, NEW t,
           Leads(T, a, s, b), Leads(T, b, t, c)
    PROVE  Leads(T, a, s \o t, c)
<1>1. s \in Seq(StepsOf(T)) /\ t \in Seq(StepsOf(T))
  BY DEF Leads
<1>2. PICK m : /\ m[1] = a /\ m[Len(s) + 1] = b
               /\ \A n \in 1 .. Len(s) : <<m[n], s[n], m[n + 1]>> \in T
  BY DEF Leads
<1>3. PICK k : /\ k[1] = b /\ k[Len(t) + 1] = c
               /\ \A n \in 1 .. Len(t) : <<k[n], t[n], k[n + 1]>> \in T
  BY DEF Leads
<1> DEFINE u == s \o t
           j == [n \in 1 .. Len(u) + 1 |->
                    IF n <= Len(s) THEN m[n] ELSE k[n - Len(s)]]
<1>4. /\ Len(s) \in Nat /\ Len(t) \in Nat /\ u \in Seq(StepsOf(T))
      /\ Len(u) = Len(s) + Len(t)
      /\ \A n \in 1 .. Len(u) : u[n] = IF n <= Len(s) THEN s[n]
                                       ELSE t[n - Len(s)]
  BY <1>1, ConcatProperties, LenProperties
<1> HIDE DEF u
<1>5. Marks(j, u)
  BY DEF Marks
<1>6. j[1] = a /\ j[Len(u) + 1] = c
  BY <1>2, <1>3, <1>4
<1>7. ASSUME NEW n \in 1 .. Len(u) PROVE <<j[n], u[n], j[n + 1]>> \in T
  <2>1. CASE n < Len(s)
    <3>1. /\ n + 1 \in 1 .. Len(u) + 1 /\ n + 1 <= Len(s) /\ n <= Len(s)
          /\ n \in 1 .. Len(s) /\ n \in 1 .. Len(u) + 1
      BY <1>4, <2>1
    <3>2. j[n] = m[n] /\ j[n + 1] = m[n + 1] /\ u[n] = s[n]
      BY <1>4, <3>1
    <3>3. <<m[n], s[n], m[n + 1]>> \in T
      BY <1>2, <3>1
    <3> QED
      BY <3>2, <3>3
  <2>2. CASE n = Len(s)
    <3>1. /\ n + 1 \in 1 .. Len(u) + 1 /\ ~(n + 1 <= Len(s))
          /\ (n + 1) - Len(s) = 1 /\ n \in 1 .. Len(s)
      BY <1>4, <2>2
    <3>2. j[n] = m[n] /\ j[n + 1] = b /\ u[n] = s[n] /\ m[n + 1] = b
      BY <1>2, <1>3, <1>4, <2>2, <3>1
    <3>3. <<m[n], s[n], m[n + 1]>> \in T
      BY <1>2, <3>1
    <3> QED
      BY <3>2, <3>3
  <2>3. CASE n > Len(s)
    <3>1. /\ n - Len(s) \in 1 .. Len(t)
          /\ j[n] = k[n - Len(s)] /\ u[n] = t[n - Len(s)]
          /\ j[n + 1] = k[(n - Len(s)) + 1]
      BY <1>4, <2>3
    <3> QED
      BY <3>1, <1>3
  <2> QED
    BY <1>4, <2>1, <2>2, <2>3
<1> QED
  BY <1>4, <1>5, <1>6, <1>7 DEF Leads, u

\* The empty sequence leads nowhere.
LEMMA LeadsNowhere ==
    ASSUME NEW T, NEW a, NEW b
    PROVE  Leads(T, a, <<>>, b) <=> a = b
<1>1. ASSUME Leads(T, a, <<>>, b) PROVE a = b
  BY <1>1 DEF Leads
<1>2. Leads(T, a, <<>>, a)
  <2> DEFINE m == [n \in 1 .. Len(<<>>) + 1 |-> a]
  <2>1. Marks(m, <<>>) /\ m[1] = a /\ m[Len(<<>>) + 1] = a
    BY DEF Marks
  <2>2. <<>> \in Seq(StepsOf(T)) /\ \A n \in 1 .. Len(<<>>) : FALSE
    OBVIOUS
  <2> HIDE DEF m
  <2> QED
    BY <2>1, <2>2 DEF Leads
<1> QED
  BY <1>1, <1>2

\* The first step is sound, and the rest leads on from the mark after it.
LEMMA LeadsHead ==
    ASSUME NEW T, NEW a, NEW s, NEW c, Leads(T, a, s, c), s # <<>>
    PROVE  /\ Head(s) \in StepsOf(T)
           /\ \E b : <<a, Head(s), b>> \in T /\ Leads(T, b, Tail(s), c)
<1>1. PICK m : /\ m[1] = a /\ m[Len(s) + 1] = c
               /\ \A n \in 1 .. Len(s) : <<m[n], s[n], m[n + 1]>> \in T
  BY DEF Leads
<1>2. /\ s \in Seq(StepsOf(T)) /\ Len(s) \in Nat \ {0} /\ Head(s) = s[1]
      /\ Head(s) \in StepsOf(T) /\ Tail(s) \in Seq(StepsOf(T))
      /\ Len(Tail(s)) = Len(s) - 1
      /\ \A n \in 1 .. Len(Tail(s)) : Tail(s)[n] = s[n + 1]
  BY HeadTailProperties, EmptySeq DEF Leads
<1> DEFINE k == [n \in 1 .. Len(Tail(s)) + 1 |-> m[n + 1]]
<1>3. Marks(k, Tail(s))
  BY DEF Marks
<1>4. k[1] = m[2] /\ k[Len(Tail(s)) + 1] = c
  BY <1>1, <1>2
<1>5. ASSUME NEW n \in 1 .. Len(Tail(s))
      PROVE  <<k[n], Tail(s)[n], k[n + 1]>> \in T
  <2>1. /\ k[n] = m[n + 1] /\ k[n + 1] = m[(n + 1) + 1]
        /\ n + 1 \in 1 .. Len(s) /\ Tail(s)[n] = s[n + 1]
    BY <1>2
  <2> QED
    BY <1>1, <2>1
<1>6. Leads(T, m[2], Tail(s), c)
  BY <1>2, <1>3, <1>4, <1>5 DEF Leads
<1>7. <<a, Head(s), m[2]>> \in T
  BY <1>1, <1>2
<1> QED
  BY <1>2, <1>6, <1>7

\* A single step, and tuples of steps.
LEMMA Leads1 ==
    ASSUME NEW T, NEW a, NEW b, NEW x, <<a, x, b>> \in T
    PROVE  Leads(T, a, <<x>>, b)
<1> DEFINE m == <<a, b>>
           s == <<x>>
<1>1. x \in StepsOf(T)
  <2>1. <<a, x, b>>[2] = x
    OBVIOUS
  <2> QED
    BY <2>1 DEF StepsOf
<1>2. s \in Seq(StepsOf(T)) /\ Len(s) = 1 /\ s[1] = x
  BY <1>1
<1>3. m[1] = a /\ m[2] = b /\ m = [n \in 1 .. 2 |-> m[n]]
  OBVIOUS
<1> HIDE DEF m, s
<1>4. Marks(m, s) /\ m[Len(s) + 1] = b
  BY <1>2, <1>3 DEF Marks
<1>5. \A n \in 1 .. Len(s) : <<m[n], s[n], m[n + 1]>> \in T
  BY <1>2, <1>3
<1>6. Leads(T, a, s, b)
  BY <1>2, <1>3, <1>4, <1>5 DEF Leads
<1> QED
  BY <1>6 DEF s

LEMMA Leads2 ==
    ASSUME NEW T, NEW a, NEW b, NEW c, NEW x, NEW y,
           <<a, x, b>> \in T, <<b, y, c>> \in T
    PROVE  Leads(T, a, <<x, y>>, c)
<1> DEFINE m == <<a, b, c>>
           s == <<x, y>>
<1>1. x \in StepsOf(T) /\ y \in StepsOf(T)
  <2>1. <<a, x, b>>[2] = x /\ <<b, y, c>>[2] = y
    OBVIOUS
  <2> QED
    BY <2>1 DEF StepsOf
<1>2. /\ s \in Seq(StepsOf(T)) /\ Len(s) = 2 /\ s[1] = x /\ s[2] = y
  BY <1>1
<1>3. m[1] = a /\ m[2] = b /\ m[3] = c /\ m = [n \in 1 .. 3 |-> m[n]]
  OBVIOUS
<1> HIDE DEF m, s
<1>4. Marks(m, s) /\ m[Len(s) + 1] = c
  BY <1>2, <1>3 DEF Marks
<1>5. \A n \in 1 .. Len(s) : <<m[n], s[n], m[n + 1]>> \in T
  BY <1>2, <1>3
<1>6. Leads(T, a, s, c)
  BY <1>2, <1>3, <1>4, <1>5 DEF Leads
<1> QED
  BY <1>6 DEF s

LEMMA Leads3 ==
    ASSUME NEW T, NEW a, NEW b, NEW c, NEW d, NEW x, NEW y, NEW z,
           <<a, x, b>> \in T, <<b, y, c>> \in T, <<c, z, d>> \in T
    PROVE  Leads(T, a, <<x, y, z>>, d)
<1>1. <<x, y, z>> = <<x>> \o <<y, z>>
  OBVIOUS
<1> QED
  BY <1>1, Leads1, Leads2, LeadsConcat

LEMMA Leads4 ==
    ASSUME NEW T, NEW a, NEW b, NEW c, NEW d, NEW e,
           NEW x, NEW y, NEW z, NEW v,
           <<a, x, b>> \in T, <<b, y, c>> \in T, <<c, z, d>> \in T,
           <<d, v, e>> \in T
    PROVE  Leads(T, a, <<x, y, z, v>>, e)
<1>1. <<x, y, z, v>> = <<x, y>> \o <<z, v>>
  OBVIOUS
<1> QED
  BY <1>1, Leads2, LeadsConcat

LEMMA Leads5 ==
    ASSUME NEW T, NEW a, NEW b, NEW c, NEW d, NEW e, NEW f,
           NEW x, NEW y, NEW z, NEW v, NEW w,
           <<a, x, b>> \in T, <<b, y, c>> \in T, <<c, z, d>> \in T,
           <<d, v, e>> \in T, <<e, w, f>> \in T
    PROVE  Leads(T, a, <<x, y, z, v, w>>, f)
<1>1. <<x, y, z, v, w>> = <<x, y>> \o <<z, v, w>>
  OBVIOUS
<1> QED
  BY <1>1, Leads2, Leads3, LeadsConcat

LEMMA Leads6 ==
    ASSUME NEW T, NEW a, NEW b, NEW c, NEW d, NEW e, NEW f, NEW g,
           NEW x, NEW y, NEW z, NEW v, NEW w, NEW u,
           <<a, x, b>> \in T, <<b, y, c>> \in T, <<c, z, d>> \in T,
           <<d, v, e>> \in T, <<e, w, f>> \in T, <<f, u, g>> \in T
    PROVE  Leads(T, a, <<x, y, z, v, w, u>>, g)
<1>1. <<x, y, z, v, w, u>> = <<x, y, z>> \o <<v, w, u>>
  OBVIOUS
<1> QED
  BY <1>1, Leads3, LeadsConcat

LEMMA Leads7 ==
    ASSUME NEW T, NEW a, NEW b, NEW c, NEW d, NEW e, NEW f, NEW g, NEW h,
           NEW x, NEW y, NEW z, NEW v, NEW w, NEW u, NEW t,
           <<a, x, b>> \in T, <<b, y, c>> \in T, <<c, z, d>> \in T,
           <<d, v, e>> \in T, <<e, w, f>> \in T, <<f, u, g>> \in T,
           <<g, t, h>> \in T
    PROVE  Leads(T, a, <<x, y, z, v, w, u, t>>, h)
<1>1. <<x, y, z, v, w, u, t>> = <<x, y, z>> \o <<v, w, u, t>>
  OBVIOUS
<1> QED
  BY <1>1, Leads3, Leads4, LeadsConcat

LEMMA LeadsFour7 ==
    ASSUME NEW T, NEW a, NEW b, NEW c,
           NEW x, NEW y, NEW z, NEW v, NEW w, NEW u, NEW t,
           NEW p, NEW q, NEW r, NEW s,
           Leads(T, a, <<x, y, z, v>>, b),
           Leads(T, b, <<w, u, t, p, q, r, s>>, c)
    PROVE  Leads(T, a, <<x, y, z, v, w, u, t, p, q, r, s>>, c)
<1>1. <<x, y, z, v, w, u, t, p, q, r, s>>
          = <<x, y, z, v>> \o <<w, u, t, p, q, r, s>>
  OBVIOUS
<1> QED
  BY <1>1, LeadsConcat

\* Sequences that are composed of several parts.
LEMMA LeadsConcat3 ==
    ASSUME NEW T, NEW a, NEW b, NEW c, NEW d, NEW s, NEW t, NEW u,
           Leads(T, a, s, b), Leads(T, b, t, c), Leads(T, c, u, d)
    PROVE  Leads(T, a, s \o t \o u, d)
BY LeadsConcat

LEMMA LeadsConcat4 ==
    ASSUME NEW T, NEW a, NEW b, NEW c, NEW d, NEW e,
           NEW s, NEW t, NEW u, NEW v,
           Leads(T, a, s, b), Leads(T, b, t, c), Leads(T, c, u, d),
           Leads(T, d, v, e)
    PROVE  Leads(T, a, s \o t \o u \o v, e)
BY LeadsConcat, LeadsConcat3

LEMMA LeadsConcat5 ==
    ASSUME NEW T, NEW a, NEW b, NEW c, NEW d, NEW e, NEW f,
           NEW s, NEW t, NEW u, NEW v, NEW w,
           Leads(T, a, s, b), Leads(T, b, t, c), Leads(T, c, u, d),
           Leads(T, d, v, e), Leads(T, e, w, f)
    PROVE  Leads(T, a, s \o t \o u \o v \o w, f)
BY LeadsConcat, LeadsConcat4

-----------------------------------------------------------------------------
(* Types.                                                                  *)

Harmless == {"target", "owned", "readable", "paired", "stored", "password",
             "fresh", "guard", "login", "held", "known", "present", "trusted",
             "index", "forward", "close", "unchanged", "count"}
IdCall == {"role", "user", "stored", "drop user", "drop role", "owned",
           "readable", "paired", "password", "fresh", "guard", "publish",
           "login", "held", "migrate", "drop secret"}
CaCall == {"target", "trust", "trusted", "copy", "known", "present",
           "drop ca", "migrate ca"}
PlainCall == {"forward", "create", "unchanged", "reset", "bulk", "count",
              "close", "drop topic", "drop index"}
Call == (IdCall \X Id) \cup (CaCall \X Ca)
        \cup ({"index"} \X {"present", "known", "empty"})
        \cup ({"topic"} \X {"", "ours", "known"}) \cup (PlainCall \X {""})
Verb == {"none", "ensure", "rotate", "verify", "setup", "retire", "inspect",
         "migrate", "event-setup", "event-verify", "event-retire"}
Worlds == [profile : Profiles, qa : BOOLEAN, target : [Ca -> BOOLEAN],
           index : {"none", "ours", "other"},
           docs : 0 .. MaxDocuments + Fixture,
           role : [Id -> {"none", "ours", "foreign"}],
           user : [Id -> Int], secret : [Id -> Int], source : [Id -> 0 .. 1],
           ca : [Ca -> Foreign .. MaxRenewals + 1],
           issued : [Ca -> 1 .. MaxRenewals + 1],
           topic : {"none", "ours", "foreign"},
           forward : BOOLEAN, leaked : BOOLEAN]
Runs == [verb : Verb, todo : Seq(Call), phase : {"idle", "running", "undo"},
         report : {"none", "passed", "refused", "failed", "restored",
                   "rollback failed", "killed"},
         pass : [Id -> Int], previous : Int, guarded : BOOLEAN, seen : Nat,
         touched : BOOLEAN, renewed : BOOLEAN, next : Nat, operations : Nat,
         faults : Nat, kills : Nat, renewals : 0 .. MaxRenewals]
\* Every password was drawn, and every CA issued.
WorldDrawn(w, n) ==
    \A i \in Id : w.user[i] \in Foreign .. n /\ w.secret[i] \in Foreign .. n
RunDrawn(r) ==
    /\ r.next >= 2 /\ r.previous \in Foreign .. r.next
    /\ \A i \in Id : r.pass[i] \in Foreign .. r.next
Issued(w, n) == \A c \in Ca : w.issued[c] <= n + 1
Drawn(w, r) ==
    WorldDrawn(w, r.next) /\ RunDrawn(r) /\ Issued(w, r.renewals)

-----------------------------------------------------------------------------
(* Facts, and what the calls make of them.                                 *)

KnowsId(a, w, r, i) ==
    /\ <<"role", i>> \in a => w.role[i] = "ours"
    /\ <<"user", i>> \in a => w.user[i] = r.pass[i]
    /\ <<"positive", i>> \in a => r.pass[i] > 0
    /\ <<"same", i>> \in a => w.secret[i] = r.pass[i]
    /\ <<"kept", i>> \in a => (w.secret[i] > 0 => w.secret[i] = r.pass[i])
    /\ <<"legible", i>> \in a => w.secret[i] # Foreign
    /\ <<"no user", i>> \in a => w.user[i] = None
    /\ <<"no secret", i>> \in a => w.secret[i] = None
KnowsIds(a, w, r) == \A i \in Id : KnowsId(a, w, r, i)
KnowsCas(a, w, r) ==
    \A c \in Ca : <<"current", c>> \in a => r.renewed \/ w.ca[c] = w.issued[c]
KnowsData(a, w, r) ==
    /\ <<"index", "">> \in a => w.index = "ours"
    /\ <<"topic", "">> \in a => w.topic = "ours"
    /\ <<"no index", "">> \in a => w.index = "none"
    /\ <<"no topic", "">> \in a => w.topic = "none"
    /\ <<"few", "">> \in a => w.docs <= MaxDocuments
    /\ <<"untouched", "">> \in a => ~r.touched
Known(a, w, r) == KnowsIds(a, w, r) /\ KnowsCas(a, w, r) /\ KnowsData(a, w, r)

Fact == {"role", "user", "positive", "same", "kept", "legible", "no user",
         "no secret", "current", "index", "topic", "no index", "no topic",
         "few", "untouched"} \X {"", "reader", "writer", "elastic", "kafka"}

\* After the call s, of what was known before it (a) and what it says itself,
\* b is known: what some calls on i make out and others undo.
On(s, calls, i) == s[1] \in calls /\ s[2] = i
Kept(a, s, b, fact, i, makers, breakers) ==
    <<fact, i>> \in b =>
        On(s, makers, i) \/ (<<fact, i>> \in a /\ ~On(s, breakers, i))
OfId(a, s, b, i) ==
    /\ Kept(a, s, b, "role", i, {"role", "stored", "login"}, {"drop role"})
    /\ Kept(a, s, b, "user", i, {"user", "login"},
            {"password", "fresh", "held", "drop user"})
    /\ Kept(a, s, b, "positive", i, {"password", "fresh", "login"}, {"held"})
    /\ Kept(a, s, b, "same", i, {"publish", "held"},
            {"password", "fresh", "migrate", "drop secret"})
    /\ Kept(a, s, b, "kept", i, {"password", "publish", "held"},
            {"fresh", "migrate"})
    /\ Kept(a, s, b, "legible", i, {"readable"}, {"publish", "migrate"})
    /\ Kept(a, s, b, "no user", i, {"drop user"}, {"user"})
    /\ Kept(a, s, b, "no secret", i, {"drop secret"}, {"publish", "migrate"})
OfIds(a, s, b) == \A i \in Id : OfId(a, s, b, i)
OfCas(a, s, b) ==
    \A c \in Ca : Kept(a, s, b, "current", c, {"trust", "copy", "trusted"},
                       {"drop ca", "migrate ca"})
Unchanging(s) ==
    s[1] \in Harmless \/ On(s, {"topic"}, "ours") \/ On(s, {"topic"}, "known")
OfData(a, s, b) ==
    /\ \/ On(s, {"index"}, "present")
       \/ Kept(a, s, b, "index", "", {"count", "unchanged"}, {"drop index"})
    /\ \/ On(s, {"topic"}, "ours")
       \/ Kept(a, s, b, "topic", "", {"topic"}, {"drop topic"})
    /\ Kept(a, s, b, "no index", "", {"drop index"}, {"create"})
    /\ Kept(a, s, b, "no topic", "", {"drop topic"}, {"topic"})
    /\ Kept(a, s, b, "few", "", {"reset"}, {"bulk"})
    /\ <<"untouched", "">> \in b => <<"untouched", "">> \in a /\ Unchanging(s)
Follows(a, s, b) == OfIds(a, s, b) /\ OfCas(a, s, b) /\ OfData(a, s, b)

\* A call that is not refused, as it refuses nothing or because of a.
Sure == {"forward", "fresh", "guard", "password", "role", "user", "create",
         "reset", "bulk", "drop user", "drop role", "drop secret", "drop ca",
         "drop topic", "drop index", "close", "migrate ca"}
Met(a, s) ==
    \/ s[1] \in Sure
    \/ \E i \in Id : /\ On(s, {"stored", "login"}, i)
                     /\ {<<"role", i>>, <<"user", i>>, <<"positive", i>>}
                            \subseteq a
    \/ \E i \in Id : On(s, {"publish"}, i) /\ <<"legible", i>> \in a
    \/ On(s, {"index"}, "present") /\ <<"index", "">> \in a
    \/ \E c \in Ca : On(s, {"trusted"}, c) /\ <<"current", c>> \in a

\* What a script promises (k): to refuse before it changes anything whatever
\* it refuses ("strict", and if no renewed CA matters "final") or the index
\* only ("index"), to keep the logins that it finds ("logins"), to be a
\* rotation, or the undo of one.
Allowed(k, a, s) ==
    /\ "strict" \in k => <<"untouched", "">> \in a \/ Met(a, s)
    /\ "final" \in k => s[1] # "trusted"
    /\ "index" \in k /\ s[1] = "index" => <<"untouched", "">> \in a
    /\ "logins" \in k =>
          /\ s[1] \notin {"drop user", "drop role", "drop secret", "migrate"}
          /\ \A i \in Id : On(s, {"user", "publish"}, i) => <<"kept", i>> \in a
    /\ s[1] \in {"guard", "fresh"} => "rotation" \in k
    /\ "undo" \in k => s[1] \notin {"password", "fresh", "held", "guard"}
    /\ s[1] = "bulk" => <<"few", "">> \in a
Sound(k, a, s, b) == Follows(a, s, b) /\ Allowed(k, a, s)
Moves(k) == {t \in (SUBSET Fact) \X Call \X (SUBSET Fact) :
                Sound(k, t[1], t[2], t[3])}

Promises(profile, verb) ==
    (IF profile = "reader" THEN {"strict"} ELSE {})
    \cup (IF profile = "event" /\ verb = "retire"
          THEN {"strict", "final"} ELSE {})
    \cup (IF profile = "cutover" THEN {"index"} ELSE {})
    \cup (IF verb \in {"ensure", "setup", "event-setup"}
          THEN {"logins"} ELSE {})
    \cup (IF profile = "reader" /\ verb = "rotate" THEN {"rotation"} ELSE {})
Undo == {"undo"}

\* What "passed" says.
LoggedIn(i) == {<<"role", i>>, <<"user", i>>, <<"positive", i>>,
                <<"same", i>>}
Everything == LoggedIn("reader") \cup LoggedIn("writer")
Retired == {<<"no user", "reader">>, <<"no secret", "reader">>,
            <<"no user", "writer">>, <<"no secret", "writer">>,
            <<"no topic", "">>, <<"no index", "">>}
Goal(profile, verb, qa) ==
    CASE profile = "reader" ->
           LoggedIn("reader") \cup {<<"index", "">>}
               \cup (IF qa THEN {<<"current", "elastic">>} ELSE {})
      [] profile = "event" /\ verb # "retire" ->
           Everything \cup {<<"index", "">>, <<"topic", "">>,
                            <<"current", "kafka">>}
      [] profile = "event" /\ verb = "retire" -> Retired
      [] profile = "cutover" /\ verb \in {"ensure", "verify"} -> Everything
      [] profile = "fixture" /\ verb \in {"setup", "verify"} ->
           LoggedIn("reader") \cup {<<"index", "">>}
      [] profile = "fixture" /\ verb \in {"event-setup", "event-verify"} ->
           LoggedIn("writer") \cup {<<"topic", "">>}
      [] OTHER -> {}

-----------------------------------------------------------------------------
(* The invariant.                                                          *)

\* From what is known the calls that are left lead to the goal.
Outlined(k, goal, w, r) ==
    \E a \in SUBSET Fact, b \in SUBSET Fact :
        Known(a, w, r) /\ goal \subseteq b /\ Leads(Moves(k), a, r.todo, b)
Coherent(w, r) ==
    /\ (r.phase = "idle") <=> (r.todo = <<>>)
    /\ r.phase = "idle" => ~w.forward /\ ~r.touched /\ ~r.guarded
    /\ r.phase = "running" =>
          /\ r.verb \in Verbs(w.profile)
          /\ Outlined(Promises(w.profile, r.verb),
                      Goal(w.profile, r.verb, w.qa), w, r)
    /\ r.guarded => w.profile = "reader" /\ r.verb = "rotate"
    /\ r.phase = "undo" =>
          /\ r.verb = "rotate" /\ r.previous > 0
          /\ r.pass["reader"] = r.previous
          /\ Outlined(Undo, LoggedIn("reader"), w, r)
    /\ w.leaked => r.kills > 0 \/ w.profile \in {"cutover", "fixture"}
Good(w, r) == /\ w \in Worlds /\ r \in Runs
              /\ Drawn(w, r) /\ Coherent(w, r)
IInv == Good(world, run)

-----------------------------------------------------------------------------
(* The outlines of the scripts.                                            *)

Begun == {<<"untouched", "">>}
Copied(qa) == IF qa THEN {<<"current", "elastic">>} ELSE {}

Secured(qa) == IF qa THEN {<<"current", "elastic">>} ELSE {<<"untouched", "">>}

\* The calls of a script lead to what "passed" says of it.
Reaches(profile, verb, qa) ==
    \E b \in SUBSET Fact :
        /\ Goal(profile, verb, qa) \subseteq b /\ b # Begun
        /\ Leads(Moves(Promises(profile, verb)), Begun,
                 Script(profile, verb, qa), b)

\* A call that is sound for what is promised moves from mark to mark.
LEMMA Moving ==
    ASSUME NEW k, NEW a \in SUBSET Fact, NEW s \in Call,
           NEW b \in SUBSET Fact, Sound(k, a, s, b)
    PROVE  <<a, s, b>> \in Moves(k)
<1> DEFINE t == <<a, s, b>>
<1>1. t[1] = a /\ t[2] = s /\ t[3] = b
  OBVIOUS
<1>2. t \in (SUBSET Fact) \X Call \X (SUBSET Fact)
  OBVIOUS
<1> HIDE DEF t
<1>3. t \in Moves(k)
  BY <1>1, <1>2 DEF Moves
<1> QED
  BY <1>3 DEF t

\* A call that is made in QA only.
LEMMA LeadsSecure ==
    ASSUME NEW T, NEW qa \in BOOLEAN, NEW a, NEW s, NEW b,
           qa => <<a, s, b>> \in T, ~qa => a = b
    PROVE  Leads(T, a, Secure(qa, s), b)
<1>1. CASE qa
  BY <1>1, Leads1 DEF Secure
<1>2. CASE ~qa
  BY <1>2, LeadsNowhere DEF Secure
<1> QED
  BY <1>1, <1>2

\* Role, user, and the check that both are stored.
LEMMA LeadsStored ==
    ASSUME NEW T, NEW i, NEW a, NEW b, NEW c, NEW d,
           <<a, <<"role", i>>, b>> \in T, <<b, <<"user", i>>, c>> \in T,
           <<c, <<"stored", i>>, d>> \in T
    PROVE  Leads(T, a, Stored(i), d)
<1>1. Leads(T, a, Identity(i), c)
  BY Leads2 DEF Identity
<1>2. Leads(T, c, <<<<"stored", i>>>>, d)
  BY Leads1
<1> QED
  BY <1>1, <1>2, LeadsConcat DEF Stored

\* What the outlines name are facts, and calls.
LEMMA Facts ==
    /\ <<"untouched", "">> \in Fact /\ <<"index", "">> \in Fact
    /\ <<"topic", "">> \in Fact /\ <<"no index", "">> \in Fact
    /\ <<"no topic", "">> \in Fact /\ <<"few", "">> \in Fact
    /\ <<"current", "elastic">> \in Fact /\ <<"current", "kafka">> \in Fact
    /\ <<"legible", "reader">> \in Fact /\ <<"kept", "reader">> \in Fact
    /\ <<"kept", "writer">> \in Fact /\ <<"positive", "reader">> \in Fact
    /\ <<"positive", "writer">> \in Fact /\ <<"role", "reader">> \in Fact
    /\ <<"role", "writer">> \in Fact /\ <<"user", "reader">> \in Fact
    /\ <<"user", "writer">> \in Fact /\ <<"same", "reader">> \in Fact
    /\ <<"same", "writer">> \in Fact /\ <<"no user", "reader">> \in Fact
    /\ <<"no user", "writer">> \in Fact
    /\ <<"no secret", "reader">> \in Fact
    /\ <<"no secret", "writer">> \in Fact
BY DEF Fact

LEMMA Calls ==
    /\ <<"bulk", "">> \in Call /\ <<"close", "">> \in Call
    /\ <<"copy", "elastic">> \in Call /\ <<"copy", "kafka">> \in Call
    /\ <<"count", "">> \in Call /\ <<"create", "">> \in Call
    /\ <<"drop ca", "elastic">> \in Call /\ <<"drop ca", "kafka">> \in Call
    /\ <<"drop index", "">> \in Call /\ <<"drop role", "reader">> \in Call
    /\ <<"drop role", "writer">> \in Call
    /\ <<"drop secret", "reader">> \in Call
    /\ <<"drop secret", "writer">> \in Call /\ <<"drop topic", "">> \in Call
    /\ <<"drop user", "reader">> \in Call
    /\ <<"drop user", "writer">> \in Call /\ <<"forward", "">> \in Call
    /\ <<"fresh", "reader">> \in Call /\ <<"guard", "reader">> \in Call
    /\ <<"held", "reader">> \in Call /\ <<"held", "writer">> \in Call
    /\ <<"index", "empty">> \in Call /\ <<"index", "known">> \in Call
    /\ <<"index", "present">> \in Call /\ <<"known", "kafka">> \in Call
    /\ <<"login", "reader">> \in Call /\ <<"login", "writer">> \in Call
    /\ <<"migrate", "reader">> \in Call /\ <<"migrate", "writer">> \in Call
    /\ <<"migrate ca", "elastic">> \in Call
    /\ <<"migrate ca", "kafka">> \in Call /\ <<"owned", "reader">> \in Call
    /\ <<"owned", "writer">> \in Call /\ <<"paired", "reader">> \in Call
    /\ <<"password", "reader">> \in Call
    /\ <<"password", "writer">> \in Call /\ <<"present", "kafka">> \in Call
    /\ <<"publish", "reader">> \in Call /\ <<"publish", "writer">> \in Call
    /\ <<"readable", "reader">> \in Call
    /\ <<"readable", "writer">> \in Call /\ <<"reset", "">> \in Call
    /\ <<"role", "reader">> \in Call /\ <<"role", "writer">> \in Call
    /\ <<"stored", "reader">> \in Call /\ <<"stored", "writer">> \in Call
    /\ <<"target", "elastic">> \in Call /\ <<"target", "kafka">> \in Call
    /\ <<"topic", "">> \in Call /\ <<"topic", "known">> \in Call
    /\ <<"topic", "ours">> \in Call /\ <<"trust", "elastic">> \in Call
    /\ <<"trusted", "elastic">> \in Call /\ <<"trusted", "kafka">> \in Call
    /\ <<"unchanged", "">> \in Call /\ <<"user", "reader">> \in Call
    /\ <<"user", "writer">> \in Call
BY DEF Call, IdCall, CaCall, PlainCall, Id, Ca

\* The outlines, one per script: k is what the script promises, m0, m1, ...
\* what is known between its calls.  reader_administration.py first.
LEMMA ReaderEnsureOutline ==
    ASSUME NEW qa \in BOOLEAN
    PROVE  Reaches("reader", "ensure", qa)
<1> DEFINE k == {"logins", "strict"}
           m0 == {<<"untouched", "">>}
           m1 == {<<"untouched", "">>, <<"index", "">>}
           m2 == {<<"untouched", "">>, <<"index", "">>,
                  <<"legible", "reader">>}
           m3 == {<<"untouched", "">>, <<"index", "">>,
                  <<"legible", "reader">>, <<"kept", "reader">>,
                  <<"positive", "reader">>}
           m4 == {<<"index", "">>, <<"legible", "reader">>,
                  <<"kept", "reader">>,
                  <<"positive", "reader">>} \cup Secured(qa)
           m5 == {<<"index", "">>, <<"legible", "reader">>,
                  <<"kept", "reader">>, <<"positive", "reader">>,
                  <<"role", "reader">>} \cup Copied(qa)
           m6 == {<<"index", "">>, <<"legible", "reader">>,
                  <<"kept", "reader">>, <<"positive", "reader">>,
                  <<"role", "reader">>, <<"user", "reader">>} \cup Copied(qa)
           m7 == {<<"index", "">>, <<"positive", "reader">>,
                  <<"role", "reader">>, <<"user", "reader">>,
                  <<"same", "reader">>} \cup Copied(qa)
<1>0. /\ m0 \in SUBSET Fact /\ m1 \in SUBSET Fact /\ m2 \in SUBSET Fact
      /\ m3 \in SUBSET Fact /\ m4 \in SUBSET Fact /\ m5 \in SUBSET Fact
      /\ m6 \in SUBSET Fact /\ m7 \in SUBSET Fact
  BY Facts DEF Copied, Secured
<1> USE DEF Id, Ca, Sound, Follows, OfIds, OfId, Kept, On, Unchanging,
            OfCas, OfData, Allowed, Met, Sure, Harmless, Copied, Secured
<1>1. /\ Sound(k, m0, <<"target", "elastic">>, m0)
      /\ Sound(k, m0, <<"forward", "">>, m0)
      /\ Sound(k, m0, <<"index", "present">>, m1)
  OBVIOUS
<1>2. /\ Sound(k, m1, <<"owned", "reader">>, m1)
      /\ Sound(k, m1, <<"readable", "reader">>, m2)
      /\ Sound(k, m2, <<"paired", "reader">>, m2)
      /\ Sound(k, m2, <<"password", "reader">>, m3)
  OBVIOUS
<1>3. /\ qa => Sound(k, m3, <<"trust", "elastic">>, m4)
      /\ ~qa => m3 = m4
  OBVIOUS
<1>4. /\ Sound(k, m4, <<"role", "reader">>, m5)
      /\ Sound(k, m5, <<"user", "reader">>, m6)
      /\ Sound(k, m6, <<"stored", "reader">>, m6)
  OBVIOUS
<1>5. /\ Sound(k, m6, <<"publish", "reader">>, m7)
      /\ Sound(k, m7, <<"login", "reader">>, m7)
      /\ Sound(k, m7, <<"index", "present">>, m7)
  OBVIOUS
<1>6. qa => Sound(k, m7, <<"trusted", "elastic">>, m7)
  OBVIOUS
<1>7. Goal("reader", "ensure", qa) \subseteq m7
  BY DEF Goal, LoggedIn, Everything, Retired
<1>8. <<"index", "">> \in m7 /\ <<"index", "">> \notin m0
  OBVIOUS
<1>9. Promises("reader", "ensure") = k
  BY DEF Promises
<1> HIDE DEF Id, Ca, Sound, Follows, OfIds, OfId, Kept, On, Unchanging,
             OfCas, OfData, Allowed, Met, Sure, Harmless, Copied, Secured, k,
             m0, m1, m2, m3, m4, m5, m6, m7
<1>10. Leads(Moves(k), m0, <<<<"target", "elastic">>, <<"forward", "">>,
                            <<"index", "present">>>>, m1)
  BY <1>0, <1>1, Calls, Moving, Leads3
<1>11. Leads(Moves(k), m1, <<<<"owned", "reader">>, <<"readable", "reader">>,
                            <<"paired", "reader">>,
                            <<"password", "reader">>>>, m3)
  BY <1>0, <1>2, Calls, Moving, Leads4
<1>12. Leads(Moves(k), m3, Secure(qa, <<"trust", "elastic">>), m4)
  BY <1>0, <1>3, Calls, Moving, LeadsSecure
<1>13. Leads(Moves(k), m4, Stored("reader"), m6)
  BY <1>0, <1>4, Calls, Moving, LeadsStored
<1>14. Leads(Moves(k), m6, <<<<"publish", "reader">>, <<"login", "reader">>,
                            <<"index", "present">>>>, m7)
  BY <1>0, <1>5, Calls, Moving, Leads3
<1>15. Leads(Moves(k), m7, Secure(qa, <<"trusted", "elastic">>), m7)
  BY <1>0, <1>6, Calls, Moving, LeadsSecure
<1>16. Leads(Moves(k), m1, ReaderEnsure(qa), m7)
  BY <1>11, <1>12, <1>13, <1>14, <1>15, LeadsConcat5 DEF ReaderEnsure
<1>17. Leads(Moves(k), m0, Script("reader", "ensure", qa), m7)
  BY <1>10, <1>16, LeadsConcat
  DEF Script, ReaderScript, ReaderTarget
<1> QED
  BY <1>0, <1>7, <1>8, <1>9, <1>17 DEF Reaches, Begun, m0

LEMMA ReaderRotateOutline ==
    ASSUME NEW qa \in BOOLEAN
    PROVE  Reaches("reader", "rotate", qa)
<1> DEFINE k == {"rotation", "strict"}
           m0 == {<<"untouched", "">>}
           m1 == {<<"untouched", "">>, <<"index", "">>}
           m2 == {<<"untouched", "">>, <<"index", "">>,
                  <<"legible", "reader">>}
           m3 == {<<"untouched", "">>, <<"index", "">>,
                  <<"legible", "reader">>, <<"positive", "reader">>}
           m4 == {<<"index", "">>, <<"legible", "reader">>,
                  <<"positive", "reader">>} \cup Secured(qa)
           m5 == {<<"index", "">>, <<"legible", "reader">>,
                  <<"positive", "reader">>,
                  <<"role", "reader">>} \cup Copied(qa)
           m6 == {<<"index", "">>, <<"legible", "reader">>,
                  <<"positive", "reader">>, <<"role", "reader">>,
                  <<"user", "reader">>} \cup Copied(qa)
           m7 == {<<"index", "">>, <<"positive", "reader">>,
                  <<"role", "reader">>, <<"user", "reader">>,
                  <<"same", "reader">>} \cup Copied(qa)
<1>0. /\ m0 \in SUBSET Fact /\ m1 \in SUBSET Fact /\ m2 \in SUBSET Fact
      /\ m3 \in SUBSET Fact /\ m4 \in SUBSET Fact /\ m5 \in SUBSET Fact
      /\ m6 \in SUBSET Fact /\ m7 \in SUBSET Fact
  BY Facts DEF Copied, Secured
<1> USE DEF Id, Ca, Sound, Follows, OfIds, OfId, Kept, On, Unchanging,
            OfCas, OfData, Allowed, Met, Sure, Harmless, Copied, Secured
<1>1. /\ Sound(k, m0, <<"target", "elastic">>, m0)
      /\ Sound(k, m0, <<"forward", "">>, m0)
      /\ Sound(k, m0, <<"index", "present">>, m1)
  OBVIOUS
<1>2. /\ Sound(k, m1, <<"owned", "reader">>, m1)
      /\ Sound(k, m1, <<"readable", "reader">>, m2)
      /\ Sound(k, m2, <<"fresh", "reader">>, m3)
  OBVIOUS
<1>3. /\ qa => Sound(k, m3, <<"trust", "elastic">>, m4)
      /\ ~qa => m3 = m4
  OBVIOUS
<1>4. /\ Sound(k, m4, <<"role", "reader">>, m5)
      /\ Sound(k, m5, <<"user", "reader">>, m6)
      /\ Sound(k, m6, <<"stored", "reader">>, m6)
  OBVIOUS
<1>5. /\ Sound(k, m6, <<"guard", "reader">>, m6)
      /\ Sound(k, m6, <<"publish", "reader">>, m7)
      /\ Sound(k, m7, <<"login", "reader">>, m7)
      /\ Sound(k, m7, <<"index", "present">>, m7)
  OBVIOUS
<1>6. qa => Sound(k, m7, <<"trusted", "elastic">>, m7)
  OBVIOUS
<1>7. Goal("reader", "rotate", qa) \subseteq m7
  BY DEF Goal, LoggedIn, Everything, Retired
<1>8. <<"index", "">> \in m7 /\ <<"index", "">> \notin m0
  OBVIOUS
<1>9. Promises("reader", "rotate") = k
  BY DEF Promises
<1> HIDE DEF Id, Ca, Sound, Follows, OfIds, OfId, Kept, On, Unchanging,
             OfCas, OfData, Allowed, Met, Sure, Harmless, Copied, Secured, k,
             m0, m1, m2, m3, m4, m5, m6, m7
<1>10. Leads(Moves(k), m0, <<<<"target", "elastic">>, <<"forward", "">>,
                            <<"index", "present">>>>, m1)
  BY <1>0, <1>1, Calls, Moving, Leads3
<1>11. Leads(Moves(k), m1, <<<<"owned", "reader">>, <<"readable", "reader">>,
                            <<"fresh", "reader">>>>, m3)
  BY <1>0, <1>2, Calls, Moving, Leads3
<1>12. Leads(Moves(k), m3, Secure(qa, <<"trust", "elastic">>), m4)
  BY <1>0, <1>3, Calls, Moving, LeadsSecure
<1>13. Leads(Moves(k), m4, Stored("reader"), m6)
  BY <1>0, <1>4, Calls, Moving, LeadsStored
<1>14. Leads(Moves(k), m6, <<<<"guard", "reader">>, <<"publish", "reader">>,
                            <<"login", "reader">>, <<"index", "present">>>>,
                            m7)
  BY <1>0, <1>5, Calls, Moving, Leads4
<1>15. Leads(Moves(k), m7, Secure(qa, <<"trusted", "elastic">>), m7)
  BY <1>0, <1>6, Calls, Moving, LeadsSecure
<1>16. Leads(Moves(k), m1, ReaderRotate(qa), m7)
  BY <1>11, <1>12, <1>13, <1>14, <1>15, LeadsConcat5 DEF ReaderRotate
<1>17. Leads(Moves(k), m0, Script("reader", "rotate", qa), m7)
  BY <1>10, <1>16, LeadsConcat
  DEF Script, ReaderScript, ReaderTarget
<1> QED
  BY <1>0, <1>7, <1>8, <1>9, <1>17 DEF Reaches, Begun, m0

LEMMA ReaderVerifyOutline ==
    ASSUME NEW qa \in BOOLEAN
    PROVE  Reaches("reader", "verify", qa)
<1> DEFINE k == {"strict"}
           m0 == {<<"untouched", "">>}
           m1 == {<<"untouched", "">>, <<"same", "reader">>}
           m2 == {<<"untouched", "">>, <<"positive", "reader">>,
                  <<"role", "reader">>, <<"user", "reader">>,
                  <<"same", "reader">>}
           m3 == {<<"untouched", "">>, <<"index", "">>,
                  <<"positive", "reader">>, <<"role", "reader">>,
                  <<"user", "reader">>, <<"same", "reader">>}
           m4 == {<<"index", "">>, <<"positive", "reader">>,
                  <<"role", "reader">>, <<"user", "reader">>,
                  <<"same", "reader">>} \cup Secured(qa)
<1>0. /\ m0 \in SUBSET Fact /\ m1 \in SUBSET Fact /\ m2 \in SUBSET Fact
      /\ m3 \in SUBSET Fact /\ m4 \in SUBSET Fact
  BY Facts DEF Copied, Secured
<1> USE DEF Id, Ca, Sound, Follows, OfIds, OfId, Kept, On, Unchanging,
            OfCas, OfData, Allowed, Met, Sure, Harmless, Copied, Secured
<1>1. /\ Sound(k, m0, <<"target", "elastic">>, m0)
      /\ Sound(k, m0, <<"forward", "">>, m0)
      /\ Sound(k, m0, <<"index", "present">>, m0)
  OBVIOUS
<1>2. /\ Sound(k, m0, <<"stored", "reader">>, m0)
      /\ Sound(k, m0, <<"readable", "reader">>, m0)
      /\ Sound(k, m0, <<"held", "reader">>, m1)
      /\ Sound(k, m1, <<"login", "reader">>, m2)
      /\ Sound(k, m2, <<"index", "present">>, m3)
  OBVIOUS
<1>3. /\ qa => Sound(k, m3, <<"trusted", "elastic">>, m4)
      /\ ~qa => m3 = m4
  OBVIOUS
<1>4. Goal("reader", "verify", qa) \subseteq m4
  BY DEF Goal, LoggedIn, Everything, Retired
<1>5. <<"index", "">> \in m4 /\ <<"index", "">> \notin m0
  OBVIOUS
<1>6. Promises("reader", "verify") = k
  BY DEF Promises
<1> HIDE DEF Id, Ca, Sound, Follows, OfIds, OfId, Kept, On, Unchanging,
             OfCas, OfData, Allowed, Met, Sure, Harmless, Copied, Secured, k,
             m0, m1, m2, m3, m4
<1>7. Leads(Moves(k), m0, <<<<"target", "elastic">>, <<"forward", "">>,
                           <<"index", "present">>>>, m0)
  BY <1>0, <1>1, Calls, Moving, Leads3
<1>8. /\ <<m0, <<"stored", "reader">>, m0>> \in Moves(k)
      /\ <<m0, <<"readable", "reader">>, m0>> \in Moves(k)
      /\ <<m0, <<"held", "reader">>, m1>> \in Moves(k)
      /\ <<m1, <<"login", "reader">>, m2>> \in Moves(k)
      /\ <<m2, <<"index", "present">>, m3>> \in Moves(k)
  BY <1>0, <1>2, Calls, Moving
<1>9. Leads(Moves(k), m0, <<<<"stored", "reader">>, <<"readable", "reader">>,
                           <<"held", "reader">>, <<"login", "reader">>,
                           <<"index", "present">>>>, m3)
  BY <1>8, Leads5
<1>10. Leads(Moves(k), m3, Secure(qa, <<"trusted", "elastic">>), m4)
  BY <1>0, <1>3, Calls, Moving, LeadsSecure
<1>11. Leads(Moves(k), m0, ReaderVerify(qa), m4)
  BY <1>9, <1>10, LeadsConcat DEF ReaderVerify
<1>12. Leads(Moves(k), m0, Script("reader", "verify", qa), m4)
  BY <1>7, <1>11, LeadsConcat
  DEF Script, ReaderScript, ReaderTarget
<1> QED
  BY <1>0, <1>4, <1>5, <1>6, <1>12 DEF Reaches, Begun, m0

\* What the handler around the rotation's Secret and checks does.
LEMMA RollbackOutline ==
    \E b \in SUBSET Fact :
        /\ LoggedIn("reader") \subseteq b
        /\ Leads(Moves(Undo), {<<"positive", "reader">>}, ReaderRollback, b)
<1> DEFINE k == {"undo"}
           m0 == {<<"positive", "reader">>}
           m1 == {<<"positive", "reader">>, <<"user", "reader">>}
           m2 == {<<"positive", "reader">>, <<"role", "reader">>,
                  <<"user", "reader">>}
           m3 == {<<"positive", "reader">>, <<"role", "reader">>,
                  <<"user", "reader">>, <<"same", "reader">>}
<1>0. /\ m0 \in SUBSET Fact /\ m1 \in SUBSET Fact /\ m2 \in SUBSET Fact
      /\ m3 \in SUBSET Fact
  BY Facts
<1> USE DEF Id, Ca, Sound, Follows, OfIds, OfId, Kept, On, Unchanging,
            OfCas, OfData, Allowed, Met, Sure, Harmless
<1>1. /\ Sound(k, m0, <<"role", "reader">>, m0)
      /\ Sound(k, m0, <<"user", "reader">>, m1)
      /\ Sound(k, m1, <<"stored", "reader">>, m2)
  OBVIOUS
<1>2. Sound(k, m2, <<"publish", "reader">>, m3)
  OBVIOUS
<1>3. LoggedIn("reader") \subseteq m3
  BY DEF LoggedIn
<1> HIDE DEF Id, Ca, Sound, Follows, OfIds, OfId, Kept, On, Unchanging,
             OfCas, OfData, Allowed, Met, Sure, Harmless, k, m0, m1, m2, m3
<1>4. Leads(Moves(k), m0, Stored("reader"), m2)
  BY <1>0, <1>1, Calls, Moving, LeadsStored
<1>5. Leads(Moves(k), m2, <<<<"publish", "reader">>>>, m3)
  BY <1>0, <1>2, Calls, Moving, Leads1
<1>6. Leads(Moves(k), m0, ReaderRollback, m3)
  BY <1>4, <1>5, LeadsConcat DEF ReaderRollback
<1> QED
  BY <1>0, <1>3, <1>6 DEF k, Undo, m0

\* event_administration.py.
LEMMA EventSetupOutline ==
    ASSUME NEW qa \in BOOLEAN
    PROVE  Reaches("event", "setup", qa)
<1> DEFINE k == {"logins"}
           m0 == {<<"untouched", "">>}
           m1 == {}
           m2 == {<<"kept", "reader">>, <<"positive", "reader">>}
           m3 == {<<"kept", "reader">>, <<"kept", "writer">>,
                  <<"positive", "reader">>, <<"positive", "writer">>}
           m4 == {<<"kept", "reader">>, <<"kept", "writer">>,
                  <<"positive", "reader">>, <<"positive", "writer">>,
                  <<"user", "reader">>}
           m5 == {<<"kept", "reader">>, <<"kept", "writer">>,
                  <<"positive", "reader">>, <<"positive", "writer">>,
                  <<"role", "reader">>, <<"user", "reader">>}
           m6 == {<<"kept", "reader">>, <<"kept", "writer">>,
                  <<"positive", "reader">>, <<"positive", "writer">>,
                  <<"role", "reader">>, <<"user", "reader">>,
                  <<"user", "writer">>}
           m7 == {<<"kept", "reader">>, <<"kept", "writer">>,
                  <<"positive", "reader">>, <<"positive", "writer">>,
                  <<"role", "reader">>, <<"role", "writer">>,
                  <<"user", "reader">>, <<"user", "writer">>}
           m8 == {<<"kept", "writer">>, <<"positive", "reader">>,
                  <<"positive", "writer">>, <<"role", "reader">>,
                  <<"role", "writer">>, <<"user", "reader">>,
                  <<"user", "writer">>, <<"same", "reader">>}
           m9 == {<<"positive", "reader">>, <<"positive", "writer">>,
                  <<"role", "reader">>, <<"role", "writer">>,
                  <<"user", "reader">>, <<"user", "writer">>,
                  <<"same", "reader">>, <<"same", "writer">>}
           m10 == {<<"current", "kafka">>, <<"positive", "reader">>,
                   <<"positive", "writer">>, <<"role", "reader">>,
                   <<"role", "writer">>, <<"user", "reader">>,
                   <<"user", "writer">>, <<"same", "reader">>,
                   <<"same", "writer">>}
           m11 == {<<"topic", "">>, <<"current", "kafka">>,
                   <<"positive", "reader">>, <<"positive", "writer">>,
                   <<"role", "reader">>, <<"role", "writer">>,
                   <<"user", "reader">>, <<"user", "writer">>,
                   <<"same", "reader">>, <<"same", "writer">>}
           m12 == {<<"index", "">>, <<"topic", "">>, <<"current", "kafka">>,
                   <<"positive", "reader">>, <<"positive", "writer">>,
                   <<"role", "reader">>, <<"role", "writer">>,
                   <<"user", "reader">>, <<"user", "writer">>,
                   <<"same", "reader">>, <<"same", "writer">>}
<1>0. /\ m0 \in SUBSET Fact /\ m1 \in SUBSET Fact /\ m2 \in SUBSET Fact
      /\ m3 \in SUBSET Fact /\ m4 \in SUBSET Fact /\ m5 \in SUBSET Fact
      /\ m6 \in SUBSET Fact /\ m7 \in SUBSET Fact /\ m8 \in SUBSET Fact
      /\ m9 \in SUBSET Fact /\ m10 \in SUBSET Fact /\ m11 \in SUBSET Fact
      /\ m12 \in SUBSET Fact
  BY Facts
<1> USE DEF Id, Ca, Sound, Follows, OfIds, OfId, Kept, On, Unchanging,
            OfCas, OfData, Allowed, Met, Sure, Harmless
<1>1. /\ Sound(k, m0, <<"target", "elastic">>, m1)
      /\ Sound(k, m1, <<"target", "kafka">>, m1)
      /\ Sound(k, m1, <<"forward", "">>, m1)
  OBVIOUS
<1>2. /\ Sound(k, m1, <<"index", "known">>, m1)
      /\ Sound(k, m1, <<"create", "">>, m1)
      /\ Sound(k, m1, <<"readable", "reader">>, m1)
      /\ Sound(k, m1, <<"password", "reader">>, m2)
      /\ Sound(k, m2, <<"readable", "writer">>, m2)
      /\ Sound(k, m2, <<"password", "writer">>, m3)
  OBVIOUS
<1>3. /\ Sound(k, m3, <<"role", "reader">>, m3)
      /\ Sound(k, m3, <<"user", "reader">>, m4)
      /\ Sound(k, m4, <<"stored", "reader">>, m5)
  OBVIOUS
<1>4. /\ Sound(k, m5, <<"role", "writer">>, m5)
      /\ Sound(k, m5, <<"user", "writer">>, m6)
      /\ Sound(k, m6, <<"stored", "writer">>, m7)
  OBVIOUS
<1>5. /\ Sound(k, m7, <<"publish", "reader">>, m8)
      /\ Sound(k, m8, <<"publish", "writer">>, m9)
      /\ Sound(k, m9, <<"copy", "kafka">>, m10)
      /\ Sound(k, m10, <<"topic", "">>, m11)
      /\ Sound(k, m11, <<"unchanged", "">>, m12)
  OBVIOUS
<1>6. Goal("event", "setup", qa) \subseteq m12
  BY DEF Goal, LoggedIn, Everything, Retired
<1>7. <<"index", "">> \in m12 /\ <<"index", "">> \notin m0
  OBVIOUS
<1>8. Promises("event", "setup") = k
  BY DEF Promises
<1> HIDE DEF Id, Ca, Sound, Follows, OfIds, OfId, Kept, On, Unchanging,
             OfCas, OfData, Allowed, Met, Sure, Harmless, k, m0, m1, m2, m3,
             m4, m5, m6, m7, m8, m9, m10, m11, m12
<1>9. Leads(Moves(k), m0, <<<<"target", "elastic">>, <<"target", "kafka">>,
                           <<"forward", "">>>>, m1)
  BY <1>0, <1>1, Calls, Moving, Leads3
<1>10. /\ <<m1, <<"index", "known">>, m1>> \in Moves(k)
       /\ <<m1, <<"create", "">>, m1>> \in Moves(k)
       /\ <<m1, <<"readable", "reader">>, m1>> \in Moves(k)
       /\ <<m1, <<"password", "reader">>, m2>> \in Moves(k)
       /\ <<m2, <<"readable", "writer">>, m2>> \in Moves(k)
       /\ <<m2, <<"password", "writer">>, m3>> \in Moves(k)
  BY <1>0, <1>2, Calls, Moving
<1>11. Leads(Moves(k), m1, <<<<"index", "known">>, <<"create", "">>,
                            <<"readable", "reader">>,
                            <<"password", "reader">>,
                            <<"readable", "writer">>,
                            <<"password", "writer">>>>, m3)
  BY <1>10, Leads6
<1>12. Leads(Moves(k), m3, Stored("reader"), m5)
  BY <1>0, <1>3, Calls, Moving, LeadsStored
<1>13. Leads(Moves(k), m5, Stored("writer"), m7)
  BY <1>0, <1>4, Calls, Moving, LeadsStored
<1>14. /\ <<m7, <<"publish", "reader">>, m8>> \in Moves(k)
       /\ <<m8, <<"publish", "writer">>, m9>> \in Moves(k)
       /\ <<m9, <<"copy", "kafka">>, m10>> \in Moves(k)
       /\ <<m10, <<"topic", "">>, m11>> \in Moves(k)
       /\ <<m11, <<"unchanged", "">>, m12>> \in Moves(k)
  BY <1>0, <1>5, Calls, Moving
<1>15. Leads(Moves(k), m7, <<<<"publish", "reader">>,
                            <<"publish", "writer">>, <<"copy", "kafka">>,
                            <<"topic", "">>, <<"unchanged", "">>>>, m12)
  BY <1>14, Leads5
<1>16. Leads(Moves(k), m1, EventSetup, m12)
  BY <1>11, <1>12, <1>13, <1>15, LeadsConcat4 DEF EventSetup
<1>17. Leads(Moves(k), m0, Script("event", "setup", qa), m12)
  BY <1>9, <1>16, LeadsConcat
  DEF Script, EventScript, EventTarget
<1> QED
  BY <1>0, <1>6, <1>7, <1>8, <1>17 DEF Reaches, Begun, m0

LEMMA EventVerifyOutline ==
    ASSUME NEW qa \in BOOLEAN
    PROVE  Reaches("event", "verify", qa)
<1> DEFINE k == {}
           m0 == {<<"untouched", "">>}
           m1 == {}
           m2 == {<<"index", "">>}
           m3 == {<<"index", "">>, <<"topic", "">>}
           m4 == {<<"index", "">>, <<"topic", "">>, <<"same", "reader">>}
           m5 == {<<"index", "">>, <<"topic", "">>, <<"positive", "reader">>,
                  <<"role", "reader">>, <<"user", "reader">>,
                  <<"same", "reader">>}
           m6 == {<<"index", "">>, <<"topic", "">>, <<"positive", "reader">>,
                  <<"role", "reader">>, <<"user", "reader">>,
                  <<"same", "reader">>, <<"same", "writer">>}
           m7 == {<<"index", "">>, <<"topic", "">>, <<"positive", "reader">>,
                  <<"positive", "writer">>, <<"role", "reader">>,
                  <<"role", "writer">>, <<"user", "reader">>,
                  <<"user", "writer">>, <<"same", "reader">>,
                  <<"same", "writer">>}
           m8 == {<<"index", "">>, <<"topic", "">>, <<"current", "kafka">>,
                  <<"positive", "reader">>, <<"positive", "writer">>,
                  <<"role", "reader">>, <<"role", "writer">>,
                  <<"user", "reader">>, <<"user", "writer">>,
                  <<"same", "reader">>, <<"same", "writer">>}
<1>0. /\ m0 \in SUBSET Fact /\ m1 \in SUBSET Fact /\ m2 \in SUBSET Fact
      /\ m3 \in SUBSET Fact /\ m4 \in SUBSET Fact /\ m5 \in SUBSET Fact
      /\ m6 \in SUBSET Fact /\ m7 \in SUBSET Fact /\ m8 \in SUBSET Fact
  BY Facts
<1> USE DEF Id, Ca, Sound, Follows, OfIds, OfId, Kept, On, Unchanging,
            OfCas, OfData, Allowed, Met, Sure, Harmless
<1>1. /\ Sound(k, m0, <<"target", "elastic">>, m1)
      /\ Sound(k, m1, <<"target", "kafka">>, m1)
      /\ Sound(k, m1, <<"forward", "">>, m1)
  OBVIOUS
<1>2. /\ Sound(k, m1, <<"index", "present">>, m2)
      /\ Sound(k, m2, <<"topic", "ours">>, m3)
      /\ Sound(k, m3, <<"stored", "reader">>, m3)
      /\ Sound(k, m3, <<"readable", "reader">>, m3)
  OBVIOUS
<1>3. /\ Sound(k, m3, <<"held", "reader">>, m4)
      /\ Sound(k, m4, <<"login", "reader">>, m5)
      /\ Sound(k, m5, <<"stored", "writer">>, m5)
      /\ Sound(k, m5, <<"readable", "writer">>, m5)
  OBVIOUS
<1>4. /\ Sound(k, m5, <<"held", "writer">>, m6)
      /\ Sound(k, m6, <<"login", "writer">>, m7)
      /\ Sound(k, m7, <<"trusted", "kafka">>, m8)
  OBVIOUS
<1>5. Goal("event", "verify", qa) \subseteq m8
  BY DEF Goal, LoggedIn, Everything, Retired
<1>6. <<"index", "">> \in m8 /\ <<"index", "">> \notin m0
  OBVIOUS
<1>7. Promises("event", "verify") = k
  BY DEF Promises
<1> HIDE DEF Id, Ca, Sound, Follows, OfIds, OfId, Kept, On, Unchanging,
             OfCas, OfData, Allowed, Met, Sure, Harmless, k, m0, m1, m2, m3,
             m4, m5, m6, m7, m8
<1>8. Leads(Moves(k), m0, <<<<"target", "elastic">>, <<"target", "kafka">>,
                           <<"forward", "">>>>, m1)
  BY <1>0, <1>1, Calls, Moving, Leads3
<1>9. /\ <<m1, <<"index", "present">>, m2>> \in Moves(k)
      /\ <<m2, <<"topic", "ours">>, m3>> \in Moves(k)
      /\ <<m3, <<"stored", "reader">>, m3>> \in Moves(k)
      /\ <<m3, <<"readable", "reader">>, m3>> \in Moves(k)
      /\ <<m3, <<"held", "reader">>, m4>> \in Moves(k)
      /\ <<m4, <<"login", "reader">>, m5>> \in Moves(k)
      /\ <<m5, <<"stored", "writer">>, m5>> \in Moves(k)
      /\ <<m5, <<"readable", "writer">>, m5>> \in Moves(k)
      /\ <<m5, <<"held", "writer">>, m6>> \in Moves(k)
      /\ <<m6, <<"login", "writer">>, m7>> \in Moves(k)
      /\ <<m7, <<"trusted", "kafka">>, m8>> \in Moves(k)
  BY <1>0, <1>2, <1>3, <1>4, Calls, Moving
<1>10. Leads(Moves(k), m1, <<<<"index", "present">>, <<"topic", "ours">>,
                            <<"stored", "reader">>, <<"readable", "reader">>,
                            <<"held", "reader">>, <<"login", "reader">>,
                            <<"stored", "writer">>, <<"readable", "writer">>,
                            <<"held", "writer">>, <<"login", "writer">>,
                            <<"trusted", "kafka">>>>, m8)
  BY <1>9, Leads4, Leads7, LeadsFour7
<1>11. Leads(Moves(k), m0, Script("event", "verify", qa), m8)
  BY <1>8, <1>10, LeadsConcat
  DEF Script, EventScript, EventTarget, EventVerify
<1> QED
  BY <1>0, <1>5, <1>6, <1>7, <1>11 DEF Reaches, Begun, m0

LEMMA EventRetireOutline ==
    ASSUME NEW qa \in BOOLEAN
    PROVE  Reaches("event", "retire", qa)
<1> DEFINE k == {"final", "strict"}
           m0 == {<<"untouched", "">>}
           m1 == {}
           m2 == {<<"no user", "writer">>}
           m3 == {<<"no user", "reader">>, <<"no user", "writer">>}
           m4 == {<<"no topic", "">>, <<"no user", "reader">>,
                  <<"no user", "writer">>}
           m5 == {<<"no topic", "">>, <<"no user", "reader">>,
                  <<"no user", "writer">>, <<"no secret", "reader">>}
           m6 == {<<"no topic", "">>, <<"no user", "reader">>,
                  <<"no user", "writer">>, <<"no secret", "reader">>,
                  <<"no secret", "writer">>}
           m7 == {<<"no index", "">>, <<"no topic", "">>,
                  <<"no user", "reader">>, <<"no user", "writer">>,
                  <<"no secret", "reader">>, <<"no secret", "writer">>}
<1>0. /\ m0 \in SUBSET Fact /\ m1 \in SUBSET Fact /\ m2 \in SUBSET Fact
      /\ m3 \in SUBSET Fact /\ m4 \in SUBSET Fact /\ m5 \in SUBSET Fact
      /\ m6 \in SUBSET Fact /\ m7 \in SUBSET Fact
  BY Facts
<1> USE DEF Id, Ca, Sound, Follows, OfIds, OfId, Kept, On, Unchanging,
            OfCas, OfData, Allowed, Met, Sure, Harmless
<1>1. /\ Sound(k, m0, <<"target", "elastic">>, m0)
      /\ Sound(k, m0, <<"target", "kafka">>, m0)
      /\ Sound(k, m0, <<"forward", "">>, m0)
  OBVIOUS
<1>2. /\ Sound(k, m0, <<"index", "known">>, m0)
      /\ Sound(k, m0, <<"owned", "writer">>, m0)
      /\ Sound(k, m0, <<"owned", "reader">>, m0)
      /\ Sound(k, m0, <<"topic", "known">>, m0)
  OBVIOUS
<1>3. /\ Sound(k, m0, <<"readable", "reader">>, m0)
      /\ Sound(k, m0, <<"readable", "writer">>, m0)
      /\ Sound(k, m0, <<"known", "kafka">>, m1)
  OBVIOUS
<1>4. /\ Sound(k, m1, <<"drop user", "writer">>, m2)
      /\ Sound(k, m2, <<"drop role", "writer">>, m2)
  OBVIOUS
<1>5. /\ Sound(k, m2, <<"drop user", "reader">>, m3)
      /\ Sound(k, m3, <<"drop role", "reader">>, m3)
  OBVIOUS
<1>6. /\ Sound(k, m3, <<"drop topic", "">>, m4)
      /\ Sound(k, m4, <<"drop secret", "reader">>, m5)
      /\ Sound(k, m5, <<"drop secret", "writer">>, m6)
      /\ Sound(k, m6, <<"drop ca", "kafka">>, m6)
      /\ Sound(k, m6, <<"drop index", "">>, m7)
  OBVIOUS
<1>7. Goal("event", "retire", qa) \subseteq m7
  BY DEF Goal, LoggedIn, Everything, Retired
<1>8. <<"no index", "">> \in m7 /\ <<"no index", "">> \notin m0
  OBVIOUS
<1>9. Promises("event", "retire") = k
  BY DEF Promises
<1> HIDE DEF Id, Ca, Sound, Follows, OfIds, OfId, Kept, On, Unchanging,
             OfCas, OfData, Allowed, Met, Sure, Harmless, k, m0, m1, m2, m3,
             m4, m5, m6, m7
<1>10. Leads(Moves(k), m0, <<<<"target", "elastic">>, <<"target", "kafka">>,
                            <<"forward", "">>>>, m0)
  BY <1>0, <1>1, Calls, Moving, Leads3
<1>11. /\ <<m0, <<"index", "known">>, m0>> \in Moves(k)
       /\ <<m0, <<"owned", "writer">>, m0>> \in Moves(k)
       /\ <<m0, <<"owned", "reader">>, m0>> \in Moves(k)
       /\ <<m0, <<"topic", "known">>, m0>> \in Moves(k)
       /\ <<m0, <<"readable", "reader">>, m0>> \in Moves(k)
       /\ <<m0, <<"readable", "writer">>, m0>> \in Moves(k)
       /\ <<m0, <<"known", "kafka">>, m1>> \in Moves(k)
  BY <1>0, <1>2, <1>3, Calls, Moving
<1>12. Leads(Moves(k), m0, <<<<"index", "known">>, <<"owned", "writer">>,
                            <<"owned", "reader">>, <<"topic", "known">>,
                            <<"readable", "reader">>,
                            <<"readable", "writer">>, <<"known", "kafka">>>>,
                            m1)
  BY <1>11, Leads7
<1>13. Leads(Moves(k), m1, Withdrawn("writer"), m2)
  BY <1>0, <1>4, Calls, Moving, Leads2 DEF Withdrawn
<1>14. Leads(Moves(k), m2, Withdrawn("reader"), m3)
  BY <1>0, <1>5, Calls, Moving, Leads2 DEF Withdrawn
<1>15. /\ <<m3, <<"drop topic", "">>, m4>> \in Moves(k)
       /\ <<m4, <<"drop secret", "reader">>, m5>> \in Moves(k)
       /\ <<m5, <<"drop secret", "writer">>, m6>> \in Moves(k)
       /\ <<m6, <<"drop ca", "kafka">>, m6>> \in Moves(k)
       /\ <<m6, <<"drop index", "">>, m7>> \in Moves(k)
  BY <1>0, <1>6, Calls, Moving
<1>16. Leads(Moves(k), m3, <<<<"drop topic", "">>,
                            <<"drop secret", "reader">>,
                            <<"drop secret", "writer">>,
                            <<"drop ca", "kafka">>, <<"drop index", "">>>>,
                            m7)
  BY <1>15, Leads5
<1>17. Leads(Moves(k), m0, EventRetire, m7)
  BY <1>12, <1>13, <1>14, <1>16, LeadsConcat4 DEF EventRetire
<1>18. Leads(Moves(k), m0, Script("event", "retire", qa), m7)
  BY <1>10, <1>17, LeadsConcat
  DEF Script, EventScript, EventTarget
<1> QED
  BY <1>0, <1>7, <1>8, <1>9, <1>18 DEF Reaches, Begun, m0

\* cutover_administration.py.
LEMMA CutoverInspectOutline ==
    ASSUME NEW qa \in BOOLEAN
    PROVE  Reaches("cutover", "inspect", qa)
<1> DEFINE k == {"index"}
           m0 == {<<"untouched", "">>}
           m1 == {}
<1>0. m0 \in SUBSET Fact /\ m1 \in SUBSET Fact
  BY Facts
<1> USE DEF Id, Ca, Sound, Follows, OfIds, OfId, Kept, On, Unchanging,
            OfCas, OfData, Allowed, Met, Sure, Harmless
<1>1. /\ Sound(k, m0, <<"target", "elastic">>, m0)
      /\ Sound(k, m0, <<"forward", "">>, m0)
  OBVIOUS
<1>2. Sound(k, m0, <<"index", "known">>, m1)
  OBVIOUS
<1>3. Goal("cutover", "inspect", qa) \subseteq m1
  BY DEF Goal, LoggedIn, Everything, Retired
<1>4. m1 # m0
  OBVIOUS
<1>5. Promises("cutover", "inspect") = k
  BY DEF Promises
<1> HIDE DEF Id, Ca, Sound, Follows, OfIds, OfId, Kept, On, Unchanging,
             OfCas, OfData, Allowed, Met, Sure, Harmless, k, m0, m1
<1>6. Leads(Moves(k), m0, <<<<"target", "elastic">>, <<"forward", "">>>>, m0)
  BY <1>0, <1>1, Calls, Moving, Leads2
<1>7. Leads(Moves(k), m0, <<<<"index", "known">>>>, m1)
  BY <1>0, <1>2, Calls, Moving, Leads1
<1>8. Leads(Moves(k), m0, Script("cutover", "inspect", qa), m1)
  BY <1>6, <1>7, LeadsConcat
  DEF Script, CutoverScript, CutoverTarget
<1> QED
  BY <1>0, <1>3, <1>4, <1>5, <1>8 DEF Reaches, Begun, m0

LEMMA CutoverVerifyOutline ==
    ASSUME NEW qa \in BOOLEAN
    PROVE  Reaches("cutover", "verify", qa)
<1> DEFINE k == {"index"}
           m0 == {<<"untouched", "">>}
           m1 == {<<"untouched", "">>, <<"same", "reader">>}
           m2 == {<<"untouched", "">>, <<"positive", "reader">>,
                  <<"role", "reader">>, <<"user", "reader">>,
                  <<"same", "reader">>}
           m3 == {<<"positive", "reader">>, <<"role", "reader">>,
                  <<"user", "reader">>, <<"same", "reader">>}
           m4 == {<<"positive", "reader">>, <<"role", "reader">>,
                  <<"user", "reader">>, <<"same", "reader">>,
                  <<"same", "writer">>}
           m5 == {<<"positive", "reader">>, <<"positive", "writer">>,
                  <<"role", "reader">>, <<"role", "writer">>,
                  <<"user", "reader">>, <<"user", "writer">>,
                  <<"same", "reader">>, <<"same", "writer">>}
<1>0. /\ m0 \in SUBSET Fact /\ m1 \in SUBSET Fact /\ m2 \in SUBSET Fact
      /\ m3 \in SUBSET Fact /\ m4 \in SUBSET Fact /\ m5 \in SUBSET Fact
  BY Facts
<1> USE DEF Id, Ca, Sound, Follows, OfIds, OfId, Kept, On, Unchanging,
            OfCas, OfData, Allowed, Met, Sure, Harmless
<1>1. /\ Sound(k, m0, <<"target", "elastic">>, m0)
      /\ Sound(k, m0, <<"forward", "">>, m0)
  OBVIOUS
<1>2. /\ Sound(k, m0, <<"held", "reader">>, m1)
      /\ Sound(k, m1, <<"login", "reader">>, m2)
      /\ Sound(k, m2, <<"index", "known">>, m3)
      /\ Sound(k, m3, <<"held", "writer">>, m4)
      /\ Sound(k, m4, <<"login", "writer">>, m5)
  OBVIOUS
<1>3. Goal("cutover", "verify", qa) \subseteq m5
  BY DEF Goal, LoggedIn, Everything, Retired
<1>4. <<"positive", "reader">> \in m5 /\ <<"positive", "reader">> \notin m0
  OBVIOUS
<1>5. Promises("cutover", "verify") = k
  BY DEF Promises
<1> HIDE DEF Id, Ca, Sound, Follows, OfIds, OfId, Kept, On, Unchanging,
             OfCas, OfData, Allowed, Met, Sure, Harmless, k, m0, m1, m2, m3,
             m4, m5
<1>6. Leads(Moves(k), m0, <<<<"target", "elastic">>, <<"forward", "">>>>, m0)
  BY <1>0, <1>1, Calls, Moving, Leads2
<1>7. /\ <<m0, <<"held", "reader">>, m1>> \in Moves(k)
      /\ <<m1, <<"login", "reader">>, m2>> \in Moves(k)
      /\ <<m2, <<"index", "known">>, m3>> \in Moves(k)
      /\ <<m3, <<"held", "writer">>, m4>> \in Moves(k)
      /\ <<m4, <<"login", "writer">>, m5>> \in Moves(k)
  BY <1>0, <1>2, Calls, Moving
<1>8. Leads(Moves(k), m0, <<<<"held", "reader">>, <<"login", "reader">>,
                           <<"index", "known">>, <<"held", "writer">>,
                           <<"login", "writer">>>>, m5)
  BY <1>7, Leads5
<1>9. Leads(Moves(k), m0, Script("cutover", "verify", qa), m5)
  BY <1>6, <1>8, LeadsConcat
  DEF Script, CutoverScript, CutoverTarget, CutoverVerify
<1> QED
  BY <1>0, <1>3, <1>4, <1>5, <1>9 DEF Reaches, Begun, m0

LEMMA CutoverMigrateOutline ==
    ASSUME NEW qa \in BOOLEAN
    PROVE  Reaches("cutover", "migrate", qa)
<1> DEFINE k == {"index"}
           m0 == {<<"untouched", "">>}
           m1 == {}
<1>0. m0 \in SUBSET Fact /\ m1 \in SUBSET Fact
  BY Facts
<1> USE DEF Id, Ca, Sound, Follows, OfIds, OfId, Kept, On, Unchanging,
            OfCas, OfData, Allowed, Met, Sure, Harmless
<1>1. Sound(k, m0, <<"target", "elastic">>, m1)
  OBVIOUS
<1>2. /\ Sound(k, m1, <<"migrate", "reader">>, m1)
      /\ Sound(k, m1, <<"migrate", "writer">>, m1)
      /\ Sound(k, m1, <<"migrate ca", "kafka">>, m1)
  OBVIOUS
<1>3. qa => Sound(k, m1, <<"migrate ca", "elastic">>, m1)
  OBVIOUS
<1>4. Goal("cutover", "migrate", qa) \subseteq m1
  BY DEF Goal, LoggedIn, Everything, Retired
<1>5. m1 # m0
  OBVIOUS
<1>6. Promises("cutover", "migrate") = k
  BY DEF Promises
<1> HIDE DEF Id, Ca, Sound, Follows, OfIds, OfId, Kept, On, Unchanging,
             OfCas, OfData, Allowed, Met, Sure, Harmless, k, m0, m1
<1>7. Leads(Moves(k), m0, <<<<"target", "elastic">>>>, m1)
  BY <1>0, <1>1, Calls, Moving, Leads1
<1>8. Leads(Moves(k), m1, <<<<"migrate", "reader">>, <<"migrate", "writer">>,
                           <<"migrate ca", "kafka">>>>, m1)
  BY <1>0, <1>2, Calls, Moving, Leads3
<1>9. Leads(Moves(k), m1, Secure(qa, <<"migrate ca", "elastic">>), m1)
  BY <1>0, <1>3, Calls, Moving, LeadsSecure
<1>10. Leads(Moves(k), m1, CutoverMigrate(qa), m1)
  BY <1>8, <1>9, LeadsConcat DEF CutoverMigrate
<1>11. Leads(Moves(k), m0, Script("cutover", "migrate", qa), m1)
  BY <1>7, <1>10, LeadsConcat
  DEF Script, CutoverScript
<1> QED
  BY <1>0, <1>4, <1>5, <1>6, <1>11 DEF Reaches, Begun, m0

\* fixture_administration.py.
LEMMA FixtureSetupOutline ==
    ASSUME NEW qa \in BOOLEAN
    PROVE  Reaches("fixture", "setup", qa)
<1> DEFINE k == {"logins"}
           m0 == {<<"untouched", "">>}
           m1 == {}
           m2 == {<<"kept", "reader">>, <<"positive", "reader">>}
           m3 == {<<"kept", "reader">>, <<"positive", "reader">>,
                  <<"role", "reader">>}
           m4 == {<<"kept", "reader">>, <<"positive", "reader">>,
                  <<"role", "reader">>, <<"user", "reader">>}
           m5 == {<<"few", "">>, <<"kept", "reader">>,
                  <<"positive", "reader">>, <<"role", "reader">>,
                  <<"user", "reader">>}
           m6 == {<<"index", "">>, <<"kept", "reader">>,
                  <<"positive", "reader">>, <<"role", "reader">>,
                  <<"user", "reader">>}
           m7 == {<<"index", "">>, <<"positive", "reader">>,
                  <<"role", "reader">>, <<"user", "reader">>,
                  <<"same", "reader">>}
<1>0. /\ m0 \in SUBSET Fact /\ m1 \in SUBSET Fact /\ m2 \in SUBSET Fact
      /\ m3 \in SUBSET Fact /\ m4 \in SUBSET Fact /\ m5 \in SUBSET Fact
      /\ m6 \in SUBSET Fact /\ m7 \in SUBSET Fact
  BY Facts
<1> USE DEF Id, Ca, Sound, Follows, OfIds, OfId, Kept, On, Unchanging,
            OfCas, OfData, Allowed, Met, Sure, Harmless
<1>1. /\ Sound(k, m0, <<"target", "elastic">>, m1)
      /\ Sound(k, m1, <<"forward", "">>, m1)
  OBVIOUS
<1>2. Sound(k, m1, <<"password", "reader">>, m2)
  OBVIOUS
<1>3. /\ Sound(k, m2, <<"role", "reader">>, m3)
      /\ Sound(k, m3, <<"user", "reader">>, m4)
  OBVIOUS
<1>4. /\ Sound(k, m4, <<"create", "">>, m4)
      /\ Sound(k, m4, <<"index", "present">>, m4)
      /\ Sound(k, m4, <<"reset", "">>, m5)
      /\ Sound(k, m5, <<"bulk", "">>, m4)
      /\ Sound(k, m4, <<"count", "">>, m6)
      /\ Sound(k, m6, <<"publish", "reader">>, m7)
  OBVIOUS
<1>5. qa => Sound(k, m7, <<"copy", "elastic">>, m7)
  OBVIOUS
<1>6. Goal("fixture", "setup", qa) \subseteq m7
  BY DEF Goal, LoggedIn, Everything, Retired
<1>7. <<"index", "">> \in m7 /\ <<"index", "">> \notin m0
  OBVIOUS
<1>8. Promises("fixture", "setup") = k
  BY DEF Promises
<1> HIDE DEF Id, Ca, Sound, Follows, OfIds, OfId, Kept, On, Unchanging,
             OfCas, OfData, Allowed, Met, Sure, Harmless, k, m0, m1, m2, m3,
             m4, m5, m6, m7
<1>9. Leads(Moves(k), m0, <<<<"target", "elastic">>, <<"forward", "">>>>, m1)
  BY <1>0, <1>1, Calls, Moving, Leads2
<1>10. Leads(Moves(k), m1, <<<<"password", "reader">>>>, m2)
  BY <1>0, <1>2, Calls, Moving, Leads1
<1>11. Leads(Moves(k), m2, Identity("reader"), m4)
  BY <1>0, <1>3, Calls, Moving, Leads2 DEF Identity
<1>12. /\ <<m4, <<"create", "">>, m4>> \in Moves(k)
       /\ <<m4, <<"index", "present">>, m4>> \in Moves(k)
       /\ <<m4, <<"reset", "">>, m5>> \in Moves(k)
       /\ <<m5, <<"bulk", "">>, m4>> \in Moves(k)
       /\ <<m4, <<"count", "">>, m6>> \in Moves(k)
       /\ <<m6, <<"publish", "reader">>, m7>> \in Moves(k)
  BY <1>0, <1>4, Calls, Moving
<1>13. Leads(Moves(k), m4, <<<<"create", "">>, <<"index", "present">>,
                            <<"reset", "">>, <<"bulk", "">>, <<"count", "">>,
                            <<"publish", "reader">>>>, m7)
  BY <1>12, Leads6
<1>14. Leads(Moves(k), m7, Secure(qa, <<"copy", "elastic">>), m7)
  BY <1>0, <1>5, Calls, Moving, LeadsSecure
<1>15. Leads(Moves(k), m1, FixtureSetup(qa), m7)
  BY <1>10, <1>11, <1>13, <1>14, LeadsConcat4 DEF FixtureSetup
<1>16. Leads(Moves(k), m0, Script("fixture", "setup", qa), m7)
  BY <1>9, <1>15, LeadsConcat
  DEF Script, FixtureScript, CutoverTarget
<1> QED
  BY <1>0, <1>6, <1>7, <1>8, <1>16 DEF Reaches, Begun, m0

LEMMA FixtureVerifyOutline ==
    ASSUME NEW qa \in BOOLEAN
    PROVE  Reaches("fixture", "verify", qa)
<1> DEFINE k == {}
           m0 == {<<"untouched", "">>}
           m1 == {}
           m2 == {<<"same", "reader">>}
           m3 == {<<"positive", "reader">>, <<"role", "reader">>,
                  <<"user", "reader">>, <<"same", "reader">>}
           m4 == {<<"index", "">>, <<"positive", "reader">>,
                  <<"role", "reader">>, <<"user", "reader">>,
                  <<"same", "reader">>}
<1>0. /\ m0 \in SUBSET Fact /\ m1 \in SUBSET Fact /\ m2 \in SUBSET Fact
      /\ m3 \in SUBSET Fact /\ m4 \in SUBSET Fact
  BY Facts
<1> USE DEF Id, Ca, Sound, Follows, OfIds, OfId, Kept, On, Unchanging,
            OfCas, OfData, Allowed, Met, Sure, Harmless
<1>1. /\ Sound(k, m0, <<"target", "elastic">>, m1)
      /\ Sound(k, m1, <<"held", "reader">>, m2)
      /\ Sound(k, m2, <<"forward", "">>, m2)
      /\ Sound(k, m2, <<"login", "reader">>, m3)
      /\ Sound(k, m3, <<"count", "">>, m4)
  OBVIOUS
<1>2. Goal("fixture", "verify", qa) \subseteq m4
  BY DEF Goal, LoggedIn, Everything, Retired
<1>3. <<"index", "">> \in m4 /\ <<"index", "">> \notin m0
  OBVIOUS
<1>4. Promises("fixture", "verify") = k
  BY DEF Promises
<1> HIDE DEF Id, Ca, Sound, Follows, OfIds, OfId, Kept, On, Unchanging,
             OfCas, OfData, Allowed, Met, Sure, Harmless, k, m0, m1, m2, m3,
             m4
<1>5. /\ <<m0, <<"target", "elastic">>, m1>> \in Moves(k)
      /\ <<m1, <<"held", "reader">>, m2>> \in Moves(k)
      /\ <<m2, <<"forward", "">>, m2>> \in Moves(k)
      /\ <<m2, <<"login", "reader">>, m3>> \in Moves(k)
      /\ <<m3, <<"count", "">>, m4>> \in Moves(k)
  BY <1>0, <1>1, Calls, Moving
<1>6. Leads(Moves(k), m0, <<<<"target", "elastic">>, <<"held", "reader">>,
                           <<"forward", "">>, <<"login", "reader">>,
                           <<"count", "">>>>, m4)
  BY <1>5, Leads5
<1>7. Leads(Moves(k), m0, Script("fixture", "verify", qa), m4)
  BY <1>6
  DEF Script, FixtureScript, FixtureVerify
<1> QED
  BY <1>0, <1>2, <1>3, <1>4, <1>7 DEF Reaches, Begun, m0

LEMMA FixtureRetireOutline ==
    ASSUME NEW qa \in BOOLEAN
    PROVE  Reaches("fixture", "retire", qa)
<1> DEFINE k == {}
           m0 == {<<"untouched", "">>}
           m1 == {}
<1>0. m0 \in SUBSET Fact /\ m1 \in SUBSET Fact
  BY Facts
<1> USE DEF Id, Ca, Sound, Follows, OfIds, OfId, Kept, On, Unchanging,
            OfCas, OfData, Allowed, Met, Sure, Harmless
<1>1. /\ Sound(k, m0, <<"target", "elastic">>, m1)
      /\ Sound(k, m1, <<"forward", "">>, m1)
  OBVIOUS
<1>2. Sound(k, m1, <<"drop index", "">>, m1)
  OBVIOUS
<1>3. /\ Sound(k, m1, <<"drop user", "reader">>, m1)
      /\ Sound(k, m1, <<"drop role", "reader">>, m1)
  OBVIOUS
<1>4. /\ Sound(k, m1, <<"close", "">>, m1)
      /\ Sound(k, m1, <<"drop secret", "reader">>, m1)
  OBVIOUS
<1>5. qa => Sound(k, m1, <<"drop ca", "elastic">>, m1)
  OBVIOUS
<1>6. Goal("fixture", "retire", qa) \subseteq m1
  BY DEF Goal, LoggedIn, Everything, Retired
<1>7. m1 # m0
  OBVIOUS
<1>8. Promises("fixture", "retire") = k
  BY DEF Promises
<1> HIDE DEF Id, Ca, Sound, Follows, OfIds, OfId, Kept, On, Unchanging,
             OfCas, OfData, Allowed, Met, Sure, Harmless, k, m0, m1
<1>9. Leads(Moves(k), m0, <<<<"target", "elastic">>, <<"forward", "">>>>, m1)
  BY <1>0, <1>1, Calls, Moving, Leads2
<1>10. Leads(Moves(k), m1, <<<<"drop index", "">>>>, m1)
  BY <1>0, <1>2, Calls, Moving, Leads1
<1>11. Leads(Moves(k), m1, Withdrawn("reader"), m1)
  BY <1>0, <1>3, Calls, Moving, Leads2 DEF Withdrawn
<1>12. Leads(Moves(k), m1, <<<<"close", "">>, <<"drop secret", "reader">>>>,
                            m1)
  BY <1>0, <1>4, Calls, Moving, Leads2
<1>13. Leads(Moves(k), m1, Secure(qa, <<"drop ca", "elastic">>), m1)
  BY <1>0, <1>5, Calls, Moving, LeadsSecure
<1>14. Leads(Moves(k), m1, FixtureRetire(qa), m1)
  BY <1>10, <1>11, <1>12, <1>13, LeadsConcat4 DEF FixtureRetire
<1>15. Leads(Moves(k), m0, Script("fixture", "retire", qa), m1)
  BY <1>9, <1>14, LeadsConcat
  DEF Script, FixtureScript, CutoverTarget
<1> QED
  BY <1>0, <1>6, <1>7, <1>8, <1>15 DEF Reaches, Begun, m0

LEMMA FixtureEventVerifyOutline ==
    ASSUME NEW qa \in BOOLEAN
    PROVE  Reaches("fixture", "event-verify", qa)
<1> DEFINE k == {}
           m0 == {<<"untouched", "">>}
           m1 == {}
           m2 == {<<"topic", "">>}
           m3 == {<<"topic", "">>, <<"same", "writer">>}
           m4 == {<<"topic", "">>, <<"positive", "writer">>,
                  <<"role", "writer">>, <<"user", "writer">>,
                  <<"same", "writer">>}
<1>0. /\ m0 \in SUBSET Fact /\ m1 \in SUBSET Fact /\ m2 \in SUBSET Fact
      /\ m3 \in SUBSET Fact /\ m4 \in SUBSET Fact
  BY Facts
<1> USE DEF Id, Ca, Sound, Follows, OfIds, OfId, Kept, On, Unchanging,
            OfCas, OfData, Allowed, Met, Sure, Harmless
<1>1. /\ Sound(k, m0, <<"target", "elastic">>, m1)
      /\ Sound(k, m1, <<"target", "kafka">>, m1)
  OBVIOUS
<1>2. /\ Sound(k, m1, <<"topic", "ours">>, m2)
      /\ Sound(k, m2, <<"held", "writer">>, m3)
      /\ Sound(k, m3, <<"present", "kafka">>, m3)
      /\ Sound(k, m3, <<"forward", "">>, m3)
      /\ Sound(k, m3, <<"login", "writer">>, m4)
  OBVIOUS
<1>3. Goal("fixture", "event-verify", qa) \subseteq m4
  BY DEF Goal, LoggedIn, Everything, Retired
<1>4. <<"topic", "">> \in m4 /\ <<"topic", "">> \notin m0
  OBVIOUS
<1>5. Promises("fixture", "event-verify") = k
  BY DEF Promises
<1> HIDE DEF Id, Ca, Sound, Follows, OfIds, OfId, Kept, On, Unchanging,
             OfCas, OfData, Allowed, Met, Sure, Harmless, k, m0, m1, m2, m3,
             m4
<1>6. Leads(Moves(k), m0, <<<<"target", "elastic">>, <<"target", "kafka">>>>,
                           m1)
  BY <1>0, <1>1, Calls, Moving, Leads2
<1>7. /\ <<m1, <<"topic", "ours">>, m2>> \in Moves(k)
      /\ <<m2, <<"held", "writer">>, m3>> \in Moves(k)
      /\ <<m3, <<"present", "kafka">>, m3>> \in Moves(k)
      /\ <<m3, <<"forward", "">>, m3>> \in Moves(k)
      /\ <<m3, <<"login", "writer">>, m4>> \in Moves(k)
  BY <1>0, <1>2, Calls, Moving
<1>8. Leads(Moves(k), m1, <<<<"topic", "ours">>, <<"held", "writer">>,
                           <<"present", "kafka">>, <<"forward", "">>,
                           <<"login", "writer">>>>, m4)
  BY <1>7, Leads5
<1>9. Leads(Moves(k), m0, Script("fixture", "event-verify", qa), m4)
  BY <1>6, <1>8, LeadsConcat
  DEF Script, FixtureScript, FixtureEventTarget, FixtureEventVerify
<1> QED
  BY <1>0, <1>3, <1>4, <1>5, <1>9 DEF Reaches, Begun, m0

LEMMA CutoverEnsureOutline ==
    ASSUME NEW qa \in BOOLEAN
    PROVE  Reaches("cutover", "ensure", qa)
<1> DEFINE k == {"index", "logins"}
           m0 == {<<"untouched", "">>}
           m1 == {<<"untouched", "">>, <<"kept", "reader">>,
                  <<"positive", "reader">>}
           m2 == {<<"untouched", "">>, <<"kept", "reader">>,
                  <<"kept", "writer">>, <<"positive", "reader">>,
                  <<"positive", "writer">>}
           m3 == {<<"kept", "reader">>, <<"kept", "writer">>,
                  <<"positive", "reader">>, <<"positive", "writer">>}
           m4 == {<<"kept", "reader">>, <<"kept", "writer">>,
                  <<"positive", "reader">>, <<"positive", "writer">>,
                  <<"role", "reader">>}
           m5 == {<<"kept", "reader">>, <<"kept", "writer">>,
                  <<"positive", "reader">>, <<"positive", "writer">>,
                  <<"role", "reader">>, <<"user", "reader">>}
           m6 == {<<"kept", "reader">>, <<"kept", "writer">>,
                  <<"positive", "reader">>, <<"positive", "writer">>,
                  <<"role", "reader">>, <<"role", "writer">>,
                  <<"user", "reader">>}
           m7 == {<<"kept", "reader">>, <<"kept", "writer">>,
                  <<"positive", "reader">>, <<"positive", "writer">>,
                  <<"role", "reader">>, <<"role", "writer">>,
                  <<"user", "reader">>, <<"user", "writer">>}
           m8 == {<<"kept", "writer">>, <<"positive", "reader">>,
                  <<"positive", "writer">>, <<"role", "reader">>,
                  <<"role", "writer">>, <<"user", "reader">>,
                  <<"user", "writer">>, <<"same", "reader">>}
           m9 == {<<"positive", "reader">>, <<"positive", "writer">>,
                  <<"role", "reader">>, <<"role", "writer">>,
                  <<"user", "reader">>, <<"user", "writer">>,
                  <<"same", "reader">>, <<"same", "writer">>}
<1>0. /\ m0 \in SUBSET Fact /\ m1 \in SUBSET Fact /\ m2 \in SUBSET Fact
      /\ m3 \in SUBSET Fact /\ m4 \in SUBSET Fact /\ m5 \in SUBSET Fact
      /\ m6 \in SUBSET Fact /\ m7 \in SUBSET Fact /\ m8 \in SUBSET Fact
      /\ m9 \in SUBSET Fact
  BY Facts
<1> USE DEF Id, Ca, Sound, Follows, OfIds, OfId, Kept, On, Unchanging,
            OfCas, OfData, Allowed, Met, Sure, Harmless
<1>1. /\ Sound(k, m0, <<"target", "elastic">>, m0)
      /\ Sound(k, m0, <<"forward", "">>, m0)
  OBVIOUS
<1>2. /\ Sound(k, m0, <<"readable", "reader">>, m0)
      /\ Sound(k, m0, <<"password", "reader">>, m1)
      /\ Sound(k, m1, <<"readable", "writer">>, m1)
      /\ Sound(k, m1, <<"password", "writer">>, m2)
  OBVIOUS
<1>3. /\ Sound(k, m2, <<"index", "known">>, m2)
      /\ Sound(k, m2, <<"index", "empty">>, m3)
      /\ Sound(k, m3, <<"create", "">>, m3)
  OBVIOUS
<1>4. /\ Sound(k, m3, <<"role", "reader">>, m4)
      /\ Sound(k, m4, <<"user", "reader">>, m5)
  OBVIOUS
<1>5. /\ Sound(k, m5, <<"role", "writer">>, m6)
      /\ Sound(k, m6, <<"user", "writer">>, m7)
  OBVIOUS
<1>6. /\ Sound(k, m7, <<"publish", "reader">>, m8)
      /\ Sound(k, m8, <<"publish", "writer">>, m9)
  OBVIOUS
<1>7. qa => Sound(k, m9, <<"copy", "elastic">>, m9)
  OBVIOUS
<1>8. Sound(k, m9, <<"copy", "kafka">>, m9)
  OBVIOUS
<1>9. Goal("cutover", "ensure", qa) \subseteq m9
  BY DEF Goal, LoggedIn, Everything, Retired
<1>10. <<"positive", "reader">> \in m9 /\ <<"positive", "reader">> \notin m0
  OBVIOUS
<1>11. Promises("cutover", "ensure") = k
  BY DEF Promises
<1> HIDE DEF Id, Ca, Sound, Follows, OfIds, OfId, Kept, On, Unchanging,
             OfCas, OfData, Allowed, Met, Sure, Harmless, k, m0, m1, m2, m3,
             m4, m5, m6, m7, m8, m9
<1>12. Leads(Moves(k), m0, <<<<"target", "elastic">>, <<"forward", "">>>>,
                            m0)
  BY <1>0, <1>1, Calls, Moving, Leads2
<1>13. Leads(Moves(k), m0, <<<<"readable", "reader">>,
                            <<"password", "reader">>,
                            <<"readable", "writer">>,
                            <<"password", "writer">>>>, m2)
  BY <1>0, <1>2, Calls, Moving, Leads4
<1>14. Leads(Moves(k), m0, CutoverPasswords, m2)
  BY <1>13 DEF CutoverPasswords
<1>15. Leads(Moves(k), m2, <<<<"index", "known">>, <<"index", "empty">>,
                            <<"create", "">>>>, m3)
  BY <1>0, <1>3, Calls, Moving, Leads3
<1>16. Leads(Moves(k), m3, Identity("reader"), m5)
  BY <1>0, <1>4, Calls, Moving, Leads2 DEF Identity
<1>17. Leads(Moves(k), m5, Identity("writer"), m7)
  BY <1>0, <1>5, Calls, Moving, Leads2 DEF Identity
<1>18. Leads(Moves(k), m2, CutoverAccess, m7)
  BY <1>15, <1>16, <1>17, LeadsConcat3 DEF CutoverAccess
<1>19. Leads(Moves(k), m7, <<<<"publish", "reader">>,
                            <<"publish", "writer">>>>, m9)
  BY <1>0, <1>6, Calls, Moving, Leads2
<1>20. Leads(Moves(k), m9, Secure(qa, <<"copy", "elastic">>), m9)
  BY <1>0, <1>7, Calls, Moving, LeadsSecure
<1>21. Leads(Moves(k), m9, <<<<"copy", "kafka">>>>, m9)
  BY <1>0, <1>8, Calls, Moving, Leads1
<1>22. Leads(Moves(k), m0, CutoverEnsure(qa), m9)
  BY <1>14, <1>18, <1>19, <1>20, <1>21, LeadsConcat5 DEF CutoverEnsure
<1>23. Leads(Moves(k), m0, Script("cutover", "ensure", qa), m9)
  BY <1>12, <1>22, LeadsConcat
  DEF Script, CutoverScript, CutoverTarget
<1> QED
  BY <1>0, <1>9, <1>10, <1>11, <1>23 DEF Reaches, Begun, m0

LEMMA FixtureEventSetupOutline ==
    ASSUME NEW qa \in BOOLEAN
    PROVE  Reaches("fixture", "event-setup", qa)
<1> DEFINE k == {"logins"}
           m0 == {<<"untouched", "">>}
           m1 == {}
           m2 == {<<"kept", "writer">>, <<"positive", "writer">>}
           m3 == {<<"kept", "writer">>, <<"positive", "writer">>,
                  <<"role", "writer">>}
           m4 == {<<"kept", "writer">>, <<"positive", "writer">>,
                  <<"role", "writer">>, <<"user", "writer">>}
           m5 == {<<"positive", "writer">>, <<"role", "writer">>,
                  <<"user", "writer">>, <<"same", "writer">>}
           m6 == {<<"topic", "">>, <<"positive", "writer">>,
                  <<"role", "writer">>, <<"user", "writer">>,
                  <<"same", "writer">>}
<1>0. /\ m0 \in SUBSET Fact /\ m1 \in SUBSET Fact /\ m2 \in SUBSET Fact
      /\ m3 \in SUBSET Fact /\ m4 \in SUBSET Fact /\ m5 \in SUBSET Fact
      /\ m6 \in SUBSET Fact
  BY Facts
<1> USE DEF Id, Ca, Sound, Follows, OfIds, OfId, Kept, On, Unchanging,
            OfCas, OfData, Allowed, Met, Sure, Harmless
<1>1. /\ Sound(k, m0, <<"target", "elastic">>, m1)
      /\ Sound(k, m1, <<"target", "kafka">>, m1)
  OBVIOUS
<1>2. Sound(k, m1, <<"forward", "">>, m1)
  OBVIOUS
<1>3. Sound(k, m1, <<"password", "writer">>, m2)
  OBVIOUS
<1>4. /\ Sound(k, m2, <<"role", "writer">>, m3)
      /\ Sound(k, m3, <<"user", "writer">>, m4)
  OBVIOUS
<1>5. /\ Sound(k, m4, <<"publish", "writer">>, m5)
      /\ Sound(k, m5, <<"copy", "kafka">>, m5)
      /\ Sound(k, m5, <<"topic", "">>, m6)
  OBVIOUS
<1>6. Goal("fixture", "event-setup", qa) \subseteq m6
  BY DEF Goal, LoggedIn, Everything, Retired
<1>7. <<"topic", "">> \in m6 /\ <<"topic", "">> \notin m0
  OBVIOUS
<1>8. Promises("fixture", "event-setup") = k
  BY DEF Promises
<1> HIDE DEF Id, Ca, Sound, Follows, OfIds, OfId, Kept, On, Unchanging,
             OfCas, OfData, Allowed, Met, Sure, Harmless, k, m0, m1, m2, m3,
             m4, m5, m6
<1>9. Leads(Moves(k), m0, <<<<"target", "elastic">>, <<"target", "kafka">>>>,
                           m1)
  BY <1>0, <1>1, Calls, Moving, Leads2
<1>10. Leads(Moves(k), m1, <<<<"forward", "">>>>, m1)
  BY <1>0, <1>2, Calls, Moving, Leads1
<1>11. Leads(Moves(k), m1, <<<<"password", "writer">>>>, m2)
  BY <1>0, <1>3, Calls, Moving, Leads1
<1>12. Leads(Moves(k), m2, Identity("writer"), m4)
  BY <1>0, <1>4, Calls, Moving, Leads2 DEF Identity
<1>13. Leads(Moves(k), m4, <<<<"publish", "writer">>, <<"copy", "kafka">>,
                            <<"topic", "">>>>, m6)
  BY <1>0, <1>5, Calls, Moving, Leads3
<1>14. Leads(Moves(k), m1, FixtureEventSetup, m6)
  BY <1>11, <1>12, <1>13, LeadsConcat3 DEF FixtureEventSetup
<1>15. Leads(Moves(k), m0, Script("fixture", "event-setup", qa), m6)
  BY <1>9, <1>10, <1>14, LeadsConcat3
  DEF Script, FixtureScript, FixtureEventTarget
<1> QED
  BY <1>0, <1>6, <1>7, <1>8, <1>15 DEF Reaches, Begun, m0

LEMMA FixtureEventRetireOutline ==
    ASSUME NEW qa \in BOOLEAN
    PROVE  Reaches("fixture", "event-retire", qa)
<1> DEFINE k == {}
           m0 == {<<"untouched", "">>}
           m1 == {}
<1>0. m0 \in SUBSET Fact /\ m1 \in SUBSET Fact
  BY Facts
<1> USE DEF Id, Ca, Sound, Follows, OfIds, OfId, Kept, On, Unchanging,
            OfCas, OfData, Allowed, Met, Sure, Harmless
<1>1. /\ Sound(k, m0, <<"target", "elastic">>, m1)
      /\ Sound(k, m1, <<"target", "kafka">>, m1)
  OBVIOUS
<1>2. Sound(k, m1, <<"forward", "">>, m1)
  OBVIOUS
<1>3. /\ Sound(k, m1, <<"drop user", "writer">>, m1)
      /\ Sound(k, m1, <<"drop role", "writer">>, m1)
  OBVIOUS
<1>4. /\ Sound(k, m1, <<"drop topic", "">>, m1)
      /\ Sound(k, m1, <<"drop secret", "writer">>, m1)
      /\ Sound(k, m1, <<"drop ca", "kafka">>, m1)
  OBVIOUS
<1>5. Goal("fixture", "event-retire", qa) \subseteq m1
  BY DEF Goal, LoggedIn, Everything, Retired
<1>6. m1 # m0
  OBVIOUS
<1>7. Promises("fixture", "event-retire") = k
  BY DEF Promises
<1> HIDE DEF Id, Ca, Sound, Follows, OfIds, OfId, Kept, On, Unchanging,
             OfCas, OfData, Allowed, Met, Sure, Harmless, k, m0, m1
<1>8. Leads(Moves(k), m0, <<<<"target", "elastic">>, <<"target", "kafka">>>>,
                           m1)
  BY <1>0, <1>1, Calls, Moving, Leads2
<1>9. Leads(Moves(k), m1, <<<<"forward", "">>>>, m1)
  BY <1>0, <1>2, Calls, Moving, Leads1
<1>10. Leads(Moves(k), m1, Withdrawn("writer"), m1)
  BY <1>0, <1>3, Calls, Moving, Leads2 DEF Withdrawn
<1>11. Leads(Moves(k), m1, <<<<"drop topic", "">>,
                            <<"drop secret", "writer">>,
                            <<"drop ca", "kafka">>>>, m1)
  BY <1>0, <1>4, Calls, Moving, Leads3
<1>12. Leads(Moves(k), m1, FixtureEventRetire, m1)
  BY <1>10, <1>11, LeadsConcat DEF FixtureEventRetire
<1>13. Leads(Moves(k), m0, Script("fixture", "event-retire", qa), m1)
  BY <1>8, <1>9, <1>12, LeadsConcat3
  DEF Script, FixtureScript, FixtureEventTarget
<1> QED
  BY <1>0, <1>5, <1>6, <1>7, <1>13 DEF Reaches, Begun, m0

\* Whatever a script is run for.
LEMMA EveryScriptReaches ==
    ASSUME NEW profile \in Profiles, NEW verb \in Verbs(profile),
           NEW qa \in BOOLEAN
    PROVE  Reaches(profile, verb, qa)
<1>1. CASE profile = "reader"
  <2>1. verb \in {"ensure", "rotate", "verify"}
    BY <1>1 DEF Verbs
  <2> QED
    BY <1>1, <2>1, ReaderEnsureOutline, ReaderRotateOutline,
       ReaderVerifyOutline
<1>2. CASE profile = "event"
  <2>1. verb \in {"setup", "verify", "retire"}
    BY <1>2 DEF Verbs
  <2> QED
    BY <1>2, <2>1, EventSetupOutline, EventVerifyOutline, EventRetireOutline
<1>3. CASE profile = "cutover"
  <2>1. verb \in {"inspect", "ensure", "verify", "migrate"}
    BY <1>3 DEF Verbs
  <2> QED
    BY <1>3, <2>1, CutoverInspectOutline, CutoverEnsureOutline,
       CutoverVerifyOutline, CutoverMigrateOutline
<1>4. CASE profile = "fixture"
  <2>1. verb \in {"setup", "verify", "retire", "event-setup",
                  "event-verify", "event-retire"}
    BY <1>4 DEF Verbs
  <2> QED
    BY <1>4, <2>1, FixtureSetupOutline, FixtureVerifyOutline,
       FixtureRetireOutline, FixtureEventSetupOutline,
       FixtureEventVerifyOutline, FixtureEventRetireOutline
<1> QED
  BY <1>1, <1>2, <1>3, <1>4 DEF Profiles

\* No script is empty.
LEMMA ScriptsAreNotEmpty ==
    ASSUME NEW profile \in Profiles, NEW verb \in Verbs(profile),
           NEW qa \in BOOLEAN
    PROVE  Script(profile, verb, qa) # <<>>
BY EveryScriptReaches, LeadsNowhere DEF Reaches

-----------------------------------------------------------------------------
(* What a call does to each object, and to what the script remembers.      *)

IdAfter(w, r, s, x, i) ==
    /\ x.role[i] = IF On(s, {"role"}, i) THEN "ours"
                   ELSE IF On(s, {"drop role"}, i) THEN "none" ELSE w.role[i]
    /\ x.user[i] = IF On(s, {"user"}, i) THEN r.pass[i]
                   ELSE IF On(s, {"drop user"}, i) THEN None ELSE w.user[i]
    /\ x.secret[i] = IF On(s, {"publish"}, i) THEN r.pass[i]
                     ELSE IF On(s, {"migrate"}, i) THEN w.source[i]
                     ELSE IF On(s, {"drop secret"}, i) THEN None
                     ELSE w.secret[i]
IdsAfter(w, r, s, x) == \A i \in Id : IdAfter(w, r, s, x, i)
CaAfter(w, s, x, c) ==
    x.ca[c] = IF On(s, {"trust", "copy"}, c) THEN w.issued[c]
              ELSE IF On(s, {"drop ca"}, c) THEN None
              ELSE IF On(s, {"migrate ca"}, c) THEN 1 ELSE w.ca[c]
CasAfter(w, s, x) ==
    x.issued = w.issued /\ \A c \in Ca : CaAfter(w, s, x, c)
Creates(w, s) == On(s, {"create"}, "") /\ w.index = "none"
DataAfter(w, s, x) ==
    /\ x.index = IF On(s, {"drop index"}, "") THEN "none"
                 ELSE IF Creates(w, s) THEN "ours" ELSE w.index
    /\ x.docs = IF On(s, {"drop index", "reset"}, "") \/ Creates(w, s) THEN 0
                ELSE IF On(s, {"bulk"}, "") THEN w.docs + Fixture ELSE w.docs
    /\ x.topic = IF On(s, {"topic"}, "") THEN "ours"
                 ELSE IF On(s, {"drop topic"}, "") THEN "none" ELSE w.topic
    /\ x.profile = w.profile /\ x.qa = w.qa /\ x.leaked = w.leaked
\* Such a call changes nothing but the port-forward.
Untouching(w, s, x) ==
    Unchanging(s) => x = w \/ s[1] \in {"forward", "close"}
After(w, r, s) ==
    LET x == Effect(w, r, s)
    IN /\ x \in Worlds
       /\ IdsAfter(w, r, s, x) /\ CasAfter(w, s, x) /\ DataAfter(w, s, x)
       /\ Untouching(w, s, x)

\* A call is a pair.
LEMMA PairShape ==
    ASSUME NEW A, NEW B, NEW s \in A \X B
    PROVE  s = <<s[1], s[2]>> /\ s[1] \in A /\ s[2] \in B
OBVIOUS

LEMMA CallShape ==
    ASSUME NEW s \in Call
    PROVE  /\ s = <<s[1], s[2]>>
           /\ s[1] \in IdCall => s[2] \in Id
           /\ s[1] \in CaCall => s[2] \in Ca
<1> DEFINE P == s = <<s[1], s[2]>>
<1>1. s \in IdCall \X Id => P /\ s[1] \in IdCall /\ s[2] \in Id
  BY PairShape
<1>2. s \in CaCall \X Ca => P /\ s[1] \in CaCall /\ s[2] \in Ca
  BY PairShape
<1>3. s \in {"index"} \X {"present", "known", "empty"}
         => P /\ s[1] \in {"index"}
  BY PairShape
<1>4. s \in {"topic"} \X {"", "ours", "known"} => P /\ s[1] \in {"topic"}
  <2> DEFINE A == {"topic"}
             B == {"", "ours", "known"}
  <2> HIDE DEF A, B
  <2>1. s \in A \X B => P /\ s[1] \in A
    BY PairShape
  <2> QED
    BY <2>1 DEF A, B
<1>5. s \in PlainCall \X {""} => P /\ s[1] \in PlainCall
  BY PairShape
<1>6. /\ s[1] \in IdCall => s[1] \notin CaCall
      /\ s[1] \in {"index"} \/ s[1] \in {"topic"} \/ s[1] \in PlainCall
            => s[1] \notin IdCall /\ s[1] \notin CaCall
  BY DEF IdCall, CaCall, PlainCall
<1> HIDE DEF P
<1>7. P /\ (s[1] \in IdCall => s[2] \in Id) /\ (s[1] \in CaCall => s[2] \in Ca)
  BY <1>1, <1>2, <1>3, <1>4, <1>5, <1>6 DEF Call
<1> QED
  BY <1>7 DEF P

\* Call by call.
LEMMA RoleCall ==
    ASSUME Bounds, NEW w \in Worlds, NEW r \in Runs, NEW i \in Id
    PROVE  After(w, r, <<"role", i>>)
<1> DEFINE s == <<"role", i>>
           x == [w EXCEPT !.role[i] = "ours"]
<1>1. Effect(w, r, s) = x
  BY DEF Effect
<1>2. x \in Worlds
  BY DEF Worlds
<1>3. IdsAfter(w, r, s, x) /\ CasAfter(w, s, x) /\ DataAfter(w, s, x)
  BY DEF IdsAfter, IdAfter, CasAfter, CaAfter, DataAfter, Creates, On,
         Worlds
<1>4. Untouching(w, s, x)
  BY DEF Untouching, Unchanging, On, Harmless
<1> QED
  BY <1>1, <1>2, <1>3, <1>4 DEF After

LEMMA UserCall ==
    ASSUME Bounds, NEW w \in Worlds, NEW r \in Runs, NEW i \in Id
    PROVE  After(w, r, <<"user", i>>)
<1> DEFINE s == <<"user", i>>
           x == [w EXCEPT !.user[i] = r.pass[i]]
<1>1. Effect(w, r, s) = x
  BY DEF Effect
<1>2. r.pass[i] \in Int
  BY DEF Runs
<1>3. x \in Worlds
  BY <1>2 DEF Worlds
<1>4. IdsAfter(w, r, s, x) /\ CasAfter(w, s, x) /\ DataAfter(w, s, x)
  BY DEF IdsAfter, IdAfter, CasAfter, CaAfter, DataAfter, Creates, On,
         Worlds
<1>5. Untouching(w, s, x)
  BY DEF Untouching, Unchanging, On, Harmless
<1> QED
  BY <1>1, <1>3, <1>4, <1>5 DEF After

LEMMA PublishCall ==
    ASSUME Bounds, NEW w \in Worlds, NEW r \in Runs, NEW i \in Id
    PROVE  After(w, r, <<"publish", i>>)
<1> DEFINE s == <<"publish", i>>
           x == [w EXCEPT !.secret[i] = r.pass[i]]
<1>1. Effect(w, r, s) = x
  BY DEF Effect
<1>2. r.pass[i] \in Int
  BY DEF Runs
<1>3. x \in Worlds
  BY <1>2 DEF Worlds
<1>4. IdsAfter(w, r, s, x) /\ CasAfter(w, s, x) /\ DataAfter(w, s, x)
  BY DEF IdsAfter, IdAfter, CasAfter, CaAfter, DataAfter, Creates, On,
         Worlds
<1>5. Untouching(w, s, x)
  BY DEF Untouching, Unchanging, On, Harmless
<1> QED
  BY <1>1, <1>3, <1>4, <1>5 DEF After

LEMMA MigrateCall ==
    ASSUME Bounds, NEW w \in Worlds, NEW r \in Runs, NEW i \in Id
    PROVE  After(w, r, <<"migrate", i>>)
<1> DEFINE s == <<"migrate", i>>
           x == [w EXCEPT !.secret[i] = w.source[i]]
<1>1. Effect(w, r, s) = x
  BY DEF Effect
<1>2. w.source[i] \in Int
  BY DEF Worlds
<1>3. x \in Worlds
  BY <1>2 DEF Worlds
<1>4. IdsAfter(w, r, s, x) /\ CasAfter(w, s, x) /\ DataAfter(w, s, x)
  BY DEF IdsAfter, IdAfter, CasAfter, CaAfter, DataAfter, Creates, On,
         Worlds
<1>5. Untouching(w, s, x)
  BY DEF Untouching, Unchanging, On, Harmless
<1> QED
  BY <1>1, <1>3, <1>4, <1>5 DEF After

LEMMA DropUserCall ==
    ASSUME Bounds, NEW w \in Worlds, NEW r \in Runs, NEW i \in Id
    PROVE  After(w, r, <<"drop user", i>>)
<1> DEFINE s == <<"drop user", i>>
           x == [w EXCEPT !.user[i] = None]
<1>1. Effect(w, r, s) = x
  BY DEF Effect
<1>2. None \in Int
  BY DEF None
<1>3. x \in Worlds
  BY <1>2 DEF Worlds
<1>4. IdsAfter(w, r, s, x) /\ CasAfter(w, s, x) /\ DataAfter(w, s, x)
  BY DEF IdsAfter, IdAfter, CasAfter, CaAfter, DataAfter, Creates, On,
         Worlds
<1>5. Untouching(w, s, x)
  BY DEF Untouching, Unchanging, On, Harmless
<1> QED
  BY <1>1, <1>3, <1>4, <1>5 DEF After

LEMMA DropRoleCall ==
    ASSUME Bounds, NEW w \in Worlds, NEW r \in Runs, NEW i \in Id
    PROVE  After(w, r, <<"drop role", i>>)
<1> DEFINE s == <<"drop role", i>>
           x == [w EXCEPT !.role[i] = "none"]
<1>1. Effect(w, r, s) = x
  BY DEF Effect
<1>2. x \in Worlds
  BY DEF Worlds
<1>3. IdsAfter(w, r, s, x) /\ CasAfter(w, s, x) /\ DataAfter(w, s, x)
  BY DEF IdsAfter, IdAfter, CasAfter, CaAfter, DataAfter, Creates, On,
         Worlds
<1>4. Untouching(w, s, x)
  BY DEF Untouching, Unchanging, On, Harmless
<1> QED
  BY <1>1, <1>2, <1>3, <1>4 DEF After

LEMMA DropSecretCall ==
    ASSUME Bounds, NEW w \in Worlds, NEW r \in Runs, NEW i \in Id
    PROVE  After(w, r, <<"drop secret", i>>)
<1> DEFINE s == <<"drop secret", i>>
           x == [w EXCEPT !.secret[i] = None]
<1>1. Effect(w, r, s) = x
  BY DEF Effect
<1>2. None \in Int
  BY DEF None
<1>3. x \in Worlds
  BY <1>2 DEF Worlds
<1>4. IdsAfter(w, r, s, x) /\ CasAfter(w, s, x) /\ DataAfter(w, s, x)
  BY DEF IdsAfter, IdAfter, CasAfter, CaAfter, DataAfter, Creates, On,
         Worlds
<1>5. Untouching(w, s, x)
  BY DEF Untouching, Unchanging, On, Harmless
<1> QED
  BY <1>1, <1>3, <1>4, <1>5 DEF After

LEMMA TrustCall ==
    ASSUME Bounds, NEW w \in Worlds, NEW r \in Runs, NEW c \in Ca
    PROVE  After(w, r, <<"trust", c>>)
<1> DEFINE s == <<"trust", c>>
           x == [w EXCEPT !.ca[c] = w.issued[c]]
<1>1. Effect(w, r, s) = x
  BY DEF Effect
<1>2. w.issued[c] \in Foreign .. MaxRenewals + 1
  BY DEF Worlds, Bounds, Foreign
<1>3. x \in Worlds
  BY <1>2 DEF Worlds
<1>4. IdsAfter(w, r, s, x) /\ CasAfter(w, s, x) /\ DataAfter(w, s, x)
  BY DEF IdsAfter, IdAfter, CasAfter, CaAfter, DataAfter, Creates, On,
         Worlds
<1>5. Untouching(w, s, x)
  BY DEF Untouching, Unchanging, On, Harmless
<1> QED
  BY <1>1, <1>3, <1>4, <1>5 DEF After

LEMMA CopyCall ==
    ASSUME Bounds, NEW w \in Worlds, NEW r \in Runs, NEW c \in Ca
    PROVE  After(w, r, <<"copy", c>>)
<1> DEFINE s == <<"copy", c>>
           x == [w EXCEPT !.ca[c] = w.issued[c]]
<1>1. Effect(w, r, s) = x
  BY DEF Effect
<1>2. w.issued[c] \in Foreign .. MaxRenewals + 1
  BY DEF Worlds, Bounds, Foreign
<1>3. x \in Worlds
  BY <1>2 DEF Worlds
<1>4. IdsAfter(w, r, s, x) /\ CasAfter(w, s, x) /\ DataAfter(w, s, x)
  BY DEF IdsAfter, IdAfter, CasAfter, CaAfter, DataAfter, Creates, On,
         Worlds
<1>5. Untouching(w, s, x)
  BY DEF Untouching, Unchanging, On, Harmless
<1> QED
  BY <1>1, <1>3, <1>4, <1>5 DEF After

LEMMA DropCaCall ==
    ASSUME Bounds, NEW w \in Worlds, NEW r \in Runs, NEW c \in Ca
    PROVE  After(w, r, <<"drop ca", c>>)
<1> DEFINE s == <<"drop ca", c>>
           x == [w EXCEPT !.ca[c] = None]
<1>1. Effect(w, r, s) = x
  BY DEF Effect
<1>2. None \in Foreign .. MaxRenewals + 1
  BY DEF None, Bounds, Foreign
<1>3. x \in Worlds
  BY <1>2 DEF Worlds
<1>4. IdsAfter(w, r, s, x) /\ CasAfter(w, s, x) /\ DataAfter(w, s, x)
  BY DEF IdsAfter, IdAfter, CasAfter, CaAfter, DataAfter, Creates, On,
         Worlds
<1>5. Untouching(w, s, x)
  BY DEF Untouching, Unchanging, On, Harmless
<1> QED
  BY <1>1, <1>3, <1>4, <1>5 DEF After

LEMMA MigrateCaCall ==
    ASSUME Bounds, NEW w \in Worlds, NEW r \in Runs, NEW c \in Ca
    PROVE  After(w, r, <<"migrate ca", c>>)
<1> DEFINE s == <<"migrate ca", c>>
           x == [w EXCEPT !.ca[c] = 1]
<1>1. Effect(w, r, s) = x
  BY DEF Effect
<1>2. 1 \in Foreign .. MaxRenewals + 1
  BY DEF Bounds, Foreign
<1>3. x \in Worlds
  BY <1>2 DEF Worlds
<1>4. IdsAfter(w, r, s, x) /\ CasAfter(w, s, x) /\ DataAfter(w, s, x)
  BY DEF IdsAfter, IdAfter, CasAfter, CaAfter, DataAfter, Creates, On,
         Worlds
<1>5. Untouching(w, s, x)
  BY DEF Untouching, Unchanging, On, Harmless
<1> QED
  BY <1>1, <1>3, <1>4, <1>5 DEF After

LEMMA CreateCall ==
    ASSUME Bounds, NEW w \in Worlds, NEW r \in Runs
    PROVE  After(w, r, <<"create", "">>)
<1> DEFINE s == <<"create", "">>
           x == IF w.index = "none"
                THEN [w EXCEPT !.index = "ours", !.docs = 0] ELSE w
<1>1. Effect(w, r, s) = x
  BY DEF Effect
<1>2. 0 \in 0 .. MaxDocuments + Fixture
  BY DEF Bounds, Fixture
<1>3. x \in Worlds
  BY <1>2 DEF Worlds
<1>4. IdsAfter(w, r, s, x) /\ CasAfter(w, s, x) /\ DataAfter(w, s, x)
  BY DEF IdsAfter, IdAfter, CasAfter, CaAfter, DataAfter, Creates, On,
         Worlds
<1>5. Untouching(w, s, x)
  BY DEF Untouching, Unchanging, On, Harmless
<1> QED
  BY <1>1, <1>3, <1>4, <1>5 DEF After

LEMMA ForwardCall ==
    ASSUME Bounds, NEW w \in Worlds, NEW r \in Runs
    PROVE  After(w, r, <<"forward", "">>)
<1> DEFINE s == <<"forward", "">>
           x == [w EXCEPT !.forward = TRUE]
<1>1. Effect(w, r, s) = x
  BY DEF Effect
<1>2. x \in Worlds
  BY DEF Worlds
<1>3. IdsAfter(w, r, s, x) /\ CasAfter(w, s, x) /\ DataAfter(w, s, x)
  BY DEF IdsAfter, IdAfter, CasAfter, CaAfter, DataAfter, Creates, On,
         Worlds
<1>4. Untouching(w, s, x)
  BY DEF Untouching, Unchanging, On, Harmless
<1> QED
  BY <1>1, <1>2, <1>3, <1>4 DEF After

LEMMA CloseCall ==
    ASSUME Bounds, NEW w \in Worlds, NEW r \in Runs
    PROVE  After(w, r, <<"close", "">>)
<1> DEFINE s == <<"close", "">>
           x == [w EXCEPT !.forward = FALSE]
<1>1. Effect(w, r, s) = x
  BY DEF Effect
<1>2. x \in Worlds
  BY DEF Worlds
<1>3. IdsAfter(w, r, s, x) /\ CasAfter(w, s, x) /\ DataAfter(w, s, x)
  BY DEF IdsAfter, IdAfter, CasAfter, CaAfter, DataAfter, Creates, On,
         Worlds
<1>4. Untouching(w, s, x)
  BY DEF Untouching, Unchanging, On, Harmless
<1> QED
  BY <1>1, <1>2, <1>3, <1>4 DEF After

LEMMA ResetCall ==
    ASSUME Bounds, NEW w \in Worlds, NEW r \in Runs
    PROVE  After(w, r, <<"reset", "">>)
<1> DEFINE s == <<"reset", "">>
           x == [w EXCEPT !.docs = 0]
<1>1. Effect(w, r, s) = x
  BY DEF Effect
<1>2. 0 \in 0 .. MaxDocuments + Fixture
  BY DEF Bounds, Fixture
<1>3. x \in Worlds
  BY <1>2 DEF Worlds
<1>4. IdsAfter(w, r, s, x) /\ CasAfter(w, s, x) /\ DataAfter(w, s, x)
  BY DEF IdsAfter, IdAfter, CasAfter, CaAfter, DataAfter, Creates, On,
         Worlds
<1>5. Untouching(w, s, x)
  BY DEF Untouching, Unchanging, On, Harmless
<1> QED
  BY <1>1, <1>3, <1>4, <1>5 DEF After

LEMMA BulkCall ==
    ASSUME Bounds, NEW w \in Worlds, NEW r \in Runs, w.docs <= MaxDocuments
    PROVE  After(w, r, <<"bulk", "">>)
<1> DEFINE s == <<"bulk", "">>
           x == [w EXCEPT !.docs = w.docs + Fixture]
<1>1. Effect(w, r, s) = x
  BY DEF Effect
<1>2. w.docs + Fixture \in 0 .. MaxDocuments + Fixture
  BY DEF Bounds, Fixture, Worlds
<1>3. x \in Worlds
  BY <1>2 DEF Worlds
<1>4. IdsAfter(w, r, s, x) /\ CasAfter(w, s, x) /\ DataAfter(w, s, x)
  BY DEF IdsAfter, IdAfter, CasAfter, CaAfter, DataAfter, Creates, On,
         Worlds
<1>5. Untouching(w, s, x)
  BY DEF Untouching, Unchanging, On, Harmless
<1> QED
  BY <1>1, <1>3, <1>4, <1>5 DEF After

LEMMA DropTopicCall ==
    ASSUME Bounds, NEW w \in Worlds, NEW r \in Runs
    PROVE  After(w, r, <<"drop topic", "">>)
<1> DEFINE s == <<"drop topic", "">>
           x == [w EXCEPT !.topic = "none"]
<1>1. Effect(w, r, s) = x
  BY DEF Effect
<1>2. x \in Worlds
  BY DEF Worlds
<1>3. IdsAfter(w, r, s, x) /\ CasAfter(w, s, x) /\ DataAfter(w, s, x)
  BY DEF IdsAfter, IdAfter, CasAfter, CaAfter, DataAfter, Creates, On,
         Worlds
<1>4. Untouching(w, s, x)
  BY DEF Untouching, Unchanging, On, Harmless
<1> QED
  BY <1>1, <1>2, <1>3, <1>4 DEF After

LEMMA DropIndexCall ==
    ASSUME Bounds, NEW w \in Worlds, NEW r \in Runs
    PROVE  After(w, r, <<"drop index", "">>)
<1> DEFINE s == <<"drop index", "">>
           x == [w EXCEPT !.index = "none", !.docs = 0]
<1>1. Effect(w, r, s) = x
  BY DEF Effect
<1>2. 0 \in 0 .. MaxDocuments + Fixture
  BY DEF Bounds, Fixture
<1>3. x \in Worlds
  BY <1>2 DEF Worlds
<1>4. IdsAfter(w, r, s, x) /\ CasAfter(w, s, x) /\ DataAfter(w, s, x)
  BY DEF IdsAfter, IdAfter, CasAfter, CaAfter, DataAfter, Creates, On,
         Worlds
<1>5. Untouching(w, s, x)
  BY DEF Untouching, Unchanging, On, Harmless
<1> QED
  BY <1>1, <1>3, <1>4, <1>5 DEF After

LEMMA TopicCall ==
    ASSUME Bounds, NEW w \in Worlds, NEW r \in Runs
    PROVE  After(w, r, <<"topic", "">>)
<1> DEFINE s == <<"topic", "">>
           x == [w EXCEPT !.topic = "ours"]
<1>1. Effect(w, r, s) = x
  BY DEF Effect
<1>2. x \in Worlds
  BY DEF Worlds
<1>3. IdsAfter(w, r, s, x) /\ CasAfter(w, s, x) /\ DataAfter(w, s, x)
  BY DEF IdsAfter, IdAfter, CasAfter, CaAfter, DataAfter, Creates, On,
         Worlds
<1>4. Untouching(w, s, x)
  BY DEF Untouching, Unchanging, On, Harmless
<1> QED
  BY <1>1, <1>2, <1>3, <1>4 DEF After

LEMMA TopicReadCall ==
    ASSUME Bounds, NEW w \in Worlds, NEW r \in Runs,
           NEW t \in {"ours", "known"}
    PROVE  After(w, r, <<"topic", t>>)
<1> DEFINE s == <<"topic", t>>
           x == w
<1>1. Effect(w, r, s) = x
  BY DEF Effect
<1>2. x \in Worlds
  BY DEF Worlds
<1>3. IdsAfter(w, r, s, x) /\ CasAfter(w, s, x) /\ DataAfter(w, s, x)
  BY DEF IdsAfter, IdAfter, CasAfter, CaAfter, DataAfter, Creates, On,
         Worlds
<1>4. Untouching(w, s, x)
  BY DEF Untouching, Unchanging, On, Harmless
<1> QED
  BY <1>1, <1>2, <1>3, <1>4 DEF After

LEMMA IndexReadCall ==
    ASSUME Bounds, NEW w \in Worlds, NEW r \in Runs,
           NEW t \in {"present", "known", "empty"}
    PROVE  After(w, r, <<"index", t>>)
<1> DEFINE s == <<"index", t>>
           x == w
<1>1. Effect(w, r, s) = x
  BY DEF Effect
<1>2. x \in Worlds
  BY DEF Worlds
<1>3. IdsAfter(w, r, s, x) /\ CasAfter(w, s, x) /\ DataAfter(w, s, x)
  BY DEF IdsAfter, IdAfter, CasAfter, CaAfter, DataAfter, Creates, On,
         Worlds
<1>4. Untouching(w, s, x)
  BY DEF Untouching, Unchanging, On, Harmless
<1> QED
  BY <1>1, <1>2, <1>3, <1>4 DEF After

LEMMA IdReadCall ==
    ASSUME Bounds, NEW w \in Worlds, NEW r \in Runs,
           NEW t \in {"stored", "owned", "readable", "paired", "password",
                      "fresh", "guard", "login", "held"}, NEW i \in Id
    PROVE  After(w, r, <<t, i>>)
<1> DEFINE s == <<t, i>>
           x == w
<1>1. Effect(w, r, s) = x
  BY DEF Effect
<1>2. x \in Worlds
  BY DEF Worlds
<1>3. IdsAfter(w, r, s, x) /\ CasAfter(w, s, x) /\ DataAfter(w, s, x)
  BY DEF IdsAfter, IdAfter, CasAfter, CaAfter, DataAfter, Creates, On,
         Worlds
<1>4. Untouching(w, s, x)
  BY DEF Untouching, Unchanging, On, Harmless
<1> QED
  BY <1>1, <1>2, <1>3, <1>4 DEF After

LEMMA CaReadCall ==
    ASSUME Bounds, NEW w \in Worlds, NEW r \in Runs,
           NEW t \in {"target", "trusted", "known", "present"}, NEW c \in Ca
    PROVE  After(w, r, <<t, c>>)
<1> DEFINE s == <<t, c>>
           x == w
<1>1. Effect(w, r, s) = x
  BY DEF Effect
<1>2. x \in Worlds
  BY DEF Worlds
<1>3. IdsAfter(w, r, s, x) /\ CasAfter(w, s, x) /\ DataAfter(w, s, x)
  BY DEF IdsAfter, IdAfter, CasAfter, CaAfter, DataAfter, Creates, On,
         Worlds
<1>4. Untouching(w, s, x)
  BY DEF Untouching, Unchanging, On, Harmless
<1> QED
  BY <1>1, <1>2, <1>3, <1>4 DEF After

LEMMA CountCall ==
    ASSUME Bounds, NEW w \in Worlds, NEW r \in Runs,
           NEW t \in {"unchanged", "count"}
    PROVE  After(w, r, <<t, "">>)
<1> DEFINE s == <<t, "">>
           x == w
<1>1. Effect(w, r, s) = x
  BY DEF Effect
<1>2. x \in Worlds
  BY DEF Worlds
<1>3. IdsAfter(w, r, s, x) /\ CasAfter(w, s, x) /\ DataAfter(w, s, x)
  BY DEF IdsAfter, IdAfter, CasAfter, CaAfter, DataAfter, Creates, On,
         Worlds
<1>4. Untouching(w, s, x)
  BY DEF Untouching, Unchanging, On, Harmless
<1> QED
  BY <1>1, <1>2, <1>3, <1>4 DEF After

\* Whatever the call.
LEMMA EveryCall ==
    ASSUME Bounds, NEW w \in Worlds, NEW r \in Runs, NEW s \in Call,
           s[1] = "bulk" => w.docs <= MaxDocuments
    PROVE  After(w, r, s)
<1>1. s = <<s[1], s[2]>>
  BY CallShape
<1>2. CASE s[1] \in IdCall
  <2>1. s[2] \in Id
    BY <1>2, CallShape
  <2>2. \/ s[1] \in {"role", "user", "publish", "migrate", "drop user",
                     "drop role", "drop secret"}
        \/ s[1] \in {"stored", "owned", "readable", "paired", "password",
                     "fresh", "guard", "login", "held"}
    BY <1>2 DEF IdCall
  <2>3. CASE s[1] \in {"stored", "owned", "readable", "paired", "password",
                       "fresh", "guard", "login", "held"}
    <3>1. After(w, r, <<s[1], s[2]>>)
      BY <2>1, <2>3, IdReadCall
    <3> QED
      BY <3>1, <1>1
  <2>4. CASE s[1] \in {"role", "user", "publish", "migrate", "drop user",
                       "drop role", "drop secret"}
    <3>1. /\ After(w, r, <<"role", s[2]>>) /\ After(w, r, <<"user", s[2]>>)
          /\ After(w, r, <<"publish", s[2]>>)
          /\ After(w, r, <<"migrate", s[2]>>)
          /\ After(w, r, <<"drop user", s[2]>>)
          /\ After(w, r, <<"drop role", s[2]>>)
          /\ After(w, r, <<"drop secret", s[2]>>)
      BY <2>1, RoleCall, UserCall, PublishCall, MigrateCall, DropUserCall,
         DropRoleCall, DropSecretCall
    <3> QED
      BY <3>1, <1>1, <2>4
  <2> QED
    BY <2>2, <2>3, <2>4
<1>3. CASE s[1] \in CaCall
  <2>1. s[2] \in Ca
    BY <1>3, CallShape
  <2>2. \/ s[1] \in {"trust", "copy", "drop ca", "migrate ca"}
        \/ s[1] \in {"target", "trusted", "known", "present"}
    BY <1>3 DEF CaCall
  <2>3. CASE s[1] \in {"target", "trusted", "known", "present"}
    <3>1. After(w, r, <<s[1], s[2]>>)
      BY <2>1, <2>3, CaReadCall
    <3> QED
      BY <3>1, <1>1
  <2>4. CASE s[1] \in {"trust", "copy", "drop ca", "migrate ca"}
    <3>1. /\ After(w, r, <<"trust", s[2]>>) /\ After(w, r, <<"copy", s[2]>>)
          /\ After(w, r, <<"drop ca", s[2]>>)
          /\ After(w, r, <<"migrate ca", s[2]>>)
      BY <2>1, TrustCall, CopyCall, DropCaCall, MigrateCaCall
    <3> QED
      BY <3>1, <1>1, <2>4
  <2> QED
    BY <2>2, <2>3, <2>4
<1>4. CASE s \in {"index"} \X {"present", "known", "empty"}
  <2>1. s[1] = "index" /\ s[2] \in {"present", "known", "empty"}
    BY <1>4
  <2>2. After(w, r, <<"index", s[2]>>)
    BY <2>1, IndexReadCall
  <2> QED
    BY <1>1, <2>1, <2>2
<1>5. CASE s \in {"topic"} \X {"", "ours", "known"}
  <2>1. s[1] = "topic" /\ s[2] \in {"", "ours", "known"}
    BY <1>5
  <2>2. s[2] \in {"ours", "known"} => After(w, r, <<"topic", s[2]>>)
    BY TopicReadCall
  <2> QED
    BY <1>1, <2>1, <2>2, TopicCall
<1>6. CASE s \in PlainCall \X {""}
  <2>1. s[1] \in PlainCall /\ s[2] = ""
    BY <1>6
  <2>2. \/ s[1] \in {"forward", "create", "reset", "bulk", "close",
                     "drop topic", "drop index"}
        \/ s[1] \in {"unchanged", "count"}
    BY <2>1 DEF PlainCall
  <2>3. s[1] \in {"unchanged", "count"} => After(w, r, <<s[1], "">>)
    BY CountCall
  <2>4. /\ After(w, r, <<"forward", "">>) /\ After(w, r, <<"create", "">>)
        /\ After(w, r, <<"reset", "">>) /\ After(w, r, <<"close", "">>)
        /\ After(w, r, <<"drop topic", "">>)
        /\ After(w, r, <<"drop index", "">>)
        /\ s[1] = "bulk" => After(w, r, <<"bulk", "">>)
    BY ForwardCall, CreateCall, ResetCall, CloseCall, DropTopicCall,
       DropIndexCall, BulkCall
  <2> QED
    BY <1>1, <2>1, <2>2, <2>3, <2>4
<1>7. \/ s[1] \in IdCall \/ s[1] \in CaCall
      \/ s \in {"index"} \X {"present", "known", "empty"}
      \/ s \in {"topic"} \X {"", "ours", "known"}
      \/ s \in PlainCall \X {""}
  <2>1. s \in IdCall \X Id => s[1] \in IdCall
    OBVIOUS
  <2>2. s \in CaCall \X Ca => s[1] \in CaCall
    OBVIOUS
  <2> QED
    BY <2>1, <2>2 DEF Call
<1> QED
  BY <1>2, <1>3, <1>4, <1>5, <1>6, <1>7

\* What the script remembers.
Noted(r, y) ==
    /\ y.verb = r.verb /\ y.phase = r.phase /\ y.report = r.report
    /\ y.todo = r.todo /\ y.touched = r.touched /\ y.renewed = r.renewed
    /\ y.operations = r.operations /\ y.faults = r.faults
    /\ y.kills = r.kills /\ y.renewals = r.renewals
PassAfter(w, r, s, y, i) ==
    y.pass[i] = IF On(s, {"password"}, i) THEN Password(w, r, i)
                ELSE IF On(s, {"fresh"}, i) THEN r.next
                ELSE IF On(s, {"held"}, i) THEN w.secret[i] ELSE r.pass[i]
RunAfter(w, r, s, y) ==
    /\ \A i \in Id : PassAfter(w, r, s, y, i)
    /\ y.next = IF s[1] \in {"password", "fresh"} THEN r.next + 1 ELSE r.next
    /\ IF s[1] = "fresh" THEN \E i \in Id : y.previous = w.secret[i]
       ELSE y.previous = r.previous
    /\ y.guarded = (r.guarded \/ s[1] = "guard")
Remembers(w, r, s) ==
    LET y == Learns(w, r, s)
    IN y \in Runs /\ Noted(r, y) /\ RunAfter(w, r, s, y)

\* The calls that a script remembers.
LEMMA PasswordDrawn ==
    ASSUME NEW w \in Worlds, NEW r \in Runs, NEW i \in Id, r.next \in Nat
    PROVE  Password(w, r, i) \in Int /\ r.next + 1 \in Nat
<1>1. w.secret[i] \in Int
  BY DEF Worlds
<1> QED
  BY <1>1 DEF Password

LEMMA PasswordLearnt ==
    ASSUME NEW w \in Worlds, NEW r \in Runs, NEW i \in Id
    PROVE  Remembers(w, r, <<"password", i>>)
<1> DEFINE p == Password(w, r, i)
           n == r.next + 1
           y == [r EXCEPT !.pass[i] = p, !.next = n]
<1>1. Learns(w, r, <<"password", i>>) = y
  BY DEF Learns
<1>2. p \in Int /\ n \in Nat
  BY PasswordDrawn DEF Runs
<1>3. RunAfter(w, r, <<"password", i>>, y)
  <2> HIDE DEF p
  <2>1. /\ y.pass = [r.pass EXCEPT ![i] = p] /\ y.next = n
        /\ y.previous = r.previous /\ y.guarded = r.guarded
        /\ r.guarded \in BOOLEAN /\ r.pass \in [Id -> Int]
    BY DEF Runs
  <2> HIDE DEF y
  <2> QED
    BY <2>1 DEF RunAfter, PassAfter, On, p
<1> HIDE DEF p, n
<1>4. y \in Runs /\ Noted(r, y)
  BY <1>2 DEF Runs, Noted
<1> QED
  BY <1>1, <1>3, <1>4 DEF Remembers

LEMMA FreshLearnt ==
    ASSUME NEW w \in Worlds, NEW r \in Runs, NEW i \in Id
    PROVE  Remembers(w, r, <<"fresh", i>>)
<1> DEFINE p == w.secret[i]
           n == r.next + 1
           y == [r EXCEPT !.previous = p, !.pass[i] = r.next, !.next = n]
<1>1. Learns(w, r, <<"fresh", i>>) = y
  BY DEF Learns
<1>2. p \in Int /\ n \in Nat /\ r.next \in Nat
  <2>1. r.next \in Nat
    BY DEF Runs
  <2>2. p \in Int
    BY DEF Worlds
  <2> QED
    BY <2>1, <2>2
<1>3. RunAfter(w, r, <<"fresh", i>>, y)
  <2>1. /\ y.pass = [r.pass EXCEPT ![i] = r.next] /\ y.next = n
        /\ y.guarded = r.guarded /\ y.previous = w.secret[i]
        /\ r.guarded \in BOOLEAN /\ r.pass \in [Id -> Int]
    BY DEF Runs
  <2> HIDE DEF y
  <2> QED
    BY <2>1 DEF RunAfter, PassAfter, On
<1>4. r.next \in Int
  BY <1>2
<1> HIDE DEF p, n
<1>5. y \in Runs /\ Noted(r, y)
  BY <1>2, <1>4 DEF Runs, Noted
<1> QED
  BY <1>1, <1>3, <1>5 DEF Remembers

LEMMA HeldLearnt ==
    ASSUME NEW w \in Worlds, NEW r \in Runs, NEW i \in Id
    PROVE  Remembers(w, r, <<"held", i>>)
<1> DEFINE p == w.secret[i]
           y == [r EXCEPT !.pass[i] = p]
<1>1. Learns(w, r, <<"held", i>>) = y
  BY DEF Learns
<1>2. p \in Int
  BY DEF Worlds
<1>3. RunAfter(w, r, <<"held", i>>, y)
  <2>1. /\ y.pass = [r.pass EXCEPT ![i] = p] /\ y.next = r.next
        /\ y.guarded = r.guarded /\ y.previous = r.previous
        /\ r.guarded \in BOOLEAN /\ r.pass \in [Id -> Int]
    BY DEF Runs
  <2> HIDE DEF y
  <2> QED
    BY <2>1 DEF RunAfter, PassAfter, On
<1> HIDE DEF p
<1>4. y \in Runs /\ Noted(r, y)
  BY <1>2 DEF Runs, Noted
<1> QED
  BY <1>1, <1>3, <1>4 DEF Remembers

\* Whatever the call.
LEMMA EveryCallLearnt ==
    ASSUME NEW w \in Worlds, NEW r \in Runs, NEW s \in Call
    PROVE  Remembers(w, r, s)
<1>1. s = <<s[1], s[2]>> /\ (s[1] \in IdCall => s[2] \in Id)
  BY CallShape
<1>2. CASE s[1] \in {"password", "fresh", "held"}
  <2>1. s[2] \in Id
    BY <1>1, <1>2 DEF IdCall
  <2>2. /\ Remembers(w, r, <<"password", s[2]>>)
        /\ Remembers(w, r, <<"fresh", s[2]>>)
        /\ Remembers(w, r, <<"held", s[2]>>)
    BY <2>1, PasswordLearnt, FreshLearnt, HeldLearnt
  <2> QED
    BY <1>1, <1>2, <2>2
<1>3. r.guarded \in BOOLEAN
  BY DEF Runs
<1>4. CASE s[1] = "guard"
  <2> DEFINE y == [r EXCEPT !.guarded = TRUE]
  <2>1. Learns(w, r, s) = y
    BY <1>4 DEF Learns
  <2>2. y \in Runs /\ Noted(r, y)
    BY DEF Runs, Noted
  <2>3. y.pass = r.pass /\ y.next = r.next /\ y.previous = r.previous
        /\ y.guarded = TRUE
    BY DEF Runs
  <2> HIDE DEF y
  <2>4. RunAfter(w, r, s, y)
    BY <1>4, <2>3 DEF RunAfter, PassAfter, On
  <2> QED
    BY <2>1, <2>2, <2>4 DEF Remembers
<1>5. CASE s[1] = "create"
  <2> DEFINE y == [r EXCEPT !.seen = w.docs]
  <2>1. Learns(w, r, s) = y
    BY <1>5 DEF Learns
  <2>2. w.docs \in Nat
    BY DEF Worlds
  <2>3. y \in Runs /\ Noted(r, y)
    BY <2>2 DEF Runs, Noted
  <2>4. y.pass = r.pass /\ y.next = r.next /\ y.previous = r.previous
        /\ y.guarded = r.guarded
    BY DEF Runs
  <2> HIDE DEF y
  <2>5. RunAfter(w, r, s, y)
    BY <1>3, <1>5, <2>4 DEF RunAfter, PassAfter, On
  <2> QED
    BY <2>1, <2>3, <2>5 DEF Remembers
<1>6. CASE s[1] \notin {"password", "fresh", "held", "guard", "create"}
  <2>1. Learns(w, r, s) = r
    BY <1>6 DEF Learns
  <2>2. Noted(r, r)
    BY DEF Noted
  <2>3. RunAfter(w, r, s, r)
    BY <1>3, <1>6 DEF RunAfter, PassAfter, On
  <2> QED
    BY <2>1, <2>2, <2>3 DEF Remembers
<1> QED
  BY <1>2, <1>4, <1>5, <1>6

\* What is known after a call that was accepted.
\* y is what the script knows then: its undo's passwords apart from it.
LEMMA IdsKnown ==
    ASSUME NEW w \in Worlds, NEW r \in Runs, NEW s \in Call,
           NEW x \in Worlds, NEW y \in Runs, IdsAfter(w, r, s, x),
           RunAfter(w, r, s, y), AcceptsObject(w, r, s), r.next >= 2,
           NEW a, NEW b, KnowsIds(a, w, r), OfIds(a, s, b)
    PROVE  KnowsIds(b, x, y)
<1> SUFFICES ASSUME NEW i \in Id PROVE KnowsId(b, x, y, i)
  BY DEF KnowsIds
<1>1. /\ KnowsId(a, w, r, i) /\ OfId(a, s, b, i)
      /\ IdAfter(w, r, s, x, i) /\ PassAfter(w, r, s, y, i)
  BY DEF KnowsIds, OfIds, IdsAfter, RunAfter
<1>2. /\ On(s, {"stored"}, i) => w.role[i] = "ours"
      /\ On(s, {"login"}, i) => /\ w.role[i] = "ours" /\ r.pass[i] > 0
                               /\ w.user[i] = r.pass[i]
      /\ On(s, {"readable"}, i) => w.secret[i] # Foreign
  BY DEF AcceptsObject, IsStored, LogsIn, On
<1>3. /\ Password(w, r, i) > 0
      /\ w.secret[i] > 0 => Password(w, r, i) = w.secret[i]
  <2>1. w.secret[i] \in Int
    BY DEF Worlds
  <2>2. r.next \in Nat
    BY DEF Runs
  <2> QED
    BY <2>1, <2>2 DEF Password
<1>13. r.next > 0
  <2>1. r.next \in Nat
    BY DEF Runs
  <2> QED
    BY <2>1
<1>12. None # Foreign /\ ~(None > 0)
  BY DEF None, Foreign
<1>4. <<"role", i>> \in b => x.role[i] = "ours"
  BY <1>1, <1>2 DEF KnowsId, OfId, Kept, On, IdAfter
<1>5. <<"user", i>> \in b => x.user[i] = y.pass[i]
  BY <1>1, <1>2 DEF KnowsId, OfId, Kept, On, IdAfter, PassAfter
<1>6. <<"positive", i>> \in b => y.pass[i] > 0
  BY <1>1, <1>2, <1>3, <1>13 DEF KnowsId, OfId, Kept, On, PassAfter
<1>7. <<"same", i>> \in b => x.secret[i] = y.pass[i]
  BY <1>1 DEF KnowsId, OfId, Kept, On, IdAfter, PassAfter
<1>8. <<"kept", i>> \in b => (x.secret[i] > 0 => x.secret[i] = y.pass[i])
  BY <1>1, <1>3, <1>12
  DEF KnowsId, OfId, Kept, On, IdAfter, PassAfter
<1>9. <<"legible", i>> \in b => x.secret[i] # Foreign
  BY <1>1, <1>2, <1>12 DEF KnowsId, OfId, Kept, On, IdAfter
<1>10. <<"no user", i>> \in b => x.user[i] = None
  BY <1>1 DEF KnowsId, OfId, Kept, On, IdAfter
<1>11. <<"no secret", i>> \in b => x.secret[i] = None
  BY <1>1 DEF KnowsId, OfId, Kept, On, IdAfter
<1> QED
  BY <1>4, <1>5, <1>6, <1>7, <1>8, <1>9, <1>10, <1>11 DEF KnowsId

\* The same of the CAs.
LEMMA CasKnown ==
    ASSUME NEW w \in Worlds, NEW r \in Runs, NEW s \in Call,
           NEW x \in Worlds, NEW y \in Runs, CasAfter(w, s, x),
           y.renewed = r.renewed, AcceptsTrust(w, r, s),
           NEW a, NEW b, KnowsCas(a, w, r), OfCas(a, s, b)
    PROVE  KnowsCas(b, x, y)
<1> SUFFICES ASSUME NEW c \in Ca, <<"current", c>> \in b, ~y.renewed
             PROVE  x.ca[c] = x.issued[c]
  BY DEF KnowsCas
<1>1. Kept(a, s, b, "current", c, {"trust", "copy", "trusted"},
           {"drop ca", "migrate ca"})
  BY DEF OfCas
<1>2. On(s, {"trusted"}, c) => w.ca[c] = w.issued[c]
  BY DEF AcceptsTrust, On
<1>3. <<"current", c>> \in a => w.ca[c] = w.issued[c]
  BY DEF KnowsCas
<1>4. x.issued = w.issued /\ CaAfter(w, s, x, c)
  BY DEF CasAfter
<1> QED
  BY <1>1, <1>2, <1>3, <1>4 DEF Kept, On, CaAfter

\* The same of the index, the topic, and whether anything was changed.
LEMMA DataKnown ==
    ASSUME Bounds, NEW w \in Worlds, NEW r \in Runs, NEW s \in Call,
           NEW x \in Worlds, NEW y \in Runs, DataAfter(w, s, x),
           Untouching(w, s, x), AcceptsData(w, r, s),
           y.touched = (r.touched \/ (/\ x # w
                                      /\ s[1] \notin {"forward", "close"})),
           NEW a, NEW b, KnowsData(a, w, r), OfData(a, s, b)
    PROVE  KnowsData(b, x, y)
<1>0. s = <<s[1], s[2]>>
  BY CallShape
<1>1. /\ On(s, {"index"}, "present") \/ On(s, {"count", "unchanged"}, "")
            => w.index = "ours"
      /\ On(s, {"topic"}, "ours") => w.topic = "ours"
  <2>1. s = <<"index", "present">> => w.index = "ours"
    BY DEF AcceptsData
  <2>2. ASSUME s[1] = "count" PROVE w.index = "ours"
    <3>1. s = <<"count", s[2]>>
      BY <1>0, <2>2
    <3>2. AcceptsData(w, r, <<"count", s[2]>>) => w.index = "ours"
      BY DEF AcceptsData
    <3> QED
      BY <3>1, <3>2
  <2>3. ASSUME s[1] = "unchanged" PROVE w.index = "ours"
    <3>1. s = <<"unchanged", s[2]>>
      BY <1>0, <2>3
    <3>2. AcceptsData(w, r, <<"unchanged", s[2]>>) => w.index = "ours"
      BY DEF AcceptsData
    <3> QED
      BY <3>1, <3>2
  <2>4. s = <<"topic", "ours">> => w.topic = "ours"
    BY DEF AcceptsData
  <2> QED
    BY <1>0, <2>1, <2>2, <2>3, <2>4 DEF On
<1>2. <<"index", "">> \in b => x.index = "ours"
  BY <1>1 DEF KnowsData, OfData, Kept, On, DataAfter, Creates
<1>3. <<"topic", "">> \in b => x.topic = "ours"
  BY <1>1 DEF KnowsData, OfData, Kept, On, DataAfter, Creates
<1>4. <<"no index", "">> \in b => x.index = "none"
  BY DEF KnowsData, OfData, Kept, On, DataAfter, Creates
<1>5. <<"no topic", "">> \in b => x.topic = "none"
  BY DEF KnowsData, OfData, Kept, On, DataAfter, Creates
<1>7. <<"few", "">> \in b => x.docs <= MaxDocuments
  <2>1. w.docs \in Nat
    BY DEF Worlds
  <2>2. MaxDocuments \in Nat
    BY DEF Bounds
  <2>3. ~On(s, {"bulk"}, "") => x.docs = 0 \/ x.docs = w.docs
    BY DEF DataAfter
  <2>4. On(s, {"reset"}, "") => x.docs = 0
    BY DEF DataAfter, On
  <2>5. /\ <<"few", "">> \in b =>
              \/ On(s, {"reset"}, "")
              \/ <<"few", "">> \in a /\ ~On(s, {"bulk"}, "")
        /\ <<"few", "">> \in a => w.docs <= MaxDocuments
    BY DEF KnowsData, OfData, Kept
  <2> DEFINE d == w.docs
             e == x.docs
  <2> HIDE DEF d, e
  <2>6. e = d \/ e = 0 => (d <= MaxDocuments => e <= MaxDocuments)
    BY <2>1, <2>2 DEF d
  <2>7. e = 0 => e <= MaxDocuments
    BY <2>2
  <2> QED
    BY <2>3, <2>4, <2>5, <2>6, <2>7 DEF d, e
<1>6. <<"untouched", "">> \in b => ~y.touched
  <2>1. SUFFICES ASSUME <<"untouched", "">> \in b PROVE ~y.touched
    OBVIOUS
  <2>2. /\ ~r.touched
        /\ Unchanging(s)
    BY <2>1 DEF KnowsData, OfData
  <2>3. x = w \/ s[1] \in {"forward", "close"}
    BY <2>2 DEF Untouching
  <2> QED
    BY <2>2, <2>3
<1> QED
  BY <1>2, <1>3, <1>4, <1>5, <1>6, <1>7 DEF KnowsData

-----------------------------------------------------------------------------
(* The invariant over the steps.                                           *)

\* The calls that are left of an outline.
LEMMA EveryStepIsACall ==
    ASSUME NEW k, NEW a, NEW t, NEW b, Leads(Moves(k), a, t, b)
    PROVE  t \in Seq(Call)
<1>1. StepsOf(Moves(k)) \subseteq Call
  BY DEF StepsOf, Moves
<1>2. t \in Seq(StepsOf(Moves(k)))
  BY DEF Leads
<1> HIDE DEF Moves
<1> QED
  BY <1>1, <1>2

\* The next call of an outline, and what is left of it.
LEMMA NextCall ==
    ASSUME NEW k, NEW a, NEW t, NEW b, Leads(Moves(k), a, t, b), t # <<>>
    PROVE  /\ Head(t) \in Call /\ t \in Seq(Call)
           /\ \E m \in SUBSET Fact : /\ Sound(k, a, Head(t), m)
                                     /\ Leads(Moves(k), m, Tail(t), b)
<1>1. PICK m : <<a, Head(t), m>> \in Moves(k) /\ Leads(Moves(k), m, Tail(t), b)
  BY LeadsHead
<1>2. /\ Head(t) \in Call /\ m \in SUBSET Fact /\ Sound(k, a, Head(t), m)
  BY <1>1 DEF Moves
<1> QED
  BY <1>1, <1>2, EveryStepIsACall

\* Passwords in use were drawn before.
LEMMA DrawnAfter ==
    ASSUME NEW w \in Worlds, NEW r \in Runs, NEW s \in Call, Drawn(w, r),
           NEW x \in Worlds, IdsAfter(w, r, s, x)
    PROVE  WorldDrawn(x, r.next)
<1> SUFFICES ASSUME NEW i \in Id
             PROVE  /\ x.user[i] \in Foreign .. r.next
                    /\ x.secret[i] \in Foreign .. r.next
  BY DEF WorldDrawn
<1>1. /\ w.user[i] \in Foreign .. r.next /\ w.secret[i] \in Foreign .. r.next
      /\ r.pass[i] \in Foreign .. r.next /\ r.next >= 2
  BY DEF Drawn, WorldDrawn, RunDrawn
<1>2. w.source[i] \in 0 .. 1 /\ r.next \in Nat
  <2>1. w.source[i] \in 0 .. 1
    BY DEF Worlds
  <2>2. r.next \in Nat
    BY DEF Runs
  <2> QED
    BY <2>1, <2>2
<1>3. None \in Foreign .. r.next /\ w.source[i] \in Foreign .. r.next
  BY <1>2, <1>1 DEF None, Foreign
<1> QED
  BY <1>1, <1>3 DEF IdsAfter, IdAfter

LEMMA PassDrawn ==
    ASSUME NEW w \in Worlds, NEW r \in Runs, NEW s \in Call, Drawn(w, r),
           NEW y \in Runs, RunAfter(w, r, s, y)
    PROVE  RunDrawn(y) /\ r.next <= y.next
<1>1. r.next \in Nat /\ y.next \in Nat /\ r.next >= 2
  <2>1. r.next \in Nat
    BY DEF Runs
  <2>2. y.next \in Nat
    BY DEF Runs
  <2> QED
    BY <2>1, <2>2 DEF Drawn, RunDrawn
<1>2. y.next = IF s[1] \in {"password", "fresh"} THEN r.next + 1 ELSE r.next
  BY DEF RunAfter
<1>3. y.next >= 2 /\ r.next <= y.next
      /\ \A n \in Foreign .. r.next : n \in Foreign .. y.next
  BY <1>1, <1>2 DEF Foreign
<1>4. y.previous \in Foreign .. y.next
  <2>1. \/ y.previous = r.previous
        \/ \E i \in Id : y.previous = w.secret[i]
    BY DEF RunAfter
  <2>2. r.previous \in Foreign .. r.next
        /\ \A i \in Id : w.secret[i] \in Foreign .. r.next
    BY DEF Drawn, WorldDrawn, RunDrawn
  <2> QED
    BY <1>3, <2>1, <2>2
<1>5. ASSUME NEW i \in Id PROVE y.pass[i] \in Foreign .. y.next
  <2>1. PassAfter(w, r, s, y, i)
    BY DEF RunAfter
  <2>2. /\ r.pass[i] \in Foreign .. r.next
        /\ w.secret[i] \in Foreign .. r.next
    BY DEF Drawn, WorldDrawn, RunDrawn
  <2>3. r.next \in Foreign .. r.next
    BY <1>1 DEF Foreign
  <2>4. Password(w, r, i) \in Foreign .. r.next
    BY <2>2, <2>3 DEF Password
  <2> QED
    BY <1>3, <2>1, <2>2, <2>3, <2>4 DEF PassAfter
<1> QED
  BY <1>3, <1>4, <1>5 DEF RunDrawn

\* A script that ends forgets its passwords.
LEMMA NoPasswords ==
    /\ None \in Int /\ [i \in Id |-> None] \in [Id -> Int]
    /\ <<>> \in Seq(Call)
    /\ \A n \in Nat : None \in Foreign .. n
<1>1. None \in Int /\ \A n \in Nat : None \in Foreign .. n
  BY DEF None, Foreign
<1>2. <<>> \in Seq(Call)
  OBVIOUS
<1>3. [i \in Id |-> None] \in [Id -> Int]
  BY <1>1
<1> QED
  BY <1>1, <1>2, <1>3

\* A script that ends leaves the invariant, whatever it says.
LEMMA GoodEnd ==
    ASSUME NEW w \in Worlds, NEW r \in Runs, RunDrawn(r),
           WorldDrawn(w, r.next), Issued(w, r.renewals), ~w.forward,
           w.leaked => r.kills > 0 \/ w.profile \in {"cutover", "fixture"},
           NEW report \in {"none", "passed", "refused", "failed", "restored",
                           "rollback failed", "killed"}
    PROVE  Good(w, Ends(r, report))
<1> DEFINE y == Ends(r, report)
<1>1. y \in Runs
  <2> DEFINE q == [i \in Id |-> None]
  <2>1. q \in [Id -> Int] /\ None \in Int
    BY NoPasswords
  <2>2. <<>> \in Seq(Call)
    BY NoPasswords
  <2> HIDE DEF q
  <2>3. [r EXCEPT !.phase = "idle", !.report = report, !.todo = <<>>,
                  !.pass = q, !.previous = None, !.seen = 0,
                  !.guarded = FALSE, !.touched = FALSE, !.renewed = FALSE]
           \in Runs
    BY <2>1, <2>2 DEF Runs
  <2> QED
    BY <2>3 DEF Ends, q
<1>2. /\ y.phase = "idle" /\ y.todo = <<>> /\ ~y.touched /\ ~y.guarded
      /\ y.next = r.next /\ y.renewals = r.renewals /\ y.kills = r.kills
      /\ y.previous = None /\ y.pass = [i \in Id |-> None]
  BY DEF Ends, Runs
<1>3. r.next \in Nat
  BY DEF Runs
<1> HIDE DEF y
<1>4. None \in Foreign .. r.next
  BY <1>3, NoPasswords
<1>5. Drawn(w, y)
  BY <1>2, <1>4 DEF Drawn, RunDrawn
<1>6. Coherent(w, y)
  BY <1>2 DEF Coherent
<1>7. Good(w, y)
  BY <1>1, <1>5, <1>6 DEF Good
<1> QED
  BY <1>7 DEF y

\* The port-forward is stopped, or left.
LEMMA ClosedWorld ==
    ASSUME NEW w \in Worlds
    PROVE  /\ Closed(w) \in Worlds /\ ~Closed(w).forward
           /\ Closed(w).user = w.user /\ Closed(w).secret = w.secret
           /\ Closed(w).issued = w.issued /\ Closed(w).leaked = w.leaked
           /\ Closed(w).profile = w.profile
BY DEF Closed, Worlds

LEMMA LeakedWorld ==
    ASSUME NEW w \in Worlds, NEW v \in BOOLEAN
    PROVE  LET x == [Closed(w) EXCEPT !.leaked = v]
           IN /\ x \in Worlds /\ ~x.forward
              /\ x.user = w.user /\ x.secret = w.secret
              /\ x.issued = w.issued /\ x.profile = w.profile
              /\ x.leaked = v
<1> DEFINE y == Closed(w)
<1>1. /\ y \in Worlds /\ ~y.forward /\ y.user = w.user
      /\ y.secret = w.secret /\ y.issued = w.issued /\ y.profile = w.profile
  BY ClosedWorld
<1> HIDE DEF y
<1>2. LET x == [y EXCEPT !.leaked = v]
      IN /\ x \in Worlds /\ ~x.forward
         /\ x.user = w.user /\ x.secret = w.secret
         /\ x.issued = w.issued /\ x.profile = w.profile
         /\ x.leaked = v
  BY <1>1 DEF Worlds
<1> QED
  BY <1>2 DEF y

\* An exception: the rotation's rollback begins, or the script ends.
LEMMA GoodFailure ==
    ASSUME NEW w \in Worlds, NEW r \in Runs, RunDrawn(r),
           WorldDrawn(w, r.next), Issued(w, r.renewals),
           r.guarded => w.profile = "reader" /\ r.verb = "rotate",
           w.leaked => r.kills > 0 \/ w.profile \in {"cutover", "fixture"},
           NEW report \in {"refused", "failed"}
    PROVE  Good(IF Rolls(r) THEN w ELSE Abandoned(w), AfterFailure(r, report))
<1>1. CASE ~Rolls(r)
  <2>1. \E v \in {w.leaked, TRUE} :
           /\ Abandoned(w) = [Closed(w) EXCEPT !.leaked = v]
           /\ v # w.leaked => w.profile \in {"cutover", "fixture"}
    <3>1. w.profile \in Profiles
      BY DEF Worlds
    <3>2. ~Stops(w.profile) => w.profile \in {"cutover", "fixture"}
      BY <3>1 DEF Stops, Profiles
    <3>3. Closed(w) = [Closed(w) EXCEPT !.leaked = w.leaked]
      <4> DEFINE y == Closed(w)
      <4>1. y \in Worlds /\ y.leaked = w.leaked
        BY ClosedWorld
      <4> HIDE DEF y
      <4>2. y = [y EXCEPT !.leaked = y.leaked]
        BY <4>1 DEF Worlds
      <4> QED
        BY <4>1, <4>2 DEF y
    <3> QED
      BY <3>2, <3>3 DEF Abandoned
  <2>2. PICK v \in {w.leaked, TRUE} :
           /\ Abandoned(w) = [Closed(w) EXCEPT !.leaked = v]
           /\ v # w.leaked => w.profile \in {"cutover", "fixture"}
    BY <2>1
  <2> DEFINE x == Abandoned(w)
  <2>3. v \in BOOLEAN
    BY DEF Worlds
  <2>4. /\ x \in Worlds /\ ~x.forward /\ x.user = w.user
        /\ x.secret = w.secret /\ x.issued = w.issued
        /\ x.profile = w.profile /\ x.leaked = v
    BY <2>2, <2>3, LeakedWorld
  <2> HIDE DEF x
  <2> DEFINE rep == IF r.phase = "undo" THEN "rollback failed" ELSE report
  <2>5. rep \in {"none", "passed", "refused", "failed", "restored",
                 "rollback failed", "killed"}
    OBVIOUS
  <2>6. AfterFailure(r, report) = Ends(r, rep)
    BY <1>1 DEF AfterFailure
  <2> HIDE DEF rep
  <2>7. WorldDrawn(x, r.next) /\ Issued(x, r.renewals)
    BY <2>4 DEF WorldDrawn, Issued
  <2>8. x.leaked => r.kills > 0 \/ x.profile \in {"cutover", "fixture"}
    BY <2>2, <2>4
  <2>9. Good(x, Ends(r, rep))
    BY <2>4, <2>5, <2>7, <2>8, GoodEnd
  <2> QED
    BY <1>1, <2>6, <2>9 DEF x
<1>2. CASE Rolls(r)
  <2> DEFINE p == r.previous
             y == [r EXCEPT !.phase = "undo", !.todo = ReaderRollback,
                            !.pass["reader"] = p]
  <2>1. AfterFailure(r, report) = y
    BY <1>2 DEF AfterFailure
  <2>2. r.previous > 0 /\ r.guarded /\ r.previous \in Foreign .. r.next
    BY <1>2 DEF Rolls, RunDrawn
  <2>3. PICK b \in SUBSET Fact :
           /\ LoggedIn("reader") \subseteq b
           /\ Leads(Moves(Undo), {<<"positive", "reader">>}, ReaderRollback, b)
    BY RollbackOutline
  <2>4. ReaderRollback \in Seq(Call)
    BY <2>3, EveryStepIsACall
  <2>5. ReaderRollback # <<>>
    BY DEF ReaderRollback, Stored, Identity
  <2>6. r.previous \in Int /\ r.next \in Nat
    BY DEF Runs
  <2> HIDE DEF p
  <2>7. y \in Runs
    BY <2>4, <2>6 DEF Runs, p
  <2>8. /\ y.phase = "undo" /\ y.todo = ReaderRollback /\ y.next = r.next
        /\ y.pass = [r.pass EXCEPT !["reader"] = p] /\ y.guarded = r.guarded
        /\ y.previous = p /\ y.verb = r.verb /\ y.kills = r.kills
        /\ y.renewals = r.renewals /\ r.pass \in [Id -> Int]
    BY DEF Runs, p
  <2> HIDE DEF y
  <2>9. "reader" \in Id /\ y.pass["reader"] = p
        /\ \A i \in Id : y.pass[i] \in {p, r.pass[i]}
    BY <2>8 DEF Id
  <2>10. Drawn(w, y)
    BY <2>2, <2>8, <2>9 DEF Drawn, RunDrawn, p
  <2>11. Known({<<"positive", "reader">>}, w, y)
    <3>1. KnowsIds({<<"positive", "reader">>}, w, y)
      BY <2>2, <2>9 DEF KnowsIds, KnowsId, Id, p
    <3>2. KnowsCas({<<"positive", "reader">>}, w, y)
      BY DEF KnowsCas, Ca
    <3>3. KnowsData({<<"positive", "reader">>}, w, y)
      BY DEF KnowsData
    <3> QED
      BY <3>1, <3>2, <3>3 DEF Known
  <2>12. {<<"positive", "reader">>} \in SUBSET Fact
    BY Facts
  <2>13. Outlined(Undo, LoggedIn("reader"), w, y)
    BY <2>3, <2>8, <2>11, <2>12 DEF Outlined
  <2>14. Coherent(w, y)
    BY <2>2, <2>5, <2>8, <2>9, <2>13 DEF Coherent, p
  <2>15. Good(w, y)
    BY <2>7, <2>10, <2>14 DEF Good
  <2> QED
    BY <1>2, <2>1, <2>15
<1> QED
  BY <1>1, <1>2

\* A call that was accepted, and the script after it.
Stepped(w, r) ==
    LET s == Head(r.todo)
    IN [Learns(w, r, s) EXCEPT
           !.todo = Tail(@),
           !.touched = @ \/ (/\ Effect(w, r, s) # w
                             /\ s[1] \notin {"forward", "close"})]

\* A later draw leaves the earlier ones.
LEMMA DrawnStays ==
    ASSUME NEW w, NEW n \in Nat, NEW m \in Nat, WorldDrawn(w, n), n <= m
    PROVE  WorldDrawn(w, m)
<1>1. \A p \in Foreign .. n : p \in Foreign .. m
  BY DEF Foreign
<1> QED
  BY <1>1 DEF WorldDrawn

LEMMA CallEffect ==
    ASSUME Bounds, NEW w \in Worlds, NEW r \in Runs, Drawn(w, r),
           NEW k, NEW a, NEW b, Known(a, w, r),
           Leads(Moves(k), a, r.todo, b), r.todo # <<>>
    PROVE  LET s == Head(r.todo)
               x == Effect(w, r, s)
           IN /\ s \in Call /\ After(w, r, s) /\ x \in Worlds
              /\ WorldDrawn(x, r.next) /\ Issued(x, r.renewals)
              /\ x.profile = w.profile /\ x.qa = w.qa /\ x.leaked = w.leaked
<1> DEFINE s == Head(r.todo)
           x == Effect(w, r, s)
<1>1. PICK m \in SUBSET Fact : s \in Call /\ Sound(k, a, s, m)
  BY NextCall
<1>2. s[1] = "bulk" => w.docs <= MaxDocuments
  BY <1>1 DEF Sound, Allowed, Known, KnowsData
<1>3. After(w, r, s)
  BY <1>1, <1>2, EveryCall
<1> HIDE DEF s
<1>4. /\ x \in Worlds /\ IdsAfter(w, r, s, x) /\ CasAfter(w, s, x)
      /\ DataAfter(w, s, x)
  BY <1>3 DEF After
<1> HIDE DEF x
<1>5. WorldDrawn(x, r.next)
  BY <1>1, <1>4, DrawnAfter
<1>6. Issued(x, r.renewals)
  BY <1>4 DEF CasAfter, Issued, Drawn
<1>7. x.profile = w.profile /\ x.qa = w.qa /\ x.leaked = w.leaked
  BY <1>4 DEF DataAfter
<1> QED
  BY <1>1, <1>3, <1>4, <1>5, <1>6, <1>7 DEF s, x

\* What the script remembers after it, and what it knows.
LEMMA CallLearnt ==
    ASSUME Bounds, NEW w \in Worlds, NEW r \in Runs, Drawn(w, r),
           NEW k, NEW a, NEW b, Known(a, w, r),
           Leads(Moves(k), a, r.todo, b), r.todo # <<>>
    PROVE  LET s == Head(r.todo)
               y == Stepped(w, r)
           IN /\ y \in Runs /\ RunAfter(w, r, s, y) /\ RunDrawn(y)
              /\ WorldDrawn(Effect(w, r, s), y.next)
              /\ y.todo = Tail(r.todo) /\ y.verb = r.verb
              /\ y.phase = r.phase /\ y.renewed = r.renewed
              /\ y.renewals = r.renewals /\ y.kills = r.kills
              /\ y.touched = \/ r.touched
                             \/ /\ Effect(w, r, s) # w
                                /\ s[1] \notin {"forward", "close"}
<1> DEFINE s == Head(r.todo)
           l == Learns(w, r, s)
           c == Effect(w, r, s) # w /\ s[1] \notin {"forward", "close"}
           y == [l EXCEPT !.todo = Tail(@), !.touched = @ \/ c]
<1>1. Stepped(w, r) = y
  BY DEF Stepped
<1>2. s \in Call /\ r.todo \in Seq(Call) /\ WorldDrawn(Effect(w, r, s), r.next)
  BY CallEffect, NextCall
<1>3. l \in Runs /\ Noted(r, l) /\ RunAfter(w, r, s, l)
  BY <1>2, EveryCallLearnt DEF Remembers
<1>4. c \in BOOLEAN
  OBVIOUS
<1> HIDE DEF s, l, c
<1>5. l.todo = r.todo /\ l.touched = r.touched
  BY <1>3 DEF Noted
<1>6. Tail(l.todo) \in Seq(Call) /\ (l.touched \/ c) \in BOOLEAN
  BY <1>2, <1>5
<1>7. y \in Runs
  BY <1>3, <1>6 DEF Runs
<1>8. /\ y.todo = Tail(r.todo) /\ y.touched = (r.touched \/ c)
      /\ y.verb = l.verb /\ y.phase = l.phase /\ y.renewed = l.renewed
      /\ y.renewals = l.renewals /\ y.kills = l.kills /\ y.pass = l.pass
      /\ y.next = l.next /\ y.previous = l.previous /\ y.guarded = l.guarded
  BY <1>3, <1>5 DEF Runs
<1> HIDE DEF y
<1>9. RunAfter(w, r, s, y)
  BY <1>3, <1>8 DEF RunAfter, PassAfter
<1>10. RunDrawn(y) /\ r.next <= y.next
  BY <1>2, <1>7, <1>9, PassDrawn
<1>11. WorldDrawn(Effect(w, r, s), y.next)
  <2>1. r.next \in Nat
    BY DEF Runs
  <2>2. y.next \in Nat
    BY <1>7 DEF Runs
  <2> QED
    BY <1>2, <1>10, <2>1, <2>2, DrawnStays
<1>12. /\ y.verb = r.verb /\ y.phase = r.phase /\ y.renewed = r.renewed
       /\ y.renewals = r.renewals /\ y.kills = r.kills
  BY <1>3, <1>8 DEF Noted
<1> QED
  BY <1>1, <1>7, <1>8, <1>9, <1>10, <1>11, <1>12 DEF s, c

LEMMA CallKnown ==
    ASSUME Bounds, NEW w \in Worlds, NEW r \in Runs, Drawn(w, r),
           NEW k, NEW a, NEW b, Known(a, w, r),
           Leads(Moves(k), a, r.todo, b), r.todo # <<>>,
           Accepts(w, r, Head(r.todo))
    PROVE  \E m \in SUBSET Fact :
              /\ Sound(k, a, Head(r.todo), m)
              /\ Leads(Moves(k), m, Tail(r.todo), b)
              /\ Known(m, Effect(w, r, Head(r.todo)), Stepped(w, r))
<1> DEFINE s == Head(r.todo)
           x == Effect(w, r, s)
           y == Stepped(w, r)
<1>1. PICK m \in SUBSET Fact : /\ s \in Call /\ Sound(k, a, s, m)
                               /\ Leads(Moves(k), m, Tail(r.todo), b)
  BY NextCall
<1>2. After(w, r, s) /\ x \in Worlds
  BY CallEffect
<1>3. /\ y \in Runs /\ RunAfter(w, r, s, y) /\ y.renewed = r.renewed
      /\ y.touched = (\/ r.touched
                      \/ x # w /\ s[1] \notin {"forward", "close"})
  BY CallLearnt
<1>4. AcceptsObject(w, r, s) /\ AcceptsTrust(w, r, s) /\ AcceptsData(w, r, s)
  BY DEF Accepts
<1>5. /\ IdsAfter(w, r, s, x) /\ CasAfter(w, s, x) /\ DataAfter(w, s, x)
      /\ Untouching(w, s, x)
  BY <1>2 DEF After
<1> HIDE DEF s, x, y
<1>6. KnowsIds(a, w, r) /\ KnowsCas(a, w, r) /\ KnowsData(a, w, r)
  BY DEF Known
<1>7. OfIds(a, s, m) /\ OfCas(a, s, m) /\ OfData(a, s, m)
  BY <1>1 DEF Sound, Follows
<1>8. r.next >= 2
  BY DEF Drawn, RunDrawn
<1>9. KnowsIds(m, x, y)
  BY <1>1, <1>2, <1>3, <1>4, <1>5, <1>6, <1>7, <1>8, IdsKnown
<1>10. KnowsCas(m, x, y)
  BY <1>1, <1>2, <1>3, <1>4, <1>5, <1>6, <1>7, CasKnown
<1>11. KnowsData(m, x, y)
  BY <1>1, <1>2, <1>3, <1>4, <1>5, <1>6, <1>7, DataKnown
<1> QED
  BY <1>1, <1>9, <1>10, <1>11 DEF Known, s, x, y

\* What the calls that are left promise, and what they are for.
Promised(w, r) ==
    IF r.phase = "undo" THEN Undo ELSE Promises(w.profile, r.verb)
Aim(w, r) ==
    IF r.phase = "undo" THEN LoggedIn("reader")
    ELSE Goal(w.profile, r.verb, w.qa)
Ahead(w, r, a, b) ==
    /\ Known(a, w, r) /\ Aim(w, r) \subseteq b
    /\ Leads(Moves(Promised(w, r)), a, r.todo, b)

\* A script under way has an outline.
LEMMA UnderWay ==
    ASSUME NEW w, NEW r, Good(w, r), r.phase # "idle"
    PROVE  /\ w \in Worlds /\ r \in Runs /\ Drawn(w, r) /\ r.todo # <<>>
           /\ \E a \in SUBSET Fact, b \in SUBSET Fact : Ahead(w, r, a, b)
<1>1. /\ w \in Worlds /\ r \in Runs /\ Drawn(w, r) /\ Coherent(w, r)
  BY DEF Good
<1>2. r.phase \in {"running", "undo"}
  BY <1>1 DEF Runs
<1>3. Outlined(Promised(w, r), Aim(w, r), w, r)
  <2>1. CASE r.phase = "running"
    BY <1>1, <2>1 DEF Coherent, Promised, Aim
  <2>2. CASE r.phase = "undo"
    BY <1>1, <2>2 DEF Coherent, Promised, Aim
  <2> QED
    BY <1>2, <2>1, <2>2
<1>4. r.todo # <<>>
  BY <1>1 DEF Coherent
<1> QED
  BY <1>1, <1>3, <1>4 DEF Outlined, Ahead

\* A rotation's guard is the reader's, and its undo has none.
LEMMA GuardedStays ==
    ASSUME NEW w, NEW r, Good(w, r), r.phase # "idle", NEW s, NEW y,
           NEW a, NEW m, Sound(Promised(w, r), a, s, m), RunAfter(w, r, s, y)
    PROVE  y.guarded => w.profile = "reader" /\ r.verb = "rotate"
<1>1. r.guarded => w.profile = "reader" /\ r.verb = "rotate"
  BY DEF Good, Coherent
<1>2. ASSUME s[1] = "guard" PROVE w.profile = "reader" /\ r.verb = "rotate"
  <2>1. "rotation" \in Promised(w, r)
    BY <1>2 DEF Sound, Allowed
  <2> QED
    BY <2>1 DEF Promised, Undo, Promises
<1> QED
  BY <1>1, <1>2 DEF RunAfter

\* A call that is not the last, and one that ends the script.
LEMMA GoodStep ==
    ASSUME Bounds, NEW w, NEW r, Good(w, r), r.phase # "idle",
           Accepts(w, r, Head(r.todo)), Tail(r.todo) # <<>>
    PROVE  Good(Effect(w, r, Head(r.todo)), Stepped(w, r))
<1> DEFINE s == Head(r.todo)
           x == Effect(w, r, s)
           y == Stepped(w, r)
<1>1. /\ w \in Worlds /\ r \in Runs /\ Drawn(w, r) /\ r.todo # <<>>
      /\ Coherent(w, r)
  BY UnderWay DEF Good
<1>2. PICK a \in SUBSET Fact, b \in SUBSET Fact : Ahead(w, r, a, b)
  BY UnderWay
<1>3. /\ Known(a, w, r) /\ Aim(w, r) \subseteq b
      /\ Leads(Moves(Promised(w, r)), a, r.todo, b)
  BY <1>2 DEF Ahead
<1>4. PICK m \in SUBSET Fact :
         /\ Sound(Promised(w, r), a, s, m)
         /\ Leads(Moves(Promised(w, r)), m, Tail(r.todo), b)
         /\ Known(m, x, y)
  BY <1>1, <1>3, CallKnown
<1>5. /\ x \in Worlds /\ Issued(x, r.renewals) /\ x.profile = w.profile
      /\ x.qa = w.qa /\ x.leaked = w.leaked
  BY <1>1, <1>3, CallEffect
<1>6. /\ y \in Runs /\ RunAfter(w, r, s, y) /\ RunDrawn(y)
      /\ WorldDrawn(x, y.next) /\ y.todo = Tail(r.todo) /\ y.verb = r.verb
      /\ y.phase = r.phase /\ y.renewals = r.renewals /\ y.kills = r.kills
  BY <1>1, <1>3, CallLearnt
<1> HIDE DEF s, x, y
<1>7. Drawn(x, y)
  BY <1>5, <1>6 DEF Drawn
<1>8. Outlined(Promised(w, r), Aim(w, r), x, y)
  BY <1>3, <1>4, <1>6 DEF Outlined
<1>9. y.guarded => w.profile = "reader" /\ r.verb = "rotate"
  BY <1>4, <1>6, GuardedStays
<1>10. CASE r.phase = "running"
  <2>1. Promised(w, r) = Promises(x.profile, y.verb)
        /\ Aim(w, r) = Goal(x.profile, y.verb, x.qa)
    BY <1>5, <1>6, <1>10 DEF Promised, Aim
  <2>2. r.verb \in Verbs(w.profile)
    BY <1>1, <1>10 DEF Coherent
  <2>3. w.leaked => r.kills > 0 \/ w.profile \in {"cutover", "fixture"}
    BY <1>1 DEF Coherent
  <2>4. Coherent(x, y)
    BY <1>5, <1>6, <1>8, <1>9, <1>10, <2>1, <2>2, <2>3 DEF Coherent
  <2> QED
    BY <1>5, <1>6, <1>7, <2>4 DEF Good, s, x, y
<1>11. CASE r.phase = "undo"
  <2>1. Promised(w, r) = Undo /\ Aim(w, r) = LoggedIn("reader")
    BY <1>11 DEF Promised, Aim
  <2>2. r.verb = "rotate" /\ r.previous > 0 /\ r.pass["reader"] = r.previous
    BY <1>1, <1>11 DEF Coherent
  <2>3. w.leaked => r.kills > 0 \/ w.profile \in {"cutover", "fixture"}
    BY <1>1 DEF Coherent
  <2>4. s[1] \notin {"password", "fresh", "held", "guard"}
    BY <1>4, <2>1 DEF Sound, Allowed, Undo
  <2>5. y.previous = r.previous /\ y.pass["reader"] = r.pass["reader"]
    BY <1>6, <2>4 DEF RunAfter, PassAfter, On, Id
  <2>6. Coherent(x, y)
    BY <1>5, <1>6, <1>8, <1>9, <1>11, <2>1, <2>2, <2>3, <2>5 DEF Coherent
  <2> QED
    BY <1>5, <1>6, <1>7, <2>6 DEF Good, s, x, y
<1>12. r.phase \in {"idle", "running", "undo"}
  BY <1>1 DEF Runs
<1> QED
  BY <1>10, <1>11, <1>12

LEMMA GoodLastStep ==
    ASSUME Bounds, NEW w, NEW r, Good(w, r), r.phase # "idle",
           NEW report \in {"none", "passed", "refused", "failed", "restored",
                           "rollback failed", "killed"}
    PROVE  Good(Closed(Effect(w, r, Head(r.todo))),
                Ends(Stepped(w, r), report))
<1> DEFINE s == Head(r.todo)
           x == Effect(w, r, s)
           y == Stepped(w, r)
           z == Closed(x)
<1>1. /\ w \in Worlds /\ r \in Runs /\ Drawn(w, r) /\ r.todo # <<>>
      /\ Coherent(w, r)
  BY UnderWay DEF Good
<1>2. PICK a \in SUBSET Fact, b \in SUBSET Fact : Ahead(w, r, a, b)
  BY UnderWay
<1>3. Known(a, w, r) /\ Leads(Moves(Promised(w, r)), a, r.todo, b)
  BY <1>2 DEF Ahead
<1>4. /\ x \in Worlds /\ Issued(x, r.renewals) /\ x.profile = w.profile
      /\ x.leaked = w.leaked
  BY <1>1, <1>3, CallEffect
<1>5. /\ y \in Runs /\ RunDrawn(y) /\ WorldDrawn(x, y.next)
      /\ y.renewals = r.renewals /\ y.kills = r.kills
  BY <1>1, <1>3, CallLearnt
<1> HIDE DEF s, x, y
<1>6. /\ z \in Worlds /\ ~z.forward /\ z.user = x.user
      /\ z.secret = x.secret /\ z.issued = x.issued /\ z.leaked = x.leaked
      /\ z.profile = x.profile
  BY <1>4, ClosedWorld
<1> HIDE DEF z
<1>7. WorldDrawn(z, y.next) /\ Issued(z, y.renewals)
  BY <1>4, <1>5, <1>6 DEF WorldDrawn, Issued
<1>8. z.leaked => y.kills > 0 \/ z.profile \in {"cutover", "fixture"}
  BY <1>1, <1>4, <1>5, <1>6 DEF Coherent
<1>9. Good(z, Ends(y, report))
  BY <1>5, <1>6, <1>7, <1>8, GoodEnd
<1> QED
  BY <1>9 DEF s, x, y, z

-----------------------------------------------------------------------------
(* Action by action.                                                       *)

LEMMA Starts ==
    ASSUME Bounds, Init
    PROVE  IInv
<1>1. PICK profile \in Profiles, qa \in BOOLEAN, alien \in Alien,
           earlier \in BOOLEAN : world = World(profile, qa, alien, earlier)
  BY DEF Init
<1>2. world \in Worlds
  <2>1. MaxDocuments \in Nat /\ MaxRenewals \in Nat
    BY DEF Bounds
  <2>2. 0 \in 0 .. MaxDocuments + Fixture
        /\ None \in Foreign .. MaxRenewals + 1
        /\ Foreign \in Foreign .. MaxRenewals + 1
        /\ 1 \in 1 .. MaxRenewals + 1 /\ None \in Int /\ Foreign \in Int
        /\ None \in 0 .. 1
    BY <2>1 DEF None, Foreign, Fixture
  <2>3. World(profile, qa, alien, earlier) \in Worlds
    BY <2>2 DEF World, Worlds
  <2> QED
    BY <1>1, <2>3
<1>3. run \in Runs
  <2>1. [i \in Id |-> None] \in [Id -> Int] /\ <<>> \in Seq(Call)
        /\ None \in Int
    BY NoPasswords
  <2>2. 0 \in 0 .. MaxRenewals
    BY DEF Bounds
  <2> DEFINE q == [i \in Id |-> None]
  <2> HIDE DEF q
  <2>3. run = [verb |-> "none", todo |-> <<>>, phase |-> "idle",
               report |-> "none", pass |-> q,
               previous |-> None, guarded |-> FALSE, seen |-> 0,
               touched |-> FALSE, renewed |-> FALSE, next |-> 2,
               operations |-> 0, faults |-> 0, kills |-> 0, renewals |-> 0]
    BY DEF Init, q
  <2>4. q \in [Id -> Int]
    BY <2>1 DEF q
  <2> QED
    BY <2>1, <2>2, <2>3, <2>4 DEF Runs, Verb
<1>4. /\ run.next = 2 /\ run.previous = None /\ run.renewals = 0
      /\ run.pass = [i \in Id |-> None] /\ run.phase = "idle"
      /\ run.todo = <<>> /\ ~run.touched /\ ~run.guarded
  BY DEF Init
<1>5. /\ \A i \in Id : /\ world.user[i] \in {Foreign, None, 1}
                       /\ world.secret[i] \in {Foreign, None}
      /\ \A c \in Ca : world.issued[c] = 1
      /\ ~world.forward /\ ~world.leaked
  BY <1>1 DEF World
<1>6. Foreign \in Foreign .. 2 /\ None \in Foreign .. 2 /\ 1 \in Foreign .. 2
  BY DEF None, Foreign
<1>7. Drawn(world, run)
  <2>1. WorldDrawn(world, run.next)
    BY <1>4, <1>5, <1>6 DEF WorldDrawn
  <2>2. RunDrawn(run)
    BY <1>4, <1>6 DEF RunDrawn
  <2>3. Issued(world, run.renewals)
    BY <1>4, <1>5 DEF Issued
  <2> QED
    BY <2>1, <2>2, <2>3 DEF Drawn
<1>8. Coherent(world, run)
  BY <1>4, <1>5 DEF Coherent
<1> QED
  BY <1>2, <1>3, <1>7, <1>8 DEF IInv, Good

LEMMA BeginKeeps ==
    ASSUME Bounds, IInv, NEW verb \in Verbs(world.profile), Begin(verb)
    PROVE  IInv'
<1> DEFINE w == world
           y == run'
           script == Script(w.profile, verb, w.qa)
<1>1. /\ w \in Worlds /\ run \in Runs /\ Drawn(w, run) /\ Coherent(w, run)
      /\ run.phase = "idle" /\ world' = w
      /\ y = [run EXCEPT
                 !.verb = verb, !.todo = script, !.phase = "running",
                 !.report = "none", !.operations = @ + 1]
  BY DEF IInv, Good, Begin, Running
<1>2. w.profile \in Profiles /\ w.qa \in BOOLEAN
  BY <1>1 DEF Worlds
<1>3. PICK b \in SUBSET Fact :
         /\ Goal(w.profile, verb, w.qa) \subseteq b
         /\ Leads(Moves(Promises(w.profile, verb)), Begun, script, b)
  BY <1>2, EveryScriptReaches DEF Reaches
<1>4. script # <<>> /\ script \in Seq(Call)
  BY <1>2, <1>3, ScriptsAreNotEmpty, EveryStepIsACall
<1>5. verb \in Verb
  BY <1>2 DEF Verbs, Verb, Profiles
<1>6. run.operations + 1 \in Nat
  <2>1. run.operations \in Nat
    BY <1>1 DEF Runs
  <2> QED
    BY <2>1
<1> HIDE DEF script
<1>7. y \in Runs
  BY <1>1, <1>4, <1>5, <1>6 DEF Runs
<1>8. /\ y.verb = verb /\ y.todo = script /\ y.phase = "running"
      /\ y.next = run.next /\ y.previous = run.previous /\ y.pass = run.pass
      /\ y.renewals = run.renewals /\ y.guarded = run.guarded
      /\ y.touched = run.touched /\ y.kills = run.kills
  BY <1>1 DEF Runs
<1>9. ~y.guarded /\ ~y.touched
  BY <1>1, <1>8 DEF Coherent
<1> HIDE DEF y
<1>10. Drawn(w, y)
  BY <1>1, <1>8 DEF Drawn, RunDrawn
<1>11. Known(Begun, w, y)
  BY <1>9 DEF Known, KnowsIds, KnowsId, KnowsCas, KnowsData, Begun
<1>12. Begun \in SUBSET Fact
  BY Facts DEF Begun
<1>13. Outlined(Promises(w.profile, verb), Goal(w.profile, verb, w.qa), w, y)
  BY <1>3, <1>8, <1>11, <1>12 DEF Outlined
<1>14. w.leaked => y.kills > 0 \/ w.profile \in {"cutover", "fixture"}
  BY <1>1, <1>8 DEF Coherent
<1>15. Coherent(w, y)
  BY <1>4, <1>8, <1>9, <1>13, <1>14 DEF Coherent
<1> QED
  BY <1>1, <1>7, <1>10, <1>15 DEF IInv, Good, y

LEMMA StepKeeps ==
    ASSUME Bounds, IInv, Step
    PROVE  IInv'
<1> DEFINE s == Head(run.todo)
           w == Effect(world, run, s)
           r == Stepped(world, run)
           report == IF r.phase = "undo" THEN "restored" ELSE "passed"
<1>1. /\ run.phase # "idle" /\ Accepts(world, run, s)
      /\ IF r.todo # <<>> THEN run' = r /\ world' = w
         ELSE run' = Ends(r, report) /\ world' = Closed(w)
  BY DEF Step, Running, Stepped, Changes
<1>2. Good(world, run)
  BY DEF IInv
<1>3. r.todo = Tail(run.todo)
  <2>1. /\ world \in Worlds /\ run \in Runs /\ Drawn(world, run)
        /\ run.todo # <<>>
    BY <1>1, <1>2, UnderWay
  <2>2. PICK a \in SUBSET Fact, b \in SUBSET Fact : Ahead(world, run, a, b)
    BY <1>1, <1>2, UnderWay
  <2> QED
    BY <2>1, <2>2, CallLearnt DEF Ahead
<1>4. CASE r.todo # <<>>
  BY <1>1, <1>2, <1>3, <1>4, GoodStep DEF IInv
<1>5. CASE r.todo = <<>>
  <2>1. report \in {"none", "passed", "refused", "failed", "restored",
                    "rollback failed", "killed"}
    OBVIOUS
  <2> HIDE DEF report
  <2>2. Good(Closed(w), Ends(r, report))
    BY <1>1, <1>2, <2>1, GoodLastStep
  <2> QED
    BY <1>1, <1>5, <2>2 DEF IInv
<1> QED
  BY <1>4, <1>5

LEMMA RefuseKeeps ==
    ASSUME Bounds, IInv, Refuse
    PROVE  IInv'
<1>1. /\ world' = (IF Rolls(run) THEN world ELSE Abandoned(world))
      /\ run' = AfterFailure(run, "refused")
  BY DEF Refuse, Failing
<1>2. /\ world \in Worlds /\ run \in Runs /\ Drawn(world, run)
      /\ Coherent(world, run)
  BY DEF IInv, Good
<1>3. /\ RunDrawn(run) /\ WorldDrawn(world, run.next)
      /\ Issued(world, run.renewals)
  BY <1>2 DEF Drawn
<1>4. /\ run.guarded => world.profile = "reader" /\ run.verb = "rotate"
      /\ world.leaked => \/ run.kills > 0
                         \/ world.profile \in {"cutover", "fixture"}
  BY <1>2 DEF Coherent
<1>5. Good(IF Rolls(run) THEN world ELSE Abandoned(world),
           AfterFailure(run, "refused"))
  BY <1>2, <1>3, <1>4, GoodFailure
<1> QED
  BY <1>1, <1>5 DEF IInv

LEMMA FailKeeps ==
    ASSUME Bounds, IInv, Fail
    PROVE  IInv'
<1> DEFINE s == Head(run.todo)
           r == [run EXCEPT !.faults = @ + 1]
<1>1. PICK w \in {world, Effect(world, run, s)} : Failing(w, r, "failed")
  BY DEF Fail
<1>2. /\ world' = (IF Rolls(r) THEN w ELSE Abandoned(w))
      /\ run' = AfterFailure(r, "failed")
  BY <1>1 DEF Failing
<1>3. run.phase # "idle" /\ Good(world, run)
  BY DEF Fail, Running, IInv
<1>4. /\ world \in Worlds /\ run \in Runs /\ Drawn(world, run)
      /\ Coherent(world, run) /\ run.todo # <<>>
  BY <1>3, UnderWay DEF Good
<1>5. PICK a \in SUBSET Fact, b \in SUBSET Fact : Ahead(world, run, a, b)
  BY <1>3, UnderWay
<1>6. /\ w \in Worlds /\ WorldDrawn(w, run.next) /\ Issued(w, run.renewals)
      /\ w.profile = world.profile /\ w.leaked = world.leaked
  BY <1>4, <1>5, CallEffect DEF Ahead, Drawn
<1>7. run.faults + 1 \in Nat
  <2>1. run.faults \in Nat
    BY <1>4 DEF Runs
  <2> QED
    BY <2>1
<1> HIDE DEF s
<1>8. r \in Runs
  BY <1>4, <1>7 DEF Runs
<1>9. /\ r.next = run.next /\ r.pass = run.pass /\ r.previous = run.previous
      /\ r.renewals = run.renewals /\ r.guarded = run.guarded
      /\ r.verb = run.verb /\ r.kills = run.kills
  BY <1>4 DEF Runs
<1> HIDE DEF r
<1>10. RunDrawn(r)
  BY <1>4, <1>9 DEF Drawn, RunDrawn
<1>11. /\ r.guarded => w.profile = "reader" /\ r.verb = "rotate"
       /\ w.leaked => r.kills > 0 \/ w.profile \in {"cutover", "fixture"}
  BY <1>4, <1>6, <1>9 DEF Coherent
<1>12. Good(IF Rolls(r) THEN w ELSE Abandoned(w), AfterFailure(r, "failed"))
  BY <1>6, <1>8, <1>9, <1>10, <1>11, GoodFailure
<1> QED
  BY <1>2, <1>12 DEF IInv

LEMMA KillKeeps ==
    ASSUME Bounds, IInv, Kill
    PROVE  IInv'
<1> DEFINE v == world.leaked \/ world.forward
           x == [Closed(world) EXCEPT !.leaked = v]
           r == [run EXCEPT !.kills = @ + 1]
<1>1. /\ world \in Worlds /\ run \in Runs /\ Drawn(world, run)
  BY DEF IInv, Good
<1>2. Closed(world).leaked = world.leaked /\ v \in BOOLEAN
  BY <1>1, ClosedWorld
<1>3. world' = x
  <2> DEFINE y == Closed(world)
  <2>1. world' = [y EXCEPT !.leaked = y.leaked \/ world.forward]
    BY DEF Kill
  <2> HIDE DEF y
  <2>2. y.leaked = world.leaked
    BY <1>2 DEF y
  <2> QED
    BY <2>1, <2>2 DEF y
<1>4. /\ x \in Worlds /\ ~x.forward /\ x.user = world.user
      /\ x.secret = world.secret /\ x.issued = world.issued
  BY <1>1, <1>2, LeakedWorld
<1>5. run.kills \in Nat /\ run.kills + 1 \in Nat /\ run.kills + 1 > 0
  <2>1. run.kills \in Nat
    BY <1>1 DEF Runs
  <2> QED
    BY <2>1
<1>6. r \in Runs /\ r.kills = run.kills + 1 /\ r.next = run.next
      /\ r.pass = run.pass /\ r.previous = run.previous
      /\ r.renewals = run.renewals
  BY <1>1, <1>5 DEF Runs
<1>7. run' = Ends(r, "killed")
  <2>1. run' = [Ends(run, "killed") EXCEPT !.kills = @ + 1]
    BY DEF Kill
  <2>2. Ends(run, "killed").kills = run.kills
    BY <1>1 DEF Ends, Runs
  <2>3. [Ends(run, "killed") EXCEPT !.kills = run.kills + 1]
           = Ends(r, "killed")
    <3> DEFINE q == [i \in Id |-> None]
               n == run.kills + 1
    <3> HIDE DEF q, n
    <3>1. [[run EXCEPT
              !.phase = "idle", !.report = "killed", !.todo = <<>>,
              !.pass = q, !.previous = None, !.seen = 0, !.guarded = FALSE,
              !.touched = FALSE, !.renewed = FALSE] EXCEPT !.kills = n]
          = [[run EXCEPT !.kills = n] EXCEPT
              !.phase = "idle", !.report = "killed", !.todo = <<>>,
              !.pass = q, !.previous = None, !.seen = 0, !.guarded = FALSE,
              !.touched = FALSE, !.renewed = FALSE]
      BY <1>1 DEF Runs
    <3> QED
      BY <3>1 DEF Ends, q, n
  <2> QED
    BY <2>1, <2>2, <2>3
<1> HIDE DEF r, x
<1>8. /\ RunDrawn(r) /\ WorldDrawn(x, r.next) /\ Issued(x, r.renewals)
      /\ r.kills > 0
  BY <1>1, <1>4, <1>5, <1>6 DEF Drawn, RunDrawn, WorldDrawn, Issued
<1>9. Good(x, Ends(r, "killed"))
  BY <1>4, <1>6, <1>8, GoodEnd
<1> QED
  BY <1>3, <1>7, <1>9 DEF IInv

LEMMA WriteKeeps ==
    ASSUME Bounds, IInv, Write
    PROVE  IInv'
<1> DEFINE d == world.docs + 1
           x == [world EXCEPT !.docs = d]
<1>1. /\ world' = x /\ run' = run /\ world.docs < MaxDocuments
      /\ world \in Worlds /\ run \in Runs /\ Drawn(world, run)
      /\ Coherent(world, run)
  BY DEF IInv, Good, Write
<1>2. d \in 0 .. MaxDocuments + Fixture /\ d <= MaxDocuments
  <2>1. world.docs \in Nat
    BY <1>1 DEF Worlds
  <2>2. MaxDocuments \in Nat
    BY DEF Bounds
  <2> QED
    BY <1>1, <2>1, <2>2 DEF Fixture
<1> HIDE DEF d
<1>3. x \in Worlds
  BY <1>1, <1>2 DEF Worlds
<1>4. /\ x.profile = world.profile /\ x.qa = world.qa /\ x.role = world.role
      /\ x.user = world.user /\ x.secret = world.secret /\ x.ca = world.ca
      /\ x.issued = world.issued /\ x.index = world.index
      /\ x.topic = world.topic /\ x.forward = world.forward
      /\ x.leaked = world.leaked /\ x.docs = d
  BY <1>1 DEF Worlds
<1> HIDE DEF x
<1>5. Drawn(x, run)
  BY <1>1, <1>4 DEF Drawn, WorldDrawn, Issued
<1>6. ASSUME NEW a, Known(a, world, run) PROVE Known(a, x, run)
  <2>1. KnowsIds(a, x, run)
    BY <1>4, <1>6 DEF Known, KnowsIds, KnowsId
  <2>2. KnowsCas(a, x, run)
    BY <1>4, <1>6 DEF Known, KnowsCas
  <2>3. KnowsData(a, x, run)
    BY <1>2, <1>4, <1>6 DEF Known, KnowsData
  <2> QED
    BY <2>1, <2>2, <2>3 DEF Known
<1>7. ASSUME NEW k, NEW goal, Outlined(k, goal, world, run)
      PROVE  Outlined(k, goal, x, run)
  BY <1>6, <1>7 DEF Outlined
<1>8. Coherent(x, run)
  BY <1>1, <1>4, <1>7 DEF Coherent
<1> QED
  BY <1>1, <1>3, <1>5, <1>8 DEF IInv, Good

LEMMA RenewKeeps ==
    ASSUME Bounds, IInv, NEW c \in Ca, Renew(c)
    PROVE  IInv'
<1> DEFINE n == world.issued[c] + 1
           x == [world EXCEPT !.issued[c] = n]
           m == run.renewals + 1
           v == Running
           y == [run EXCEPT !.renewals = m, !.renewed = v]
<1>1. /\ world' = x /\ run' = y /\ run.renewals < MaxRenewals
      /\ world \in Worlds /\ run \in Runs /\ Drawn(world, run)
      /\ Coherent(world, run)
  BY DEF IInv, Good, Renew
<1>2. /\ n \in 1 .. MaxRenewals + 1 /\ m \in 0 .. MaxRenewals
      /\ n <= m + 1 /\ run.renewals <= m
      /\ \A k \in Int : k <= run.renewals + 1 => k <= m + 1
  <2>1. world.issued[c] \in 1 .. MaxRenewals + 1
    BY <1>1 DEF Worlds
  <2>2. run.renewals \in 0 .. MaxRenewals
    BY <1>1 DEF Runs
  <2>3. MaxRenewals \in Nat
    BY DEF Bounds
  <2>4. world.issued[c] <= run.renewals + 1
    BY <1>1 DEF Drawn, Issued
  <2> QED
    BY <1>1, <2>1, <2>2, <2>3, <2>4
<1>3. v \in BOOLEAN /\ v = (run.phase # "idle")
  BY DEF Running
<1>4. \A e \in Ca : world.issued[e] \in Int
                    /\ world.issued[e] <= run.renewals + 1
  <2>1. \A e \in Ca : world.issued[e] \in 1 .. MaxRenewals + 1
    BY <1>1 DEF Worlds
  <2>2. \A e \in Ca : world.issued[e] <= run.renewals + 1
    BY <1>1 DEF Drawn, Issued
  <2> QED
    BY <2>1, <2>2
<1> HIDE DEF n, m, v
<1>5. x \in Worlds
  BY <1>1, <1>2 DEF Worlds
<1>6. y \in Runs
  BY <1>1, <1>2, <1>3 DEF Runs
<1>7. /\ x.profile = world.profile /\ x.qa = world.qa /\ x.role = world.role
      /\ x.user = world.user /\ x.secret = world.secret /\ x.ca = world.ca
      /\ x.docs = world.docs /\ x.index = world.index
      /\ x.topic = world.topic /\ x.forward = world.forward
      /\ x.leaked = world.leaked
      /\ \A e \in Ca : x.issued[e] \in {n, world.issued[e]}
  BY <1>1 DEF Worlds
<1>8. /\ y.next = run.next /\ y.pass = run.pass /\ y.previous = run.previous
      /\ y.renewals = m /\ y.guarded = run.guarded /\ y.verb = run.verb
      /\ y.kills = run.kills /\ y.phase = run.phase /\ y.todo = run.todo
      /\ y.touched = run.touched /\ y.renewed = v
  BY <1>1 DEF Runs
<1> HIDE DEF x, y
<1>9. Drawn(x, y)
  <2>1. WorldDrawn(x, y.next)
    BY <1>1, <1>7, <1>8 DEF Drawn, WorldDrawn
  <2>2. RunDrawn(y)
    BY <1>1, <1>8 DEF Drawn, RunDrawn
  <2>3. Issued(x, y.renewals)
    BY <1>2, <1>4, <1>7, <1>8 DEF Issued
  <2> QED
    BY <2>1, <2>2, <2>3 DEF Drawn
<1>10. CASE run.phase = "idle"
  <2>1. Coherent(x, y)
    BY <1>1, <1>7, <1>8, <1>10 DEF Coherent
  <2> QED
    BY <1>1, <1>5, <1>6, <1>9, <2>1 DEF IInv, Good
<1>11. CASE run.phase # "idle"
  <2>1. ASSUME NEW a, Known(a, world, run) PROVE Known(a, x, y)
    <3>1. KnowsIds(a, x, y)
      <4>1. /\ x.role = world.role /\ x.user = world.user
            /\ x.secret = world.secret /\ y.pass = run.pass
        BY <1>7, <1>8
      <4>2. KnowsIds(a, world, run)
        BY <2>1 DEF Known
      <4> QED
        BY <4>1, <4>2 DEF KnowsIds, KnowsId
    <3>2. KnowsCas(a, x, y)
      BY <1>3, <1>8, <1>11 DEF KnowsCas
    <3>3. KnowsData(a, x, y)
      BY <1>7, <1>8, <2>1 DEF Known, KnowsData
    <3> QED
      BY <3>1, <3>2, <3>3 DEF Known
  <2>2. ASSUME NEW k, NEW goal, Outlined(k, goal, world, run)
        PROVE  Outlined(k, goal, x, y)
    BY <1>8, <2>1, <2>2 DEF Outlined
  <2>3. Coherent(x, y)
    BY <1>1, <1>7, <1>8, <1>11, <2>2 DEF Coherent
  <2> QED
    BY <1>1, <1>5, <1>6, <1>9, <2>3 DEF IInv, Good
<1> QED
  BY <1>10, <1>11

LEMMA Preserves ==
    ASSUME Bounds, IInv, [Next]_vars
    PROVE  IInv'
<1>1. CASE UNCHANGED vars
  BY <1>1 DEF vars, IInv
<1>2. CASE Next
  BY <1>2, BeginKeeps, StepKeeps, RefuseKeeps, FailKeeps, KillKeeps,
     WriteKeeps, RenewKeeps DEF Next
<1> QED
  BY <1>1, <1>2

\* The invariant of the inductive argument, for every behaviour.
LEMMA Invariance ==
    ASSUME Bounds
    PROVE  Spec => []IInv
<1>1. Init => IInv
  BY Starts
<1>2. IInv /\ [Next]_vars => IInv'
  BY Preserves
<1> QED
  BY <1>1, <1>2, PTL DEF Spec

-----------------------------------------------------------------------------
(* What a script says, step by step.                                       *)

\* Every variable keeps its type.
LEMMA Typed ==
    ASSUME Bounds, IInv
    PROVE  TypeOK
<1>1. world \in Worlds /\ run \in Runs /\ Drawn(world, run)
      /\ Coherent(world, run)
  BY DEF IInv, Good
<1>2. /\ world.profile \in Profiles
      /\ world.index \in {"none", "ours", "other"}
      /\ world.docs \in 0 .. MaxDocuments + Fixture
      /\ world.role \in [Id -> {"none", "ours", "foreign"}]
      /\ world.ca \in [Ca -> Foreign .. MaxRenewals + 1]
      /\ world.topic \in {"none", "ours", "foreign"}
      /\ world.user \in [Id -> Int] /\ world.secret \in [Id -> Int]
  BY <1>1 DEF Worlds
<1>3. /\ run.phase \in {"idle", "running", "undo"}
      /\ run.report \in {"none", "passed", "refused", "failed", "restored",
                         "rollback failed", "killed"}
  BY <1>1 DEF Runs
<1>4. /\ world.user \in [Id -> Foreign .. run.next]
      /\ world.secret \in [Id -> Foreign .. run.next]
  BY <1>1, <1>2 DEF Drawn, WorldDrawn
<1>5. run.phase = "idle" <=> run.todo = <<>>
  BY <1>1 DEF Coherent
<1> QED
  BY <1>2, <1>3, <1>4, <1>5 DEF TypeOK

\* A script that fails says so.
LEMMA FailureReports ==
    ASSUME NEW r \in Runs, NEW report,
           AfterFailure(r, report).phase = "idle"
    PROVE  /\ ~Rolls(r)
           /\ AfterFailure(r, report).report =
                 IF r.phase = "undo" THEN "rollback failed" ELSE report
<1>1. ~Rolls(r)
  BY DEF AfterFailure, Runs
<1>2. AfterFailure(r, report)
         = Ends(r, IF r.phase = "undo" THEN "rollback failed" ELSE report)
  BY <1>1 DEF AfterFailure
<1> QED
  BY <1>1, <1>2 DEF Ends, Runs

\* Which step says what.
LEMMA ReportedBy ==
    ASSUME Bounds, IInv, [Next]_vars, NEW report, Reports(report)
    PROVE  /\ report \in {"passed", "restored"} => Step
           /\ report = "refused" => Refuse
<1>1. run \in Runs /\ run.phase # "idle" /\ run'.phase = "idle"
      /\ run'.report = report
  BY DEF IInv, Good, Reports, Running
<1>2. ~(\E verb \in Verbs(world.profile) : Begin(verb))
  BY <1>1 DEF Begin, Running
<1>3. ~Write /\ ~(UNCHANGED vars)
  BY <1>1 DEF Write, vars
<1>4. ~(\E c \in Ca : Renew(c))
  <2> DEFINE m == run.renewals + 1
             v == Running
  <2>1. ASSUME NEW c \in Ca, Renew(c)
        PROVE  run' = [run EXCEPT !.renewals = m, !.renewed = v]
    BY <2>1 DEF Renew
  <2> HIDE DEF m, v
  <2>2. [run EXCEPT !.renewals = m, !.renewed = v].phase = run.phase
    BY <1>1 DEF Runs
  <2> QED
    BY <1>1, <2>1, <2>2
<1>5. Kill => report = "killed"
  <2>1. \A m : [Ends(run, "killed") EXCEPT !.kills = m].report = "killed"
    BY <1>1 DEF Ends, Runs
  <2> QED
    BY <1>1, <2>1 DEF Kill
<1>6. Refuse => report \in {"rollback failed", "refused"}
  BY <1>1, FailureReports DEF Refuse, Failing
<1>7. Fail => report \in {"rollback failed", "failed"}
  <2> SUFFICES ASSUME Fail PROVE report \in {"rollback failed", "failed"}
    OBVIOUS
  <2> DEFINE r == [run EXCEPT !.faults = @ + 1]
  <2>1. run' = AfterFailure(r, "failed")
    BY DEF Fail, Failing
  <2>2. run.faults + 1 \in Nat
    <3>1. run.faults \in Nat
      BY <1>1 DEF Runs
    <3> QED
      BY <3>1
  <2>3. r \in Runs
    BY <1>1, <2>2 DEF Runs
  <2> HIDE DEF r
  <2> QED
    BY <1>1, <2>1, <2>3, FailureReports
<1>8. Step => report \in {"passed", "restored"}
  <2> SUFFICES ASSUME Step PROVE report \in {"passed", "restored"}
    OBVIOUS
  <2> DEFINE r == Stepped(world, run)
  <2>1. IF r.todo # <<>> THEN run' = r
        ELSE run' = Ends(r, IF r.phase = "undo" THEN "restored" ELSE "passed")
    BY DEF Step, Stepped, Changes
  <2>2. PICK a \in SUBSET Fact, b \in SUBSET Fact : Ahead(world, run, a, b)
    BY <1>1, UnderWay DEF IInv
  <2>3. r \in Runs /\ r.phase = run.phase
    BY <1>1, <2>2, UnderWay, CallLearnt DEF IInv, Ahead
  <2> HIDE DEF r
  <2>4. \A rep : Ends(r, rep).report = rep
    BY <2>3 DEF Ends, Runs
  <2> QED
    BY <1>1, <2>1, <2>3, <2>4
<1> QED
  BY <1>2, <1>3, <1>4, <1>5, <1>6, <1>7, <1>8 DEF Next

\* What the script knows when it passes or has restored the Secret.
LEMMA KnownAtTheEnd ==
    ASSUME Bounds, IInv, [Next]_vars, NEW report \in {"passed", "restored"},
           Reports(report)
    PROVE  LET x == Effect(world, run, Head(run.todo))
               y == Stepped(world, run)
           IN /\ run.phase = (IF report = "restored" THEN "undo"
                               ELSE "running")
              /\ x \in Worlds /\ x.profile = world.profile /\ x.qa = world.qa
              /\ world' = Closed(x) /\ y.renewed = run.renewed
              /\ RunAfter(world, run, Head(run.todo), y)
              /\ Known(Aim(world, run), x, y)
              /\ \E a \in SUBSET Fact, m \in SUBSET Fact :
                    Sound(Promised(world, run), a, Head(run.todo), m)
<1> DEFINE s == Head(run.todo)
           x == Effect(world, run, s)
           y == Stepped(world, run)
<1>1. /\ Step /\ run.phase # "idle" /\ run'.phase = "idle"
      /\ run'.report = report /\ Good(world, run)
  BY ReportedBy DEF Reports, Running, IInv
<1>2. /\ world \in Worlds /\ run \in Runs /\ Drawn(world, run)
      /\ run.todo # <<>>
  BY <1>1, UnderWay
<1>3. PICK a \in SUBSET Fact, b \in SUBSET Fact : Ahead(world, run, a, b)
  BY <1>1, UnderWay
<1>4. /\ Known(a, world, run) /\ Aim(world, run) \subseteq b
      /\ Leads(Moves(Promised(world, run)), a, run.todo, b)
  BY <1>3 DEF Ahead
<1>5. /\ Accepts(world, run, s)
      /\ IF y.todo # <<>> THEN run' = y
         ELSE /\ run' = Ends(y, IF y.phase = "undo" THEN "restored"
                                ELSE "passed")
              /\ world' = Closed(x)
  BY <1>1 DEF Step, Stepped, Changes
<1>6. PICK m \in SUBSET Fact :
         /\ Sound(Promised(world, run), a, s, m) /\ Known(m, x, y)
         /\ Leads(Moves(Promised(world, run)), m, Tail(run.todo), b)
  BY <1>2, <1>4, <1>5, CallKnown
<1>7. x \in Worlds /\ x.profile = world.profile /\ x.qa = world.qa
  BY <1>2, <1>4, CallEffect
<1>8. /\ y \in Runs /\ y.todo = Tail(run.todo) /\ y.phase = run.phase
      /\ y.renewed = run.renewed /\ RunAfter(world, run, s, y)
  BY <1>2, <1>4, CallLearnt
<1> HIDE DEF s, x, y
<1>9. Tail(run.todo) = <<>> /\ world' = Closed(x)
  BY <1>1, <1>5, <1>8
<1>10. b = m
  <2>1. Leads(Moves(Promised(world, run)), m, <<>>, b)
    BY <1>6, <1>9
  <2> QED
    BY <2>1, LeadsNowhere
<1>11. run.phase = IF report = "restored" THEN "undo" ELSE "running"
  <2>1. run.phase \in {"idle", "running", "undo"}
    BY <1>2 DEF Runs
  <2>2. \A rep : Ends(y, rep).report = rep
    BY <1>8 DEF Ends, Runs
  <2> QED
    BY <1>1, <1>5, <1>8, <1>9, <2>1, <2>2
<1>12. Known(Aim(world, run), x, y)
  <2>1. Known(b, x, y) /\ Aim(world, run) \subseteq b
    BY <1>4, <1>6, <1>10
  <2> DEFINE g == Aim(world, run)
  <2> HIDE DEF g
  <2>2. g \subseteq b
    BY <2>1 DEF g
  <2>3. KnowsIds(g, x, y)
    BY <2>1, <2>2 DEF Known, KnowsIds, KnowsId
  <2>4. KnowsCas(g, x, y)
    BY <2>1, <2>2 DEF Known, KnowsCas
  <2>5. KnowsData(g, x, y)
    BY <2>1, <2>2 DEF Known, KnowsData
  <2> QED
    BY <2>3, <2>4, <2>5 DEF Known, g
<1> QED
  BY <1>6, <1>7, <1>8, <1>9, <1>11, <1>12 DEF s, x, y

\* "passed" is said of what the script was run for.
LEMMA Passing ==
    ASSUME Bounds, IInv, [Next]_vars
    PROVE  PassedMeansProvided
<1> SUFFICES ASSUME Reports("passed") PROVE Provided(world')
  BY DEF PassedMeansProvided
<1> DEFINE x == Effect(world, run, Head(run.todo))
           y == Stepped(world, run)
           z == Closed(x)
           g == Goal(world.profile, run.verb, world.qa)
<1>1. /\ run.phase = "running" /\ x \in Worlds
      /\ x.profile = world.profile /\ x.qa = world.qa /\ world' = z
      /\ y.renewed = run.renewed /\ Known(Aim(world, run), x, y)
  BY KnownAtTheEnd
<1>2. Aim(world, run) = g
  BY <1>1 DEF Aim
<1>3. run.verb \in Verbs(world.profile) /\ world \in Worlds /\ run \in Runs
  BY <1>1 DEF IInv, Good, Coherent
<1>4. world.profile \in Profiles /\ world.qa \in BOOLEAN
  BY <1>3 DEF Worlds
<1> HIDE DEF x, y
<1>5. /\ z.profile = x.profile /\ z.qa = x.qa /\ z.role = x.role
      /\ z.user = x.user /\ z.secret = x.secret /\ z.ca = x.ca
      /\ z.issued = x.issued /\ z.index = x.index /\ z.topic = x.topic
  BY <1>1 DEF Closed, Worlds
<1> HIDE DEF z
<1>6. ASSUME NEW i \in Id, LoggedIn(i) \subseteq g PROVE Usable(z, i)
  <2>1. KnowsId(g, x, y, i)
    BY <1>1, <1>2 DEF Known, KnowsIds
  <2>2. /\ <<"role", i>> \in g /\ <<"user", i>> \in g
        /\ <<"positive", i>> \in g /\ <<"same", i>> \in g
    BY <1>6 DEF LoggedIn
  <2> HIDE DEF g
  <2>3. x.role[i] = "ours" /\ x.user[i] = y.pass[i] /\ y.pass[i] > 0
        /\ x.secret[i] = y.pass[i]
    BY <2>1, <2>2 DEF KnowsId
  <2> QED
    BY <1>5, <2>3 DEF Usable, LogsIn
<1>7. /\ <<"index", "">> \in g => z.index = "ours"
      /\ <<"topic", "">> \in g => z.topic = "ours"
      /\ <<"no index", "">> \in g => z.index = "none"
      /\ <<"no topic", "">> \in g => z.topic = "none"
  <2> HIDE DEF g
  <2> QED
    BY <1>1, <1>2, <1>5 DEF Known, KnowsData
<1>8. ASSUME NEW c \in Ca, <<"current", c>> \in g, ~run.renewed
      PROVE  z.ca[c] = z.issued[c]
  <2> HIDE DEF g
  <2> QED
    BY <1>1, <1>2, <1>5, <1>8 DEF Known, KnowsCas
<1>9. ASSUME NEW i \in Id, <<"no user", i>> \in g, <<"no secret", i>> \in g
      PROVE  z.user[i] = None /\ z.secret[i] = None
  <2> HIDE DEF g
  <2>1. KnowsId(g, x, y, i)
    BY <1>1, <1>2 DEF Known, KnowsIds
  <2> QED
    BY <1>5, <1>9, <2>1 DEF KnowsId
<1>10. "reader" \in Id /\ "writer" \in Id /\ "elastic" \in Ca /\ "kafka" \in Ca
  BY DEF Id, Ca
<1>11. z.profile = world.profile /\ z.qa = world.qa
  BY <1>1, <1>5
<1>12. CASE world.profile = "reader"
  <2>1. g = LoggedIn("reader") \cup {<<"index", "">>}
                \cup (IF world.qa THEN {<<"current", "elastic">>} ELSE {})
    BY <1>12 DEF Goal
  <2>2. LoggedIn("reader") \subseteq g /\ <<"index", "">> \in g
        /\ (world.qa => <<"current", "elastic">> \in g)
    BY <2>1
  <2> HIDE DEF g
  <2>3. /\ Usable(z, "reader") /\ z.index = "ours"
        /\ world.qa /\ ~run.renewed => z.ca["elastic"] = z.issued["elastic"]
    BY <1>6, <1>7, <1>8, <1>10, <2>2
  <2>4. Provided(z)
    BY <1>11, <1>12, <2>3 DEF Provided
  <2> QED
    BY <1>1, <2>4
<1>13. CASE world.profile = "event" /\ run.verb # "retire"
  <2>1. g = Everything \cup {<<"index", "">>, <<"topic", "">>,
                             <<"current", "kafka">>}
    BY <1>13 DEF Goal
  <2>2. /\ LoggedIn("reader") \subseteq g /\ LoggedIn("writer") \subseteq g
        /\ <<"index", "">> \in g /\ <<"topic", "">> \in g
        /\ <<"current", "kafka">> \in g
    BY <2>1 DEF Everything
  <2> HIDE DEF g
  <2>3. /\ Usable(z, "reader") /\ Usable(z, "writer")
        /\ z.index = "ours" /\ z.topic = "ours"
        /\ ~run.renewed => z.ca["kafka"] = z.issued["kafka"]
    BY <1>6, <1>7, <1>8, <1>10, <2>2
  <2>4. Provided(z)
    BY <1>11, <1>13, <2>3 DEF Provided
  <2> QED
    BY <1>1, <2>4
<1>14. CASE world.profile = "event" /\ run.verb = "retire"
  <2>1. g = Retired
    BY <1>14 DEF Goal
  <2>2. /\ \A i \in Id : <<"no user", i>> \in g /\ <<"no secret", i>> \in g
        /\ <<"no index", "">> \in g /\ <<"no topic", "">> \in g
    BY <2>1 DEF Retired, Id
  <2> HIDE DEF g
  <2>3. /\ \A i \in Id : z.user[i] = None /\ z.secret[i] = None
        /\ z.topic = "none" /\ z.index = "none"
    BY <1>7, <1>9, <2>2
  <2>4. Provided(z)
    BY <1>11, <1>14, <2>3 DEF Provided
  <2> QED
    BY <1>1, <2>4
<1>15. CASE world.profile = "cutover"
  <2>1. run.verb \in {"ensure", "verify"} => g = Everything
    BY <1>15 DEF Goal
  <2>2. run.verb \in {"ensure", "verify"} =>
           LoggedIn("reader") \subseteq g /\ LoggedIn("writer") \subseteq g
    BY <2>1 DEF Everything
  <2> HIDE DEF g
  <2>3. run.verb \in {"ensure", "verify"} =>
           Usable(z, "reader") /\ Usable(z, "writer")
    BY <1>6, <1>10, <2>2
  <2>4. Provided(z)
    BY <1>11, <1>15, <2>3 DEF Provided
  <2> QED
    BY <1>1, <2>4
<1>16. CASE world.profile = "fixture"
  <2>1. /\ run.verb \in {"setup", "verify"} =>
              g = LoggedIn("reader") \cup {<<"index", "">>}
        /\ run.verb \in {"event-setup", "event-verify"} =>
              g = LoggedIn("writer") \cup {<<"topic", "">>}
    BY <1>16 DEF Goal
  <2>2. /\ run.verb \in {"setup", "verify"} =>
              LoggedIn("reader") \subseteq g /\ <<"index", "">> \in g
        /\ run.verb \in {"event-setup", "event-verify"} =>
              LoggedIn("writer") \subseteq g /\ <<"topic", "">> \in g
    BY <2>1
  <2> HIDE DEF g
  <2>3. /\ run.verb \in {"setup", "verify"} =>
              Usable(z, "reader") /\ z.index = "ours"
        /\ run.verb \in {"event-setup", "event-verify"} =>
              Usable(z, "writer") /\ z.topic = "ours"
    BY <1>6, <1>7, <1>10, <2>2
  <2>4. Provided(z)
    BY <1>11, <1>16, <2>3 DEF Provided
  <2> QED
    BY <1>1, <2>4
<1> QED
  BY <1>4, <1>12, <1>13, <1>14, <1>15, <1>16 DEF Profiles

\* A restored Secret is the one that the rotation found, and logs in.
LEMMA Restoring ==
    ASSUME Bounds, IInv, [Next]_vars
    PROVE  RestoredMeansRestored
<1> SUFFICES ASSUME Reports("restored")
             PROVE  /\ Usable(world', "reader")
                    /\ world'.secret["reader"] = run.previous
  BY DEF RestoredMeansRestored
<1> DEFINE s == Head(run.todo)
           x == Effect(world, run, s)
           y == Stepped(world, run)
           z == Closed(x)
           g == LoggedIn("reader")
<1>1. /\ run.phase = "undo" /\ x \in Worlds /\ world' = z
      /\ RunAfter(world, run, s, y) /\ Known(Aim(world, run), x, y)
  BY KnownAtTheEnd
<1>2. PICK a \in SUBSET Fact, m \in SUBSET Fact :
         Sound(Promised(world, run), a, s, m)
  BY KnownAtTheEnd
<1>3. Promised(world, run) = Undo /\ Aim(world, run) = g
  BY <1>1 DEF Promised, Aim
<1> HIDE DEF s, x, y
<1>4. run.previous > 0 /\ run.pass["reader"] = run.previous
  BY <1>1 DEF IInv, Good, Coherent
<1>5. z.role = x.role /\ z.user = x.user /\ z.secret = x.secret
  BY <1>1 DEF Closed, Worlds
<1> HIDE DEF z
<1>6. s[1] \notin {"password", "fresh", "held"}
  BY <1>2, <1>3 DEF Sound, Allowed, Undo
<1>7. y.pass["reader"] = run.previous
  BY <1>1, <1>4, <1>6 DEF RunAfter, PassAfter, On, Id
<1>8. KnowsId(g, x, y, "reader")
  BY <1>1, <1>3 DEF Known, KnowsIds, Id
<1>9. /\ <<"role", "reader">> \in g /\ <<"user", "reader">> \in g
      /\ <<"positive", "reader">> \in g /\ <<"same", "reader">> \in g
  BY DEF LoggedIn
<1> HIDE DEF g
<1>10. /\ x.role["reader"] = "ours" /\ x.user["reader"] = y.pass["reader"]
       /\ y.pass["reader"] > 0 /\ x.secret["reader"] = y.pass["reader"]
  BY <1>8, <1>9 DEF KnowsId
<1> QED
  BY <1>1, <1>5, <1>7, <1>10 DEF Usable, LogsIn

SameLogins(w, x) ==
    x.role = w.role /\ x.user = w.user /\ x.secret = w.secret

\* Who logs in depends on the roles, users and Secrets only.
LEMMA LoginsThere ==
    ASSUME NEW w, NEW x, SameLogins(w, x), NEW i, Usable(w, i)
    PROVE  Usable(x, i)
BY DEF SameLogins, Usable, LogsIn

LEMMA EndsKeepLogins ==
    ASSUME NEW w \in Worlds
    PROVE  /\ SameLogins(w, Closed(w)) /\ SameLogins(w, Abandoned(w))
           /\ \A v : SameLogins(w, [Closed(w) EXCEPT !.leaked = v])
<1> DEFINE y == Closed(w)
<1>1. y \in Worlds /\ SameLogins(w, y)
  BY DEF Closed, Worlds, SameLogins
<1> HIDE DEF y
<1>2. \A v : SameLogins(w, [y EXCEPT !.leaked = v])
  BY <1>1 DEF Worlds, SameLogins
<1> QED
  BY <1>1, <1>2 DEF Abandoned, y

\* A setup's call takes no login away.
LEMMA CallKeepsLogins ==
    ASSUME Bounds, IInv, run.phase # "idle",
           run.verb \in {"ensure", "setup", "event-setup"}, NEW i \in Id,
           Usable(world, i)
    PROVE  /\ Effect(world, run, Head(run.todo)) \in Worlds
           /\ Usable(Effect(world, run, Head(run.todo)), i)
<1> DEFINE s == Head(run.todo)
           x == Effect(world, run, s)
<1>1. /\ Good(world, run) /\ world \in Worlds /\ run \in Runs
      /\ Drawn(world, run) /\ run.todo # <<>>
  BY UnderWay DEF IInv
<1>2. PICK a \in SUBSET Fact, b \in SUBSET Fact : Ahead(world, run, a, b)
  BY <1>1, UnderWay
<1>3. /\ Known(a, world, run)
      /\ Leads(Moves(Promised(world, run)), a, run.todo, b)
  BY <1>2 DEF Ahead
<1>4. PICK m \in SUBSET Fact : Sound(Promised(world, run), a, s, m)
  BY <1>1, <1>3, NextCall
<1>5. x \in Worlds /\ IdAfter(world, run, s, x, i)
  BY <1>1, <1>3, CallEffect DEF After, IdsAfter
<1> HIDE DEF s, x
<1>6. run.phase # "undo"
  BY <1>1 DEF Good, Coherent
<1>7. "logins" \in Promised(world, run)
  BY <1>6 DEF Promised, Promises
<1>8. /\ s[1] \notin {"drop user", "drop role", "drop secret", "migrate"}
      /\ On(s, {"user", "publish"}, i) => <<"kept", i>> \in a
  BY <1>4, <1>7 DEF Sound, Allowed
<1>9. world.role[i] = "ours" /\ world.secret[i] > 0
      /\ world.user[i] = world.secret[i]
  BY DEF Usable, LogsIn
<1>10. On(s, {"user", "publish"}, i) => run.pass[i] = world.secret[i]
  BY <1>3, <1>8, <1>9 DEF Known, KnowsIds, KnowsId
<1>11. /\ On(s, {"user"}, i) => On(s, {"user", "publish"}, i)
       /\ On(s, {"publish"}, i) => On(s, {"user", "publish"}, i)
       /\ ~On(s, {"drop user"}, i) /\ ~On(s, {"drop role"}, i)
       /\ ~On(s, {"drop secret"}, i) /\ ~On(s, {"migrate"}, i)
  BY <1>8 DEF On
<1>12. x.role[i] = "ours" /\ x.user[i] = world.user[i]
       /\ x.secret[i] = world.secret[i]
  BY <1>5, <1>9, <1>10, <1>11 DEF IdAfter
<1> QED
  BY <1>5, <1>9, <1>12 DEF Usable, LogsIn, s, x

\* No step of a setup, nor any other while it is there, takes a login.
LEMMA Rerunning ==
    ASSUME Bounds, IInv, [Next]_vars
    PROVE  RerunKeepsLogins
<1> SUFFICES ASSUME run.verb \in {"ensure", "setup", "event-setup"},
                    NEW i \in Id, Usable(world, i)
             PROVE  Usable(world', i)
  BY DEF RerunKeepsLogins
<1> DEFINE x == Effect(world, run, Head(run.todo))
<1>1. world \in Worlds /\ run \in Runs
  BY DEF IInv, Good
<1>2. Running => x \in Worlds /\ Usable(x, i)
  BY CallKeepsLogins DEF Running
<1> HIDE DEF x
<1>3. ASSUME NEW w \in {world, x}, Running
      PROVE  /\ Usable(w, i) /\ Usable(Closed(w), i)
             /\ Usable(Abandoned(w), i)
  BY <1>1, <1>2, <1>3, EndsKeepLogins, LoginsThere
<1>4. UNCHANGED vars => Usable(world', i)
  BY DEF vars
<1>5. ASSUME NEW verb \in Verbs(world.profile), Begin(verb)
      PROVE  Usable(world', i)
  BY <1>5 DEF Begin
<1>6. Step => Usable(world', i)
  <2>1. Step => Running /\ (world' = x \/ world' = Closed(x))
    BY DEF Step, x
  <2> QED
    BY <2>1, <1>3
<1>7. Refuse => Usable(world', i)
  <2>1. Refuse => Running /\ (world' = world \/ world' = Abandoned(world))
    BY DEF Refuse, Failing
  <2> QED
    BY <2>1, <1>3
<1>8. Fail => Usable(world', i)
  <2>1. Fail => Running /\ \E w \in {world, x} :
                              world' = w \/ world' = Abandoned(w)
    BY DEF Fail, Failing, x
  <2> QED
    BY <2>1, <1>3
<1>9. Kill => Usable(world', i)
  <2>1. Kill => \E v : world' = [Closed(world) EXCEPT !.leaked = v]
    BY DEF Kill
  <2> QED
    BY <1>1, <2>1, EndsKeepLogins, LoginsThere
<1>10. Write => Usable(world', i)
  <2>1. \A v : SameLogins(world, [world EXCEPT !.docs = v])
    BY <1>1 DEF SameLogins, Worlds
  <2> QED
    BY <2>1, LoginsThere DEF Write
<1>11. ASSUME NEW c \in Ca, Renew(c) PROVE Usable(world', i)
  <2> DEFINE n == world.issued[c] + 1
  <2>1. world' = [world EXCEPT !.issued[c] = n]
    BY <1>11 DEF Renew
  <2> HIDE DEF n
  <2>2. SameLogins(world, [world EXCEPT !.issued[c] = n])
    BY <1>1 DEF SameLogins, Worlds
  <2> QED
    BY <2>1, <2>2, LoginsThere
<1> QED
  BY <1>4, <1>5, <1>6, <1>7, <1>8, <1>9, <1>10, <1>11 DEF Next

\* A call is taken that refuses nothing, or not what is known.
LEMMA MetAccepts ==
    ASSUME NEW w \in Worlds, NEW r \in Runs, NEW s \in Call, NEW a,
           Known(a, w, r), Met(a, s), s[1] = "trusted" => ~r.renewed
    PROVE  Accepts(w, r, s)
<1>1. s = <<s[1], s[2]>>
  BY CallShape
<1>2. CASE s[1] \in Sure
  <2>1. ASSUME NEW t \in Sure, NEW u PROVE Accepts(w, r, <<t, u>>)
    BY DEF Accepts, AcceptsObject, AcceptsTrust, AcceptsData, Sure
  <2> QED
    BY <1>1, <1>2, <2>1
<1>3. ASSUME NEW i \in Id, On(s, {"stored", "login"}, i),
             {<<"role", i>>, <<"user", i>>, <<"positive", i>>} \subseteq a
      PROVE  Accepts(w, r, s)
  <2>1. w.role[i] = "ours" /\ w.user[i] = r.pass[i] /\ r.pass[i] > 0
    BY <1>3 DEF Known, KnowsIds, KnowsId
  <2>2. ASSUME NEW t \in {"stored", "login"} PROVE Accepts(w, r, <<t, i>>)
    BY <2>1
    DEF Accepts, AcceptsObject, AcceptsTrust, AcceptsData, IsStored, LogsIn
  <2> QED
    BY <1>1, <1>3, <2>2 DEF On
<1>4. ASSUME NEW i \in Id, On(s, {"publish"}, i), <<"legible", i>> \in a
      PROVE  Accepts(w, r, s)
  <2>1. w.secret[i] # Foreign
    BY <1>4 DEF Known, KnowsIds, KnowsId
  <2>2. Accepts(w, r, <<"publish", i>>)
    BY <2>1 DEF Accepts, AcceptsObject, AcceptsTrust, AcceptsData
  <2> QED
    BY <1>1, <1>4, <2>2 DEF On
<1>5. ASSUME On(s, {"index"}, "present"), <<"index", "">> \in a
      PROVE  Accepts(w, r, s)
  <2>1. w.index = "ours"
    BY <1>5 DEF Known, KnowsData
  <2>2. Accepts(w, r, <<"index", "present">>)
    BY <2>1 DEF Accepts, AcceptsObject, AcceptsTrust, AcceptsData
  <2> QED
    BY <1>1, <1>5, <2>2 DEF On
<1>6. ASSUME NEW c \in Ca, On(s, {"trusted"}, c), <<"current", c>> \in a
      PROVE  Accepts(w, r, s)
  <2>1. w.ca[c] = w.issued[c]
    BY <1>6 DEF Known, KnowsCas, On
  <2>2. Accepts(w, r, <<"trusted", c>>)
    BY <2>1 DEF Accepts, AcceptsObject, AcceptsTrust, AcceptsData
  <2> QED
    BY <1>1, <1>6, <2>2 DEF On
<1> QED
  BY <1>2, <1>3, <1>4, <1>5, <1>6 DEF Met

\* What is refused is refused before anything changed, as far as promised.
LEMMA Refusing ==
    ASSUME Bounds, IInv, [Next]_vars
    PROVE  RefusedBeforeEffects
<1> SUFFICES ASSUME Reports("refused")
             PROVE  CASE world.profile = "reader" ->
                            ~run.touched \/ run.renewed
                      [] world.profile = "cutover" ->
                            Head(run.todo)[1] = "index" => ~run.touched
                      [] world.profile = "event" ->
                            run.verb = "retire" => ~run.touched
                      [] OTHER -> TRUE
  BY DEF RefusedBeforeEffects
<1> DEFINE s == Head(run.todo)
           k == Promises(world.profile, run.verb)
<1>1. Refuse /\ run.phase # "idle" /\ run'.phase = "idle"
      /\ run'.report = "refused" /\ Good(world, run)
  BY ReportedBy DEF Reports, Running, IInv
<1>2. /\ world \in Worlds /\ run \in Runs /\ Drawn(world, run)
      /\ run.todo # <<>>
  BY <1>1, UnderWay
<1>3. PICK a \in SUBSET Fact, b \in SUBSET Fact : Ahead(world, run, a, b)
  BY <1>1, UnderWay
<1>4. ~Accepts(world, run, s) /\ run' = AfterFailure(run, "refused")
  BY <1>1 DEF Refuse, Failing
<1>5. run.phase # "undo"
  BY <1>1, <1>2, <1>4, FailureReports
<1>6. Promised(world, run) = k
  BY <1>5 DEF Promised
<1>7. Known(a, world, run) /\ Leads(Moves(k), a, run.todo, b)
  BY <1>3, <1>6 DEF Ahead
<1>8. PICK m \in SUBSET Fact : s \in Call /\ Sound(k, a, s, m)
  BY <1>2, <1>7, NextCall
<1> HIDE DEF s, k
<1>9. ASSUME "strict" \in k, s[1] = "trusted" => ~run.renewed
      PROVE  ~run.touched
  <2>1. ~Met(a, s)
    BY <1>2, <1>4, <1>7, <1>8, <1>9, MetAccepts
  <2>2. <<"untouched", "">> \in a
    BY <1>8, <1>9, <2>1 DEF Sound, Allowed
  <2> QED
    BY <1>7, <2>2 DEF Known, KnowsData
<1>10. CASE world.profile = "reader"
  <2>1. "strict" \in k
    BY <1>10 DEF Promises, k
  <2> QED
    BY <1>9, <1>10, <2>1
<1>11. CASE world.profile = "cutover"
  <2>1. "index" \in k
    BY <1>11 DEF Promises, k
  <2>2. ASSUME s[1] = "index" PROVE ~run.touched
    <3>1. <<"untouched", "">> \in a
      BY <1>8, <2>1, <2>2 DEF Sound, Allowed
    <3> QED
      BY <1>7, <3>1 DEF Known, KnowsData
  <2> QED
    BY <1>11, <2>2 DEF s
<1>12. CASE world.profile = "event"
  <2>1. ASSUME run.verb = "retire" PROVE ~run.touched
    <3>1. "strict" \in k /\ "final" \in k
      BY <1>12, <2>1 DEF Promises, k
    <3>2. s[1] # "trusted"
      BY <1>8, <3>1 DEF Sound, Allowed
    <3> QED
      BY <1>9, <3>1, <3>2
  <2> QED
    BY <1>12, <2>1
<1> QED
  BY <1>10, <1>11, <1>12

\* Only a kill leaves a port-forward of the dashboard.
LEMMA Stopping ==
    ASSUME IInv
    PROVE  ForwardStopped
BY DEF IInv, Good, Coherent, ForwardStopped, Running

-----------------------------------------------------------------------------
(* The theorems.                                                           *)

(* Whatever is run, fails, is killed or renewed: the state keeps its type. *)
THEOREM TypeCorrect == ASSUME Bounds PROVE Spec => []TypeOK
<1>1. Spec => []IInv
  BY Invariance
<1>2. IInv => TypeOK
  BY Typed
<1> QED
  BY <1>1, <1>2, PTL

(* "passed" is said of what the script was run for: the workload's Secrets *)
(* log in, its index and topic are there, its CAs are the issued ones      *)
(* unless renewed meanwhile; after the events' retirement nothing is left. *)
THEOREM Passed == ASSUME Bounds PROVE Spec => [][PassedMeansProvided]_vars
<1>1. Spec => []IInv
  BY Invariance
<1>2. IInv /\ [Next]_vars => [PassedMeansProvided]_vars
  BY Passing
<1> QED
  BY <1>1, <1>2, PTL DEF Spec

(* A rotation that says it restored its Secret left the one that it found, *)
(* and that one logs in: publish and login of reader_administration.py,    *)
(* and the rollback around them.                                           *)
THEOREM Restored == ASSUME Bounds PROVE Spec => [][RestoredMeansRestored]_vars
<1>1. Spec => []IInv
  BY Invariance
<1>2. IInv /\ [Next]_vars => [RestoredMeansRestored]_vars
  BY Restoring
<1> QED
  BY <1>1, <1>2, PTL DEF Spec

(* An ensure or a setup, however often repeated and wherever it fails or   *)
(* is killed, takes no login away from a workload, not for one step.       *)
THEOREM Rerun == ASSUME Bounds PROVE Spec => [][RerunKeepsLogins]_vars
<1>1. Spec => []IInv
  BY Invariance
<1>2. IInv /\ [Next]_vars => [RerunKeepsLogins]_vars
  BY Rerunning
<1> QED
  BY <1>1, <1>2, PTL DEF Spec

(* A refusal comes before any change: of the reader unless a CA was        *)
(* renewed meanwhile, of the cutover for the index, of the retirement      *)
(* always.                                                                 *)
THEOREM Refused == ASSUME Bounds PROVE Spec => [][RefusedBeforeEffects]_vars
<1>1. Spec => []IInv
  BY Invariance
<1>2. IInv /\ [Next]_vars => [RefusedBeforeEffects]_vars
  BY Refusing
<1> QED
  BY <1>1, <1>2, PTL DEF Spec

(* No script that ends leaves its port-forward; of the dashboard's, only   *)
(* one that was killed does.                                               *)
THEOREM Stopped == ASSUME Bounds PROVE Spec => []ForwardStopped
<1>1. Spec => []IInv
  BY Invariance
<1>2. IInv => ForwardStopped
  BY Stopping
<1> QED
  BY <1>1, <1>2, PTL
=============================================================================
