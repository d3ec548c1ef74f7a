---------------------- MODULE RoleAdministrationProofs ----------------------
(***************************************************************************)
(* Proofs about RoleAdministration, for any bounds and any mixture of      *)
(* failures, lost answers and signals, with one operator at a time:        *)
(* reader.py:615 and administration.py:521 read, decide and write without  *)
(* a lock, so that two attempts at once are beyond what the scripts        *)
(* promise.                                                                *)
(*                                                                         *)
(* What a report claims depends on everything the attempt has done so far. *)
(* Sound says, for an attempt that stands at a step, how the database and  *)
(* the Secrets differ from what the attempt read before it changed         *)
(* anything.  It speaks of a database d, of Secrets s, of recovery files f *)
(* and of an attempt p, so that every step is a fact about data.           *)
(***************************************************************************)
EXTENDS RoleAdministration, SequenceTheorems, TLAPS

-----------------------------------------------------------------------------
(* Types.                                                                  *)

Profile == {"reader", "administration"}
Verb == {"provision", "verify", "rotate", "revoke"}
Place == {"idle", "inputs", "sql", "put", "check", "login", "undo", "undone",
          "restoreSql", "restorePut", "remove"}
Database == [password : [Role -> Value], granted : BOOLEAN,
             member : BOOLEAN, marker : Value]
Secrets == [Name -> Value]
Report == {"none", "refused", "passed", "failed", "compensated", "restored",
           "incomplete", "interrupted"}
Attempt == [pc : Place, report : Report, profile : Profile, verb : Verb,
            fresh : Value, lost : BOOLEAN, seen : Database, held : Secrets,
            probe : Secrets, written : Seq(Name), todo : Seq(Name)]
Files == SUBSET (Role \X (Value \ {None}))

Typed ==
    /\ database \in Database
    /\ secrets \in Secrets
    /\ recovery \in Files
    /\ op \in [Operator -> Attempt]
    /\ attempts \in 0 .. MaxAttempts
    /\ faults \in 0 .. MaxFaults
    /\ interrupts \in 0 .. MaxInterrupts

-----------------------------------------------------------------------------
(* What an attempt has done when it stands at a step.                      *)

\* Which attempts come to which step, and where there is something left to do.
Dispatched(p) ==
    /\ p.pc = "inputs" => p.verb \in {"provision", "rotate"}
    /\ p.pc = "sql" => p.verb \in {"provision", "rotate", "revoke"}
    /\ p.pc = "put" => p.verb \in {"provision", "rotate"} /\ p.todo # <<>>
    /\ p.pc = "check" => p.verb \in {"provision", "rotate", "verify"}
    /\ p.pc = "login" =>
           /\ p.verb \in {"provision", "rotate", "verify"}
           /\ p.profile = "administration" => p.verb # "provision"
    /\ p.pc = "undo" => p.verb = "provision"
    /\ p.pc = "undone" => p.verb = "provision" /\ p.profile = "administration"
    /\ p.pc = "restoreSql" => p.verb = "rotate"
    /\ p.pc = "restorePut" => p.verb = "rotate" /\ p.todo # <<>>
    /\ p.pc = "remove" => p.verb = "revoke" /\ p.todo # <<>>
    /\ p.verb \in {"provision", "rotate"} => p.fresh # None

\* Nothing has changed but the reader's SELECT since the inventory.
Unchanged(d, p) ==
    /\ d.password = p.seen.password
    /\ d.member = p.seen.member
    /\ d.marker = p.seen.marker

\* The roles whose passwords a script rotates or drops.
Turned(p) == Range(Affected(p.profile))

\* The Secrets a provision writes where they are absent.
Wanted(p) == IF p.profile = "reader" THEN {"reader"} ELSE Name

\* What a provision writes there.
Wish(p, n) == IF n = "target" THEN Instance(p) ELSE Password(p, n)

\* The first transaction is still to come.
Beginning(d, s, f, p) ==
    /\ p.pc \in {"inputs", "sql"} =>
           Unchanged(d, p) /\ ~p.lost /\ p.written = <<>>
    /\ p.pc = "sql" /\ p.verb # "revoke" => s = p.held

\* A provision went on only where roles and Secrets fitted: an existing role
\* it provisions has a Secret, and for the administration profile a Secret
\* has a role.
Fitting(p) ==
    p.verb = "provision" /\ p.pc \notin {"idle", "inputs"} =>
        /\ \A r \in Range(Provisioned(p.profile)) :
               r \in Existing(p.seen) => p.held[r] # None
        /\ p.profile = "administration" =>
               \A r \in Role : p.held[r] # None => r \in Existing(p.seen)

\* What a provision has made of the database, until it is undone.
Made(d, p) ==
    /\ \A r \in Role : d.password[r] =
           IF r \in Created(p) THEN Password(p, r) ELSE p.seen.password[r]
    /\ IF p.profile = "reader"
       THEN d.member = p.seen.member /\ d.marker = p.seen.marker
       ELSE /\ d.member
            /\ d.marker = IF p.seen.marker = None THEN Instance(p)
                          ELSE p.seen.marker
Provided(d, p) ==
    p.verb = "provision" /\ p.pc \in {"put", "check", "login", "undo"} =>
        Made(d, p)

\* What the compensation has made of the roles.
Withdrawn(d, p) ==
    p.pc = "undone" =>
        \A r \in Role : r \notin Created(p) =>
            d.password[r] = p.seen.password[r]

\* What a provision has made of the Secrets: each is as it was, or was absent
\* and is the one wanted; and as long as no answer was lost, the attempt knows
\* which ones it wrote.
Added(s, lost, p) ==
    /\ \A n \in Name :
           s[n] # p.held[n] =>
               /\ p.held[n] = None /\ n \in Wanted(p)
               /\ s[n] = Wish(p, n)
               /\ lost \/ n \in Range(p.written)
    /\ \A n \in Range(p.written) : p.held[n] = None
Stored(s, p) ==
    p.verb = "provision"
        /\ p.pc \in {"put", "check", "login", "undo", "undone"} =>
        /\ Added(s, p.lost, p)
        /\ p.pc = "put" => \A n \in Range(p.todo) :
               n \in Wanted(p) /\ (n = "target" \/ p.held[n] = None)
        /\ p.pc \in {"put", "check", "login"} =>
               /\ ~p.lost
               /\ \A n \in Wanted(p) :
                      s[n] # None \/ (p.pc = "put" /\ n \in Range(p.todo))
        /\ p.pc = "undo" => Range(p.todo) \subseteq Range(p.written)

\* A rotation touches the passwords and Secrets of existing roles only; the
\* old ones are in a recovery file.
Replaced(d, s, f, p) ==
    /\ \A r \in Turned(p) : p.held[r] # None /\ <<r, p.held[r]>> \in f
    /\ Existing(d) = Existing(p.seen)
    /\ d.marker = p.seen.marker
    /\ \A n \in Name \ Turned(p) : s[n] = p.held[n]
    /\ \A r \in Turned(p) : s[r] # None
Turning(d, s, f, p) ==
    p.verb = "rotate" /\ p.pc \notin {"idle", "inputs"} =>
        /\ Replaced(d, s, f, p)
        /\ p.pc \in {"put", "restorePut"} => Range(p.todo) \subseteq Turned(p)
        /\ p.pc = "put" => \A r \in Turned(p) : d.password[r] = p.fresh
        /\ p.pc = "restorePut" =>
               \A r \in Turned(p) :
                   /\ d.password[r] = p.held[r]
                   /\ s[r] # p.held[r] => r \in Range(p.todo)

\* A revocation has dropped the roles and goes through their Secrets.
Removing(d, s, p) ==
    p.pc = "remove" =>
        /\ Range(p.todo) \subseteq Turned(p)
        /\ \A r \in Turned(p) :
               /\ d.password[r] = None
               /\ s[r] # None => r \in Range(p.todo)

\* A verification logs in with the Secrets that are there.
Verifying(d, s, p) ==
    p.pc = "login" =>
        /\ p.probe = s
        /\ \A r \in Range(Provisioned(p.profile)) : s[r] # None
        /\ p.profile = "administration" => d.marker = s["target"]

Sound(d, s, f, p) ==
    /\ Dispatched(p) /\ Beginning(d, s, f, p) /\ Fitting(p)
    /\ Provided(d, p) /\ Withdrawn(d, p) /\ Stored(s, p)
    /\ Turning(d, s, f, p) /\ Removing(d, s, p) /\ Verifying(d, s, p)

\* PredecessorKept of a database, Secrets and recovery files.
Kept(d, s, f) ==
    \A r \in Existing(d) :
        s[r] \notin {None, d.password[r]} =>
            <<r, s[r]>> \in f \/ <<r, d.password[r]>> \in f

Good(d, s, f, p) ==
    /\ d \in Database /\ s \in Secrets /\ f \in Files /\ p \in Attempt
    /\ Kept(d, s, f)
    /\ Sound(d, s, f, p)

IInv ==
    /\ Typed
    /\ Kept(database, secrets, recovery)
    /\ \A o \in Operator : Good(database, secrets, recovery, op[o])

\* There is one operator.
OneOperator == \A a, b \in Operator : a = b

-----------------------------------------------------------------------------
(* Roles, names and the sequences of them.                                 *)

\* A one-element sequence.
LEMMA RangeOne == \A x : Range(<<x>>) = {x} /\ Range(<<>>) = {}
BY DEF Range

\* The roles of the two profiles.
LEMMA RolesAre ==
    /\ Role = {"reader", "migrator", "seeder"}
    /\ Range(AdminRoles) = {"migrator", "seeder"}
    /\ Name = {"reader", "migrator", "seeder", "target"}
    /\ AdminRoles \in Seq(Name) /\ Roles \in Seq(Name)
    /\ AdminRoles # <<>>
<1> DEFINE N == {"reader", "migrator", "seeder", "target"}
<1>1. <<"reader">> \in Seq(N) /\ AdminRoles \in Seq(N) /\ AdminRoles # <<>>
  BY DEF AdminRoles
<1>2. Range(<<"reader">>) = {"reader"}
  BY RangeOne
<1>3. Range(AdminRoles) = {"migrator", "seeder"}
  <2>1. AdminRoles = <<"migrator", "seeder">>
    BY DEF AdminRoles
  <2>2. Range(AdminRoles) = {AdminRoles[1], AdminRoles[2]}
    BY <2>1 DEF Range
  <2> QED
    BY <2>1, <2>2
<1>4. Range(Roles) = {"reader", "migrator", "seeder"} /\ Roles \in Seq(N)
  <2> DEFINE r == <<"reader">>
  <2> HIDE DEF r, N
  <2>1. Range(r \o AdminRoles) = Range(r) \cup Range(AdminRoles)
    BY <1>1, RangeConcatenation DEF r
  <2>2. r \o AdminRoles \in Seq(N)
    BY <1>1, ConcatProperties DEF r
  <2> QED
    BY <1>2, <1>3, <2>1, <2>2 DEF Roles, r
<1> QED
  BY <1>1, <1>3, <1>4 DEF Role, Name

\* Taking the head off a sequence of names.
LEMMA HeadTail ==
    ASSUME NEW s \in Seq(Name), s # <<>>
    PROVE  /\ Head(s) \in Range(s) /\ Head(s) \in Name
           /\ Tail(s) \in Seq(Name)
           /\ Range(s) = {Head(s)} \cup Range(Tail(s))
           /\ Len(s) = 1 => Tail(s) = <<>> /\ Range(s) = {Head(s)}
           /\ Len(s) # 1 => Tail(s) # <<>>
<1>1. /\ Len(s) \in Nat \ {0} /\ Head(s) = s[1] /\ Head(s) \in Name
      /\ Tail(s) \in Seq(Name) /\ Len(Tail(s)) = Len(s) - 1
      /\ \A i \in 1 .. Len(s) - 1 : Tail(s)[i] = s[i + 1]
  BY EmptySeq, HeadTailProperties
<1>2. /\ Range(s) = {s[i] : i \in 1 .. Len(s)}
      /\ Range(Tail(s)) = {Tail(s)[i] : i \in 1 .. Len(s) - 1}
  BY <1>1, RangeEquality
<1>3. Range(s) = {Head(s)} \cup Range(Tail(s))
  <2>1. ASSUME NEW i \in 1 .. Len(s)
        PROVE  s[i] \in {Head(s)} \cup Range(Tail(s))
    <3>1. CASE i = 1
      BY <1>1, <3>1
    <3>2. CASE i # 1
      <4>1. i - 1 \in 1 .. Len(s) - 1 /\ (i - 1) + 1 = i
        BY <1>1, <3>2
      <4>2. Tail(s)[i - 1] = s[i]
        BY <1>1, <4>1
      <4> QED
        BY <1>2, <4>1, <4>2
    <3> QED
      BY <3>1, <3>2
  <2>2. ASSUME NEW i \in 1 .. Len(s) - 1
        PROVE  Tail(s)[i] \in Range(s)
    <3>1. i + 1 \in 1 .. Len(s)
      BY <1>1
    <3> QED
      BY <1>1, <1>2, <3>1
  <2>3. Head(s) \in Range(s)
    BY <1>1, <1>2
  <2> QED
    BY <1>2, <2>1, <2>2, <2>3
<1> DEFINE t == Tail(s)
<1>4. t \in Seq(Name) /\ Len(t) = Len(s) - 1
  BY <1>1
<1> HIDE DEF t
<1>5. t # <<>> => Len(t) \in Nat \ {0}
  BY <1>4, EmptySeq
<1>6. t = <<>> => Len(t) = 0
  BY EmptySeq
<1>7. (Len(s) = 1 => t = <<>>) /\ (Len(s) # 1 => t # <<>>)
  BY <1>1, <1>4, <1>5, <1>6
<1>8. Len(s) = 1 => Range(t) = {}
  BY <1>7, RangeOne
<1> QED
  BY <1>1, <1>3, <1>7, <1>8 DEF t

\* Appending a name to a sequence.
LEMMA Appended ==
    ASSUME NEW s \in Seq(Name), NEW n \in Name
    PROVE  /\ Append(s, n) \in Seq(Name)
           /\ Range(Append(s, n)) = Range(s) \cup {n}
<1>1. Append(s, n) = s \o <<n>> /\ <<n>> \in Seq(Name)
  BY AppendIsConcat
<1>2. Range(s \o <<n>>) = Range(s) \cup Range(<<n>>)
  BY <1>1, RangeConcatenation
<1>3. Append(s, n) \in Seq(Name)
  BY AppendProperties
<1> QED
  BY <1>1, <1>2, <1>3, RangeOne

\* Putting two sequences of names together.
LEMMA Joined ==
    \A a, b \in Seq(Name) :
        a \o b \in Seq(Name) /\ Range(a \o b) = Range(a) \cup Range(b)
BY ConcatProperties, RangeConcatenation

\* Reversing a sequence of names.
LEMMA Reversed ==
    ASSUME NEW s \in Seq(Name)
    PROVE  Reverse(s) \in Seq(Name) /\ Range(Reverse(s)) = Range(s)
<1>1. /\ Len(s) \in Nat /\ \A i \in 1 .. Len(s) : s[i] \in Name
      /\ Range(s) = {s[i] : i \in 1 .. Len(s)}
  BY RangeEquality, ElementOfSeq, LenProperties
<1>2. \A i \in 1 .. Len(s) : Len(s) - i + 1 \in 1 .. Len(s)
  BY <1>1
<1>3. Reverse(s) \in Seq(Name) /\ Len(Reverse(s)) = Len(s)
      /\ \A i \in 1 .. Len(s) : Reverse(s)[i] = s[Len(s) - i + 1]
  BY <1>1, <1>2 DEF Reverse
<1>4. Range(Reverse(s)) = {Reverse(s)[i] : i \in 1 .. Len(s)}
  BY <1>3, RangeEquality
<1>5. ASSUME NEW i \in 1 .. Len(s) PROVE s[i] \in Range(Reverse(s))
  <2>1. Reverse(s)[Len(s) - i + 1] = s[Len(s) - (Len(s) - i + 1) + 1]
    BY <1>2, <1>3
  <2>2. Len(s) - (Len(s) - i + 1) + 1 = i
    BY <1>1
  <2> QED
    BY <1>2, <1>4, <2>1, <2>2
<1>6. ASSUME NEW i \in 1 .. Len(s) PROVE Reverse(s)[i] \in Range(s)
  BY <1>1, <1>2, <1>3
<1> QED
  BY <1>1, <1>3, <1>4, <1>5, <1>6

-----------------------------------------------------------------------------
(* The sets an attempt works on.                                           *)

\* The roles and Secrets of an attempt, by its profile.
LEMMA Scope ==
    ASSUME NEW p \in Attempt
    PROVE  /\ Affected(p.profile) \in Seq(Name) /\ Affected(p.profile) # <<>>
           /\ Provisioned(p.profile) \in Seq(Name)
           /\ Turned(p) = Range(Affected(p.profile))
           /\ p.profile = "reader" =>
                  /\ Turned(p) = {"reader"} /\ Wanted(p) = {"reader"}
                  /\ Range(Provisioned(p.profile)) = {"reader"}
           /\ p.profile # "reader" =>
                  /\ Turned(p) = {"migrator", "seeder"} /\ Wanted(p) = Name
                  /\ Range(Provisioned(p.profile)) = Role
                  /\ p.profile = "administration"
<1>1. <<"reader">> \in Seq(Name) /\ <<"reader">> # <<>>
  BY RolesAre
<1>2. Range(<<"reader">>) = {"reader"}
  BY RangeOne
<1>3. Range(Roles) = Role
  BY DEF Role
<1> QED
  BY <1>1, <1>2, <1>3, RolesAre
     DEF Affected, Provisioned, Turned, Wanted, Attempt, Profile

\* A provision goes through the Secrets it found missing, and the target's.
LEMMA UnwrittenIs ==
    ASSUME NEW p \in Attempt
    PROVE  /\ Unwritten(p) \in Seq(Name)
           /\ Range(Unwritten(p)) =
                  {n \in Wanted(p) : n = "target" \/ p.held[n] = None}
<1> DEFINE R == Missing(p, "reader")
           M == Missing(p, "migrator")
           S == Missing(p, "seeder")
           T == <<"target">>
<1>1. ASSUME NEW r \in Name
      PROVE  /\ Missing(p, r) \in Seq(Name)
             /\ Range(Missing(p, r)) = {n \in {r} : p.held[n] = None}
  BY RangeOne DEF Missing
<1>2. R \in Seq(Name) /\ M \in Seq(Name) /\ S \in Seq(Name)
      /\ T \in Seq(Name) /\ Range(T) = {"target"}
  BY <1>1, RolesAre, RangeOne
<1> DEFINE RM == R \o M
           RMS == RM \o S
           RMST == RMS \o T
<1>3. RM \in Seq(Name) /\ Range(RM) = Range(R) \cup Range(M)
  BY <1>2, Joined
<1> HIDE DEF RM
<1>4. RMS \in Seq(Name) /\ Range(RMS) = Range(RM) \cup Range(S)
  BY <1>2, <1>3, Joined
<1> HIDE DEF RMS
<1>5. RMST \in Seq(Name) /\ Range(RMST) = Range(RMS) \cup Range(T)
  BY <1>2, <1>4, Joined
<1> HIDE DEF R, M, S, T, RMST
<1>6. CASE p.profile = "reader"
  BY <1>1, <1>2, <1>6, Scope, RolesAre DEF Unwritten, R
<1>7. CASE p.profile # "reader"
  <2>1. Unwritten(p) = RMST
    BY <1>7 DEF Unwritten, R, M, S, T, RM, RMS, RMST
  <2>2. /\ Range(R) = {n \in {"reader"} : p.held[n] = None}
        /\ Range(M) = {n \in {"migrator"} : p.held[n] = None}
        /\ Range(S) = {n \in {"seeder"} : p.held[n] = None}
    BY <1>1, RolesAre DEF R, M, S
  <2> QED
    BY <1>2, <1>3, <1>4, <1>5, <1>7, <2>1, <2>2, Scope, RolesAre
<1> QED
  BY <1>6, <1>7

\* The database keeps its type under the scripts' statements.
LEMMA DatabaseTypes ==
    /\ NoDatabase \in Database /\ NoSecrets \in Secrets
    /\ \A d \in Database : \A R \in SUBSET Role : \A w \in [R -> Value] :
           /\ SetPasswords(d, w) =
                  [d EXCEPT !.password = [r \in Role |->
                      IF r \in R THEN w[r] ELSE d.password[r]]]
           /\ SetPasswords(d, w) \in Database
    /\ \A d \in Database : Existing(d) \subseteq Role
<1>1. None \in Value
  BY BoundsAssumption DEF None, Value
<1>2. NoDatabase \in Database /\ NoSecrets \in Secrets
  BY <1>1 DEF NoDatabase, NoSecrets, Database, Secrets
<1>3. ASSUME NEW d \in Database, NEW R \in SUBSET Role, NEW w \in [R -> Value]
      PROVE  /\ SetPasswords(d, w) =
                    [d EXCEPT !.password = [r \in Role |->
                        IF r \in R THEN w[r] ELSE d.password[r]]]
             /\ SetPasswords(d, w) \in Database
  <2>1. DOMAIN w = R
    OBVIOUS
  <2>2. SetPasswords(d, w) =
            [d EXCEPT !.password = [r \in Role |->
                IF r \in R THEN w[r] ELSE d.password[r]]]
    BY <2>1 DEF SetPasswords
  <2>3. [r \in Role |-> IF r \in R THEN w[r] ELSE d.password[r]]
            \in [Role -> Value]
    BY DEF Database
  <2> QED
    BY <2>2, <2>3 DEF Database
<1>4. \A d \in Database : Existing(d) \subseteq Role
  BY DEF Existing
<1> QED
  BY <1>2, <1>3, <1>4

-----------------------------------------------------------------------------
(* Ending, and the outcomes of a call.                                     *)

\* The state of an operator without an attempt is well formed.
LEMMA IdleIs == Idle \in Attempt
<1>1. None \in Value /\ <<>> \in Seq(Name)
  BY BoundsAssumption DEF None, Value
<1>2. NoDatabase \in Database /\ NoSecrets \in Secrets
  BY DatabaseTypes
<1> HIDE DEF Database, Secrets
<1> QED
  BY <1>1, <1>2 DEF Idle, Attempt, Place, Report, Profile, Verb

\* An attempt that has ended claims nothing.
LEMMA EndedGood ==
    ASSUME NEW d \in Database, NEW s \in Secrets, NEW f \in Files,
           Kept(d, s, f), NEW report \in Report
    PROVE  /\ Good(d, s, f, Ended(report))
           /\ Good(d, s, f, [Ended(report) EXCEPT !.lost = TRUE])
<1>1. Idle \in Attempt
  BY IdleIs
<1>2. /\ Ended(report) \in Attempt
      /\ [Ended(report) EXCEPT !.lost = TRUE] \in Attempt
  BY <1>1 DEF Ended, Attempt
<1>3. ASSUME NEW p \in Attempt, p.pc = "idle", p.verb = "verify"
      PROVE  Sound(d, s, f, p)
  BY <1>3 DEF Sound, Dispatched, Beginning, Fitting, Provided, Withdrawn,
     Stored, Turning, Removing, Verifying
<1>4. /\ Ended(report).pc = "idle" /\ Ended(report).verb = "verify"
      /\ [Ended(report) EXCEPT !.lost = TRUE].pc = "idle"
      /\ [Ended(report) EXCEPT !.lost = TRUE].verb = "verify"
  BY DEF Ended, Idle
<1> QED
  BY <1>2, <1>3, <1>4 DEF Good

\* A step of the one operator is good when its result is.
LEMMA GoodStep ==
    ASSUME IInv, OneOperator, NEW o \in Operator, NEW q,
           op' = [op EXCEPT ![o] = q],
           Good(database', secrets', recovery', q),
           attempts' \in 0 .. MaxAttempts, faults' \in 0 .. MaxFaults,
           interrupts' \in 0 .. MaxInterrupts
    PROVE  IInv'
<1>1. q \in Attempt /\ op \in [Operator -> Attempt]
  BY DEF Good, IInv, Typed
<1>2. op' \in [Operator -> Attempt]
  BY <1>1
<1>3. \A a \in Operator : op'[a] = q
  BY <1>1 DEF OneOperator
<1>4. Typed' /\ Kept(database, secrets, recovery)'
  BY <1>2 DEF Typed, Good
<1> QED
  BY <1>3, <1>4 DEF IInv

\* A call is good when its three outcomes are: it succeeds, it fails without
\* effect, and it fails although it was applied.
LEMMA GoodCall ==
    ASSUME IInv, OneOperator, NEW o \in Operator,
           NEW possible, NEW d, NEW s, NEW done, NEW failed,
           Call(o, possible, d, s, done, failed),
           UNCHANGED <<recovery, attempts, interrupts>>,
           possible => Good(d, s, recovery, done),
           Good(database, secrets, recovery, failed),
           possible => Good(d, s, recovery, [failed EXCEPT !.lost = TRUE])
    PROVE  IInv'
<1>1. /\ recovery' = recovery
      /\ attempts' \in 0 .. MaxAttempts
      /\ interrupts' \in 0 .. MaxInterrupts
      /\ faults \in 0 .. MaxFaults
  BY DEF IInv, Typed
<1>2. faults' \in 0 .. MaxFaults
  <2>1. faults < MaxFaults => faults + 1 \in 0 .. MaxFaults
    BY <1>1, BoundsAssumption
  <2> QED
    BY <1>1, <2>1 DEF Call
<1>3. CASE possible /\ database' = d /\ secrets' = s /\ Become(o, done)
  BY <1>1, <1>2, <1>3, GoodStep DEF Become
<1>4. CASE Become(o, failed) /\ UNCHANGED <<database, secrets>>
  BY <1>1, <1>2, <1>4, GoodStep DEF Become
<1>5. CASE /\ possible /\ database' = d /\ secrets' = s
           /\ Become(o, [failed EXCEPT !.lost = TRUE])
  BY <1>1, <1>2, <1>5, GoodStep DEF Become
<1> QED
  BY <1>3, <1>4, <1>5 DEF Call

\* What the statements that set and drop roles leave in the database.
LEMMA Statements ==
    ASSUME NEW d \in Database, NEW R \in SUBSET Role, NEW w \in [R -> Value]
    PROVE  /\ SetPasswords(d, w) \in Database
           /\ \A r \in Role : SetPasswords(d, w).password[r] =
                  IF r \in R THEN w[r] ELSE d.password[r]
           /\ SetPasswords(d, w).member = d.member
           /\ SetPasswords(d, w).marker = d.marker
           /\ Drop(d, R) \in Database
           /\ \A r \in Role : Drop(d, R).password[r] =
                  IF r \in R THEN None ELSE d.password[r]
           /\ Drop(d, R).marker = d.marker
<1>1. ASSUME NEW v \in [R -> Value]
      PROVE  /\ SetPasswords(d, v) \in Database
             /\ \A r \in Role : SetPasswords(d, v).password[r] =
                    IF r \in R THEN v[r] ELSE d.password[r]
             /\ SetPasswords(d, v).member = d.member
             /\ SetPasswords(d, v).marker = d.marker
  <2>1. /\ SetPasswords(d, v) =
               [d EXCEPT !.password = [r \in Role |->
                   IF r \in R THEN v[r] ELSE d.password[r]]]
        /\ SetPasswords(d, v) \in Database
    BY DatabaseTypes
  <2> QED
    BY <2>1 DEF Database
<1> DEFINE v == [r \in R |-> None]
           e == SetPasswords(d, v)
<1>2. v \in [R -> Value] /\ \A r \in R : v[r] = None
  BY BoundsAssumption DEF None, Value
<1> HIDE DEF v
<1>3. /\ e \in Database /\ e.marker = d.marker
      /\ \A r \in Role : e.password[r] = IF r \in R THEN None ELSE d.password[r]
  BY <1>1, <1>2
<1>4. Drop(d, R) = [e EXCEPT !.granted = @ /\ "reader" \notin R,
                             !.member = @ /\ "migrator" \notin R]
  BY DEF Drop, e, v
<1> HIDE DEF e
<1>5. /\ (e.granted /\ "reader" \notin R) \in BOOLEAN
      /\ (e.member /\ "migrator" \notin R) \in BOOLEAN
  BY <1>3 DEF Database
<1>6. /\ Drop(d, R) \in Database
      /\ Drop(d, R).password = e.password /\ Drop(d, R).marker = e.marker
  BY <1>3, <1>4, <1>5 DEF Database
<1> QED
  BY <1>1, <1>3, <1>6

\* Which changes keep a copy of every predecessor.
LEMMA KeptOn ==
    ASSUME NEW d \in Database, NEW s, NEW f, NEW e \in Database, NEW t,
           Kept(d, s, f),
           \A r \in Role :
               \/ e.password[r] = None \/ t[r] = None
               \/ t[r] = e.password[r]
               \/ t[r] = s[r] /\ e.password[r] = d.password[r]
               \/ <<r, t[r]>> \in f
               \/ <<r, e.password[r]>> \in f
    PROVE  Kept(e, t, f)
BY DEF Kept, Existing

\* Two stages of one attempt.
SameAims(p, q) ==
    /\ q.profile = p.profile /\ q.verb = p.verb /\ q.fresh = p.fresh
    /\ q.seen = p.seen /\ q.held = p.held

\* What an attempt wants does not depend on where it stands.
LEMMA Aims ==
    ASSUME NEW p, NEW q, SameAims(p, q)
    PROVE  /\ Wanted(q) = Wanted(p) /\ Turned(q) = Turned(p)
           /\ Affected(q.profile) = Affected(p.profile)
           /\ Provisioned(q.profile) = Provisioned(p.profile)
           /\ Created(q) = Created(p) /\ Instance(q) = Instance(p)
           /\ \A r : Password(q, r) = Password(p, r)
           /\ \A n : Wish(q, n) = Wish(p, n)
           /\ \A d : Made(d, q) <=> Made(d, p)
           /\ \A d, s, f : Replaced(d, s, f, q) <=> Replaced(d, s, f, p)
           /\ \A s, lost : q.written = p.written =>
                  (Added(s, lost, q) <=> Added(s, lost, p))
<1>1. /\ Wanted(q) = Wanted(p) /\ Turned(q) = Turned(p)
      /\ Affected(q.profile) = Affected(p.profile)
      /\ Provisioned(q.profile) = Provisioned(p.profile)
  BY DEF SameAims, Wanted, Turned
<1>2. Created(q) = Created(p) /\ Instance(q) = Instance(p)
  BY DEF SameAims, Created, Instance
<1>3. \A r : Password(q, r) = Password(p, r)
  BY DEF SameAims, Password
<1>4. \A n : Wish(q, n) = Wish(p, n)
  BY <1>2, <1>3 DEF Wish
<1>5. \A d : Made(d, q) <=> Made(d, p)
  BY <1>2, <1>3 DEF SameAims, Made
<1>6. \A d, s, f : Replaced(d, s, f, q) <=> Replaced(d, s, f, p)
  BY <1>1 DEF SameAims, Replaced
<1>7. \A s, lost : q.written = p.written =>
          (Added(s, lost, q) <=> Added(s, lost, p))
  BY <1>1, <1>4 DEF SameAims, Added
<1> QED
  BY <1>1, <1>2, <1>3, <1>4, <1>5, <1>6, <1>7

\* An exception leads to a step whose claims hold, or ends the attempt.
LEMMA FailingGood ==
    ASSUME NEW d \in Database, NEW s \in Secrets, NEW f \in Files,
           Kept(d, s, f), NEW p \in Attempt, Dispatched(p), Fitting(p),
           p.pc \in {"sql", "put", "check", "login"},
           NEW q, q = Failing(p) \/ q = [Failing(p) EXCEPT !.lost = TRUE],
           p.verb = "provision" => Made(d, p) /\ Added(s, q.lost, p),
           p.verb = "rotate" => Replaced(d, s, f, p)
    PROVE  Good(d, s, f, q)
<1>1. CASE p.verb = "provision"
  <2> DEFINE back == IF p.profile = "reader" THEN <<>> ELSE Reverse(p.written)
             u == [p EXCEPT !.pc = "undo", !.todo = back]
  <2>1. back \in Seq(Name) /\ Range(back) \subseteq Range(p.written)
    BY Reversed, RangeOne DEF Attempt
  <2>2. Failing(p) = u
    BY <1>1 DEF Failing
  <2> HIDE DEF back
  <2>3. /\ q \in Attempt /\ q.pc = "undo" /\ q.todo = back
        /\ q.written = p.written /\ SameAims(p, q)
    <3>1. /\ u \in Attempt /\ u.pc = "undo" /\ u.todo = back
          /\ u.written = p.written /\ SameAims(p, u)
      BY <2>1 DEF Attempt, Place, SameAims
    <3> HIDE DEF u
    <3> DEFINE v == [u EXCEPT !.lost = TRUE]
    <3>2. /\ v \in Attempt /\ v.pc = "undo" /\ v.todo = back
          /\ v.written = p.written /\ SameAims(p, v)
      BY <3>1 DEF Attempt, SameAims
    <3> QED
      BY <2>2, <3>1, <3>2
  <2> HIDE DEF u
  <2>4. Dispatched(q) /\ Fitting(q)
    BY <1>1, <2>3, Aims DEF Dispatched, Fitting, SameAims
  <2>5. Provided(d, q) /\ Stored(s, q)
    BY <1>1, <2>1, <2>3, Aims DEF Provided, Stored
  <2>6. /\ Beginning(d, s, f, q) /\ Withdrawn(d, q) /\ Turning(d, s, f, q)
        /\ Removing(d, s, q) /\ Verifying(d, s, q)
    BY <1>1, <2>3
       DEF SameAims, Beginning, Withdrawn, Turning, Removing, Verifying
  <2> QED
    BY <2>3, <2>4, <2>5, <2>6 DEF Good, Sound
<1>2. CASE p.verb = "rotate"
  <2>1. Failing(p) = [p EXCEPT !.pc = "restoreSql"]
    BY <1>2 DEF Failing, At
  <2>2. q \in Attempt /\ q.pc = "restoreSql" /\ SameAims(p, q)
    <3> DEFINE u == [p EXCEPT !.pc = "restoreSql"]
               v == [u EXCEPT !.lost = TRUE]
    <3>1. u \in Attempt /\ u.pc = "restoreSql" /\ SameAims(p, u)
      BY DEF Attempt, Place, SameAims
    <3> HIDE DEF u
    <3>2. v \in Attempt /\ v.pc = "restoreSql" /\ SameAims(p, v)
      BY <3>1 DEF Attempt, SameAims
    <3> QED
      BY <2>1, <3>1, <3>2 DEF u
  <2>3. Dispatched(q) /\ Turning(d, s, f, q)
    BY <1>2, <2>2, Aims DEF Dispatched, Turning, SameAims
  <2>4. /\ Beginning(d, s, f, q) /\ Fitting(q) /\ Provided(d, q)
        /\ Withdrawn(d, q) /\ Stored(s, q) /\ Removing(d, s, q)
        /\ Verifying(d, s, q)
    BY <1>2, <2>2 DEF SameAims, Beginning, Fitting, Provided, Withdrawn,
       Stored, Removing, Verifying
  <2> QED
    BY <2>2, <2>3, <2>4 DEF Good, Sound
<1>3. CASE p.verb \notin {"provision", "rotate"}
  <2>1. Failing(p) = Ended("failed")
    BY <1>3 DEF Failing
  <2> QED
    BY <2>1, EndedGood DEF Report
<1> QED
  BY <1>1, <1>2, <1>3

\* What an attempt writes.
LEMMA Drawn ==
    ASSUME NEW p \in Attempt
    PROVE  /\ Created(p) \subseteq Role
           /\ \A r \in Role : Password(p, r) \in Value
           /\ Instance(p) \in Value
           /\ \A n \in Name :
                  /\ Wish(p, n) \in Value
                  /\ p.fresh # None /\ p.held[n] = None => Wish(p, n) # None
<1>1. Role \subseteq Name /\ "target" \in Name
      /\ \A n \in Name : n # "target" => n \in Role
  BY RolesAre
<1>2. p.held \in [Name -> Value] /\ p.fresh \in Value
  BY DEF Attempt, Secrets
<1>3. \A r \in Role : Password(p, r) \in Value
  BY <1>1, <1>2 DEF Password
<1>4. Instance(p) \in Value
  BY <1>1, <1>2 DEF Instance
<1>5. Created(p) \subseteq Role
  BY Scope, RolesAre DEF Created
<1>6. ASSUME NEW n \in Name, p.fresh # None, p.held[n] = None
      PROVE  Wish(p, n) # None
  BY <1>6 DEF Wish, Instance, Password
<1>7. \A n \in Name : Wish(p, n) \in Value
  BY <1>1, <1>3, <1>4 DEF Wish
<1> QED
  BY <1>3, <1>4, <1>5, <1>6, <1>7

\* The transaction of a provision makes what it should of the database.
LEMMA ProvisionMakes ==
    ASSUME database \in Database, NEW p \in Attempt, Unchanged(database, p)
    PROVE  ProvisionDatabase(p) \in Database /\ Made(ProvisionDatabase(p), p)
<1> DEFINE w == [r \in Created(p) |-> Password(p, r)]
           e == SetPasswords(database, w)
<1>1. Created(p) \subseteq Role /\ w \in [Created(p) -> Value]
      /\ \A r \in Created(p) : w[r] = Password(p, r)
  BY Drawn
<1> HIDE DEF w
<1>2. /\ e \in Database
      /\ \A r \in Role : e.password[r] =
             IF r \in Created(p) THEN Password(p, r) ELSE database.password[r]
      /\ e.member = database.member /\ e.marker = database.marker
  BY <1>1, Statements
<1>3. ProvisionDatabase(p) =
          IF p.profile = "reader" THEN [e EXCEPT !.granted = TRUE]
          ELSE [e EXCEPT !.member = TRUE,
                         !.marker = IF @ = None THEN Instance(p) ELSE @]
  BY DEF ProvisionDatabase, e, w
<1> HIDE DEF e
<1>4. CASE p.profile = "reader"
  <2>1. /\ ProvisionDatabase(p) \in Database
        /\ ProvisionDatabase(p).password = e.password
        /\ ProvisionDatabase(p).member = e.member
        /\ ProvisionDatabase(p).marker = e.marker
    BY <1>2, <1>3, <1>4 DEF Database
  <2> QED
    BY <1>2, <1>4, <2>1 DEF Made, Unchanged
<1>5. CASE p.profile # "reader"
  <2> DEFINE m == IF e.marker = None THEN Instance(p) ELSE e.marker
  <2>1. m \in Value
    BY <1>2, Drawn DEF Database
  <2>2. ProvisionDatabase(p) = [e EXCEPT !.member = TRUE, !.marker = m]
    BY <1>2, <1>3, <1>5
  <2> HIDE DEF m
  <2>3. /\ ProvisionDatabase(p) \in Database
        /\ ProvisionDatabase(p).password = e.password
        /\ ProvisionDatabase(p).member
        /\ ProvisionDatabase(p).marker = m
    BY <1>2, <2>1, <2>2 DEF Database
  <2> QED
    BY <1>2, <1>5, <2>3 DEF Made, Unchanged, m
<1> QED
  BY <1>4, <1>5

\* Going on to the Secrets, or past the last of them.
LEMMA PuttingGood ==
    ASSUME NEW d \in Database, NEW s \in Secrets, NEW f \in Files,
           Kept(d, s, f), NEW p \in Attempt, NEW names \in Seq(Name),
           p.verb \in {"provision", "rotate"}, p.fresh # None,
           p.pc \in {"sql", "put"}, Fitting(p),
           p.verb = "provision" =>
               /\ Made(d, p) /\ Added(s, FALSE, p) /\ ~p.lost
               /\ \A n \in Range(names) :
                      n \in Wanted(p) /\ (n = "target" \/ p.held[n] = None)
               /\ \A n \in Wanted(p) : s[n] # None \/ n \in Range(names),
           p.verb = "rotate" =>
               /\ Replaced(d, s, f, p) /\ Range(names) \subseteq Turned(p)
               /\ \A r \in Turned(p) : d.password[r] = p.fresh
    PROVE  Good(d, s, f, Putting(p, names))
<1> DEFINE q == Putting(p, names)
<1>1. /\ q \in Attempt /\ q.pc = IF names = <<>> THEN "check" ELSE "put"
      /\ q.todo = names /\ q.written = p.written /\ q.lost = p.lost
      /\ SameAims(p, q)
  BY DEF Putting, Attempt, Place, SameAims
<1> HIDE DEF q
<1>2. names = <<>> => Range(names) = {}
  BY RangeOne
<1>3. Dispatched(q)
  BY <1>1 DEF Dispatched, SameAims
<1>4. Fitting(q)
  BY <1>1, Aims DEF Fitting, SameAims
<1>5. Provided(d, q)
  BY <1>1, Aims DEF Provided, SameAims
<1>6. Stored(s, q)
  <2>1. SUFFICES ASSUME q.verb = "provision" PROVE Stored(s, q)
    BY DEF Stored
  <2>2. Added(s, FALSE, q) /\ q.lost = FALSE
    BY <1>1, <2>1, Aims DEF SameAims, Attempt
  <2> QED
    BY <1>1, <1>2, <2>1, <2>2, Aims DEF Stored, SameAims
<1>7. Turning(d, s, f, q)
  BY <1>1, Aims DEF Turning, SameAims
<1>8. /\ Beginning(d, s, f, q) /\ Withdrawn(d, q)
      /\ Removing(d, s, q) /\ Verifying(d, s, q)
  BY <1>1 DEF Beginning, Withdrawn, Removing, Verifying
<1> QED
  BY <1>1, <1>3, <1>4, <1>5, <1>6, <1>7, <1>8 DEF Good, Sound, q

\* An exception of a verification changes nothing that an attempt relies on.
LEMMA PassedOver ==
    ASSUME NEW d \in Database, NEW s \in Secrets, NEW f \in Files,
           Kept(d, s, f), NEW p \in Attempt, Sound(d, s, f, p),
           p.pc \in {"check", "login"},
           NEW q, q = Failing(p) \/ q = [Failing(p) EXCEPT !.lost = TRUE]
    PROVE  Good(d, s, f, q)
<1>1. Dispatched(p) /\ Fitting(p)
  BY DEF Sound
<1>2. p.verb = "provision" => Made(d, p) /\ Added(s, p.lost, p) /\ ~p.lost
  BY DEF Sound, Provided, Stored
<1>3. p.verb = "provision" => Added(s, q.lost, p)
  BY <1>2 DEF Added
<1>4. p.verb = "rotate" => Replaced(d, s, f, p)
  BY DEF Sound, Turning
<1> QED
  BY <1>1, <1>2, <1>3, <1>4, FailingGood

-----------------------------------------------------------------------------
(* Every action keeps the inductive invariant.                             *)

\* What the invariant says of the attempt that takes a step.
LEMMA Attempting ==
    ASSUME IInv, NEW o \in Operator
    PROVE  /\ database \in Database /\ secrets \in Secrets
           /\ recovery \in Files /\ op[o] \in Attempt
           /\ Kept(database, secrets, recovery)
           /\ Sound(database, secrets, recovery, op[o])
           /\ attempts \in 0 .. MaxAttempts /\ faults \in 0 .. MaxFaults
           /\ interrupts \in 0 .. MaxInterrupts
BY DEF IInv, Typed, Good

\* Begin keeps the inductive invariant.
LEMMA BeginIInv ==
    ASSUME IInv, OneOperator, NEW o \in Operator, NEW profile \in Profile,
           NEW verb \in Verb, NEW running \in BOOLEAN,
           Begin(o, profile, verb, running)
    PROVE  IInv'
<1> DEFINE draws == verb \in {"provision", "rotate"}
           drawn == IF draws THEN attempts + 1 ELSE None
           q == [Idle EXCEPT !.pc = FirstStep(verb), !.profile = profile,
                             !.verb = verb, !.seen = database, !.fresh = drawn]
<1>1. /\ UNCHANGED <<database, secrets, recovery, faults, interrupts>>
      /\ draws => attempts < MaxAttempts
      /\ \/ op' = [op EXCEPT ![o] = q]
            /\ attempts' = IF draws THEN attempts + 1 ELSE attempts
         \/ op' = [op EXCEPT ![o] = Ended("refused")] /\ UNCHANGED attempts
  BY DEF Begin, Become
<1>2. /\ drawn \in Value /\ (draws => drawn # None)
      /\ attempts' \in 0 .. MaxAttempts
  BY <1>1, Attempting, BoundsAssumption DEF Value, None
<1>3. Good(database, secrets, recovery, q)
  <2>1. /\ q \in Attempt /\ q.pc = FirstStep(verb) /\ q.verb = verb
        /\ q.seen = database /\ q.fresh = drawn
        /\ ~q.lost /\ q.written = <<>>
    <3>1. Idle \in Attempt /\ ~Idle.lost /\ Idle.written = <<>>
      BY IdleIs DEF Idle
    <3>2. FirstStep(verb) \in Place
      BY DEF FirstStep, Verb, Place
    <3> HIDE DEF drawn
    <3> QED
      BY <1>2, <3>1, <3>2, Attempting DEF Attempt
  <2>2. /\ verb = "verify" => q.pc = "check"
        /\ verb = "revoke" => q.pc = "sql"
        /\ verb \notin {"verify", "revoke"} => q.pc = "inputs"
    BY <2>1 DEF FirstStep
  <2> HIDE DEF q, drawn
  <2>3. Sound(database, secrets, recovery, q)
    BY <1>2, <2>1, <2>2 DEF Sound, Dispatched, Beginning, Unchanged, Fitting,
       Provided, Withdrawn, Stored, Turning, Removing, Verifying, Verb
  <2> QED
    BY <2>1, <2>3, Attempting DEF Good
<1>4. Good(database, secrets, recovery, Ended("refused"))
  BY Attempting, EndedGood DEF Report
<1> QED
  BY <1>1, <1>2, <1>3, <1>4, Attempting, GoodStep

\* A rotation goes on only with the Secrets of the roles it rotates.
LEMMA RotationAccepted ==
    ASSUME NEW p, Accepts(p), p.verb = "rotate"
    PROVE  IF p.profile = "reader" THEN p.held["reader"] # None
           ELSE \A r \in Role : p.held[r] # None
<1>1. CASE p.profile = "reader"
  BY <1>1 DEF Accepts
<1>2. CASE p.profile # "reader"
  BY <1>2 DEF Accepts
<1> QED
  BY <1>1, <1>2

\* Recovery files only add to what is kept.
LEMMA MoreFiles ==
    ASSUME NEW d, NEW s, NEW f, NEW g, Kept(d, s, f), f \subseteq g
    PROVE  Kept(d, s, g)
BY DEF Kept

\* Inputs keeps the inductive invariant.
LEMMA InputsIInv ==
    ASSUME IInv, OneOperator, NEW o \in Operator, Inputs(o)
    PROVE  IInv'
<1> DEFINE a == op[o]
           p == [a EXCEPT !.held = secrets]
<1>1. /\ a \in Attempt /\ a.pc = "inputs"
      /\ a.verb \in {"provision", "rotate"} /\ a.fresh # None
      /\ Unchanged(database, a) /\ ~a.lost /\ a.written = <<>>
  BY Attempting DEF Inputs, Sound, Dispatched, Beginning
<1>2. /\ p \in Attempt /\ p.held = secrets /\ p.pc = "inputs"
      /\ p.verb = a.verb /\ p.fresh = a.fresh /\ p.seen = a.seen
      /\ p.profile = a.profile /\ ~p.lost /\ p.written = <<>>
  BY <1>1, Attempting DEF Attempt
<1> HIDE DEF a
<1>3. CASE Become(o, Ended("refused")) /\ UNCHANGED recovery
  BY <1>3, Attempting, EndedGood, GoodStep DEF Inputs, Become, Report
<1>4. CASE /\ Accepts(p) /\ p.verb = "provision"
           /\ Become(o, At(p, "sql")) /\ UNCHANGED recovery
  <2> DEFINE q == At(p, "sql")
  <2>1. /\ q \in Attempt /\ q.held = secrets /\ q.pc = "sql"
        /\ q.verb = "provision" /\ q.fresh = a.fresh /\ q.seen = a.seen
        /\ q.profile = a.profile /\ ~q.lost /\ q.written = <<>>
    BY <1>2, <1>4 DEF At, Attempt, Place
  <2>2. /\ q.profile = "reader" =>
               ("reader" \in Existing(q.seen) => q.held["reader"] # None)
        /\ q.profile # "reader" =>
               \A r \in Role : q.held[r] # None <=> r \in Existing(q.seen)
    BY <1>2, <1>4, <2>1 DEF Accepts
  <2> HIDE DEF q, p
  <2>3. Fitting(q)
    BY <2>1, <2>2, Scope DEF Fitting
  <2>4. Sound(database, secrets, recovery, q)
    BY <1>1, <2>1, <2>3 DEF Sound, Dispatched, Beginning, Unchanged,
       Provided, Withdrawn, Stored, Turning, Removing, Verifying
  <2>5. Good(database, secrets, recovery, q)
    BY <2>1, <2>4, Attempting DEF Good
  <2> QED
    BY <1>4, <2>5, Attempting, GoodStep DEF Inputs, Become, q
<1>5. ASSUME NEW v \in Value, v # None, Accepts(p), p.verb = "rotate",
             recovery' = recovery \cup OldPasswords(p),
             Become(o, [p EXCEPT !.pc = "sql", !.fresh = v])
      PROVE  IInv'
  <2> DEFINE q == [p EXCEPT !.pc = "sql", !.fresh = v]
  <2>1. /\ q \in Attempt /\ q.held = secrets /\ q.pc = "sql"
        /\ q.verb = "rotate" /\ q.fresh = v /\ q.seen = a.seen
        /\ q.profile = a.profile /\ ~q.lost /\ q.written = <<>>
    BY <1>2, <1>5 DEF Attempt, Place
  <2> HIDE DEF q, p
  <2>2. \A r \in Turned(p) : p.held[r] # None
    BY <1>2, <1>5, Scope, RolesAre, RotationAccepted
  <2>3. OldPasswords(p) = {<<r, p.held[r]>> : r \in Turned(p)}
    BY DEF OldPasswords, Turned
  <2>4. recovery' \in Files
    <3>1. ASSUME NEW r \in Turned(p)
          PROVE  <<r, p.held[r]>> \in Role \X (Value \ {None})
      <4>1. r \in Role /\ r \in Name
        BY <1>2, Scope, RolesAre
      <4>2. p.held[r] \in Value
        BY <1>2, <4>1, Attempting DEF Secrets
      <4> QED
        BY <2>2, <4>1, <4>2
    <3> QED
      BY <1>5, <2>3, <3>1, Attempting DEF Files
  <2>5. Turned(q) = Turned(p)
    BY <1>2, <2>1 DEF Turned
  <2>6. Turned(p) \subseteq Role
    BY <1>2, Scope, RolesAre
  <2>7. /\ \A r \in Turned(q) : q.held[r] # None /\ <<r, q.held[r]>> \in recovery'
        /\ Existing(database) = Existing(q.seen)
        /\ database.marker = q.seen.marker
        /\ \A r \in Turned(q) : secrets[r] # None
    BY <1>1, <1>2, <1>5, <2>1, <2>2, <2>3, <2>5 DEF Unchanged, Existing
  <2>8. Sound(database, secrets, recovery', q)
    BY <1>1, <1>5, <2>1, <2>2, <2>5, <2>7 DEF Sound, Dispatched,
       Beginning, Unchanged, Replaced, Fitting, Provided, Withdrawn, Stored, Turning, Removing,
       Verifying
  <2>9. Kept(database, secrets, recovery')
    BY <1>5, Attempting, MoreFiles
  <2>10. Good(database, secrets, recovery', q)
    BY <2>1, <2>4, <2>8, <2>9, Attempting DEF Good
  <2> QED
    BY <1>5, <2>10, Attempting, GoodStep DEF Inputs, Become, q, p
<1>6. ASSUME NEW v \in Value, <<"reader", v>> \in recovery PROVE v # None
  BY <1>6, Attempting DEF Files
<1>7. p.fresh \in Value /\ p.fresh # None
  BY <1>1, <1>2 DEF Attempt
<1> QED
  BY <1>3, <1>4, <1>5, <1>6, <1>7 DEF Inputs, a

\* ProvisionSql keeps the inductive invariant.
LEMMA ProvisionSqlIInv ==
    ASSUME IInv, OneOperator, NEW o \in Operator, ProvisionSql(o)
    PROVE  IInv'
<1> DEFINE p == op[o]
           d == ProvisionDatabase(p)
           q == Putting(p, Unwritten(p))
<1>1. /\ p \in Attempt /\ p.pc = "sql" /\ p.verb = "provision"
      /\ database \in Database /\ secrets \in Secrets /\ recovery \in Files
      /\ Kept(database, secrets, recovery)
      /\ Dispatched(p) /\ Fitting(p)
      /\ Unchanged(database, p) /\ ~p.lost /\ p.written = <<>>
      /\ secrets = p.held
  BY Attempting DEF ProvisionSql, Sound, Beginning
<1>2. PICK possible : Transaction(o, possible, d, q, Ended("failed"))
  BY DEF ProvisionSql
<1> HIDE DEF p
<1>3. d \in Database /\ Made(d, p)
  BY <1>1, ProvisionMakes
<1> HIDE DEF d
<1>4. Kept(d, secrets, recovery)
  <2>1. ASSUME NEW r \in Role
        PROVE  \/ d.password[r] = None \/ secrets[r] = None
               \/ secrets[r] = d.password[r]
               \/ d.password[r] = database.password[r]
    <3>1. CASE r \in Created(p)
      BY <1>1, <1>3, <3>1 DEF Made, Password
    <3>2. CASE r \notin Created(p)
      BY <1>1, <1>3, <3>2 DEF Made, Unchanged
    <3> QED
      BY <3>1, <3>2
  <2> QED
    BY <1>1, <1>3, <2>1, KeptOn
<1>5. Good(d, secrets, recovery, q)
  <2>1. /\ Unwritten(p) \in Seq(Name)
        /\ Range(Unwritten(p)) =
               {n \in Wanted(p) : n = "target" \/ p.held[n] = None}
    BY <1>1, UnwrittenIs
  <2>2. p.fresh # None
    BY <1>1 DEF Dispatched
  <2>3. Added(secrets, FALSE, p)
    <3>1. \A n \in Range(p.written) : p.held[n] = None
      BY <1>1, RangeOne
    <3> QED
      BY <1>1, <3>1 DEF Added
  <2> QED
    BY <1>1, <1>3, <1>4, <2>1, <2>2, <2>3, PuttingGood
<1>6. /\ Good(database, secrets, recovery, Ended("failed"))
      /\ Good(d, secrets, recovery, [Ended("failed") EXCEPT !.lost = TRUE])
  BY <1>1, <1>3, <1>4, EndedGood DEF Report
<1> HIDE DEF q
<1> QED
  BY <1>2, <1>5, <1>6, GoodCall DEF Transaction

\* RotateSql keeps the inductive invariant.
LEMMA RotateSqlIInv ==
    ASSUME IInv, OneOperator, NEW o \in Operator, RotateSql(o)
    PROVE  IInv'
<1> DEFINE p == op[o]
           roles == Turned(p)
           possible == roles \subseteq Existing(database)
           w == [r \in roles |-> p.fresh]
           d == SetPasswords(database, w)
           q == Putting(p, Affected(p.profile))
<1>1. /\ p \in Attempt /\ p.pc = "sql" /\ p.verb = "rotate"
      /\ database \in Database /\ secrets \in Secrets /\ recovery \in Files
      /\ Kept(database, secrets, recovery)
      /\ Dispatched(p) /\ Fitting(p) /\ p.fresh # None
      /\ secrets = p.held
      /\ Replaced(database, secrets, recovery, p)
  BY Attempting DEF RotateSql, Sound, Beginning, Dispatched, Turning
<1>2. Transaction(o, possible, d, q, Failing(p))
  BY DEF RotateSql, Turned
<1> HIDE DEF p
<1>3. roles \subseteq Role /\ p.fresh \in Value
      /\ Affected(p.profile) \in Seq(Name) /\ roles = Range(Affected(p.profile))
  BY <1>1, Scope, RolesAre DEF Attempt
<1> HIDE DEF roles
<1>4. w \in [roles -> Value] /\ \A r \in roles : w[r] = p.fresh
  BY <1>3
<1> HIDE DEF w
<1>5. /\ d \in Database /\ d.marker = database.marker
      /\ \A r \in Role : d.password[r] =
             IF r \in roles THEN p.fresh ELSE database.password[r]
  BY <1>1, <1>3, <1>4, Statements
<1> HIDE DEF d
<1>6. ASSUME possible
      PROVE  Kept(d, secrets, recovery) /\ Replaced(d, secrets, recovery, p)
  <2>1. Existing(d) = Existing(database)
    BY <1>1, <1>3, <1>5, <1>6 DEF Existing
  <2>2. Replaced(d, secrets, recovery, p)
    BY <1>1, <1>5, <2>1 DEF Replaced
  <2>3. \A r \in Role :
            \/ secrets[r] = secrets[r] /\ d.password[r] = database.password[r]
            \/ <<r, secrets[r]>> \in recovery
    BY <1>1, <1>5 DEF Replaced, roles
  <2>4. Kept(d, secrets, recovery)
    BY <1>1, <1>5, <2>3, KeptOn
  <2> QED
    BY <2>2, <2>4
<1>7. possible => Good(d, secrets, recovery, q)
  BY <1>1, <1>3, <1>5, <1>6, PuttingGood DEF roles
<1>8. /\ Good(database, secrets, recovery, Failing(p))
      /\ possible =>
             Good(d, secrets, recovery, [Failing(p) EXCEPT !.lost = TRUE])
  BY <1>1, <1>5, <1>6, FailingGood
<1> HIDE DEF possible, q
<1> QED
  BY <1>2, <1>7, <1>8, GoodCall DEF Transaction

\* RevokeSql keeps the inductive invariant.
LEMMA RevokeSqlIInv ==
    ASSUME IInv, OneOperator, NEW o \in Operator, RevokeSql(o)
    PROVE  IInv'
<1> DEFINE p == op[o]
           roles == Turned(p)
           possible == roles \subseteq Existing(database)
           d == Drop(database, roles)
           q == [p EXCEPT !.pc = "remove", !.todo = Affected(p.profile)]
<1>1. /\ p \in Attempt /\ p.pc = "sql" /\ p.verb = "revoke"
      /\ database \in Database /\ secrets \in Secrets /\ recovery \in Files
      /\ Kept(database, secrets, recovery) /\ Unchanged(database, p)
  BY Attempting DEF RevokeSql, Sound, Beginning
<1>2. \/ /\ p.profile = "reader" /\ "reader" \notin Existing(p.seen)
         /\ op' = [op EXCEPT ![o] = q]
         /\ UNCHANGED <<database, secrets, recovery, attempts, faults,
                        interrupts>>
      \/ Transaction(o, possible, d, q, Ended("failed"))
  BY DEF RevokeSql, Turned, Become
<1> HIDE DEF p
<1>3. /\ roles \subseteq Role /\ roles = Range(Affected(p.profile))
      /\ Affected(p.profile) \in Seq(Name) /\ Affected(p.profile) # <<>>
      /\ p.profile = "reader" => roles = {"reader"}
  BY <1>1, Scope, RolesAre
<1>4. /\ q \in Attempt /\ q.pc = "remove" /\ q.verb = "revoke"
      /\ q.todo = Affected(p.profile) /\ Turned(q) = roles
  BY <1>1, <1>3 DEF Attempt, Place, Turned
<1> HIDE DEF q, roles
<1>5. /\ d \in Database
      /\ \A r \in Role : d.password[r] =
             IF r \in roles THEN None ELSE database.password[r]
  <2> DEFINE w == [r \in roles |-> p.fresh]
  <2>1. w \in [roles -> Value]
    BY <1>1 DEF Attempt
  <2> HIDE DEF w
  <2> QED
    BY <1>1, <1>3, <2>1, Statements
<1> HIDE DEF d
<1>6. Kept(d, secrets, recovery)
  BY <1>1, <1>5, KeptOn
<1>7. ASSUME NEW e \in Database, Kept(e, secrets, recovery),
             \A r \in roles : e.password[r] = None
      PROVE  Good(e, secrets, recovery, q)
  <2>1. Dispatched(q) /\ Removing(e, secrets, q)
    BY <1>3, <1>4, <1>7 DEF Dispatched, Removing
  <2>2. Sound(e, secrets, recovery, q)
    BY <1>4, <2>1 DEF Sound, Beginning, Fitting, Provided, Withdrawn, Stored,
       Turning, Verifying
  <2> QED
    BY <1>1, <1>4, <1>7, <2>2 DEF Good
<1>8. Good(d, secrets, recovery, q)
  BY <1>3, <1>5, <1>6, <1>7
<1>9. /\ Good(database, secrets, recovery, Ended("failed"))
      /\ Good(d, secrets, recovery, [Ended("failed") EXCEPT !.lost = TRUE])
  BY <1>1, <1>5, <1>6, EndedGood DEF Report
<1>10. CASE /\ p.profile = "reader" /\ "reader" \notin Existing(p.seen)
            /\ op' = [op EXCEPT ![o] = q]
            /\ UNCHANGED <<database, secrets, recovery, attempts, faults,
                           interrupts>>
  <2>1. \A r \in roles : database.password[r] = None
    BY <1>1, <1>3, <1>10 DEF Unchanged, Existing
  <2>2. Good(database, secrets, recovery, q)
    BY <1>1, <1>7, <2>1
  <2> QED
    BY <1>10, <2>2, Attempting, GoodStep
<1>11. CASE Transaction(o, possible, d, q, Ended("failed"))
  <2> HIDE DEF possible
  <2> QED
    BY <1>8, <1>9, <1>11, GoodCall DEF Transaction
<1> QED
  BY <1>2, <1>10, <1>11

\* PutSecret keeps the inductive invariant.
LEMMA PutSecretIInv ==
    ASSUME IInv, OneOperator, NEW o \in Operator, PutSecret(o)
    PROVE  IInv'
<1> DEFINE p == op[o]
           n == Head(p.todo)
           rest == Tail(p.todo)
           next == Putting(p, rest)
           s == [secrets EXCEPT ![n] = Wish(p, n)]
           q == [next EXCEPT !.written = Append(@, n)]
<1>1. /\ p \in Attempt /\ p.pc = "put" /\ p.verb \in {"provision", "rotate"}
      /\ database \in Database /\ secrets \in Secrets /\ recovery \in Files
      /\ Kept(database, secrets, recovery)
      /\ Dispatched(p) /\ Fitting(p) /\ p.fresh # None /\ p.todo # <<>>
      /\ p.verb = "provision" => Made(database, p)
  BY Attempting DEF PutSecret, Sound, Dispatched, Provided
<1>2. p.verb = "provision" =>
          /\ Added(secrets, FALSE, p) /\ ~p.lost
          /\ \A m \in Range(p.todo) :
                 m \in Wanted(p) /\ (m = "target" \/ p.held[m] = None)
          /\ \A m \in Wanted(p) : secrets[m] # None \/ m \in Range(p.todo)
  <2>1. p.lost \in BOOLEAN
    BY <1>1 DEF Attempt
  <2> QED
    BY <1>1, <2>1, Attempting DEF Sound, Stored
<1>3. p.verb = "rotate" =>
          /\ Replaced(database, secrets, recovery, p)
          /\ Range(p.todo) \subseteq Turned(p)
          /\ \A r \in Turned(p) : database.password[r] = p.fresh
  BY <1>1, Attempting DEF Sound, Turning
<1>4. \/ /\ n = "target" /\ secrets["target"] # None
         /\ op' = [op EXCEPT ![o] = next]
         /\ UNCHANGED <<database, secrets, recovery, attempts, faults,
                        interrupts>>
      \/ /\ ~(n = "target" /\ secrets["target"] # None)
         /\ Call(o, TRUE, database, s, q, Failing(p))
         /\ UNCHANGED <<recovery, attempts, interrupts>>
  BY DEF PutSecret, PutOrDelete, Become, Wish
<1> HIDE DEF p
<1>5. /\ n \in Range(p.todo) /\ n \in Name /\ rest \in Seq(Name)
      /\ Range(p.todo) = {n} \cup Range(rest)
  BY <1>1, HeadTail DEF Attempt
<1>6. /\ Wish(p, n) \in Value
      /\ p.held[n] = None => Wish(p, n) # None
  BY <1>1, <1>5, Drawn
<1> HIDE DEF n, rest
<1>7. s \in Secrets /\ s[n] = Wish(p, n)
      /\ \A m \in Name : m # n => s[m] = secrets[m]
  BY <1>1, <1>5, <1>6 DEF Secrets
<1> HIDE DEF s
<1>8. CASE /\ n = "target" /\ secrets["target"] # None
           /\ op' = [op EXCEPT ![o] = next]
           /\ UNCHANGED <<database, secrets, recovery, attempts, faults,
                          interrupts>>
  <2>1. Good(database, secrets, recovery, next)
    BY <1>1, <1>2, <1>3, <1>5, <1>8, PuttingGood
  <2> HIDE DEF next
  <2> QED
    BY <1>8, <2>1, Attempting, GoodStep
<1>9. CASE /\ ~(n = "target" /\ secrets["target"] # None)
           /\ Call(o, TRUE, database, s, q, Failing(p))
           /\ UNCHANGED <<recovery, attempts, interrupts>>
  <2> DEFINE u == [p EXCEPT !.written = Append(@, n)]
  <2>1. /\ u \in Attempt /\ u.written = Append(p.written, n) /\ SameAims(p, u)
        /\ u.pc = p.pc /\ u.lost = p.lost /\ u.verb = p.verb
        /\ u.fresh = p.fresh
        /\ Range(u.written) = Range(p.written) \cup {n}
    BY <1>1, <1>5, Appended DEF Attempt, SameAims
  <2>2. q = Putting(u, rest)
    BY <1>1 DEF Putting, Attempt
  <2> HIDE DEF u
  <2>3. p.verb = "provision" => p.held[n] = None
    <3>1. ASSUME p.verb = "provision", n = "target" PROVE p.held[n] = None
      BY <1>2, <1>5, <1>9, <3>1 DEF Added
    <3> QED
      BY <1>2, <1>5, <3>1
  <2>4. p.verb = "provision" => Added(s, FALSE, u) /\ Added(s, TRUE, p)
    <3>1. ASSUME p.verb = "provision" PROVE Added(s, FALSE, u)
      <4>1. /\ Wanted(u) = Wanted(p) /\ u.held = p.held
            /\ \A m : Wish(u, m) = Wish(p, m)
        BY <2>1, Aims DEF SameAims
      <4>2. n \in Wanted(p)
        BY <1>2, <1>5, <3>1
      <4>3. \A m \in Range(u.written) : p.held[m] = None
        BY <1>2, <2>1, <2>3, <3>1 DEF Added
      <4>4. ASSUME NEW m \in Name, s[m] # p.held[m]
            PROVE  /\ p.held[m] = None /\ m \in Wanted(p)
                   /\ s[m] = Wish(p, m) /\ m \in Range(u.written)
        <5>1. CASE m = n
          BY <1>7, <2>1, <2>3, <3>1, <4>2, <5>1
        <5>2. CASE m # n
          BY <1>2, <1>7, <2>1, <3>1, <4>4, <5>2 DEF Added
        <5> QED
          BY <5>1, <5>2
      <4> QED
        BY <4>1, <4>3, <4>4 DEF Added
    <3>2. ASSUME p.verb = "provision" PROVE Added(s, TRUE, p)
      BY <1>2, <1>5, <1>7, <2>3, <3>2 DEF Added
    <3> QED
      BY <3>1, <3>2
  <2>5. p.verb = "rotate" =>
            /\ Replaced(database, s, recovery, p)
            /\ n \in Turned(p) /\ n \in Role /\ Wish(p, n) = p.fresh
    <3>1. Turned(p) \subseteq Role /\ "target" \notin Role
      BY <1>1, Scope, RolesAre
    <3>2. ASSUME p.verb = "rotate"
          PROVE  n \in Turned(p) /\ n \in Role /\ Wish(p, n) = p.fresh
      BY <1>3, <1>5, <3>1, <3>2 DEF Wish, Password
    <3>3. ASSUME p.verb = "rotate"
          PROVE  Replaced(database, s, recovery, p)
      BY <1>1, <1>3, <1>7, <3>1, <3>2, <3>3, RolesAre DEF Replaced
    <3> QED
      BY <3>2, <3>3
  <2>6. Kept(database, s, recovery)
    <3>1. ASSUME NEW r \in Role
          PROVE  \/ database.password[r] = None \/ s[r] = None
                 \/ s[r] = database.password[r]
                 \/ s[r] = secrets[r]
      <4>1. r \in Name /\ r # "target"
        BY RolesAre
      <4>2. CASE r # n
        BY <1>7, <4>1, <4>2
      <4>3. CASE r = n /\ p.verb = "rotate"
        BY <1>3, <1>7, <2>5, <4>3
      <4>4. CASE r = n /\ p.verb = "provision"
        <5>1. r \in Wanted(p) /\ p.held[r] = None
          BY <1>2, <1>5, <2>3, <4>4
        <5>2. r \in Range(Provisioned(p.profile))
          BY <1>1, <5>1, Scope, RolesAre
        <5>3. r \notin Existing(p.seen)
          BY <1>1, <4>4, <5>1, <5>2 DEF Fitting
        <5>4. database.password[r] = Password(p, r)
          BY <1>1, <4>4, <5>2, <5>3 DEF Made, Created
        <5> QED
          BY <1>7, <4>1, <4>4, <5>4 DEF Wish
      <4> QED
        BY <1>1, <4>2, <4>3, <4>4
    <3> QED
      BY <1>1, <3>1, KeptOn
  <2>7. Good(database, s, recovery, q)
    <3>1. Fitting(u)
      BY <1>1, <2>1, Aims DEF Fitting, SameAims
    <3>2. p.verb = "provision" =>
              /\ Made(database, u)
              /\ \A m \in Range(rest) :
                     m \in Wanted(u) /\ (m = "target" \/ u.held[m] = None)
              /\ \A m \in Wanted(u) : s[m] # None \/ m \in Range(rest)
      <4>1. Wanted(u) = Wanted(p) /\ u.held = p.held
            /\ (Made(database, u) <=> Made(database, p))
        BY <2>1, Aims DEF SameAims
      <4>2. Wanted(p) \subseteq Name
        BY <1>1, Scope, RolesAre
      <4>3. ASSUME p.verb = "provision", NEW m \in Wanted(p)
            PROVE  s[m] # None \/ m \in Range(rest)
        BY <1>2, <1>5, <1>6, <1>7, <2>3, <4>2, <4>3
      <4> QED
        BY <1>1, <1>2, <1>5, <4>1, <4>3
    <3>3. p.verb = "rotate" =>
              /\ Replaced(database, s, recovery, u)
              /\ Range(rest) \subseteq Turned(u)
              /\ \A r \in Turned(u) : database.password[r] = u.fresh
      BY <1>3, <1>5, <2>1, <2>5, Aims
    <3>4. /\ database \in Database /\ s \in Secrets /\ recovery \in Files
          /\ Kept(database, s, recovery) /\ u \in Attempt /\ rest \in Seq(Name)
          /\ u.verb \in {"provision", "rotate"} /\ u.fresh # None
          /\ u.pc \in {"sql", "put"} /\ u.verb = p.verb
          /\ p.verb = "provision" => ~u.lost
      BY <1>1, <1>2, <1>5, <1>7, <2>1, <2>6
    <3>5. Good(database, s, recovery, Putting(u, rest))
      BY <2>4, <3>1, <3>2, <3>3, <3>4, PuttingGood
    <3> QED
      BY <2>2, <3>5
  <2>8. Good(database, secrets, recovery, Failing(p))
    <3>1. p.verb = "provision" => ~Failing(p).lost
      BY <1>1, <1>2 DEF Failing, Attempt
    <3>2. p.verb = "provision" => Added(secrets, Failing(p).lost, p)
      BY <1>2, <3>1 DEF Added
    <3> QED
      BY <1>1, <1>3, <3>2, FailingGood
  <2>9. Good(database, s, recovery, [Failing(p) EXCEPT !.lost = TRUE])
    <3> DEFINE v == [Failing(p) EXCEPT !.lost = TRUE]
    <3>1. p.verb = "provision" => v.lost = TRUE
      BY DEF Failing
    <3>2. p.verb = "provision" => Added(s, v.lost, p)
      BY <2>4, <3>1
    <3> QED
      BY <1>1, <1>7, <2>5, <2>6, <3>2, FailingGood
  <2> HIDE DEF q
  <2> QED
    BY <1>9, <2>7, <2>8, <2>9, GoodCall
<1> QED
  BY <1>4, <1>8, <1>9

\* CheckState keeps the inductive invariant.
LEMMA CheckStateIInv ==
    ASSUME IInv, OneOperator, NEW o \in Operator, CheckState(o)
    PROVE  IInv'
<1> DEFINE p == op[o]
           q == [p EXCEPT !.pc = "login", !.probe = secrets]
           seeing == IF p.profile = "reader" THEN secrets["reader"] # None
                     ELSE /\ \A r \in Role : secrets[r] # None
                          /\ database.marker = secrets["target"]
<1>1. /\ p \in Attempt /\ p.pc = "check"
      /\ database \in Database /\ secrets \in Secrets /\ recovery \in Files
      /\ Kept(database, secrets, recovery)
      /\ Sound(database, secrets, recovery, p)
  BY Attempting DEF CheckState
<1>2. \E holds :
          \/ /\ holds => seeing
             /\ p.profile = "reader" \/ p.verb # "provision"
             /\ Probe(o, holds, q, Failing(p))
          \/ Probe(o, holds, Ended("passed"), Failing(p))
  <2>1. p.profile \in Profile
    BY <1>1 DEF Attempt
  <2> QED
    BY <1>1, <2>1 DEF CheckState, Ready, Contract, Profile
<1>3. PICK holds :
          \/ /\ holds => seeing
             /\ p.profile = "reader" \/ p.verb # "provision"
             /\ Probe(o, holds, q, Failing(p))
          \/ Probe(o, holds, Ended("passed"), Failing(p))
  BY <1>2
<1> HIDE DEF p
<1>4. ASSUME NEW v, v = Failing(p) \/ v = [Failing(p) EXCEPT !.lost = TRUE]
      PROVE  Good(database, secrets, recovery, v)
  BY <1>1, <1>4, PassedOver
<1>5. Good(database, secrets, recovery, Ended("passed"))
  BY <1>1, EndedGood DEF Report
<1>6. ASSUME seeing, p.profile = "reader" \/ p.verb # "provision"
      PROVE  Good(database, secrets, recovery, q)
  <2>1. /\ q \in Attempt /\ q.pc = "login" /\ q.probe = secrets
        /\ q.written = p.written /\ q.lost = p.lost /\ SameAims(p, q)
    BY <1>1 DEF Attempt, Place, SameAims
  <2> HIDE DEF q
  <2>2. Verifying(database, secrets, q)
    BY <1>1, <1>6, <2>1, Scope DEF Verifying, SameAims
  <2>3. Dispatched(q) /\ Fitting(q) /\ Provided(database, q)
    <3>1. /\ Dispatched(p) /\ Fitting(p) /\ Provided(database, p)
          /\ p.profile \in Profile
      BY <1>1 DEF Sound, Attempt
    <3> QED
      BY <1>1, <1>6, <2>1, <3>1, Aims
         DEF Dispatched, Fitting, Provided, SameAims, Profile
  <2>4. Stored(secrets, q)
    <3>1. Stored(secrets, p)
      BY <1>1 DEF Sound
    <3> QED
      BY <1>1, <2>1, <3>1, Aims DEF Stored, SameAims
  <2>5. Turning(database, secrets, recovery, q)
    <3>1. Turning(database, secrets, recovery, p)
      BY <1>1 DEF Sound
    <3> QED
      BY <1>1, <2>1, <3>1, Aims DEF Turning, SameAims
  <2>6. /\ Beginning(database, secrets, recovery, q) /\ Withdrawn(database, q)
        /\ Removing(database, secrets, q)
    BY <2>1 DEF Beginning, Withdrawn, Removing
  <2> QED
    BY <1>1, <2>1, <2>2, <2>3, <2>4, <2>5, <2>6 DEF Good, Sound
<1> HIDE DEF q, seeing
<1>7. CASE /\ holds => seeing
           /\ p.profile = "reader" \/ p.verb # "provision"
           /\ Probe(o, holds, q, Failing(p))
  BY <1>4, <1>6, <1>7, GoodCall DEF Probe
<1>8. CASE Probe(o, holds, Ended("passed"), Failing(p))
  BY <1>4, <1>5, <1>8, GoodCall DEF Probe
<1> QED
  BY <1>3, <1>7, <1>8

\* CheckLogin keeps the inductive invariant.
LEMMA CheckLoginIInv ==
    ASSUME IInv, OneOperator, NEW o \in Operator, CheckLogin(o)
    PROVE  IInv'
<1> DEFINE p == op[o]
<1>1. /\ p \in Attempt /\ p.pc = "login"
      /\ database \in Database /\ secrets \in Secrets /\ recovery \in Files
      /\ Kept(database, secrets, recovery)
      /\ Sound(database, secrets, recovery, p)
  BY Attempting DEF CheckLogin
<1>2. PICK holds : Probe(o, holds, Ended("passed"), Failing(p))
  BY DEF CheckLogin
<1> HIDE DEF p
<1>3. ASSUME NEW v, v = Failing(p) \/ v = [Failing(p) EXCEPT !.lost = TRUE]
      PROVE  Good(database, secrets, recovery, v)
  BY <1>1, <1>3, PassedOver
<1>4. Good(database, secrets, recovery, Ended("passed"))
  BY <1>1, EndedGood DEF Report
<1> QED
  BY <1>2, <1>3, <1>4, GoodCall DEF Probe

\* UndoSecret keeps the inductive invariant.
LEMMA UndoSecretIInv ==
    ASSUME IInv, OneOperator, NEW o \in Operator, UndoSecret(o)
    PROVE  IInv'
<1> DEFINE p == op[o]
           n == Head(p.todo)
           q == [p EXCEPT !.todo = Tail(@)]
           s == [secrets EXCEPT ![n] = None]
<1>1. /\ p \in Attempt /\ p.pc = "undo" /\ p.todo # <<>>
      /\ p.verb = "provision"
      /\ database \in Database /\ secrets \in Secrets /\ recovery \in Files
      /\ Kept(database, secrets, recovery)
      /\ Dispatched(p) /\ Fitting(p) /\ Made(database, p)
      /\ Added(secrets, p.lost, p) /\ Range(p.todo) \subseteq Range(p.written)
  BY Attempting DEF UndoSecret, Sound, Dispatched, Provided, Stored
<1>2. /\ Call(o, TRUE, database, s, q, q)
      /\ UNCHANGED <<recovery, attempts, interrupts>>
  BY DEF UndoSecret, PutOrDelete
<1> HIDE DEF p
<1>3. /\ n \in Range(p.todo) /\ n \in Name /\ Tail(p.todo) \in Seq(Name)
      /\ Range(p.todo) = {n} \cup Range(Tail(p.todo))
  BY <1>1, HeadTail DEF Attempt
<1> HIDE DEF n
<1>4. s \in Secrets /\ s[n] = None /\ \A m \in Name : m # n => s[m] = secrets[m]
  BY <1>1, <1>3, BoundsAssumption DEF Secrets, Value, None
<1> HIDE DEF s
<1>5. p.held[n] = None
  BY <1>1, <1>3 DEF Added
<1>6. Kept(database, s, recovery)
  <2>1. \A r \in Role : s[r] = None \/ s[r] = secrets[r]
    BY <1>4, RolesAre
  <2> QED
    BY <1>1, <2>1, KeptOn
<1>7. Added(s, p.lost, p)
  BY <1>1, <1>4, <1>5 DEF Added
<1>8. ASSUME NEW t \in Secrets, Kept(database, t, recovery),
             Added(t, p.lost, p),
             NEW u, u = q \/ u = [q EXCEPT !.lost = TRUE]
      PROVE  Good(database, t, recovery, u)
  <2>1. /\ u \in Attempt /\ u.pc = "undo" /\ u.todo = Tail(p.todo)
        /\ u.written = p.written /\ SameAims(p, u)
        /\ p.lost => u.lost
    <3>1. /\ q \in Attempt /\ q.pc = "undo" /\ q.todo = Tail(p.todo)
          /\ q.written = p.written /\ q.lost = p.lost /\ SameAims(p, q)
      BY <1>1, <1>3 DEF Attempt, SameAims
    <3> HIDE DEF q
    <3> DEFINE v == [q EXCEPT !.lost = TRUE]
    <3>2. /\ v \in Attempt /\ v.pc = "undo" /\ v.todo = Tail(p.todo)
          /\ v.written = p.written /\ v.lost = TRUE /\ SameAims(p, v)
      BY <3>1 DEF Attempt, SameAims
    <3> QED
      BY <1>8, <3>1, <3>2
  <2> HIDE DEF q
  <2>2. Added(t, u.lost, u)
    <3>1. Added(t, u.lost, p)
      BY <1>8, <2>1 DEF Added
    <3> QED
      BY <2>1, <3>1, Aims
  <2>3. Dispatched(u) /\ Fitting(u) /\ Provided(database, u) /\ Stored(t, u)
    BY <1>1, <1>3, <2>1, <2>2, Aims
       DEF Dispatched, Fitting, Provided, Stored, SameAims
  <2>4. /\ Beginning(database, t, recovery, u) /\ Withdrawn(database, u)
        /\ Turning(database, t, recovery, u) /\ Removing(database, t, u)
        /\ Verifying(database, t, u)
    BY <1>1, <2>1
       DEF SameAims, Beginning, Withdrawn, Turning, Removing, Verifying
  <2> QED
    BY <1>1, <1>8, <2>1, <2>3, <2>4 DEF Good, Sound
<1>9. /\ Good(database, s, recovery, q) /\ Good(database, secrets, recovery, q)
      /\ Good(database, s, recovery, [q EXCEPT !.lost = TRUE])
  BY <1>1, <1>4, <1>6, <1>7, <1>8
<1> HIDE DEF q
<1> QED
  BY <1>2, <1>9, GoodCall

\* The compensation withdraws the roles that the attempt created.
LEMMA CompensationMakes ==
    ASSUME database \in Database, NEW p \in Attempt
    PROVE  /\ CompensateDatabase(p) \in Database
           /\ \A r \in Role : CompensateDatabase(p).password[r] =
                  IF r \in Created(p) THEN None ELSE database.password[r]
<1> DEFINE w == [r \in Created(p) |-> p.fresh]
           e == Drop(database, Created(p))
           m == IF p.seen.marker = None /\ e.marker = Instance(p)
                THEN None ELSE e.marker
<1>1. Created(p) \subseteq Role /\ w \in [Created(p) -> Value]
  BY Drawn DEF Attempt
<1> HIDE DEF w
<1>2. /\ e \in Database
      /\ \A r \in Role : e.password[r] =
             IF r \in Created(p) THEN None ELSE database.password[r]
  BY <1>1, Statements
<1>3. CompensateDatabase(p) =
          [e EXCEPT !.member = @ /\ p.seen.member, !.marker = m]
  BY DEF CompensateDatabase
<1> HIDE DEF e
<1>4. m \in Value
  BY <1>2, BoundsAssumption DEF Database, Value, None
<1>5. (e.member /\ p.seen.member) \in BOOLEAN
  BY <1>2 DEF Database
<1> HIDE DEF m
<1>6. /\ CompensateDatabase(p) \in Database
      /\ CompensateDatabase(p).password = e.password
  BY <1>2, <1>3, <1>4, <1>5 DEF Database
<1> QED
  BY <1>2, <1>6

\* UndoSql keeps the inductive invariant.
LEMMA UndoSqlIInv ==
    ASSUME IInv, OneOperator, NEW o \in Operator, UndoSql(o)
    PROVE  IInv'
<1> DEFINE p == op[o]
           reader == p.profile = "reader"
           d == IF reader THEN Drop(database, {"reader"})
                ELSE CompensateDatabase(p)
           q == IF reader THEN Ended("failed") ELSE At(p, "undone")
           nothing == Ended(IF reader THEN "failed" ELSE "compensated")
<1>1. /\ p \in Attempt /\ p.pc = "undo" /\ p.verb = "provision"
      /\ database \in Database /\ secrets \in Secrets /\ recovery \in Files
      /\ Kept(database, secrets, recovery)
      /\ Dispatched(p) /\ Fitting(p) /\ Made(database, p)
      /\ Added(secrets, p.lost, p)
  BY Attempting DEF UndoSql, Sound, Dispatched, Provided, Stored
<1>2. \/ \E possible : Transaction(o, possible, d, q, Ended("incomplete"))
      \/ /\ Become(o, nothing)
         /\ UNCHANGED <<database, secrets, recovery, attempts, faults,
                        interrupts>>
  BY DEF UndoSql
<1> HIDE DEF p
<1>3. /\ d \in Database
      /\ \A r \in Role :
             d.password[r] = None \/ d.password[r] = database.password[r]
      /\ ~reader => \A r \in Role : r \notin Created(p) =>
                        d.password[r] = database.password[r]
  <2>1. CASE reader
    <3> DEFINE R == {"reader"}
               w == [r \in R |-> p.fresh]
    <3>1. R \subseteq Role /\ w \in [R -> Value]
      BY <1>1, RolesAre DEF Attempt
    <3>2. d = Drop(database, R)
      BY <2>1
    <3> HIDE DEF R, w, d
    <3> QED
      BY <1>1, <2>1, <3>1, <3>2, Statements
  <2>2. CASE ~reader
    BY <1>1, <2>2, CompensationMakes
  <2> QED
    BY <2>1, <2>2
<1> HIDE DEF d
<1>4. Kept(d, secrets, recovery)
  BY <1>1, <1>3, KeptOn
<1>5. Good(d, secrets, recovery, q)
  <2>1. CASE reader
    BY <1>1, <1>3, <1>4, <2>1, EndedGood DEF Report
  <2>2. CASE ~reader
    <3>1. /\ q \in Attempt /\ q.pc = "undone" /\ q.lost = p.lost
          /\ q.written = p.written /\ SameAims(p, q)
      BY <1>1, <2>2 DEF At, Attempt, Place, SameAims
    <3> HIDE DEF q
    <3>2. p.profile = "administration"
      BY <1>1, <2>2 DEF Attempt, Profile
    <3>3. Dispatched(q) /\ Fitting(q) /\ Stored(secrets, q)
      BY <1>1, <3>1, <3>2, Aims DEF Dispatched, Fitting, Stored, SameAims
    <3>4. Withdrawn(d, q)
      <4>1. Created(q) = Created(p) /\ q.seen = p.seen
        BY <3>1, Aims DEF SameAims
      <4> QED
        BY <1>1, <1>3, <2>2, <4>1 DEF Withdrawn, Made
    <3>5. /\ Beginning(d, secrets, recovery, q) /\ Provided(d, q)
          /\ Turning(d, secrets, recovery, q) /\ Removing(d, secrets, q)
          /\ Verifying(d, secrets, q)
      BY <1>1, <3>1
         DEF SameAims, Beginning, Provided, Turning, Removing, Verifying
    <3> QED
      BY <1>1, <1>3, <1>4, <3>1, <3>3, <3>4, <3>5 DEF Good, Sound
  <2> QED
    BY <2>1, <2>2
<1>6. /\ Good(database, secrets, recovery, Ended("incomplete"))
      /\ Good(d, secrets, recovery, [Ended("incomplete") EXCEPT !.lost = TRUE])
      /\ Good(database, secrets, recovery, nothing)
  BY <1>1, <1>3, <1>4, EndedGood DEF Report
<1> HIDE DEF q, nothing
<1>7. CASE \E possible : Transaction(o, possible, d, q, Ended("incomplete"))
  BY <1>5, <1>6, <1>7, GoodCall DEF Transaction
<1>8. CASE /\ Become(o, nothing)
           /\ UNCHANGED <<database, secrets, recovery, attempts, faults,
                          interrupts>>
  BY <1>6, <1>8, Attempting, GoodStep DEF Become
<1> QED
  BY <1>2, <1>7, <1>8

\* UndoCheck keeps the inductive invariant.
LEMMA UndoCheckIInv ==
    ASSUME IInv, OneOperator, NEW o \in Operator, UndoCheck(o)
    PROVE  IInv'
<1>1. PICK holds : Probe(o, holds, Ended("compensated"), Ended("incomplete"))
  BY DEF UndoCheck
<1>2. \A report \in Report :
          /\ Good(database, secrets, recovery, Ended(report))
          /\ Good(database, secrets, recovery,
                  [Ended(report) EXCEPT !.lost = TRUE])
  BY Attempting, EndedGood
<1>3. "compensated" \in Report /\ "incomplete" \in Report
  BY DEF Report
<1> QED
  BY <1>1, <1>2, <1>3, GoodCall DEF Probe

\* RestoreSql keeps the inductive invariant.
LEMMA RestoreSqlIInv ==
    ASSUME IInv, OneOperator, NEW o \in Operator, RestoreSql(o)
    PROVE  IInv'
<1> DEFINE p == op[o]
           roles == Turned(p)
           possible == roles \subseteq Existing(database)
           w == [r \in roles |-> p.held[r]]
           d == SetPasswords(database, w)
           q == [p EXCEPT !.pc = "restorePut", !.todo = Affected(p.profile)]
<1>1. /\ p \in Attempt /\ p.pc = "restoreSql" /\ p.verb = "rotate"
      /\ database \in Database /\ secrets \in Secrets /\ recovery \in Files
      /\ Kept(database, secrets, recovery) /\ Dispatched(p)
      /\ Replaced(database, secrets, recovery, p)
  BY Attempting DEF RestoreSql, Sound, Dispatched, Turning
<1>2. Transaction(o, possible, d, q, Ended("incomplete"))
  BY DEF RestoreSql, Turned
<1> HIDE DEF p
<1>3. /\ roles \subseteq Role /\ roles = Range(Affected(p.profile))
      /\ Affected(p.profile) \in Seq(Name) /\ Affected(p.profile) # <<>>
  BY <1>1, Scope, RolesAre
<1>4. /\ q \in Attempt /\ q.pc = "restorePut" /\ q.todo = Affected(p.profile)
      /\ SameAims(p, q)
  BY <1>1, <1>3 DEF Attempt, Place, SameAims
<1> HIDE DEF q, roles
<1>5. w \in [roles -> Value] /\ \A r \in roles : w[r] = p.held[r]
  BY <1>1, <1>3, RolesAre DEF Attempt, Secrets
<1> HIDE DEF w
<1>6. /\ d \in Database /\ d.marker = database.marker
      /\ \A r \in Role : d.password[r] =
             IF r \in roles THEN p.held[r] ELSE database.password[r]
  BY <1>1, <1>3, <1>5, Statements
<1> HIDE DEF d
<1>7. /\ \A r \in roles : p.held[r] # None /\ <<r, p.held[r]>> \in recovery
      /\ Existing(database) = Existing(p.seen)
      /\ database.marker = p.seen.marker
      /\ \A n \in Name \ roles : secrets[n] = p.held[n]
      /\ \A r \in roles : secrets[r] # None
  BY <1>1 DEF Replaced, roles
<1>8. Kept(d, secrets, recovery)
  <2>1. ASSUME NEW r \in Role
        PROVE  \/ <<r, d.password[r]>> \in recovery
               \/ secrets[r] = secrets[r] /\ d.password[r] = database.password[r]
    BY <1>6, <1>7
  <2> QED
    BY <1>1, <1>6, <2>1, KeptOn
<1>9. possible => Good(d, secrets, recovery, q)
  <2>1. SUFFICES ASSUME possible PROVE Good(d, secrets, recovery, q)
    OBVIOUS
  <2>2. Existing(d) = Existing(database)
    BY <1>3, <1>6, <1>7, <2>1 DEF Existing
  <2>3. Turned(q) = roles /\ q.held = p.held /\ q.seen = p.seen
        /\ q.verb = "rotate"
    BY <1>1, <1>4, Aims DEF SameAims, roles
  <2>4. Turning(d, secrets, recovery, q)
    BY <1>3, <1>4, <1>6, <1>7, <2>2, <2>3 DEF Turning, Replaced
  <2>5. Dispatched(q)
    BY <1>1, <1>3, <1>4 DEF Dispatched, SameAims
  <2>6. /\ Beginning(d, secrets, recovery, q) /\ Fitting(q) /\ Provided(d, q)
        /\ Withdrawn(d, q) /\ Stored(secrets, q) /\ Removing(d, secrets, q)
        /\ Verifying(d, secrets, q)
    BY <1>4, <2>3 DEF Beginning, Fitting, Provided, Withdrawn, Stored,
       Removing, Verifying
  <2> QED
    BY <1>1, <1>4, <1>6, <1>8, <2>4, <2>5, <2>6 DEF Good, Sound
<1>10. /\ Good(database, secrets, recovery, Ended("incomplete"))
       /\ Good(d, secrets, recovery, [Ended("incomplete") EXCEPT !.lost = TRUE])
  BY <1>1, <1>6, <1>8, EndedGood DEF Report
<1> HIDE DEF possible
<1> QED
  BY <1>2, <1>9, <1>10, GoodCall DEF Transaction

\* RestoreSecret keeps the inductive invariant.
LEMMA RestoreSecretIInv ==
    ASSUME IInv, OneOperator, NEW o \in Operator, RestoreSecret(o)
    PROVE  IInv'
<1> DEFINE p == op[o]
           n == Head(p.todo)
           rest == Tail(p.todo)
           last == Len(p.todo) = 1
           u == [p EXCEPT !.todo = rest]
           q == IF last THEN Ended("restored") ELSE u
           s == [secrets EXCEPT ![n] = p.held[n]]
<1>1. /\ p \in Attempt /\ p.pc = "restorePut" /\ p.verb = "rotate"
      /\ p.todo # <<>>
      /\ database \in Database /\ secrets \in Secrets /\ recovery \in Files
      /\ Kept(database, secrets, recovery) /\ Dispatched(p)
      /\ Replaced(database, secrets, recovery, p)
      /\ Range(p.todo) \subseteq Turned(p)
      /\ \A r \in Turned(p) :
             /\ database.password[r] = p.held[r]
             /\ secrets[r] # p.held[r] => r \in Range(p.todo)
  BY Attempting DEF RestoreSecret, Sound, Dispatched, Turning
<1>2. /\ Call(o, TRUE, database, s, q, Ended("incomplete"))
      /\ UNCHANGED <<recovery, attempts, interrupts>>
  BY <1>1 DEF RestoreSecret, PutOrDelete, Attempt
<1> HIDE DEF p
<1>3. /\ n \in Range(p.todo) /\ n \in Name /\ rest \in Seq(Name)
      /\ Range(p.todo) = {n} \cup Range(rest)
      /\ ~last => rest # <<>>
  BY <1>1, HeadTail DEF Attempt
<1>4. Turned(p) \subseteq Role /\ Turned(p) \subseteq Name
  BY <1>1, Scope, RolesAre
<1> HIDE DEF n, rest, last
<1>5. s \in Secrets /\ s[n] = p.held[n]
      /\ \A m \in Name : m # n => s[m] = secrets[m]
  BY <1>1, <1>3 DEF Secrets, Attempt
<1> HIDE DEF s
<1>6. Kept(database, s, recovery)
  <2>1. ASSUME NEW r \in Role
        PROVE  s[r] = database.password[r] \/ s[r] = secrets[r]
    BY <1>1, <1>3, <1>5, RolesAre
  <2> QED
    BY <1>1, <2>1, KeptOn
<1>7. Replaced(database, s, recovery, p)
  BY <1>1, <1>3, <1>4, <1>5 DEF Replaced
<1>8. Good(database, s, recovery, q)
  <2>1. CASE last
    BY <1>1, <1>5, <1>6, <2>1, EndedGood DEF Report
  <2>2. CASE ~last
    <3>1. /\ u \in Attempt /\ u.pc = "restorePut" /\ u.todo = rest
          /\ SameAims(p, u)
      BY <1>1, <1>3 DEF Attempt, SameAims
    <3>2. q = u
      BY <2>2
    <3> HIDE DEF u
    <3>3. Turned(u) = Turned(p) /\ u.held = p.held /\ u.verb = "rotate"
          /\ Replaced(database, s, recovery, u)
      BY <1>1, <1>7, <3>1, Aims DEF SameAims
    <3>4. Turning(database, s, recovery, u)
      BY <1>1, <1>3, <1>4, <1>5, <3>1, <3>3 DEF Turning
    <3>5. Dispatched(u)
      BY <1>1, <1>3, <2>2, <3>1 DEF Dispatched, SameAims
    <3>6. /\ Beginning(database, s, recovery, u) /\ Fitting(u)
          /\ Provided(database, u) /\ Withdrawn(database, u) /\ Stored(s, u)
          /\ Removing(database, s, u) /\ Verifying(database, s, u)
      BY <3>1, <3>3 DEF Beginning, Fitting, Provided, Withdrawn, Stored,
         Removing, Verifying
    <3> QED
      BY <1>1, <1>5, <1>6, <3>1, <3>2, <3>4, <3>5, <3>6 DEF Good, Sound
  <2> QED
    BY <2>1, <2>2
<1>9. /\ Good(database, secrets, recovery, Ended("incomplete"))
      /\ Good(database, s, recovery, [Ended("incomplete") EXCEPT !.lost = TRUE])
  BY <1>1, <1>5, <1>6, EndedGood DEF Report
<1> HIDE DEF q
<1> QED
  BY <1>2, <1>8, <1>9, GoodCall

\* RemoveSecret keeps the inductive invariant.
LEMMA RemoveSecretIInv ==
    ASSUME IInv, OneOperator, NEW o \in Operator, RemoveSecret(o)
    PROVE  IInv'
<1> DEFINE p == op[o]
           n == Head(p.todo)
           rest == Tail(p.todo)
           last == Len(p.todo) = 1
           u == [p EXCEPT !.todo = rest]
           q == IF last THEN Ended("passed") ELSE u
           s == [secrets EXCEPT ![n] = None]
<1>1. /\ p \in Attempt /\ p.pc = "remove" /\ p.verb = "revoke"
      /\ p.todo # <<>>
      /\ database \in Database /\ secrets \in Secrets /\ recovery \in Files
      /\ Kept(database, secrets, recovery)
      /\ Range(p.todo) \subseteq Turned(p)
      /\ \A r \in Turned(p) :
             /\ database.password[r] = None
             /\ secrets[r] # None => r \in Range(p.todo)
  BY Attempting DEF RemoveSecret, Sound, Dispatched, Removing
<1>2. /\ Call(o, TRUE, database, s, q, Ended("failed"))
      /\ UNCHANGED <<recovery, attempts, interrupts>>
  BY <1>1 DEF RemoveSecret, PutOrDelete, Attempt
<1> HIDE DEF p
<1>3. /\ n \in Range(p.todo) /\ n \in Name /\ rest \in Seq(Name)
      /\ Range(p.todo) = {n} \cup Range(rest)
      /\ ~last => rest # <<>>
  BY <1>1, HeadTail DEF Attempt
<1>4. Turned(p) \subseteq Role /\ Turned(p) \subseteq Name
  BY <1>1, Scope, RolesAre
<1> HIDE DEF n, rest, last
<1>5. s \in Secrets /\ s[n] = None /\ \A m \in Name : m # n => s[m] = secrets[m]
  BY <1>1, <1>3, BoundsAssumption DEF Secrets, Value, None
<1> HIDE DEF s
<1>6. Kept(database, s, recovery)
  <2>1. \A r \in Role : s[r] = None \/ s[r] = secrets[r]
    BY <1>5, RolesAre
  <2> QED
    BY <1>1, <2>1, KeptOn
<1>7. Good(database, s, recovery, q)
  <2>1. CASE last
    BY <1>1, <1>5, <1>6, <2>1, EndedGood DEF Report
  <2>2. CASE ~last
    <3>1. /\ u \in Attempt /\ u.pc = "remove" /\ u.todo = rest
          /\ u.verb = "revoke" /\ u.profile = p.profile
      BY <1>1, <1>3 DEF Attempt
    <3>2. q = u
      BY <2>2
    <3> HIDE DEF u
    <3>3. Turned(u) = Turned(p)
      BY <3>1 DEF Turned
    <3>4. Removing(database, s, u)
      BY <1>1, <1>3, <1>4, <1>5, <3>1, <3>3 DEF Removing
    <3>5. Dispatched(u)
      BY <1>3, <2>2, <3>1 DEF Dispatched
    <3>6. /\ Beginning(database, s, recovery, u) /\ Fitting(u)
          /\ Provided(database, u) /\ Withdrawn(database, u) /\ Stored(s, u)
          /\ Turning(database, s, recovery, u) /\ Verifying(database, s, u)
      BY <3>1 DEF Beginning, Fitting, Provided, Withdrawn, Stored, Turning,
         Verifying
    <3> QED
      BY <1>1, <1>5, <1>6, <3>1, <3>2, <3>4, <3>5, <3>6 DEF Good, Sound
  <2> QED
    BY <2>1, <2>2
<1>8. /\ Good(database, secrets, recovery, Ended("failed"))
      /\ Good(database, s, recovery, [Ended("failed") EXCEPT !.lost = TRUE])
  BY <1>1, <1>5, <1>6, EndedGood DEF Report
<1> HIDE DEF q
<1> QED
  BY <1>2, <1>7, <1>8, GoodCall

\* Interrupt keeps the inductive invariant.
LEMMA InterruptIInv ==
    ASSUME IInv, OneOperator, NEW o \in Operator, Interrupt(o)
    PROVE  IInv'
<1>1. interrupts' \in 0 .. MaxInterrupts
  BY Attempting, BoundsAssumption DEF Interrupt
<1>2. Good(database, secrets, recovery, Ended("interrupted"))
  BY Attempting, EndedGood DEF Report
<1> QED
  BY <1>1, <1>2, Attempting, GoodStep DEF Interrupt, Become

\* GrantReader keeps the inductive invariant: nothing an attempt relies on is
\* the reader's SELECT.
LEMMA GrantReaderIInv ==
    ASSUME IInv, GrantReader
    PROVE  IInv'
<1>1. /\ database' = [database EXCEPT !.granted = TRUE]
      /\ UNCHANGED <<secrets, recovery, op, attempts, faults, interrupts>>
      /\ Typed /\ Kept(database, secrets, recovery)
  BY DEF GrantReader, IInv
<1>2. /\ database' \in Database /\ database'.password = database.password
      /\ database'.member = database.member
      /\ database'.marker = database.marker
      /\ Existing(database') = Existing(database)
  BY <1>1 DEF Typed, Database, Existing
<1>3. Typed' /\ Kept(database, secrets, recovery)'
  <2>1. Kept(database', secrets, recovery)
    BY <1>1, <1>2 DEF Kept
  <2> QED
    BY <1>1, <1>2, <2>1 DEF Typed
<1>4. ASSUME NEW o \in Operator
      PROVE  Good(database', secrets', recovery', op'[o])
  <2>1. Good(database, secrets, recovery, op[o])
    BY DEF IInv
  <2> DEFINE d == database'
  <2> HIDE DEF d
  <2>2. /\ d \in Database /\ d.password = database.password
        /\ d.member = database.member /\ d.marker = database.marker
        /\ Existing(d) = Existing(database)
    BY <1>2 DEF d
  <2>3. Kept(d, secrets, recovery)
    BY <1>1, <1>3 DEF d
  <2>4. /\ Beginning(d, secrets, recovery, op[o]) /\ Provided(d, op[o])
        /\ Withdrawn(d, op[o]) /\ Turning(d, secrets, recovery, op[o])
        /\ Removing(d, secrets, op[o]) /\ Verifying(d, secrets, op[o])
    BY <2>1, <2>2 DEF Good, Sound, Beginning, Unchanged, Provided, Made,
       Withdrawn, Turning, Replaced, Removing, Verifying
  <2>5. Good(d, secrets, recovery, op[o])
    BY <2>1, <2>2, <2>3, <2>4 DEF Good, Sound
  <2> QED
    BY <1>1, <2>5 DEF d
<1> QED
  BY <1>3, <1>4 DEF IInv

\* The initial state satisfies the inductive invariant.
LEMMA InitIInv == Init => IInv
<1> SUFFICES ASSUME Init PROVE IInv
  OBVIOUS
<1>1. database \in Database /\ secrets \in Secrets
  BY DatabaseTypes DEF Init
<1>2. recovery \in Files
  BY DEF Init, Files
<1>3. Kept(database, secrets, recovery)
  BY DEF Init, Kept, Existing, NoDatabase
<1>4. op \in [Operator -> Attempt]
  BY IdleIs DEF Init
<1>5. Ended("none") = Idle
  <2>1. Idle \in Attempt /\ Idle.report = "none"
    BY IdleIs DEF Idle
  <2> QED
    BY <2>1 DEF Ended, Attempt
<1>6. Good(database, secrets, recovery, Idle)
  BY <1>1, <1>2, <1>3, <1>5, EndedGood DEF Report
<1>7. Typed
  BY <1>1, <1>2, <1>4, BoundsAssumption DEF Init, Typed
<1> QED
  BY <1>3, <1>6, <1>7 DEF IInv, Init

\* Every step keeps the inductive invariant.
LEMMA NextIInv ==
    ASSUME IInv, OneOperator, [Next]_vars
    PROVE  IInv'
<1>1. CASE UNCHANGED vars
  BY <1>1 DEF vars, IInv, Typed
<1>2. CASE GrantReader
  BY <1>2, GrantReaderIInv
<1>3. ASSUME NEW o \in Operator, NEW profile \in Profile, NEW verb \in Verb,
             NEW running \in BOOLEAN, Begin(o, profile, verb, running)
      PROVE  IInv'
  BY <1>3, BeginIInv
<1>4. ASSUME NEW o \in Operator, Step(o)
      PROVE  IInv'
  BY <1>4, InputsIInv, ProvisionSqlIInv, RotateSqlIInv, RevokeSqlIInv,
     PutSecretIInv, CheckStateIInv, CheckLoginIInv, UndoSecretIInv,
     UndoSqlIInv, UndoCheckIInv, RestoreSqlIInv, RestoreSecretIInv,
     RemoveSecretIInv DEF Step
<1>5. ASSUME NEW o \in Operator, Interrupt(o)
      PROVE  IInv'
  BY <1>5, InterruptIInv
<1> QED
  BY <1>1, <1>2, <1>3, <1>4, <1>5 DEF Next, Profile, Verb

\* The inductive invariant holds in every state that one operator reaches.
THEOREM RoleInvariant ==
    ASSUME OneOperator
    PROVE  Spec => []IInv
<1>1. Init => IInv
  BY InitIInv
<1>2. IInv /\ [Next]_vars => IInv'
  BY NextIInv
<1> QED
  BY <1>1, <1>2, PTL DEF Spec

\* TypeOK: every variable keeps its type.
THEOREM RoleTypeOK ==
    ASSUME OneOperator
    PROVE  Spec => []TypeOK
<1>1. ASSUME NEW s \in Seq(Name) PROVE Range(s) \subseteq Name
  BY RangeEquality, ElementOfSeq
<1>2. ASSUME NEW p \in Attempt
      PROVE  /\ p.pc \in Place /\ p.fresh \in Value
             /\ p.held \in Secrets /\ p.probe \in Secrets
             /\ Range(p.todo) \cup Range(p.written) \subseteq Name
  BY <1>1 DEF Attempt
<1>3. IInv => TypeOK
  <2>1. SUFFICES ASSUME IInv PROVE TypeOK
    OBVIOUS
  <2>2. \A o \in Operator : op[o] \in Attempt
    BY <2>1 DEF IInv, Typed
  <2> QED
    BY <1>2, <2>1, <2>2 DEF IInv, Typed, TypeOK, Database, Secrets, Files,
       Place
<1> QED
  BY <1>3, RoleInvariant, PTL

\* PredecessorKept: no failure, signal or lost answer destroys the last copy
\* of the credential that a rotation replaced.
THEOREM PredecessorNeverLost ==
    ASSUME OneOperator
    PROVE  Spec => []PredecessorKept
<1>1. IInv => PredecessorKept
  BY DEF IInv, Kept, PredecessorKept
<1> QED
  BY <1>1, RoleInvariant, PTL

-----------------------------------------------------------------------------
(* What the reports say.                                                   *)

\* What becomes of the attempt that makes a call.
LEMMA Outcome ==
    ASSUME IInv, NEW o \in Operator, NEW possible, NEW d, NEW s, NEW done,
           NEW failed, Call(o, possible, d, s, done, failed)
    PROVE  \/ possible /\ op'[o] = done /\ database' = d /\ secrets' = s
           \/ op'[o] = failed /\ UNCHANGED <<database, secrets>>
           \/ op'[o] = [failed EXCEPT !.lost = TRUE]
<1>1. op \in [Operator -> Attempt]
  BY DEF IInv, Typed
<1>2. \A q : Become(o, q) => op'[o] = q
  BY <1>1 DEF Become
<1> QED
  BY <1>2 DEF Call

\* The same of a call that the server can always do.
LEMMA SureOutcome ==
    ASSUME IInv, NEW o \in Operator, NEW d, NEW s, NEW done,
           NEW failed, Call(o, TRUE, d, s, done, failed)
    PROVE  \/ op'[o] = done /\ database' = d /\ secrets' = s
           \/ op'[o] = failed /\ UNCHANGED <<database, secrets>>
           \/ op'[o] = [failed EXCEPT !.lost = TRUE]
<1>1. op \in [Operator -> Attempt]
  BY DEF IInv, Typed
<1>2. \A q : Become(o, q) => op'[o] = q
  BY <1>1 DEF Become
<1> QED
  BY <1>2 DEF Call

\* An ended attempt has only its report, and the mark of a lost answer.
LEMMA EndedIs ==
    ASSUME NEW report
    PROVE  /\ Ended(report).report = report
           /\ ~Ended(report).lost
           /\ [Ended(report) EXCEPT !.lost = TRUE].report = report
           /\ [Ended(report) EXCEPT !.lost = TRUE].lost
BY DEF Ended, Idle

\* An exception ends the attempt only of a verification or a revocation.
LEMMA FailingIs ==
    ASSUME NEW p \in Attempt, p.verb \in {"provision", "rotate"}
    PROVE  /\ Failing(p).pc # "idle"
           /\ [Failing(p) EXCEPT !.lost = TRUE].pc # "idle"
<1>1. CASE p.verb = "provision"
  <2>1. Failing(p) = [p EXCEPT !.pc = "undo",
                               !.todo = IF p.profile = "reader" THEN <<>>
                                        ELSE Reverse(p.written)]
    BY <1>1 DEF Failing
  <2> QED
    BY <2>1 DEF Attempt
<1>2. CASE p.verb = "rotate"
  <2>1. Failing(p) = [p EXCEPT !.pc = "restoreSql"]
    BY <1>2 DEF Failing, At
  <2> QED
    BY <2>1 DEF Attempt
<1> QED
  BY <1>1, <1>2

\* A report comes from a step of the attempt, or from a signal.
LEMMA Reporter ==
    ASSUME IInv, OneOperator, [Next]_vars, NEW o \in Operator, NEW report,
           Reports(o, report)
    PROVE  Step(o) \/ report = "interrupted"
<1>1. op[o].pc # "idle" /\ op'[o].pc = "idle" /\ op'[o].report = report
  BY DEF Reports
<1>2. ~UNCHANGED vars /\ ~GrantReader
  BY <1>1 DEF vars, GrantReader
<1>3. \A profile, verb, running : ~Begin(o, profile, verb, running)
  BY <1>1 DEF Begin
<1>4. Interrupt(o) => report = "interrupted"
  BY <1>1, EndedIs DEF Interrupt, Become, IInv, Typed
<1>5. \A a \in Operator : a = o
  BY DEF OneOperator
<1> QED
  BY <1>2, <1>3, <1>4, <1>5 DEF Next

\* How an attempt comes to its last report.  A provision has checked the
\* contract; the Secrets have logged in; the last Secret of a revocation is
\* removed.
Contracted(p) ==
    /\ p.pc = "check" /\ p.profile = "administration" /\ p.verb = "provision"
    /\ Contract(Instance(p))
    /\ UNCHANGED <<database, secrets>>
LoggedIn(p) ==
    /\ p.pc = "login"
    /\ \A r \in Range(Provisioned(p.profile)) :
           database.password[r] = p.probe[r]
    /\ UNCHANGED <<database, secrets>>
LastRemoved(p) ==
    /\ p.pc = "remove" /\ Len(p.todo) = 1
    /\ database' = database
    /\ secrets' = [secrets EXCEPT ![Head(p.todo)] = None]

\* The last Secret of a failed rotation is restored.
LastRestored(p) ==
    /\ p.pc = "restorePut" /\ Len(p.todo) = 1
    /\ database' = database
    /\ secrets' = [secrets EXCEPT ![Head(p.todo)] = p.held[Head(p.todo)]]

\* A failed provision: its transaction failed; there is nothing to undo; the
\* reader is dropped; the compensation is checked.
NotBegun(p) ==
    /\ p.pc = "sql" /\ p.verb = "provision"
    /\ UNCHANGED <<database, secrets>>
NothingToUndo(p) ==
    /\ p.pc = "undo" /\ ~Undoes(p)
    /\ UNCHANGED <<database, secrets>>
ReaderDropped(p) ==
    /\ p.pc = "undo" /\ p.profile = "reader" /\ Undoes(p)
    /\ database' = Drop(database, {"reader"}) /\ secrets' = secrets
FoundUndone(p) ==
    /\ p.pc = "undone"
    /\ Existing(database) \cap Created(p) = {}
    /\ database.member = p.seen.member
    /\ database.marker = p.seen.marker
    /\ \A n \in Range(p.written) : secrets[n] = None
    /\ UNCHANGED <<database, secrets>>

\* Which of these is behind a report.
Behind(p, report, lost) ==
    /\ report = "passed" => Contracted(p) \/ LoggedIn(p) \/ LastRemoved(p)
    /\ report = "restored" => LastRestored(p)
    /\ report = "compensated" =>
           \/ NothingToUndo(p) /\ p.profile = "administration"
           \/ FoundUndone(p)
    /\ report = "failed" /\ ~lost /\ p.verb \in {"provision", "rotate"} =>
           \/ NotBegun(p)
           \/ NothingToUndo(p) /\ p.profile = "reader"
           \/ ReaderDropped(p)

\* What is behind each report.
LEMMA Reporting ==
    ASSUME IInv, OneOperator, [Next]_vars, NEW o \in Operator, NEW report,
           Reports(o, report), report # "interrupted"
    PROVE  Behind(op[o], report, op'[o].lost)
<1> DEFINE p == op[o]
           q == op'[o]
<1>1. /\ p \in Attempt /\ Dispatched(p) /\ q.pc = "idle" /\ q.report = report
      /\ \A v : Become(o, v) => q = v
  BY Attempting DEF Reports, Sound, Become, IInv, Typed
<1>2. Step(o)
  BY Reporter
<1>3. p.verb \in {"provision", "rotate"} =>
          q # Failing(p) /\ q # [Failing(p) EXCEPT !.lost = TRUE]
  BY <1>1, FailingIs
<1>4. ASSUME q = Failing(p) \/ q = [Failing(p) EXCEPT !.lost = TRUE]
      PROVE  Behind(p, report, q.lost)
  <2>1. p.verb \notin {"provision", "rotate"}
    BY <1>3, <1>4
  <2>2. Failing(p) = Ended("failed")
    BY <2>1 DEF Failing
  <2>3. report = "failed"
    BY <1>1, <1>4, <2>2, EndedIs
  <2> QED
    BY <2>1, <2>3 DEF Behind
<1>5. ASSUME Inputs(o)
      PROVE  Behind(p, report, q.lost)
  <2>1. q = Ended("refused")
    BY <1>1, <1>5 DEF Inputs, At, Attempt
  <2> QED
    BY <1>1, <2>1, EndedIs DEF Behind
<1>6. ASSUME ProvisionSql(o)
      PROVE  Behind(p, report, q.lost)
  <2> DEFINE next == Putting(p, Unwritten(p))
  <2>1. PICK possible :
            Call(o, possible, ProvisionDatabase(p), secrets, next,
                 Ended("failed"))
    BY <1>6 DEF ProvisionSql, Transaction
  <2>2. next.pc # "idle"
    BY <1>1 DEF Putting, Attempt
  <2> HIDE DEF next
  <2>3. \/ q = Ended("failed") /\ UNCHANGED <<database, secrets>>
        \/ q = [Ended("failed") EXCEPT !.lost = TRUE]
    BY <1>1, <2>1, <2>2, Outcome
  <2>4. p.pc = "sql" /\ p.verb = "provision"
    BY <1>6 DEF ProvisionSql
  <2> QED
    BY <1>1, <2>3, <2>4, EndedIs DEF Behind, NotBegun
<1>7. ASSUME RotateSql(o)
      PROVE  Behind(p, report, q.lost)
  <2> DEFINE next == Putting(p, Affected(p.profile))
  <2>1. PICK possible, d :
            Call(o, possible, d, secrets, next, Failing(p))
    BY <1>7 DEF RotateSql, Transaction
  <2>2. next.pc # "idle"
    BY <1>1 DEF Putting, Attempt
  <2> HIDE DEF next
  <2>3. p.verb = "rotate"
    BY <1>7 DEF RotateSql
  <2> QED
    BY <1>1, <1>3, <2>1, <2>2, <2>3, Outcome
<1>8. ASSUME RevokeSql(o)
      PROVE  Behind(p, report, q.lost)
  <2> DEFINE next == [p EXCEPT !.pc = "remove", !.todo = Affected(p.profile)]
  <2>1. \/ \E possible, d :
               Call(o, possible, d, secrets, next, Ended("failed"))
        \/ Become(o, next)
    BY <1>8 DEF RevokeSql, Transaction
  <2>2. next.pc # "idle"
    BY <1>1 DEF Attempt
  <2> HIDE DEF next
  <2>3. \/ q = Ended("failed")
        \/ q = [Ended("failed") EXCEPT !.lost = TRUE]
    BY <1>1, <2>1, <2>2, Outcome
  <2>4. p.verb = "revoke"
    BY <1>8 DEF RevokeSql
  <2> QED
    BY <1>1, <2>3, <2>4, EndedIs DEF Behind
<1>9. ASSUME PutSecret(o)
      PROVE  Behind(p, report, q.lost)
  <2> DEFINE next == Putting(p, Tail(p.todo))
             done == [next EXCEPT !.written = Append(@, Head(p.todo))]
  <2>1. \/ \E s : Call(o, TRUE, database, s, done, Failing(p))
        \/ Become(o, next)
    BY <1>9 DEF PutSecret, PutOrDelete
  <2>2. next.pc # "idle" /\ done.pc # "idle"
    BY <1>1 DEF Putting, Attempt
  <2> HIDE DEF next, done
  <2>3. p.verb \in {"provision", "rotate"}
    BY <1>1, <1>9 DEF PutSecret, Dispatched
  <2> QED
    <3>1. \/ q = done \/ q = next
          \/ q = Failing(p) \/ q = [Failing(p) EXCEPT !.lost = TRUE]
      BY <1>1, <2>1, SureOutcome
    <3> QED
      BY <1>1, <1>4, <2>2, <3>1
<1>10. ASSUME CheckState(o)
       PROVE  Behind(p, report, q.lost)
  <2> DEFINE next == [p EXCEPT !.pc = "login", !.probe = secrets]
  <2>1. \/ \E holds : Call(o, holds, database, secrets, next, Failing(p))
        \/ /\ p.profile = "administration" /\ p.verb = "provision"
           /\ Call(o, Contract(Instance(p)), database, secrets,
                   Ended("passed"), Failing(p))
    BY <1>10 DEF CheckState, Probe
  <2>2. next.pc # "idle"
    BY <1>1 DEF Attempt
  <2> HIDE DEF next
  <2>3. \/ /\ p.profile = "administration" /\ p.verb = "provision"
           /\ Contract(Instance(p)) /\ q = Ended("passed")
           /\ UNCHANGED <<database, secrets>>
        \/ q = Failing(p) \/ q = [Failing(p) EXCEPT !.lost = TRUE]
    BY <1>1, <2>1, <2>2, Outcome
  <2>4. p.pc = "check"
    BY <1>10 DEF CheckState
  <2>5. CASE q = Failing(p) \/ q = [Failing(p) EXCEPT !.lost = TRUE]
    BY <1>4, <2>5
  <2> QED
    BY <1>1, <2>3, <2>4, <2>5, EndedIs DEF Behind, Contracted
<1>11. ASSUME CheckLogin(o)
       PROVE  Behind(p, report, q.lost)
  <2> DEFINE holds == \A r \in Range(Provisioned(p.profile)) :
                          database.password[r] = p.probe[r]
  <2>1. Call(o, holds /\ database.granted, database, secrets,
             Ended("passed"), Failing(p))
    BY <1>11 DEF CheckLogin, Probe
  <2> HIDE DEF holds
  <2>2. \/ holds /\ q = Ended("passed") /\ UNCHANGED <<database, secrets>>
        \/ q = Failing(p) \/ q = [Failing(p) EXCEPT !.lost = TRUE]
    BY <2>1, Outcome
  <2>3. CASE q = Failing(p) \/ q = [Failing(p) EXCEPT !.lost = TRUE]
    BY <1>4, <2>3
  <2>4. p.pc = "login"
    BY <1>11 DEF CheckLogin
  <2> QED
    BY <1>1, <2>2, <2>3, <2>4, EndedIs DEF Behind, LoggedIn, holds
<1>12. ASSUME UndoSecret(o)
       PROVE  Behind(p, report, q.lost)
  <2> DEFINE next == [p EXCEPT !.todo = Tail(@)]
  <2>1. PICK s : Call(o, TRUE, database, s, next, next)
    BY <1>12 DEF UndoSecret, PutOrDelete
  <2>2. next.pc = p.pc /\ [next EXCEPT !.lost = TRUE].pc = p.pc
    BY <1>1 DEF Attempt
  <2> HIDE DEF next
  <2> QED
    BY <1>1, <1>12, <2>1, <2>2, Outcome DEF UndoSecret
<1>13. ASSUME UndoSql(o)
       PROVE  Behind(p, report, q.lost)
  <2> DEFINE reader == p.profile = "reader"
             d == IF reader THEN Drop(database, {"reader"})
                  ELSE CompensateDatabase(p)
             next == IF reader THEN Ended("failed") ELSE At(p, "undone")
             nothing == Ended(IF reader THEN "failed" ELSE "compensated")
  <2>1. \/ Undoes(p) /\ \E possible : Call(o, possible, d, secrets, next,
                                           Ended("incomplete"))
        \/ /\ ~Undoes(p) /\ Become(o, nothing)
           /\ UNCHANGED <<database, secrets>>
    BY <1>13 DEF UndoSql, Transaction
  <2>2. ~reader => next.pc # "idle"
    BY <1>1 DEF At, Attempt
  <2>3. p.pc = "undo" /\ p.profile \in Profile
    BY <1>1, <1>13 DEF UndoSql, Attempt
  <2>4. ASSUME Undoes(p), NEW possible,
               Call(o, possible, d, secrets, next, Ended("incomplete"))
        PROVE  Behind(p, report, q.lost)
    <3>1. \/ q = next /\ database' = d /\ secrets' = secrets
          \/ q = Ended("incomplete")
          \/ q = [Ended("incomplete") EXCEPT !.lost = TRUE]
      <4> HIDE DEF d, next
      <4> QED
        BY <2>4, Outcome
    <3>2. CASE q = next /\ database' = d /\ secrets' = secrets
      <4>1. reader /\ q = Ended("failed") /\ ReaderDropped(p)
        BY <1>1, <2>2, <2>3, <2>4, <3>2 DEF ReaderDropped
      <4> QED
        BY <1>1, <4>1, EndedIs DEF Behind
    <3>3. CASE \/ q = Ended("incomplete")
               \/ q = [Ended("incomplete") EXCEPT !.lost = TRUE]
      BY <1>1, <3>3, EndedIs DEF Behind
    <3> QED
      BY <3>1, <3>2, <3>3
  <2>5. ASSUME ~Undoes(p), Become(o, nothing), UNCHANGED <<database, secrets>>
        PROVE  Behind(p, report, q.lost)
    <3>1. q = nothing /\ NothingToUndo(p)
      BY <1>1, <2>3, <2>5 DEF NothingToUndo
    <3> QED
      BY <1>1, <2>3, <3>1, EndedIs DEF Behind, Profile
  <2> QED
    BY <2>1, <2>4, <2>5
<1>14. ASSUME UndoCheck(o)
       PROVE  Behind(p, report, q.lost)
  <2> DEFINE undone == /\ Existing(database) \cap Created(p) = {}
                       /\ database.member = p.seen.member
                       /\ database.marker = p.seen.marker
                       /\ \A n \in Range(p.written) : secrets[n] = None
  <2>1. Call(o, undone, database, secrets, Ended("compensated"),
             Ended("incomplete"))
    BY <1>14 DEF UndoCheck, Probe
  <2> HIDE DEF undone
  <2>2. \/ /\ undone /\ q = Ended("compensated")
           /\ UNCHANGED <<database, secrets>>
        \/ q = Ended("incomplete")
        \/ q = [Ended("incomplete") EXCEPT !.lost = TRUE]
    BY <2>1, Outcome
  <2>3. p.pc = "undone"
    BY <1>14 DEF UndoCheck
  <2> QED
    <3>1. CASE /\ undone /\ q = Ended("compensated")
               /\ UNCHANGED <<database, secrets>>
      <4>1. FoundUndone(p) /\ report = "compensated"
        BY <1>1, <2>3, <3>1, EndedIs DEF FoundUndone, undone
      <4> QED
        BY <4>1 DEF Behind
    <3>2. CASE \/ q = Ended("incomplete")
               \/ q = [Ended("incomplete") EXCEPT !.lost = TRUE]
      BY <1>1, <3>2, EndedIs DEF Behind
    <3> QED
      BY <2>2, <3>1, <3>2
<1>15. ASSUME RestoreSql(o)
       PROVE  Behind(p, report, q.lost)
  <2> DEFINE next == [p EXCEPT !.pc = "restorePut",
                               !.todo = Affected(p.profile)]
  <2>1. PICK possible, d :
            Call(o, possible, d, secrets, next, Ended("incomplete"))
    BY <1>15 DEF RestoreSql, Transaction
  <2>2. next.pc # "idle"
    BY <1>1 DEF Attempt
  <2> HIDE DEF next
  <2>3. \/ q = Ended("incomplete")
        \/ q = [Ended("incomplete") EXCEPT !.lost = TRUE]
    BY <1>1, <2>1, <2>2, Outcome
  <2> QED
    BY <1>1, <2>3, EndedIs DEF Behind
<1>16. ASSUME RestoreSecret(o)
       PROVE  Behind(p, report, q.lost)
  <2> DEFINE n == Head(p.todo)
             last == Len(p.todo) = 1
             next == IF last THEN Ended("restored")
                     ELSE [p EXCEPT !.todo = Tail(@)]
             s == [secrets EXCEPT ![n] = p.held[n]]
  <2>1. Call(o, TRUE, database, s, next, Ended("incomplete"))
    BY <1>16 DEF RestoreSecret, PutOrDelete
  <2>2. p.pc = "restorePut"
    BY <1>16 DEF RestoreSecret
  <2>3. ~last => next.pc # "idle"
    BY <1>1, <2>2 DEF Attempt
  <2>4. last => next = Ended("restored")
    OBVIOUS
  <2> HIDE DEF next, last, s
  <2>5. \/ last /\ q = Ended("restored") /\ database' = database /\ secrets' = s
        \/ q = Ended("incomplete")
        \/ q = [Ended("incomplete") EXCEPT !.lost = TRUE]
    <3>1. \/ q = next /\ database' = database /\ secrets' = s
          \/ q = Ended("incomplete")
          \/ q = [Ended("incomplete") EXCEPT !.lost = TRUE]
      BY <2>1, SureOutcome
    <3>2. q = next => last
      BY <1>1, <2>3
    <3> QED
      BY <2>4, <3>1, <3>2
  <2>6. CASE last /\ q = Ended("restored") /\ database' = database
             /\ secrets' = s
    <3>1. LastRestored(p) /\ report = "restored"
      BY <1>1, <2>2, <2>6, EndedIs DEF LastRestored, s, last
    <3> QED
      BY <3>1 DEF Behind
  <2>7. CASE \/ q = Ended("incomplete")
             \/ q = [Ended("incomplete") EXCEPT !.lost = TRUE]
    BY <1>1, <2>7, EndedIs DEF Behind
  <2> QED
    BY <2>5, <2>6, <2>7
<1>17. ASSUME RemoveSecret(o)
       PROVE  Behind(p, report, q.lost)
  <2> DEFINE n == Head(p.todo)
             last == Len(p.todo) = 1
             next == IF last THEN Ended("passed")
                     ELSE [p EXCEPT !.todo = Tail(@)]
             s == [secrets EXCEPT ![n] = None]
  <2>1. Call(o, TRUE, database, s, next, Ended("failed"))
    BY <1>17 DEF RemoveSecret, PutOrDelete
  <2>2. p.pc = "remove" /\ p.verb = "revoke"
    BY <1>1, <1>17 DEF RemoveSecret, Dispatched
  <2>3. ~last => next.pc # "idle"
    BY <1>1, <2>2 DEF Attempt
  <2>4. last => next = Ended("passed")
    OBVIOUS
  <2> HIDE DEF next, last, s
  <2>5. \/ last /\ q = Ended("passed") /\ database' = database /\ secrets' = s
        \/ q = Ended("failed")
        \/ q = [Ended("failed") EXCEPT !.lost = TRUE]
    <3>1. \/ q = next /\ database' = database /\ secrets' = s
          \/ q = Ended("failed")
          \/ q = [Ended("failed") EXCEPT !.lost = TRUE]
      BY <2>1, SureOutcome
    <3>2. q = next => last
      BY <1>1, <2>3
    <3> QED
      BY <2>4, <3>1, <3>2
  <2>6. CASE last /\ q = Ended("passed") /\ database' = database
             /\ secrets' = s
    <3>1. LastRemoved(p) /\ report = "passed"
      BY <1>1, <2>2, <2>6, EndedIs DEF LastRemoved, s, last
    <3> QED
      BY <3>1 DEF Behind
  <2>7. CASE \/ q = Ended("failed")
             \/ q = [Ended("failed") EXCEPT !.lost = TRUE]
    BY <1>1, <2>2, <2>7, EndedIs DEF Behind
  <2> QED
    BY <2>5, <2>6, <2>7
<1> QED
  BY <1>2, <1>5, <1>6, <1>7, <1>8, <1>9, <1>10, <1>11, <1>12, <1>13, <1>14,
     <1>15, <1>16, <1>17 DEF Step

\* An administration provision that passed left every role a Secret, and the
\* target's is the marker.
LEMMA ContractedDone ==
    ASSUME IInv, NEW o \in Operator, Contracted(op[o])
    PROVE  /\ \A r \in Role : r \in Existing(database) /\ secrets[r] # None
           /\ database.marker = secrets["target"]
<1> DEFINE p == op[o]
<1>1. /\ p \in Attempt /\ Added(secrets, p.lost, p)
      /\ \A n \in Wanted(p) : secrets[n] # None
      /\ p.profile = "administration"
      /\ Existing(database) = Role /\ database.marker = Instance(p)
  BY Attempting DEF Contracted, Contract, Sound, Stored
<1> HIDE DEF p
<1>2. \A r \in Role : secrets[r] # None
  BY <1>1, Scope, RolesAre
<1>3. secrets["target"] # None
  BY <1>1, Scope, RolesAre
<1>4. secrets["target"] = Instance(p)
  <2>1. CASE secrets["target"] = p.held["target"]
    BY <1>3, <2>1 DEF Instance
  <2>2. CASE secrets["target"] # p.held["target"]
    BY <1>1, <2>2, RolesAre DEF Added, Wish
  <2> QED
    BY <2>1, <2>2
<1> QED
  BY <1>1, <1>2, <1>4

\* An attempt that logged in did so with the Secrets that are there.
LEMMA LoggedInDone ==
    ASSUME IInv, NEW o \in Operator, LoggedIn(op[o])
    PROVE  /\ op[o].verb \in {"provision", "rotate", "verify"}
           /\ op[o].profile = "reader" => LogsIn("reader")
           /\ op[o].profile # "reader" =>
                  /\ \A r \in Role : LogsIn(r) /\ r \in Existing(database)
                                     /\ secrets[r] # None
                  /\ database.marker = secrets["target"]
<1> DEFINE p == op[o]
<1>1. /\ p \in Attempt /\ p.probe = secrets
      /\ p.verb \in {"provision", "rotate", "verify"}
      /\ \A r \in Range(Provisioned(p.profile)) :
             secrets[r] # None /\ database.password[r] = secrets[r]
      /\ p.profile = "administration" => database.marker = secrets["target"]
  BY Attempting DEF LoggedIn, Sound, Dispatched, Verifying
<1> HIDE DEF p
<1>2. CASE p.profile = "reader"
  BY <1>1, <1>2, Scope DEF LogsIn, p
<1>3. CASE p.profile # "reader"
  <2>1. \A r \in Role : secrets[r] # None /\ database.password[r] = secrets[r]
    BY <1>1, <1>3, Scope
  <2>2. database.marker = secrets["target"]
    BY <1>1, <1>3, Scope
  <2> QED
    BY <1>1, <1>3, <2>1, <2>2 DEF LogsIn, Existing, p
<1> QED
  BY <1>2, <1>3

\* A revocation that passed left neither role nor Secret.
LEMMA RemovedDone ==
    ASSUME IInv, NEW o \in Operator, LastRemoved(op[o])
    PROVE  /\ op[o].verb = "revoke"
           /\ \A r \in Range(Affected(op[o].profile)) :
                  r \notin Existing(database') /\ secrets'[r] = None
<1> DEFINE p == op[o]
           n == Head(p.todo)
<1>1. /\ p \in Attempt /\ secrets \in Secrets /\ p.verb = "revoke"
      /\ p.todo # <<>> /\ Len(p.todo) = 1 /\ database' = database
      /\ secrets' = [secrets EXCEPT ![n] = None]
      /\ \A r \in Turned(p) :
             /\ database.password[r] = None
             /\ secrets[r] # None => r \in Range(p.todo)
  BY Attempting DEF LastRemoved, Sound, Dispatched, Removing
<1> HIDE DEF p
<1>2. Range(p.todo) = {n} /\ n \in Name
  BY <1>1, HeadTail DEF Attempt
<1>3. Turned(p) \subseteq Name /\ Turned(p) = Range(Affected(p.profile))
  BY <1>1, Scope, RolesAre
<1> HIDE DEF n
<1>4. \A r \in Turned(p) : secrets'[r] = None
  BY <1>1, <1>2, <1>3 DEF Secrets
<1> QED
  BY <1>1, <1>3, <1>4 DEF Existing, p

\* PassedMeansDone: a script says it passed only when what it was run for is
\* so.
THEOREM PassedIsDone ==
    ASSUME OneOperator
    PROVE  Spec => PassedMeansDone
<1>1. ASSUME IInv, [Next]_vars, NEW o \in Operator, Reports(o, "passed")
      PROVE  Done(op[o])
  <2>1. Contracted(op[o]) \/ LoggedIn(op[o]) \/ LastRemoved(op[o])
    BY <1>1, Reporting DEF Behind
  <2>2. CASE Contracted(op[o])
    BY <1>1, <2>2, ContractedDone DEF Contracted, Done, Existing
  <2>3. CASE LoggedIn(op[o])
    <3>1. UNCHANGED <<database, secrets>>
      BY <2>3 DEF LoggedIn
    <3>2. \A r : LogsIn(r) => LogsIn(r)'
      BY <3>1 DEF LogsIn
    <3> QED
      BY <1>1, <2>3, <3>1, <3>2, LoggedInDone DEF Done, Existing
  <2>4. CASE LastRemoved(op[o])
    BY <1>1, <2>4, RemovedDone DEF Done
  <2> QED
    BY <2>1, <2>2, <2>3, <2>4
<1>2. IInv /\ [Next]_vars =>
          [\A o \in Operator : Reports(o, "passed") => Done(op[o])]_vars
  BY <1>1
<1> QED
  BY <1>2, RoleInvariant, PTL DEF Spec, PassedMeansDone

\* A rotation that says it restored has done so, and nothing else is changed.
LEMMA RestoredDone ==
    ASSUME IInv, NEW o \in Operator, LastRestored(op[o])
    PROVE  /\ op[o].verb = "rotate" /\ database' = database
           /\ secrets' = op[o].held
           /\ Existing(database) = Existing(op[o].seen)
           /\ database.marker = op[o].seen.marker
           /\ \A r \in Range(Affected(op[o].profile)) :
                  LogsIn(r)' /\ secrets'[r] = op[o].held[r]
<1> DEFINE p == op[o]
           n == Head(p.todo)
<1>1. /\ p \in Attempt /\ secrets \in Secrets /\ p.verb = "rotate"
      /\ p.todo # <<>> /\ Len(p.todo) = 1 /\ database' = database
      /\ secrets' = [secrets EXCEPT ![n] = p.held[n]]
      /\ Replaced(database, secrets, recovery, p)
      /\ \A r \in Turned(p) :
             /\ database.password[r] = p.held[r]
             /\ secrets[r] # p.held[r] => r \in Range(p.todo)
  BY Attempting DEF LastRestored, Sound, Dispatched, Turning
<1> HIDE DEF p
<1>2. Range(p.todo) = {n} /\ n \in Name
  BY <1>1, HeadTail DEF Attempt
<1>3. Turned(p) \subseteq Name /\ Turned(p) = Range(Affected(p.profile))
  BY <1>1, Scope, RolesAre
<1> HIDE DEF n
<1>4. secrets' \in Secrets /\ p.held \in Secrets
  BY <1>1, <1>2 DEF Attempt, Secrets
<1>5. \A m \in Name : secrets'[m] = p.held[m]
  BY <1>1, <1>2, <1>3 DEF Secrets, Replaced
<1>6. secrets' = p.held
  BY <1>4, <1>5 DEF Secrets
<1>7. \A r \in Turned(p) : LogsIn(r)' /\ secrets'[r] = p.held[r]
  BY <1>1, <1>6 DEF LogsIn, Replaced
<1> QED
  BY <1>1, <1>3, <1>6, <1>7 DEF Replaced, p

\* RestoredMeansRestored: every role that the rotation changed has again the
\* password its Secret held before, and so has its Secret.
THEOREM RestoredIsRestored ==
    ASSUME OneOperator
    PROVE  Spec => RestoredMeansRestored
<1>1. ASSUME IInv, [Next]_vars, NEW o \in Operator, Reports(o, "restored")
      PROVE  \A r \in Range(Affected(op[o].profile)) :
                 LogsIn(r)' /\ secrets'[r] = op[o].held[r]
  <2>1. LastRestored(op[o])
    BY <1>1, Reporting DEF Behind
  <2> QED
    BY <1>1, <2>1, RestoredDone
<1>2. IInv /\ [Next]_vars =>
          [\A o \in Operator : Reports(o, "restored") =>
              \A r \in Range(Affected(op[o].profile)) :
                  LogsIn(r)' /\ secrets'[r] = op[o].held[r]]_vars
  BY <1>1
<1> QED
  BY <1>2, RoleInvariant, PTL DEF Spec, RestoredMeansRestored

\* A compensation that lost no answer and began where a script could go on
\* has undone everything.
LEMMA CompensatedDone ==
    ASSUME IInv, OneOperator, [Next]_vars, NEW o \in Operator,
           Reports(o, "compensated"), Regular(o)
    PROVE  Undone(op[o])
<1> DEFINE p == op[o]
<1>1. /\ p \in Attempt /\ database \in Database /\ secrets \in Secrets
      /\ p.lost = FALSE /\ WayForward(p.seen, p.held)
      /\ Sound(database, secrets, recovery, p)
  BY Attempting DEF Regular, Attempt
<1>2. \/ NothingToUndo(p) /\ p.profile = "administration"
      \/ FoundUndone(p)
  BY Reporting DEF Behind
<1> HIDE DEF p
<1>3. /\ p.seen \in Database /\ p.held \in Secrets
      /\ p.seen.password \in [Role -> Value]
      /\ database.password \in [Role -> Value]
  BY <1>1 DEF Attempt, Database
<1>4. p.pc \in {"undo", "undone"} =>
          /\ p.verb = "provision" /\ Added(secrets, FALSE, p) /\ Fitting(p)
          /\ p.pc = "undo" => Made(database, p)
          /\ p.pc = "undone" => Withdrawn(database, p)
  BY <1>1 DEF Sound, Dispatched, Stored, Provided
<1>5. ASSUME p.pc \in {"undo", "undone"},
             \A n \in Range(p.written) : secrets[n] = None
      PROVE  secrets = p.held
  <2>1. \A n \in Name : secrets[n] = p.held[n]
    BY <1>4, <1>5 DEF Added
  <2> QED
    BY <1>1, <1>3, <2>1 DEF Secrets
<1>6. ASSUME \A r \in Role : database.password[r] = p.seen.password[r]
      PROVE  database.password = p.seen.password
  BY <1>3, <1>6
<1>7. CASE FoundUndone(p)
  <2>1. p.pc = "undone" /\ secrets = p.held
    BY <1>5, <1>7 DEF FoundUndone
  <2>2. ASSUME NEW r \in Role
        PROVE  database.password[r] = p.seen.password[r]
    <3>1. CASE r \in Created(p)
      <4>1. r \notin Existing(database) /\ r \notin Existing(p.seen)
        BY <1>7, <3>1 DEF FoundUndone, Created
      <4> QED
        BY <4>1 DEF Existing
    <3>2. CASE r \notin Created(p)
      BY <1>4, <2>1, <3>2 DEF Withdrawn
    <3> QED
      BY <3>1, <3>2
  <2> QED
    BY <1>6, <1>7, <2>1, <2>2 DEF FoundUndone, Undone, p
<1>8. CASE NothingToUndo(p) /\ p.profile = "administration"
  <2>1. /\ p.pc = "undo" /\ Created(p) = {} /\ p.seen.marker # None
        /\ p.seen.member
    BY <1>8 DEF NothingToUndo, Undoes
  <2>2. \A r \in Role : p.held[r] # None
    <3>1. Range(Provisioned(p.profile)) = Role
      BY <1>1, <1>8, Scope
    <3>2. \A r \in Role : r \in Existing(p.seen)
      BY <2>1, <3>1 DEF Created
    <3> QED
      BY <1>4, <2>1, <3>1, <3>2 DEF Fitting
  <2>3. p.held["target"] # None
    BY <1>1, <2>1 DEF WayForward
  <2>4. \A n \in Name : p.held[n] # None
    BY <2>2, <2>3, RolesAre
  <2>5. Range(p.written) \subseteq Name
    BY <1>1, RangeEquality, ElementOfSeq DEF Attempt
  <2>6. Range(p.written) = {}
    BY <1>4, <2>1, <2>4, <2>5 DEF Added
  <2>7. secrets = p.held
    BY <1>5, <2>1, <2>6
  <2>8. /\ \A r \in Role : database.password[r] = p.seen.password[r]
        /\ database.member /\ database.marker = p.seen.marker
    BY <1>4, <1>8, <2>1 DEF Made
  <2>9. database.member = p.seen.member
    BY <1>1, <1>3, <2>1, <2>8 DEF Database
  <2> QED
    BY <1>6, <1>8, <2>7, <2>8, <2>9 DEF NothingToUndo, Undone, p
<1> QED
  BY <1>2, <1>7, <1>8

\* RegularCompensation: as long as every answer arrives, the compensation of
\* a provision that began in a consistent state undoes all of it.
THEOREM CompensationIsRegular ==
    ASSUME OneOperator
    PROVE  Spec => RegularCompensation
<1>1. IInv /\ [Next]_vars =>
          [\A o \in Operator : Reports(o, "compensated") /\ Regular(o) =>
              Undone(op[o])]_vars
  BY CompensatedDone
<1> QED
  BY <1>1, RoleInvariant, PTL DEF Spec, RegularCompensation

\* A reader attempt leaves a way forward when all but the reader is as it was
\* and the reader has a Secret.
LEMMA ReaderWay ==
    ASSUME NEW e, NEW s, NEW p,
           \A r \in Range(AdminRoles) : e.password[r] = p.seen.password[r],
           \A n \in Name \ {"reader"} : s[n] = p.held[n],
           e.marker = p.seen.marker,
           e.password["reader"] = None \/ s["reader"] # None,
           WayForward(p.seen, p.held)
    PROVE  WayForward(e, s)
BY RolesAre DEF WayForward, Existing

\* A provision or rotation that passed leaves a way forward.
LEMMA PassedWay ==
    ASSUME IInv, NEW o \in Operator, Contracted(op[o]) \/ LoggedIn(op[o]),
           op[o].verb \in {"provision", "rotate"}, Regular(o)
    PROVE  WayForward(database', secrets')
<1> DEFINE p == op[o]
<1>1. /\ p \in Attempt /\ WayForward(p.seen, p.held)
      /\ Sound(database, secrets, recovery, p)
  BY Attempting DEF Regular
<1>2. UNCHANGED <<database, secrets>>
  BY DEF Contracted, LoggedIn
<1>3. CASE \/ Contracted(p)
           \/ LoggedIn(p) /\ p.profile # "reader"
  <2>1. /\ \A r \in Role : r \in Existing(database) /\ secrets[r] # None
        /\ database.marker = secrets["target"]
    BY <1>3, ContractedDone, LoggedInDone
  <2> QED
    BY <1>2, <2>1, RolesAre DEF WayForward, Existing
<1>4. CASE LoggedIn(p) /\ p.profile = "reader"
  <2>1. /\ p.pc = "login" /\ secrets["reader"] # None
        /\ p.verb \in {"provision", "rotate", "verify"}
        /\ p.verb # "verify" => database.marker = p.seen.marker
    <3>1. secrets["reader"] # None
          /\ p.verb \in {"provision", "rotate", "verify"}
      BY <1>4, LoggedInDone DEF LogsIn
    <3>2. p.pc = "login"
      BY <1>4 DEF LoggedIn
    <3>3. p.verb = "provision" => database.marker = p.seen.marker
      BY <1>1, <1>4, <3>2 DEF Sound, Provided, Made
    <3>4. p.verb = "rotate" => database.marker = p.seen.marker
      BY <1>1, <3>2 DEF Sound, Turning, Replaced
    <3> QED
      BY <3>1, <3>2, <3>3, <3>4
  <2> HIDE DEF p
  <2>2. CASE p.verb = "provision"
    <3>1. Made(database, p) /\ Added(secrets, p.lost, p)
      BY <1>1, <2>1, <2>2 DEF Sound, Provided, Stored
    <3>2. Created(p) \subseteq {"reader"} /\ Wanted(p) = {"reader"}
      BY <1>1, <1>4, Scope DEF Created
    <3>3. \A r \in Range(AdminRoles) :
              database.password[r] = p.seen.password[r]
      BY <3>1, <3>2, RolesAre DEF Made
    <3>4. \A n \in Name \ {"reader"} : secrets[n] = p.held[n]
      BY <3>1, <3>2 DEF Added
    <3>5. WayForward(database, secrets)
      BY <1>1, <2>1, <2>2, <3>3, <3>4, ReaderWay
    <3> QED
      BY <1>2, <3>5
  <2>3. CASE p.verb = "rotate"
    <3>1. Replaced(database, secrets, recovery, p)
      BY <1>1, <2>1, <2>3 DEF Sound, Turning
    <3>2. Turned(p) = {"reader"}
      BY <1>1, <1>4, Scope
    <3>3. /\ Existing(database) = Existing(p.seen)
          /\ \A n \in Name \ {"reader"} : secrets[n] = p.held[n]
      BY <3>1, <3>2 DEF Replaced
    <3>4. Existing(p.seen) \subseteq Role
      BY DEF Existing
    <3>5. /\ \A r \in Existing(database) : secrets[r] # None
          /\ \A r \in Range(AdminRoles) :
                 secrets[r] # None => r \in Existing(database)
          /\ database.marker # None => secrets["target"] = database.marker
      BY <1>1, <2>1, <2>3, <3>3, <3>4, RolesAre DEF WayForward
    <3>6. WayForward(database, secrets)
      BY <3>5 DEF WayForward
    <3> QED
      BY <1>2, <3>6
  <2> QED
    BY <2>2, <2>3 DEF p
<1> QED
  BY <1>3, <1>4

\* A provision that failed before it changed anything, or that had nothing to
\* undo or dropped the reader again, leaves a way forward.
LEMMA FailedWay ==
    ASSUME IInv, NEW o \in Operator, Regular(o),
           \/ NotBegun(op[o])
           \/ NothingToUndo(op[o]) /\ op[o].profile = "reader"
           \/ ReaderDropped(op[o])
    PROVE  WayForward(database', secrets')
<1> DEFINE p == op[o]
<1>1. /\ p \in Attempt /\ database \in Database /\ p.lost = FALSE
      /\ WayForward(p.seen, p.held)
      /\ Sound(database, secrets, recovery, p)
  BY Attempting DEF Regular, Attempt
<1> HIDE DEF p
<1>2. CASE NotBegun(p)
  <2>1. /\ database.password = p.seen.password /\ database.marker = p.seen.marker
        /\ secrets = p.held /\ UNCHANGED <<database, secrets>>
    BY <1>1, <1>2 DEF NotBegun, Sound, Beginning, Unchanged
  <2> QED
    BY <1>1, <2>1 DEF WayForward, Existing
<1>3. CASE p.pc = "undo" /\ p.profile = "reader"
  <2>1. /\ Made(database, p) /\ Added(secrets, FALSE, p) /\ Fitting(p)
        /\ p.verb = "provision"
    BY <1>1, <1>3 DEF Sound, Dispatched, Provided, Stored
  <2>2. /\ Created(p) = {"reader"} \ Existing(p.seen)
        /\ Wanted(p) = {"reader"}
    BY <1>1, <1>3, Scope DEF Created
  <2>3. /\ \A r \in Range(AdminRoles) :
               database.password[r] = p.seen.password[r]
        /\ database.marker = p.seen.marker
    BY <1>3, <2>1, <2>2, RolesAre DEF Made
  <2>4. \A n \in Name \ {"reader"} : secrets[n] = p.held[n]
    BY <2>1, <2>2 DEF Added
  <2>5. CASE ReaderDropped(p)
    <3> DEFINE R == {"reader"}
               w == [r \in R |-> p.fresh]
               d == Drop(database, R)
    <3>1. R \subseteq Role /\ w \in [R -> Value]
      BY <1>1, RolesAre DEF Attempt
    <3>2. database' = d /\ secrets' = secrets
      BY <2>5 DEF ReaderDropped
    <3> HIDE DEF w, d
    <3>3. /\ d.marker = database.marker
          /\ \A r \in Role : d.password[r] =
                 IF r \in R THEN None ELSE database.password[r]
      BY <1>1, <3>1, Statements DEF d
    <3>4. WayForward(d, secrets)
      BY <1>1, <2>3, <2>4, <3>3, RolesAre, ReaderWay
    <3> QED
      BY <3>2, <3>4
  <2>6. CASE NothingToUndo(p)
    <3>1. /\ "reader" \in Existing(p.seen) \/ p.held["reader"] # None
          /\ UNCHANGED <<database, secrets>>
      BY <1>3, <2>2, <2>6 DEF NothingToUndo, Undoes
    <3>2. p.held["reader"] # None
      BY <1>1, <1>3, <2>1, <3>1, Scope DEF Fitting
    <3>3. secrets["reader"] # None
      BY <2>1, <3>2, RolesAre DEF Added
    <3>4. WayForward(database, secrets)
      BY <1>1, <2>3, <2>4, <3>3, ReaderWay
    <3> QED
      BY <3>1, <3>4
  <2>7. NothingToUndo(p) \/ ReaderDropped(p)
    BY <1>3 DEF NotBegun, p
  <2> QED
    BY <2>5, <2>6, <2>7
<1> QED
  BY <1>2, <1>3 DEF NothingToUndo, ReaderDropped, p

\* FailuresLeaveAWayForward: a provision or rotation that no signal ended and
\* that does not say its recovery was incomplete leaves a state from which the
\* scripts can go on, if it began in one.
THEOREM FailuresLeaveOne ==
    ASSUME OneOperator
    PROVE  Spec => FailuresLeaveAWayForward
<1>1. ASSUME IInv, [Next]_vars, NEW o \in Operator, NEW report,
             report \in {"passed", "failed", "compensated", "restored"},
             Reports(o, report), op[o].verb \in {"provision", "rotate"},
             Regular(o)
      PROVE  WayForward(database', secrets')
  <2>1. Behind(op[o], report, op'[o].lost)
    BY <1>1, Reporting
  <2>2. ~op'[o].lost /\ WayForward(op[o].seen, op[o].held)
    BY <1>1 DEF Regular
  <2>3. CASE report = "passed"
    <3>1. ~LastRemoved(op[o])
      BY <1>1, RemovedDone
    <3>2. Contracted(op[o]) \/ LoggedIn(op[o])
      BY <2>1, <2>3, <3>1 DEF Behind
    <3> QED
      BY <1>1, <3>2, PassedWay
  <2>4. CASE report = "failed"
    <3>1. \/ NotBegun(op[o])
          \/ NothingToUndo(op[o]) /\ op[o].profile = "reader"
          \/ ReaderDropped(op[o])
      BY <1>1, <2>1, <2>2, <2>4 DEF Behind
    <3> QED
      BY <1>1, <3>1, FailedWay
  <2>5. CASE report = "compensated"
    <3>1. Undone(op[o])
      BY <1>1, <2>5, CompensatedDone
    <3> QED
      BY <2>2, <3>1 DEF Undone, WayForward, Existing
  <2>6. CASE report = "restored"
    <3>1. LastRestored(op[o])
      BY <2>1, <2>6 DEF Behind
    <3>2. /\ database' = database /\ secrets' = op[o].held
          /\ Existing(database) = Existing(op[o].seen)
          /\ database.marker = op[o].seen.marker
      BY <1>1, <3>1, RestoredDone
    <3> QED
      BY <2>2, <3>2 DEF WayForward
  <2> QED
    BY <1>1, <2>3, <2>4, <2>5, <2>6
<1>2. IInv /\ [Next]_vars =>
          [\A o \in Operator :
              /\ \E report \in {"passed", "failed", "compensated", "restored"} :
                     Reports(o, report)
              /\ op[o].verb \in {"provision", "rotate"}
              /\ Regular(o)
              => WayForward(database', secrets')]_vars
  BY <1>1
<1> QED
  BY <1>2, RoleInvariant, PTL DEF Spec, FailuresLeaveAWayForward
=============================================================================
