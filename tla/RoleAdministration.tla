------------------------- MODULE RoleAdministration -------------------------
(***************************************************************************)
(* The Product database roles and the Secrets that carry their passwords,  *)
(* as scripts/product_deployment/reader.py (profile "reader") and          *)
(* administration.py (profile "administration") change them.               *)
(*                                                                         *)
(* An attempt is one run of a script: provision, verify, rotate or revoke. *)
(* It changes two systems that share no transaction.  PostgreSQL runs one  *)
(* transaction per call; Kubernetes writes or deletes one Secret per call. *)
(* Each call is one step.  It succeeds, or it fails without effect, or,    *)
(* where Ambiguous, it fails although it was applied (command() gives up   *)
(* after 30 seconds and the server may still finish).  An exception runs   *)
(* the script's own undo; SIGINT and SIGTERM raise ProductSignal, a        *)
(* BaseException that no handler catches, so they end the attempt at once. *)
(*                                                                         *)
(* A password, and the identity of the enrolled database, is the number of *)
(* the attempt that drew it: secrets.token_urlsafe and uuid4 never repeat. *)
(* The product table and the catalog in it are there and do not change:    *)
(* the inventory of both profiles is taken of a migrated database.         *)
(***************************************************************************)
EXTENDS Integers, Sequences, SequencesExt

CONSTANTS Operator,       \* people or jobs that may run a script
          MaxAttempts,    \* bound: provisions and rotations in a behaviour
          MaxFaults,      \* bound: calls that fail
          MaxInterrupts,  \* bound: attempts that a signal ends
          Ambiguous       \* whether a failed call may have been applied

ASSUME BoundsAssumption ==
    /\ MaxAttempts \in Nat /\ MaxFaults \in Nat /\ MaxInterrupts \in Nat
    /\ Ambiguous \in BOOLEAN

None == 0
Value == 0 .. MaxAttempts
AdminRoles == <<"migrator", "seeder">>
Roles == <<"reader">> \o AdminRoles
Role == Range(Roles)
Name == Role \cup {"target"}

VARIABLES
    database,   \* role passwords, the reader's SELECT, membership, marker
    secrets,    \* the value in each workload Secret, None where it is absent
    recovery,   \* <<role, password>> pairs in protected recovery files
    op,         \* the attempt of each operator
    attempts, faults, interrupts

vars == <<database, secrets, recovery, op, attempts, faults, interrupts>>

NoDatabase == [password |-> [r \in Role |-> None], granted |-> FALSE,
               member |-> FALSE, marker |-> None]
NoSecrets == [n \in Name |-> None]

(* seen and held are what the attempt read before it changed anything,     *)
(* probe the Secrets that its verification reads.  lost is a history of    *)
(* the attempt: one of its calls was applied and reported as failed.       *)
Idle == [pc |-> "idle", report |-> "none", profile |-> "reader",
         verb |-> "verify", fresh |-> None, lost |-> FALSE,
         seen |-> NoDatabase, held |-> NoSecrets, probe |-> NoSecrets,
         written |-> <<>>, todo |-> <<>>]

Init ==
    /\ database = NoDatabase
    /\ secrets = NoSecrets
    /\ recovery = {}
    /\ op = [o \in Operator |-> Idle]
    /\ attempts = 0 /\ faults = 0 /\ interrupts = 0

-----------------------------------------------------------------------------
(* The roles a rotation or revocation touches, and those a provision makes.*)
Affected(profile) == IF profile = "reader" THEN <<"reader">> ELSE AdminRoles
Provisioned(profile) == IF profile = "reader" THEN <<"reader">> ELSE Roles

Existing(d) == {r \in Role : d.password[r] # None}
Created(p) == Range(Provisioned(p.profile)) \ Existing(p.seen)

MutantPassword(p, r) == p.fresh + 1
Password(p, r) == IF p.verb = "provision" /\ p.held[r] # None
                  THEN p.held[r] ELSE p.fresh
Instance(p) == IF p.held["target"] # None THEN p.held["target"] ELSE p.fresh

SetPasswords(d, new) ==
    [d EXCEPT !.password =
        [r \in Role |-> IF r \in DOMAIN new THEN new[r] ELSE @[r]]]
Drop(d, roles) ==
    [SetPasswords(d, [r \in roles |-> None]) EXCEPT
        !.granted = @ /\ "reader" \notin roles,
        !.member = @ /\ "migrator" \notin roles]

(* grants_sql gives the reader its SELECT; role_sql leaves that to the     *)
(* migration, enrols the migrator and writes the marker only if absent.    *)
ProvisionDatabase(p) ==
    LET d == SetPasswords(database, [r \in Created(p) |-> Password(p, r)])
    IN IF p.profile = "reader" THEN [d EXCEPT !.granted = TRUE]
       ELSE [d EXCEPT !.member = TRUE,
                      !.marker = IF @ = None THEN Instance(p) ELSE @]

(* compensation_sql: the marker goes only if this attempt wrote it.        *)
CompensateDatabase(p) ==
    LET d == Drop(database, Created(p))
    IN [d EXCEPT !.member = @ /\ p.seen.member,
                 !.marker = IF p.seen.marker = None /\ @ = Instance(p)
                            THEN None ELSE @]

-----------------------------------------------------------------------------
At(p, pc) == [p EXCEPT !.pc = pc]
Ended(report) == [Idle EXCEPT !.report = report]
Become(o, p) == op' = [op EXCEPT ![o] = p]

(* One call of attempt o: possible says whether the server can do it, d and *)
(* s are its effect, done and failed the attempt after it.                  *)
Call(o, possible, d, s, done, failed) ==
    \/ /\ possible
       /\ database' = d /\ secrets' = s
       /\ Become(o, done)
       /\ UNCHANGED faults
    \/ /\ ~possible
       /\ Become(o, failed)
       /\ UNCHANGED <<database, secrets, faults>>
    \/ /\ possible /\ faults < MaxFaults
       /\ faults' = faults + 1
       /\ \/ Become(o, failed) /\ UNCHANGED <<database, secrets>>
          \/ /\ Ambiguous
             /\ Become(o, [failed EXCEPT !.lost = TRUE])
             /\ database' = d /\ secrets' = s

Transaction(o, possible, d, done, failed) ==
    /\ Call(o, possible, d, secrets, done, failed)
    /\ UNCHANGED <<recovery, attempts, interrupts>>
PutOrDelete(o, n, value, done, failed) ==
    /\ Call(o, TRUE, database, [secrets EXCEPT ![n] = value], done, failed)
    /\ UNCHANGED <<recovery, attempts, interrupts>>
Probe(o, holds, done, failed) ==
    /\ Call(o, holds, database, secrets, done, failed)
    /\ UNCHANGED <<recovery, attempts, interrupts>>

Putting(p, names) ==
    [p EXCEPT !.todo = names, !.pc = IF names = <<>> THEN "check" ELSE "put"]

(* What an exception inside the try block leads to.                        *)
Failing(p) ==
    CASE p.verb = "rotate" -> At(p, "restoreSql")
      [] p.verb = "provision" ->
            [p EXCEPT !.pc = "undo",
                      !.todo = IF p.profile = "reader" THEN <<>>
                               ELSE Reverse(p.written)]
      [] OTHER -> Ended("failed")

-----------------------------------------------------------------------------
(* check_boundary: the reader exists with exactly its privileges.          *)
Boundary(d) == d.password["reader"] # None /\ d.granted

Begins(profile, verb, running) ==
    /\ verb = "revoke" => ~running
    /\ profile = "reader" /\ verb = "rotate" => Boundary(database)

FirstStep(verb) == CASE verb = "verify" -> "check"
                     [] verb = "revoke" -> "sql"
                     [] OTHER -> "inputs"

(* An attempt starts and takes its inventory.  running: the API Deployment *)
(* (reader) or an initialization Job (administration) still exists.        *)
Begin(o, profile, verb, running) ==
    LET draws == verb \in {"provision", "rotate"}
    IN /\ op[o].pc = "idle"
       /\ draws => attempts < MaxAttempts
       /\ IF Begins(profile, verb, running)
          THEN /\ attempts' = IF draws THEN attempts + 1 ELSE attempts
               /\ Become(o, [Idle EXCEPT
                      !.pc = FirstStep(verb), !.profile = profile,
                      !.verb = verb, !.seen = database,
                      !.fresh = IF draws THEN attempts + 1 ELSE None])
          ELSE Become(o, Ended("refused")) /\ UNCHANGED attempts
       /\ UNCHANGED <<database, secrets, recovery, faults, interrupts>>

(* The Secrets an attempt read fit the roles it saw.                       *)
Accepts(p) ==
    LET present(r) == p.held[r] # None
        existing == Existing(p.seen)
    IN IF p.profile = "reader"
       THEN IF p.verb = "rotate"
            THEN /\ p.held["reader"] # None
                 /\ database.password["reader"] = p.held["reader"]
            ELSE "reader" \in existing => present("reader")
       ELSE \A r \in Role : present(r) <=> p.verb = "rotate" \/ r \in existing

(* What a rotation writes to a new protected file before it alters a role. *)
MutantOldPasswords(p) == {}
OldPasswords(p) == {<<r, p.held[r]>> : r \in Range(Affected(p.profile))}

(* A rotation first writes the old passwords to a new recovery file.  The  *)
(* reader's new password may come from such a file instead.                *)
Inputs(o) ==
    LET p == [op[o] EXCEPT !.held = secrets]
        kept == {v \in Value : p.profile = "reader" /\ v # p.held["reader"]
                               /\ <<"reader", v>> \in recovery}
    IN /\ op[o].pc = "inputs"
       /\ \/ ~Accepts(p) /\ Become(o, Ended("refused")) /\ UNCHANGED recovery
          \/ /\ Accepts(p) /\ p.verb = "provision"
             /\ Become(o, At(p, "sql")) /\ UNCHANGED recovery
          \/ /\ Accepts(p) /\ p.verb = "rotate"
             /\ recovery' = recovery \cup OldPasswords(p)
             /\ \E v \in {p.fresh} \cup kept :
                    Become(o, [p EXCEPT !.pc = "sql", !.fresh = v])
       /\ UNCHANGED <<database, secrets, attempts, faults, interrupts>>

(* The names whose Secrets a provision writes; the target Secret last.     *)
Missing(p, r) == IF p.held[r] = None THEN <<r>> ELSE <<>>
Unwritten(p) ==
    IF p.profile = "reader" THEN Missing(p, "reader")
    ELSE Missing(p, "reader") \o Missing(p, "migrator")
             \o Missing(p, "seeder") \o <<"target">>

ProvisionSql(o) ==
    LET p == op[o]
        same == \A r \in Range(Provisioned(p.profile)) :
                    r \in Existing(database) <=> r \in Existing(p.seen)
    IN /\ p.pc = "sql" /\ p.verb = "provision"
       /\ Transaction(o, same, ProvisionDatabase(p),
                      Putting(p, Unwritten(p)), Ended("failed"))

RotateSql(o) ==
    LET p == op[o]
        roles == Range(Affected(p.profile))
    IN /\ p.pc = "sql" /\ p.verb = "rotate"
       /\ Transaction(o, roles \subseteq Existing(database),
                      SetPasswords(database, [r \in roles |-> p.fresh]),
                      Putting(p, Affected(p.profile)), Failing(p))

(* The reader script skips the transaction when the role is already gone;  *)
(* the administration script fails on a role that does not exist.          *)
RevokeSql(o) ==
    LET p == op[o]
        roles == Range(Affected(p.profile))
        next == [p EXCEPT !.pc = "remove", !.todo = Affected(p.profile)]
    IN /\ p.pc = "sql" /\ p.verb = "revoke"
       /\ IF p.profile = "reader" /\ "reader" \notin Existing(p.seen)
          THEN Become(o, next)
               /\ UNCHANGED <<database, secrets, recovery, attempts, faults,
                              interrupts>>
          ELSE Transaction(o, roles \subseteq Existing(database),
                           Drop(database, roles), next, Ended("failed"))

PutSecret(o) ==
    LET p == op[o]
        n == Head(p.todo)
        next == Putting(p, Tail(p.todo))
        value == IF n = "target" THEN Instance(p) ELSE Password(p, n)
    IN /\ p.pc = "put"
       /\ IF n = "target" /\ secrets["target"] # None
          THEN Become(o, next)
               /\ UNCHANGED <<database, secrets, recovery, attempts, faults,
                              interrupts>>
          ELSE PutOrDelete(o, n, value,
                           [next EXCEPT !.written = Append(@, n)], Failing(p))

(* check_role_contract against the marker the script expects.              *)
MutantContract(target) == Existing(database) = Role /\ database.member
Contract(target) == /\ Existing(database) = Role
                    /\ database.member
                    /\ target # None /\ database.marker = target

(* verify: boundary or contract and Secrets first, then a login with each. *)
(* provision of the administration profile checks the contract only.       *)
Ready(p) == IF p.profile = "reader"
            THEN Boundary(database) /\ secrets["reader"] # None
            ELSE /\ \A r \in Role : secrets[r] # None
                 /\ Contract(secrets["target"])

CheckState(o) ==
    LET p == op[o]
        next == [p EXCEPT !.pc = "login", !.probe = secrets]
    IN /\ p.pc = "check"
       /\ IF p.profile = "administration" /\ p.verb = "provision"
          THEN Probe(o, Contract(Instance(p)), Ended("passed"), Failing(p))
          ELSE Probe(o, Ready(p), next, Failing(p))

CheckLogin(o) ==
    LET p == op[o]
        holds == \A r \in Range(Provisioned(p.profile)) :
                     database.password[r] = p.probe[r]
    IN /\ p.pc = "login"
       /\ Probe(o, holds /\ database.granted, Ended("passed"), Failing(p))

-----------------------------------------------------------------------------
(* A failed provision deletes the Secrets it wrote (the administration     *)
(* profile; a failed deletion is passed over), then undoes its SQL.        *)
UndoSecret(o) ==
    LET p == op[o]
        next == [p EXCEPT !.todo = Tail(@)]
    IN /\ p.pc = "undo" /\ p.todo # <<>>
       /\ PutOrDelete(o, Head(p.todo), None, next, next)

MutantUndoes(p) == /\ p.profile = "administration"
                   /\ \/ Created(p) # {} \/ p.seen.marker = None
                      \/ ~p.seen.member
Undoes(p) == IF p.profile = "reader"
             THEN "reader" \in Created(p) /\ p.held["reader"] = None
             ELSE \/ Created(p) # {} \/ p.seen.marker = None
                  \/ ~p.seen.member

UndoSql(o) ==
    LET p == op[o]
        reader == p.profile = "reader"
        next == IF reader THEN Ended("failed") ELSE At(p, "undone")
    IN /\ p.pc = "undo" /\ p.todo = <<>>
       /\ IF Undoes(p)
          THEN Transaction(o, /\ Created(p) \subseteq Existing(database)
                              /\ \/ reader \/ p.seen.member
                                 \/ "migrator" \in Existing(database),
                           IF reader THEN Drop(database, {"reader"})
                                     ELSE CompensateDatabase(p),
                           next, Ended("incomplete"))
          ELSE Become(o, Ended(IF reader THEN "failed" ELSE "compensated"))
               /\ UNCHANGED <<database, secrets, recovery, attempts, faults,
                              interrupts>>

MutantUndoCheck(o) ==
    /\ op[o].pc = "undone"
    /\ Probe(o, Existing(database) \cap Created(op[o]) = {},
             Ended("compensated"), Ended("incomplete"))
UndoCheck(o) ==
    LET p == op[o]
        undone == /\ Existing(database) \cap Created(p) = {}
                  /\ database.member = p.seen.member
                  /\ database.marker = p.seen.marker
                  /\ \A n \in Range(p.written) : secrets[n] = None
    IN /\ p.pc = "undone"
       /\ Probe(o, undone, Ended("compensated"), Ended("incomplete"))

(* A failed rotation puts back the passwords, then the Secrets, it read.   *)
MutantRestoreSql(o) ==
    /\ op[o].pc = "restoreSql"
    /\ Become(o, [op[o] EXCEPT !.pc = "restorePut",
                               !.todo = Affected(op[o].profile)])
    /\ UNCHANGED <<database, secrets, recovery, attempts, faults, interrupts>>
RestoreSql(o) ==
    LET p == op[o]
        roles == Range(Affected(p.profile))
    IN /\ p.pc = "restoreSql"
       /\ Transaction(o, roles \subseteq Existing(database),
                      SetPasswords(database, [r \in roles |-> p.held[r]]),
                      [p EXCEPT !.pc = "restorePut",
                                !.todo = Affected(p.profile)],
                      Ended("incomplete"))

RestoreSecret(o) ==
    LET p == op[o]
        n == Head(p.todo)
        next == IF Len(p.todo) = 1 THEN Ended("restored")
                ELSE [p EXCEPT !.todo = Tail(@)]
    IN /\ p.pc = "restorePut"
       /\ PutOrDelete(o, n, p.held[n], next, Ended("incomplete"))

RemoveSecret(o) ==
    LET p == op[o]
        next == IF Len(p.todo) = 1 THEN Ended("passed")
                ELSE [p EXCEPT !.todo = Tail(@)]
    IN /\ p.pc = "remove"
       /\ PutOrDelete(o, Head(p.todo), None, next, Ended("failed"))

(* SIGINT or SIGTERM.                                                      *)
Interrupt(o) ==
    /\ op[o].pc # "idle" /\ interrupts < MaxInterrupts
    /\ interrupts' = interrupts + 1
    /\ Become(o, Ended("interrupted"))
    /\ UNCHANGED <<database, secrets, recovery, attempts, faults>>

(* The migration Job grants the reader its SELECT.                         *)
GrantReader ==
    /\ "reader" \in Existing(database) /\ ~database.granted
    /\ database' = [database EXCEPT !.granted = TRUE]
    /\ UNCHANGED <<secrets, recovery, op, attempts, faults, interrupts>>

Step(o) ==
    \/ Inputs(o)
    \/ ProvisionSql(o) \/ RotateSql(o) \/ RevokeSql(o)
    \/ PutSecret(o) \/ CheckState(o) \/ CheckLogin(o)
    \/ UndoSecret(o) \/ UndoSql(o) \/ UndoCheck(o)
    \/ RestoreSql(o) \/ RestoreSecret(o) \/ RemoveSecret(o)

Next ==
    \/ \E o \in Operator :
          \/ \E profile \in {"reader", "administration"},
                verb \in {"provision", "verify", "rotate", "revoke"},
                running \in BOOLEAN : Begin(o, profile, verb, running)
          \/ Step(o)
          \/ Interrupt(o)
    \/ GrantReader

Spec == Init /\ [][Next]_vars

-----------------------------------------------------------------------------
(* Every variable keeps its type.                                          *)
TypeOK ==
    /\ database \in [password : [Role -> Value], granted : BOOLEAN,
                     member : BOOLEAN, marker : Value]
    /\ secrets \in [Name -> Value]
    /\ recovery \subseteq Role \X Value
    /\ attempts \in 0 .. MaxAttempts
    /\ faults \in 0 .. MaxFaults
    /\ interrupts \in 0 .. MaxInterrupts
    /\ \A o \in Operator :
          /\ op[o].pc \in {"idle", "inputs", "sql", "put", "check", "login",
                           "undo", "undone", "restoreSql", "restorePut",
                           "remove"}
          /\ op[o].fresh \in Value
          /\ op[o].held \in [Name -> Value]
          /\ op[o].probe \in [Name -> Value]
          /\ Range(op[o].todo) \cup Range(op[o].written) \subseteq Name

(* Attempt o, still running in this state, ends with the report.           *)
Reports(o, report) == op[o].pc # "idle" /\ op'[o].report = report
                      /\ op'[o].pc = "idle"

LogsIn(r) == database.password[r] # None /\ database.password[r] = secrets[r]

(* A script says it passed only when what it was run for is so: whatever   *)
(* earlier attempts left behind, after a reader provision and after every  *)
(* verification and rotation the Secrets of the profile log in; after an   *)
(* administration provision every role has a Secret and the marker is the  *)
(* target's; after a revocation neither role nor Secret is left.           *)
Done(p) ==
    /\ p.verb = "revoke" =>
           \A r \in Range(Affected(p.profile)) :
               r \notin Existing(database') /\ secrets'[r] = None
    /\ p.verb # "revoke" /\ p.profile = "reader" => LogsIn("reader")'
    /\ p.verb # "revoke" /\ p.profile = "administration" =>
           /\ \A r \in Role : r \in Existing(database') /\ secrets'[r] # None
           /\ database'.marker = secrets'["target"]
           /\ p.verb # "provision" => \A r \in Role : LogsIn(r)'

PassedMeansDone ==
    [][\A o \in Operator : Reports(o, "passed") => Done(op[o])]_vars

(* "previous credential(s) restored": every role that the rotation changed *)
(* has again the password its Secret held before, and so has its Secret.   *)
RestoredMeansRestored ==
    [][\A o \in Operator : Reports(o, "restored") =>
        \A r \in Range(Affected(op[o].profile)) :
            LogsIn(r)' /\ secrets'[r] = op[o].held[r]]_vars

(* "partial state compensated": roles, membership, marker and Secrets are  *)
(* what they were before the provision that failed.                        *)
Undone(p) == /\ database'.password = p.seen.password
             /\ database'.member = p.seen.member
             /\ database'.marker = p.seen.marker
             /\ secrets' = p.held

CompensatedMeansUndone ==
    [][\A o \in Operator : Reports(o, "compensated") => Undone(op[o])]_vars

(* A role whose Secret no longer logs in has its predecessor in a protected*)
(* file: no failure, signal or lost answer destroys the last copy of the   *)
(* credential that a rotation replaced.                                    *)
PredecessorKept ==
    \A r \in Existing(database) :
        secrets[r] \notin {None, database.password[r]} =>
            \/ <<r, secrets[r]>> \in recovery
            \/ <<r, database.password[r]>> \in recovery

(* Some script accepts this state: no role without a Secret, no elevated   *)
(* Secret without a role, no marker without its target Secret.             *)
WayForward(d, s) ==
    /\ \A r \in Existing(d) : s[r] # None
    /\ \A r \in Range(AdminRoles) : s[r] # None => r \in Existing(d)
    /\ d.marker # None => s["target"] = d.marker

(* The attempt began where a script could go on and lost no answer.        *)
Regular(o) == /\ ~op[o].lost /\ ~op'[o].lost
              /\ WayForward(op[o].seen, op[o].held)

(* As long as every answer arrives, the compensation of a provision that   *)
(* began in a consistent state undoes all of it or says it is incomplete.  *)
RegularCompensation ==
    [][\A o \in Operator :
        Reports(o, "compensated") /\ Regular(o) => Undone(op[o])]_vars

(* A provision or rotation that no signal ended and that does not say its  *)
(* recovery was incomplete leaves a state from which the scripts can go    *)
(* on, if it began in one.  An elevated revocation that fails half way is  *)
(* not so: its transaction cannot be repeated once its roles are gone.     *)
FailuresLeaveAWayForward ==
    [][\A o \in Operator :
        /\ \E report \in {"passed", "failed", "compensated", "restored"} :
               Reports(o, report)
        /\ op[o].verb \in {"provision", "rotate"}
        /\ Regular(o)
        => WayForward(database', secrets')]_vars

(* The scripts say after a rotation whose recovery failed: "use protected  *)
(* recovery input".  A rotation takes that input (from the restore file),  *)
(* so it would have to accept the state that is left.                      *)
RecoveryInputUsable ==
    [][\A o \in Operator :
        Reports(o, "incomplete") /\ op[o].verb = "rotate"
            /\ op[o].profile = "reader"
        => LogsIn("reader")']_vars
=============================================================================
