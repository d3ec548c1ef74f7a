----------------------- MODULE ElasticAdministration -----------------------
(***************************************************************************)
(* The scripts that give the Go services their Elasticsearch identities,   *)
(* index, Kafka topic and workload Secrets:                                *)
(*   reader   dashboard-service/scripts/reader_administration.py           *)
(*   event    dashboard-service/scripts/event_administration.py            *)
(*   cutover  policy-search-service/scripts/cutover_administration.py      *)
(*   fixture  policy-search-service/scripts/fixture_administration.py      *)
(*                                                                         *)
(* A script is a sequence of calls to Elasticsearch and to Kubernetes that *)
(* share no transaction.  A call is taken when what it requires holds of   *)
(* what it reads, refused when it does not, and may fail with or without   *)
(* effect (an answer that never came, Ctrl-C while it was under way).  The *)
(* only script with an undo is the reader's rotation.  SIGTERM and SIGKILL *)
(* end the interpreter at once and leave the kubectl of the port-forward,  *)
(* which runs in a session of its own.                                     *)
(*                                                                         *)
(* A password is a number, drawn once (secrets.token_urlsafe); a CA is its *)
(* generation.  Labels, field managers, roles and mappings are reduced to  *)
(* whether the object is the one that the script would write.              *)
(***************************************************************************)
EXTENDS Integers, Sequences, SequencesExt

CONSTANTS MaxOperations,  \* bound: scripts started in a behaviour
          MaxTroubles,    \* bound: calls that fail, scripts that are killed
          MaxRenewals,    \* bound: CAs that ECK or Strimzi renew
          MaxDocuments    \* bound: documents in the index

VARIABLES world,  \* Elasticsearch, Kafka and the workload's Secrets
          run     \* the script under way, and the bounds used up

vars == <<world, run>>

Id == {"reader", "writer"}
Ca == {"elastic", "kafka"}
None == 0
Foreign == -1
Fixture == 1    \* documents in the fixture

-----------------------------------------------------------------------------
(* The scripts.  A step is what is done and what it is done to.            *)
Identity(i) == <<<<"role", i>>, <<"user", i>>>>
Stored(i) == Identity(i) \o <<<<"stored", i>>>>
Withdrawn(i) == <<<<"drop user", i>>, <<"drop role", i>>>>
Secure(qa, step) == IF qa THEN <<step>> ELSE <<>>

ReaderTarget == <<<<"target", "elastic">>, <<"forward", "">>,
                  <<"index", "present">>>>
ReaderEnsure(qa) ==
    <<<<"owned", "reader">>, <<"readable", "reader">>, <<"paired", "reader">>,
      <<"password", "reader">>>>
        \o Secure(qa, <<"trust", "elastic">>)
        \o Stored("reader")
        \o <<<<"publish", "reader">>, <<"login", "reader">>,
             <<"index", "present">>>>
        \o Secure(qa, <<"trusted", "elastic">>)
ReaderRotate(qa) ==
    <<<<"owned", "reader">>, <<"readable", "reader">>, <<"fresh", "reader">>>>
        \o Secure(qa, <<"trust", "elastic">>)
        \o Stored("reader")
        \o <<<<"guard", "reader">>, <<"publish", "reader">>,
             <<"login", "reader">>, <<"index", "present">>>>
        \o Secure(qa, <<"trusted", "elastic">>)
MutantReaderVerify(qa) ==
    <<<<"stored", "reader">>, <<"readable", "reader">>, <<"held", "reader">>,
      <<"login", "reader">>, <<"index", "present">>>>
ReaderVerify(qa) ==
    <<<<"stored", "reader">>, <<"readable", "reader">>, <<"held", "reader">>,
      <<"login", "reader">>, <<"index", "present">>>>
        \o Secure(qa, <<"trusted", "elastic">>)
(* What the handler around the rotation's Secret and checks does.          *)
MutantReaderRollback == <<<<"publish", "reader">>>>
ReaderRollback == Stored("reader") \o <<<<"publish", "reader">>>>

EventTarget == <<<<"target", "elastic">>, <<"target", "kafka">>,
                 <<"forward", "">>>>
MutantEventSetup ==
    <<<<"index", "known">>, <<"create", "">>,
      <<"readable", "reader">>, <<"paired", "reader">>,
      <<"password", "reader">>,
      <<"readable", "writer">>, <<"password", "writer">>>>
        \o Stored("reader") \o Stored("writer")
        \o <<<<"publish", "reader">>, <<"publish", "writer">>,
             <<"copy", "kafka">>, <<"topic", "">>, <<"unchanged", "">>>>
EventSetup ==
    <<<<"index", "known">>, <<"create", "">>,
      <<"readable", "reader">>, <<"password", "reader">>,
      <<"readable", "writer">>, <<"password", "writer">>>>
        \o Stored("reader") \o Stored("writer")
        \o <<<<"publish", "reader">>, <<"publish", "writer">>,
             <<"copy", "kafka">>, <<"topic", "">>, <<"unchanged", "">>>>
EventVerify ==
    <<<<"index", "present">>, <<"topic", "ours">>,
      <<"stored", "reader">>, <<"readable", "reader">>, <<"held", "reader">>,
      <<"login", "reader">>,
      <<"stored", "writer">>, <<"readable", "writer">>, <<"held", "writer">>,
      <<"login", "writer">>, <<"trusted", "kafka">>>>
MutantEventRetire ==
    <<<<"index", "known">>, <<"owned", "writer">>, <<"owned", "reader">>>>
        \o Withdrawn("writer") \o Withdrawn("reader")
        \o <<<<"topic", "known">>, <<"readable", "reader">>,
             <<"readable", "writer">>, <<"known", "kafka">>,
             <<"drop topic", "">>,
             <<"drop secret", "reader">>, <<"drop secret", "writer">>,
             <<"drop ca", "kafka">>, <<"drop index", "">>>>
EventRetire ==
    <<<<"index", "known">>, <<"owned", "writer">>, <<"owned", "reader">>,
      <<"topic", "known">>, <<"readable", "reader">>,
      <<"readable", "writer">>, <<"known", "kafka">>>>
        \o Withdrawn("writer") \o Withdrawn("reader")
        \o <<<<"drop topic", "">>,
             <<"drop secret", "reader">>, <<"drop secret", "writer">>,
             <<"drop ca", "kafka">>, <<"drop index", "">>>>

CutoverTarget == <<<<"target", "elastic">>, <<"forward", "">>>>
CutoverPasswords ==
    <<<<"readable", "reader">>, <<"password", "reader">>,
      <<"readable", "writer">>, <<"password", "writer">>>>
CutoverAccess ==
    <<<<"index", "known">>, <<"index", "empty">>, <<"create", "">>>>
        \o Identity("reader") \o Identity("writer")
CutoverEnsure(qa) ==
    CutoverPasswords \o CutoverAccess
        \o <<<<"publish", "reader">>, <<"publish", "writer">>>>
        \o Secure(qa, <<"copy", "elastic">>)
        \o <<<<"copy", "kafka">>>>
CutoverVerify ==
    <<<<"held", "reader">>, <<"login", "reader">>, <<"index", "known">>,
      <<"held", "writer">>, <<"login", "writer">>>>
CutoverMigrate(qa) ==
    <<<<"migrate", "reader">>, <<"migrate", "writer">>,
      <<"migrate ca", "kafka">>>>
        \o Secure(qa, <<"migrate ca", "elastic">>)

FixtureSetup(qa) ==
    <<<<"password", "reader">>>> \o Identity("reader")
        \o <<<<"create", "">>, <<"index", "present">>, <<"reset", "">>,
             <<"bulk", "">>, <<"count", "">>, <<"publish", "reader">>>>
        \o Secure(qa, <<"copy", "elastic">>)
FixtureVerify ==
    <<<<"target", "elastic">>, <<"held", "reader">>, <<"forward", "">>,
      <<"login", "reader">>, <<"count", "">>>>
FixtureRetire(qa) ==
    <<<<"drop index", "">>>> \o Withdrawn("reader")
        \o <<<<"close", "">>, <<"drop secret", "reader">>>>
        \o Secure(qa, <<"drop ca", "elastic">>)
FixtureEventTarget == <<<<"target", "elastic">>, <<"target", "kafka">>>>
FixtureEventSetup ==
    <<<<"password", "writer">>>> \o Identity("writer")
        \o <<<<"publish", "writer">>, <<"copy", "kafka">>, <<"topic", "">>>>
FixtureEventVerify ==
    <<<<"topic", "ours">>, <<"held", "writer">>, <<"present", "kafka">>,
      <<"forward", "">>, <<"login", "writer">>>>
FixtureEventRetire ==
    Withdrawn("writer")
        \o <<<<"drop topic", "">>, <<"drop secret", "writer">>,
             <<"drop ca", "kafka">>>>

Profiles == {"reader", "event", "cutover", "fixture"}
Verbs(profile) ==
    CASE profile = "reader" -> {"ensure", "rotate", "verify"}
      [] profile = "event" -> {"setup", "verify", "retire"}
      [] profile = "cutover" -> {"inspect", "ensure", "verify", "migrate"}
      [] OTHER -> {"setup", "verify", "retire", "event-setup", "event-verify",
                   "event-retire"}

ReaderScript(verb, qa) ==
    ReaderTarget \o CASE verb = "ensure" -> ReaderEnsure(qa)
                      [] verb = "rotate" -> ReaderRotate(qa)
                      [] OTHER -> ReaderVerify(qa)
EventScript(verb) ==
    EventTarget \o CASE verb = "setup" -> EventSetup
                     [] verb = "verify" -> EventVerify
                     [] OTHER -> EventRetire
CutoverScript(verb, qa) ==
    IF verb = "migrate" THEN <<<<"target", "elastic">>>> \o CutoverMigrate(qa)
    ELSE CutoverTarget \o CASE verb = "inspect" -> <<<<"index", "known">>>>
                            [] verb = "ensure" -> CutoverEnsure(qa)
                            [] OTHER -> CutoverVerify
FixtureScript(verb, qa) ==
    CASE verb = "event-verify" -> FixtureEventTarget \o FixtureEventVerify
      [] verb = "event-setup" ->
            FixtureEventTarget \o <<<<"forward", "">>>> \o FixtureEventSetup
      [] verb = "event-retire" ->
            FixtureEventTarget \o <<<<"forward", "">>>> \o FixtureEventRetire
      [] verb = "verify" -> FixtureVerify
      [] verb = "setup" -> CutoverTarget \o FixtureSetup(qa)
      [] OTHER -> CutoverTarget \o FixtureRetire(qa)
Script(profile, verb, qa) ==
    CASE profile = "reader" -> ReaderScript(verb, qa)
      [] profile = "event" -> EventScript(verb)
      [] profile = "cutover" -> CutoverScript(verb, qa)
      [] OTHER -> FixtureScript(verb, qa)

-----------------------------------------------------------------------------
(* What a step requires of the world, and of the script so far.            *)
Owned(w, i) == w.role[i] # "foreign" /\ w.user[i] # Foreign
IsStored(w, i) == w.role[i] = "ours" /\ w.user[i] > 0
LogsIn(w, i, password) == w.role[i] = "ours" /\ password > 0
                          /\ w.user[i] = password

Trust(w, c) == w.ca[c] \in {None, w.issued[c]}

AcceptsObject(w, r, s) ==
    CASE s[1] = "target" -> w.target[s[2]]
      [] s[1] = "owned" -> Owned(w, s[2])
      [] s[1] = "readable" -> w.secret[s[2]] # Foreign
      [] s[1] = "held" -> w.secret[s[2]] # None
      [] s[1] = "paired" -> \/ w.secret[s[2]] # None
                            \/ w.role[s[2]] = "none" /\ w.user[s[2]] = None
      [] s[1] = "stored" -> IsStored(w, s[2])
      [] s[1] = "publish" -> w.secret[s[2]] # Foreign
      [] s[1] = "login" -> LogsIn(w, s[2], r.pass[s[2]])
      [] s[1] = "migrate" -> w.source[s[2]] # None
      [] OTHER -> TRUE
AcceptsTrust(w, r, s) ==
    CASE s[1] = "trust" -> Trust(w, s[2])
      [] s[1] = "trusted" -> w.ca[s[2]] = w.issued[s[2]]
      [] s[1] \in {"copy", "known"} -> w.ca[s[2]] # Foreign
      [] s[1] = "present" -> w.ca[s[2]] # None
      [] OTHER -> TRUE
AcceptsData(w, r, s) ==
    CASE s = <<"index", "present">> -> w.index = "ours"
      [] s = <<"index", "known">> -> w.index # "other"
      [] s = <<"index", "empty">> -> w.docs = 0
      [] s[1] = "count" -> w.index = "ours" /\ w.docs = Fixture
      [] s[1] = "unchanged" -> w.index = "ours" /\ w.docs = r.seen
      [] s = <<"topic", "ours">> -> w.topic = "ours"
      [] s = <<"topic", "known">> -> w.topic # "foreign"
      [] s = <<"topic", "">> -> w.topic # "foreign"
      [] OTHER -> TRUE
Accepts(w, r, s) ==
    AcceptsObject(w, r, s) /\ AcceptsTrust(w, r, s) /\ AcceptsData(w, r, s)

(* A password is used again where a Secret holds one.                      *)
MutantPassword(w, r, i) == r.next
Password(w, r, i) == IF w.secret[i] > 0 THEN w.secret[i] ELSE r.next

(* What a step changes outside the script.                                 *)
Effect(w, r, s) ==
    CASE s[1] = "role" -> [w EXCEPT !.role[s[2]] = "ours"]
      [] s[1] = "user" -> [w EXCEPT !.user[s[2]] = r.pass[s[2]]]
      [] s[1] = "publish" -> [w EXCEPT !.secret[s[2]] = r.pass[s[2]]]
      [] s[1] = "migrate" -> [w EXCEPT !.secret[s[2]] = w.source[s[2]]]
      [] s[1] = "migrate ca" -> [w EXCEPT !.ca[s[2]] = 1]
      [] s[1] \in {"trust", "copy"} -> [w EXCEPT !.ca[s[2]] = w.issued[s[2]]]
      [] s = <<"topic", "">> -> [w EXCEPT !.topic = "ours"]
      [] s[1] = "create" /\ w.index = "none" ->
            [w EXCEPT !.index = "ours", !.docs = 0]
      [] s[1] = "reset" -> [w EXCEPT !.docs = 0]
      [] s[1] = "bulk" -> [w EXCEPT !.docs = @ + Fixture]
      [] s[1] = "drop user" -> [w EXCEPT !.user[s[2]] = None]
      [] s[1] = "drop role" -> [w EXCEPT !.role[s[2]] = "none"]
      [] s[1] = "drop secret" -> [w EXCEPT !.secret[s[2]] = None]
      [] s[1] = "drop ca" -> [w EXCEPT !.ca[s[2]] = None]
      [] s[1] = "drop topic" -> [w EXCEPT !.topic = "none"]
      [] s[1] = "drop index" -> [w EXCEPT !.index = "none", !.docs = 0]
      [] s[1] = "forward" -> [w EXCEPT !.forward = TRUE]
      [] s[1] = "close" -> [w EXCEPT !.forward = FALSE]
      [] OTHER -> w

(* What the script remembers of it.                                        *)
Learns(w, r, s) ==
    CASE s[1] = "password" -> [r EXCEPT !.pass[s[2]] = Password(w, r, s[2]),
                                        !.next = @ + 1]
      [] s[1] = "fresh" -> [r EXCEPT !.previous = w.secret[s[2]],
                                     !.pass[s[2]] = r.next, !.next = @ + 1]
      [] s[1] = "held" -> [r EXCEPT !.pass[s[2]] = w.secret[s[2]]]
      [] s[1] = "guard" -> [r EXCEPT !.guarded = TRUE]
      [] s[1] = "create" -> [r EXCEPT !.seen = w.docs]
      [] OTHER -> r

-----------------------------------------------------------------------------
Running == run.phase # "idle"
Changes(s) == Effect(world, run, s) # world /\ s[1] \notin {"forward", "close"}

(* The script ends; the with-statement stops its port-forward.             *)
Ends(r, report) ==
    [r EXCEPT !.phase = "idle", !.report = report, !.todo = <<>>,
              !.pass = [i \in Id |-> None], !.previous = None, !.seen = 0,
              !.guarded = FALSE, !.touched = FALSE, !.renewed = FALSE]
Closed(w) == [w EXCEPT !.forward = FALSE]

(* __enter__ stops the kubectl it started when the forward does not become *)
(* ready; the policy-search scripts' version leaves it running.            *)
Stops(profile) == profile \in {"reader", "event"}
Abandoned(w) ==
    IF w.forward /\ Head(run.todo)[1] = "forward" /\ ~Stops(w.profile)
    THEN [Closed(w) EXCEPT !.leaked = TRUE] ELSE Closed(w)

(* An exception, Ctrl-C included, after which the world is w.  In a        *)
(* rotation that has come to its guard it starts the rollback, if there    *)
(* was a Secret before; in the rollback it is reported as such.            *)
Rolls(r) == r.phase = "running" /\ r.guarded /\ r.previous > 0
AfterFailure(r, report) ==
    IF Rolls(r) THEN [r EXCEPT !.phase = "undo", !.todo = ReaderRollback,
                               !.pass["reader"] = r.previous]
    ELSE Ends(r, IF r.phase = "undo" THEN "rollback failed" ELSE report)
Failing(w, r, report) ==
    /\ run' = AfterFailure(r, report)
    /\ world' = IF Rolls(r) THEN w ELSE Abandoned(w)

Begin(verb) ==
    /\ ~Running /\ run.operations < MaxOperations
    /\ run' = [run EXCEPT
          !.verb = verb, !.todo = Script(world.profile, verb, world.qa),
          !.phase = "running", !.report = "none", !.operations = @ + 1]
    /\ UNCHANGED world

Step ==
    LET s == Head(run.todo)
        w == Effect(world, run, s)
        r == [Learns(world, run, s) EXCEPT !.todo = Tail(@),
                                           !.touched = @ \/ Changes(s)]
    IN /\ Running /\ Accepts(world, run, s)
       /\ IF r.todo # <<>> THEN run' = r /\ world' = w
          ELSE /\ run' = Ends(r, IF r.phase = "undo" THEN "restored"
                                 ELSE "passed")
               /\ world' = Closed(w)

Refuse ==
    /\ Running /\ ~Accepts(world, run, Head(run.todo))
    /\ Failing(world, run, "refused")

Trouble == run.faults + run.kills < MaxTroubles

(* A call fails, or Ctrl-C cuts it short, with or without its effect.      *)
Fail ==
    LET s == Head(run.todo)
    IN /\ Running /\ Trouble
       /\ Accepts(world, run, s)
       /\ \E w \in {world, Effect(world, run, s)} :
             Failing(w, [run EXCEPT !.faults = @ + 1], "failed")

Kill ==
    /\ Running /\ Trouble
    /\ run' = [Ends(run, "killed") EXCEPT !.kills = @ + 1]
    /\ world' = [Closed(world) EXCEPT !.leaked = @ \/ world.forward]

(* The workload's worker projects an event, if its Secrets let it.         *)
WorkerReady(w) == /\ w.profile # "reader" /\ w.index = "ours"
                  /\ LogsIn(w, "writer", w.secret["writer"])
                  /\ w.ca["kafka"] = w.issued["kafka"]
                  /\ w.profile = "cutover" \/ w.topic = "ours"
Write ==
    /\ WorkerReady(world) /\ world.docs < MaxDocuments
    /\ world' = [world EXCEPT !.docs = @ + 1]
    /\ UNCHANGED run

(* ECK or Strimzi renews the CA it publishes.                              *)
Renew(c) ==
    /\ run.renewals < MaxRenewals
    /\ world' = [world EXCEPT !.issued[c] = @ + 1]
    /\ run' = [run EXCEPT !.renewals = @ + 1, !.renewed = Running]

-----------------------------------------------------------------------------
(* At first nothing is there but what another owner or an earlier release  *)
(* left: of the cutover its obsolete Secrets with the passwords in use.    *)
Alien == {"nothing", "target", "index", "identity", "secret", "ca", "topic"}
World(profile, qa, alien, earlier) ==
    [profile |-> profile, qa |-> qa,
     target |-> [c \in Ca |-> alien # "target" \/ c = "elastic"],
     index |-> IF alien = "index" THEN "other"
               ELSE IF profile = "reader" \/ earlier THEN "ours" ELSE "none",
     docs |-> 0,
     role |-> [i \in Id |-> IF alien = "identity" THEN "foreign"
                            ELSE IF earlier THEN "ours" ELSE "none"],
     user |-> [i \in Id |-> IF alien = "identity" THEN Foreign
                            ELSE IF earlier THEN 1 ELSE None],
     secret |-> [i \in Id |-> IF alien = "secret" THEN Foreign ELSE None],
     source |-> [i \in Id |-> IF earlier THEN 1 ELSE None],
     ca |-> [c \in Ca |-> IF alien = "ca" THEN Foreign ELSE None],
     issued |-> [c \in Ca |-> 1],
     topic |-> IF alien = "topic" THEN "foreign" ELSE "none",
     forward |-> FALSE, leaked |-> FALSE]

Init ==
    /\ \E profile \in Profiles, qa \in BOOLEAN, alien \in Alien,
          earlier \in BOOLEAN :
          /\ earlier => profile = "cutover" /\ alien = "nothing"
          /\ alien = "target" => profile \in {"event", "fixture"}
          /\ alien \in {"topic"} => profile \in {"event", "fixture"}
          /\ world = World(profile, qa, alien, earlier)
    /\ run = [verb |-> "none", todo |-> <<>>, phase |-> "idle",
              report |-> "none", pass |-> [i \in Id |-> None],
              previous |-> None, guarded |-> FALSE, seen |-> 0,
              touched |-> FALSE, renewed |-> FALSE, next |-> 2,
              operations |-> 0, faults |-> 0, kills |-> 0, renewals |-> 0]

Next ==
    \/ \E verb \in Verbs(world.profile) : Begin(verb)
    \/ Step \/ Refuse \/ Fail \/ Kill
    \/ Write
    \/ \E c \in Ca : Renew(c)

Spec == Init /\ [][Next]_vars

-----------------------------------------------------------------------------
Reports(report) == Running /\ run'.phase = "idle" /\ run'.report = report

(* Every variable keeps its type.                                          *)
TypeOK ==
    /\ world.profile \in Profiles
    /\ world.index \in {"none", "ours", "other"}
    /\ world.docs \in 0 .. MaxDocuments + Fixture
    /\ world.role \in [Id -> {"none", "ours", "foreign"}]
    /\ world.user \in [Id -> Foreign .. run.next]
    /\ world.secret \in [Id -> Foreign .. run.next]
    /\ world.ca \in [Ca -> Foreign .. MaxRenewals + 1]
    /\ world.topic \in {"none", "ours", "foreign"}
    /\ run.phase \in {"idle", "running", "undo"}
    /\ run.phase = "idle" <=> run.todo = <<>>
    /\ run.report \in {"none", "passed", "refused", "failed", "restored",
                       "rollback failed", "killed"}

Usable(w, i) == LogsIn(w, i, w.secret[i])

(* "passed" is said only of what the script was run for, whatever scripts  *)
(* failed, were killed or overlapped a CA renewal before: the workload's   *)
(* Secrets log in, its index and topic are there, its CAs are the issued   *)
(* ones unless renewed meanwhile; after a retirement nothing is left.  The *)
(* cutover promises its two Secrets only: its verification looks at no CA, *)
(* and takes an index that is not there; the fixtures promise no CA.       *)
Provided(w) ==
    CASE w.profile = "reader" ->
            /\ Usable(w, "reader") /\ w.index = "ours"
            /\ w.qa /\ ~run.renewed => w.ca["elastic"] = w.issued["elastic"]
      [] w.profile = "event" /\ run.verb # "retire" ->
            /\ Usable(w, "reader") /\ Usable(w, "writer")
            /\ w.index = "ours" /\ w.topic = "ours"
            /\ ~run.renewed => w.ca["kafka"] = w.issued["kafka"]
      [] w.profile = "event" /\ run.verb = "retire" ->
            /\ \A i \in Id : w.user[i] = None /\ w.secret[i] = None
            /\ w.topic = "none" /\ w.index = "none"
      [] w.profile = "cutover" /\ run.verb \in {"ensure", "verify"} ->
            Usable(w, "reader") /\ Usable(w, "writer")
      [] w.profile = "fixture" /\ run.verb \in {"setup", "verify"} ->
            Usable(w, "reader") /\ w.index = "ours"
      [] w.profile = "fixture" /\ run.verb \in {"event-setup", "event-verify"} ->
            Usable(w, "writer") /\ w.topic = "ours"
      [] OTHER -> TRUE
PassedMeansProvided == Reports("passed") => Provided(world')

(* A rotation that fails at the Secret or at its checks leaves the Secret  *)
(* it found, and that Secret logs in, unless it says the rollback failed.  *)
RestoredMeansRestored ==
    Reports("restored") =>
        Usable(world', "reader") /\ world'.secret["reader"] = run.previous

(* Running a setup or an ensure again, however often it fails half way,    *)
(* takes no login away from a workload that has one, not for one step.     *)
RerunKeepsLogins ==
    run.verb \in {"ensure", "setup", "event-setup"} =>
        \A i \in Id : Usable(world, i) => Usable(world', i)

(* The script would pass if nothing failed.                                *)
Passes(w, verb) ==
    FoldLeft(LAMBDA c, s :
                 [w |-> Effect(c.w, c.r, s), r |-> Learns(c.w, c.r, s),
                  ok |-> c.ok /\ Accepts(c.w, c.r, s)],
             [w |-> w, r |-> run, ok |-> TRUE],
             Script(w.profile, verb, w.qa)).ok

Unobstructed(w) ==
    /\ \A c \in Ca : w.target[c] /\ w.ca[c] # Foreign
    /\ \A i \in Id : w.user[i] # Foreign /\ w.secret[i] # Foreign
    /\ w.index # "other" /\ w.topic # "foreign"

(* Wherever failures and kills left the state, a script goes on from it:   *)
(* the reader's ensure if its Secret is there and its rotation if not (but *)
(* neither once ECK has renewed the CA that its Secret copies), the setup  *)
(* and the retirement of the events and fixtures, and the cutover's ensure *)
(* as long as its index is empty.                                          *)
WayForward ==
    ~Running /\ Unobstructed(world) =>
        CASE world.profile = "reader" ->
                Trust(world, "elastic") \/ ~world.qa =>
                    Passes(world, IF world.secret["reader"] > 0
                                  THEN "ensure" ELSE "rotate")
          [] world.profile = "cutover" ->
                world.docs = 0 => Passes(world, "ensure")
          [] world.profile = "event" ->
                Passes(world, "setup") /\ Passes(world, "retire")
          [] OTHER -> \A verb \in {"setup", "retire", "event-setup",
                                    "event-retire"} : Passes(world, verb)

(* What is refused is refused before anything changed: of the reader all   *)
(* but a CA renewed meanwhile, of the cutover whatever its index is, of    *)
(* the event retirement every object that another owner holds.             *)
RefusedBeforeEffects ==
    Reports("refused") =>
        CASE world.profile = "reader" -> ~run.touched \/ run.renewed
          [] world.profile = "cutover" ->
                Head(run.todo)[1] = "index" => ~run.touched
          [] world.profile = "event" -> run.verb = "retire" => ~run.touched
          [] OTHER -> TRUE

(* No script leaves its port-forward running; of those of the dashboard,   *)
(* only a kill does.                                                       *)
ForwardStopped ==
    /\ ~Running => ~world.forward
    /\ world.leaked => run.kills > 0 \/ world.profile \in {"cutover", "fixture"}
=============================================================================
