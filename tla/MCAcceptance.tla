---------------------------- MODULE MCAcceptance ----------------------------
(***************************************************************************)
(* The scripts that check the system in an environment of their own, one   *)
(* of them per behaviour: a telemetry acceptance, or a disposable          *)
(* deployment of a service.  Both implement OwnedEnvironment.              *)
(***************************************************************************)
EXTENDS ObservabilityAcceptance

CONSTANTS MaxPods,    \* bound: application Pods of a deployment
          MaxFaults,  \* bound: steps of a deployment that fail
          MaxKills    \* bound: deployments that are killed

VARIABLES tool,            \* the script that is looked at
          cluster, script  \* the deployment's cluster, and its script

mcVars == <<tool, cluster, script>>

Deployment == INSTANCE DisposableDeployment WITH
    world <- cluster, run <- script

AnyInit ==
    /\ Init
    /\ \/ tool = "telemetry" /\ cluster = <<>> /\ script = <<>>
       \/ /\ tool = "deployment" /\ Deployment!Init
          /\ run.profile = "phases"

Observes == tool = "telemetry" /\ Next /\ UNCHANGED mcVars
Deploys == tool = "deployment" /\ Deployment!Next /\ UNCHANGED <<tool, vars>>
AnyNext == Observes \/ Deploys

(* A script that can go on does, a namespace that is deleted goes away and *)
(* a reader of a log whose container is gone ends.                         *)
AnyGoesOn ==
    \/ tool = "telemetry" /\ GoesOn /\ UNCHANGED mcVars
    \/ tool = "deployment" /\ Deployment!GoesOn /\ UNCHANGED <<tool, vars>>
NamespaceGoes ==
    /\ tool = "deployment" /\ Deployment!RemoveNamespace
    /\ UNCHANGED <<tool, vars>>
ReaderEnds == tool = "telemetry" /\ FollowerEnds /\ UNCHANGED mcVars

AnySpec == AnyInit /\ [][AnyNext]_<<vars, mcVars>>
                   /\ WF_<<vars, mcVars>>(AnyGoesOn)
                   /\ WF_<<vars, mcVars>>(NamespaceGoes)
                   /\ WF_<<vars, mcVars>>(ReaderEnds)

-----------------------------------------------------------------------------
(* Type invariant of both scripts.                                         *)
AllTypeOK == TypeOK /\ (tool = "deployment" => Deployment!TypeOK)

(* disposable_deployment.py of policy-search: "restart ... passed" is said *)
(* of a Pod other than the one deleted, with the event worker, ready.      *)
SearchReplaced ==
    [][tool = "deployment" => Deployment!SearchReplaced]_mcVars

(* All three deployment scripts: the wait after a dependency loss is not   *)
(* satisfied by the endpoint from before the loss.                         *)
Recovered == [][tool = "deployment" => Deployment!Recovered]_mcVars

(* All scripts keep to an environment of their own: what they acquire they *)
(* acquire while they run, they end, when they say "passed" nothing of it  *)
(* is left, and when they say "failed" nothing that they had noted as      *)
(* theirs.                                                                 *)
AnyHeld == IF tool = "deployment" THEN Deployment!Held ELSE Held
AnyVerdict == IF tool = "deployment" THEN Deployment!Verdict ELSE Verdict
AnyMaking == IF tool = "deployment" THEN Deployment!Making ELSE FALSE
Kept == INSTANCE OwnedEnvironment WITH
    held <- AnyHeld, making <- AnyMaking, verdict <- AnyVerdict
KeepsItsEnvironment == Kept!Spec
=============================================================================
