-------------------------- MODULE MCAdministration --------------------------
(***************************************************************************)
(* The commands with which operators change the system, those of one part  *)
(* per behaviour: a service's deployment, the stores' identities, or the   *)
(* clusters.                                                               *)
(***************************************************************************)
EXTENDS ServiceDeployment

CONSTANTS MaxCommands,   \* bound: commands on the stores or the clusters
          MaxTroubles,   \* bound: their steps that fail, signals, kills
          MaxRenewals,   \* bound: CAs that are renewed
          MaxDocuments,  \* bound: documents in the index
          MaxValues,     \* bound: passwords given
          MaxChanges     \* bound: what others change between commands

VARIABLES tool,          \* the part that is looked at
          site, command  \* the stores or the clusters, and the command there

mcVars == <<tool, site, command>>

Stores == INSTANCE ElasticAdministration WITH
    MaxOperations <- MaxCommands, world <- site, run <- command
Clusters == INSTANCE ClusterAdministration WITH
    MaxOperations <- MaxCommands, world <- site, run <- command

Unlooked == /\ run.service = "product" /\ run.mode = "direct"
            /\ world.broken = {}
AnyInit ==
    /\ Init
    /\ \/ tool = "services" /\ site = <<>> /\ command = <<>>
       \/ tool = "stores" /\ Stores!Init /\ Unlooked
       \/ tool = "clusters" /\ Clusters!Init /\ Unlooked

DeploysServices == tool = "services" /\ Next /\ UNCHANGED mcVars
AdministersStores ==
    tool = "stores" /\ Stores!Next /\ UNCHANGED <<tool, world, run>>
AdministersClusters ==
    tool = "clusters" /\ Clusters!Next /\ UNCHANGED <<tool, world, run>>
AnyNext == DeploysServices \/ AdministersStores \/ AdministersClusters

AnySpec == AnyInit /\ [][AnyNext]_<<vars, mcVars>>

-----------------------------------------------------------------------------
(* Type invariant of the three parts.                                      *)
AllTypeOK == /\ TypeOK
             /\ tool = "stores" => Stores!TypeOK
             /\ tool = "clusters" => Clusters!TypeOK

(* The four *_administration.py scripts: "passed" is said only of what the *)
(* script was run for, whatever failed or was killed before (of the        *)
(* cutover: that its two Secrets log in).                                  *)
PassedMeansProvided ==
    [][tool = "stores" => Stores!PassedMeansProvided]_mcVars

(* reader_administration.py rotate: a failure leaves the Secret it found,  *)
(* and that Secret logs in, unless it says that the rollback failed.       *)
RestoredMeansRestored ==
    [][tool = "stores" => Stores!RestoredMeansRestored]_mcVars

(* ensure and setup: running one again takes no login away.                *)
RerunKeepsLogins == [][tool = "stores" => Stores!RerunKeepsLogins]_mcVars

(* Wherever failures and kills left the stores, a script goes on from it.  *)
WayForward == tool = "stores" => Stores!WayForward

(* A script that refuses has changed nothing, as far as it promises.       *)
RefusedBeforeEffects ==
    [][tool = "stores" => Stores!RefusedBeforeEffects]_mcVars

(* qa.py snapshot: machines that ran when it began run when it passes or   *)
(* fails without saying that a resume failed, or when a signal ends it and *)
(* its resuming succeeds.                                                  *)
Resumed == [][tool = "clusters" => Clusters!Resumed]_mcVars

(* qa.py restore: the machines that it and the last snapshot command did   *)
(* not miss come back to one quiet cut.                                    *)
RestoredTogether == [][tool = "clusters" => Clusters!RestoredTogether]_mcVars

(* cluster.py, zipkin and the services aggregate: passwords, Secrets,      *)
(* copies and images agree when the command passes.  qa.py pull: the       *)
(* kubeconfig from before a merge is kept.                                 *)
ClusterDone ==
    [][tool = "clusters" => /\ Clusters!ZipkinDone /\ Clusters!InStep
                            /\ Clusters!PreviousKept]_mcVars

(* What a command makes for itself (join tokens, root credentials, setup   *)
(* Pods, qualification Pods, forwards) is gone when it passes, and when it *)
(* fails or is interrupted without saying otherwise, unless its clean-up   *)
(* met an error that it does not tell.                                     *)
NothingLeft ==
    /\ [][/\ tool = "stores" => Stores!ForwardStopped'
          /\ tool = "clusters" => Clusters!ProtectedGone]_mcVars
    /\ ProbesGone
=============================================================================
