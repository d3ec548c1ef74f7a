-------------------------- MODULE OwnedEnvironment --------------------------
(***************************************************************************)
(* What a script promises that runs its checks in an environment of its    *)
(* own (a namespace, a container image): it acquires the environment while *)
(* it runs, never afterwards; it ends; and when it says "passed" nothing   *)
(* of it is left, when it says "failed" nothing that it had noted as its   *)
(* own.  A failed script may leave one kind of thing without a word: what  *)
(* it was making when it failed, and had not noted yet.  A script that     *)
(* could not clean up says so; only one that a signal ended says nothing.  *)
(***************************************************************************)
VARIABLES held,    \* something that the script knows it made exists
          making,  \* something that it made exists and is not noted
          verdict  \* "idle" before a script, "none" while it runs

vars == <<held, making, verdict>>

Init == held = FALSE /\ making = FALSE /\ verdict \in {"idle", "none"}

(* What an earlier script left behind has other names.                     *)
Begin ==
    /\ verdict # "none" /\ verdict' = "none"
    /\ held' = FALSE /\ making' = FALSE
(* While it runs it makes things, notes them as its own and removes them.  *)
Work ==
    /\ verdict = "none" /\ UNCHANGED verdict
    /\ held' \in BOOLEAN /\ making' \in BOOLEAN
(* What is left may still go, but nothing comes any more.                  *)
Release ==
    /\ held' \in {held, FALSE} /\ making' \in {making, FALSE}
    /\ UNCHANGED verdict
Finish ==
    /\ verdict = "none" /\ held' = FALSE
    /\ \/ verdict' = "passed" /\ making' = FALSE
       \/ verdict' = "failed" /\ making' \in BOOLEAN
LeaveOver ==
    /\ verdict = "none" /\ verdict' \in {"left over", "killed"}
    /\ held' \in {held, FALSE} /\ making' \in {making, FALSE}

Next == Begin \/ Work \/ Release \/ Finish \/ LeaveOver

Safety == Init /\ [][Next]_vars
Spec == Safety /\ WF_vars(Finish \/ LeaveOver)
=============================================================================
