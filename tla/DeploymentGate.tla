---------------------------- MODULE DeploymentGate ----------------------------
(***************************************************************************)
(* What the approval service promises to the people who guard an           *)
(* environment.  A deployment (a workflow run asking for an environment)   *)
(* waits at the gate until a verdict on it exists; it is let through only  *)
(* on a verdict that approves that very run and environment, and turned    *)
(* away only on one that does not.  How verdicts travel from Teleport to   *)
(* GitHub is of no concern here.                                           *)
(***************************************************************************)
CONSTANTS Deployment, Verdict

VARIABLES
    gate,      \* gate[d]: where deployment d stands in GitHub
    verdicts   \* the verdicts given so far: pairs <<deployment, verdict>>

vars == <<gate, verdicts>>

GateState == {"none", "waiting", "approved", "rejected", "gone"}

Init ==
    /\ gate = [d \in Deployment |-> "none"]
    /\ verdicts = {}

(* A job of the run asks for the environment (again). *)
Arrive(d) ==
    /\ gate[d] # "waiting"
    /\ gate' = [gate EXCEPT ![d] = "waiting"]
    /\ UNCHANGED verdicts

(* The run is cancelled or fails, or somebody decides in GitHub itself. *)
Leave(d) ==
    /\ gate[d] = "waiting"
    /\ gate' = [gate EXCEPT ![d] = "gone"]
    /\ UNCHANGED verdicts

GiveVerdict(d, v) ==
    /\ verdicts' = verdicts \cup {<<d, v>>}
    /\ UNCHANGED gate

Approve(d) ==
    /\ gate[d] = "waiting"
    /\ <<d, "APPROVED">> \in verdicts
    /\ gate' = [gate EXCEPT ![d] = "approved"]
    /\ UNCHANGED verdicts

Reject(d) ==
    /\ gate[d] = "waiting"
    /\ \E v \in Verdict \ {"APPROVED"} : <<d, v>> \in verdicts
    /\ gate' = [gate EXCEPT ![d] = "rejected"]
    /\ UNCHANGED verdicts

Next ==
    \E d \in Deployment :
        \/ Arrive(d) \/ Leave(d) \/ Approve(d) \/ Reject(d)
        \/ \E v \in Verdict : GiveVerdict(d, v)

Spec == Init /\ [][Next]_vars

=============================================================================
