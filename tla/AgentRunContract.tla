-------------------------- MODULE AgentRunContract --------------------------
(***************************************************************************)
(* What the product promises about one Agent run, without checkpoints,     *)
(* locks, requests or claim rows: plans are proposed one revision at a     *)
(* time, each is decided once, an approved plan is written action by       *)
(* action, each action at most once, and the run ends with a status that   *)
(* is true of what was written.  ApprovalRecovery implements it.           *)
(***************************************************************************)
EXTENDS Naturals

CONSTANTS
    Revisions,       \* 0 .. MAX_PLAN_REVISIONS
    Fingerprints,    \* plan fingerprints
    ActionKeys,      \* keys an action may have
    ActionsOf,       \* ActionsOf[fp]: keys of the actions of plan fp
    NoPlan           \* the plan of a revision that was never proposed

VARIABLES
    status,          \* status of the run
    decision,        \* decision[v] on the plan of revision v
    plan,            \* plan[v]: its fingerprint
    written          \* written[id]: domain writes for <<revision, plan, key>>

vars == <<status, decision, plan, written>>

Init ==
    /\ status = "ABSENT"
    /\ decision = [v \in Revisions |-> "ABSENT"]
    /\ plan = [v \in Revisions |-> NoPlan]
    /\ written = [id \in Revisions \X Fingerprints \X ActionKeys |-> 0]

\* A plan may be proposed when the run starts, or when changes to the
\* previous revision were requested.
MayPropose(v) ==
    /\ decision[v] = "ABSENT"
    /\ \/ v = 0 /\ status = "ABSENT"
       \/ v > 0 /\ status = "RUNNING" /\ decision[v - 1] = "REQUEST_CHANGES"

Propose(v, fp) ==
    /\ MayPropose(v)
    /\ status' = "PENDING_APPROVAL"
    /\ decision' = [decision EXCEPT ![v] = "PENDING"]
    /\ plan' = [plan EXCEPT ![v] = fp]
    /\ UNCHANGED written

Decide(v, d) ==
    /\ status = "PENDING_APPROVAL"
    /\ decision[v] = "PENDING"
    /\ status' = "RUNNING"
    /\ decision' = [decision EXCEPT ![v] = d]
    /\ UNCHANGED <<plan, written>>

Write(v, key) ==
    /\ status = "RUNNING"
    /\ decision[v] = "APPROVED"
    /\ key \in ActionsOf[plan[v]]
    /\ written[<<v, plan[v], key>>] = 0
    /\ written' = [written EXCEPT ![<<v, plan[v], key>>] = 1]
    /\ UNCHANGED <<status, decision, plan>>

Approved(v) == decision[v] = "APPROVED"

\* The outcomes that are true of what was decided and written.
Truthful(outcome) ==
    \/ /\ outcome = "SUCCEEDED"
       /\ \E v \in Revisions :
             /\ Approved(v)
             /\ \A key \in ActionsOf[plan[v]] : written[<<v, plan[v], key>>] = 1
    \/ /\ outcome = "PARTIAL_FAILURE"
       /\ \E v \in Revisions, key \in ActionKeys :
             Approved(v) /\ written[<<v, plan[v], key>>] = 1
    \/ /\ outcome = "REJECTED"
       /\ \E v \in Revisions : decision[v] \in {"REJECTED", "REQUEST_CHANGES"}
       /\ \A v \in Revisions : ~Approved(v)
    \/ outcome = "FAILED"

Finish(outcome) ==
    /\ status \in {"ABSENT", "RUNNING"}
    /\ Truthful(outcome)
    /\ status' = outcome
    /\ UNCHANGED <<decision, plan, written>>

Next ==
    \/ \E v \in Revisions, fp \in Fingerprints : Propose(v, fp)
    \/ \E v \in Revisions, d \in {"APPROVED", "REJECTED", "REQUEST_CHANGES"} :
          Decide(v, d)
    \/ \E v \in Revisions, key \in ActionKeys : Write(v, key)
    \/ \E outcome \in {"SUCCEEDED", "REJECTED", "PARTIAL_FAILURE", "FAILED"} :
          Finish(outcome)

Spec == Init /\ [][Next]_vars

=============================================================================
