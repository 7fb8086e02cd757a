----------------------------- MODULE AgentGraph -----------------------------
(***************************************************************************)
(* The eight-node Agent workflow (app/agent/graph.py) as operators on one  *)
(* graph state: what each node computes, where the graph goes next, and    *)
(* how a durable snapshot is classified.  The module has no variables;     *)
(* ApprovalRecovery applies these operators to a durable checkpoint.       *)
(*                                                                         *)
(* Data is abstracted: a plan proposal is a member of Proposals, its       *)
(* SHA-256 fingerprint is Digest[p], and Plan[p] is its action sequence.   *)
(* A node's external result (model provider, tools, validators) is a       *)
(* parameter that the caller chooses.                                      *)
(***************************************************************************)
EXTENDS Integers, Sequences, FiniteSets

CONSTANTS
    Proposals,           \* plan proposals the model provider may return
    Digest,              \* Digest[p]: fingerprint of proposal p
    Plan,                \* Plan[p]: actions of p, [action_key, tool_name]
    MAX_PLAN_REVISIONS,  \* agent/state.py: 2
    None                 \* an absent proposal, fingerprint or revision

ActionKeys == {"k1", "k2", "k3"}
Tools == {"create_task", "update_task", "batch_create_tasks", "delete_task"}
Actions == [action_key : ActionKeys, tool_name : Tools]
MAX_PLAN_ACTIONS == 3

Fingerprints == {Digest[p] : p \in Proposals}

ASSUME RevisionAssumption == MAX_PLAN_REVISIONS \in Nat

\* AgentPlanProposal: at most three actions, with distinct keys.
ASSUME PlanAssumption ==
    /\ Plan \in [Proposals -> Seq(Actions)]
    /\ \A p \in Proposals :
          /\ Len(Plan[p]) <= MAX_PLAN_ACTIONS
          /\ \A i, j \in 1..Len(Plan[p]) :
                Plan[p][i].action_key = Plan[p][j].action_key => i = j

\* SHA-256 over canonical JSON does not collide on different proposals.
ASSUME DigestAssumption ==
    \A p, q \in Proposals : Digest[p] = Digest[q] => p = q

ASSUME NoneAssumption ==
    /\ None \notin Proposals
    /\ None \notin Fingerprints
    /\ None \notin 0..MAX_PLAN_REVISIONS

Revisions == 0..MAX_PLAN_REVISIONS

Nodes == {"analyze_goal", "load_context", "generate_plan", "validate_plan",
          "request_approval", "execute_tasks", "verify_result", "summarize"}

Decisions == {"APPROVED", "REJECTED", "REQUEST_CHANGES"}
TerminalStatuses == {"SUCCEEDED", "REJECTED", "PARTIAL_FAILURE", "FAILED"}
Outcomes == {"SUCCEEDED", "FAILED"}

Validations ==
    [status : {"NONE", "VALID", "INVALID"},
     revision : Revisions,
     proposal_fingerprint : Fingerprints \cup {None}]

Records == [action_key : ActionKeys, tool_name : Tools, outcome : Outcomes]

Verifications ==
    [status : {"NONE", "VERIFIED", "FAILED", "REJECTED", "NO_ACTION"},
     checked_action_count : 0..MAX_PLAN_ACTIONS,
     error_code : {"NONE", "AGENT_RESULT_INVALID", "AGENT_EXECUTION_FAILED",
                   "AGENT_WORKFLOW_FAILED"}]

(***************************************************************************)
(* AgentGraphState, together with the two fields of the LangGraph snapshot *)
(* that the code reads: the node to run next ("END" after summarize) and   *)
(* whether the approval interrupt is pending.                              *)
(***************************************************************************)
AgentGraphState ==
    [next : Nodes \cup {"END"},
     interrupt : BOOLEAN,
     analysis : BOOLEAN,
     context : BOOLEAN,
     proposal : Proposals \cup {None},
     validation : Validations,
     approval_decision : Decisions \cup {"NONE"},
     approval_revision : Revisions \cup {None},
     approval_proposal_fingerprint : Fingerprints \cup {None},
     revision_count : Revisions,
     execution_records : Seq(Records),
     verification : Verifications,
     terminal_status : TerminalStatuses \cup {"NONE"},
     workflow_error : BOOLEAN]

NoValidation ==
    [status |-> "NONE", revision |-> 0, proposal_fingerprint |-> None]
NoVerification ==
    [status |-> "NONE", checked_action_count |-> 0, error_code |-> "NONE"]

\* The state that AgentGraphInput creates: only the goal is known.
InitialGraphState ==
    [next |-> "analyze_goal",
     interrupt |-> FALSE,
     analysis |-> FALSE,
     context |-> FALSE,
     proposal |-> None,
     validation |-> NoValidation,
     approval_decision |-> "NONE",
     approval_revision |-> None,
     approval_proposal_fingerprint |-> None,
     revision_count |-> 0,
     execution_records |-> << >>,
     verification |-> NoVerification,
     terminal_status |-> "NONE",
     workflow_error |-> FALSE]

-----------------------------------------------------------------------------
(***************************************************************************)
(* Nodes.  A node that raises becomes a state with workflow_error set.     *)
(***************************************************************************)
Failed(s) == [s EXCEPT !.workflow_error = TRUE]

analysis_node(s, ok) ==
    IF ok THEN [s EXCEPT !.analysis = TRUE] ELSE Failed(s)

context_node(s, ok) ==
    IF ok /\ s.analysis THEN [s EXCEPT !.context = TRUE] ELSE Failed(s)

\* result is the accepted proposal, or None when every attempt failed.
planning_node(s, result) ==
    IF s.analysis /\ s.context /\ result # None
    THEN [s EXCEPT !.proposal = result]
    ELSE Failed(s)

\* verdict: the validators accept, reject, or raise.
validation_node(s, verdict) ==
    IF verdict = "ERROR"
    THEN Failed(s)
    ELSE [s EXCEPT !.validation =
            IF verdict = "VALID" /\ s.analysis /\ s.context /\ s.proposal # None
            THEN [status |-> "VALID",
                  revision |-> s.revision_count,
                  proposal_fingerprint |-> Digest[s.proposal]]
            ELSE [status |-> "INVALID",
                  revision |-> s.revision_count,
                  proposal_fingerprint |-> None]]

\* The current proposal is the one the validators accepted.
HasCurrentValidation(s) ==
    /\ s.proposal # None
    /\ s.validation.status = "VALID"
    /\ s.validation.revision = s.revision_count
    /\ s.validation.proposal_fingerprint = Digest[s.proposal]

\* ... and the one the recorded approval decision is about.
HasCurrentPlanBinding(s) ==
    /\ HasCurrentValidation(s)
    /\ s.approval_revision = s.revision_count
    /\ s.approval_proposal_fingerprint = Digest[s.proposal]

IsCurrentlyAuthorized(s) ==
    /\ HasCurrentPlanBinding(s)
    /\ s.approval_decision = "APPROVED"

\* Mutant: one revision too many.
RevisionLimitOffByOne(s) == s.revision_count > MAX_PLAN_REVISIONS

RevisionLimitReached(s) == s.revision_count >= MAX_PLAN_REVISIONS

\* Mutant: a request for changes at the revision limit passes as approval.
LimitMeansApproved(s, decision) ==
    IF decision = "REQUEST_CHANGES" /\ ~RevisionLimitReached(s)
    THEN [s EXCEPT !.interrupt = FALSE,
                   !.approval_decision = "REQUEST_CHANGES",
                   !.approval_revision = None,
                   !.approval_proposal_fingerprint = None,
                   !.revision_count = s.revision_count + 1,
                   !.proposal = None,
                   !.validation = NoValidation]
    ELSE [s EXCEPT !.interrupt = FALSE,
                   !.approval_decision =
                       IF decision = "REJECTED" THEN "REJECTED" ELSE "APPROVED",
                   !.approval_revision = s.revision_count,
                   !.approval_proposal_fingerprint = Digest[s.proposal],
                   !.terminal_status =
                       IF decision = "REJECTED" THEN "REJECTED"
                                                ELSE s.terminal_status]

ApplyApprovalResponse(s, decision) ==
    IF decision = "REQUEST_CHANGES" /\ ~RevisionLimitReached(s)
    THEN [s EXCEPT !.interrupt = FALSE,
                   !.approval_decision = "REQUEST_CHANGES",
                   !.approval_revision = None,
                   !.approval_proposal_fingerprint = None,
                   !.revision_count = s.revision_count + 1,
                   !.proposal = None,
                   !.validation = NoValidation]
    ELSE [s EXCEPT !.interrupt = FALSE,
                   !.approval_decision =
                       IF decision = "APPROVED" THEN "APPROVED" ELSE "REJECTED",
                   !.approval_revision = s.revision_count,
                   !.approval_proposal_fingerprint = Digest[s.proposal],
                   !.terminal_status =
                       IF decision = "APPROVED" THEN s.terminal_status
                                                ELSE "REJECTED"]

\* previewable: the approval preview of the proposal fits its byte limit.
CanRequestApproval(s, previewable) == HasCurrentValidation(s) /\ previewable

execution_node(s, records) == [s EXCEPT !.execution_records = records]

-----------------------------------------------------------------------------
(***************************************************************************)
(* verify_result and summarize.                                            *)
(***************************************************************************)
Verdict(status, count, code, terminal) ==
    [verification |-> [status |-> status, checked_action_count |-> count,
                       error_code |-> code],
     terminal_status |-> terminal]

Invalid(count) == Verdict("FAILED", count, "AGENT_RESULT_INVALID", "FAILED")

\* The records are those of a prefix of the plan, in plan order.
RecordsFollowPlan(records, actions) ==
    /\ Len(records) <= Len(actions)
    /\ \A i \in 1..Len(records) :
          /\ records[i].action_key = actions[i].action_key
          /\ records[i].tool_name = actions[i].tool_name

FailedIndexes(records) ==
    {i \in 1..Len(records) : records[i].outcome = "FAILED"}

VerifyRecords(records, actions) ==
    LET n == Len(records)
        failed == FailedIndexes(records)
    IN  IF \/ ~RecordsFollowPlan(records, actions)
           \/ ~(failed \subseteq {n})
           \/ failed = {} /\ n # Len(actions)
        THEN Invalid(n)
        ELSE IF failed # {}
        THEN Verdict("FAILED", n, "AGENT_EXECUTION_FAILED",
                     IF n > 1 THEN "PARTIAL_FAILURE" ELSE "FAILED")
        ELSE Verdict(IF n = 0 THEN "NO_ACTION" ELSE "VERIFIED", n,
                     "NONE", "SUCCEEDED")

verify_result(s) ==
    IF s.workflow_error
    THEN Verdict("FAILED", Len(s.execution_records),
                 "AGENT_WORKFLOW_FAILED", "FAILED")
    ELSE IF ~HasCurrentPlanBinding(s)
    THEN Invalid(0)
    ELSE IF s.approval_decision = "REJECTED"
    THEN IF s.execution_records # << >>
         THEN Invalid(Len(s.execution_records))
         ELSE Verdict("REJECTED", 0, "NONE", "REJECTED")
    ELSE IF s.approval_decision # "APPROVED"
    THEN Invalid(0)
    ELSE VerifyRecords(s.execution_records, Plan[s.proposal])

verification_node(s) ==
    [s EXCEPT !.verification = verify_result(s).verification,
              !.terminal_status = verify_result(s).terminal_status]

\* summarize refuses a state that was not verified as it stands.
CanSummarize(s) ==
    /\ s.verification = verify_result(s).verification
    /\ s.terminal_status = verify_result(s).terminal_status

-----------------------------------------------------------------------------
(***************************************************************************)
(* Routing, and the checkpoint that a completed node leaves behind.        *)
(***************************************************************************)
ContinueOrVerify(s, node) == IF s.workflow_error THEN "verify_result" ELSE node

route_validation(s) ==
    ContinueOrVerify(s, IF s.validation.status = "VALID"
                        THEN "request_approval" ELSE "verify_result")

route_approval(s) ==
    ContinueOrVerify(s, IF s.approval_decision = "APPROVED"
                        THEN "execute_tasks"
                        ELSE IF s.approval_decision = "REQUEST_CHANGES"
                        THEN "generate_plan" ELSE "verify_result")

Route(node, s) ==
    CASE node = "analyze_goal"     -> ContinueOrVerify(s, "load_context")
      [] node = "load_context"     -> ContinueOrVerify(s, "generate_plan")
      [] node = "generate_plan"    -> ContinueOrVerify(s, "validate_plan")
      [] node = "validate_plan"    -> route_validation(s)
      [] node = "request_approval" -> route_approval(s)
      [] node = "execute_tasks"    -> "verify_result"
      [] node = "verify_result"    -> "summarize"
      [] node = "summarize"        -> "END"

\* The checkpoint after the current node turned the state into t.
Complete(s, t) == [t EXCEPT !.next = Route(s.next, t)]

-----------------------------------------------------------------------------
(***************************************************************************)
(* AgentWorkflow._inspect_snapshot.                                        *)
(***************************************************************************)
CheckpointStatuses ==
    {"PENDING_INTERRUPT", "CONTINUABLE", "TERMINAL", "INCONSISTENT"}

\* Mutant: a terminal status is believed before the graph has ended.
TrustsTerminalStatus(s) ==
    IF s.interrupt THEN "PENDING_INTERRUPT"
    ELSE IF s.terminal_status # "NONE" THEN "TERMINAL"
    ELSE IF s.next = "END" THEN "INCONSISTENT" ELSE "CONTINUABLE"

InspectSnapshot(s) ==
    IF s.interrupt
    THEN IF s.next = "request_approval" THEN "PENDING_INTERRUPT"
                                        ELSE "INCONSISTENT"
    ELSE IF s.next = "END"
    THEN IF s.terminal_status # "NONE" /\ CanSummarize(s) THEN "TERMINAL"
                                                          ELSE "INCONSISTENT"
    ELSE IF s.terminal_status # "NONE" THEN "INCONSISTENT" ELSE "CONTINUABLE"

=============================================================================
