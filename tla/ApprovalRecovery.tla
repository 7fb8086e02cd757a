-------------------------- MODULE ApprovalRecovery --------------------------
(***************************************************************************)
(* One durable Agent run across its two stores: the product tables         *)
(* (agent_runs, agent_approvals, agent_tool_executions) and the LangGraph  *)
(* checkpoint.  Requests start the run, preview it and submit approvals;   *)
(* any of them may stop at any step, and a client may send the same or     *)
(* another submission again (services/agent_workflow.py).                  *)
(*                                                                         *)
(* Requests are the Workers of ToolExecution: a request inside the         *)
(* execute_tasks node is a caller of the coordinator.                      *)
(***************************************************************************)
EXTENDS ToolExecution

CONSTANTS
    Feedbacks,     \* feedback texts a client may send with REQUEST_CHANGES
    MaxStops       \* bound on requests that stop half-way

ASSUME StopsAssumption == MaxStops \in Nat
ASSUME FeedbackAssumption == None \notin Feedbacks
ASSUME RequestAssumption == None \notin Workers

VARIABLES
    run,           \* agent_runs.status, "ABSENT" before the start commits
    approvals,     \* agent_approvals, one row per revision
    checkpoint,    \* the last checkpoint of the run's thread
    lock,          \* holder of the run's advisory lock, or None
    req,           \* each request: place in its handler and its locals
    stops,         \* requests stopped so far
    acknowledged   \* history: submissions answered with a snapshot

vars == <<toolVars, run, approvals, checkpoint, lock, req, stops, acknowledged>>
productVars == <<run, approvals>>

RunStatuses == {"ABSENT", "RUNNING", "PENDING_APPROVAL"} \cup TerminalStatuses

ApprovalRows ==
    [decision : Decisions \cup {"ABSENT", "PENDING"},
     proposal_fingerprint : Fingerprints \cup {None},
     feedback : Feedbacks \cup {None}]
AbsentApproval ==
    [decision |-> "ABSENT", proposal_fingerprint |-> None, feedback |-> None]

\* AgentApprovalSubmission: feedback exactly with REQUEST_CHANGES.
Submissions ==
    {s \in [revision : Revisions, proposal_fingerprint : Fingerprints,
            decision : Decisions, feedback : Feedbacks \cup {None}] :
        (s.decision = "REQUEST_CHANGES") <=> (s.feedback # None)}

\* Places of submit_agent_approval, start_agent_run and
\* get_agent_approval_preview.
LockedPlaces == {"decide", "inspect", "resume", "advance", "persist", "preview"}
Places == {"idle", "wait_submit", "wait_preview", "starting", "start_persist"}
              \cup LockedPlaces

Requests ==
    [pc : Places,
     submission : Submissions \cup {None},
     records : Seq(Records)]
IdleRequest == [pc |-> "idle", submission |-> None, records |-> << >>]

TypeOK ==
    /\ ToolTypeOK
    /\ run \in RunStatuses
    /\ approvals \in [Revisions -> ApprovalRows]
    /\ checkpoint \in AgentGraphState
    /\ lock \in Workers \cup {None}
    /\ req \in [Workers -> Requests]
    /\ stops \in 0..MaxStops
    /\ acknowledged \in SUBSET Submissions

Init ==
    /\ ToolInit
    /\ run = "ABSENT"
    /\ approvals = [v \in Revisions |-> AbsentApproval]
    /\ checkpoint = InitialGraphState
    /\ lock = None
    /\ req = [r \in Workers |-> IdleRequest]
    /\ stops = 0
    /\ acknowledged = {}

-----------------------------------------------------------------------------
InPlace(r, place) == req[r].pc = place
Proceed(r, place) == req' = [req EXCEPT ![r].pc = place]

\* Mutant: the lock connection stays open.
FinishKeepsLock(r) ==
    /\ req' = [req EXCEPT ![r] = IdleRequest]
    /\ UNCHANGED lock

\* The handler ends: locals are gone, the lock connection is closed.
Finish(r) ==
    /\ req' = [req EXCEPT ![r] = IdleRequest]
    /\ lock' = IF lock = r THEN None ELSE lock

\* get_latest_owned_approval
IsLatest(v) ==
    /\ approvals[v].decision # "ABSENT"
    /\ \A u \in Revisions : u > v => approvals[u].decision = "ABSENT"

\* The interrupt of the checkpoint is the one for approval row v.
InterruptMatches(v) ==
    /\ checkpoint.revision_count = v
    /\ Digest[checkpoint.proposal] = approvals[v].proposal_fingerprint

-----------------------------------------------------------------------------
(***************************************************************************)
(* start_agent_run.  Thread and run rows stay uncommitted, hence invisible,*)
(* until the graph has reached the approval or its end.                    *)
(***************************************************************************)
StartRun(r) ==
    /\ InPlace(r, "idle")
    /\ run = "ABSENT"
    /\ \A q \in Workers : req[q].pc \notin {"starting", "start_persist"}
    /\ Proceed(r, "starting")
    /\ checkpoint' = InitialGraphState
    /\ UNCHANGED <<toolVars, productVars, lock, stops, acknowledged>>

-----------------------------------------------------------------------------
(***************************************************************************)
(* AgentWorkflow._advance: the graph runs node by node, each completed     *)
(* node leaving a checkpoint, until it interrupts or ends.                 *)
(***************************************************************************)
AtNode(r, node) ==
    /\ req[r].pc \in {"starting", "advance"}
    /\ checkpoint.next = node
    /\ ~checkpoint.interrupt

\* The node turned the graph state into t, and the checkpoint is saved.
Save(t) ==
    /\ checkpoint' = Complete(checkpoint, t)
    /\ UNCHANGED <<toolVars, productVars, lock, req, stops, acknowledged>>

AnalyzeGoal(r) ==
    /\ AtNode(r, "analyze_goal")
    /\ \E ok \in BOOLEAN : Save(analysis_node(checkpoint, ok))

LoadContext(r) ==
    /\ AtNode(r, "load_context")
    /\ \E ok \in BOOLEAN : Save(context_node(checkpoint, ok))

GeneratePlan(r) ==
    /\ AtNode(r, "generate_plan")
    /\ \E result \in Proposals \cup {None} :
          Save(planning_node(checkpoint, result))

ValidatePlan(r) ==
    /\ AtNode(r, "validate_plan")
    /\ \E verdict \in {"VALID", "INVALID", "ERROR"} :
          Save(validation_node(checkpoint, verdict))

\* interrupt_for_approval, first pass: the graph stops at the interrupt.
Interrupt(r) ==
    /\ AtNode(r, "request_approval")
    /\ CanRequestApproval(checkpoint, TRUE)
    /\ checkpoint' = [checkpoint EXCEPT !.interrupt = TRUE]
    /\ UNCHANGED <<toolVars, productVars, lock, req, stops, acknowledged>>

\* No validated proposal, or a preview that is too large or inconsistent.
InterruptFails(r) ==
    /\ AtNode(r, "request_approval")
    /\ Save(Failed(checkpoint))

\* execute_tasks: the actions one after the other, up to the first failure.
MoreToExecute(r) ==
    /\ Len(req[r].records) < Len(Plan[checkpoint.proposal])
    /\ FailedIndexes(req[r].records) = {}

CurrentAction(r) == Plan[checkpoint.proposal][Len(req[r].records) + 1]

BeginAction(r) ==
    /\ AtNode(r, "execute_tasks")
    /\ IsCurrentlyAuthorized(checkpoint)
    /\ MoreToExecute(r)
    /\ Call(r, <<checkpoint.revision_count, Digest[checkpoint.proposal],
                 CurrentAction(r).action_key>>)
    /\ UNCHANGED <<productVars, checkpoint, lock, req, stops, acknowledged>>

\* _require_persisted_approval
PersistedApproval(id) ==
    /\ approvals[id[1]].decision = "APPROVED"
    /\ approvals[id[1]].proposal_fingerprint = id[2]

ActionStep(r) ==
    /\ AtNode(r, "execute_tasks")
    /\ worker[r].id # None
    /\ ToolStep(r, PersistedApproval(worker[r].id))
    /\ UNCHANGED <<productVars, checkpoint, lock, req, stops, acknowledged>>

EndAction(r) ==
    /\ AtNode(r, "execute_tasks")
    /\ worker[r].pc \in {"returned", "raised"}
    /\ req' = [req EXCEPT ![r].records = Append(@,
          [action_key |-> CurrentAction(r).action_key,
           tool_name |-> CurrentAction(r).tool_name,
           outcome |-> IF At(r, "returned") THEN "SUCCEEDED" ELSE "FAILED"])]
    /\ worker' = [worker EXCEPT ![r] = IdleWorker]
    /\ UNCHANGED <<execution, committed, productVars, checkpoint, lock, stops,
                   acknowledged>>

ExecuteTasks(r) ==
    /\ AtNode(r, "execute_tasks")
    /\ At(r, "idle")
    /\ IsCurrentlyAuthorized(checkpoint) => ~MoreToExecute(r)
    /\ Save(IF IsCurrentlyAuthorized(checkpoint)
            THEN execution_node(checkpoint, req[r].records)
            ELSE Failed(checkpoint))

VerifyResult(r) ==
    /\ AtNode(r, "verify_result")
    /\ Save(verification_node(checkpoint))

\* summarize raises on a state that was not verified: the invocation aborts.
Summarize(r) ==
    /\ AtNode(r, "summarize")
    /\ CanSummarize(checkpoint)
    /\ Save(checkpoint)

\* The invocation is over: get_state, and a progress the handler can use.
GraphStopped == checkpoint.interrupt \/ checkpoint.next = "END"

Settle(r) ==
    /\ req[r].pc \in {"starting", "advance"}
    /\ GraphStopped
    /\ InspectSnapshot(checkpoint) \in {"PENDING_INTERRUPT", "TERMINAL"}
    /\ req' = [req EXCEPT
          ![r].pc = IF @ = "starting" THEN "start_persist" ELSE "persist",
          ![r].records = << >>]
    /\ UNCHANGED <<toolVars, productVars, checkpoint, lock, stops, acknowledged>>

-----------------------------------------------------------------------------
(***************************************************************************)
(* The product transaction that records progress: _persist_progress, and   *)
(* the end of start_agent_run.                                             *)
(***************************************************************************)
PendingApproval ==
    [decision |-> "PENDING",
     proposal_fingerprint |-> Digest[checkpoint.proposal],
     feedback |-> None]

\* Mutant: the approval row of the revision is not compared.
AlwaysRecordApproval == TRUE

\* No approval row yet for the checkpoint's revision, or the same one.
CanRecordApproval ==
    approvals[checkpoint.revision_count] \in {AbsentApproval, PendingApproval}

RecordProgress ==
    IF checkpoint.interrupt
    THEN /\ run' = "PENDING_APPROVAL"
         /\ approvals' = [approvals EXCEPT
                             ![checkpoint.revision_count] = PendingApproval]
    ELSE /\ run' = checkpoint.terminal_status
         /\ UNCHANGED approvals

CommitStart(r) ==
    /\ InPlace(r, "start_persist")
    /\ RecordProgress
    /\ Finish(r)
    /\ UNCHANGED <<toolVars, checkpoint, stops, acknowledged>>

PersistProgress(r) ==
    /\ InPlace(r, "persist")
    /\ IF checkpoint.interrupt /\ ~CanRecordApproval
       THEN UNCHANGED <<productVars, acknowledged>>
       ELSE /\ RecordProgress
            /\ acknowledged' = acknowledged \cup {req[r].submission}
    /\ Finish(r)
    /\ UNCHANGED <<toolVars, checkpoint, stops>>

-----------------------------------------------------------------------------
(***************************************************************************)
(* submit_agent_approval.                                                  *)
(***************************************************************************)
Submit(r, submission) ==
    /\ InPlace(r, "idle")
    /\ run # "ABSENT"
    /\ req' = [req EXCEPT ![r].pc = "wait_submit", ![r].submission = submission]
    /\ UNCHANGED <<toolVars, productVars, checkpoint, lock, stops, acknowledged>>

\* pg_advisory_xact_lock blocks until no one else holds the run's key.
AcquireLock(r) ==
    /\ req[r].pc \in {"wait_submit", "wait_preview"}
    /\ lock = None
    /\ lock' = r
    /\ Proceed(r, IF InPlace(r, "wait_submit") THEN "decide" ELSE "preview")
    /\ UNCHANGED <<toolVars, productVars, checkpoint, stops, acknowledged>>

\* Mutant: the run keeps its PENDING_APPROVAL status.
DecisionLeavesRun(r) ==
    LET s == req[r].submission
    IN  /\ InPlace(r, "decide")
        /\ approvals[s.revision].decision = "PENDING"
        /\ run = "PENDING_APPROVAL"
        /\ IsLatest(s.revision)
        /\ approvals[s.revision].proposal_fingerprint = s.proposal_fingerprint
        /\ approvals' = [approvals EXCEPT ![s.revision].decision = s.decision,
                                          ![s.revision].feedback = s.feedback]
        /\ Proceed(r, "inspect")
        /\ UNCHANGED <<toolVars, run, checkpoint, lock, stops, acknowledged>>

\* Mutant: the approval is not checked to be still undecided.
DecisionOverwrites(r) ==
    LET s == req[r].submission
    IN  /\ InPlace(r, "decide")
        /\ IsLatest(s.revision)
        /\ approvals[s.revision].proposal_fingerprint = s.proposal_fingerprint
        /\ approvals' = [approvals EXCEPT ![s.revision].decision = s.decision,
                                          ![s.revision].feedback = s.feedback]
        /\ run' = "RUNNING"
        /\ Proceed(r, "inspect")
        /\ UNCHANGED <<toolVars, checkpoint, lock, stops, acknowledged>>

\* The first decision on a pending approval, committed before any resume.
RecordDecision(r) ==
    LET s == req[r].submission
    IN  /\ InPlace(r, "decide")
        /\ approvals[s.revision].decision = "PENDING"
        /\ run = "PENDING_APPROVAL"
        /\ IsLatest(s.revision)
        /\ approvals[s.revision].proposal_fingerprint = s.proposal_fingerprint
        /\ approvals' = [approvals EXCEPT ![s.revision].decision = s.decision,
                                          ![s.revision].feedback = s.feedback]
        /\ run' = "RUNNING"
        /\ Proceed(r, "inspect")
        /\ UNCHANGED <<toolVars, checkpoint, lock, stops, acknowledged>>

\* Mutant: a decided approval is recognised by its fingerprint alone.
SamePlan(s) ==
    /\ approvals[s.revision].decision \in Decisions
    /\ approvals[s.revision].proposal_fingerprint = s.proposal_fingerprint

SameSubmission(s) ==
    /\ approvals[s.revision].decision = s.decision
    /\ approvals[s.revision].proposal_fingerprint = s.proposal_fingerprint
    /\ approvals[s.revision].feedback = s.feedback

\* The same submission again: go on from wherever the checkpoint is.
RecoverDecision(r) ==
    /\ InPlace(r, "decide")
    /\ SameSubmission(req[r].submission)
    /\ Proceed(r, "inspect")
    /\ UNCHANGED <<toolVars, productVars, checkpoint, lock, stops, acknowledged>>

\* AgentRunConflictError: anything else leaves no trace.
RefuseDecision(r) ==
    LET s == req[r].submission
    IN  /\ InPlace(r, "decide")
        /\ ~SameSubmission(s)
        /\ ~ /\ approvals[s.revision].decision = "PENDING"
             /\ run = "PENDING_APPROVAL"
             /\ IsLatest(s.revision)
             /\ approvals[s.revision].proposal_fingerprint
                   = s.proposal_fingerprint
        /\ Finish(r)
        /\ UNCHANGED <<toolVars, productVars, checkpoint, stops, acknowledged>>

\* Mutant: a checkpoint between two nodes is not continued.
NeverContinues(v) ==
    LET status == InspectSnapshot(checkpoint)
    IN  IF status = "TERMINAL" THEN "persist"
        ELSE IF status = "PENDING_INTERRUPT" /\ InterruptMatches(v)
        THEN IF run = "RUNNING" THEN "resume" ELSE "refuse"
        ELSE IF /\ status = "PENDING_INTERRUPT"
                /\ approvals[v].decision = "REQUEST_CHANGES"
                /\ checkpoint.revision_count = v + 1
        THEN "persist"
        ELSE "refuse"

\* What the checkpoint asks of a decided submission of revision v;
\* "refuse" is the fixed 503.
NextPlace(v) ==
    LET status == InspectSnapshot(checkpoint)
    IN  IF status = "TERMINAL" THEN "persist"
        ELSE IF status = "CONTINUABLE" /\ run = "RUNNING" THEN "advance"
        ELSE IF status = "PENDING_INTERRUPT" /\ InterruptMatches(v)
        THEN IF run = "RUNNING" THEN "resume" ELSE "refuse"
        ELSE IF /\ status = "PENDING_INTERRUPT"
                /\ approvals[v].decision = "REQUEST_CHANGES"
                /\ checkpoint.revision_count = v + 1
        THEN "persist"
        ELSE "refuse"

InspectDurable(r) ==
    /\ InPlace(r, "inspect")
    /\ IF NextPlace(req[r].submission.revision) = "refuse"
       THEN Finish(r)
       ELSE /\ Proceed(r, NextPlace(req[r].submission.revision))
            /\ UNCHANGED lock
    /\ UNCHANGED <<toolVars, productVars, checkpoint, stops, acknowledged>>

\* resume_durable: request_approval runs again with the stored decision.
Resume(r) ==
    /\ InPlace(r, "resume")
    /\ checkpoint' = Complete(checkpoint,
          ApplyApprovalResponse(checkpoint,
                approvals[req[r].submission.revision].decision))
    /\ Proceed(r, "advance")
    /\ UNCHANGED <<toolVars, productVars, lock, stops, acknowledged>>

-----------------------------------------------------------------------------
(***************************************************************************)
(* get_agent_approval_preview: reads under the lock, changes nothing.      *)
(***************************************************************************)
RequestPreview(r) ==
    /\ InPlace(r, "idle")
    /\ run # "ABSENT"
    /\ Proceed(r, "wait_preview")
    /\ UNCHANGED <<toolVars, productVars, checkpoint, lock, stops, acknowledged>>

AnswerPreview(r) ==
    /\ InPlace(r, "preview")
    /\ Finish(r)
    /\ UNCHANGED <<toolVars, productVars, checkpoint, stops, acknowledged>>

-----------------------------------------------------------------------------
(***************************************************************************)
(* A request stops: its process dies, or an exception leaves the handler   *)
(* after whatever was already committed.  Uncommitted work is rolled back, *)
(* the lock connection closes.                                             *)
(***************************************************************************)
Stop(r) ==
    /\ ~InPlace(r, "idle")
    /\ stops < MaxStops
    /\ stops' = stops + 1
    /\ Finish(r)
    /\ worker' = [worker EXCEPT ![r] = IdleWorker]
    /\ UNCHANGED <<execution, committed, productVars, checkpoint, acknowledged>>

GraphStep(r) ==
    \/ AnalyzeGoal(r) \/ LoadContext(r) \/ GeneratePlan(r) \/ ValidatePlan(r)
    \/ Interrupt(r) \/ InterruptFails(r)
    \/ BeginAction(r) \/ ActionStep(r) \/ EndAction(r) \/ ExecuteTasks(r)
    \/ VerifyResult(r) \/ Summarize(r)
    \/ Settle(r)

HandlerStep(r) ==
    \/ GraphStep(r)
    \/ CommitStart(r) \/ PersistProgress(r)
    \/ RecordDecision(r) \/ RecoverDecision(r) \/ RefuseDecision(r)
    \/ InspectDurable(r) \/ Resume(r)
    \/ AnswerPreview(r)

Next ==
    \E r \in Workers :
        \/ StartRun(r)
        \/ \E s \in Submissions : Submit(r, s)
        \/ RequestPreview(r)
        \/ AcquireLock(r)
        \/ HandlerStep(r)
        \/ Stop(r)

Spec == Init /\ [][Next]_vars

(***************************************************************************)
(* Fairness.  A handler that is running goes on; PostgreSQL grants an      *)
(* advisory lock in the order it was asked for, so a waiting request is    *)
(* not passed over for ever; and the client whose decision was recorded    *)
(* sends it again while the run is still RUNNING.                          *)
(***************************************************************************)
Retry ==
    \E r \in Workers, s \in Submissions :
        /\ run = "RUNNING"
        /\ IsLatest(s.revision)
        /\ SameSubmission(s)
        /\ Submit(r, s)

Fairness ==
    /\ \A r \in Workers : WF_vars(HandlerStep(r)) /\ SF_vars(AcquireLock(r))
    /\ SF_vars(Retry)

FairSpec == Spec /\ Fairness

-----------------------------------------------------------------------------
(***************************************************************************)
(* Properties.                                                             *)
(***************************************************************************)

\* However often requests stop, retry and overlap, an action of an approved
\* plan reaches the domain tables at most once (the claim row, the run lock
\* and the UNKNOWN status together).
AtMostOnce == \A id \in Identities : committed[id] <= 1

\* A domain write of any tool, high-impact or not, belongs to a revision and
\* fingerprint whose stored decision is APPROVED.
WritesAreApproved ==
    \A id \in Identities : committed[id] > 0 => PersistedApproval(id)

\* A run shown as PENDING_APPROVAL can be reviewed: its latest approval row
\* is undecided and is about the plan of the checkpoint's interrupt, so the
\* preview and the decision are about the same plan.
PendingMeansReviewable ==
    run = "PENDING_APPROVAL" =>
        \E v \in Revisions :
            /\ IsLatest(v)
            /\ approvals[v].decision = "PENDING"
            /\ checkpoint.interrupt
            /\ InterruptMatches(v)

\* A terminal run status is the one its finished checkpoint holds: the two
\* stores agree once the product transaction has committed.
TerminalMatchesCheckpoint ==
    run \in TerminalStatuses =>
        /\ ~checkpoint.interrupt
        /\ checkpoint.next = "END"
        /\ run = checkpoint.terminal_status

\* A submission that was answered with a snapshot is the stored decision of
\* its revision, and the run went where that decision sends it.
AcknowledgedDecisionsTakeEffect ==
    \A s \in acknowledged :
        /\ SameSubmission(s)
        /\ s.decision = "APPROVED" =>
              run \in {"SUCCEEDED", "PARTIAL_FAILURE", "FAILED"}
        /\ s.decision = "REJECTED" => run = "REJECTED"
        /\ s.decision = "REQUEST_CHANGES" =>
              IF s.revision < MAX_PLAN_REVISIONS
              THEN checkpoint.revision_count > s.revision
              ELSE run = "REJECTED"

\* Neither a retry, a late submission nor a recovery rewrites a recorded
\* decision or a terminal run status.
DecisionsAreFinal ==
    [][/\ \A v \in Revisions :
             approvals[v].decision \in Decisions => approvals'[v] = approvals[v]
       /\ run \in TerminalStatuses => run' = run]_vars

\* Every request is answered: no handler waits for the run lock for ever.
RequestsReturn ==
    \A r \in Workers : ~InPlace(r, "idle") ~> InPlace(r, "idle")

\* A decided run leaves RUNNING as long as its client retries.
DecidedRunSettles == run = "RUNNING" ~> run # "RUNNING"

\* No request is at work on a decided run, and its checkpoint was left
\* between the node that set the terminal status and summarize.
Stranded ==
    /\ run = "RUNNING"
    /\ lock = None
    /\ checkpoint.next \in {"verify_result", "summarize"}
    /\ checkpoint.terminal_status # "NONE"
    /\ stops > 0

\* A decided run leaves RUNNING as long as its client retries, unless a
\* request stopped between the two last nodes of the graph.
DecidedRunSettlesOrStrands ==
    run = "RUNNING" ~> (run # "RUNNING" \/ Stranded)

-----------------------------------------------------------------------------
(***************************************************************************)
(* Refinement: checkpoint, lock, requests and claim rows are details of    *)
(* the contract of AgentRunContract.                                       *)
(***************************************************************************)
PlanKeys(p) == {Plan[p][i].action_key : i \in 1..Len(Plan[p])}

Contract == INSTANCE AgentRunContract
    WITH status <- run,
         decision <- [v \in Revisions |-> approvals[v].decision],
         plan <- [v \in Revisions |-> approvals[v].proposal_fingerprint],
         written <- committed,
         ActionsOf <- [fp \in Fingerprints |-> PlanKeys(ProposalOf(fp))],
         NoPlan <- None

\* Every step of the two-store protocol is a step the contract allows or is
\* invisible to it: plans are proposed and decided in order, writes happen
\* once and only for the approved plan, SUCCEEDED means that every action of
\* it was written and REJECTED that nothing was.
RefinesContract == Contract!Spec

=============================================================================
