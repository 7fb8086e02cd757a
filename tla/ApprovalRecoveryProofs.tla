----------------------- MODULE ApprovalRecoveryProofs -----------------------
(***************************************************************************)
(* Theorems about approvals and recovery, for any number of requests,      *)
(* stops, revisions and proposals.  Three parts:                           *)
(*                                                                         *)
(* What a node of the graph makes of a graph state, and what one step of   *)
(* the coordinator preserves when its caller is the only active one: the   *)
(* claim row always tells whether a write is possible.                     *)
(*                                                                         *)
(* Safety.  The run lock (and, before the run is visible, the fact that    *)
(* only its creator knows it) lets at most one request at a time touch the *)
(* checkpoint, the run, its approvals and the coordinator.  So what that   *)
(* request has read is still true when it acts on it, and the claim rows   *)
(* tell the next holder of the lock what its predecessor may have written. *)
(*                                                                         *)
(* Refinement.  ApprovalRecovery implements AgentRunContract: the two      *)
(* stores are related, which approval rows exist for the revision of the   *)
(* checkpoint, what the checkpoint has taken over of their decisions, and  *)
(* that a record of success stands for a committed write.                  *)
(***************************************************************************)
EXTENDS ApprovalRecovery, TLAPS

-----------------------------------------------------------------------------
(***************************************************************************)
(* Lemmas about the operators of AgentGraph: every node maps a graph state *)
(* to a graph state, and which fields it leaves alone.                     *)
(***************************************************************************)

\* t is a graph state that a node other than request_approval makes of s:
\* the interrupt and the decision are untouched.
SavedBy(s, t) ==
    /\ t \in AgentGraphState
    /\ t.interrupt = s.interrupt
    /\ t.approval_decision = s.approval_decision
    /\ t.approval_revision = s.approval_revision
    /\ t.approval_proposal_fingerprint = s.approval_proposal_fingerprint
    /\ Len(s.execution_records) <= MAX_PLAN_ACTIONS =>
          Len(t.execution_records) <= MAX_PLAN_ACTIONS

\* The state that AgentGraphInput creates is a graph state.
LEMMA InitialGraphStateType == InitialGraphState \in AgentGraphState
  BY RevisionAssumption, NoneAssumption
  DEF InitialGraphState, AgentGraphState, NoValidation, NoVerification,
      Validations, Verifications, Nodes, Revisions, MAX_PLAN_ACTIONS, Records

\* A proposal's digest is one of the fingerprints.
LEMMA DigestType == ASSUME NEW p \in Proposals PROVE Digest[p] \in Fingerprints
  BY DEF Fingerprints

\* A plan has at most three actions, each an action.
LEMMA PlanType ==
  ASSUME NEW p \in Proposals
  PROVE  /\ Plan[p] \in Seq(Actions)
         /\ Len(Plan[p]) \in Nat
         /\ Len(Plan[p]) <= MAX_PLAN_ACTIONS
  BY PlanAssumption

\* A raising node leaves a graph state (graph.py: _failed).
LEMMA FailedType ==
  ASSUME NEW s \in AgentGraphState PROVE SavedBy(s, Failed(s))
  BY DEF Failed, SavedBy, AgentGraphState

\* analyze_goal and load_context.
LEMMA AnalysisType ==
  ASSUME NEW s \in AgentGraphState, NEW ok \in BOOLEAN
  PROVE  SavedBy(s, analysis_node(s, ok))
  BY FailedType DEF analysis_node, SavedBy, AgentGraphState

\* load_context, with or without its result.
LEMMA ContextType ==
  ASSUME NEW s \in AgentGraphState, NEW ok \in BOOLEAN
  PROVE  SavedBy(s, context_node(s, ok))
  BY FailedType DEF context_node, SavedBy, AgentGraphState

\* generate_plan, with or without an accepted proposal.
LEMMA PlanningType ==
  ASSUME NEW s \in AgentGraphState, NEW result \in Proposals \cup {None}
  PROVE  SavedBy(s, planning_node(s, result))
  BY FailedType DEF planning_node, SavedBy, AgentGraphState

\* validate_plan binds the proposal it accepts to revision and fingerprint.
LEMMA ValidationType ==
  ASSUME NEW s \in AgentGraphState, NEW verdict
  PROVE  SavedBy(s, validation_node(s, verdict))
  BY FailedType, DigestType
  DEF validation_node, SavedBy, AgentGraphState, Validations

\* execute_tasks stores the records.
LEMMA ExecutionType ==
  ASSUME NEW s \in AgentGraphState, NEW records \in Seq(Records),
         Len(records) <= MAX_PLAN_ACTIONS
  PROVE  SavedBy(s, execution_node(s, records))
  BY DEF execution_node, SavedBy, AgentGraphState

\* verify_result, for at most MAX_PLAN_ACTIONS records.
LEMMA VerificationType ==
  ASSUME NEW s \in AgentGraphState,
         Len(s.execution_records) <= MAX_PLAN_ACTIONS
  PROVE  SavedBy(s, verification_node(s))
<1> DEFINE n == Len(s.execution_records)
<1>1. n \in 0..MAX_PLAN_ACTIONS /\ 0 \in 0..MAX_PLAN_ACTIONS
  <2>1. s.execution_records \in Seq(Records)
    BY DEF AgentGraphState
  <2>2. n \in Nat
    BY <2>1
  <2> HIDE DEF n
  <2>3. n <= MAX_PLAN_ACTIONS
    BY DEF n
  <2> QED BY <2>2, <2>3 DEF MAX_PLAN_ACTIONS
<1> DEFINE Typed(v) == /\ v.verification \in Verifications
                       /\ v.terminal_status \in TerminalStatuses
<1>2. /\ Typed(Invalid(0))
      /\ Typed(Invalid(n))
      /\ Typed(Verdict("FAILED", n, "AGENT_WORKFLOW_FAILED", "FAILED"))
      /\ Typed(Verdict("REJECTED", 0, "NONE", "REJECTED"))
      /\ Typed(Verdict("FAILED", n, "AGENT_EXECUTION_FAILED", "PARTIAL_FAILURE"))
      /\ Typed(Verdict("FAILED", n, "AGENT_EXECUTION_FAILED", "FAILED"))
      /\ Typed(Verdict("NO_ACTION", n, "NONE", "SUCCEEDED"))
      /\ Typed(Verdict("VERIFIED", n, "NONE", "SUCCEEDED"))
  BY <1>1 DEF Verdict, Invalid, Verifications, TerminalStatuses
<1>3. Typed(VerifyRecords(s.execution_records, Plan[s.proposal]))
  <2> HIDE DEF Typed
  <2> QED BY <1>2 DEF VerifyRecords
<1>4. Typed(verify_result(s))
  <2> HIDE DEF Typed
  <2> QED BY <1>2, <1>3 DEF verify_result
<1> QED
  BY <1>4 DEF verification_node, SavedBy, AgentGraphState

\* Routing sends a graph state to a node of the graph or to its end.
LEMMA RouteType ==
  ASSUME NEW s \in AgentGraphState, NEW node \in Nodes
  PROVE  Route(node, s) \in Nodes \cup {"END"}
  BY DEF Route, Nodes, ContinueOrVerify, route_validation, route_approval

\* The approval response keeps a graph state with a proposal in its type.
LEMMA ApplyApprovalResponseType ==
  ASSUME NEW s \in AgentGraphState, NEW decision, s.proposal \in Proposals
  PROVE  /\ ApplyApprovalResponse(s, decision) \in AgentGraphState
         /\ ApplyApprovalResponse(s, decision).interrupt = FALSE
         /\ ApplyApprovalResponse(s, decision).execution_records
               = s.execution_records
<1>1. CASE decision = "REQUEST_CHANGES" /\ ~RevisionLimitReached(s)
  <2>1. s.revision_count + 1 \in Revisions
    BY <1>1, RevisionAssumption
    DEF RevisionLimitReached, AgentGraphState, Revisions
  <2>2. NoValidation \in Validations
    BY RevisionAssumption DEF NoValidation, Validations, Revisions
  <2> QED
    BY <1>1, <2>1, <2>2 DEF ApplyApprovalResponse, AgentGraphState, Decisions
<1>2. CASE ~(decision = "REQUEST_CHANGES" /\ ~RevisionLimitReached(s))
  <2> DEFINE t == ApplyApprovalResponse(s, decision)
  <2>1. Digest[s.proposal] \in Fingerprints
    BY DigestType
  <2>2. t = [s EXCEPT !.interrupt = FALSE,
                      !.approval_decision = t.approval_decision,
                      !.approval_revision = s.revision_count,
                      !.approval_proposal_fingerprint = Digest[s.proposal],
                      !.terminal_status = t.terminal_status]
    BY <1>2 DEF ApplyApprovalResponse, AgentGraphState
  <2>3. /\ t.approval_decision \in Decisions
        /\ t.terminal_status \in TerminalStatuses \cup {"NONE"}
    BY <1>2 DEF ApplyApprovalResponse, AgentGraphState, Decisions,
                TerminalStatuses
  <2> HIDE DEF t
  <2>4. t \in AgentGraphState /\ t.interrupt = FALSE
        /\ t.execution_records = s.execution_records
    BY <2>1, <2>2, <2>3 DEF AgentGraphState
  <2> QED
    BY <2>4 DEF t
<1> QED
  BY <1>1, <1>2

\* An approval response records APPROVED exactly for an APPROVED decision,
\* and then for the current revision and proposal.
LEMMA ApplyApprovalResponseApproves ==
  ASSUME NEW s \in AgentGraphState, NEW decision,
         ApplyApprovalResponse(s, decision).approval_decision = "APPROVED"
  PROVE  /\ decision = "APPROVED"
         /\ ApplyApprovalResponse(s, decision).approval_revision
               = s.revision_count
         /\ ApplyApprovalResponse(s, decision).approval_proposal_fingerprint
               = Digest[s.proposal]
  BY DEF ApplyApprovalResponse, AgentGraphState

\* Complete only chooses the next node.
LEMMA CompleteType ==
  ASSUME NEW s \in AgentGraphState, s.next \in Nodes, NEW t \in AgentGraphState
  PROVE  /\ Complete(s, t) \in AgentGraphState
         /\ Complete(s, t).interrupt = t.interrupt
         /\ Complete(s, t).approval_decision = t.approval_decision
         /\ Complete(s, t).approval_revision = t.approval_revision
         /\ Complete(s, t).approval_proposal_fingerprint
               = t.approval_proposal_fingerprint
         /\ Complete(s, t).execution_records = t.execution_records
  BY RouteType DEF Complete, AgentGraphState

\* What the two useful classifications of a snapshot say about it.
LEMMA InspectSnapshotFacts ==
  ASSUME NEW s \in AgentGraphState
  PROVE  /\ InspectSnapshot(s) = "PENDING_INTERRUPT" => s.interrupt
         /\ InspectSnapshot(s) = "TERMINAL" =>
               /\ ~s.interrupt
               /\ s.next = "END"
               /\ s.terminal_status \in TerminalStatuses
         /\ InspectSnapshot(s) = "CONTINUABLE" => ~s.interrupt /\ s.next # "END"
  BY DEF InspectSnapshot, AgentGraphState

-----------------------------------------------------------------------------
(***************************************************************************)
(* Steps of the coordinator.                                               *)
(***************************************************************************)

\* A row that allows a (new) dispatch has no committed write, and between
\* the claim and the outcome the worker's own view agrees with the row.
ClaimInv ==
    /\ \A id \in Identities :
          /\ committed[id] <= 1
          /\ execution[id].status \in {"ABSENT", "FAILED"} => committed[id] = 0
    /\ \A w \in Workers :
          /\ At(w, "restart") => Row(w).status = "FAILED"
          /\ At(w, "dispatch") => /\ Row(w).status = "IN_PROGRESS"
                                  /\ committed[worker[w].id] = 0
          /\ worker[w].pc = "complete_write" => worker[w].failure = "UNKNOWN"
          /\ worker[w].pc \in {"fail_read", "fail_write"} =>
                /\ worker[w].failure \in {"FAILED", "UNKNOWN"}
                /\ worker[w].failure = "FAILED" => committed[worker[w].id] = 0

OnlyActive(w) == \A q \in Workers : q # w => At(q, "idle")

\* What a step of worker w does to the other parts of the state.
Advanced(w) ==
    /\ worker'[w].pc # "idle"
    /\ worker'[w].id = worker[w].id
    /\ \A q \in Workers : q # w => worker'[q] = worker[q]
    /\ \A id \in Identities : id # worker[w].id => committed'[id] = committed[id]

\* The three ways in which a step assigns to w's locals keep its identity,
\* the other workers and the type of the state.
Moved(w, place, failure) ==
    /\ worker' \in [Workers -> WorkerStates]
    /\ worker'[w].pc = place
    /\ worker'[w].id = worker[w].id
    /\ worker'[w].failure = failure
    /\ \A q \in Workers : q # w => worker'[q] = worker[q]

\* Goto moves the worker of one call and nothing else.
LEMMA GotoMoves ==
  ASSUME ToolTypeOK, NEW w \in Workers, NEW place \in WorkerPlaces,
         Goto(w, place)
  PROVE  Moved(w, place, worker[w].failure)
<1>1. worker[w] \in WorkerStates
  BY DEF ToolTypeOK
<1>2. [worker[w] EXCEPT !.pc = place] \in WorkerStates
  BY <1>1 DEF WorkerStates
<1>3. worker' \in [Workers -> WorkerStates]
  BY <1>2 DEF ToolTypeOK, Goto
<1> QED
  BY <1>3 DEF ToolTypeOK, WorkerStates, Goto, Moved

\* A read of the execution row (ClaimRead, ClaimReread) changes the call only.
LEMMA ReadMoves ==
  ASSUME ToolTypeOK, NEW w \in Workers, NEW place \in WorkerPlaces,
         NEW seen \in 0..MAX_ATTEMPT_COUNT,
         worker' = [worker EXCEPT ![w].seen = seen, ![w].pc = place]
  PROVE  Moved(w, place, worker[w].failure)
<1>1. worker[w] \in WorkerStates
  BY DEF ToolTypeOK
<1>2. [worker[w] EXCEPT !.seen = seen, !.pc = place] \in WorkerStates
  BY <1>1 DEF WorkerStates
<1>3. worker' \in [Workers -> WorkerStates]
  BY <1>2 DEF ToolTypeOK
<1> QED
  BY <1>3 DEF ToolTypeOK, WorkerStates, Moved

\* Noting the status to record (FAILED or UNKNOWN) changes the call only.
LEMMA FailureMoves ==
  ASSUME ToolTypeOK, NEW w \in Workers, NEW place \in WorkerPlaces,
         NEW failure \in {"NONE", "FAILED", "UNKNOWN"},
         \/ worker' = [worker EXCEPT ![w].pc = place, ![w].failure = failure]
         \/ worker' = [worker EXCEPT ![w].failure = failure, ![w].pc = place]
  PROVE  Moved(w, place, failure)
<1>1. worker[w] \in WorkerStates
  BY DEF ToolTypeOK
<1>2. /\ [worker[w] EXCEPT !.pc = place, !.failure = failure] \in WorkerStates
      /\ [worker[w] EXCEPT !.failure = failure, !.pc = place] \in WorkerStates
  BY <1>1 DEF WorkerStates
<1>3. worker' \in [Workers -> WorkerStates]
  BY <1>2 DEF ToolTypeOK
<1> QED
  BY <1>3 DEF ToolTypeOK, WorkerStates, Moved

\* A step of the coordinator that moves only w's control state.
LEMMA MoveLemma ==
  ASSUME ToolTypeOK, ClaimInv, NEW w \in Workers, OnlyActive(w),
         worker[w].id \in Identities,
         NEW place \in WorkerPlaces \ {"idle", "dispatch"},
         NEW failure \in {"NONE", "FAILED", "UNKNOWN"},
         Moved(w, place, failure),
         UNCHANGED <<execution, committed>>,
         place = "restart" => Row(w).status = "FAILED",
         place = "complete_write" => failure = "UNKNOWN",
         place \in {"fail_read", "fail_write"} =>
            /\ failure \in {"FAILED", "UNKNOWN"}
            /\ failure = "FAILED" => committed[worker[w].id] = 0
  PROVE  ToolTypeOK' /\ ClaimInv' /\ Advanced(w)
<1>1. ToolTypeOK'
  BY DEF ToolTypeOK, Moved
<1>2. ClaimInv'
  BY DEF ClaimInv, OnlyActive, At, Row, Moved
<1>3. Advanced(w)
  BY DEF Advanced, Moved
<1> QED
  BY <1>1, <1>2, <1>3

\* A transaction on w's row: row written or not, then one of two places.
LEMMA WriteLemma ==
  ASSUME ToolTypeOK, ClaimInv, NEW w \in Workers, OnlyActive(w),
         worker[w].id \in Identities,
         NEW row \in Rows,
         NEW place \in WorkerPlaces \ {"idle", "restart", "complete_write"},
         NEW onError \in {"raised", "fail_read"},
         Transaction(w, row, place, onError),
         UNCHANGED committed,
         row.status \in {"ABSENT", "FAILED"} => committed[worker[w].id] = 0,
         place = "dispatch" => /\ row.status = "IN_PROGRESS"
                               /\ committed[worker[w].id] = 0,
         place \notin {"fail_read", "fail_write"},
         onError = "fail_read" => worker[w].failure = "UNKNOWN"
  PROVE  ToolTypeOK' /\ ClaimInv' /\ Advanced(w)
<1>1. PICK to \in {place, onError} : worker' = [worker EXCEPT ![w].pc = to]
  BY DEF Transaction, Goto
<1>2. worker' \in [Workers -> WorkerStates]
  <2>1. worker[w] \in WorkerStates /\ to \in WorkerPlaces
    BY DEF ToolTypeOK, WorkerPlaces
  <2>2. [worker[w] EXCEPT !.pc = to] \in WorkerStates
    BY <2>1 DEF WorkerStates
  <2> QED
    BY <1>1, <2>2 DEF ToolTypeOK
<1>3. /\ worker'[w].pc = to
      /\ worker'[w].id = worker[w].id
      /\ worker'[w].failure = worker[w].failure
      /\ \A q \in Workers : q # w => worker'[q] = worker[q]
  BY <1>1 DEF ToolTypeOK, WorkerStates
<1>4. \/ execution' = [execution EXCEPT ![worker[w].id] = row]
      \/ execution' = execution /\ to = onError
  <2>1. CASE SetRow(w, row)
    BY <2>1 DEF SetRow
  <2>2. CASE ~SetRow(w, row)
    <3>1. worker' = [worker EXCEPT ![w].pc = onError] /\ UNCHANGED execution
      BY <2>2 DEF Transaction, Goto
    <3>2. worker'[w].pc = onError
      BY <3>1 DEF ToolTypeOK, WorkerStates
    <3> QED
      BY <1>3, <3>1, <3>2
  <2> QED
    BY <2>1, <2>2
<1>5. execution' \in [Identities -> Rows]
  BY <1>4 DEF ToolTypeOK
<1>6. \A id \in Identities :
          \/ execution'[id] = execution[id]
          \/ (id = worker[w].id /\ execution'[id] = row)
  BY <1>4 DEF ToolTypeOK
<1>7. to = "dispatch" => execution'[worker[w].id] = row
  BY <1>4 DEF ToolTypeOK
<1>8. ToolTypeOK'
  BY <1>2, <1>5 DEF ToolTypeOK
<1>9. ClaimInv'
  <2>1. \A id \in Identities :
          /\ committed'[id] <= 1
          /\ execution'[id].status \in {"ABSENT", "FAILED"} => committed'[id] = 0
    BY <1>6 DEF ClaimInv
  <2>2. \A q \in Workers : q # w => worker'[q].pc = "idle"
    BY <1>3 DEF OnlyActive, At
  <2> QED
    BY <1>3, <1>7, <2>1, <2>2 DEF ClaimInv, At, Row
<1>10. Advanced(w)
  BY <1>3 DEF Advanced
<1> QED
  BY <1>8, <1>9, <1>10

\* A dispatch that may have committed its write.
LEMMA DispatchLemma ==
  ASSUME ToolTypeOK, ClaimInv, NEW w \in Workers, OnlyActive(w),
         worker[w].id \in Identities, At(w, "dispatch"),
         NEW place \in {"complete_read", "fail_read"},
         NEW failure,
         Moved(w, place, failure),
         place = "fail_read" => failure = "UNKNOWN",
         committed' = [committed EXCEPT ![worker[w].id] = @ + 1],
         UNCHANGED execution
  PROVE  ToolTypeOK' /\ ClaimInv' /\ Advanced(w)
<1>1. /\ committed' \in [Identities -> Nat]
      /\ committed'[worker[w].id] = 1
      /\ \A id \in Identities : id # worker[w].id => committed'[id] = committed[id]
  BY DEF ToolTypeOK, ClaimInv
<1>2. ToolTypeOK'
  BY <1>1 DEF ToolTypeOK, Moved
<1>3. ClaimInv'
  <2>1. \A id \in Identities :
          /\ committed'[id] <= 1
          /\ execution'[id].status \in {"ABSENT", "FAILED"} => committed'[id] = 0
    BY <1>1 DEF ClaimInv, At, Row
  <2>2. \A q \in Workers : q # w => worker'[q].pc = "idle"
    BY DEF OnlyActive, At, Moved
  <2> QED
    BY <2>1, <2>2 DEF ClaimInv, At, Row, Moved
<1>4. Advanced(w)
  BY <1>1 DEF Advanced, Moved
<1> QED
  BY <1>2, <1>3, <1>4

-----------------------------------------------------------------------------
\* Every step of the coordinator preserves the claim invariant when its
\* caller is the only active one.
THEOREM ToolStepPreserves ==
  ASSUME ToolTypeOK, ClaimInv, NEW w \in Workers, OnlyActive(w),
         worker[w].id \in Identities, NEW approved \in BOOLEAN,
         ToolStep(w, approved)
  PROVE  ToolTypeOK' /\ ClaimInv' /\ Advanced(w)
<1> DEFINE id == worker[w].id
<1>0. /\ Row(w) \in Rows
      /\ Row(w).attempt_count \in 0..MAX_ATTEMPT_COUNT
      /\ worker[w].seen \in 0..MAX_ATTEMPT_COUNT
      /\ worker[w].failure \in {"NONE", "FAILED", "UNKNOWN"}
  BY DEF ToolTypeOK, Row, Rows, WorkerStates
<1>1. CASE ClaimRead(w, approved)
  <2> DEFINE place == IF IsHighImpact(worker[w].id) /\ ~approved THEN "raised"
                      ELSE IF Row(w).status = "ABSENT" THEN "insert"
                      ELSE ClassifyExisting(Row(w))
  <2>1. place \in {"raised", "insert", "replay", "restart"}
    BY DEF ClassifyExisting
  <2>2. place = "restart" => Row(w).status = "FAILED"
    BY DEF ClassifyExisting
  <2>3. worker' = [worker EXCEPT ![w].seen = Row(w).attempt_count,
                                 ![w].pc = place]
    BY <1>1 DEF ClaimRead
  <2>4. UNCHANGED <<execution, committed>>
    BY <1>1 DEF ClaimRead
  <2> HIDE DEF place
  <2>5. Moved(w, place, worker[w].failure)
    BY <1>0, <2>1, <2>3, ReadMoves DEF WorkerPlaces
  <2> QED
    BY <1>0, <2>1, <2>2, <2>4, <2>5, MoveLemma DEF WorkerPlaces
<1>2. CASE ClaimInsert(w)
  <2>1. CASE Row(w).status = "ABSENT"
    <3>1. [status |-> "IN_PROGRESS", attempt_count |-> 1] \in Rows
      BY AttemptAssumption DEF Rows, RowStatuses
    <3>2. committed[id] = 0
      BY <2>1 DEF ClaimInv, Row
    <3> QED
      BY <1>2, <2>1, <3>1, <3>2, WriteLemma DEF ClaimInsert, WorkerPlaces
  <2>2. CASE Row(w).status # "ABSENT"
    <3>1. Goto(w, "reread") /\ UNCHANGED <<execution, committed>>
      BY <1>2, <2>2 DEF ClaimInsert
    <3>2. Moved(w, "reread", worker[w].failure)
      BY <3>1, GotoMoves DEF WorkerPlaces
    <3> QED
      BY <1>0, <3>1, <3>2, MoveLemma DEF WorkerPlaces
  <2> QED
    BY <2>1, <2>2
<1>3. CASE ClaimReread(w)
  <2> DEFINE place == ClassifyExisting(Row(w))
  <2>1. place \in {"raised", "replay", "restart"}
    BY DEF ClassifyExisting
  <2>2. place = "restart" => Row(w).status = "FAILED"
    BY DEF ClassifyExisting
  <2>3. worker' = [worker EXCEPT ![w].seen = Row(w).attempt_count,
                                 ![w].pc = place]
    BY <1>3 DEF ClaimReread
  <2>4. UNCHANGED <<execution, committed>>
    BY <1>3 DEF ClaimReread
  <2> HIDE DEF place
  <2>5. Moved(w, place, worker[w].failure)
    BY <1>0, <2>1, <2>3, ReadMoves DEF WorkerPlaces
  <2> QED
    BY <1>0, <2>1, <2>2, <2>4, <2>5, MoveLemma DEF WorkerPlaces
<1>4. CASE ClaimRestart(w)
  <2>1. CASE Row(w).status # "COMPLETED" /\ worker[w].seen < MAX_ATTEMPT_COUNT
    <3>1. [status |-> "IN_PROGRESS", attempt_count |-> worker[w].seen + 1]
            \in Rows
      BY <1>0, <2>1, AttemptAssumption DEF Rows, RowStatuses
    <3>2. committed[id] = 0
      BY <1>4 DEF ClaimRestart, ClaimInv, Row
    <3> QED
      BY <1>4, <2>1, <3>1, <3>2, WriteLemma DEF ClaimRestart, WorkerPlaces
  <2>2. CASE ~(Row(w).status # "COMPLETED" /\ worker[w].seen < MAX_ATTEMPT_COUNT)
    <3>1. Goto(w, "raised") /\ UNCHANGED <<execution, committed>>
      BY <1>4, <2>2 DEF ClaimRestart
    <3>2. Moved(w, "raised", worker[w].failure)
      BY <3>1, GotoMoves DEF WorkerPlaces
    <3> QED
      BY <1>0, <3>1, <3>2, MoveLemma DEF WorkerPlaces
  <2> QED
    BY <2>1, <2>2
<1>5. CASE Replay(w)
  <2>1. PICK place \in {"returned", "raised"} : Goto(w, place)
    BY <1>5 DEF Replay
  <2>2. Moved(w, place, worker[w].failure)
    BY <2>1, GotoMoves DEF WorkerPlaces
  <2> QED
    BY <1>0, <1>5, <2>2, MoveLemma DEF Replay, WorkerPlaces
<1>6. CASE DispatchSucceeds(w)
  <2>1. Moved(w, "complete_read", worker[w].failure)
    BY <1>6, GotoMoves DEF DispatchSucceeds, WorkerPlaces
  <2> QED
    BY <1>6, <2>1, DispatchLemma DEF DispatchSucceeds
<1>7. CASE DispatchProvenNoWrite(w)
  <2>1. Moved(w, "fail_read", "FAILED")
    BY <1>7, FailureMoves DEF DispatchProvenNoWrite, WorkerPlaces
  <2>2. committed[id] = 0
    BY <1>7 DEF DispatchProvenNoWrite, ClaimInv
  <2> QED
    BY <1>7, <2>1, <2>2, MoveLemma DEF DispatchProvenNoWrite, WorkerPlaces
<1>8. CASE DispatchUnknown(w)
  <2>1. Moved(w, "fail_read", "UNKNOWN")
    BY <1>8, FailureMoves DEF DispatchUnknown, WorkerPlaces
  <2>2. CASE UNCHANGED committed
    BY <1>8, <2>1, <2>2, MoveLemma DEF DispatchUnknown, WorkerPlaces
  <2>3. CASE committed' = [committed EXCEPT ![id] = @ + 1]
    BY <1>8, <2>1, <2>3, DispatchLemma DEF DispatchUnknown
  <2> QED
    BY <1>8, <2>2, <2>3 DEF DispatchUnknown
<1>9. CASE CompletionRead(w)
  <2> DEFINE place == IF Row(w).status = "IN_PROGRESS" THEN "complete_write"
                                                       ELSE "fail_read"
  <2>1. worker' = [worker EXCEPT ![w].failure = "UNKNOWN", ![w].pc = place]
    BY <1>9 DEF CompletionRead
  <2>2. place \in {"complete_write", "fail_read"}
    OBVIOUS
  <2> HIDE DEF place
  <2>3. Moved(w, place, "UNKNOWN")
    BY <2>1, <2>2, FailureMoves DEF WorkerPlaces
  <2> QED
    BY <1>9, <2>2, <2>3, MoveLemma DEF CompletionRead, WorkerPlaces
<1>10. CASE CompletionWrite(w)
  <2>1. worker[w].failure = "UNKNOWN"
    BY <1>10 DEF CompletionWrite, ClaimInv, At
  <2>2. CASE Row(w).status \in {"IN_PROGRESS", "COMPLETED"}
    <3> DEFINE row == [Row(w) EXCEPT !.status = "COMPLETED"]
    <3>1. row \in Rows /\ row.status = "COMPLETED"
      BY <1>0 DEF Rows, RowStatuses
    <3>2. Transaction(w, row, "returned", "fail_read")
      BY <1>10, <2>2 DEF CompletionWrite
    <3> HIDE DEF row
    <3> QED
      BY <1>10, <2>1, <3>1, <3>2, WriteLemma DEF CompletionWrite, WorkerPlaces
  <2>3. CASE Row(w).status \notin {"IN_PROGRESS", "COMPLETED"}
    <3>1. Goto(w, "fail_read") /\ UNCHANGED <<execution, committed>>
      BY <1>10, <2>3 DEF CompletionWrite
    <3>2. Moved(w, "fail_read", worker[w].failure)
      BY <3>1, GotoMoves DEF WorkerPlaces
    <3> QED
      BY <2>1, <3>1, <3>2, MoveLemma DEF WorkerPlaces
  <2> QED
    BY <2>2, <2>3
<1>11. CASE FailureRead(w)
  <2>1. /\ worker[w].failure \in {"FAILED", "UNKNOWN"}
        /\ worker[w].failure = "FAILED" => committed[id] = 0
    BY <1>11 DEF FailureRead, ClaimInv, At
  <2>2. PICK place \in {"raised", "fail_write"} : Goto(w, place)
    BY <1>11 DEF FailureRead
  <2>3. Moved(w, place, worker[w].failure)
    BY <2>2, GotoMoves DEF WorkerPlaces
  <2> QED
    BY <1>11, <2>1, <2>3, MoveLemma DEF FailureRead, WorkerPlaces
<1>12. CASE FailureWrite(w)
  <2>1. /\ worker[w].failure \in {"FAILED", "UNKNOWN"}
        /\ worker[w].failure = "FAILED" => committed[id] = 0
    BY <1>12 DEF FailureWrite, ClaimInv, At
  <2>2. CASE Row(w).status # "COMPLETED"
    <3> DEFINE row == [Row(w) EXCEPT !.status = worker[w].failure]
    <3>1. row \in Rows /\ row.status = worker[w].failure
      BY <1>0, <2>1 DEF Rows, RowStatuses
    <3>2. Transaction(w, row, "raised", "raised")
      BY <1>12, <2>2 DEF FailureWrite
    <3> HIDE DEF row
    <3> QED
      BY <1>12, <2>1, <3>1, <3>2, WriteLemma DEF FailureWrite, WorkerPlaces
  <2>3. CASE Row(w).status = "COMPLETED"
    <3>1. Goto(w, "raised") /\ UNCHANGED <<execution, committed>>
      BY <1>12, <2>3 DEF FailureWrite
    <3>2. Moved(w, "raised", worker[w].failure)
      BY <3>1, GotoMoves DEF WorkerPlaces
    <3> QED
      BY <1>0, <3>1, <3>2, MoveLemma DEF WorkerPlaces
  <2> QED
    BY <2>2, <2>3
<1> QED
  BY <1>1, <1>2, <1>3, <1>4, <1>5, <1>6, <1>7, <1>8, <1>9, <1>10, <1>11, <1>12
  DEF ToolStep

-----------------------------------------------------------------------------
(***************************************************************************)
(* Safety: the invariant that names who is at work.                        *)
(***************************************************************************)

StartPlaces == {"starting", "start_persist"}
SubmitPlaces == {"wait_submit", "decide", "inspect", "resume", "advance",
                 "persist"}

\* A request past pg_advisory_xact_lock holds the lock.
LockInv == \A r \in Workers : req[r].pc \in LockedPlaces => lock = r

\* Before start_agent_run commits, only the starting request knows the run.
StartInv ==
    /\ \A q, r \in Workers :
          req[q].pc \in StartPlaces /\ req[r].pc \in StartPlaces => q = r
    /\ run = "ABSENT" =>
          /\ \A r \in Workers : req[r].pc \in {"idle"} \cup StartPlaces
          /\ checkpoint.approval_decision = "NONE"
          /\ \A v \in Revisions : approvals[v] = AbsentApproval
    /\ run # "ABSENT" => \A r \in Workers : req[r].pc \notin StartPlaces

\* The locals of a request fit the place it is at.
RequestInv ==
    \A r \in Workers :
        /\ req[r].pc \in SubmitPlaces => req[r].submission \in Submissions
        /\ Len(req[r].records) <= MAX_PLAN_ACTIONS
        /\ req[r].pc \in {"resume", "advance"} => run = "RUNNING"
        /\ req[r].pc = "resume" =>
              checkpoint.interrupt /\ InterruptMatches(req[r].submission.revision)
        /\ req[r].pc \in {"persist", "start_persist"} =>
              InspectSnapshot(checkpoint) \in {"PENDING_INTERRUPT", "TERMINAL"}

CheckpointInv ==
    /\ Len(checkpoint.execution_records) <= MAX_PLAN_ACTIONS
    /\ checkpoint.interrupt => /\ checkpoint.next = "request_approval"
                               /\ checkpoint.proposal \in Proposals
    /\ checkpoint.approval_decision = "APPROVED" =>
          /\ checkpoint.approval_revision \in Revisions
          /\ PersistedApproval(<<checkpoint.approval_revision,
                                 checkpoint.approval_proposal_fingerprint>>)

\* The identity of the action that request r is about to execute.
CurrentIdentity(r) ==
    <<checkpoint.revision_count, Digest[checkpoint.proposal],
      CurrentAction(r).action_key>>

\* An active coordinator call is the current action of an approved plan.
CallInv ==
    \A w \in Workers :
        ~At(w, "idle") =>
            /\ req[w].pc = "advance"
            /\ checkpoint.next = "execute_tasks"
            /\ ~checkpoint.interrupt
            /\ IsCurrentlyAuthorized(checkpoint)
            /\ MoreToExecute(w)
            /\ worker[w].id = CurrentIdentity(w)

IInv ==
    /\ TypeOK
    /\ LockInv
    /\ StartInv
    /\ RequestInv
    /\ CheckpointInv
    /\ CallInv
    /\ ClaimInv
    /\ WritesAreApproved
    /\ TerminalMatchesCheckpoint

-----------------------------------------------------------------------------
(***************************************************************************)
(* At most one request is at work on the run.                              *)
(***************************************************************************)
BusyPlaces == LockedPlaces \cup StartPlaces

\* Two busy requests are the same one.
LEMMA Exclusive ==
  ASSUME IInv, NEW q \in Workers, NEW r \in Workers,
         req[q].pc \in BusyPlaces, req[r].pc \in BusyPlaces
  PROVE  q = r
<1>1. CASE run = "ABSENT"
  BY <1>1 DEF IInv, StartInv, BusyPlaces, StartPlaces, LockedPlaces
<1>2. CASE run # "ABSENT"
  BY <1>2 DEF IInv, StartInv, LockInv, BusyPlaces
<1> QED
  BY <1>1, <1>2

\* A request that is not executing an action has no active worker, and while
\* a request is busy no other one has.
LEMMA IdleWorkers ==
  ASSUME IInv, NEW r \in Workers, req[r].pc \in BusyPlaces
  PROVE  /\ OnlyActive(r)
         /\ req[r].pc # "advance" => At(r, "idle")
<1>1. \A q \in Workers : ~At(q, "idle") => req[q].pc \in BusyPlaces
  BY DEF IInv, CallInv, BusyPlaces, LockedPlaces
<1>2. OnlyActive(r)
  BY <1>1, Exclusive DEF OnlyActive
<1> QED
  BY <1>2 DEF IInv, CallInv

\* Proceed and Finish: what they assign to the request.
LEMMA ProceedFacts ==
  ASSUME TypeOK, NEW r \in Workers, NEW place \in Places, Proceed(r, place)
  PROVE  /\ req' \in [Workers -> Requests]
         /\ req'[r].pc = place
         /\ req'[r].submission = req[r].submission
         /\ req'[r].records = req[r].records
         /\ \A q \in Workers : q # r => req'[q] = req[q]
<1>1. req[r] \in Requests
  BY DEF TypeOK
<1>2. [req[r] EXCEPT !.pc = place] \in Requests
  BY <1>1 DEF Requests
<1>3. req' \in [Workers -> Requests]
  BY <1>2 DEF TypeOK, Proceed
<1> QED
  BY <1>1, <1>3 DEF TypeOK, Proceed, Requests

\* A handler that ends leaves an idle request and frees only its own lock.
LEMMA FinishFacts ==
  ASSUME TypeOK, NEW r \in Workers, Finish(r)
  PROVE  /\ req' \in [Workers -> Requests]
         /\ req'[r] = IdleRequest
         /\ \A q \in Workers : q # r => req'[q] = req[q]
         /\ lock' \in Workers \cup {None}
         /\ \A q \in Workers : q # r /\ lock = q => lock' = q
<1>1. IdleRequest \in Requests
  BY DEF IdleRequest, Requests, Places
<1> QED
  BY <1>1 DEF TypeOK, Finish

-----------------------------------------------------------------------------
(***************************************************************************)
(* Steps that change only the request (and release or take the lock).      *)
(***************************************************************************)
\* What the new locals of a request must satisfy for the invariant.
RequestFits(u) ==
    /\ u.pc \in SubmitPlaces => u.submission \in Submissions
    /\ Len(u.records) <= MAX_PLAN_ACTIONS
    /\ u.pc \in {"resume", "advance"} => run = "RUNNING"
    /\ u.pc = "resume" =>
          checkpoint.interrupt /\ InterruptMatches(u.submission.revision)
    /\ u.pc \in {"persist", "start_persist"} =>
          InspectSnapshot(checkpoint) \in {"PENDING_INTERRUPT", "TERMINAL"}

\* A step that moves request r alone, with no change to the stores, keeps
\* the invariant when the new place of r fits it.
LEMMA RequestLemma ==
  ASSUME IInv, NEW r \in Workers,
         req' \in [Workers -> Requests],
         \A q \in Workers : q # r => req'[q] = req[q],
         RequestFits(req'[r]),
         req'[r].pc \in LockedPlaces => lock' = r,
         req'[r].pc \in StartPlaces => req[r].pc \in StartPlaces,
         run = "ABSENT" => req'[r].pc \in {"idle"} \cup StartPlaces,
         lock' \in Workers \cup {None},
         \A q \in Workers : q # r /\ lock = q => lock' = q,
         worker' \in [Workers -> WorkerStates],
         worker'[r].pc = "idle",
         \A q \in Workers : q # r => worker'[q] = worker[q],
         stops' \in 0..MaxStops, acknowledged' \in SUBSET Submissions,
         UNCHANGED <<execution, committed, run, approvals, checkpoint>>
  PROVE  IInv'
<1>1. TypeOK'
  BY DEF IInv, TypeOK, ToolTypeOK
<1>2. LockInv'
  BY DEF IInv, LockInv
<1>3. StartInv'
  BY DEF IInv, StartInv, StartPlaces
<1>4. RequestInv'
  BY DEF IInv, RequestInv, RequestFits, InterruptMatches
<1>5. CheckpointInv'
  BY DEF IInv, CheckpointInv, PersistedApproval
<1>6. CallInv'
  BY DEF IInv, CallInv, At, MoreToExecute, CurrentIdentity, CurrentAction
<1>7. ClaimInv'
  BY DEF IInv, ClaimInv, At, Row
<1>8. WritesAreApproved'
  BY DEF IInv, WritesAreApproved, PersistedApproval
<1>9. TerminalMatchesCheckpoint'
  BY DEF IInv, TerminalMatchesCheckpoint
<1> QED
  BY <1>1, <1>2, <1>3, <1>4, <1>5, <1>6, <1>7, <1>8, <1>9 DEF IInv

\* Finish(r) with the coordinator call gone (refusals, answers, stops).
LEMMA FinishLemma ==
  ASSUME IInv, NEW r \in Workers, Finish(r),
         worker' \in [Workers -> WorkerStates],
         worker'[r].pc = "idle",
         \A q \in Workers : q # r => worker'[q] = worker[q],
         stops' \in 0..MaxStops, acknowledged' \in SUBSET Submissions,
         UNCHANGED <<execution, committed, run, approvals, checkpoint>>
  PROVE  IInv'
<1>1. /\ req' \in [Workers -> Requests]
      /\ req'[r] = IdleRequest
      /\ \A q \in Workers : q # r => req'[q] = req[q]
      /\ lock' \in Workers \cup {None}
      /\ \A q \in Workers : q # r /\ lock = q => lock' = q
  BY FinishFacts DEF IInv
<1>2. IdleRequest.pc = "idle" /\ Len(IdleRequest.records) = 0
  BY DEF IdleRequest
<1>3. RequestFits(IdleRequest)
  BY <1>2 DEF RequestFits, SubmitPlaces, MAX_PLAN_ACTIONS
<1> QED
  BY <1>1, <1>2, <1>3, RequestLemma DEF LockedPlaces, StartPlaces

\* Proceed(r, place) without a change of the lock.
LEMMA ProceedLemma ==
  ASSUME IInv, NEW r \in Workers, NEW place \in LockedPlaces,
         req[r].pc \in LockedPlaces, At(r, "idle"),
         Proceed(r, place),
         place \in SubmitPlaces => req[r].submission \in Submissions,
         place \in {"resume", "advance"} => run = "RUNNING",
         place = "resume" =>
            checkpoint.interrupt /\ InterruptMatches(req[r].submission.revision),
         place = "persist" =>
            InspectSnapshot(checkpoint) \in {"PENDING_INTERRUPT", "TERMINAL"},
         UNCHANGED <<toolVars, run, approvals, checkpoint, lock, stops,
                     acknowledged>>
  PROVE  IInv'
<1>1. /\ req' \in [Workers -> Requests]
      /\ req'[r].pc = place
      /\ req'[r].submission = req[r].submission
      /\ req'[r].records = req[r].records
      /\ \A q \in Workers : q # r => req'[q] = req[q]
  BY ProceedFacts DEF IInv, Places
<1>2. RequestFits(req'[r])
  <2>1. place # "start_persist"
    BY DEF LockedPlaces
  <2>2. Len(req[r].records) <= MAX_PLAN_ACTIONS
    BY DEF IInv, RequestInv
  <2> QED
    BY <1>1, <2>1, <2>2 DEF RequestFits
<1>3. lock' = r /\ run # "ABSENT"
  BY DEF IInv, LockInv, StartInv, LockedPlaces, StartPlaces
<1>4. place \notin StartPlaces
  BY DEF LockedPlaces, StartPlaces
<1>5. /\ worker' \in [Workers -> WorkerStates]
      /\ worker'[r].pc = "idle"
      /\ \A q \in Workers : worker'[q] = worker[q]
      /\ stops' \in 0..MaxStops
      /\ acknowledged' \in SUBSET Submissions
      /\ lock' \in Workers \cup {None}
      /\ \A q \in Workers : q # r /\ lock = q => lock' = q
      /\ UNCHANGED <<execution, committed, run, approvals, checkpoint>>
  BY DEF toolVars, IInv, TypeOK, ToolTypeOK, At
<1> QED
  BY <1>1, <1>2, <1>3, <1>4, <1>5, RequestLemma

-----------------------------------------------------------------------------
(***************************************************************************)
(* The request handlers.                                                   *)
(***************************************************************************)
\* A request that has not started, or waits, has no active worker.
LEMMA InactiveIdle ==
  ASSUME IInv, NEW r \in Workers, req[r].pc # "advance"
  PROVE  At(r, "idle")
  BY DEF IInv, CallInv

\* POST approvals keeps the invariant: the request only starts to wait.
LEMMA SubmitInv ==
  ASSUME IInv, NEW r \in Workers, NEW s \in Submissions, Submit(r, s)
  PROVE  IInv'
<1>1. /\ req' \in [Workers -> Requests]
      /\ req'[r].pc = "wait_submit"
      /\ req'[r].submission = s
      /\ req'[r].records = req[r].records
      /\ \A q \in Workers : q # r => req'[q] = req[q]
  <2>1. req[r] \in Requests
    BY DEF IInv, TypeOK
  <2>2. [req[r] EXCEPT !.pc = "wait_submit", !.submission = s] \in Requests
    BY <2>1 DEF Requests, Places
  <2>3. req' \in [Workers -> Requests]
    BY <2>2 DEF IInv, TypeOK, Submit
  <2> QED
    BY <2>1, <2>3 DEF IInv, TypeOK, Submit, Requests
<1>2. RequestFits(req'[r])
  BY <1>1 DEF RequestFits, IInv, RequestInv
<1>3. At(r, "idle") /\ run # "ABSENT"
  BY InactiveIdle DEF Submit, InPlace
<1> QED
  BY <1>1, <1>2, <1>3, RequestLemma
  DEF Submit, toolVars, productVars, IInv, TypeOK, ToolTypeOK, At,
      LockedPlaces, StartPlaces

\* GET preview keeps the invariant: the request only starts to wait.
LEMMA RequestPreviewInv ==
  ASSUME IInv, NEW r \in Workers, RequestPreview(r)
  PROVE  IInv'
<1>1. /\ req' \in [Workers -> Requests]
      /\ req'[r].pc = "wait_preview"
      /\ req'[r].records = req[r].records
      /\ \A q \in Workers : q # r => req'[q] = req[q]
  BY ProceedFacts DEF RequestPreview, IInv, Places
<1>2. RequestFits(req'[r])
  BY <1>1 DEF RequestFits, IInv, RequestInv, SubmitPlaces
<1>3. At(r, "idle") /\ run # "ABSENT"
  BY InactiveIdle DEF RequestPreview, InPlace
<1> QED
  BY <1>1, <1>2, <1>3, RequestLemma
  DEF RequestPreview, toolVars, productVars, IInv, TypeOK, ToolTypeOK, At,
      LockedPlaces, StartPlaces

\* Taking the advisory lock keeps the invariant: no one else holds it.
LEMMA AcquireLockInv ==
  ASSUME IInv, NEW r \in Workers, AcquireLock(r)
  PROVE  IInv'
<1>1. PICK place \in {"decide", "preview"} :
         /\ Proceed(r, place)
         /\ place = "decide" => req[r].pc = "wait_submit"
  BY DEF AcquireLock, InPlace
<1>2. /\ req' \in [Workers -> Requests]
      /\ req'[r].pc = place
      /\ req'[r].submission = req[r].submission
      /\ req'[r].records = req[r].records
      /\ \A q \in Workers : q # r => req'[q] = req[q]
  BY <1>1, ProceedFacts DEF IInv, Places, LockedPlaces
<1>3. RequestFits(req'[r])
  BY <1>1, <1>2 DEF RequestFits, IInv, RequestInv, SubmitPlaces
<1>4. At(r, "idle")
  BY InactiveIdle DEF AcquireLock
<1>5. run # "ABSENT"
  BY DEF AcquireLock, IInv, StartInv, StartPlaces
<1>6. \A q \in Workers : q # r /\ lock = q => lock' = q
  BY RequestAssumption DEF AcquireLock
<1> QED
  BY <1>2, <1>3, <1>4, <1>5, <1>6, RequestLemma
  DEF AcquireLock, toolVars, productVars, IInv, TypeOK, ToolTypeOK, At,
      LockedPlaces, StartPlaces

\* Recognising a decision that is already stored keeps the invariant.
LEMMA RecoverDecisionInv ==
  ASSUME IInv, NEW r \in Workers, RecoverDecision(r)
  PROVE  IInv'
<1>1. /\ req[r].pc = "decide" /\ At(r, "idle")
      /\ req[r].submission \in Submissions
  BY InactiveIdle DEF RecoverDecision, InPlace, IInv, RequestInv, SubmitPlaces
<1> QED
  BY <1>1, ProceedLemma DEF RecoverDecision, productVars, LockedPlaces

\* A conflict (409) keeps the invariant: nothing was written.
LEMMA RefuseDecisionInv ==
  ASSUME IInv, NEW r \in Workers, RefuseDecision(r)
  PROVE  IInv'
<1>1. At(r, "idle")
  BY InactiveIdle DEF RefuseDecision, InPlace
<1> QED
  BY <1>1, FinishLemma
  DEF RefuseDecision, toolVars, productVars, IInv, TypeOK, ToolTypeOK, At

\* Answering a preview keeps the invariant: nothing was written.
LEMMA AnswerPreviewInv ==
  ASSUME IInv, NEW r \in Workers, AnswerPreview(r)
  PROVE  IInv'
<1>1. At(r, "idle")
  BY InactiveIdle DEF AnswerPreview, InPlace
<1> QED
  BY <1>1, FinishLemma
  DEF AnswerPreview, toolVars, productVars, IInv, TypeOK, ToolTypeOK, At

\* A request that stops anywhere keeps the invariant: what it committed
\* stays, its locals, its coordinator call and its lock go.
LEMMA StopInv ==
  ASSUME IInv, NEW r \in Workers, Stop(r)
  PROVE  IInv'
<1>1. IdleWorker \in WorkerStates /\ IdleWorker.pc = "idle"
  BY AttemptAssumption DEF IdleWorker, WorkerStates, WorkerPlaces
<1>2. /\ worker' \in [Workers -> WorkerStates]
      /\ worker'[r].pc = "idle"
      /\ \A q \in Workers : q # r => worker'[q] = worker[q]
  BY <1>1 DEF Stop, IInv, TypeOK, ToolTypeOK
<1>3. stops' \in 0..MaxStops
  BY StopsAssumption DEF Stop, IInv, TypeOK
<1> QED
  BY <1>2, <1>3, FinishLemma DEF Stop, productVars, IInv, TypeOK

\* What the chosen continuation of a decided submission relies on.
LEMMA NextPlaceFacts ==
  ASSUME IInv, NEW v \in Revisions, NextPlace(v) # "refuse"
  PROVE  /\ NextPlace(v) \in {"persist", "advance", "resume"}
         /\ NextPlace(v) \in {"resume", "advance"} => run = "RUNNING"
         /\ NextPlace(v) = "resume" =>
               checkpoint.interrupt /\ InterruptMatches(v)
         /\ NextPlace(v) = "persist" =>
               InspectSnapshot(checkpoint) \in {"PENDING_INTERRUPT", "TERMINAL"}
<1>1. checkpoint \in AgentGraphState
  BY DEF IInv, TypeOK
<1> QED
  BY <1>1, InspectSnapshotFacts DEF NextPlace

\* inspect_durable and the choice it leads to keep the invariant.
LEMMA InspectDurableInv ==
  ASSUME IInv, NEW r \in Workers, InspectDurable(r)
  PROVE  IInv'
<1> DEFINE v == req[r].submission.revision
<1>1. req[r].pc = "inspect" /\ req[r].submission \in Submissions
  BY DEF InspectDurable, InPlace, IInv, RequestInv, SubmitPlaces
<1>2. v \in Revisions /\ At(r, "idle")
  BY <1>1, InactiveIdle DEF Submissions
<1>3. CASE NextPlace(v) = "refuse"
  BY <1>2, <1>3, FinishLemma
  DEF InspectDurable, toolVars, productVars, IInv, TypeOK, ToolTypeOK, At
<1>4. CASE NextPlace(v) # "refuse"
  <2> DEFINE place == NextPlace(v)
  <2>1. /\ place \in {"persist", "advance", "resume"}
        /\ place \in {"resume", "advance"} => run = "RUNNING"
        /\ place = "resume" => checkpoint.interrupt /\ InterruptMatches(v)
        /\ place = "persist" =>
              InspectSnapshot(checkpoint) \in {"PENDING_INTERRUPT", "TERMINAL"}
    BY <1>2, <1>4, NextPlaceFacts
  <2>2. Proceed(r, place) /\ UNCHANGED lock
    BY <1>4 DEF InspectDurable
  <2> HIDE DEF place
  <2> QED
    BY <1>1, <1>2, <2>1, <2>2, ProceedLemma
    DEF InspectDurable, productVars, LockedPlaces
<1> QED
  BY <1>3, <1>4

-----------------------------------------------------------------------------
(***************************************************************************)
(* The graph nodes.                                                        *)
(***************************************************************************)
\* A request inside the graph: which run states allow it.
LEMMA InGraph ==
  ASSUME IInv, NEW r \in Workers, req[r].pc \in {"starting", "advance"}
  PROVE  /\ req[r].pc \in BusyPlaces
         /\ req[r].pc = "starting" => run = "ABSENT"
         /\ req[r].pc = "advance" => run = "RUNNING"
  BY DEF IInv, StartInv, RequestInv, BusyPlaces, LockedPlaces, StartPlaces

\* A checkpoint written by the only busy request, outside an action.
LEMMA CheckpointLemma ==
  ASSUME IInv, NEW r \in Workers, req[r].pc \in {"starting", "advance"},
         At(r, "idle"),
         checkpoint' \in AgentGraphState,
         CheckpointInv',
         run = "ABSENT" => checkpoint'.approval_decision = "NONE",
         UNCHANGED <<toolVars, run, approvals, lock, req, stops, acknowledged>>
  PROVE  IInv'
<1>1. TypeOK'
  BY DEF IInv, TypeOK, ToolTypeOK, toolVars
<1>2. LockInv'
  BY DEF IInv, LockInv
<1>3. StartInv'
  BY DEF IInv, StartInv
<1>4. RequestInv'
  <2>1. \A q \in Workers : req[q].pc \in BusyPlaces => q = r
    BY InGraph, Exclusive
  <2>2. \A q \in Workers : req[q].pc \notin {"resume", "persist", "start_persist"}
    BY <2>1 DEF BusyPlaces, LockedPlaces, StartPlaces
  <2> QED
    BY <2>2 DEF IInv, RequestInv
<1>5. CallInv'
  BY InGraph, IdleWorkers DEF CallInv, OnlyActive, At, toolVars
<1>6. ClaimInv'
  BY DEF IInv, ClaimInv, At, Row, toolVars
<1>7. WritesAreApproved'
  BY DEF IInv, WritesAreApproved, PersistedApproval, toolVars
<1>8. TerminalMatchesCheckpoint'
  BY InGraph DEF TerminalMatchesCheckpoint, TerminalStatuses
<1> QED
  BY <1>1, <1>2, <1>3, <1>4, <1>5, <1>6, <1>7, <1>8 DEF IInv

\* A node that saves t, for every node but request_approval's response.
LEMMA SaveLemma ==
  ASSUME IInv, NEW r \in Workers, NEW node \in Nodes, AtNode(r, node),
         At(r, "idle"), NEW t, SavedBy(checkpoint, t), Save(t)
  PROVE  IInv'
<1>1. /\ checkpoint \in AgentGraphState /\ checkpoint.next \in Nodes
      /\ t \in AgentGraphState
      /\ ~checkpoint.interrupt
  BY DEF IInv, TypeOK, AtNode, SavedBy
<1>2. checkpoint' = Complete(checkpoint, t)
  BY DEF Save
<1>3. /\ checkpoint' \in AgentGraphState
      /\ checkpoint'.interrupt = t.interrupt
      /\ checkpoint'.approval_decision = t.approval_decision
      /\ checkpoint'.approval_revision = t.approval_revision
      /\ checkpoint'.approval_proposal_fingerprint
            = t.approval_proposal_fingerprint
      /\ checkpoint'.execution_records = t.execution_records
  BY <1>1, <1>2, CompleteType
<1>4. CheckpointInv'
  BY <1>1, <1>3
  DEF Save, SavedBy, IInv, CheckpointInv, PersistedApproval, productVars
<1>5. run = "ABSENT" => checkpoint'.approval_decision = "NONE"
  BY <1>3 DEF SavedBy, IInv, StartInv
<1> QED
  BY <1>3, <1>4, <1>5, CheckpointLemma DEF Save, AtNode, productVars

\* A request at another node than execute_tasks has no active worker.
LEMMA NodeIdle ==
  ASSUME IInv, NEW r \in Workers, NEW node, AtNode(r, node),
         node # "execute_tasks"
  PROVE  At(r, "idle")
  BY DEF IInv, CallInv, AtNode

\* The nodes before the approval (analyze_goal .. validate_plan) keep the
\* invariant.
LEMMA PlanningNodesInv ==
  ASSUME IInv, NEW r \in Workers,
         AnalyzeGoal(r) \/ LoadContext(r) \/ GeneratePlan(r) \/ ValidatePlan(r)
  PROVE  IInv'
<1>0. checkpoint \in AgentGraphState
  BY DEF IInv, TypeOK
<1>1. CASE AnalyzeGoal(r)
  <2>1. AtNode(r, "analyze_goal") /\ At(r, "idle")
    BY <1>1, NodeIdle DEF AnalyzeGoal
  <2>2. PICK ok \in BOOLEAN : Save(analysis_node(checkpoint, ok))
    BY <1>1 DEF AnalyzeGoal
  <2>3. SavedBy(checkpoint, analysis_node(checkpoint, ok))
    BY <1>0, AnalysisType
  <2> QED
    BY <2>1, <2>2, <2>3, SaveLemma DEF Nodes
<1>2. CASE LoadContext(r)
  <2>1. AtNode(r, "load_context") /\ At(r, "idle")
    BY <1>2, NodeIdle DEF LoadContext
  <2>2. PICK ok \in BOOLEAN : Save(context_node(checkpoint, ok))
    BY <1>2 DEF LoadContext
  <2>3. SavedBy(checkpoint, context_node(checkpoint, ok))
    BY <1>0, ContextType
  <2> QED
    BY <2>1, <2>2, <2>3, SaveLemma DEF Nodes
<1>3. CASE GeneratePlan(r)
  <2>1. AtNode(r, "generate_plan") /\ At(r, "idle")
    BY <1>3, NodeIdle DEF GeneratePlan
  <2>2. PICK result \in Proposals \cup {None} :
           Save(planning_node(checkpoint, result))
    BY <1>3 DEF GeneratePlan
  <2>3. SavedBy(checkpoint, planning_node(checkpoint, result))
    BY <1>0, PlanningType
  <2> QED
    BY <2>1, <2>2, <2>3, SaveLemma DEF Nodes
<1>4. CASE ValidatePlan(r)
  <2>1. AtNode(r, "validate_plan") /\ At(r, "idle")
    BY <1>4, NodeIdle DEF ValidatePlan
  <2>2. PICK verdict \in {"VALID", "INVALID", "ERROR"} :
           Save(validation_node(checkpoint, verdict))
    BY <1>4 DEF ValidatePlan
  <2>3. SavedBy(checkpoint, validation_node(checkpoint, verdict))
    BY <1>0, ValidationType
  <2> QED
    BY <2>1, <2>2, <2>3, SaveLemma DEF Nodes
<1> QED
  BY <1>1, <1>2, <1>3, <1>4

\* Reaching the approval interrupt, or failing to, keeps the invariant.
LEMMA InterruptInv ==
  ASSUME IInv, NEW r \in Workers, Interrupt(r) \/ InterruptFails(r)
  PROVE  IInv'
<1>0. checkpoint \in AgentGraphState
  BY DEF IInv, TypeOK
<1>1. AtNode(r, "request_approval") /\ At(r, "idle")
  BY NodeIdle DEF Interrupt, InterruptFails
<1>2. CASE Interrupt(r)
  <2>1. checkpoint.proposal \in Proposals
    BY <1>0, <1>2
    DEF Interrupt, CanRequestApproval, HasCurrentValidation, AgentGraphState
  <2>2. checkpoint' = [checkpoint EXCEPT !.interrupt = TRUE]
    BY <1>2 DEF Interrupt
  <2>3. /\ checkpoint' \in AgentGraphState
        /\ checkpoint'.next = "request_approval"
        /\ checkpoint'.proposal = checkpoint.proposal
        /\ checkpoint'.approval_decision = checkpoint.approval_decision
        /\ checkpoint'.approval_revision = checkpoint.approval_revision
        /\ checkpoint'.approval_proposal_fingerprint
              = checkpoint.approval_proposal_fingerprint
        /\ checkpoint'.execution_records = checkpoint.execution_records
    BY <1>0, <1>1, <2>2 DEF AgentGraphState, AtNode
  <2>4. CheckpointInv'
    BY <1>2, <2>1, <2>3
    DEF Interrupt, IInv, CheckpointInv, PersistedApproval, productVars
  <2>5. run = "ABSENT" => checkpoint'.approval_decision = "NONE"
    BY <2>3 DEF IInv, StartInv
  <2> QED
    BY <1>1, <1>2, <2>3, <2>4, <2>5, CheckpointLemma
    DEF Interrupt, AtNode, productVars
<1>3. CASE InterruptFails(r)
  <2>1. SavedBy(checkpoint, Failed(checkpoint))
    BY <1>0, FailedType
  <2> QED
    BY <1>1, <1>3, <2>1, SaveLemma DEF InterruptFails, Nodes
<1> QED
  BY <1>2, <1>3

\* The checkpoints of execute_tasks, verify_result and summarize keep the
\* invariant.
LEMMA ClosingNodesInv ==
  ASSUME IInv, NEW r \in Workers,
         ExecuteTasks(r) \/ VerifyResult(r) \/ Summarize(r)
  PROVE  IInv'
<1>0. /\ checkpoint \in AgentGraphState
      /\ Len(checkpoint.execution_records) <= MAX_PLAN_ACTIONS
      /\ req[r].records \in Seq(Records)
      /\ Len(req[r].records) <= MAX_PLAN_ACTIONS
  BY DEF IInv, TypeOK, CheckpointInv, RequestInv, Requests
<1>1. CASE ExecuteTasks(r)
  <2> DEFINE t == IF IsCurrentlyAuthorized(checkpoint)
                  THEN execution_node(checkpoint, req[r].records)
                  ELSE Failed(checkpoint)
  <2>1. SavedBy(checkpoint, t)
    BY <1>0, ExecutionType, FailedType
  <2>2. AtNode(r, "execute_tasks") /\ At(r, "idle") /\ Save(t)
    BY <1>1 DEF ExecuteTasks
  <2> HIDE DEF t
  <2> QED
    BY <2>1, <2>2, SaveLemma DEF Nodes
<1>2. CASE VerifyResult(r)
  <2>1. SavedBy(checkpoint, verification_node(checkpoint))
    BY <1>0, VerificationType
  <2>2. AtNode(r, "verify_result") /\ At(r, "idle")
    BY <1>2, NodeIdle DEF VerifyResult
  <2> QED
    BY <1>2, <2>1, <2>2, SaveLemma DEF VerifyResult, Nodes
<1>3. CASE Summarize(r)
  <2>1. SavedBy(checkpoint, checkpoint)
    BY <1>0 DEF SavedBy
  <2>2. AtNode(r, "summarize") /\ At(r, "idle")
    BY <1>3, NodeIdle DEF Summarize
  <2> QED
    BY <1>3, <2>1, <2>2, SaveLemma DEF Summarize, Nodes
<1> QED
  BY <1>1, <1>2, <1>3


\* Leaving the graph for the product transaction keeps the invariant.
LEMMA SettleInv ==
  ASSUME IInv, NEW r \in Workers, Settle(r)
  PROVE  IInv'
<1>1. At(r, "idle")
  BY DEF Settle, GraphStopped, IInv, CallInv
<1>2. PICK place \in {"start_persist", "persist"} :
         /\ req' = [req EXCEPT ![r].pc = place, ![r].records = << >>]
         /\ place = "start_persist" <=> req[r].pc = "starting"
  BY DEF Settle, IInv, TypeOK, Requests
<1>3. /\ req' \in [Workers -> Requests]
      /\ req'[r].pc = place
      /\ req'[r].submission = req[r].submission
      /\ req'[r].records = << >>
      /\ \A q \in Workers : q # r => req'[q] = req[q]
  <2>1. req[r] \in Requests
    BY DEF IInv, TypeOK
  <2>2. place \in Places /\ << >> \in Seq(Records)
    BY DEF Places, LockedPlaces
  <2>3. [req[r] EXCEPT !.pc = place, !.records = << >>] \in Requests
    BY <2>1, <2>2 DEF Requests
  <2>4. req' \in [Workers -> Requests]
    BY <1>2, <2>3 DEF IInv, TypeOK
  <2> QED
    BY <1>2, <2>1, <2>4 DEF IInv, TypeOK, Requests
<1>4. /\ req[r].pc \in {"starting", "advance"}
      /\ req[r].pc = "starting" => run = "ABSENT"
      /\ req[r].pc = "advance" => run = "RUNNING" /\ lock = r
      /\ req[r].pc = "advance" => req[r].submission \in Submissions
  BY InGraph
  DEF Settle, IInv, LockInv, RequestInv, LockedPlaces, SubmitPlaces
<1>5. RequestFits(req'[r])
  BY <1>2, <1>3, <1>4
  DEF Settle, RequestFits, SubmitPlaces, MAX_PLAN_ACTIONS
<1> QED
  BY <1>1, <1>2, <1>3, <1>4, <1>5, RequestLemma
  DEF Settle, toolVars, productVars, IInv, TypeOK, ToolTypeOK, At,
      LockedPlaces, StartPlaces

-----------------------------------------------------------------------------
(***************************************************************************)
(* The actions of an approved plan.                                        *)
(***************************************************************************)
\* The action that MoreToExecute promises exists and has an identity.
LEMMA CurrentActionType ==
  ASSUME IInv, NEW r \in Workers, IsCurrentlyAuthorized(checkpoint),
         MoreToExecute(r)
  PROVE  /\ CurrentAction(r) \in Actions
         /\ CurrentIdentity(r) \in Identities
         /\ Len(req[r].records) + 1 <= MAX_PLAN_ACTIONS
         /\ PersistedApproval(CurrentIdentity(r))
<1>1. /\ checkpoint \in AgentGraphState
      /\ req[r].records \in Seq(Records)
  BY DEF IInv, TypeOK, Requests
<1>2. checkpoint.proposal \in Proposals /\ checkpoint.revision_count \in Revisions
  BY <1>1 DEF IsCurrentlyAuthorized, HasCurrentPlanBinding,
              HasCurrentValidation, AgentGraphState
<1>3. /\ Plan[checkpoint.proposal] \in Seq(Actions)
      /\ Len(Plan[checkpoint.proposal]) \in Nat
      /\ Len(Plan[checkpoint.proposal]) <= MAX_PLAN_ACTIONS
  BY <1>2, PlanType
<1>4. Len(req[r].records) \in Nat
  BY <1>1
<1>5. Len(req[r].records) < Len(Plan[checkpoint.proposal])
  BY DEF MoreToExecute
<1>6. CurrentAction(r) \in Actions
  BY <1>3, <1>4, <1>5 DEF CurrentAction
<1>7. CurrentIdentity(r) \in Identities
  BY <1>2, <1>6, DigestType DEF CurrentIdentity, Identities, Actions
<1>8. PersistedApproval(CurrentIdentity(r))
  BY DEF IInv, CheckpointInv, PersistedApproval, CurrentIdentity,
         IsCurrentlyAuthorized, HasCurrentPlanBinding
<1>9. Len(req[r].records) + 1 <= MAX_PLAN_ACTIONS
  BY <1>3, <1>4, <1>5 DEF MAX_PLAN_ACTIONS
<1> QED
  BY <1>6, <1>7, <1>8, <1>9

\* An approved plan is only executed by a request that holds the lock.
LEMMA AuthorizedAdvances ==
  ASSUME IInv, NEW r \in Workers, AtNode(r, "execute_tasks"),
         IsCurrentlyAuthorized(checkpoint)
  PROVE  req[r].pc = "advance"
  BY InGraph DEF AtNode, IInv, StartInv, IsCurrentlyAuthorized

\* Handing the next approved action to the coordinator keeps the invariant.
LEMMA BeginActionInv ==
  ASSUME IInv, NEW r \in Workers, BeginAction(r)
  PROVE  IInv'
<1> DEFINE u == [IdleWorker EXCEPT !.pc = "claim", !.id = CurrentIdentity(r)]
<1>1. /\ AtNode(r, "execute_tasks") /\ IsCurrentlyAuthorized(checkpoint)
      /\ MoreToExecute(r) /\ At(r, "idle")
      /\ worker' = [worker EXCEPT ![r] = u]
      /\ UNCHANGED <<execution, committed, run, approvals, checkpoint, lock,
                     req, stops, acknowledged>>
  BY DEF BeginAction, Call, CurrentIdentity, productVars
<1>2. CurrentIdentity(r) \in Identities /\ req[r].pc = "advance"
  BY <1>1, CurrentActionType, AuthorizedAdvances
<1>3. u \in WorkerStates /\ u.pc = "claim" /\ u.id = CurrentIdentity(r)
  <2>1. IdleWorker \in WorkerStates /\ "claim" \in WorkerPlaces
    BY AttemptAssumption DEF IdleWorker, WorkerStates, WorkerPlaces
  <2> QED
    BY <1>2, <2>1 DEF WorkerStates
<1> HIDE DEF u
<1>4. /\ worker' \in [Workers -> WorkerStates]
      /\ worker'[r] = u
      /\ \A q \in Workers : q # r => worker'[q] = worker[q]
  BY <1>1, <1>3 DEF IInv, TypeOK, ToolTypeOK
<1>5. TypeOK'
  BY <1>1, <1>4 DEF IInv, TypeOK, ToolTypeOK
<1>6. LockInv' /\ StartInv' /\ CheckpointInv'
  BY <1>1 DEF IInv, LockInv, StartInv, CheckpointInv, PersistedApproval
<1>7. RequestInv'
  BY <1>1 DEF IInv, RequestInv, InterruptMatches
<1>8. CallInv'
  BY <1>1, <1>2, <1>3, <1>4
  DEF IInv, CallInv, At, AtNode, MoreToExecute, CurrentIdentity, CurrentAction
<1>9. ClaimInv'
  BY <1>1, <1>3, <1>4 DEF IInv, ClaimInv, At, Row
<1>10. WritesAreApproved' /\ TerminalMatchesCheckpoint'
  BY <1>1 DEF IInv, WritesAreApproved, PersistedApproval,
              TerminalMatchesCheckpoint
<1> QED
  BY <1>5, <1>6, <1>7, <1>8, <1>9, <1>10 DEF IInv

\* A step of the coordinator inside execute_tasks keeps the invariant.
LEMMA ActionStepInv ==
  ASSUME IInv, NEW r \in Workers, ActionStep(r)
  PROVE  IInv'
<1>1. /\ AtNode(r, "execute_tasks")
      /\ worker[r].id # None
      /\ ToolStep(r, PersistedApproval(worker[r].id))
      /\ UNCHANGED <<run, approvals, checkpoint, lock, req, stops, acknowledged>>
  BY DEF ActionStep, productVars
<1>2. ~At(r, "idle")
  BY <1>1
  DEF ToolStep, ClaimRead, ClaimInsert, ClaimReread, ClaimRestart, Replay,
      DispatchSucceeds, DispatchProvenNoWrite, DispatchUnknown, CompletionRead,
      CompletionWrite, FailureRead, FailureWrite, At
<1>3. /\ req[r].pc = "advance" /\ IsCurrentlyAuthorized(checkpoint)
      /\ MoreToExecute(r) /\ worker[r].id = CurrentIdentity(r)
  BY <1>2 DEF IInv, CallInv
<1>4. worker[r].id \in Identities /\ PersistedApproval(worker[r].id)
  BY <1>3, CurrentActionType
<1>5. OnlyActive(r)
  BY <1>3, IdleWorkers DEF BusyPlaces, LockedPlaces
<1>6. ToolTypeOK /\ ClaimInv /\ PersistedApproval(worker[r].id) \in BOOLEAN
  BY DEF IInv, TypeOK, PersistedApproval
<1>7. ToolTypeOK' /\ ClaimInv' /\ Advanced(r)
  BY <1>1, <1>4, <1>5, <1>6, ToolStepPreserves
<1>8. TypeOK'
  BY <1>1, <1>7 DEF IInv, TypeOK
<1>9. LockInv' /\ StartInv' /\ CheckpointInv'
  BY <1>1 DEF IInv, LockInv, StartInv, CheckpointInv, PersistedApproval
<1>10. RequestInv'
  BY <1>1 DEF IInv, RequestInv, InterruptMatches
<1>11. CallInv'
  BY <1>1, <1>3, <1>7
  DEF IInv, CallInv, Advanced, At, AtNode, MoreToExecute, CurrentIdentity,
      CurrentAction
<1>12. WritesAreApproved'
  BY <1>1, <1>4, <1>7
  DEF IInv, WritesAreApproved, PersistedApproval, Advanced
<1>13. TerminalMatchesCheckpoint'
  BY <1>1 DEF IInv, TerminalMatchesCheckpoint
<1> QED
  BY <1>7, <1>8, <1>9, <1>10, <1>11, <1>12, <1>13 DEF IInv

\* Taking the result of an action into the records keeps the invariant.
LEMMA EndActionInv ==
  ASSUME IInv, NEW r \in Workers, EndAction(r)
  PROVE  IInv'
<1> DEFINE rec == [action_key |-> CurrentAction(r).action_key,
                   tool_name |-> CurrentAction(r).tool_name,
                   outcome |-> IF At(r, "returned") THEN "SUCCEEDED"
                                                    ELSE "FAILED"]
<1>1. ~At(r, "idle")
  BY DEF EndAction, At
<1>2. /\ req[r].pc = "advance" /\ IsCurrentlyAuthorized(checkpoint)
      /\ MoreToExecute(r)
  BY <1>1 DEF IInv, CallInv
<1>3. /\ CurrentAction(r) \in Actions
      /\ Len(req[r].records) + 1 <= MAX_PLAN_ACTIONS
  BY <1>2, CurrentActionType
<1>4. rec \in Records
  BY <1>3 DEF Records, Actions, Outcomes
<1>5. req' = [req EXCEPT ![r].records = Append(@, rec)]
  BY DEF EndAction
<1> HIDE DEF rec
<1>6. req[r] \in Requests /\ req[r].records \in Seq(Records)
  BY DEF IInv, TypeOK, Requests
<1>7. /\ Append(req[r].records, rec) \in Seq(Records)
      /\ Len(Append(req[r].records, rec)) = Len(req[r].records) + 1
  BY <1>4, <1>6
<1>8. /\ req' \in [Workers -> Requests]
      /\ req'[r].pc = "advance"
      /\ req'[r].submission = req[r].submission
      /\ req'[r].records = Append(req[r].records, rec)
      /\ \A q \in Workers : q # r => req'[q] = req[q]
  <2>1. [req[r] EXCEPT !.records = Append(req[r].records, rec)] \in Requests
    BY <1>6, <1>7 DEF Requests
  <2>2. req' \in [Workers -> Requests]
    BY <1>5, <2>1 DEF IInv, TypeOK
  <2> QED
    BY <1>2, <1>5, <1>6, <2>2 DEF IInv, TypeOK, Requests
<1>9. RequestFits(req'[r])
  BY <1>2, <1>3, <1>7, <1>8
  DEF RequestFits, IInv, RequestInv, SubmitPlaces
<1>10. /\ worker' \in [Workers -> WorkerStates]
       /\ worker'[r].pc = "idle"
       /\ \A q \in Workers : q # r => worker'[q] = worker[q]
  <2>1. IdleWorker \in WorkerStates /\ IdleWorker.pc = "idle"
    BY AttemptAssumption DEF IdleWorker, WorkerStates, WorkerPlaces
  <2> QED
    BY <2>1 DEF EndAction, IInv, TypeOK, ToolTypeOK
<1>11. lock' = r /\ run = "RUNNING"
  BY <1>2 DEF EndAction, IInv, LockInv, LockedPlaces, RequestInv
<1> QED
  BY <1>8, <1>9, <1>10, <1>11, RequestLemma
  DEF EndAction, productVars, IInv, TypeOK, LockedPlaces, StartPlaces


-----------------------------------------------------------------------------
(***************************************************************************)
(* Steps that write the product tables or resume the graph.                *)
(***************************************************************************)
LEMMA StartRunInv ==
  ASSUME IInv, NEW r \in Workers, StartRun(r)
  PROVE  IInv'
<1>1. /\ req' \in [Workers -> Requests]
      /\ req'[r].pc = "starting"
      /\ req'[r].records = req[r].records
      /\ \A q \in Workers : q # r => req'[q] = req[q]
  BY ProceedFacts DEF StartRun, IInv, Places
<1>2. /\ run = "ABSENT" /\ checkpoint' = InitialGraphState
      /\ UNCHANGED <<execution, committed, worker, run, approvals, lock, stops,
                     acknowledged>>
  BY DEF StartRun, toolVars, productVars
<1>3. \A q \in Workers : q # r => req[q].pc = "idle"
  BY <1>2 DEF StartRun, IInv, StartInv, StartPlaces
<1>4. TypeOK'
  BY <1>1, <1>2, InitialGraphStateType DEF IInv, TypeOK, ToolTypeOK
<1>5. /\ checkpoint'.approval_decision = "NONE"
      /\ checkpoint'.interrupt = FALSE
      /\ checkpoint'.execution_records = << >>
  BY <1>2 DEF InitialGraphState
<1>6. LockInv'
  BY <1>1, <1>3 DEF LockInv, LockedPlaces
<1>7. StartInv'
  BY <1>1, <1>2, <1>3, <1>5 DEF IInv, StartInv, StartPlaces
<1>8. RequestInv'
  BY <1>1, <1>3 DEF IInv, RequestInv, SubmitPlaces
<1>9. CheckpointInv'
  BY <1>5 DEF CheckpointInv, MAX_PLAN_ACTIONS
<1>10. CallInv'
  <2>1. \A q \in Workers : At(q, "idle")
    BY <1>3, InactiveIdle DEF StartRun, InPlace
  <2> QED
    BY <1>2, <2>1 DEF CallInv, At
<1>11. ClaimInv' /\ WritesAreApproved'
  BY <1>2 DEF IInv, ClaimInv, At, Row, WritesAreApproved, PersistedApproval
<1>12. TerminalMatchesCheckpoint'
  BY <1>2 DEF TerminalMatchesCheckpoint, TerminalStatuses
<1> QED
  BY <1>4, <1>6, <1>7, <1>8, <1>9, <1>10, <1>11, <1>12 DEF IInv

\* resume_durable applies the stored decision, so an APPROVED checkpoint has
\* an APPROVED row.
LEMMA ResumeInv ==
  ASSUME IInv, NEW r \in Workers, Resume(r)
  PROVE  IInv'
<1> DEFINE v == req[r].submission.revision
           t == ApplyApprovalResponse(checkpoint, approvals[v].decision)
<1>1. /\ req[r].pc = "resume" /\ At(r, "idle")
      /\ checkpoint' = Complete(checkpoint, t)
      /\ Proceed(r, "advance")
      /\ UNCHANGED <<execution, committed, worker, run, approvals, lock, stops,
                     acknowledged>>
  BY InactiveIdle DEF Resume, InPlace, toolVars, productVars
<1>2. /\ run = "RUNNING" /\ lock = r
      /\ req[r].submission \in Submissions
      /\ checkpoint.interrupt /\ InterruptMatches(v)
      /\ checkpoint.next = "request_approval"
      /\ checkpoint.proposal \in Proposals
      /\ checkpoint \in AgentGraphState
      /\ Len(checkpoint.execution_records) <= MAX_PLAN_ACTIONS
  BY <1>1 DEF IInv, TypeOK, LockInv, RequestInv, CheckpointInv, LockedPlaces,
              SubmitPlaces
<1>3. v \in Revisions
  BY <1>2 DEF Submissions
<1>4. /\ t \in AgentGraphState /\ t.interrupt = FALSE
      /\ t.execution_records = checkpoint.execution_records
  BY <1>2, ApplyApprovalResponseType
<1>5. t.approval_decision = "APPROVED" =>
         /\ t.approval_revision = v
         /\ approvals[v].decision = "APPROVED"
         /\ approvals[v].proposal_fingerprint = t.approval_proposal_fingerprint
  BY <1>2, ApplyApprovalResponseApproves DEF InterruptMatches
<1> HIDE DEF t
<1>6. /\ checkpoint' \in AgentGraphState
      /\ checkpoint'.interrupt = FALSE
      /\ checkpoint'.approval_decision = t.approval_decision
      /\ checkpoint'.approval_revision = t.approval_revision
      /\ checkpoint'.approval_proposal_fingerprint
            = t.approval_proposal_fingerprint
      /\ checkpoint'.execution_records = checkpoint.execution_records
  BY <1>1, <1>2, <1>4, CompleteType DEF Nodes
<1>7. /\ req' \in [Workers -> Requests]
      /\ req'[r].pc = "advance"
      /\ req'[r].submission = req[r].submission
      /\ req'[r].records = req[r].records
      /\ \A q \in Workers : q # r => req'[q] = req[q]
  BY <1>1, ProceedFacts DEF IInv, Places, LockedPlaces
<1>8. \A q \in Workers : q # r => req[q].pc \notin BusyPlaces
  BY <1>1, Exclusive DEF BusyPlaces, LockedPlaces
<1>9. TypeOK'
  BY <1>1, <1>6, <1>7 DEF IInv, TypeOK, ToolTypeOK
<1>10. LockInv' /\ StartInv'
  BY <1>1, <1>2, <1>7 DEF IInv, LockInv, StartInv, StartPlaces
<1>11. RequestInv'
  BY <1>1, <1>2, <1>7, <1>8
  DEF IInv, RequestInv, BusyPlaces, LockedPlaces, StartPlaces
<1>12. CheckpointInv'
  BY <1>1, <1>2, <1>3, <1>5, <1>6 DEF CheckpointInv, PersistedApproval
<1>13. CallInv'
  <2>1. \A q \in Workers : At(q, "idle")
    BY <1>1, IdleWorkers DEF OnlyActive, BusyPlaces, LockedPlaces
  <2> QED
    BY <1>1, <2>1 DEF CallInv, At
<1>14. ClaimInv' /\ WritesAreApproved'
  BY <1>1 DEF IInv, ClaimInv, At, Row, WritesAreApproved, PersistedApproval
<1>15. TerminalMatchesCheckpoint'
  BY <1>1, <1>2 DEF TerminalMatchesCheckpoint, TerminalStatuses
<1> QED
  BY <1>9, <1>10, <1>11, <1>12, <1>13, <1>14, <1>15 DEF IInv

\* A product transaction of the only busy request r, which keeps every
\* approved row and leaves r idle or still inside submit_agent_approval.
LEMMA ProductLemma ==
  ASSUME IInv, NEW r \in Workers, req[r].pc \in BusyPlaces \ {"advance"},
         req' \in [Workers -> Requests],
         \A q \in Workers : q # r => req'[q] = req[q],
         \/ req'[r].pc = "idle"
         \/ req'[r].pc = "inspect" /\ lock' = r,
         req'[r].pc = "inspect" => req'[r].submission \in Submissions,
         Len(req'[r].records) <= MAX_PLAN_ACTIONS,
         lock' \in Workers \cup {None},
         \A q \in Workers : q # r /\ lock = q => lock' = q,
         run' \in RunStatuses \ {"ABSENT"},
         approvals' \in [Revisions -> ApprovalRows],
         \A v \in Revisions :
            approvals[v].decision = "APPROVED" => approvals'[v] = approvals[v],
         TerminalMatchesCheckpoint',
         acknowledged' \in SUBSET Submissions,
         UNCHANGED <<toolVars, checkpoint, stops>>
  PROVE  IInv'
<1>1. \A q \in Workers : q # r => req[q].pc \notin BusyPlaces
  BY Exclusive
<1>2. \A q \in Workers : At(q, "idle")
  BY IdleWorkers DEF OnlyActive
<1>3. UNCHANGED <<execution, committed, worker, checkpoint, stops>>
  BY DEF toolVars
<1>4. TypeOK'
  BY <1>3 DEF IInv, TypeOK, ToolTypeOK
<1>5. LockInv'
  BY DEF IInv, LockInv, LockedPlaces
<1>6. StartInv'
  BY <1>1 DEF StartInv, BusyPlaces, StartPlaces
<1>7. RequestInv'
  BY <1>1, <1>3
  DEF IInv, RequestInv, BusyPlaces, LockedPlaces, StartPlaces, SubmitPlaces
<1>8. CheckpointInv'
  BY <1>3 DEF IInv, CheckpointInv, PersistedApproval
<1>9. CallInv'
  BY <1>2, <1>3 DEF CallInv, At
<1>10. ClaimInv'
  BY <1>3 DEF IInv, ClaimInv, At, Row
<1>11. WritesAreApproved'
  <2>1. \A id \in Identities : id[1] \in Revisions
    BY DEF Identities
  <2> QED
    BY <1>3, <2>1 DEF IInv, WritesAreApproved, PersistedApproval
<1> QED
  BY <1>4, <1>5, <1>6, <1>7, <1>8, <1>9, <1>10, <1>11 DEF IInv


\* Committing a first decision keeps the invariant and every older decision.
LEMMA RecordDecisionInv ==
  ASSUME IInv, NEW r \in Workers, RecordDecision(r)
  PROVE  /\ IInv'
         /\ \A v \in Revisions :
               approvals[v].decision \in Decisions => approvals'[v] = approvals[v]
         /\ run \notin TerminalStatuses
<1> DEFINE s == req[r].submission
<1>1. /\ req[r].pc = "decide"
      /\ approvals[s.revision].decision = "PENDING"
      /\ run = "PENDING_APPROVAL"
      /\ approvals' = [approvals EXCEPT ![s.revision].decision = s.decision,
                                        ![s.revision].feedback = s.feedback]
      /\ run' = "RUNNING"
      /\ Proceed(r, "inspect")
      /\ UNCHANGED <<toolVars, checkpoint, lock, stops, acknowledged>>
  BY DEF RecordDecision, InPlace
<1>2. s \in Submissions /\ lock = r
  BY <1>1 DEF IInv, RequestInv, SubmitPlaces, LockInv, LockedPlaces
<1>3. /\ s.revision \in Revisions /\ s.decision \in Decisions
      /\ s.feedback \in Feedbacks \cup {None}
  BY <1>2 DEF Submissions
<1>4. /\ req' \in [Workers -> Requests]
      /\ req'[r].pc = "inspect"
      /\ req'[r].submission = s
      /\ req'[r].records = req[r].records
      /\ \A q \in Workers : q # r => req'[q] = req[q]
  BY <1>1, ProceedFacts DEF IInv, Places, LockedPlaces
<1> HIDE DEF s
<1>5. approvals' \in [Revisions -> ApprovalRows]
  <2>1. approvals[s.revision] \in ApprovalRows
    BY <1>3 DEF IInv, TypeOK
  <2>2. [approvals[s.revision] EXCEPT !.decision = s.decision,
                                      !.feedback = s.feedback] \in ApprovalRows
    BY <1>3, <2>1 DEF ApprovalRows
  <2> QED
    BY <1>1, <1>3, <2>2 DEF IInv, TypeOK
<1>6. \A v \in Revisions : v # s.revision => approvals'[v] = approvals[v]
  BY <1>1 DEF IInv, TypeOK
<1>7. \A v \in Revisions :
         approvals[v].decision \in Decisions => approvals'[v] = approvals[v]
  BY <1>1, <1>6 DEF Decisions
<1>8. TerminalMatchesCheckpoint'
  BY <1>1 DEF TerminalMatchesCheckpoint, TerminalStatuses
<1>9. IInv'
  <2>1. /\ lock' \in Workers \cup {None}
        /\ \A q \in Workers : q # r /\ lock = q => lock' = q
        /\ acknowledged' \in SUBSET Submissions
        /\ Len(req'[r].records) <= MAX_PLAN_ACTIONS
        /\ run' \in RunStatuses \ {"ABSENT"}
    BY <1>1, <1>4 DEF IInv, TypeOK, RequestInv, RunStatuses
  <2>2. "APPROVED" \in Decisions
    BY DEF Decisions
  <2>3. req[r].pc \in BusyPlaces \ {"advance"}
    BY <1>1 DEF BusyPlaces, LockedPlaces
  <2> QED
    BY <1>1, <1>2, <1>4, <1>5, <1>7, <1>8, <2>1, <2>2, <2>3, ProductLemma
<1> QED
  BY <1>1, <1>7, <1>9 DEF TerminalStatuses

\* Recording progress from a settled checkpoint: the new run status matches
\* the checkpoint, and only an undecided approval row is written.
LEMMA RecordProgressFacts ==
  ASSUME IInv, RecordProgress, UNCHANGED checkpoint,
         InspectSnapshot(checkpoint) \in {"PENDING_INTERRUPT", "TERMINAL"},
         checkpoint.interrupt => CanRecordApproval
  PROVE  /\ run' \in RunStatuses \ {"ABSENT"}
         /\ approvals' \in [Revisions -> ApprovalRows]
         /\ \A v \in Revisions :
               approvals[v].decision \in Decisions => approvals'[v] = approvals[v]
         /\ TerminalMatchesCheckpoint'
         /\ run \in TerminalStatuses => run' = run
<1>1. /\ checkpoint \in AgentGraphState
      /\ checkpoint.revision_count \in Revisions
      /\ approvals \in [Revisions -> ApprovalRows]
  BY DEF IInv, TypeOK, AgentGraphState
<1>2. CASE checkpoint.interrupt
  <2>1. /\ run' = "PENDING_APPROVAL"
        /\ approvals' = [approvals EXCEPT
                            ![checkpoint.revision_count] = PendingApproval]
        /\ approvals[checkpoint.revision_count]
              \in {AbsentApproval, PendingApproval}
    BY <1>2 DEF RecordProgress, CanRecordApproval
  <2>2. Digest[checkpoint.proposal] \in Fingerprints
    BY <1>2, DigestType DEF IInv, CheckpointInv
  <2>3. /\ PendingApproval \in ApprovalRows
        /\ PendingApproval.decision \notin Decisions
        /\ AbsentApproval.decision \notin Decisions
    BY <2>2 DEF PendingApproval, AbsentApproval, ApprovalRows, Decisions
  <2>4. approvals' \in [Revisions -> ApprovalRows]
    BY <1>1, <2>1, <2>3
  <2>5. \A v \in Revisions :
           approvals[v].decision \in Decisions => approvals'[v] = approvals[v]
    BY <1>1, <2>1, <2>3
  <2>6. run \notin TerminalStatuses
    BY <1>1, <1>2, InspectSnapshotFacts DEF IInv, TerminalMatchesCheckpoint
  <2> QED
    BY <2>1, <2>4, <2>5, <2>6
    DEF RunStatuses, TerminalStatuses, TerminalMatchesCheckpoint
<1>3. CASE ~checkpoint.interrupt
  <2>1. run' = checkpoint.terminal_status /\ UNCHANGED approvals
    BY <1>3 DEF RecordProgress
  <2>2. InspectSnapshot(checkpoint) = "TERMINAL"
    BY <1>1, <1>3, InspectSnapshotFacts
  <2>3. checkpoint.terminal_status \in TerminalStatuses /\ checkpoint.next = "END"
    BY <1>1, <2>2, InspectSnapshotFacts
  <2>4. "ABSENT" \notin TerminalStatuses
    BY DEF TerminalStatuses
  <2> QED
    BY <1>1, <1>3, <2>1, <2>3, <2>4
    DEF RunStatuses, TerminalMatchesCheckpoint, IInv
<1> QED
  BY <1>2, <1>3

\* The commit of start_agent_run keeps the invariant and every decision.
LEMMA CommitStartInv ==
  ASSUME IInv, NEW r \in Workers, CommitStart(r)
  PROVE  /\ IInv'
         /\ \A v \in Revisions :
               approvals[v].decision \in Decisions => approvals'[v] = approvals[v]
         /\ run \in TerminalStatuses => run' = run
<1>1. /\ req[r].pc = "start_persist" /\ RecordProgress /\ Finish(r)
      /\ UNCHANGED <<toolVars, checkpoint, stops, acknowledged>>
  BY DEF CommitStart, InPlace
<1>2. /\ InspectSnapshot(checkpoint) \in {"PENDING_INTERRUPT", "TERMINAL"}
      /\ \A v \in Revisions : approvals[v] = AbsentApproval
      /\ checkpoint.revision_count \in Revisions
  BY <1>1 DEF IInv, TypeOK, AgentGraphState, RequestInv, StartInv, StartPlaces
<1>3. CanRecordApproval
  BY <1>2 DEF CanRecordApproval
<1>4. /\ run' \in RunStatuses \ {"ABSENT"}
      /\ approvals' \in [Revisions -> ApprovalRows]
      /\ \A v \in Revisions :
            approvals[v].decision \in Decisions => approvals'[v] = approvals[v]
      /\ TerminalMatchesCheckpoint'
      /\ run \in TerminalStatuses => run' = run
  BY <1>1, <1>2, <1>3, RecordProgressFacts
<1>5. /\ req' \in [Workers -> Requests]
      /\ req'[r] = IdleRequest
      /\ \A q \in Workers : q # r => req'[q] = req[q]
      /\ lock' \in Workers \cup {None}
      /\ \A q \in Workers : q # r /\ lock = q => lock' = q
  BY <1>1, FinishFacts DEF IInv
<1>6. IdleRequest.pc = "idle" /\ Len(IdleRequest.records) <= MAX_PLAN_ACTIONS
  BY DEF IdleRequest, MAX_PLAN_ACTIONS
<1>7. /\ "APPROVED" \in Decisions
      /\ req[r].pc \in BusyPlaces \ {"advance"}
      /\ acknowledged' \in SUBSET Submissions
  BY <1>1 DEF Decisions, BusyPlaces, StartPlaces, IInv, TypeOK
<1>8. IInv'
  BY <1>1, <1>4, <1>5, <1>6, <1>7, ProductLemma
<1> QED
  BY <1>4, <1>8

\* _persist_progress keeps the invariant, every decision and a terminal run.
LEMMA PersistProgressInv ==
  ASSUME IInv, NEW r \in Workers, PersistProgress(r)
  PROVE  /\ IInv'
         /\ \A v \in Revisions :
               approvals[v].decision \in Decisions => approvals'[v] = approvals[v]
         /\ run \in TerminalStatuses => run' = run
<1>1. /\ req[r].pc = "persist" /\ Finish(r)
      /\ UNCHANGED <<toolVars, checkpoint, stops>>
  BY DEF PersistProgress, InPlace
<1>2. /\ InspectSnapshot(checkpoint) \in {"PENDING_INTERRUPT", "TERMINAL"}
      /\ req[r].submission \in Submissions
      /\ At(r, "idle")
  BY <1>1, InactiveIdle DEF IInv, RequestInv, SubmitPlaces
<1>3. CASE checkpoint.interrupt /\ ~CanRecordApproval
  <2>1. UNCHANGED <<run, approvals, acknowledged>>
    BY <1>3 DEF PersistProgress, productVars
  <2>2. IInv'
    BY <1>1, <1>2, <2>1, FinishLemma
    DEF toolVars, IInv, TypeOK, ToolTypeOK, At
  <2> QED
    BY <2>1, <2>2
<1>4. CASE ~(checkpoint.interrupt /\ ~CanRecordApproval)
  <2>1. /\ RecordProgress
        /\ acknowledged' = acknowledged \cup {req[r].submission}
    BY <1>4 DEF PersistProgress
  <2>2. /\ run' \in RunStatuses \ {"ABSENT"}
        /\ approvals' \in [Revisions -> ApprovalRows]
        /\ \A v \in Revisions :
              approvals[v].decision \in Decisions => approvals'[v] = approvals[v]
        /\ TerminalMatchesCheckpoint'
        /\ run \in TerminalStatuses => run' = run
    BY <1>1, <1>2, <1>4, <2>1, RecordProgressFacts
  <2>3. /\ req' \in [Workers -> Requests]
        /\ req'[r] = IdleRequest
        /\ \A q \in Workers : q # r => req'[q] = req[q]
        /\ lock' \in Workers \cup {None}
        /\ \A q \in Workers : q # r /\ lock = q => lock' = q
    BY <1>1, FinishFacts DEF IInv
  <2>4. IdleRequest.pc = "idle" /\ Len(IdleRequest.records) <= MAX_PLAN_ACTIONS
    BY DEF IdleRequest, MAX_PLAN_ACTIONS
  <2>5. /\ "APPROVED" \in Decisions
        /\ req[r].pc \in BusyPlaces \ {"advance"}
        /\ acknowledged' \in SUBSET Submissions
    BY <1>1, <1>2, <2>1 DEF Decisions, BusyPlaces, LockedPlaces, IInv, TypeOK
  <2>6. IInv'
    BY <1>1, <2>2, <2>3, <2>4, <2>5, ProductLemma
  <2> QED
    BY <2>2, <2>6
<1> QED
  BY <1>3, <1>4


-----------------------------------------------------------------------------
(***************************************************************************)
(* The theorems.                                                           *)
(***************************************************************************)
LEMMA InitIInv == Init => IInv
<1> SUFFICES ASSUME Init PROVE IInv
  OBVIOUS
<1>1. TypeOK
  <2>1. IdleWorker \in WorkerStates
    BY AttemptAssumption DEF IdleWorker, WorkerStates, WorkerPlaces
  <2>2. AbsentRow \in Rows
    BY AttemptAssumption DEF AbsentRow, Rows, RowStatuses
  <2>3. IdleRequest \in Requests
    BY DEF IdleRequest, Requests, Places
  <2>4. AbsentApproval \in ApprovalRows
    BY DEF AbsentApproval, ApprovalRows
  <2>5. ToolTypeOK
    BY <2>1, <2>2 DEF Init, ToolInit, ToolTypeOK
  <2> QED
    BY <2>3, <2>4, <2>5, InitialGraphStateType, StopsAssumption
    DEF Init, TypeOK, RunStatuses
<1>2. \A r \in Workers : /\ req[r].pc = "idle" /\ Len(req[r].records) = 0
                         /\ worker[r].pc = "idle"
  BY DEF Init, ToolInit, IdleRequest, IdleWorker
<1>3. LockInv /\ StartInv
  BY <1>2 DEF Init, LockInv, StartInv, LockedPlaces, StartPlaces,
              InitialGraphState
<1>4. RequestInv
  BY <1>2 DEF RequestInv, SubmitPlaces, MAX_PLAN_ACTIONS
<1>5. CheckpointInv
  BY DEF Init, CheckpointInv, InitialGraphState, MAX_PLAN_ACTIONS
<1>6. CallInv
  BY <1>2 DEF CallInv, At
<1>7. ClaimInv /\ WritesAreApproved
  BY <1>2 DEF Init, ToolInit, ClaimInv, WritesAreApproved, At
<1>8. TerminalMatchesCheckpoint
  BY DEF Init, TerminalMatchesCheckpoint, TerminalStatuses
<1> QED
  BY <1>1, <1>3, <1>4, <1>5, <1>6, <1>7, <1>8 DEF IInv

\* What no step does to a decided approval or a terminal run.
Kept ==
    /\ \A v \in Revisions :
          approvals[v].decision \in Decisions => approvals'[v] = approvals[v]
    /\ run \in TerminalStatuses => run' = run

\* One step: the invariant is kept, and so is every decision.
LEMMA NextIInv ==
  ASSUME IInv, [Next]_vars
  PROVE  IInv' /\ Kept
<1>1. CASE UNCHANGED vars
  BY <1>1
  DEF vars, toolVars, IInv, TypeOK, ToolTypeOK, LockInv, StartInv, RequestInv,
      CheckpointInv, CallInv, ClaimInv, WritesAreApproved,
      TerminalMatchesCheckpoint, At, Row, InterruptMatches, PersistedApproval,
      MoreToExecute, CurrentIdentity, CurrentAction, Kept
<1>2. CASE Next
  <2>1. PICK r \in Workers :
           \/ StartRun(r)
           \/ \E s \in Submissions : Submit(r, s)
           \/ RequestPreview(r)
           \/ AcquireLock(r)
           \/ HandlerStep(r)
           \/ Stop(r)
    BY <1>2 DEF Next
  <2>2. CASE StartRun(r)
    BY <2>2, StartRunInv DEF StartRun, productVars, Kept
  <2>3. CASE \E s \in Submissions : Submit(r, s)
    BY <2>3, SubmitInv DEF Submit, productVars, Kept
  <2>4. CASE RequestPreview(r)
    BY <2>4, RequestPreviewInv DEF RequestPreview, productVars, Kept
  <2>5. CASE AcquireLock(r)
    BY <2>5, AcquireLockInv DEF AcquireLock, productVars, Kept
  <2>6. CASE Stop(r)
    BY <2>6, StopInv DEF Stop, productVars, Kept
  <2>7. CASE GraphStep(r)
    <3>1. CASE \/ AnalyzeGoal(r) \/ LoadContext(r) \/ GeneratePlan(r)
               \/ ValidatePlan(r)
      BY <3>1, PlanningNodesInv
      DEF AnalyzeGoal, LoadContext, GeneratePlan, ValidatePlan, Save,
          productVars, Kept
    <3>2. CASE Interrupt(r) \/ InterruptFails(r)
      BY <3>2, InterruptInv
      DEF Interrupt, InterruptFails, Save, productVars, Kept
    <3>3. CASE BeginAction(r)
      BY <3>3, BeginActionInv DEF BeginAction, productVars, Kept
    <3>4. CASE ActionStep(r)
      BY <3>4, ActionStepInv DEF ActionStep, productVars, Kept
    <3>5. CASE EndAction(r)
      BY <3>5, EndActionInv DEF EndAction, productVars, Kept
    <3>6. CASE ExecuteTasks(r) \/ VerifyResult(r) \/ Summarize(r)
      BY <3>6, ClosingNodesInv
      DEF ExecuteTasks, VerifyResult, Summarize, Save, productVars, Kept
    <3>7. CASE Settle(r)
      BY <3>7, SettleInv DEF Settle, productVars, Kept
    <3> QED
      BY <2>7, <3>1, <3>2, <3>3, <3>4, <3>5, <3>6, <3>7 DEF GraphStep
  <2>8. CASE CommitStart(r)
    BY <2>8, CommitStartInv DEF Kept
  <2>9. CASE PersistProgress(r)
    BY <2>9, PersistProgressInv DEF Kept
  <2>10. CASE RecordDecision(r)
    BY <2>10, RecordDecisionInv DEF Kept
  <2>11. CASE RecoverDecision(r)
    BY <2>11, RecoverDecisionInv DEF RecoverDecision, productVars, Kept
  <2>12. CASE RefuseDecision(r)
    BY <2>12, RefuseDecisionInv DEF RefuseDecision, productVars, Kept
  <2>13. CASE InspectDurable(r)
    BY <2>13, InspectDurableInv DEF InspectDurable, productVars, Kept
  <2>14. CASE Resume(r)
    BY <2>14, ResumeInv DEF Resume, productVars, Kept
  <2>15. CASE AnswerPreview(r)
    BY <2>15, AnswerPreviewInv DEF AnswerPreview, productVars, Kept
  <2> QED
    BY <2>1, <2>2, <2>3, <2>4, <2>5, <2>6, <2>7, <2>8, <2>9, <2>10, <2>11,
       <2>12, <2>13, <2>14, <2>15 DEF HandlerStep
<1> QED
  BY <1>1, <1>2

\* IInv is an inductive invariant of the two-store protocol.
THEOREM Invariance == Spec => []IInv
<1>1. Init => IInv
  BY InitIInv
<1>2. IInv /\ [Next]_vars => IInv'
  BY NextIInv
<1> QED
  BY <1>1, <1>2, PTL DEF Spec

\* Both stores, the claim rows and every request keep their types, for any
\* number of requests, revisions and stops.
THEOREM TypeCorrect == Spec => []TypeOK
<1>1. IInv => TypeOK
  BY DEF IInv
<1> QED
  BY <1>1, Invariance, PTL

\* An approved action is written to the domain tables at most once, however
\* requests overlap, retry and stop.
THEOREM AtMostOnceHolds == Spec => []AtMostOnce
<1>1. IInv => AtMostOnce
  BY DEF IInv, ClaimInv, AtMostOnce
<1> QED
  BY <1>1, Invariance, PTL

\* No domain write happens without a stored APPROVED decision for its
\* revision and fingerprint.
THEOREM WritesAreApprovedHolds == Spec => []WritesAreApproved
<1>1. IInv => WritesAreApproved
  BY DEF IInv
<1> QED
  BY <1>1, Invariance, PTL

\* A terminal run status always agrees with the finished checkpoint.
THEOREM TerminalMatchesCheckpointHolds == Spec => []TerminalMatchesCheckpoint
<1>1. IInv => TerminalMatchesCheckpoint
  BY DEF IInv
<1> QED
  BY <1>1, Invariance, PTL

\* No step rewrites a recorded decision or a terminal run status.
THEOREM DecisionsAreFinalHolds == Spec => DecisionsAreFinal
<1>1. IInv /\ [Next]_vars => [Kept]_vars
  BY NextIInv
<1>2. [][Kept]_vars => DecisionsAreFinal
  BY PTL DEF Kept, DecisionsAreFinal
<1> QED
  BY <1>1, <1>2, Invariance, PTL DEF Spec

-----------------------------------------------------------------------------
(***************************************************************************)
(* Refinement: AgentRunContract.                                           *)
(***************************************************************************)

\* The approval row of the revision that the checkpoint is at.
CurrentRow == approvals[checkpoint.revision_count]

\* The checkpoint has taken over a decision that ends the planning.
Concluded == checkpoint.approval_decision \in {"APPROVED", "REJECTED"}

\* Earlier revisions were sent back, later ones do not exist, and the row of
\* the current one is undecided exactly while the run waits for a decision.
RowsInv ==
    /\ \A v \in Revisions :
          /\ v < checkpoint.revision_count =>
                approvals[v].decision = "REQUEST_CHANGES"
          /\ v > checkpoint.revision_count => approvals[v].decision = "ABSENT"
    /\ checkpoint.approval_decision = "NONE" => checkpoint.revision_count = 0
    /\ run = "RUNNING" /\ CurrentRow.decision = "ABSENT" =>
          checkpoint.revision_count > 0
    /\ CurrentRow.decision = "PENDING" <=> run = "PENDING_APPROVAL"
    /\ CurrentRow.decision # "ABSENT" =>
          /\ CurrentRow.proposal_fingerprint = Digest[checkpoint.proposal]
          /\ checkpoint.interrupt \/ Concluded

\* What the checkpoint tells of itself: an interrupt is about the validated
\* proposal, an error leads to the end, and only an approval to execution.
GraphInv ==
    /\ checkpoint.interrupt =>
          /\ HasCurrentValidation(checkpoint)
          /\ ~checkpoint.workflow_error
          /\ ~Concluded
    /\ checkpoint.workflow_error =>
          checkpoint.next \in {"verify_result", "summarize", "END"}
    /\ checkpoint.next = "execute_tasks" => checkpoint.approval_decision = "APPROVED"
    /\ checkpoint.execution_records # << >> => checkpoint.approval_decision = "APPROVED"

\* A decision that the checkpoint took over is the one that is stored.
ConcludedInv ==
    Concluded =>
        /\ checkpoint.next \in {"execute_tasks", "verify_result", "summarize", "END"}
        /\ checkpoint.approval_revision = checkpoint.revision_count
        /\ checkpoint.approval_proposal_fingerprint = Digest[checkpoint.proposal]
        /\ checkpoint.proposal \in Proposals
        /\ checkpoint.approval_decision = "APPROVED" => CurrentRow.decision = "APPROVED"
        /\ checkpoint.approval_decision = "REJECTED" =>
              /\ \/ CurrentRow.decision = "REJECTED"
                 \/ /\ CurrentRow.decision = "REQUEST_CHANGES"
                    /\ checkpoint.revision_count = MAX_PLAN_REVISIONS
              /\ HasCurrentValidation(checkpoint)
              /\ ~checkpoint.workflow_error

\* A request that got past its decision holds the submission that is stored.
SubmissionInv ==
    \A r \in Workers :
        req[r].pc \in {"inspect", "resume", "advance", "persist"} =>
            SameSubmission(req[r].submission)

\* Success of a coordinator call, or of its row, stands for a write.
DurableInv ==
    /\ \A id \in Identities : execution[id].status = "COMPLETED" => committed[id] >= 1
    /\ \A w \in Workers :
          worker[w].pc \in {"complete_read", "complete_write", "replay", "returned"} =>
              committed[worker[w].id] >= 1

\* Records follow the plan, and a record of success stands for a write.
TrueRecords(records) ==
    \A i \in 1..Len(records) :
        records[i].outcome = "SUCCEEDED" =>
            committed[<<checkpoint.revision_count, Digest[checkpoint.proposal],
                        records[i].action_key>>] >= 1

RecordsInv ==
    /\ TrueRecords(checkpoint.execution_records)
    /\ \A r \in Workers :
          req[r].records # << >> =>
              /\ req[r].pc = "advance"
              /\ checkpoint.approval_decision = "APPROVED"
              /\ TrueRecords(req[r].records)

StoresInv ==
    /\ RowsInv
    /\ GraphInv
    /\ ConcludedInv
    /\ SubmissionInv
    /\ DurableInv
    /\ RecordsInv
    /\ AcknowledgedDecisionsTakeEffect

-----------------------------------------------------------------------------
\* The run that does not exist yet is the initial state of the contract.
LEMMA InitRefines == Init => Contract!Init
  BY DEF Init, ToolInit, AbsentApproval, Identities, Contract!Init

-----------------------------------------------------------------------------
(***************************************************************************)
(* Operators of the graph: which fields a node and its checkpoint keep.    *)
(***************************************************************************)
\* A node that does not execute, seen from the approval protocol.
LEMMA NodeFields ==
  ASSUME NEW s \in AgentGraphState, NEW t,
         \/ \E ok \in BOOLEAN : t = analysis_node(s, ok) \/ t = context_node(s, ok)
         \/ \E result \in Proposals \cup {None} : t = planning_node(s, result)
         \/ \E verdict \in {"VALID", "INVALID", "ERROR"} : t = validation_node(s, verdict)
         \/ t = Failed(s)
  PROVE  /\ SavedBy(s, t)
         /\ t.revision_count = s.revision_count
         /\ t.execution_records = s.execution_records
<1>1. SavedBy(s, t)
  BY AnalysisType, ContextType, PlanningType, ValidationType, FailedType
<1>2. /\ t.revision_count = s.revision_count
      /\ t.execution_records = s.execution_records
  BY DEF analysis_node, context_node, planning_node, validation_node, Failed,
         AgentGraphState
<1> QED
  BY <1>1, <1>2

\* Complete sets the next node and nothing else.
LEMMA CompleteFields ==
  ASSUME NEW s \in AgentGraphState, s.next \in Nodes, NEW t \in AgentGraphState
  PROVE  /\ Complete(s, t).next = Route(s.next, t)
         /\ Complete(s, t).proposal = t.proposal
         /\ Complete(s, t).validation = t.validation
         /\ Complete(s, t).revision_count = t.revision_count
         /\ Complete(s, t).terminal_status = t.terminal_status
         /\ Complete(s, t).workflow_error = t.workflow_error
BY RouteType DEF Complete, AgentGraphState

-----------------------------------------------------------------------------
(***************************************************************************)
(* Steps that change requests only.                                        *)
(***************************************************************************)
\* The parts of the invariant that are about the two stores alone.
LEMMA StoresUnchanged ==
  ASSUME StoresInv, UNCHANGED <<run, approvals, checkpoint, acknowledged>>
  PROVE  /\ RowsInv' /\ GraphInv' /\ ConcludedInv'
         /\ AcknowledgedDecisionsTakeEffect'
         /\ \A s : SameSubmission(s)' = SameSubmission(s)
         /\ UNCHANGED committed =>
               \A records : TrueRecords(records)' = TrueRecords(records)
<1>1. RowsInv'
  BY DEF StoresInv, RowsInv, CurrentRow, Concluded
<1>2. GraphInv'
  BY DEF StoresInv, GraphInv, Concluded
<1>3. ConcludedInv'
  BY DEF StoresInv, ConcludedInv, CurrentRow, Concluded
<1>4. \A s : SameSubmission(s)' = SameSubmission(s)
  BY DEF SameSubmission
<1>5. AcknowledgedDecisionsTakeEffect'
  BY <1>4 DEF StoresInv, AcknowledgedDecisionsTakeEffect
<1>6. UNCHANGED committed =>
         \A records : TrueRecords(records)' = TrueRecords(records)
  BY DEF TrueRecords
<1> QED
  BY <1>1, <1>2, <1>3, <1>4, <1>5, <1>6

\* A step that moves request r without a change to the stores, and may drop
\* its coordinator call.
LEMMA MoveRequest ==
  ASSUME StoresInv, NEW r \in Workers,
         UNCHANGED <<execution, committed, run, approvals, checkpoint, acknowledged>>,
         \A q \in Workers : q # r => req'[q] = req[q] /\ worker'[q] = worker[q],
         worker'[r] = worker[r] \/ worker'[r].pc = "idle",
         \/ req'[r].records = << >>
         \/ /\ req'[r].records = req[r].records
            /\ req'[r].pc = req[r].pc,
         req'[r].pc \in {"inspect", "resume", "advance", "persist"} =>
             SameSubmission(req'[r].submission)
  PROVE  StoresInv'
<1>1. /\ RowsInv' /\ GraphInv' /\ ConcludedInv'
      /\ AcknowledgedDecisionsTakeEffect'
      /\ \A s : SameSubmission(s)' = SameSubmission(s)
      /\ \A records : TrueRecords(records)' = TrueRecords(records)
  BY StoresUnchanged
<1>2. SubmissionInv'
  <2> SUFFICES ASSUME NEW q \in Workers,
                      req'[q].pc \in {"inspect", "resume", "advance", "persist"}
               PROVE  SameSubmission(req'[q].submission)
    BY <1>1 DEF SubmissionInv, SameSubmission
  <2> QED
    BY DEF StoresInv, SubmissionInv
<1>3. DurableInv'
  BY DEF StoresInv, DurableInv
<1>4. RecordsInv'
  <2>1. TrueRecords(checkpoint.execution_records)'
    BY DEF StoresInv, RecordsInv, TrueRecords
  <2>2. ASSUME NEW q \in Workers, req'[q].records # << >>
        PROVE  /\ req'[q].pc = "advance"
               /\ checkpoint'.approval_decision = "APPROVED"
               /\ TrueRecords(req'[q].records)
    BY <2>2 DEF StoresInv, RecordsInv
  <2> QED
    BY <2>1, <2>2 DEF RecordsInv, TrueRecords
<1> QED
  BY <1>1, <1>2, <1>3, <1>4 DEF StoresInv


\* Steps of a handler outside the graph that write neither store.
LEMMA WaitingSteps ==
  ASSUME IInv, StoresInv, NEW r \in Workers,
         \/ \E s \in Submissions : Submit(r, s)
         \/ RequestPreview(r) \/ AcquireLock(r)
  PROVE  StoresInv'
<1>1. /\ TypeOK
      /\ req[r].records = << >>
      /\ UNCHANGED <<execution, committed, worker, run, approvals, checkpoint,
                     acknowledged>>
  BY DEF Submit, RequestPreview, AcquireLock, InPlace, IInv, StoresInv,
         RecordsInv, toolVars, productVars
<1>2. CASE \E s \in Submissions : Submit(r, s)
  <2>1. PICK s \in Submissions : Submit(r, s)
    BY <1>2
  <2>2. /\ req'[r].pc = "wait_submit"
        /\ req'[r].records = req[r].records
        /\ \A q \in Workers : q # r => req'[q] = req[q]
    BY <1>1, <2>1 DEF TypeOK, Submit, Requests
  <2> QED
    BY <1>1, <2>2, MoveRequest
<1>3. CASE RequestPreview(r)
  <2>1. /\ req'[r].pc = "wait_preview"
        /\ req'[r].records = req[r].records
        /\ \A q \in Workers : q # r => req'[q] = req[q]
    BY <1>1, <1>3, ProceedFacts DEF RequestPreview, Places
  <2> QED
    BY <1>1, <2>1, MoveRequest
<1>4. CASE AcquireLock(r)
  <2>1. PICK place \in {"decide", "preview"} : Proceed(r, place)
    BY <1>4 DEF AcquireLock
  <2>2. /\ req'[r].pc = place
        /\ req'[r].records = req[r].records
        /\ \A q \in Workers : q # r => req'[q] = req[q]
    BY <1>1, <2>1, ProceedFacts DEF Places, LockedPlaces
  <2> QED
    BY <1>1, <2>2, MoveRequest
<1> QED
  BY <1>2, <1>3, <1>4

\* A handler that ends or stops leaves the stores as they are.
LEMMA EndingSteps ==
  ASSUME IInv, StoresInv, NEW r \in Workers,
         RefuseDecision(r) \/ AnswerPreview(r) \/ Stop(r)
  PROVE  StoresInv'
<1>1. /\ TypeOK /\ Finish(r)
      /\ UNCHANGED <<execution, committed, run, approvals, checkpoint,
                     acknowledged>>
      /\ worker' = worker \/ worker' = [worker EXCEPT ![r] = IdleWorker]
  BY DEF RefuseDecision, AnswerPreview, Stop, IInv, toolVars, productVars
<1>2. /\ req'[r].pc = "idle" /\ req'[r].records = << >>
      /\ \A q \in Workers : q # r => req'[q] = req[q]
  BY <1>1, FinishFacts DEF IdleRequest
<1>3. /\ \A q \in Workers : q # r => worker'[q] = worker[q]
      /\ worker'[r] = worker[r] \/ worker'[r].pc = "idle"
  BY <1>1 DEF TypeOK, ToolTypeOK, IdleWorker
<1> QED
  BY <1>1, <1>2, <1>3, MoveRequest

\* A decision that is recognised, inspected or has settled in the graph moves
\* the request with the submission that is stored.
LEMMA ForwardSteps ==
  ASSUME IInv, StoresInv, NEW r \in Workers,
         RecoverDecision(r) \/ InspectDurable(r) \/ Settle(r)
  PROVE  StoresInv'
<1>1. /\ TypeOK
      /\ UNCHANGED <<execution, committed, worker, run, approvals, checkpoint,
                     acknowledged>>
  BY DEF RecoverDecision, InspectDurable, Settle, IInv, toolVars, productVars
<1>2. CASE RecoverDecision(r)
  <2>1. req[r].records = << >> /\ SameSubmission(req[r].submission)
    BY <1>2 DEF RecoverDecision, InPlace, StoresInv, RecordsInv
  <2>2. /\ req'[r].submission = req[r].submission
        /\ req'[r].records = req[r].records
        /\ \A q \in Workers : q # r => req'[q] = req[q]
    BY <1>1, <1>2, ProceedFacts DEF RecoverDecision, Places, LockedPlaces
  <2> QED
    BY <1>1, <2>1, <2>2, MoveRequest
<1>3. CASE InspectDurable(r)
  <2>1. /\ req[r].records = << >> /\ SameSubmission(req[r].submission)
        /\ req[r].submission.revision \in Revisions
    BY <1>3 DEF InspectDurable, InPlace, StoresInv, RecordsInv, SubmissionInv,
                IInv, RequestInv, SubmitPlaces, Submissions
  <2>2. /\ \A q \in Workers : q # r => req'[q] = req[q]
        /\ req'[r].records = << >>
        /\ \/ req'[r].pc = "idle"
           \/ req'[r].submission = req[r].submission
    <3>1. CASE NextPlace(req[r].submission.revision) = "refuse"
      BY <1>1, <1>3, <3>1, FinishFacts DEF InspectDurable, IdleRequest
    <3>2. CASE NextPlace(req[r].submission.revision) # "refuse"
      <4>1. PICK place \in {"persist", "advance", "resume"} : Proceed(r, place)
        BY <1>3, <2>1, <3>2, NextPlaceFacts DEF InspectDurable
      <4> QED
        BY <1>1, <2>1, <4>1, ProceedFacts DEF Places, LockedPlaces
    <3> QED
      BY <3>1, <3>2
  <2> QED
    BY <1>1, <2>1, <2>2, MoveRequest
<1>4. CASE Settle(r)
  <2>1. /\ req'[r].records = << >>
        /\ req'[r].submission = req[r].submission
        /\ req'[r].pc = "persist" => req[r].pc = "advance"
        /\ req'[r].pc \in {"persist", "start_persist"}
        /\ \A q \in Workers : q # r => req'[q] = req[q]
    BY <1>1, <1>4 DEF Settle, TypeOK, Requests
  <2>2. req'[r].pc = "persist" => SameSubmission(req'[r].submission)
    BY <2>1 DEF StoresInv, SubmissionInv
  <2> QED
    BY <1>1, <2>1, <2>2, MoveRequest
<1> QED
  BY <1>2, <1>3, <1>4

-----------------------------------------------------------------------------
(***************************************************************************)
(* The graph nodes.                                                        *)
(***************************************************************************)
\* Where the graph goes once its outcome is settled.
EndingNodes == {"verify_result", "summarize", "END"}

\* A node that saves t and respects what the stored decision settled.
LEMMA SaveKeeps ==
  ASSUME IInv, StoresInv, NEW r \in Workers, NEW node \in Nodes,
         AtNode(r, node), NEW t, SavedBy(checkpoint, t), Save(t),
         t.revision_count = checkpoint.revision_count,
         TrueRecords(t.execution_records),
         t.execution_records # << >> => checkpoint.approval_decision = "APPROVED",
         Concluded => /\ t.proposal = checkpoint.proposal
                      /\ t.validation = checkpoint.validation
                      /\ Route(node, t) \in EndingNodes,
         checkpoint.approval_decision = "REJECTED" => ~t.workflow_error,
         t.workflow_error => Route(node, t) \in EndingNodes,
         Route(node, t) # "execute_tasks"
  PROVE  StoresInv'
<1>1. /\ checkpoint \in AgentGraphState /\ checkpoint.next = node
      /\ t \in AgentGraphState /\ ~checkpoint.interrupt
      /\ checkpoint' = Complete(checkpoint, t)
      /\ UNCHANGED <<execution, committed, worker, run, approvals, req,
                     acknowledged>>
  BY DEF IInv, TypeOK, AtNode, SavedBy, Save, toolVars, productVars
<1>2. /\ checkpoint'.interrupt = FALSE
      /\ checkpoint'.next = Route(node, t)
      /\ checkpoint'.approval_decision = checkpoint.approval_decision
      /\ checkpoint'.approval_revision = checkpoint.approval_revision
      /\ checkpoint'.approval_proposal_fingerprint
            = checkpoint.approval_proposal_fingerprint
      /\ checkpoint'.execution_records = t.execution_records
      /\ checkpoint'.revision_count = checkpoint.revision_count
      /\ checkpoint'.workflow_error = t.workflow_error
      /\ checkpoint'.proposal = t.proposal
      /\ checkpoint'.validation = t.validation
  BY <1>1, CompleteType, CompleteFields DEF SavedBy, AgentGraphState
<1>3. Concluded' = Concluded
  BY <1>2 DEF Concluded
<1>4. RowsInv'
  <2>1. CurrentRow' = CurrentRow
    BY <1>1, <1>2 DEF CurrentRow
  <2>2. CurrentRow.decision # "ABSENT" => Concluded
    BY <1>1 DEF StoresInv, RowsInv
  <2> QED
    BY <1>1, <1>2, <1>3, <2>1, <2>2 DEF StoresInv, RowsInv
<1>5. GraphInv'
  BY <1>2, <1>3 DEF GraphInv, EndingNodes
<1>6. ConcludedInv'
  BY <1>1, <1>2, <1>3
  DEF StoresInv, ConcludedInv, CurrentRow, Concluded, HasCurrentValidation,
      EndingNodes
<1>7. \A s : SameSubmission(s)' = SameSubmission(s)
  BY <1>1 DEF SameSubmission
<1>8. SubmissionInv' /\ AcknowledgedDecisionsTakeEffect'
  BY <1>1, <1>2, <1>7
  DEF StoresInv, SubmissionInv, AcknowledgedDecisionsTakeEffect, SameSubmission
<1>9. DurableInv'
  BY <1>1 DEF StoresInv, DurableInv
<1>10. RecordsInv'
  <2>1. CASE Concluded
    BY <1>1, <1>2, <2>1 DEF StoresInv, RecordsInv, TrueRecords
  <2>2. CASE ~Concluded
    <3>1. /\ checkpoint'.execution_records = << >>
          /\ \A q \in Workers : req'[q].records = << >>
      BY <1>1, <1>2, <2>2 DEF StoresInv, RecordsInv, Concluded
    <3> QED
      BY <3>1 DEF RecordsInv, TrueRecords
  <2> QED
    BY <2>1, <2>2
<1> QED
  BY <1>4, <1>5, <1>6, <1>8, <1>9, <1>10 DEF StoresInv

\* Nodes up to the approval: the planning is not concluded yet, and an error
\* sends the graph to verify_result.
LEMMA PlanningSteps ==
  ASSUME IInv, StoresInv, NEW r \in Workers,
         \/ AnalyzeGoal(r) \/ LoadContext(r) \/ GeneratePlan(r)
         \/ ValidatePlan(r) \/ InterruptFails(r)
  PROVE  StoresInv'
<1>0. checkpoint \in AgentGraphState
  BY DEF IInv, TypeOK
<1>1. ASSUME NEW node \in {"analyze_goal", "load_context", "generate_plan",
                           "validate_plan", "request_approval"},
             AtNode(r, node), NEW t, Save(t),
             SavedBy(checkpoint, t),
             t.revision_count = checkpoint.revision_count,
             t.execution_records = checkpoint.execution_records,
             node = "request_approval" => t.workflow_error
      PROVE  StoresInv'
  <2>1. node \in Nodes /\ ~Concluded
    BY <1>1 DEF Nodes, AtNode, StoresInv, ConcludedInv
  <2>2. /\ Route(node, t) # "execute_tasks"
        /\ t.workflow_error => Route(node, t) = "verify_result"
    BY <1>1 DEF Route, ContinueOrVerify, route_validation, route_approval
  <2>3. /\ TrueRecords(t.execution_records)
        /\ t.execution_records # << >> =>
              checkpoint.approval_decision = "APPROVED"
    BY <1>1 DEF StoresInv, RecordsInv, GraphInv
  <2> QED
    BY <1>1, <2>1, <2>2, <2>3, SaveKeeps DEF Concluded, EndingNodes
<1>2. CASE AnalyzeGoal(r)
  <2>1. PICK ok \in BOOLEAN : Save(analysis_node(checkpoint, ok))
    BY <1>2 DEF AnalyzeGoal
  <2> QED
    BY <1>0, <1>1, <1>2, <2>1, NodeFields DEF AnalyzeGoal
<1>3. CASE LoadContext(r)
  <2>1. PICK ok \in BOOLEAN : Save(context_node(checkpoint, ok))
    BY <1>3 DEF LoadContext
  <2> QED
    BY <1>0, <1>1, <1>3, <2>1, NodeFields DEF LoadContext
<1>4. CASE GeneratePlan(r)
  <2>1. PICK result \in Proposals \cup {None} :
           Save(planning_node(checkpoint, result))
    BY <1>4 DEF GeneratePlan
  <2> QED
    BY <1>0, <1>1, <1>4, <2>1, NodeFields DEF GeneratePlan
<1>5. CASE ValidatePlan(r)
  <2>1. PICK verdict \in {"VALID", "INVALID", "ERROR"} :
           Save(validation_node(checkpoint, verdict))
    BY <1>5 DEF ValidatePlan
  <2> QED
    BY <1>0, <1>1, <1>5, <2>1, NodeFields DEF ValidatePlan
<1>6. CASE InterruptFails(r)
  <2>1. Failed(checkpoint).workflow_error
    BY <1>0 DEF Failed, AgentGraphState
  <2> QED
    BY <1>0, <1>1, <1>6, <2>1, NodeFields DEF InterruptFails
<1> QED
  BY <1>2, <1>3, <1>4, <1>5, <1>6

\* execute_tasks, verify_result and summarize: the conclusion stays, and the
\* records stored are those of the request that executed the plan.
LEMMA ClosingSteps ==
  ASSUME IInv, StoresInv, NEW r \in Workers,
         ExecuteTasks(r) \/ VerifyResult(r) \/ Summarize(r)
  PROVE  StoresInv'
<1>0. /\ checkpoint \in AgentGraphState
      /\ Len(checkpoint.execution_records) <= MAX_PLAN_ACTIONS
      /\ req[r].records \in Seq(Records)
      /\ Len(req[r].records) <= MAX_PLAN_ACTIONS
      /\ TrueRecords(checkpoint.execution_records)
      /\ checkpoint.execution_records # << >> =>
            checkpoint.approval_decision = "APPROVED"
      /\ checkpoint.approval_decision = "REJECTED" => ~checkpoint.workflow_error
  BY DEF IInv, TypeOK, CheckpointInv, RequestInv, Requests, StoresInv,
         RecordsInv, GraphInv, ConcludedInv, Concluded
<1>1. CASE ExecuteTasks(r)
  <2> DEFINE t == IF IsCurrentlyAuthorized(checkpoint)
                  THEN execution_node(checkpoint, req[r].records)
                  ELSE Failed(checkpoint)
  <2>1. SavedBy(checkpoint, t)
    BY <1>0, ExecutionType, FailedType
  <2>2. /\ t.revision_count = checkpoint.revision_count
        /\ t.proposal = checkpoint.proposal
        /\ t.validation = checkpoint.validation
        /\ t.execution_records \in {checkpoint.execution_records, req[r].records}
    BY <1>0 DEF execution_node, Failed, AgentGraphState
  <2>3. /\ AtNode(r, "execute_tasks") /\ Save(t)
        /\ checkpoint.approval_decision = "APPROVED"
    BY <1>1 DEF ExecuteTasks, AtNode, StoresInv, GraphInv
  <2> HIDE DEF t
  <2>4. TrueRecords(req[r].records)
    <3>1. CASE req[r].records = << >>
      BY <3>1 DEF TrueRecords
    <3>2. CASE req[r].records # << >>
      BY <3>2 DEF StoresInv, RecordsInv
    <3> QED
      BY <3>1, <3>2
  <2>5. Route("execute_tasks", t) = "verify_result"
    BY DEF Route
  <2> QED
    BY <1>0, <2>1, <2>2, <2>3, <2>4, <2>5, SaveKeeps DEF Nodes, EndingNodes
<1>2. CASE VerifyResult(r)
  <2> DEFINE t == verification_node(checkpoint)
  <2>1. SavedBy(checkpoint, t)
    BY <1>0, VerificationType
  <2>2. /\ t.revision_count = checkpoint.revision_count
        /\ t.proposal = checkpoint.proposal
        /\ t.validation = checkpoint.validation
        /\ t.workflow_error = checkpoint.workflow_error
        /\ t.execution_records = checkpoint.execution_records
    BY <1>0 DEF verification_node, AgentGraphState
  <2>3. AtNode(r, "verify_result") /\ Save(t)
    BY <1>2 DEF VerifyResult
  <2> HIDE DEF t
  <2>4. Route("verify_result", t) = "summarize"
    BY DEF Route
  <2> QED
    BY <1>0, <2>1, <2>2, <2>3, <2>4, SaveKeeps DEF Nodes, EndingNodes
<1>3. CASE Summarize(r)
  <2>1. SavedBy(checkpoint, checkpoint)
    BY <1>0 DEF SavedBy
  <2>2. AtNode(r, "summarize") /\ Save(checkpoint)
    BY <1>3 DEF Summarize
  <2>3. Route("summarize", checkpoint) = "END"
    BY DEF Route
  <2> QED
    BY <1>0, <2>1, <2>2, <2>3, SaveKeeps DEF Nodes, EndingNodes
<1> QED
  BY <1>1, <1>2, <1>3

\* The interrupt is reached with a validated proposal that nobody decided.
LEMMA InterruptStep ==
  ASSUME IInv, StoresInv, NEW r \in Workers, Interrupt(r)
  PROVE  StoresInv'
<1>1. /\ checkpoint \in AgentGraphState
      /\ checkpoint.next = "request_approval" /\ ~checkpoint.interrupt
      /\ HasCurrentValidation(checkpoint)
      /\ checkpoint' = [checkpoint EXCEPT !.interrupt = TRUE]
      /\ UNCHANGED <<execution, committed, worker, run, approvals, req,
                     acknowledged>>
  BY DEF IInv, TypeOK, Interrupt, AtNode, CanRequestApproval, toolVars,
         productVars
<1>2. /\ checkpoint'.interrupt = TRUE
      /\ checkpoint'.next = "request_approval"
      /\ checkpoint'.proposal = checkpoint.proposal
      /\ checkpoint'.validation = checkpoint.validation
      /\ checkpoint'.approval_decision = checkpoint.approval_decision
      /\ checkpoint'.execution_records = checkpoint.execution_records
      /\ checkpoint'.revision_count = checkpoint.revision_count
      /\ checkpoint'.workflow_error = checkpoint.workflow_error
  BY <1>1 DEF AgentGraphState
<1>3. ~Concluded /\ ~Concluded' /\ ~checkpoint.workflow_error
  BY <1>1, <1>2 DEF StoresInv, ConcludedInv, GraphInv, Concluded
<1>4. RowsInv'
  <2>1. CurrentRow.decision = "ABSENT" /\ CurrentRow' = CurrentRow
    BY <1>1, <1>2, <1>3 DEF StoresInv, RowsInv, CurrentRow
  <2> QED
    BY <1>1, <1>2, <1>3, <2>1 DEF StoresInv, RowsInv
<1>5. GraphInv' /\ ConcludedInv'
  BY <1>1, <1>2, <1>3
  DEF StoresInv, GraphInv, ConcludedInv, HasCurrentValidation
<1>6. SubmissionInv' /\ AcknowledgedDecisionsTakeEffect'
  <2>1. \A s : SameSubmission(s)' = SameSubmission(s)
    BY <1>1 DEF SameSubmission
  <2> QED
    BY <1>1, <1>2, <2>1
    DEF StoresInv, SubmissionInv, AcknowledgedDecisionsTakeEffect,
        SameSubmission
<1>7. DurableInv' /\ RecordsInv'
  BY <1>1, <1>2 DEF StoresInv, DurableInv, RecordsInv, TrueRecords
<1> QED
  BY <1>4, <1>5, <1>6, <1>7 DEF StoresInv

-----------------------------------------------------------------------------
(***************************************************************************)
(* The actions of an approved plan.                                        *)
(***************************************************************************)
\* A step of the coordinator writes nothing, or its action for the first time.
LEMMA CommittedStep ==
  ASSUME ToolTypeOK, ClaimInv, NEW w \in Workers, worker[w].id \in Identities,
         NEW approved, ToolStep(w, approved)
  PROVE  \/ UNCHANGED committed
         \/ /\ At(w, "dispatch") /\ committed[worker[w].id] = 0
            /\ committed' = [committed EXCEPT ![worker[w].id] = 1]
            /\ UNCHANGED execution
            /\ worker'[w].pc \in {"complete_read", "fail_read"}
<1>1. CASE DispatchSucceeds(w) \/ DispatchUnknown(w)
  <2>1. committed[worker[w].id] = 0 /\ committed[worker[w].id] + 1 = 1
    BY <1>1 DEF DispatchSucceeds, DispatchUnknown, ClaimInv
  <2>2. worker'[w].pc \in {"complete_read", "fail_read"}
    BY <1>1, GotoMoves, FailureMoves
    DEF DispatchSucceeds, DispatchUnknown, Moved, WorkerPlaces
  <2> QED
    BY <1>1, <2>1, <2>2 DEF DispatchSucceeds, DispatchUnknown
<1>2. CASE ~(DispatchSucceeds(w) \/ DispatchUnknown(w))
  BY <1>2 DEF ToolStep, ClaimRead, ClaimInsert, ClaimReread, ClaimRestart,
              Replay, DispatchProvenNoWrite, CompletionRead, CompletionWrite,
              FailureRead, FailureWrite
<1> QED
  BY <1>1, <1>2

\* Where a step of the coordinator may go, and what it makes of its row:
\* success comes from a dispatch that committed or from a completed row.
LEMMA DurableStep ==
  ASSUME ToolTypeOK, ClaimInv, NEW w \in Workers, worker[w].id \in Identities,
         NEW approved, ToolStep(w, approved), DurableInv
  PROVE  /\ worker'[w].pc \in {"complete_read", "complete_write", "replay",
                               "returned"} => committed'[worker[w].id] >= 1
         /\ \A id \in Identities :
               /\ committed'[id] >= committed[id]
               /\ execution'[id].status = "COMPLETED" => committed'[id] >= 1
<1> DEFINE id0 == worker[w].id
           Good == {"complete_read", "complete_write", "replay", "returned"}
<1>0. /\ committed \in [Identities -> Nat] /\ execution \in [Identities -> Rows]
      /\ Row(w) \in Rows /\ Row(w).attempt_count \in 0..MAX_ATTEMPT_COUNT
      /\ Row(w).status = "COMPLETED" => committed[id0] >= 1
      /\ worker[w].pc \in Good => committed[id0] >= 1
  BY DEF ToolTypeOK, DurableInv, Row, Rows
<1>1. \A id \in Identities : /\ committed[id] \in Nat /\ committed'[id] \in Nat
                              /\ committed'[id] >= committed[id]
  BY <1>0, CommittedStep
<1>2. \A id \in Identities :
         execution'[id].status = "COMPLETED" =>
            \/ execution[id].status = "COMPLETED"
            \/ id = id0 /\ worker[w].pc = "complete_write"
  <2>1. CASE ClaimInsert(w) \/ ClaimRestart(w)
    BY <1>0, <2>1 DEF ClaimInsert, ClaimRestart, Transaction, SetRow
  <2>2. CASE FailureWrite(w)
    <3>1. worker[w].failure \in {"FAILED", "UNKNOWN"}
      BY <2>2 DEF FailureWrite, At, ClaimInv
    <3> QED
      BY <1>0, <2>2, <3>1 DEF FailureWrite, Transaction, SetRow, Row, Rows
  <2>3. CASE CompletionWrite(w)
    BY <1>0, <2>3 DEF CompletionWrite, At, Transaction, SetRow, Row
  <2>4. CASE ~(ClaimInsert(w) \/ ClaimRestart(w) \/ FailureWrite(w)
               \/ CompletionWrite(w))
    BY <2>4 DEF ToolStep, ClaimRead, ClaimReread, Replay, DispatchSucceeds,
                DispatchProvenNoWrite, DispatchUnknown, CompletionRead,
                FailureRead
  <2> QED
    BY <2>1, <2>2, <2>3, <2>4
<1>3. worker'[w].pc \in Good =>
         \/ worker[w].pc \in Good
         \/ Row(w).status = "COMPLETED"
         \/ DispatchSucceeds(w)
  <2>1. CASE ClaimRead(w, approved) \/ ClaimReread(w)
    <3>1. PICK place \in {"raised", "insert", "replay", "restart"} :
             /\ worker' = [worker EXCEPT ![w].seen = Row(w).attempt_count,
                                         ![w].pc = place]
             /\ place = "replay" => Row(w).status = "COMPLETED"
      BY <2>1 DEF ClaimRead, ClaimReread, ClassifyExisting
    <3>2. worker'[w].pc = place
      BY <1>0, <3>1, ReadMoves DEF Moved, WorkerPlaces
    <3> QED
      BY <3>1, <3>2
  <2>2. CASE ClaimInsert(w) \/ ClaimRestart(w) \/ FailureRead(w)
             \/ FailureWrite(w)
    <3>1. PICK place \in {"dispatch", "raised", "reread", "fail_write"} :
             Goto(w, place)
      BY <2>2 DEF ClaimInsert, ClaimRestart, FailureRead, FailureWrite,
                  Transaction
    <3> QED
      BY <3>1, GotoMoves DEF Moved, WorkerPlaces
  <2>3. CASE DispatchProvenNoWrite(w) \/ DispatchUnknown(w)
    <3>1. worker'[w].pc = "fail_read"
      BY <2>3, FailureMoves
      DEF DispatchProvenNoWrite, DispatchUnknown, Moved, WorkerPlaces
    <3> QED
      BY <3>1
  <2>4. CASE Replay(w) \/ CompletionRead(w) \/ CompletionWrite(w)
    BY <2>4 DEF Replay, CompletionRead, CompletionWrite, At
  <2> QED
    BY <2>1, <2>2, <2>3, <2>4 DEF ToolStep
<1>4. DispatchSucceeds(w) => committed'[id0] >= 1
  BY <1>0, <1>1 DEF DispatchSucceeds
<1>5. worker'[w].pc \in Good => committed'[id0] >= 1
  BY <1>0, <1>1, <1>3, <1>4
<1>6. \A id \in Identities : execution'[id].status = "COMPLETED" => committed'[id] >= 1
  BY <1>0, <1>1, <1>2 DEF DurableInv
<1> QED
  BY <1>1, <1>5, <1>6

\* A record of the checkpoint's plan names an action identity.
LEMMA RecordIdentity ==
  ASSUME IInv, checkpoint.proposal \in Proposals,
         NEW records \in Seq(Records), NEW i \in 1..Len(records)
  PROVE  <<checkpoint.revision_count, Digest[checkpoint.proposal],
           records[i].action_key>> \in Identities
<1>1. records[i] \in Records
  OBVIOUS
<1>2. /\ records[i].action_key \in ActionKeys
      /\ checkpoint.revision_count \in Revisions
      /\ Digest[checkpoint.proposal] \in Fingerprints
  BY <1>1, DigestType DEF Records, IInv, TypeOK, AgentGraphState
<1> QED
  BY <1>2 DEF Identities

\* Handing an action to the coordinator: nothing is claimed yet.
LEMMA BeginActionStep ==
  ASSUME IInv, StoresInv, NEW r \in Workers, BeginAction(r)
  PROVE  StoresInv'
<1>1. UNCHANGED <<execution, committed, run, approvals, checkpoint, req,
                  acknowledged>>
  BY DEF BeginAction, Call, productVars
<1>2. /\ worker'[r].pc = "claim"
      /\ \A q \in Workers : q # r => worker'[q] = worker[q]
  BY DEF BeginAction, Call, IdleWorker, IInv, TypeOK, ToolTypeOK
<1>3. /\ RowsInv' /\ GraphInv' /\ ConcludedInv'
      /\ AcknowledgedDecisionsTakeEffect'
      /\ \A s : SameSubmission(s)' = SameSubmission(s)
      /\ \A records : TrueRecords(records)' = TrueRecords(records)
  BY <1>1, StoresUnchanged
<1>4. SubmissionInv'
  BY <1>1 DEF StoresInv, SubmissionInv, SameSubmission
<1>5. DurableInv'
  BY <1>1, <1>2 DEF StoresInv, DurableInv
<1>6. RecordsInv'
  BY <1>1 DEF StoresInv, RecordsInv, TrueRecords
<1> QED
  BY <1>3, <1>4, <1>5, <1>6 DEF StoresInv

\* What is known of a request inside a coordinator call.
LEMMA InAction ==
  ASSUME IInv, NEW r \in Workers, ActionStep(r)
  PROVE  /\ worker[r].id = CurrentIdentity(r) /\ worker[r].id \in Identities
         /\ PersistedApproval(worker[r].id)
         /\ IsCurrentlyAuthorized(checkpoint) /\ MoreToExecute(r)
         /\ checkpoint.proposal \in Proposals
         /\ req[r].pc = "advance" /\ OnlyActive(r)
<1>1. ~At(r, "idle")
  BY DEF ActionStep, ToolStep, ClaimRead, ClaimInsert, ClaimReread,
         ClaimRestart, Replay, DispatchSucceeds, DispatchProvenNoWrite,
         DispatchUnknown, CompletionRead, CompletionWrite, FailureRead,
         FailureWrite, At
<1>2. /\ req[r].pc = "advance" /\ IsCurrentlyAuthorized(checkpoint)
      /\ MoreToExecute(r) /\ worker[r].id = CurrentIdentity(r)
  BY <1>1 DEF IInv, CallInv
<1>3. worker[r].id \in Identities /\ PersistedApproval(worker[r].id)
  BY <1>2, CurrentActionType
<1>4. checkpoint.proposal \in Proposals
  BY <1>2 DEF IsCurrentlyAuthorized, HasCurrentPlanBinding,
              HasCurrentValidation, IInv, TypeOK, AgentGraphState
<1>5. OnlyActive(r)
  BY <1>2, IdleWorkers DEF BusyPlaces, LockedPlaces
<1> QED
  BY <1>2, <1>3, <1>4, <1>5

\* A step of the coordinator: writes are never taken back, and success has one.
LEMMA ActionStepStep ==
  ASSUME IInv, StoresInv, NEW r \in Workers, ActionStep(r)
  PROVE  StoresInv'
<1>1. /\ worker[r].id \in Identities /\ checkpoint.proposal \in Proposals
      /\ OnlyActive(r) /\ ToolTypeOK /\ ClaimInv /\ DurableInv
  BY InAction DEF IInv, TypeOK, StoresInv
<1>2. /\ ToolStep(r, PersistedApproval(worker[r].id))
      /\ UNCHANGED <<run, approvals, checkpoint, req, acknowledged>>
  BY DEF ActionStep, productVars
<1>3. /\ worker'[r].pc \in {"complete_read", "complete_write", "replay",
                            "returned"} => committed'[worker[r].id] >= 1
      /\ \A id \in Identities :
            /\ committed'[id] >= committed[id]
            /\ execution'[id].status = "COMPLETED" => committed'[id] >= 1
  BY <1>1, <1>2, DurableStep
<1>4. ToolTypeOK' /\ Advanced(r)
  BY <1>1, <1>2, ToolStepPreserves DEF PersistedApproval
<1>5. /\ RowsInv' /\ GraphInv' /\ ConcludedInv'
      /\ AcknowledgedDecisionsTakeEffect'
      /\ \A s : SameSubmission(s)' = SameSubmission(s)
  BY <1>2, StoresUnchanged
<1>6. SubmissionInv'
  BY <1>2 DEF StoresInv, SubmissionInv, SameSubmission
<1>7. DurableInv'
  BY <1>1, <1>3, <1>4 DEF DurableInv, Advanced, OnlyActive, At
<1>8. ASSUME NEW records \in Seq(Records), TrueRecords(records)
      PROVE  TrueRecords(records)'
  <2>1. \A id \in Identities : committed[id] \in Nat /\ committed'[id] \in Nat
    BY <1>1, <1>4 DEF ToolTypeOK
  <2> QED
    BY <1>1, <1>2, <1>3, <1>8, <2>1, RecordIdentity DEF TrueRecords
<1>9. RecordsInv'
  <2>1. /\ checkpoint.execution_records \in Seq(Records)
        /\ \A q \in Workers : req[q].records \in Seq(Records)
    BY DEF IInv, TypeOK, AgentGraphState, Requests
  <2> QED
    BY <1>2, <1>8, <2>1 DEF StoresInv, RecordsInv, TrueRecords
<1> QED
  BY <1>5, <1>6, <1>7, <1>9 DEF StoresInv

\* The record of an action: SUCCEEDED only after its write.
LEMMA EndActionStep ==
  ASSUME IInv, StoresInv, NEW r \in Workers, EndAction(r)
  PROVE  StoresInv'
<1> DEFINE rec == [action_key |-> CurrentAction(r).action_key,
                   tool_name |-> CurrentAction(r).tool_name,
                   outcome |-> IF At(r, "returned") THEN "SUCCEEDED"
                                                    ELSE "FAILED"]
           records == Append(req[r].records, rec)
<1>1. /\ req[r].pc = "advance" /\ IsCurrentlyAuthorized(checkpoint)
      /\ MoreToExecute(r) /\ worker[r].id = CurrentIdentity(r)
  BY DEF EndAction, At, IInv, CallInv
<1>2. req[r] \in Requests /\ req[r].records \in Seq(Records)
  BY DEF IInv, TypeOK, Requests
<1>3. rec.outcome = "SUCCEEDED" =>
         committed[<<checkpoint.revision_count, Digest[checkpoint.proposal],
                     rec.action_key>>] >= 1
  BY <1>1 DEF At, CurrentIdentity, StoresInv, DurableInv
<1>4. UNCHANGED <<execution, committed, run, approvals, checkpoint, acknowledged>>
  BY DEF EndAction, productVars
<1>5. /\ \A q \in Workers : q # r => req'[q] = req[q] /\ worker'[q] = worker[q]
      /\ worker'[r].pc = "idle"
      /\ req'[r].pc = "advance"
      /\ req'[r].submission = req[r].submission
      /\ req'[r].records = records
  BY <1>1, <1>2 DEF EndAction, IInv, TypeOK, ToolTypeOK, Requests, IdleWorker
<1>6. rec \in Records
  <2>1. CurrentAction(r) \in Actions
    BY <1>1, CurrentActionType
  <2> QED
    BY <2>1 DEF Records, Actions, Outcomes
<1> HIDE DEF rec
<1>7. TrueRecords(req[r].records)
  <2>1. CASE req[r].records = << >>
    BY <2>1 DEF TrueRecords
  <2>2. CASE req[r].records # << >>
    BY <2>2 DEF StoresInv, RecordsInv
  <2> QED
    BY <2>1, <2>2
<1>8. TrueRecords(records)
  <2>1. /\ Len(records) = Len(req[r].records) + 1
        /\ Len(req[r].records) \in Nat
        /\ \A i \in 1..Len(req[r].records) : records[i] = req[r].records[i]
        /\ records[Len(req[r].records) + 1] = rec
    BY <1>2, <1>6
  <2> HIDE DEF records
  <2> SUFFICES ASSUME NEW i \in 1..Len(records),
                      records[i].outcome = "SUCCEEDED"
               PROVE  committed[<<checkpoint.revision_count,
                                  Digest[checkpoint.proposal],
                                  records[i].action_key>>] >= 1
    BY DEF TrueRecords
  <2>2. CASE i \in 1..Len(req[r].records)
    BY <1>7, <2>1, <2>2 DEF TrueRecords
  <2>3. CASE i = Len(req[r].records) + 1
    BY <1>3, <2>1, <2>3
  <2> QED
    BY <2>1, <2>2, <2>3
<1> HIDE DEF records
<1>9. /\ RowsInv' /\ GraphInv' /\ ConcludedInv'
      /\ AcknowledgedDecisionsTakeEffect'
      /\ \A s : SameSubmission(s)' = SameSubmission(s)
      /\ \A x : TrueRecords(x)' = TrueRecords(x)
  BY <1>4, StoresUnchanged
<1>10. SubmissionInv'
  <2> SUFFICES ASSUME NEW q \in Workers,
                      req'[q].pc \in {"inspect", "resume", "advance", "persist"}
               PROVE  SameSubmission(req'[q].submission)
    BY <1>9 DEF SubmissionInv, SameSubmission
  <2> QED
    BY <1>1, <1>5 DEF StoresInv, SubmissionInv
<1>11. DurableInv'
  BY <1>4, <1>5 DEF StoresInv, DurableInv
<1>12. RecordsInv'
  <2>1. ASSUME NEW q \in Workers, req'[q].records # << >>
        PROVE  /\ req'[q].pc = "advance"
               /\ checkpoint'.approval_decision = "APPROVED"
               /\ TrueRecords(req'[q].records)
    BY <1>1, <1>4, <1>5, <1>8, <2>1
    DEF StoresInv, RecordsInv, IsCurrentlyAuthorized
  <2>2. TrueRecords(checkpoint.execution_records)'
    BY <1>4 DEF StoresInv, RecordsInv, TrueRecords
  <2> QED
    BY <1>4, <2>1, <2>2 DEF RecordsInv, TrueRecords
<1> QED
  BY <1>9, <1>10, <1>11, <1>12 DEF StoresInv

-----------------------------------------------------------------------------
(***************************************************************************)
(* Steps that begin the run or resume the graph.                           *)
(***************************************************************************)
\* No run, no rows: nobody was answered and nothing is known of a decision.
LEMMA StartRunStep ==
  ASSUME IInv, StoresInv, NEW r \in Workers, StartRun(r)
  PROVE  StoresInv'
<1>1. /\ run = "ABSENT" /\ checkpoint' = InitialGraphState
      /\ UNCHANGED <<execution, committed, worker, run, approvals, acknowledged>>
      /\ \A v \in Revisions : approvals[v] = AbsentApproval
      /\ AbsentApproval.decision = "ABSENT"
  BY DEF StartRun, toolVars, productVars, IInv, StartInv, AbsentApproval
<1>2. /\ req'[r].pc = "starting"
      /\ req'[r].records = req[r].records
      /\ \A q \in Workers : q # r => req'[q] = req[q]
  BY ProceedFacts DEF StartRun, IInv, Places
<1>3. \A q \in Workers :
         /\ req'[q].pc \in {"idle", "starting"}
         /\ req'[q].records = << >>
  BY <1>1, <1>2
  DEF StartRun, InPlace, IInv, StartInv, StartPlaces, StoresInv, RecordsInv
<1>4. /\ checkpoint'.approval_decision = "NONE"
      /\ checkpoint'.interrupt = FALSE
      /\ checkpoint'.workflow_error = FALSE
      /\ checkpoint'.next = "analyze_goal"
      /\ checkpoint'.revision_count = 0
      /\ checkpoint'.execution_records = << >>
      /\ 0 \in Revisions
  BY <1>1, RevisionAssumption DEF InitialGraphState, Revisions
<1>5. acknowledged = {}
  <2>1. \A s \in acknowledged : s.revision \in Revisions /\ s.decision \in Decisions
    BY DEF IInv, TypeOK, Submissions
  <2> QED
    BY <1>1, <2>1
    DEF StoresInv, AcknowledgedDecisionsTakeEffect, SameSubmission, Decisions
<1>6. RowsInv'
  BY <1>1, <1>4 DEF RowsInv, CurrentRow, Revisions
<1>7. GraphInv' /\ ConcludedInv'
  BY <1>4 DEF GraphInv, ConcludedInv, Concluded
<1>8. SubmissionInv' /\ AcknowledgedDecisionsTakeEffect'
  BY <1>1, <1>3, <1>5 DEF SubmissionInv, AcknowledgedDecisionsTakeEffect
<1>9. DurableInv'
  BY <1>1 DEF StoresInv, DurableInv
<1>10. RecordsInv'
  BY <1>3, <1>4 DEF RecordsInv, TrueRecords
<1> QED
  BY <1>6, <1>7, <1>8, <1>9, <1>10 DEF StoresInv

\* c is the checkpoint that the response to a decision leaves of s.
Responded(s, decision, c) ==
    /\ c.interrupt = FALSE
    /\ c.workflow_error = FALSE
    /\ c.execution_records = s.execution_records
    /\ decision = "REQUEST_CHANGES" /\ ~RevisionLimitReached(s) =>
          /\ c.approval_decision = "REQUEST_CHANGES"
          /\ c.revision_count = s.revision_count + 1
          /\ c.next = "generate_plan"
    /\ ~(decision = "REQUEST_CHANGES" /\ ~RevisionLimitReached(s)) =>
          /\ c.approval_decision =
                IF decision = "APPROVED" THEN "APPROVED" ELSE "REJECTED"
          /\ c.approval_revision = s.revision_count
          /\ c.approval_proposal_fingerprint = Digest[s.proposal]
          /\ c.revision_count = s.revision_count
          /\ c.proposal = s.proposal
          /\ c.validation = s.validation
          /\ c.next = IF decision = "APPROVED" THEN "execute_tasks"
                                               ELSE "verify_result"

\* The fields of the approval response, and where the graph goes with it.
LEMMA ResponseFields ==
  ASSUME NEW s \in AgentGraphState, s.proposal \in Proposals,
         s.workflow_error = FALSE, s.next = "request_approval",
         NEW decision \in Decisions
  PROVE  Responded(s, decision,
                   Complete(s, ApplyApprovalResponse(s, decision)))
<1> DEFINE t == ApplyApprovalResponse(s, decision)
           c == Complete(s, t)
<1>1. t \in AgentGraphState /\ t.interrupt = FALSE
      /\ t.execution_records = s.execution_records
  BY ApplyApprovalResponseType
<1>2. /\ t.workflow_error = s.workflow_error
      /\ decision = "REQUEST_CHANGES" /\ ~RevisionLimitReached(s) =>
            /\ t.approval_decision = "REQUEST_CHANGES"
            /\ t.revision_count = s.revision_count + 1
      /\ ~(decision = "REQUEST_CHANGES" /\ ~RevisionLimitReached(s)) =>
            /\ t.approval_decision =
                  IF decision = "APPROVED" THEN "APPROVED" ELSE "REJECTED"
            /\ t.approval_revision = s.revision_count
            /\ t.approval_proposal_fingerprint = Digest[s.proposal]
            /\ t.revision_count = s.revision_count
            /\ t.proposal = s.proposal
            /\ t.validation = s.validation
  BY DEF ApplyApprovalResponse, AgentGraphState
<1> HIDE DEF t
<1>3. /\ c.next = Route("request_approval", t)
      /\ c.interrupt = t.interrupt
      /\ c.workflow_error = t.workflow_error
      /\ c.execution_records = t.execution_records
      /\ c.approval_decision = t.approval_decision
      /\ c.approval_revision = t.approval_revision
      /\ c.approval_proposal_fingerprint = t.approval_proposal_fingerprint
      /\ c.revision_count = t.revision_count
      /\ c.proposal = t.proposal
      /\ c.validation = t.validation
  BY <1>1, CompleteType, CompleteFields DEF t, Nodes
<1> HIDE DEF c
<1>4. Route("request_approval", t) =
         IF t.approval_decision = "APPROVED" THEN "execute_tasks"
         ELSE IF t.approval_decision = "REQUEST_CHANGES" THEN "generate_plan"
         ELSE "verify_result"
  BY <1>2 DEF Route, route_approval, ContinueOrVerify
<1> QED
  BY <1>1, <1>2, <1>3, <1>4 DEF c, t, Responded

\* resume_durable: the checkpoint takes over the stored decision.
LEMMA ResumeStep ==
  ASSUME IInv, StoresInv, NEW r \in Workers, Resume(r)
  PROVE  StoresInv'
<1> DEFINE v == checkpoint.revision_count
           d == approvals[v].decision
<1>1. /\ req[r].pc = "resume" /\ req[r].submission \in Submissions
      /\ run = "RUNNING"
      /\ checkpoint.interrupt /\ InterruptMatches(req[r].submission.revision)
      /\ checkpoint.next = "request_approval"
      /\ checkpoint.proposal \in Proposals /\ checkpoint \in AgentGraphState
  BY DEF Resume, InPlace, IInv, TypeOK, RequestInv, CheckpointInv, SubmitPlaces
<1>2. /\ HasCurrentValidation(checkpoint) /\ ~checkpoint.workflow_error
      /\ ~Concluded /\ checkpoint.execution_records = << >>
      /\ SameSubmission(req[r].submission)
      /\ \A q \in Workers : req[q].records = << >>
  BY <1>1 DEF StoresInv, GraphInv, Concluded, SubmissionInv, RecordsInv
<1>3. /\ req[r].submission.revision = v
      /\ d \in Decisions /\ v \in Revisions
  BY <1>1, <1>2 DEF InterruptMatches, SameSubmission, Submissions, AgentGraphState
<1>4. /\ checkpoint' = Complete(checkpoint, ApplyApprovalResponse(checkpoint, d))
      /\ UNCHANGED <<execution, committed, worker, run, approvals, acknowledged>>
  BY <1>3 DEF Resume, toolVars, productVars
<1>5. /\ req'[r].pc = "advance"
      /\ req'[r].submission = req[r].submission
      /\ \A q \in Workers : req'[q].records = << >>
      /\ \A q \in Workers : q # r => req'[q] = req[q]
  BY <1>2, ProceedFacts DEF Resume, IInv, Places, LockedPlaces
<1>6. Responded(checkpoint, d, checkpoint')
  <2>1. checkpoint.workflow_error = FALSE
    BY <1>1, <1>2 DEF AgentGraphState
  <2> HIDE DEF d
  <2> QED
    BY <1>1, <1>3, <1>4, <2>1, ResponseFields
<1>7. \A s : SameSubmission(s)' = SameSubmission(s)
  BY <1>4 DEF SameSubmission
<1>8. SubmissionInv'
  <2> SUFFICES ASSUME NEW q \in Workers,
                      req'[q].pc \in {"inspect", "resume", "advance", "persist"}
               PROVE  SameSubmission(req'[q].submission)
    BY <1>7 DEF SubmissionInv, SameSubmission
  <2> QED
    BY <1>2, <1>5 DEF StoresInv, SubmissionInv
<1>9. DurableInv'
  BY <1>4 DEF StoresInv, DurableInv
<1>10. RecordsInv'
  BY <1>2, <1>5, <1>6 DEF RecordsInv, TrueRecords, Responded
<1>11. /\ v \in Nat /\ v <= MAX_PLAN_REVISIONS
       /\ RevisionLimitReached(checkpoint) <=> v = MAX_PLAN_REVISIONS
  BY <1>3, RevisionAssumption DEF Revisions, RevisionLimitReached
<1>12. AcknowledgedDecisionsTakeEffect'
  <2>1. checkpoint'.revision_count \in {v, v + 1}
    BY <1>6 DEF Responded
  <2>2. \A s \in acknowledged : s.revision \in Nat
    BY DEF IInv, TypeOK, Submissions, Revisions
  <2>3. \A s \in acknowledged : v > s.revision =>
                                   checkpoint'.revision_count > s.revision
    BY <1>11, <2>1, <2>2
  <2> QED
    BY <1>4, <1>7, <2>3
    DEF StoresInv, AcknowledgedDecisionsTakeEffect, SameSubmission
<1>13. CASE d = "REQUEST_CHANGES" /\ ~RevisionLimitReached(checkpoint)
  <2>1. v + 1 \in Revisions /\ approvals[v + 1].decision = "ABSENT"
    BY <1>11, <1>13, RevisionAssumption DEF Revisions, StoresInv, RowsInv
  <2>2. RowsInv'
    BY <1>1, <1>4, <1>6, <1>11, <1>13, <2>1
    DEF StoresInv, RowsInv, CurrentRow, Revisions, Responded
  <2>3. GraphInv' /\ ConcludedInv'
    BY <1>2, <1>6, <1>13 DEF GraphInv, ConcludedInv, Concluded, Responded
  <2> QED
    BY <1>8, <1>9, <1>10, <1>12, <2>2, <2>3 DEF StoresInv
<1>14. CASE ~(d = "REQUEST_CHANGES" /\ ~RevisionLimitReached(checkpoint))
  <2>1. Concluded'
    BY <1>6, <1>14 DEF Concluded, Responded
  <2>2. RowsInv'
    BY <1>1, <1>4, <1>6, <1>14, <2>1
    DEF StoresInv, RowsInv, CurrentRow, Responded
  <2>3. GraphInv'
    BY <1>2, <1>6, <1>14 DEF GraphInv, Responded
  <2>4. ConcludedInv'
    BY <1>1, <1>2, <1>3, <1>4, <1>6, <1>11, <1>14
    DEF ConcludedInv, CurrentRow, HasCurrentValidation, Decisions, Responded
  <2> QED
    BY <1>8, <1>9, <1>10, <1>12, <2>2, <2>3, <2>4 DEF StoresInv
<1> QED
  BY <1>13, <1>14

-----------------------------------------------------------------------------
(***************************************************************************)
(* Steps that write the product tables.                                    *)
(***************************************************************************)
\* What the first decision does to the row it is about, the current one.
LEMMA DecisionFacts ==
  ASSUME IInv, StoresInv, NEW r \in Workers, RecordDecision(r)
  PROVE  LET s == req[r].submission IN
         /\ s \in Submissions /\ s.revision = checkpoint.revision_count
         /\ approvals[s.revision].decision = "PENDING"
         /\ run = "PENDING_APPROVAL" /\ run' = "RUNNING"
         /\ checkpoint.interrupt /\ ~Concluded
         /\ approvals'[s.revision].decision = s.decision
         /\ approvals'[s.revision].feedback = s.feedback
         /\ approvals[s.revision].proposal_fingerprint = s.proposal_fingerprint
         /\ approvals'[s.revision].proposal_fingerprint = s.proposal_fingerprint
         /\ \A v \in Revisions : v # s.revision => approvals'[v] = approvals[v]
<1> DEFINE s == req[r].submission
<1>1. /\ req[r].pc = "decide"
      /\ approvals[s.revision].decision = "PENDING"
      /\ run = "PENDING_APPROVAL" /\ run' = "RUNNING"
      /\ approvals[s.revision].proposal_fingerprint = s.proposal_fingerprint
      /\ approvals' = [approvals EXCEPT ![s.revision].decision = s.decision,
                                        ![s.revision].feedback = s.feedback]
  BY DEF RecordDecision, InPlace
<1>2. s \in Submissions
  BY <1>1 DEF IInv, RequestInv, SubmitPlaces
<1>3. s.revision \in Revisions /\ approvals \in [Revisions -> ApprovalRows]
  BY <1>2 DEF Submissions, IInv, TypeOK
<1> HIDE DEF s
<1>4. /\ checkpoint.revision_count \in Nat /\ s.revision \in Nat
      /\ checkpoint.revision_count \in Revisions
  BY <1>3 DEF IInv, TypeOK, AgentGraphState, Revisions
<1>5. s.revision = checkpoint.revision_count
  BY <1>1, <1>3, <1>4 DEF StoresInv, RowsInv
<1>6. ~Concluded /\ checkpoint.interrupt
  BY <1>1, <1>5
  DEF StoresInv, ConcludedInv, RowsInv, Concluded, CurrentRow
<1>7. /\ approvals'[s.revision].decision = s.decision
      /\ approvals'[s.revision].feedback = s.feedback
      /\ approvals'[s.revision].proposal_fingerprint
            = approvals[s.revision].proposal_fingerprint
      /\ \A v \in Revisions : v # s.revision => approvals'[v] = approvals[v]
  BY <1>1, <1>3 DEF ApprovalRows
<1> QED
  BY <1>1, <1>2, <1>5, <1>6, <1>7 DEF s

\* The first decision is about the current row; nobody was answered for it.
LEMMA RecordDecisionStep ==
  ASSUME IInv, StoresInv, NEW r \in Workers, RecordDecision(r)
  PROVE  StoresInv'
<1> DEFINE s == req[r].submission
           v0 == checkpoint.revision_count
<1>1. /\ s \in Submissions /\ s.revision = v0
      /\ approvals[v0].decision = "PENDING"
      /\ run = "PENDING_APPROVAL" /\ run' = "RUNNING"
      /\ checkpoint.interrupt /\ ~Concluded
      /\ approvals'[v0].decision = s.decision
      /\ approvals'[v0].feedback = s.feedback
      /\ approvals[v0].proposal_fingerprint = s.proposal_fingerprint
      /\ approvals'[v0].proposal_fingerprint = s.proposal_fingerprint
      /\ \A v \in Revisions : v # v0 => approvals'[v] = approvals[v]
  BY DecisionFacts
<1>2. /\ req[r].pc = "decide"
      /\ UNCHANGED <<execution, committed, worker, checkpoint, acknowledged>>
  BY DEF RecordDecision, InPlace, toolVars
<1>3. /\ req'[r].pc = "inspect"
      /\ req'[r].submission = s
      /\ req'[r].records = req[r].records
      /\ req[r].records = << >>
      /\ \A q \in Workers : q # r => req'[q] = req[q]
  BY <1>2, ProceedFacts
  DEF RecordDecision, IInv, Places, LockedPlaces, StoresInv, RecordsInv
<1>4. \A q \in Workers : q # r => req[q].pc \notin BusyPlaces
  BY <1>2, Exclusive DEF BusyPlaces, LockedPlaces
<1> HIDE DEF s
<1>5. s.decision \in Decisions /\ v0 \in Revisions /\ v0 \in Nat
  BY <1>1 DEF Submissions, IInv, TypeOK, AgentGraphState, Revisions
<1>6. RowsInv'
  <2>1. \A v \in Revisions : v # v0 => approvals'[v].decision = approvals[v].decision
    BY <1>1
  <2>2. /\ CurrentRow'.decision \in Decisions
        /\ CurrentRow'.proposal_fingerprint = CurrentRow.proposal_fingerprint
        /\ CurrentRow.decision = "PENDING"
    BY <1>1, <1>2, <1>5 DEF CurrentRow
  <2> QED
    BY <1>1, <1>2, <1>5, <2>1, <2>2
    DEF StoresInv, RowsInv, Decisions, Concluded, Revisions
<1>7. GraphInv' /\ ConcludedInv'
  BY <1>1, <1>2 DEF StoresInv, GraphInv, ConcludedInv, Concluded
<1>8. SubmissionInv'
  <2>1. \A q \in Workers :
           req'[q].pc \in {"inspect", "resume", "advance", "persist"} => q = r
    BY <1>3, <1>4 DEF BusyPlaces, LockedPlaces
  <2> QED
    BY <1>1, <1>3, <2>1 DEF SubmissionInv, SameSubmission
<1>9. AcknowledgedDecisionsTakeEffect'
  <2> SUFFICES ASSUME NEW a \in acknowledged
               PROVE  /\ SameSubmission(a)'
                      /\ a.decision = "REQUEST_CHANGES"
                      /\ a.revision < MAX_PLAN_REVISIONS
                      /\ v0 > a.revision
    BY <1>2 DEF AcknowledgedDecisionsTakeEffect, SameSubmission
  <2>1. /\ a.revision \in Revisions /\ a.decision \in Decisions
        /\ approvals[a.revision].decision = a.decision
        /\ SameSubmission(a)
    BY DEF IInv, TypeOK, Submissions, StoresInv,
           AcknowledgedDecisionsTakeEffect, SameSubmission
  <2>2. a.revision # v0
    BY <1>1, <2>1 DEF Decisions
  <2> QED
    BY <1>1, <2>1, <2>2
    DEF StoresInv, AcknowledgedDecisionsTakeEffect, SameSubmission, Decisions
<1>10. DurableInv'
  BY <1>2 DEF StoresInv, DurableInv
<1>11. RecordsInv'
  BY <1>2, <1>3 DEF StoresInv, RecordsInv, TrueRecords
<1> QED
  BY <1>6, <1>7, <1>8, <1>9, <1>10, <1>11 DEF StoresInv

\* A finished checkpoint reports what verify_result makes of it: REJECTED
\* exactly for a rejection, success or partial failure only for an approval.
LEMMA OutcomeFacts ==
  ASSUME IInv, StoresInv, InspectSnapshot(checkpoint) = "TERMINAL"
  PROVE  /\ ~checkpoint.interrupt
         /\ checkpoint.terminal_status \in TerminalStatuses
         /\ checkpoint.terminal_status = verify_result(checkpoint).terminal_status
         /\ checkpoint.terminal_status = "REJECTED"
               <=> checkpoint.approval_decision = "REJECTED"
         /\ checkpoint.terminal_status \in {"SUCCEEDED", "PARTIAL_FAILURE"} =>
               /\ checkpoint.approval_decision = "APPROVED"
               /\ checkpoint.terminal_status =
                     VerifyRecords(checkpoint.execution_records,
                                   Plan[checkpoint.proposal]).terminal_status
<1> DEFINE c == checkpoint
           o == verify_result(c).terminal_status
<1>1. c \in AgentGraphState
  BY DEF IInv, TypeOK
<1>2. /\ ~c.interrupt /\ c.terminal_status \in TerminalStatuses
      /\ c.terminal_status = o
  <2>1. ~c.interrupt /\ c.terminal_status \in TerminalStatuses
    BY <1>1, InspectSnapshotFacts
  <2>2. CanSummarize(c)
    BY DEF InspectSnapshot
  <2> QED
    BY <2>1, <2>2 DEF CanSummarize
<1>3. c.approval_decision = "REJECTED" => o = "REJECTED"
  <2> SUFFICES ASSUME c.approval_decision = "REJECTED" PROVE o = "REJECTED"
    OBVIOUS
  <2>1. /\ ~c.workflow_error /\ HasCurrentPlanBinding(c)
        /\ c.execution_records = << >>
    BY DEF StoresInv, ConcludedInv, GraphInv, Concluded, HasCurrentPlanBinding
  <2> QED
    BY <2>1 DEF verify_result, Verdict
<1>4. VerifyRecords(c.execution_records, Plan[c.proposal]).terminal_status
         \in {"FAILED", "PARTIAL_FAILURE", "SUCCEEDED"}
  BY DEF VerifyRecords, Verdict, Invalid
<1>5. c.approval_decision # "REJECTED" =>
         \/ o = "FAILED"
         \/ /\ c.approval_decision = "APPROVED"
            /\ o = VerifyRecords(c.execution_records,
                                 Plan[c.proposal]).terminal_status
  BY DEF verify_result, Verdict, Invalid
<1> HIDE DEF o
<1> QED
  BY <1>2, <1>3, <1>4, <1>5 DEF o

\* What AcknowledgedDecisionsTakeEffect says of one submission.
TookEffect(s) ==
    /\ SameSubmission(s)
    /\ s.decision = "APPROVED" =>
          run \in {"SUCCEEDED", "PARTIAL_FAILURE", "FAILED"}
    /\ s.decision = "REJECTED" => run = "REJECTED"
    /\ s.decision = "REQUEST_CHANGES" =>
          IF s.revision < MAX_PLAN_REVISIONS
          THEN checkpoint.revision_count > s.revision
          ELSE run = "REJECTED"

\* The product transaction of a settled request: every part of the invariant
\* but what its own submission is answered with.
LEMMA ProgressKeeps ==
  ASSUME IInv, StoresInv, NEW r \in Workers,
         req[r].pc \in {"persist", "start_persist"},
         RecordProgress, Finish(r), checkpoint.interrupt => CanRecordApproval,
         UNCHANGED <<toolVars, checkpoint>>
  PROVE  /\ RowsInv' /\ GraphInv' /\ ConcludedInv' /\ SubmissionInv'
         /\ DurableInv' /\ RecordsInv'
         /\ \A s \in Submissions : TookEffect(s) => TookEffect(s)'
<1> DEFINE v0 == checkpoint.revision_count
<1>1. /\ UNCHANGED <<execution, committed, worker, checkpoint>>
      /\ InspectSnapshot(checkpoint) \in {"PENDING_INTERRUPT", "TERMINAL"}
      /\ v0 \in Revisions /\ v0 \in Nat
      /\ approvals \in [Revisions -> ApprovalRows]
  BY DEF toolVars, IInv, TypeOK, AgentGraphState, Revisions, RequestInv
<1>2. /\ req'[r].pc = "idle" /\ req'[r].records = << >>
      /\ \A q \in Workers : q # r => req'[q] = req[q]
  BY FinishFacts DEF IInv, IdleRequest
<1>3. \A q \in Workers : q # r => req[q].pc \notin BusyPlaces
  BY Exclusive DEF BusyPlaces, LockedPlaces, StartPlaces
<1>4. SubmissionInv'
  BY <1>2, <1>3 DEF SubmissionInv, BusyPlaces, LockedPlaces
<1>5. DurableInv'
  BY <1>1 DEF StoresInv, DurableInv
<1>6. RecordsInv'
  BY <1>1, <1>2 DEF StoresInv, RecordsInv, TrueRecords
<1>7. GraphInv'
  BY <1>1 DEF StoresInv, GraphInv, Concluded
<1>8. CASE checkpoint.interrupt
  <2>1. /\ run' = "PENDING_APPROVAL"
        /\ approvals' = [approvals EXCEPT ![v0] = PendingApproval]
        /\ approvals[v0] \in {AbsentApproval, PendingApproval}
    BY <1>8 DEF RecordProgress, CanRecordApproval
  <2>2. /\ PendingApproval.decision = "PENDING"
        /\ PendingApproval.proposal_fingerprint = Digest[checkpoint.proposal]
        /\ AbsentApproval.decision = "ABSENT"
    BY DEF PendingApproval, AbsentApproval
  <2>3. /\ approvals'[v0] = PendingApproval
        /\ \A v \in Revisions : v # v0 => approvals'[v] = approvals[v]
    BY <1>1, <2>1
  <2>4. RowsInv'
    BY <1>1, <1>8, <2>1, <2>2, <2>3 DEF StoresInv, RowsInv, CurrentRow, Revisions
  <2>5. ConcludedInv'
    BY <1>1, <1>8 DEF StoresInv, GraphInv, ConcludedInv, Concluded
  <2>6. ASSUME NEW s \in Submissions, TookEffect(s)
        PROVE  TookEffect(s)'
    <3>1. s.revision \in Revisions /\ s.decision \in Decisions
      BY DEF Submissions
    <3>2. s.revision # v0
      BY <2>1, <2>2, <2>6, <3>1 DEF TookEffect, SameSubmission, Decisions
    <3>3. run \notin TerminalStatuses
      BY <1>8 DEF IInv, TerminalMatchesCheckpoint
    <3> QED
      BY <1>1, <2>3, <2>6, <3>1, <3>2, <3>3
      DEF TookEffect, SameSubmission, TerminalStatuses
  <2> QED
    BY <1>4, <1>5, <1>6, <1>7, <2>4, <2>5, <2>6
<1>9. CASE ~checkpoint.interrupt
  <2>1. run' = checkpoint.terminal_status /\ UNCHANGED approvals
    BY <1>9 DEF RecordProgress
  <2>2. checkpoint.terminal_status \in TerminalStatuses
    BY <1>1, <1>9, InspectSnapshotFacts DEF IInv, TypeOK
  <2>3. CurrentRow.decision # "PENDING"
    BY <1>9 DEF StoresInv, RowsInv, ConcludedInv, Concluded
  <2>4. RowsInv'
    BY <1>1, <2>1, <2>2, <2>3
    DEF StoresInv, RowsInv, CurrentRow, Concluded, TerminalStatuses
  <2>5. ConcludedInv'
    BY <1>1, <2>1 DEF StoresInv, ConcludedInv, CurrentRow, Concluded
  <2>6. run \in TerminalStatuses => run' = run
    BY <2>1 DEF IInv, TerminalMatchesCheckpoint
  <2>7. ASSUME NEW s \in Submissions, TookEffect(s)
        PROVE  TookEffect(s)'
    BY <1>1, <2>1, <2>6, <2>7 DEF TookEffect, SameSubmission, TerminalStatuses
  <2> QED
    BY <1>4, <1>5, <1>6, <1>7, <2>4, <2>5, <2>7
<1> QED
  BY <1>8, <1>9

\* start_agent_run commits: there was no run, so nobody was answered.
LEMMA CommitStartStep ==
  ASSUME IInv, StoresInv, NEW r \in Workers, CommitStart(r)
  PROVE  StoresInv'
<1>1. /\ req[r].pc = "start_persist" /\ RecordProgress /\ Finish(r)
      /\ UNCHANGED <<toolVars, checkpoint, acknowledged>>
  BY DEF CommitStart, InPlace
<1>2. CanRecordApproval
  BY <1>1 DEF CanRecordApproval, IInv, StartInv, StartPlaces, TypeOK,
              AgentGraphState
<1>3. /\ RowsInv' /\ GraphInv' /\ ConcludedInv' /\ SubmissionInv'
      /\ DurableInv' /\ RecordsInv'
      /\ \A s \in Submissions : TookEffect(s) => TookEffect(s)'
  BY <1>1, <1>2, ProgressKeeps
<1>4. \A s \in acknowledged : s \in Submissions /\ TookEffect(s)
  BY DEF IInv, TypeOK, StoresInv, AcknowledgedDecisionsTakeEffect, TookEffect
<1>5. AcknowledgedDecisionsTakeEffect'
  BY <1>1, <1>3, <1>4 DEF AcknowledgedDecisionsTakeEffect, TookEffect
<1> QED
  BY <1>3, <1>5 DEF StoresInv

\* _persist_progress: the submission it answers took effect.
LEMMA PersistProgressStep ==
  ASSUME IInv, StoresInv, NEW r \in Workers, PersistProgress(r)
  PROVE  StoresInv'
<1> DEFINE s0 == req[r].submission
           v0 == checkpoint.revision_count
<1>1. /\ req[r].pc = "persist" /\ Finish(r) /\ UNCHANGED <<toolVars, checkpoint>>
  BY DEF PersistProgress, InPlace
<1>2. /\ s0 \in Submissions /\ SameSubmission(s0)
      /\ InspectSnapshot(checkpoint) \in {"PENDING_INTERRUPT", "TERMINAL"}
  BY <1>1 DEF IInv, RequestInv, SubmitPlaces, StoresInv, SubmissionInv
<1>3. CASE checkpoint.interrupt /\ ~CanRecordApproval
  <2>1. UNCHANGED <<execution, committed, worker, run, approvals, checkpoint,
                    acknowledged>>
    BY <1>1, <1>3 DEF PersistProgress, productVars, toolVars
  <2>2. /\ req'[r].pc = "idle" /\ req'[r].records = << >>
        /\ \A q \in Workers : q # r => req'[q] = req[q]
    BY <1>1, FinishFacts DEF IInv, IdleRequest
  <2> QED
    BY <2>1, <2>2, MoveRequest
<1>4. CASE ~(checkpoint.interrupt /\ ~CanRecordApproval)
  <2>1. RecordProgress /\ acknowledged' = acknowledged \cup {s0}
    BY <1>4 DEF PersistProgress
  <2>2. /\ RowsInv' /\ GraphInv' /\ ConcludedInv' /\ SubmissionInv'
        /\ DurableInv' /\ RecordsInv'
        /\ \A s \in Submissions : TookEffect(s) => TookEffect(s)'
    BY <1>1, <1>4, <2>1, ProgressKeeps
  <2>3. \A s \in acknowledged : s \in Submissions /\ TookEffect(s)
    BY DEF IInv, TypeOK, StoresInv, AcknowledgedDecisionsTakeEffect, TookEffect
  <2> HIDE DEF s0
  <2>4. /\ s0.revision \in Revisions /\ s0.decision \in Decisions
        /\ approvals[s0.revision].decision = s0.decision
        /\ v0 \in Revisions /\ v0 \in Nat /\ s0.revision \in Nat
        /\ s0.revision <= MAX_PLAN_REVISIONS /\ v0 <= MAX_PLAN_REVISIONS
        /\ approvals \in [Revisions -> ApprovalRows]
    BY <1>2, RevisionAssumption
    DEF Submissions, SameSubmission, IInv, TypeOK, AgentGraphState, Revisions
  <2>5. /\ s0.revision <= v0
        /\ s0.revision < v0 => s0.decision = "REQUEST_CHANGES"
    BY <2>4 DEF StoresInv, RowsInv, Decisions
  <2>6. /\ approvals'[s0.revision] = approvals[s0.revision]
        /\ s0.decision = "APPROVED" =>
              run' \in {"SUCCEEDED", "PARTIAL_FAILURE", "FAILED"}
        /\ s0.decision = "REJECTED" => run' = "REJECTED"
        /\ s0.decision = "REQUEST_CHANGES" =>
              IF s0.revision < MAX_PLAN_REVISIONS
              THEN v0 > s0.revision
              ELSE run' = "REJECTED"
    <3>1. CASE checkpoint.interrupt
      <4>1. /\ approvals' = [approvals EXCEPT ![v0] = PendingApproval]
            /\ approvals[v0] \in {AbsentApproval, PendingApproval}
        BY <1>4, <2>1, <3>1 DEF RecordProgress, CanRecordApproval
      <4>2. approvals[v0].decision \notin Decisions
        BY <4>1 DEF AbsentApproval, PendingApproval, Decisions
      <4>3. s0.revision # v0
        BY <2>4, <4>2
      <4> QED
        BY <2>4, <2>5, <4>1, <4>3, RevisionAssumption
    <3>2. CASE ~checkpoint.interrupt
      <4>1. run' = checkpoint.terminal_status /\ UNCHANGED approvals
        BY <2>1, <3>2 DEF RecordProgress
      <4>2. /\ checkpoint.terminal_status \in TerminalStatuses
            /\ checkpoint.terminal_status = "REJECTED"
                  <=> checkpoint.approval_decision = "REJECTED"
        <5>1. InspectSnapshot(checkpoint) = "TERMINAL"
          BY <1>2, <3>2, InspectSnapshotFacts DEF IInv, TypeOK
        <5> QED
          BY <5>1, OutcomeFacts
      <4>3. CASE s0.revision = v0
        <5>1. CurrentRow.decision = s0.decision /\ Concluded
          BY <2>4, <3>2, <4>3 DEF CurrentRow, StoresInv, RowsInv, Decisions
        <5> QED
          BY <2>4, <4>1, <4>2, <4>3, <5>1
          DEF StoresInv, ConcludedInv, Concluded, TerminalStatuses, Decisions
      <4>4. CASE s0.revision < v0
        BY <2>4, <2>5, <4>1, <4>4, RevisionAssumption
      <4> QED
        BY <2>4, <2>5, <4>3, <4>4
    <3> QED
      BY <3>1, <3>2
  <2>7. \A s \in acknowledged' :
           /\ SameSubmission(s)'
           /\ s.decision = "APPROVED" =>
                 run' \in {"SUCCEEDED", "PARTIAL_FAILURE", "FAILED"}
           /\ s.decision = "REJECTED" => run' = "REJECTED"
           /\ s.decision = "REQUEST_CHANGES" =>
                 IF s.revision < MAX_PLAN_REVISIONS
                 THEN checkpoint'.revision_count > s.revision
                 ELSE run' = "REJECTED"
    <3> SUFFICES ASSUME NEW s \in acknowledged'
                 PROVE  TookEffect(s)'
      BY DEF TookEffect
    <3>1. CASE s \in acknowledged
      BY <2>2, <2>3, <3>1
    <3>2. CASE s = s0
      BY <1>1, <1>2, <2>6, <3>2 DEF TookEffect, SameSubmission
    <3> QED
      BY <2>1, <3>1, <3>2
  <2> QED
    BY <2>2, <2>7 DEF StoresInv, AcknowledgedDecisionsTakeEffect
<1> QED
  BY <1>3, <1>4

-----------------------------------------------------------------------------
(***************************************************************************)
(* The two stores are related in every reachable state.                    *)
(***************************************************************************)
\* Before the first request there are no rows, no records and no writes.
LEMMA InitStores == Init => StoresInv
<1> SUFFICES ASSUME Init PROVE StoresInv
  OBVIOUS
<1>1. /\ run = "ABSENT" /\ acknowledged = {}
      /\ \A v \in Revisions : approvals[v].decision = "ABSENT"
      /\ checkpoint.approval_decision = "NONE"
      /\ checkpoint.interrupt = FALSE /\ checkpoint.workflow_error = FALSE
      /\ checkpoint.next = "analyze_goal"
      /\ checkpoint.revision_count = 0 /\ 0 \in Revisions
      /\ checkpoint.execution_records = << >>
  BY RevisionAssumption DEF Init, AbsentApproval, InitialGraphState, Revisions
<1>2. /\ \A r \in Workers : req[r].pc = "idle" /\ req[r].records = << >>
      /\ \A w \in Workers : worker[w].pc = "idle"
      /\ \A id \in Identities : execution[id].status = "ABSENT"
  BY DEF Init, ToolInit, IdleRequest, IdleWorker, AbsentRow
<1>3. RowsInv
  BY <1>1 DEF RowsInv, CurrentRow, Revisions
<1>4. GraphInv /\ ConcludedInv
  BY <1>1 DEF GraphInv, ConcludedInv, Concluded
<1>5. SubmissionInv /\ DurableInv
  BY <1>2 DEF SubmissionInv, DurableInv
<1>6. RecordsInv /\ AcknowledgedDecisionsTakeEffect
  BY <1>1, <1>2 DEF RecordsInv, TrueRecords, AcknowledgedDecisionsTakeEffect
<1> QED
  BY <1>3, <1>4, <1>5, <1>6 DEF StoresInv

\* One step keeps the relation between the stores.
LEMMA NextStores ==
  ASSUME IInv, StoresInv, [Next]_vars
  PROVE  StoresInv'
<1>1. CASE UNCHANGED vars
  <2>1. UNCHANGED <<execution, committed, worker, run, approvals, checkpoint,
                    req, acknowledged>>
    BY <1>1 DEF vars, toolVars
  <2>2. /\ RowsInv' /\ GraphInv' /\ ConcludedInv'
        /\ AcknowledgedDecisionsTakeEffect'
    BY <2>1, StoresUnchanged
  <2>3. SubmissionInv' /\ DurableInv' /\ RecordsInv'
    BY <2>1 DEF StoresInv, SubmissionInv, SameSubmission, DurableInv,
                RecordsInv, TrueRecords
  <2> QED
    BY <2>2, <2>3 DEF StoresInv
<1>2. CASE Next
  <2>1. PICK r \in Workers :
           \/ StartRun(r)
           \/ \E s \in Submissions : Submit(r, s)
           \/ RequestPreview(r)
           \/ AcquireLock(r)
           \/ HandlerStep(r)
           \/ Stop(r)
    BY <1>2 DEF Next
  <2>2. CASE GraphStep(r)
    BY <2>2, PlanningSteps, InterruptStep, BeginActionStep, ActionStepStep,
       EndActionStep, ClosingSteps, ForwardSteps DEF GraphStep
  <2>3. CASE HandlerStep(r)
    BY <2>2, <2>3, CommitStartStep, PersistProgressStep, RecordDecisionStep,
       ForwardSteps, EndingSteps, ResumeStep DEF HandlerStep
  <2> QED
    BY <2>1, <2>3, StartRunStep, WaitingSteps, EndingSteps
<1> QED
  BY <1>1, <1>2

\* StoresInv holds in every reachable state of the two-store protocol.
THEOREM StoresAreRelated == Spec => []StoresInv
<1>1. IInv /\ StoresInv /\ [Next]_vars => StoresInv'
  BY NextStores
<1> QED
  BY <1>1, InitStores, Invariance, PTL DEF Spec

\* A run shown as PENDING_APPROVAL has an undecided latest approval row that
\* is about the plan of the checkpoint's interrupt (_persist_progress and
\* record_decision against resume_durable).
THEOREM PendingIsReviewable == Spec => []PendingMeansReviewable
<1>1. IInv /\ StoresInv => PendingMeansReviewable
  <2> SUFFICES ASSUME IInv, StoresInv, run = "PENDING_APPROVAL"
               PROVE  \E v \in Revisions :
                         /\ IsLatest(v)
                         /\ approvals[v].decision = "PENDING"
                         /\ checkpoint.interrupt
                         /\ InterruptMatches(v)
    BY DEF PendingMeansReviewable
  <2>1. /\ CurrentRow.decision = "PENDING"
        /\ checkpoint.revision_count \in Revisions
    BY DEF StoresInv, RowsInv, IInv, TypeOK, AgentGraphState
  <2>2. checkpoint.interrupt
    BY <2>1 DEF StoresInv, RowsInv, ConcludedInv, Concluded
  <2>3. /\ IsLatest(checkpoint.revision_count)
        /\ InterruptMatches(checkpoint.revision_count)
    BY <2>1 DEF StoresInv, RowsInv, IsLatest, InterruptMatches, CurrentRow
  <2> QED
    BY <2>1, <2>2, <2>3 DEF CurrentRow
<1> QED
  BY <1>1, Invariance, StoresAreRelated, PTL

\* A submission that was answered is the stored decision of its revision and
\* the run went where that decision sends it (_persist_progress).
THEOREM AcknowledgedTakeEffect == Spec => []AcknowledgedDecisionsTakeEffect
<1>1. StoresInv => AcknowledgedDecisionsTakeEffect
  BY DEF StoresInv
<1> QED
  BY <1>1, StoresAreRelated, PTL

-----------------------------------------------------------------------------
(***************************************************************************)
(* Refinement: every step is a step of the contract or invisible to it.    *)
(***************************************************************************)
\* The actions of the plan with p's fingerprint are those of p: fingerprints
\* do not collide.
LEMMA ActionsOfPlan ==
  ASSUME NEW p \in Proposals
  PROVE  /\ Digest[p] \in Fingerprints
         /\ ProposalOf(Digest[p]) = p
  BY DigestType, DigestAssumption DEF ProposalOf

\* The current row, once it exists, is about the plan of the checkpoint.
LEMMA CurrentPlan ==
  ASSUME IInv, StoresInv, checkpoint.approval_decision = "APPROVED"
  PROVE  /\ checkpoint.revision_count \in Revisions
         /\ checkpoint.proposal \in Proposals
         /\ CurrentRow.decision = "APPROVED"
         /\ CurrentRow.proposal_fingerprint = Digest[checkpoint.proposal]
  BY DEF IInv, TypeOK, AgentGraphState, StoresInv, RowsInv, ConcludedInv, Concluded

\* SUCCEEDED: every action of the approved plan was written, exactly once.
LEMMA SucceededIsTrue ==
  ASSUME IInv, StoresInv, InspectSnapshot(checkpoint) = "TERMINAL",
         checkpoint.terminal_status = "SUCCEEDED",
         NEW key \in PlanKeys(checkpoint.proposal)
  PROVE  committed[<<checkpoint.revision_count, Digest[checkpoint.proposal],
                     key>>] = 1
<1> DEFINE records == checkpoint.execution_records
           actions == Plan[checkpoint.proposal]
<1>1. /\ checkpoint.approval_decision = "APPROVED"
      /\ VerifyRecords(records, actions).terminal_status = "SUCCEEDED"
  BY OutcomeFacts
<1>2. /\ RecordsFollowPlan(records, actions) /\ FailedIndexes(records) = {}
      /\ Len(records) = Len(actions)
  BY <1>1 DEF VerifyRecords, Verdict, Invalid
<1>3. PICK i \in 1..Len(actions) : key = actions[i].action_key
  BY DEF PlanKeys
<1>4. i \in 1..Len(records) /\ records[i].action_key = key
  BY <1>2, <1>3 DEF RecordsFollowPlan
<1>5. records \in Seq(Records) /\ checkpoint.proposal \in Proposals
  BY <1>1, CurrentPlan DEF IInv, TypeOK, AgentGraphState
<1> HIDE DEF records, actions
<1>6. records[i].outcome = "SUCCEEDED"
  <2>1. records[i] \in Records
    BY <1>4, <1>5
  <2> QED
    BY <1>2, <1>4, <2>1 DEF FailedIndexes, Records, Outcomes
<1>7. committed[<<checkpoint.revision_count, Digest[checkpoint.proposal], key>>] >= 1
  BY <1>4, <1>6 DEF StoresInv, RecordsInv, TrueRecords, records
<1>8. <<checkpoint.revision_count, Digest[checkpoint.proposal], key>> \in Identities
  BY <1>4, <1>5, RecordIdentity
<1> QED
  BY <1>7, <1>8 DEF IInv, TypeOK, ToolTypeOK, ClaimInv

\* PARTIAL_FAILURE: an action of the approved plan was written.
LEMMA PartialIsTrue ==
  ASSUME IInv, StoresInv, InspectSnapshot(checkpoint) = "TERMINAL",
         checkpoint.terminal_status = "PARTIAL_FAILURE"
  PROVE  \E key \in ActionKeys :
            committed[<<checkpoint.revision_count,
                        Digest[checkpoint.proposal], key>>] = 1
<1> DEFINE records == checkpoint.execution_records
           actions == Plan[checkpoint.proposal]
<1>1. /\ checkpoint.approval_decision = "APPROVED"
      /\ VerifyRecords(records, actions).terminal_status = "PARTIAL_FAILURE"
  BY OutcomeFacts
<1>2. Len(records) > 1 /\ FailedIndexes(records) \subseteq {Len(records)}
  BY <1>1 DEF VerifyRecords, Verdict, Invalid
<1>3. records \in Seq(Records) /\ checkpoint.proposal \in Proposals
  BY <1>1, CurrentPlan DEF IInv, TypeOK, AgentGraphState
<1> HIDE DEF records, actions
<1>4. 1 \in 1..Len(records) /\ records[1] \in Records
  BY <1>2, <1>3
<1>5. records[1].outcome = "SUCCEEDED"
  BY <1>2, <1>4 DEF FailedIndexes, Records, Outcomes
<1> DEFINE id == <<checkpoint.revision_count, Digest[checkpoint.proposal],
                   records[1].action_key>>
<1>6. committed[id] >= 1
  BY <1>4, <1>5 DEF StoresInv, RecordsInv, TrueRecords, records
<1>7. id \in Identities
  BY <1>3, <1>4, RecordIdentity
<1>8. committed[id] = 1
  BY <1>6, <1>7 DEF IInv, TypeOK, ToolTypeOK, ClaimInv
<1>9. records[1].action_key \in ActionKeys
  BY <1>4 DEF Records
<1> QED
  BY <1>8, <1>9

\* The status of a finished checkpoint is true of what was decided and written.
LEMMA OutcomeIsTruthful ==
  ASSUME IInv, StoresInv, InspectSnapshot(checkpoint) = "TERMINAL"
  PROVE  Contract!Truthful(checkpoint.terminal_status)
<1> DEFINE v0 == checkpoint.revision_count
<1>1. /\ checkpoint.terminal_status \in TerminalStatuses
      /\ checkpoint.terminal_status = "REJECTED"
            <=> checkpoint.approval_decision = "REJECTED"
      /\ checkpoint.terminal_status \in {"SUCCEEDED", "PARTIAL_FAILURE"} =>
            checkpoint.approval_decision = "APPROVED"
      /\ v0 \in Revisions /\ v0 \in Nat
  BY OutcomeFacts DEF IInv, TypeOK, AgentGraphState, Revisions
<1>2. CASE checkpoint.terminal_status = "SUCCEEDED"
  <2>1. /\ approvals[v0].decision = "APPROVED"
        /\ approvals[v0].proposal_fingerprint = Digest[checkpoint.proposal]
        /\ Digest[checkpoint.proposal] \in Fingerprints
        /\ ProposalOf(Digest[checkpoint.proposal]) = checkpoint.proposal
    BY <1>1, <1>2, CurrentPlan, ActionsOfPlan DEF CurrentRow
  <2>2. \A key \in PlanKeys(checkpoint.proposal) :
           committed[<<v0, Digest[checkpoint.proposal], key>>] = 1
    BY <1>2, SucceededIsTrue
  <2> QED
    BY <1>1, <1>2, <2>1, <2>2 DEF Contract!Truthful, Contract!Approved
<1>3. CASE checkpoint.terminal_status = "PARTIAL_FAILURE"
  <2>1. /\ approvals[v0].decision = "APPROVED"
        /\ approvals[v0].proposal_fingerprint = Digest[checkpoint.proposal]
    BY <1>1, <1>3, CurrentPlan DEF CurrentRow
  <2>2. \E key \in ActionKeys :
           committed[<<v0, Digest[checkpoint.proposal], key>>] = 1
    BY <1>3, PartialIsTrue
  <2> QED
    BY <1>1, <1>3, <2>1, <2>2 DEF Contract!Truthful, Contract!Approved
<1>4. CASE checkpoint.terminal_status = "REJECTED"
  <2>1. approvals[v0].decision \in {"REJECTED", "REQUEST_CHANGES"}
    BY <1>1, <1>4 DEF StoresInv, ConcludedInv, Concluded, CurrentRow
  <2>2. \A v \in Revisions : approvals[v].decision # "APPROVED"
    BY <1>1, <2>1 DEF StoresInv, RowsInv, Revisions
  <2> QED
    BY <1>1, <1>4, <2>1, <2>2 DEF Contract!Truthful, Contract!Approved
<1>5. CASE checkpoint.terminal_status = "FAILED"
  BY <1>5 DEF Contract!Truthful
<1> QED
  BY <1>1, <1>2, <1>3, <1>4, <1>5 DEF TerminalStatuses

\* Steps that leave run, approvals and writes alone are invisible.
LEMMA Invisible ==
  ASSUME UNCHANGED <<run, approvals, committed>>
  PROVE  UNCHANGED Contract!vars
  BY DEF Contract!vars

\* An interrupt that gets its approval row proposes the plan of the checkpoint.
LEMMA ProposeRefines ==
  ASSUME IInv, checkpoint.interrupt, RecordProgress, UNCHANGED committed,
         approvals[checkpoint.revision_count].decision = "ABSENT",
         \/ /\ checkpoint.revision_count = 0 /\ run = "ABSENT"
         \/ /\ checkpoint.revision_count > 0 /\ run = "RUNNING"
            /\ approvals[checkpoint.revision_count - 1].decision
                  = "REQUEST_CHANGES"
  PROVE  Contract!Next
<1> DEFINE v0 == checkpoint.revision_count
           fp == Digest[checkpoint.proposal]
<1>1. /\ run' = "PENDING_APPROVAL"
      /\ approvals' = [approvals EXCEPT ![v0] = PendingApproval]
      /\ PendingApproval.decision = "PENDING"
      /\ PendingApproval.proposal_fingerprint = fp
  BY DEF RecordProgress, PendingApproval
<1>2. /\ v0 \in Revisions /\ approvals \in [Revisions -> ApprovalRows]
      /\ v0 \in Nat /\ fp \in Fingerprints
  BY DigestType DEF IInv, TypeOK, AgentGraphState, Revisions, CheckpointInv
<1>3. v0 > 0 => v0 - 1 \in Revisions
  BY <1>2, RevisionAssumption DEF Revisions
<1> HIDE DEF v0, fp
<1>4. Contract!MayPropose(v0)
  BY <1>2, <1>3 DEF Contract!MayPropose, v0
<1>5. /\ [v \in Revisions |-> approvals'[v].decision]
            = [[v \in Revisions |-> approvals[v].decision]
                  EXCEPT ![v0] = "PENDING"]
      /\ [v \in Revisions |-> approvals'[v].proposal_fingerprint]
            = [[v \in Revisions |-> approvals[v].proposal_fingerprint]
                  EXCEPT ![v0] = fp]
  BY <1>1, <1>2
<1>6. Contract!Propose(v0, fp)
  BY <1>1, <1>4, <1>5 DEF Contract!Propose
<1>7. \E v \in Revisions, plan \in Fingerprints : Contract!Propose(v, plan)
  BY <1>2, <1>6 DEF Contract!Propose, Contract!MayPropose
<1> QED
  BY <1>7 DEF Contract!Next

\* A finished checkpoint that gets its status ends the run truthfully.
LEMMA FinishRefines ==
  ASSUME IInv, StoresInv, InspectSnapshot(checkpoint) = "TERMINAL",
         RecordProgress, UNCHANGED committed, run \in {"ABSENT", "RUNNING"}
  PROVE  Contract!Next
<1>1. ~checkpoint.interrupt /\ checkpoint.terminal_status \in TerminalStatuses
  BY OutcomeFacts
<1>2. run' = checkpoint.terminal_status /\ UNCHANGED approvals
  BY <1>1 DEF RecordProgress
<1>3. Contract!Truthful(checkpoint.terminal_status)
  BY OutcomeIsTruthful
<1>4. Contract!Finish(checkpoint.terminal_status)
  BY <1>2, <1>3 DEF Contract!Finish
<1> QED
  BY <1>1, <1>4 DEF Contract!Next, TerminalStatuses

\* The commit of start_agent_run proposes revision 0 or ends the run.
LEMMA CommitStartRefines ==
  ASSUME IInv, StoresInv, NEW r \in Workers, CommitStart(r)
  PROVE  Contract!Next
<1>1. /\ req[r].pc = "start_persist" /\ RecordProgress /\ UNCHANGED committed
      /\ InspectSnapshot(checkpoint) \in {"PENDING_INTERRUPT", "TERMINAL"}
  BY DEF CommitStart, InPlace, toolVars, IInv, RequestInv
<1>2. /\ run = "ABSENT" /\ checkpoint.approval_decision = "NONE"
      /\ \A v \in Revisions : approvals[v] = AbsentApproval
  BY <1>1 DEF IInv, StartInv, StartPlaces
<1>3. /\ checkpoint.revision_count = 0
      /\ approvals[checkpoint.revision_count].decision = "ABSENT"
  BY <1>2 DEF StoresInv, RowsInv, IInv, TypeOK, AgentGraphState, AbsentApproval
<1>4. CASE checkpoint.interrupt
  BY <1>1, <1>2, <1>3, <1>4, ProposeRefines
<1>5. CASE ~checkpoint.interrupt
  <2>1. InspectSnapshot(checkpoint) = "TERMINAL"
    BY <1>1, <1>5, InspectSnapshotFacts DEF IInv, TypeOK
  <2> QED
    BY <1>1, <1>2, <2>1, FinishRefines
<1> QED
  BY <1>4, <1>5

\* _persist_progress proposes the next revision, ends the run, or repeats what
\* an earlier request committed.
LEMMA PersistProgressRefines ==
  ASSUME IInv, StoresInv, NEW r \in Workers, PersistProgress(r)
  PROVE  Contract!Next \/ UNCHANGED Contract!vars
<1> DEFINE s0 == req[r].submission
           v0 == checkpoint.revision_count
<1>1. /\ req[r].pc = "persist" /\ UNCHANGED committed
      /\ InspectSnapshot(checkpoint) \in {"PENDING_INTERRUPT", "TERMINAL"}
      /\ s0 \in Submissions /\ SameSubmission(s0)
      /\ run # "ABSENT" /\ run \in RunStatuses
  BY DEF PersistProgress, InPlace, toolVars, IInv, TypeOK, RequestInv,
         SubmitPlaces, StartInv, StartPlaces, StoresInv, SubmissionInv
<1>2. CASE checkpoint.interrupt /\ ~CanRecordApproval
  BY <1>1, <1>2, Invisible DEF PersistProgress, productVars
<1>3. CASE checkpoint.interrupt /\ CanRecordApproval
  <2>1. /\ RecordProgress /\ approvals[v0] \in {AbsentApproval, PendingApproval}
        /\ run \notin TerminalStatuses
    BY <1>3 DEF PersistProgress, CanRecordApproval, IInv,
                TerminalMatchesCheckpoint
  <2>2. CASE approvals[v0] = PendingApproval
    <3>1. run = "PENDING_APPROVAL"
      BY <2>2 DEF StoresInv, RowsInv, CurrentRow, PendingApproval
    <3>2. run' = run /\ approvals' = [approvals EXCEPT ![v0] = approvals[v0]]
      BY <1>3, <2>1, <2>2, <3>1 DEF RecordProgress
    <3>3. approvals' = approvals
      BY <3>2 DEF IInv, TypeOK
    <3> QED
      BY <1>1, <3>2, <3>3, Invisible
  <2>3. CASE approvals[v0] = AbsentApproval
    <3>1. approvals[v0].decision = "ABSENT" /\ run = "RUNNING"
      BY <1>1, <2>1, <2>3
      DEF AbsentApproval, StoresInv, RowsInv, CurrentRow, RunStatuses
    <3>2. v0 \in Revisions /\ v0 \in Nat /\ v0 > 0
      BY <3>1 DEF StoresInv, RowsInv, CurrentRow, IInv, TypeOK,
                  AgentGraphState, Revisions
    <3>3. v0 - 1 \in Revisions /\ approvals[v0 - 1].decision = "REQUEST_CHANGES"
      BY <3>2, RevisionAssumption DEF StoresInv, RowsInv, Revisions
    <3> QED
      BY <1>1, <1>3, <2>1, <3>1, <3>2, <3>3, ProposeRefines
  <2> QED
    BY <2>1, <2>2, <2>3
<1>4. CASE ~checkpoint.interrupt
  <2>1. InspectSnapshot(checkpoint) = "TERMINAL" /\ RecordProgress
    BY <1>1, <1>4, InspectSnapshotFacts DEF PersistProgress, IInv, TypeOK
  <2>2. run # "PENDING_APPROVAL"
    BY <1>4 DEF StoresInv, RowsInv, ConcludedInv, Concluded
  <2>3. CASE run \in TerminalStatuses
    <3>1. run' = run /\ approvals' = approvals
      BY <1>4, <2>1, <2>3 DEF RecordProgress, IInv, TerminalMatchesCheckpoint
    <3> QED
      BY <1>1, <3>1, Invisible
  <2>4. CASE run = "RUNNING"
    BY <1>1, <2>1, <2>4, FinishRefines
  <2> QED
    BY <1>1, <2>2, <2>3, <2>4 DEF RunStatuses
<1> QED
  BY <1>2, <1>3, <1>4

\* record_decision decides the plan of the current revision.
LEMMA RecordDecisionRefines ==
  ASSUME IInv, StoresInv, NEW r \in Workers, RecordDecision(r)
  PROVE  Contract!Next
<1> DEFINE s == req[r].submission
<1>1. /\ s \in Submissions
      /\ approvals[s.revision].decision = "PENDING"
      /\ run = "PENDING_APPROVAL" /\ run' = "RUNNING"
      /\ approvals'[s.revision].decision = s.decision
      /\ approvals[s.revision].proposal_fingerprint = s.proposal_fingerprint
      /\ approvals'[s.revision].proposal_fingerprint = s.proposal_fingerprint
      /\ \A v \in Revisions : v # s.revision => approvals'[v] = approvals[v]
  BY DecisionFacts
<1>2. UNCHANGED committed
  BY DEF RecordDecision, toolVars
<1> HIDE DEF s
<1>3. s.revision \in Revisions /\ s.decision \in Decisions
  BY <1>1 DEF Submissions
<1>4. /\ [v \in Revisions |-> approvals'[v].decision]
            = [[v \in Revisions |-> approvals[v].decision]
                  EXCEPT ![s.revision] = s.decision]
      /\ [v \in Revisions |-> approvals'[v].proposal_fingerprint]
            = [v \in Revisions |-> approvals[v].proposal_fingerprint]
  BY <1>1, <1>3
<1>5. Contract!Decide(s.revision, s.decision)
  BY <1>1, <1>2, <1>3, <1>4 DEF Contract!Decide
<1>6. \E v \in Revisions, d \in Decisions : Contract!Decide(v, d)
  BY <1>3, <1>5 DEF Contract!Decide
<1> QED
  BY <1>6 DEF Contract!Next, Decisions

\* A step of the coordinator writes an action of the approved plan for the
\* first time, or nothing.
LEMMA ActionStepRefines ==
  ASSUME IInv, StoresInv, NEW r \in Workers, ActionStep(r)
  PROVE  Contract!Next \/ UNCHANGED Contract!vars
<1> DEFINE p == checkpoint.proposal
           v0 == checkpoint.revision_count
           key == CurrentAction(r).action_key
<1>1. /\ UNCHANGED <<run, approvals>>
      /\ worker[r].id = <<v0, Digest[p], key>> /\ worker[r].id \in Identities
      /\ PersistedApproval(worker[r].id)
      /\ p \in Proposals /\ run = "RUNNING"
      /\ MoreToExecute(r)
  BY InAction
  DEF ActionStep, productVars, CurrentIdentity, IInv, RequestInv
<1>2. \/ UNCHANGED committed
      \/ /\ committed[worker[r].id] = 0
         /\ committed' = [committed EXCEPT ![worker[r].id] = 1]
  BY <1>1, CommittedStep DEF ActionStep, IInv, TypeOK
<1>3. CASE UNCHANGED committed
  BY <1>1, <1>3, Invisible
<1>4. CASE /\ committed[worker[r].id] = 0
           /\ committed' = [committed EXCEPT ![worker[r].id] = 1]
  <2>1. /\ v0 \in Revisions /\ key \in ActionKeys
        /\ approvals[v0].decision = "APPROVED"
        /\ approvals[v0].proposal_fingerprint = Digest[p]
    BY <1>1 DEF Identities, PersistedApproval
  <2>2. key \in PlanKeys(p)
    <3>1. /\ Len(req[r].records) \in Nat
          /\ Len(Plan[p]) \in Nat
          /\ Len(req[r].records) < Len(Plan[p])
      BY <1>1, PlanType DEF MoreToExecute, IInv, TypeOK, Requests
    <3>2. Len(req[r].records) + 1 \in 1..Len(Plan[p])
      BY <3>1
    <3> QED
      BY <3>2 DEF PlanKeys, CurrentAction
  <2>3. Digest[p] \in Fingerprints /\ ProposalOf(Digest[p]) = p
    BY <1>1, ActionsOfPlan
  <2> HIDE DEF key, v0, p
  <2>4. Contract!Write(v0, key)
    BY <1>1, <1>4, <2>1, <2>2, <2>3 DEF Contract!Write
  <2> QED
    BY <2>1, <2>4 DEF Contract!Next
<1> QED
  BY <1>2, <1>3, <1>4

\* Every step of the protocol is a step of the contract or invisible to it.
LEMMA NextRefines ==
  ASSUME IInv, StoresInv, [Next]_vars
  PROVE  [Contract!Next]_(Contract!vars)
<1>1. CASE UNCHANGED vars
  BY <1>1, Invisible DEF vars, toolVars
<1>2. CASE Next
  <2>1. PICK r \in Workers :
           \/ StartRun(r)
           \/ \E s \in Submissions : Submit(r, s)
           \/ RequestPreview(r)
           \/ AcquireLock(r)
           \/ HandlerStep(r)
           \/ Stop(r)
    BY <1>2 DEF Next
  <2>2. CASE \/ StartRun(r) \/ (\E s \in Submissions : Submit(r, s))
             \/ RequestPreview(r) \/ AcquireLock(r) \/ Stop(r)
             \/ RecoverDecision(r) \/ RefuseDecision(r) \/ InspectDurable(r)
             \/ Resume(r) \/ AnswerPreview(r)
    BY <2>2, Invisible
    DEF StartRun, Submit, RequestPreview, AcquireLock, Stop, RecoverDecision,
        RefuseDecision, InspectDurable, Resume, AnswerPreview, toolVars,
        productVars
  <2>3. CASE \/ AnalyzeGoal(r) \/ LoadContext(r) \/ GeneratePlan(r)
             \/ ValidatePlan(r) \/ Interrupt(r) \/ InterruptFails(r)
             \/ BeginAction(r) \/ EndAction(r) \/ ExecuteTasks(r)
             \/ VerifyResult(r) \/ Summarize(r) \/ Settle(r)
    BY <2>3, Invisible
    DEF AnalyzeGoal, LoadContext, GeneratePlan, ValidatePlan, Interrupt,
        InterruptFails, BeginAction, Call, EndAction, ExecuteTasks,
        VerifyResult, Summarize, Settle, Save, toolVars, productVars
  <2>4. CASE ActionStep(r)
    BY <2>4, ActionStepRefines
  <2>5. CASE CommitStart(r) \/ PersistProgress(r) \/ RecordDecision(r)
    BY <2>5, CommitStartRefines, PersistProgressRefines, RecordDecisionRefines
  <2> QED
    BY <2>1, <2>2, <2>3, <2>4, <2>5 DEF HandlerStep, GraphStep
<1> QED
  BY <1>1, <1>2

\* The two-store protocol implements the contract of a run: plans are proposed
\* and decided in order, an approved plan's actions are written at most once
\* each, and the final status is true of what was written.
THEOREM ImplementsContract == Spec => RefinesContract
<1>1. IInv /\ StoresInv /\ [Next]_vars => [Contract!Next]_(Contract!vars)
  BY NextRefines
<1> QED
  BY <1>1, InitRefines, Invariance, StoresAreRelated, PTL
  DEF Spec, RefinesContract, Contract!Spec

=============================================================================
