----------------------------- MODULE RunEvents -----------------------------
(***************************************************************************)
(* The event stream of one run (services/agent_events.py).  A request      *)
(* reads the run, its approvals and its tool executions in three           *)
(* statements, projects them to a sorted list of events, numbers them and  *)
(* sends those after the client's Last-Event-ID.  Meanwhile the rows       *)
(* change: the writers are what the product rows show of ApprovalRecovery  *)
(* and ToolExecution, under the run lock.  Timestamps come from one clock  *)
(* that does not go back.                                                  *)
(***************************************************************************)
EXTENDS Integers, Sequences, FiniteSets, SequencesExt

CONSTANTS
    Tools,           \* executions of the approved plan, as 1..n: ids in order
    MAX_REVISIONS,
    MAX_CLOCK,       \* bound of the model
    None

ASSUME ToolsAssumption == IsFiniteSet(Tools) /\ Tools \subseteq Nat

VARIABLES
    clock,
    run, approvals, executions,   \* the rows
    abandoned,                    \* executions whose handler is dead
    reader,                       \* what the open request has read so far
    stream,                       \* the last list that was projected
    cursor, heard                 \* the client: its Last-Event-ID, whether it was
                                  \* sent a terminal event

vars == <<clock, run, approvals, executions, abandoned, reader, stream, cursor, heard>>
rows == <<run, approvals, executions, abandoned>>
client == <<reader, stream, cursor, heard>>

Times == 0..MAX_CLOCK
TERMINAL_RUN_STATUSES == {"SUCCEEDED", "REJECTED", "PARTIAL_FAILURE", "FAILED"}
Decisions == {"APPROVED", "CHANGES_REQUESTED", "REJECTED"}
Outcomes == {"COMPLETED", "FAILED", "UNKNOWN"}

Statuses == {"PENDING_APPROVAL", "RUNNING"} \cup TERMINAL_RUN_STATUSES
Runs == [status : Statuses, updated_at : Times]
Approvals == [decision : Decisions \cup {"PENDING"}, created_at : Times]
Executions ==
    [status : {"IN_PROGRESS"}, started_at : Times, completed_at : {None}]
    \cup [status : Outcomes, started_at : Times, completed_at : Times]
    \cup {None}

Kinds == {"run_status", "node_status", "approval_required", "tool_started",
          "tool_result", "safe_error", "metrics", "terminal_result", "heartbeat"}
Drafts == [occurred_at : Times, order : Nat, stable_key : Nat, kind : Kinds,
           value : Statuses \cup {None}]
Readers ==
    [at : {"idle"}, run : {None}, approvals : {None}]
    \cup [at : {"approvals"}, run : Runs, approvals : {None}]
    \cup [at : {"executions"}, run : Runs, approvals : Seq(Approvals)]
Idle == [at |-> "idle", run |-> None, approvals |-> None]

TypeOK ==
    /\ clock \in Times
    /\ run \in Runs
    /\ approvals \in Seq(Approvals) /\ Len(approvals) <= MAX_REVISIONS + 1
    /\ executions \in [Tools -> Executions]
    /\ abandoned \subseteq Tools
    /\ reader \in Readers
    /\ stream \in Seq(Drafts)
    /\ cursor \in Nat /\ heard \in BOOLEAN

\* A start has committed; its approval is as old as the transaction.
Init ==
    /\ clock = 1
    /\ run = [status |-> "PENDING_APPROVAL", updated_at |-> 1]
    /\ \E at \in 0..1 : approvals = <<[decision |-> "PENDING", created_at |-> at]>>
    /\ executions = [t \in Tools |-> None]
    /\ abandoned = {}
    /\ reader = Idle
    /\ stream = <<>> /\ cursor = 0 /\ heard = FALSE

-----------------------------------------------------------------------------
(***************************************************************************)
(* The writers.                                                            *)
(***************************************************************************)

Tick ==
    /\ clock < MAX_CLOCK
    /\ clock' = clock + 1
    /\ UNCHANGED <<rows, client>>

SetRun(status) == run' = [status |-> status, updated_at |-> clock]

Decide(decision) ==
    /\ run.status = "PENDING_APPROVAL"
    /\ approvals' = [approvals EXCEPT ![Len(approvals)].decision = decision]
    /\ SetRun("RUNNING")
    /\ UNCHANGED <<clock, executions, abandoned, client>>

Executing == run.status = "RUNNING" /\ Last(approvals).decision = "APPROVED"

Started == [status |-> "IN_PROGRESS", started_at |-> clock, completed_at |-> None]

Claim(t) ==
    /\ Executing
    /\ executions[t] = None
    /\ executions' = [executions EXCEPT ![t] = Started]
    /\ UNCHANGED <<clock, run, approvals, abandoned, client>>

Restart(t) ==
    /\ Executing
    /\ executions[t] # None /\ executions[t].status = "FAILED"
    /\ executions' = [executions EXCEPT ![t] = Started]
    /\ UNCHANGED <<clock, run, approvals, abandoned, client>>

Running(t) ==
    executions[t] # None /\ executions[t].status = "IN_PROGRESS" /\ t \notin abandoned

End(t, status) ==
    /\ Executing /\ Running(t)
    /\ executions' = [executions EXCEPT ![t].status = status, ![t].completed_at = clock]
    /\ UNCHANGED <<clock, run, approvals, abandoned, client>>

\* The handler stops; a row it has left IN_PROGRESS is never touched again.
Die(t) ==
    /\ Running(t)
    /\ abandoned' = abandoned \cup {t}
    /\ UNCHANGED <<clock, run, approvals, executions, client>>

\* _persist_progress at the next approval.
AskAgain ==
    /\ run.status = "RUNNING"
    /\ Last(approvals).decision = "CHANGES_REQUESTED"
    /\ Len(approvals) <= MAX_REVISIONS
    /\ SetRun("PENDING_APPROVAL")
    /\ \E at \in run.updated_at..clock :
          approvals' = Append(approvals, [decision |-> "PENDING", created_at |-> at])
    /\ UNCHANGED <<clock, executions, abandoned, client>>

\* _persist_progress at the end of the graph.
Finish ==
    /\ run.status = "RUNNING"
    /\ \A t \in Tools : ~Running(t)
    /\ \E status \in TERMINAL_RUN_STATUSES :
          /\ status \in {"SUCCEEDED", "PARTIAL_FAILURE"} =>
                 Last(approvals).decision = "APPROVED"
          /\ SetRun(status)
    /\ UNCHANGED <<clock, approvals, executions, abandoned, client>>

-----------------------------------------------------------------------------
(***************************************************************************)
(* The projection.                                                         *)
(***************************************************************************)

Draft(at, order, key, kind, value) ==
    [occurred_at |-> at, order |-> order, stable_key |-> key, kind |-> kind,
     value |-> value]

\* _execution_drafts
ExecutionDrafts(t, row) ==
    {Draft(row.started_at, 30, t, "tool_started", None)}
    \cup {Draft(row.completed_at, 40, t,
                IF row.status = "COMPLETED" THEN "tool_result" ELSE "safe_error", None)
             : s \in {row.status} \cap Outcomes}

TerminalOrder == 90

RunDrafts(r) ==
    {Draft(r.updated_at, 10, 0, "run_status", r.status),
     Draft(r.updated_at, 20, 0, "node_status", None),
     Draft(r.updated_at, 80, 0, "metrics", None),
     IF r.status \in TERMINAL_RUN_STATUSES
     THEN Draft(r.updated_at, TerminalOrder, 0, "terminal_result", r.status)
     ELSE Draft(r.updated_at, 90, 0, "heartbeat", None)}

ApprovalDrafts(asked) ==
    {Draft(asked[i].created_at, 25, i, "approval_required", None) :
        i \in {j \in DOMAIN asked : asked[j].decision = "PENDING"}}

AllDrafts(r, asked, xs) ==
    RunDrafts(r) \cup ApprovalDrafts(asked)
    \cup UNION {ExecutionDrafts(t, xs[t]) : t \in {u \in Tools : xs[u] # None}}

Precedes(d, e) ==
    \/ d.occurred_at < e.occurred_at
    \/ d.occurred_at = e.occurred_at /\ d.order < e.order
    \/ /\ d.occurred_at = e.occurred_at /\ d.order = e.order
       /\ d.stable_key < e.stable_key

\* build_public_agent_events: the n-th has n - 1 before it.
Build(r, asked, xs) ==
    LET drafts == AllDrafts(r, asked, xs)
    IN  [n \in 1..Cardinality(drafts) |->
            CHOOSE d \in drafts : Cardinality({e \in drafts : Precedes(e, d)}) = n - 1]

\* get_owned_agent_events: the run first,
ReadRun ==
    /\ reader.at = "idle"
    /\ reader' = [reader EXCEPT !.at = "approvals", !.run = run]
    /\ UNCHANGED <<clock, rows, stream, cursor, heard>>

\* then the approvals,
ReadApprovals ==
    /\ reader.at = "approvals"
    /\ reader' = [reader EXCEPT !.at = "executions", !.approvals = approvals]
    /\ UNCHANGED <<clock, rows, stream, cursor, heard>>

IsTerminal(events) == \E i \in DOMAIN events : events[i].kind = "terminal_result"

\* resume_after_event and the client; an id past the end is answered 409 and
\* the client starts over.
Deliver(events) ==
    /\ stream' = events
    /\ IF cursor > Len(events)
       THEN cursor' = 0 /\ UNCHANGED heard
       ELSE /\ cursor' = Len(events)
            /\ heard' = (heard \/ IsTerminal(SubSeq(events, cursor + 1, Len(events))))

\* Mutant: the run is read after the approvals.
ReadRunLast ==
    /\ reader.at = "executions"
    /\ Deliver(Build(run, reader.approvals, executions))
    /\ reader' = Idle
    /\ UNCHANGED <<clock, rows>>

\* and last the executions.
ReadExecutions ==
    /\ reader.at = "executions"
    /\ Deliver(Build(reader.run, reader.approvals, executions))
    /\ reader' = Idle
    /\ UNCHANGED <<clock, rows>>

Next ==
    \/ Tick \/ AskAgain \/ Finish
    \/ \E decision \in Decisions : Decide(decision)
    \/ \E t \in Tools :
          \/ Claim(t) \/ Restart(t) \/ Die(t)
          \/ \E status \in Outcomes : End(t, status)
    \/ ReadRun \/ ReadApprovals \/ ReadExecutions

Spec == Init /\ [][Next]_vars

-----------------------------------------------------------------------------
(***************************************************************************)
(* Properties.                                                             *)
(***************************************************************************)

\* A stream that has a terminal event is the complete account of the run: it
\* ends with that event, whatever was written in the same instant, and
\* projecting the rows again, at any later time, gives the same list.
TerminalStreamIsFinal ==
    IsTerminal(stream) =>
        /\ Last(stream).kind = "terminal_result"
        /\ stream = Build(run, approvals, executions)

\* docs/security-and-limitations.md: a "valid cursor resumes after the exact
\* retained event".  A client that follows a run by its cursor, and whose
\* cursor the server accepts, is sent the event that ends it.
ResumeTellsTheEnd == IsTerminal(stream) /\ cursor > 0 => heard

=============================================================================
