--------------------------- MODULE ToolExecution ---------------------------
(***************************************************************************)
(* AgentToolExecutionCoordinator: one approved action is executed by       *)
(* claiming a durable row, dispatching the domain write in a transaction   *)
(* of its own, and recording the outcome on the row.  Every database       *)
(* statement that another session can get in between is a step.            *)
(*                                                                         *)
(* A worker is one call of the coordinator.  The module gives the state    *)
(* and the steps; ConcurrentExecutors runs workers against each other      *)
(* without the run lock, ApprovalRecovery runs them under it.              *)
(***************************************************************************)
EXTENDS AgentGraph

CONSTANTS
    Workers,             \* threads that may call the coordinator
    MAX_ATTEMPT_COUNT    \* ck_agent_tool_executions_attempt_count: 100

ASSUME AttemptAssumption == MAX_ATTEMPT_COUNT \in Nat \ {0}

VARIABLES
    execution,  \* agent_tool_executions: one row per action identity
    committed,  \* number of domain writes committed for an identity
    worker      \* program counter and locals of each coordinator call

toolVars == <<execution, committed, worker>>

\* uq_agent_tool_executions_action_identity, within one run.
Identities == Revisions \X Fingerprints \X ActionKeys

ProposalOf(fp) == CHOOSE p \in Proposals : Digest[p] = fp

\* is_high_impact_tool, for the action an identity names.
HighImpactTools == {"batch_create_tasks", "delete_task"}
IsHighImpact(id) ==
    \E i \in 1..Len(Plan[ProposalOf(id[2])]) :
        /\ Plan[ProposalOf(id[2])][i].action_key = id[3]
        /\ Plan[ProposalOf(id[2])][i].tool_name \in HighImpactTools

RowStatuses == {"ABSENT", "IN_PROGRESS", "COMPLETED", "FAILED", "UNKNOWN"}
Rows == [status : RowStatuses, attempt_count : 0..MAX_ATTEMPT_COUNT]
AbsentRow == [status |-> "ABSENT", attempt_count |-> 0]

\* "claim" .. "fail_write" are places inside _execute; "returned" and
\* "raised" are its two ways out.
WorkerPlaces ==
    {"idle", "claim", "insert", "reread", "restart", "replay", "dispatch",
     "complete_read", "complete_write", "fail_read", "fail_write",
     "returned", "raised"}

WorkerStates ==
    [pc : WorkerPlaces,
     id : Identities \cup {None},
     seen : 0..MAX_ATTEMPT_COUNT,          \* attempt_count as last read
     failure : {"NONE", "FAILED", "UNKNOWN"}]  \* status to record

IdleWorker == [pc |-> "idle", id |-> None, seen |-> 0, failure |-> "NONE"]

ToolTypeOK ==
    /\ execution \in [Identities -> Rows]
    /\ committed \in [Identities -> Nat]
    /\ worker \in [Workers -> WorkerStates]

ToolInit ==
    /\ execution = [id \in Identities |-> AbsentRow]
    /\ committed = [id \in Identities |-> 0]
    /\ worker = [w \in Workers |-> IdleWorker]

At(w, place) == worker[w].pc = place
Row(w) == execution[worker[w].id]
Goto(w, place) == worker' = [worker EXCEPT ![w].pc = place]
SetRow(w, row) == execution' = [execution EXCEPT ![worker[w].id] = row]

(***************************************************************************)
(* A transaction that writes the row to "row" and then goes to "place".    *)
(* It may fail before its commit, or commit while the acknowledgement is   *)
(* lost; in both cases the worker goes to "onError".                       *)
(***************************************************************************)
Transaction(w, row, place, onError) ==
    \/ SetRow(w, row) /\ Goto(w, place)
    \/ SetRow(w, row) /\ Goto(w, onError)
    \/ Goto(w, onError) /\ UNCHANGED execution

-----------------------------------------------------------------------------
Call(w, id) ==
    /\ At(w, "idle")
    /\ worker' = [worker EXCEPT ![w] = [IdleWorker EXCEPT !.pc = "claim",
                                                          !.id = id]]
    /\ UNCHANGED <<execution, committed>>

\* Mutant: a claim whose outcome is not known is tried again.
RetryUnfinished(row) == IF row.status = "COMPLETED" THEN "replay" ELSE "restart"

\* _classify_existing: where a claim goes after reading an existing row.
ClassifyExisting(row) ==
    CASE row.status = "COMPLETED" -> "replay"
      [] row.status = "FAILED"    -> "restart"
      [] OTHER                    -> "raised"

\* _claim, first SELECT.  approved: agent_approvals holds an APPROVED
\* decision for the identity's revision and fingerprint.
ClaimRead(w, approved) ==
    /\ At(w, "claim")
    /\ worker' = [worker EXCEPT
          ![w].seen = Row(w).attempt_count,
          ![w].pc = IF IsHighImpact(worker[w].id) /\ ~approved THEN "raised"
                    ELSE IF Row(w).status = "ABSENT" THEN "insert"
                    ELSE ClassifyExisting(Row(w))]
    /\ UNCHANGED <<execution, committed>>

\* Mutant: no unique constraint, the later claim overwrites the earlier.
ClaimOverwrites(w) ==
    /\ At(w, "insert")
    /\ Transaction(w, [status |-> "IN_PROGRESS", attempt_count |-> 1],
                   "dispatch", "raised")
    /\ UNCHANGED committed

\* _claim, INSERT: the unique constraint sends the loser to a second read.
ClaimInsert(w) ==
    /\ At(w, "insert")
    /\ IF Row(w).status = "ABSENT"
       THEN Transaction(w, [status |-> "IN_PROGRESS", attempt_count |-> 1],
                        "dispatch", "raised")
       ELSE Goto(w, "reread") /\ UNCHANGED execution
    /\ UNCHANGED committed

ClaimReread(w) ==
    /\ At(w, "reread")
    /\ worker' = [worker EXCEPT ![w].seen = Row(w).attempt_count,
                                ![w].pc = ClassifyExisting(Row(w))]
    /\ UNCHANGED <<execution, committed>>

\* restart_failed: an UPDATE without a version check.  The row's CHECK
\* constraints refuse it on a completed row and beyond the last attempt.
ClaimRestart(w) ==
    /\ At(w, "restart")
    /\ IF Row(w).status # "COMPLETED" /\ worker[w].seen < MAX_ATTEMPT_COUNT
       THEN Transaction(w, [status |-> "IN_PROGRESS",
                            attempt_count |-> worker[w].seen + 1],
                        "dispatch", "raised")
       ELSE Goto(w, "raised") /\ UNCHANGED execution
    /\ UNCHANGED committed

\* _load_public_result: a created or updated task may be gone by now, a
\* high-impact receipt is rebuilt from the row.
Replay(w) ==
    /\ At(w, "replay")
    /\ \/ Goto(w, "returned")
       \/ ~IsHighImpact(worker[w].id) /\ Goto(w, "raised")
    /\ UNCHANGED <<execution, committed>>

\* The domain write commits and its result is accepted.
DispatchSucceeds(w) ==
    /\ At(w, "dispatch")
    /\ committed' = [committed EXCEPT ![worker[w].id] = @ + 1]
    /\ Goto(w, "complete_read")
    /\ UNCHANGED execution

\* One of _PROVEN_NO_WRITE_ERRORS.
DispatchProvenNoWrite(w) ==
    /\ At(w, "dispatch")
    /\ worker' = [worker EXCEPT ![w].pc = "fail_read", ![w].failure = "FAILED"]
    /\ UNCHANGED <<execution, committed>>

\* Any other exception: the write may or may not have been committed.
DispatchUnknown(w) ==
    /\ At(w, "dispatch")
    /\ \/ committed' = [committed EXCEPT ![worker[w].id] = @ + 1]
       \/ UNCHANGED committed
    /\ worker' = [worker EXCEPT ![w].pc = "fail_read", ![w].failure = "UNKNOWN"]
    /\ UNCHANGED execution

\* _record_completion: only an IN_PROGRESS row is completed; whatever goes
\* wrong is recorded as UNKNOWN.
CompletionRead(w) ==
    /\ At(w, "complete_read")
    /\ worker' = [worker EXCEPT
          ![w].failure = "UNKNOWN",
          ![w].pc = IF Row(w).status = "IN_PROGRESS" THEN "complete_write"
                                                     ELSE "fail_read"]
    /\ UNCHANGED <<execution, committed>>

\* Mutant: success is returned although the completion was not stored.
CompletionNotAwaited(w) ==
    /\ At(w, "complete_write")
    /\ IF Row(w).status \in {"IN_PROGRESS", "COMPLETED"}
       THEN Transaction(w, [Row(w) EXCEPT !.status = "COMPLETED"],
                        "returned", "returned")
       ELSE Goto(w, "fail_read") /\ UNCHANGED execution
    /\ UNCHANGED committed

\* The CHECK constraint refuses a COMPLETED row that carries an error code.
CompletionWrite(w) ==
    /\ At(w, "complete_write")
    /\ IF Row(w).status \in {"IN_PROGRESS", "COMPLETED"}
       THEN Transaction(w, [Row(w) EXCEPT !.status = "COMPLETED"],
                        "returned", "fail_read")
       ELSE Goto(w, "fail_read") /\ UNCHANGED execution
    /\ UNCHANGED committed

\* _record_failure: a completed row is left alone, and so is one that already
\* has the status to record (an UPDATE writes only what differs).
FailureRead(w) ==
    /\ At(w, "fail_read")
    /\ Goto(w, IF Row(w).status \in {"COMPLETED", worker[w].failure}
               THEN "raised" ELSE "fail_write")
    /\ UNCHANGED <<execution, committed>>

\* Mutant: a late failure overwrites a completed row.
FailureOverwrites(w) ==
    /\ At(w, "fail_write")
    /\ Transaction(w, [Row(w) EXCEPT !.status = worker[w].failure],
                   "raised", "raised")
    /\ UNCHANGED committed

\* The CHECK constraint refuses a failure on a row that carries a result.
FailureWrite(w) ==
    /\ At(w, "fail_write")
    /\ IF Row(w).status # "COMPLETED"
       THEN Transaction(w, [Row(w) EXCEPT !.status = worker[w].failure],
                        "raised", "raised")
       ELSE Goto(w, "raised") /\ UNCHANGED execution
    /\ UNCHANGED committed

\* The process stops; the row and the committed writes survive.
WorkerStops(w) ==
    /\ ~At(w, "idle")
    /\ worker' = [worker EXCEPT ![w] = IdleWorker]
    /\ UNCHANGED <<execution, committed>>

ToolStep(w, approved) ==
    \/ ClaimRead(w, approved) \/ ClaimInsert(w) \/ ClaimReread(w)
    \/ ClaimRestart(w) \/ Replay(w)
    \/ DispatchSucceeds(w) \/ DispatchProvenNoWrite(w) \/ DispatchUnknown(w)
    \/ CompletionRead(w) \/ CompletionWrite(w)
    \/ FailureRead(w) \/ FailureWrite(w)

=============================================================================
