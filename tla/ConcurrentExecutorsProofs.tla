--------------------- MODULE ConcurrentExecutorsProofs ---------------------
(***************************************************************************)
(* Coordinator calls for one action without the run lock, for any number   *)
(* of workers and any limit of attempts: what the unique constraint and    *)
(* the CHECK constraints of the execution row guarantee on their own.      *)
(***************************************************************************)
EXTENDS ConcurrentExecutors, TLAPS

\* The row and the number of writes it stands for.  n: committed writes.
RowFits(row, n) ==
    /\ row.status = "ABSENT" <=> row.attempt_count = 0
    /\ row.status = "ABSENT" => n = 0
    /\ row.status = "COMPLETED" => n >= 1
    /\ row.attempt_count <= 1 => n <= 1

\* The places that a worker can be at before the row exists.
BeforeRow == {"idle", "claim", "insert", "raised"}

\* What the place of a worker tells about the row, however late it is.
WorkerFits(state, row, n) ==
    /\ state.pc \notin BeforeRow => row.status # "ABSENT"
    /\ state.pc = "restart" => state.seen >= 1
    /\ state.pc = "dispatch" /\ row.attempt_count <= 1 => n = 0
    /\ state.pc \in {"complete_read", "complete_write"} => n >= 1
    /\ state.pc \in {"replay", "returned"} => row.status = "COMPLETED"
    /\ state.pc \in {"complete_write", "fail_read", "fail_write"} =>
          state.failure \in {"FAILED", "UNKNOWN"}

TheRow == execution[TheAction]
Writes == committed[TheAction]

\* On the first attempt a single worker may be about to write.
OneDispatch ==
    TheRow.attempt_count <= 1 =>
        \A p, q \in Workers : At(p, "dispatch") /\ At(q, "dispatch") => p = q

ExecutorInv ==
    /\ ToolTypeOK
    /\ approved \in BOOLEAN
    /\ \A w \in Workers : ~At(w, "idle") => worker[w].id = TheAction
    /\ \A id \in Identities \ {TheAction} : committed[id] = 0
    /\ RowFits(TheRow, Writes)
    /\ \A w \in Workers : WorkerFits(worker[w], TheRow, Writes)
    /\ OneDispatch

-----------------------------------------------------------------------------
\* A step of worker w that leaves it with the locals "state", the action's
\* row as "row" and its committed writes as n.
Becomes(w, state, row, n) ==
    /\ worker' = [worker EXCEPT ![w] = state]
    /\ execution' = [execution EXCEPT ![TheAction] = row]
    /\ committed' = [committed EXCEPT ![TheAction] = n]
    /\ UNCHANGED approved

\* What every step keeps, whichever action it is: the invariant, and a
\* completed row.
Kept ==
    /\ ExecutorInv'
    /\ \A id \in Identities :
          execution[id].status = "COMPLETED" => execution'[id] = execution[id]

Locals(pc, seen, failure) ==
    [pc |-> pc, id |-> TheAction, seen |-> seen, failure |-> failure]

\* A step keeps the invariant when the new row and the worker's new place
\* agree with each other and it takes nothing from the other workers: the
\* row does not vanish, a completed row is left alone, no write is undone,
\* no later attempt becomes the first again, and on the first attempt nobody
\* else is about to write.
LEMMA BecomesKeeps ==
  ASSUME ExecutorInv, NEW w \in Workers, NEW state \in WorkerStates,
         NEW row \in Rows, NEW n \in Nat,
         Becomes(w, state, row, n),
         state.pc # "idle" => state.id = TheAction,
         RowFits(row, n), WorkerFits(state, row, n),
         row.status = "ABSENT" => TheRow.status = "ABSENT",
         TheRow.status = "COMPLETED" => row = TheRow,
         n >= Writes,
         row.attempt_count <= 1 =>
            /\ TheRow.attempt_count <= 1
            /\ \A q \in Workers \ {w} :
                  At(q, "dispatch") => n = 0 /\ state.pc # "dispatch"
  PROVE  Kept
<1>1. /\ execution' \in [Identities -> Rows]
      /\ TheRow' = row
      /\ \A id \in Identities \ {TheAction} : execution'[id] = execution[id]
  BY TheActionAssumption DEF ExecutorInv, ToolTypeOK, Becomes, TheRow
<1>2. /\ committed' \in [Identities -> Nat]
      /\ Writes' = n
      /\ \A id \in Identities \ {TheAction} : committed'[id] = committed[id]
  BY TheActionAssumption DEF ExecutorInv, ToolTypeOK, Becomes, Writes
<1>3. /\ worker' \in [Workers -> WorkerStates]
      /\ worker'[w] = state
      /\ \A q \in Workers \ {w} : worker'[q] = worker[q]
  BY DEF ExecutorInv, ToolTypeOK, Becomes
<1>4. ToolTypeOK' /\ approved' \in BOOLEAN
  BY <1>1, <1>2, <1>3 DEF ToolTypeOK, ExecutorInv, Becomes
<1>5. \A q \in Workers : ~At(q, "idle")' => worker'[q].id = TheAction
  BY <1>3 DEF ExecutorInv, At
<1>6. \A q \in Workers : WorkerFits(worker'[q], row, n)
  <2>1. ASSUME NEW q \in Workers \ {w}
        PROVE  WorkerFits(worker[q], row, n)
    <3>1. WorkerFits(worker[q], TheRow, Writes) /\ Writes \in Nat
      BY TheActionAssumption DEF ExecutorInv, ToolTypeOK, Writes
    <3>2. At(q, "dispatch") /\ row.attempt_count <= 1 => n = 0
      OBVIOUS
    <3> QED
      BY <3>1, <3>2 DEF WorkerFits, At
  <2> QED
    BY <1>3, <2>1
<1>7. OneDispatch'
  BY <1>1, <1>3 DEF OneDispatch, ExecutorInv, At
<1>8. ExecutorInv'
  BY <1>1, <1>2, <1>4, <1>5, <1>6, <1>7 DEF ExecutorInv
<1>9. \A id \in Identities :
         execution[id].status = "COMPLETED" => execution'[id] = execution[id]
  BY <1>1 DEF TheRow
<1> QED
  BY <1>8, <1>9 DEF Kept

\* The state a worker that is inside the coordinator starts a step from.
LEMMA ActiveWorker ==
  ASSUME ExecutorInv, NEW w \in Workers, ~At(w, "idle")
  PROVE  /\ worker[w].id = TheAction
         /\ Row(w) = TheRow /\ TheRow \in Rows
         /\ TheRow.status \in RowStatuses
         /\ TheRow.attempt_count \in 0..MAX_ATTEMPT_COUNT
         /\ Writes \in Nat
         /\ worker[w] = Locals(worker[w].pc, worker[w].seen, worker[w].failure)
         /\ worker[w].pc \in WorkerPlaces
         /\ worker[w].seen \in 0..MAX_ATTEMPT_COUNT
         /\ worker[w].failure \in {"NONE", "FAILED", "UNKNOWN"}
         /\ RowFits(TheRow, Writes)
         /\ WorkerFits(worker[w], TheRow, Writes)
         /\ OneDispatch
         /\ execution = [execution EXCEPT ![TheAction] = TheRow]
         /\ committed = [committed EXCEPT ![TheAction] = Writes]
<1>1. worker[w].id = TheAction /\ worker[w] \in WorkerStates
  BY DEF ExecutorInv, ToolTypeOK
<1>2. Row(w) = TheRow /\ TheRow \in Rows /\ Writes \in Nat
  BY <1>1, TheActionAssumption DEF ExecutorInv, ToolTypeOK, Row, TheRow, Writes
<1>3. /\ TheRow.status \in RowStatuses
      /\ TheRow.attempt_count \in 0..MAX_ATTEMPT_COUNT
  BY <1>2 DEF Rows
<1>4. /\ worker[w] = Locals(worker[w].pc, worker[w].seen, worker[w].failure)
      /\ worker[w].pc \in WorkerPlaces
      /\ worker[w].seen \in 0..MAX_ATTEMPT_COUNT
      /\ worker[w].failure \in {"NONE", "FAILED", "UNKNOWN"}
  BY <1>1 DEF WorkerStates, Locals
<1>5. /\ execution = [execution EXCEPT ![TheAction] = TheRow]
      /\ committed = [committed EXCEPT ![TheAction] = Writes]
  BY TheActionAssumption DEF ExecutorInv, ToolTypeOK, TheRow, Writes
<1> QED
  BY <1>1, <1>2, <1>3, <1>4, <1>5 DEF ExecutorInv

\* The locals of a worker that executes the action are given by their fields.
LEMMA LocalsOf ==
  ASSUME NEW state \in WorkerStates, state.id = TheAction
  PROVE  state = Locals(state.pc, state.seen, state.failure)
BY DEF WorkerStates, Locals

\* What Goto leaves in the locals of its worker.
LEMMA GotoLocals ==
  ASSUME ExecutorInv, NEW w \in Workers, ~At(w, "idle"), NEW place \in WorkerPlaces
  PROVE  [worker EXCEPT ![w].pc = place] =
             [worker EXCEPT ![w] = Locals(place, worker[w].seen, worker[w].failure)]
<1>1. worker[w] = Locals(worker[w].pc, worker[w].seen, worker[w].failure)
  BY ActiveWorker
<1> DEFINE pc == worker[w].pc
           seen == worker[w].seen
           failure == worker[w].failure
<1>2. [Locals(pc, seen, failure) EXCEPT !.pc = place] = Locals(place, seen, failure)
  BY DEF Locals
<1>3. [worker[w] EXCEPT !.pc = place] = Locals(place, worker[w].seen, worker[w].failure)
  BY <1>1, <1>2
<1> QED
  BY <1>3

\* A step that moves only its worker, to a place that fits the row.
LEMMA MoveKeeps ==
  ASSUME ExecutorInv, NEW w \in Workers, ~At(w, "idle"),
         NEW pc \in WorkerPlaces \ {"idle", "dispatch"},
         NEW seen \in 0..MAX_ATTEMPT_COUNT,
         NEW failure \in {"NONE", "FAILED", "UNKNOWN"},
         worker' = [worker EXCEPT ![w] = Locals(pc, seen, failure)],
         UNCHANGED <<execution, committed, approved>>,
         WorkerFits(Locals(pc, seen, failure), TheRow, Writes)
  PROVE  Kept
<1> DEFINE state == Locals(pc, seen, failure)
<1>1. state \in WorkerStates /\ state.pc = pc /\ state.id = TheAction
  BY TheActionAssumption DEF Locals, WorkerStates
<1>2. Becomes(w, state, TheRow, Writes)
  BY ActiveWorker DEF Becomes
<1>3. TheRow.attempt_count <= 1 =>
         \A q \in Workers \ {w} : At(q, "dispatch") => Writes = 0
  BY ActiveWorker DEF ExecutorInv, WorkerFits, At
<1>4. WorkerFits(state, TheRow, Writes)
  OBVIOUS
<1>5. TheRow \in Rows /\ Writes \in Nat /\ RowFits(TheRow, Writes)
  BY ActiveWorker
<1> HIDE DEF state
<1> QED
  BY <1>1, <1>2, <1>3, <1>4, <1>5, BecomesKeeps

\* A transaction on the row that writes nothing to the domain.
LEMMA TransactionKeeps ==
  ASSUME ExecutorInv, NEW w \in Workers, ~At(w, "idle"),
         NEW row \in Rows,
         NEW pc \in WorkerPlaces \ {"idle"},
         NEW onError \in WorkerPlaces \ {"idle", "dispatch"},
         Transaction(w, row, pc, onError),
         UNCHANGED <<committed, approved>>,
         RowFits(row, Writes), row.status # "ABSENT",
         WorkerFits(Locals(pc, worker[w].seen, worker[w].failure), row, Writes),
         WorkerFits(Locals(onError, worker[w].seen, worker[w].failure), row, Writes),
         WorkerFits(Locals(onError, worker[w].seen, worker[w].failure), TheRow, Writes),
         TheRow.status = "COMPLETED" => row = TheRow,
         row.attempt_count <= 1 => TheRow.attempt_count <= 1,
         pc = "dispatch" /\ row.attempt_count <= 1 => TheRow.status = "ABSENT"
  PROVE  Kept
<1> DEFINE To(p) == Locals(p, worker[w].seen, worker[w].failure)
<1>0. /\ worker[w].id = TheAction
      /\ worker[w].seen \in 0..MAX_ATTEMPT_COUNT
      /\ worker[w].failure \in {"NONE", "FAILED", "UNKNOWN"}
      /\ Writes \in Nat
      /\ committed = [committed EXCEPT ![TheAction] = Writes]
  BY ActiveWorker
<1>1. \A p \in WorkerPlaces : [worker EXCEPT ![w].pc = p] = [worker EXCEPT ![w] = To(p)]
  BY GotoLocals
<1>2. ASSUME SetRow(w, row), NEW p \in {pc, onError}, Goto(w, p)
      PROVE  Kept
  <2>1. To(p) \in WorkerStates /\ To(p).pc = p /\ To(p).id = TheAction
    BY <1>0, TheActionAssumption DEF Locals, WorkerStates
  <2>2. Becomes(w, To(p), row, Writes)
    BY <1>0, <1>1, <1>2 DEF Becomes, SetRow, Goto
  <2>3. WorkerFits(To(p), row, Writes)
    BY <1>2
  <2>4. ASSUME row.attempt_count <= 1, NEW q \in Workers \ {w}, At(q, "dispatch")
        PROVE  Writes = 0 /\ p # "dispatch"
    BY <1>2, <2>4 DEF ExecutorInv, WorkerFits, At, BeforeRow
  <2> HIDE DEF To
  <2> QED
    BY <1>0, <2>1, <2>2, <2>3, <2>4, BecomesKeeps
<1>3. CASE Goto(w, onError) /\ UNCHANGED execution
  BY <1>0, <1>1, <1>3, MoveKeeps DEF Goto
<1> QED
  BY <1>2, <1>3 DEF Transaction

\* A step that only changes the place of its worker.
LEMMA GotoKeeps ==
  ASSUME ExecutorInv, NEW w \in Workers, ~At(w, "idle"),
         NEW place \in WorkerPlaces \ {"idle", "dispatch"}, Goto(w, place),
         UNCHANGED <<execution, committed, approved>>,
         WorkerFits(Locals(place, worker[w].seen, worker[w].failure), TheRow, Writes)
  PROVE  Kept
<1>1. worker' = [worker EXCEPT ![w] = Locals(place, worker[w].seen, worker[w].failure)]
  BY GotoLocals DEF Goto
<1> QED
  BY <1>1, ActiveWorker, MoveKeeps

\* The outcome of a read of the row (_claim): the place fits what was read.
LEMMA ReadKeeps ==
  ASSUME ExecutorInv, NEW w \in Workers, ~At(w, "idle"),
         NEW place \in {"insert", "replay", "restart", "raised"},
         worker' = [worker EXCEPT ![w].seen = Row(w).attempt_count, ![w].pc = place],
         UNCHANGED <<execution, committed, approved>>,
         place = "replay" => Row(w).status = "COMPLETED",
         place = "restart" => Row(w).status = "FAILED"
  PROVE  Kept
<1>1. /\ Row(w) = TheRow /\ RowFits(TheRow, Writes)
      /\ TheRow.attempt_count \in 0..MAX_ATTEMPT_COUNT
      /\ worker[w].failure \in {"NONE", "FAILED", "UNKNOWN"}
      /\ worker[w] = Locals(worker[w].pc, worker[w].seen, worker[w].failure)
  BY ActiveWorker
<1> DEFINE failure == worker[w].failure
           count == TheRow.attempt_count
<1>2. worker[w] \in WorkerStates /\ worker[w].id = TheAction
  BY ActiveWorker DEF ExecutorInv, ToolTypeOK
<1>3. /\ worker' \in [Workers -> WorkerStates]
      /\ worker'[w].pc = place /\ worker'[w].id = TheAction
      /\ worker'[w].seen = count /\ worker'[w].failure = failure
      /\ \A q \in Workers \ {w} : worker'[q] = worker[q]
  <2>1. [worker[w] EXCEPT !.seen = count, !.pc = place] \in WorkerStates
    BY <1>1, <1>2 DEF WorkerStates, WorkerPlaces
  <2>2. worker' \in [Workers -> WorkerStates]
    BY <1>1, <2>1 DEF ExecutorInv, ToolTypeOK
  <2> QED
    BY <1>1, <1>2, <2>2 DEF ExecutorInv, ToolTypeOK, WorkerStates
<1> HIDE DEF failure, count
<1>4. worker' = [worker EXCEPT ![w] = Locals(place, count, failure)]
  <2>1. worker'[w] = Locals(place, count, failure)
    BY <1>3, LocalsOf
  <2> QED
    BY <1>3, <2>1 DEF ExecutorInv, ToolTypeOK
<1>5. WorkerFits(Locals(place, count, failure), TheRow, Writes)
  BY <1>1 DEF WorkerFits, Locals, RowFits, BeforeRow, count
<1>6. place \in WorkerPlaces \ {"idle", "dispatch"}
  BY DEF WorkerPlaces
<1> QED
  BY <1>1, <1>4, <1>5, <1>6, MoveKeeps DEF failure, count

\* A dispatch: the worker goes on with a new status to record, and its write
\* was committed or not.
LEMMA DispatchKeeps ==
  ASSUME ExecutorInv, NEW w \in Workers, At(w, "dispatch"),
         NEW place \in {"complete_read", "fail_read"},
         NEW failure \in {"NONE", "FAILED", "UNKNOWN"},
         worker' = [worker EXCEPT ![w] = Locals(place, worker[w].seen, failure)],
         place = "fail_read" => failure # "NONE",
         \/ committed' = [committed EXCEPT ![worker[w].id] = @ + 1]
         \/ UNCHANGED committed /\ place = "fail_read",
         UNCHANGED <<execution, approved>>
  PROVE  Kept
<1> DEFINE state == Locals(place, worker[w].seen, failure)
<1>0. /\ worker[w].id = TheAction
      /\ Writes \in Nat /\ TheRow \in Rows
      /\ TheRow.attempt_count \in 0..MAX_ATTEMPT_COUNT
      /\ worker[w].seen \in 0..MAX_ATTEMPT_COUNT
      /\ RowFits(TheRow, Writes) /\ WorkerFits(worker[w], TheRow, Writes)
      /\ execution = [execution EXCEPT ![TheAction] = TheRow]
      /\ committed = [committed EXCEPT ![TheAction] = Writes]
      /\ OneDispatch
  BY ActiveWorker DEF At
<1>1. PICK n \in {Writes, Writes + 1} :
         /\ committed' = [committed EXCEPT ![TheAction] = n]
         /\ place = "complete_read" => n = Writes + 1
  BY <1>0 DEF Writes
<1>2. /\ state \in WorkerStates
      /\ state.pc = place /\ state.id = TheAction /\ state.failure = failure
  BY <1>0, TheActionAssumption DEF Locals, WorkerStates, WorkerPlaces
<1>3. TheRow.status # "ABSENT" /\ (TheRow.attempt_count <= 1 => Writes = 0)
  BY <1>0 DEF WorkerFits, BeforeRow, At
<1>4. RowFits(TheRow, n)
  BY <1>0, <1>1, <1>3 DEF RowFits
<1>5. WorkerFits(state, TheRow, n)
  BY <1>0, <1>1, <1>2, <1>3 DEF WorkerFits
<1>6. TheRow.attempt_count <= 1 =>
         \A q \in Workers \ {w} : ~At(q, "dispatch")
  BY <1>0 DEF OneDispatch
<1>7. Becomes(w, state, TheRow, n)
  BY <1>0, <1>1 DEF Becomes
<1> HIDE DEF state
<1> QED
  BY <1>0, <1>1, <1>2, <1>3, <1>4, <1>5, <1>6, <1>7, BecomesKeeps

\* Taking note of the status to record, on the way to "place".
LEMMA FailureLocals ==
  ASSUME ExecutorInv, NEW w \in Workers, ~At(w, "idle"),
         NEW place \in WorkerPlaces,
         NEW failure \in {"NONE", "FAILED", "UNKNOWN"},
         \/ worker' = [worker EXCEPT ![w].pc = place, ![w].failure = failure]
         \/ worker' = [worker EXCEPT ![w].failure = failure, ![w].pc = place]
  PROVE  worker' = [worker EXCEPT ![w] = Locals(place, worker[w].seen, failure)]
<1>1. worker[w] \in WorkerStates /\ worker[w].id = TheAction
  BY ActiveWorker DEF ExecutorInv, ToolTypeOK
<1>2. /\ worker' \in [Workers -> WorkerStates]
      /\ worker'[w].pc = place /\ worker'[w].id = TheAction
      /\ worker'[w].seen = worker[w].seen /\ worker'[w].failure = failure
      /\ \A q \in Workers \ {w} : worker'[q] = worker[q]
  <2>1. /\ [worker[w] EXCEPT !.pc = place, !.failure = failure] \in WorkerStates
        /\ [worker[w] EXCEPT !.failure = failure, !.pc = place] \in WorkerStates
    BY <1>1 DEF WorkerStates
  <2>2. worker' \in [Workers -> WorkerStates]
    BY <2>1 DEF ExecutorInv, ToolTypeOK
  <2> QED
    BY <1>1, <2>2 DEF ExecutorInv, ToolTypeOK, WorkerStates
<1>3. worker'[w] = Locals(place, worker[w].seen, failure)
  BY <1>2, LocalsOf
<1> QED
  BY <1>2, <1>3 DEF ExecutorInv, ToolTypeOK

-----------------------------------------------------------------------------
\* Where _classify_existing sends a claim, by the status it read.
LEMMA ClassifyCases ==
  ASSUME NEW row
  PROVE  /\ ClassifyExisting(row) \in {"replay", "restart", "raised"}
         /\ ClassifyExisting(row) = "replay" => row.status = "COMPLETED"
         /\ ClassifyExisting(row) = "restart" => row.status = "FAILED"
BY DEF ClassifyExisting

\* Every step of a coordinator call, at any distance from what the call last
\* read, keeps the invariant and leaves a completed row alone.
LEMMA ToolStepKeeps ==
  ASSUME ExecutorInv, NEW w \in Workers, ToolStep(w, approved), UNCHANGED approved
  PROVE  Kept
<1> DEFINE seen == worker[w].seen
           failure == worker[w].failure
           At1(p) == Locals(p, seen, failure)
<1>0. ~At(w, "idle")
  BY DEF ToolStep, ClaimRead, ClaimInsert, ClaimReread, ClaimRestart, Replay,
         DispatchSucceeds, DispatchProvenNoWrite, DispatchUnknown,
         CompletionRead, CompletionWrite, FailureRead, FailureWrite, At
<1>a. /\ Row(w) = TheRow /\ TheRow \in Rows
      /\ worker[w].id = TheAction
      /\ TheRow.status \in RowStatuses
      /\ TheRow.attempt_count \in 0..MAX_ATTEMPT_COUNT
      /\ Writes \in Nat
      /\ seen \in 0..MAX_ATTEMPT_COUNT
      /\ failure \in {"NONE", "FAILED", "UNKNOWN"}
      /\ RowFits(TheRow, Writes)
      /\ WorkerFits(worker[w], TheRow, Writes)
  BY <1>0, ActiveWorker
<1>b. \A row : WorkerFits(At1("raised"), row, Writes)
  BY DEF WorkerFits, Locals, BeforeRow
<1> HIDE DEF seen, failure, At1
<1>1. CASE ClaimRead(w, approved)
  <2> DEFINE place == IF IsHighImpact(worker[w].id) /\ ~approved THEN "raised"
                      ELSE IF Row(w).status = "ABSENT" THEN "insert"
                      ELSE ClassifyExisting(Row(w))
  <2>1. /\ place \in {"insert", "replay", "restart", "raised"}
        /\ place = "replay" => Row(w).status = "COMPLETED"
        /\ place = "restart" => Row(w).status = "FAILED"
    BY ClassifyCases
  <2>2. /\ worker' = [worker EXCEPT ![w].seen = Row(w).attempt_count,
                                    ![w].pc = place]
        /\ UNCHANGED <<execution, committed>>
    BY <1>1 DEF ClaimRead
  <2> HIDE DEF place
  <2> QED
    BY <1>0, <2>1, <2>2, ReadKeeps
<1>2. CASE ClaimInsert(w)
  <2>1. CASE Row(w).status = "ABSENT"
    <3> DEFINE row == [status |-> "IN_PROGRESS", attempt_count |-> 1]
    <3>1. /\ row \in Rows /\ row.status = "IN_PROGRESS" /\ row.attempt_count = 1
      BY AttemptAssumption DEF Rows, RowStatuses
    <3>2. Transaction(w, row, "dispatch", "raised") /\ UNCHANGED committed
      BY <1>2, <2>1 DEF ClaimInsert
    <3> HIDE DEF row
    <3>3. Writes = 0 /\ TheRow.attempt_count = 0
      BY <1>a, <2>1 DEF RowFits
    <3>4. RowFits(row, Writes) /\ WorkerFits(At1("dispatch"), row, Writes)
      BY <3>1, <3>3 DEF RowFits, WorkerFits, Locals, At1
    <3> QED
      BY <1>0, <1>a, <1>b, <2>1, <3>1, <3>2, <3>3, <3>4, TransactionKeeps
      DEF WorkerPlaces, At1, seen, failure
  <2>2. CASE Row(w).status # "ABSENT"
    <3>1. WorkerFits(At1("reread"), TheRow, Writes)
      BY <1>a, <2>2 DEF WorkerFits, Locals, At1
    <3> QED
      BY <1>0, <1>2, <2>2, <3>1, GotoKeeps
      DEF ClaimInsert, WorkerPlaces, At1, seen, failure
  <2> QED
    BY <2>1, <2>2
<1>3. CASE ClaimReread(w)
  BY <1>0, <1>3, ClassifyCases, ReadKeeps DEF ClaimReread
<1>4. CASE ClaimRestart(w)
  <2>1. CASE Row(w).status # "COMPLETED" /\ seen < MAX_ATTEMPT_COUNT
    <3> DEFINE row == [status |-> "IN_PROGRESS", attempt_count |-> seen + 1]
    <3>0. seen >= 1
      BY <1>a, <1>4 DEF ClaimRestart, At, WorkerFits, seen
    <3>1. row \in Rows /\ row.status = "IN_PROGRESS" /\ row.attempt_count = seen + 1
      BY <1>a, <2>1, AttemptAssumption DEF Rows, RowStatuses
    <3>2. Transaction(w, row, "dispatch", "raised") /\ UNCHANGED committed
      BY <1>4, <2>1 DEF ClaimRestart, seen
    <3> HIDE DEF row
    <3>3. row.attempt_count > 1
      BY <1>a, <3>0, <3>1
    <3>4. RowFits(row, Writes) /\ WorkerFits(At1("dispatch"), row, Writes)
      BY <1>a, <3>0, <3>1, <3>3 DEF RowFits, WorkerFits, Locals, At1
    <3>5. ~(row.attempt_count <= 1)
      BY <1>a, <3>1, <3>3
    <3> QED
      BY <1>0, <1>a, <1>b, <2>1, <3>1, <3>2, <3>4, <3>5, TransactionKeeps
      DEF WorkerPlaces, At1, seen, failure
  <2>2. CASE ~(Row(w).status # "COMPLETED" /\ seen < MAX_ATTEMPT_COUNT)
    BY <1>0, <1>4, <1>b, <2>2, GotoKeeps
    DEF ClaimRestart, WorkerPlaces, At1, seen, failure
  <2> QED
    BY <2>1, <2>2
<1>5. CASE Replay(w)
  <2>1. PICK place \in {"returned", "raised"} : Goto(w, place)
    BY <1>5 DEF Replay
  <2>2. TheRow.status = "COMPLETED"
    BY <1>a, <1>5 DEF Replay, At, WorkerFits
  <2>3. WorkerFits(At1(place), TheRow, Writes)
    BY <2>2 DEF WorkerFits, Locals, At1
  <2> QED
    BY <1>0, <1>5, <2>1, <2>3, GotoKeeps
    DEF Replay, WorkerPlaces, At1, seen, failure
<1>6. CASE DispatchSucceeds(w)
  <2>1. worker' = [worker EXCEPT ![w] = Locals("complete_read", worker[w].seen,
                                               worker[w].failure)]
    BY <1>0, <1>6, GotoLocals DEF DispatchSucceeds, Goto, WorkerPlaces
  <2> QED
    BY <1>a, <1>6, <2>1, DispatchKeeps DEF DispatchSucceeds, failure
<1>7. CASE DispatchProvenNoWrite(w)
  <2>1. worker' = [worker EXCEPT ![w] = Locals("fail_read", worker[w].seen, "FAILED")]
    BY <1>0, <1>7, FailureLocals DEF DispatchProvenNoWrite, WorkerPlaces
  <2> QED
    BY <1>7, <2>1, DispatchKeeps DEF DispatchProvenNoWrite
<1>8. CASE DispatchUnknown(w)
  <2>1. worker' = [worker EXCEPT ![w] = Locals("fail_read", worker[w].seen, "UNKNOWN")]
    BY <1>0, <1>8, FailureLocals DEF DispatchUnknown, WorkerPlaces
  <2> QED
    BY <1>8, <2>1, DispatchKeeps DEF DispatchUnknown
<1>9. CASE CompletionRead(w)
  <2> DEFINE place == IF Row(w).status = "IN_PROGRESS" THEN "complete_write"
                                                       ELSE "fail_read"
  <2>1. /\ worker' = [worker EXCEPT ![w].failure = "UNKNOWN", ![w].pc = place]
        /\ UNCHANGED <<execution, committed>>
    BY <1>9 DEF CompletionRead
  <2>2. place \in {"complete_write", "fail_read"}
    OBVIOUS
  <2> HIDE DEF place
  <2>3. worker' = [worker EXCEPT ![w] = Locals(place, worker[w].seen, "UNKNOWN")]
    <3>1. place \in WorkerPlaces /\ "UNKNOWN" \in {"NONE", "FAILED", "UNKNOWN"}
      BY <2>2 DEF WorkerPlaces
    <3> QED
      BY <1>0, <2>1, <3>1, FailureLocals
  <2>4. WorkerFits(Locals(place, worker[w].seen, "UNKNOWN"), TheRow, Writes)
    BY <1>a, <1>9, <2>2 DEF CompletionRead, At, WorkerFits, Locals, BeforeRow
  <2> QED
    BY <1>0, <1>a, <2>1, <2>2, <2>3, <2>4, MoveKeeps DEF WorkerPlaces, seen
<1>10. CASE CompletionWrite(w)
  <2>1. /\ failure \in {"FAILED", "UNKNOWN"} /\ Writes >= 1
        /\ TheRow.status # "ABSENT"
    BY <1>a, <1>10 DEF CompletionWrite, At, WorkerFits, BeforeRow, failure
  <2>2. CASE Row(w).status \in {"IN_PROGRESS", "COMPLETED"}
    <3> DEFINE row == [Row(w) EXCEPT !.status = "COMPLETED"]
    <3>1. /\ row \in Rows /\ row.status = "COMPLETED"
          /\ row.attempt_count = TheRow.attempt_count
      BY <1>a DEF Rows, RowStatuses
    <3>2. Transaction(w, row, "returned", "fail_read") /\ UNCHANGED committed
      BY <1>10, <2>2 DEF CompletionWrite
    <3> HIDE DEF row
    <3>3. TheRow.status = "COMPLETED" => row = TheRow
      BY <1>a, <3>1 DEF Rows
    <3>4. RowFits(row, Writes) /\ WorkerFits(At1("returned"), row, Writes)
      BY <1>a, <2>1, <3>1 DEF RowFits, WorkerFits, Locals, At1
    <3>5. /\ WorkerFits(At1("fail_read"), row, Writes)
          /\ WorkerFits(At1("fail_read"), TheRow, Writes)
      BY <2>1, <3>1 DEF WorkerFits, Locals, At1
    <3> QED
      BY <1>0, <1>a, <3>1, <3>2, <3>3, <3>4, <3>5, TransactionKeeps
      DEF WorkerPlaces, At1, seen, failure
  <2>3. CASE Row(w).status \notin {"IN_PROGRESS", "COMPLETED"}
    <3>1. WorkerFits(At1("fail_read"), TheRow, Writes)
      BY <2>1 DEF WorkerFits, Locals, At1
    <3> QED
      BY <1>0, <1>10, <2>3, <3>1, GotoKeeps
      DEF CompletionWrite, WorkerPlaces, At1, seen, failure
  <2> QED
    BY <2>2, <2>3
<1>11. CASE FailureRead(w)
  <2>1. failure \in {"FAILED", "UNKNOWN"} /\ TheRow.status # "ABSENT"
    BY <1>a, <1>11 DEF FailureRead, At, WorkerFits, BeforeRow, failure
  <2>2. PICK place \in {"raised", "fail_write"} : Goto(w, place)
    BY <1>11 DEF FailureRead
  <2>3. WorkerFits(At1(place), TheRow, Writes)
    BY <2>1 DEF WorkerFits, Locals, At1
  <2> QED
    BY <1>0, <1>11, <2>2, <2>3, GotoKeeps
    DEF FailureRead, WorkerPlaces, At1, seen, failure
<1>12. CASE FailureWrite(w)
  <2>1. failure \in {"FAILED", "UNKNOWN"} /\ TheRow.status # "ABSENT"
    BY <1>a, <1>12 DEF FailureWrite, At, WorkerFits, BeforeRow, failure
  <2>2. CASE Row(w).status # "COMPLETED"
    <3> DEFINE row == [Row(w) EXCEPT !.status = failure]
    <3>1. /\ row \in Rows /\ row.status = failure
          /\ row.attempt_count = TheRow.attempt_count
      BY <1>a, <2>1 DEF Rows, RowStatuses
    <3>2. Transaction(w, row, "raised", "raised") /\ UNCHANGED committed
      BY <1>12, <2>2 DEF FailureWrite, failure
    <3> HIDE DEF row
    <3>3. RowFits(row, Writes)
      BY <1>a, <2>1, <3>1 DEF RowFits
    <3> QED
      BY <1>0, <1>a, <1>b, <2>1, <2>2, <3>1, <3>2, <3>3, TransactionKeeps
      DEF WorkerPlaces, At1, seen, failure
  <2>3. CASE Row(w).status = "COMPLETED"
    BY <1>0, <1>12, <1>b, <2>3, GotoKeeps
    DEF FailureWrite, WorkerPlaces, At1, seen, failure
  <2> QED
    BY <2>2, <2>3
<1> QED
  BY <1>1, <1>2, <1>3, <1>4, <1>5, <1>6, <1>7, <1>8, <1>9, <1>10, <1>11, <1>12
  DEF ToolStep

-----------------------------------------------------------------------------
\* No row, no write and no call: the invariant holds at the start.
LEMMA InitFits == Init => ExecutorInv
<1> SUFFICES ASSUME Init PROVE ExecutorInv
  OBVIOUS
<1>1. AbsentRow \in Rows /\ IdleWorker \in WorkerStates
  BY AttemptAssumption
  DEF AbsentRow, Rows, RowStatuses, IdleWorker, WorkerStates, WorkerPlaces
<1>2. ToolTypeOK
  BY <1>1 DEF Init, ToolInit, ToolTypeOK
<1>3. TheRow = AbsentRow /\ Writes = 0
  BY TheActionAssumption DEF Init, ToolInit, TheRow, Writes
<1>4. \A w \in Workers : worker[w] = IdleWorker
  BY DEF Init, ToolInit
<1>5. RowFits(AbsentRow, 0) /\ WorkerFits(IdleWorker, AbsentRow, 0)
  BY DEF RowFits, AbsentRow, WorkerFits, IdleWorker, BeforeRow
<1>6. \A w \in Workers : At(w, "idle")
  BY <1>4 DEF At, IdleWorker
<1> QED
  BY <1>2, <1>3, <1>4, <1>5, <1>6 DEF ExecutorInv, Init, ToolInit, OneDispatch, At

\* A worker that starts a call or is gone takes nothing from the others.
LEMMA ComeAndGo ==
  ASSUME ExecutorInv, NEW w \in Workers, Begin(w) \/ Leave(w)
  PROVE  Kept
<1> DEFINE state == IF Begin(w) THEN Locals("claim", 0, "NONE") ELSE IdleWorker
<1>1. /\ worker' = [worker EXCEPT ![w] = state]
      /\ UNCHANGED <<execution, committed, approved>>
  BY DEF Begin, Call, Leave, WorkerStops, IdleWorker, Locals
<1>2. /\ state \in WorkerStates /\ state.pc \in {"claim", "idle"}
      /\ state.pc # "idle" => state.id = TheAction
  BY AttemptAssumption, TheActionAssumption
  DEF WorkerStates, WorkerPlaces, IdleWorker, Locals
<1> HIDE DEF state
<1>3. /\ execution = [execution EXCEPT ![TheAction] = TheRow]
      /\ committed = [committed EXCEPT ![TheAction] = Writes]
      /\ TheRow \in Rows /\ Writes \in Nat /\ RowFits(TheRow, Writes)
  BY TheActionAssumption DEF ExecutorInv, ToolTypeOK, TheRow, Writes
<1>4. Becomes(w, state, TheRow, Writes)
  BY <1>1, <1>3 DEF Becomes
<1>5. WorkerFits(state, TheRow, Writes)
  BY <1>2 DEF WorkerFits, BeforeRow
<1>6. TheRow.attempt_count <= 1 =>
         \A q \in Workers \ {w} : At(q, "dispatch") => Writes = 0
  BY DEF ExecutorInv, WorkerFits, At
<1> QED
  BY <1>2, <1>3, <1>4, <1>5, <1>6, BecomesKeeps

\* One step of any worker.
LEMMA NextKeeps ==
  ASSUME ExecutorInv, [Next]_vars
  PROVE  Kept
<1>1. ASSUME NEW w \in Workers, Begin(w) \/ Step(w) \/ Leave(w)
      PROVE  Kept
  BY <1>1, ComeAndGo, ToolStepKeeps DEF Step
<1>2. CASE UNCHANGED vars
  BY <1>2 DEF vars, toolVars, Kept, ExecutorInv, ToolTypeOK, At, TheRow, Writes,
              OneDispatch
<1> QED
  BY <1>1, <1>2 DEF Next

\* The inductive invariant holds of every reachable state.
THEOREM ExecutorsInvariant == Spec => []ExecutorInv
<1>1. ExecutorInv /\ [Next]_vars => ExecutorInv'
  BY NextKeeps DEF Kept
<1> QED
  BY <1>1, InitFits, PTL DEF Spec

\* However many workers race for the first claim without the run lock, the
\* unique constraint lets at most one of them write.
THEOREM FirstClaimIsExclusive == Spec => []FirstClaimWritesAtMostOnce
<1>1. ExecutorInv => FirstClaimWritesAtMostOnce
  <2> SUFFICES ASSUME ExecutorInv, NEW id \in Identities,
                      execution[id].attempt_count <= 1
               PROVE  committed[id] <= 1
    BY DEF FirstClaimWritesAtMostOnce
  <2> QED
    BY DEF ExecutorInv, RowFits, TheRow, Writes
<1> QED
  BY <1>1, ExecutorsInvariant, PTL

\* Success is reported to a caller only of a completed row and a committed
\* write.
THEOREM ReportedSuccessIsDurable == Spec => []SuccessIsDurable
<1>1. ExecutorInv => SuccessIsDurable
  <2> SUFFICES ASSUME ExecutorInv, NEW w \in Workers, At(w, "returned")
               PROVE  Row(w).status = "COMPLETED" /\ committed[worker[w].id] >= 1
    BY DEF SuccessIsDurable
  <2>1. /\ Row(w) = TheRow /\ worker[w].id = TheAction
        /\ RowFits(TheRow, Writes) /\ WorkerFits(worker[w], TheRow, Writes)
    BY ActiveWorker DEF At
  <2> QED
    BY <2>1 DEF At, RowFits, WorkerFits, Writes
<1> QED
  BY <1>1, ExecutorsInvariant, PTL

\* A completed row is final, however late a worker's restart, completion or
\* failure comes: the CHECK constraints refuse it or write the same row.
THEOREM CompletedRowIsFinal == Spec => CompletedIsFinal
<1> DEFINE Final == \A id \in Identities :
                       execution[id].status = "COMPLETED" =>
                           execution'[id] = execution[id]
<1>1. ExecutorInv /\ [Next]_vars => [Final]_vars
  BY NextKeeps DEF Kept
<1> HIDE DEF Final
<1>2. Spec => [][Final]_vars
  BY <1>1, ExecutorsInvariant, PTL DEF Spec
<1> QED
  BY <1>2 DEF CompletedIsFinal, Final

=============================================================================
