-------------------------- MODULE ProjectsAndTasks --------------------------
(***************************************************************************)
(* Projects and tasks of one owner (services/projects.py and tasks.py).  A *)
(* request reads its row without a lock, validates and computes column     *)
(* changes from what it read, and later flushes them: the UPDATE names     *)
(* only the columns that differ from the read, applies to the row as it is *)
(* then, and the table's CHECK constraints see the result.                 *)
(*                                                                         *)
(* Both tables have a pair of dates under the same rule: planned_date and  *)
(* due_at of a task, start_date and target_date of a project, here from    *)
(* and to.  Columns that no rule relates, the clock and the public result  *)
(* are left out.  A task is created in a project that exists, archived or  *)
(* not; projects are never deleted, so no later rule relates the two.      *)
(***************************************************************************)
EXTENDS Integers, FiniteSets

CONSTANTS
    TaskIds, ProjectIds,   \* random UUIDs, none drawn twice
    Requests,              \* request threads and agent tool calls
    Days,                  \* calendar of the dates
    MAX_BATCH,             \* tasks one create_task_batch may hold
    MAX_ROWS,              \* bound of the model: rows at a time
    None,
    Keep                   \* a column that a PATCH or an UPDATE does not name

ASSUME DaysAssumption == Days \subseteq Int /\ None \notin Days /\ Keep \notin Days
ASSUME MarkerAssumption ==
    /\ None \notin {Keep, "timestamp", "update", "delete"}
    /\ Keep \notin {"timestamp", "COMPLETED"}
ASSUME IdsAssumption == TaskIds \cap ProjectIds = {}

VARIABLES
    table,    \* a row or None per id, of both tables
    deleted,  \* history: ids whose row was deleted
    req       \* what each request has read and is about to flush

vars == <<table, deleted, req>>

Ids == TaskIds \cup ProjectIds
TaskStatus == {"TODO", "IN_PROGRESS", "COMPLETED", "CANCELLED"}
ProjectStatus == {"NOT_STARTED", "IN_PROGRESS", "COMPLETED", "ARCHIVED"}
Dates == Days \cup {None}
Timestamp == "timestamp"

TaskRows ==
    [status : TaskStatus, from : Dates, to : Dates, completed_at : {Timestamp, None}]
ProjectRows ==
    [status : ProjectStatus, from : Dates, to : Dates, completed_at : {None}]
Columns == {"status", "from", "to", "completed_at"}

NoChanges == [c \in Columns |-> Keep]
IdleRequest == [op |-> None, id |-> None, loaded |-> None, changes |-> NoChanges]

Init ==
    /\ table = [i \in Ids |-> None]
    /\ deleted = {}
    /\ req = [r \in Requests |-> IdleRequest]

-----------------------------------------------------------------------------
Stored(i) == table[i] # None
Idle(r) == req[r].op = None

Merge(row, changes) ==
    [c \in Columns |-> IF changes[c] = Keep THEN row[c] ELSE changes[c]]

\* What an UPDATE sets: the columns whose value is not the one read.
Dirty(row, patch) ==
    [c \in Columns |-> IF patch[c] = row[c] THEN Keep ELSE patch[c]]

\* validate_task_date_order and validate_project_date_order, and the CHECKs
\* of the same rule.
DatesInOrder(row) == None \notin {row.from, row.to} => row.to >= row.from

\* The CHECK constraints of the two tables.
RowChecks(i, row) ==
    /\ DatesInOrder(row)
    /\ i \in TaskIds => (row.status = "COMPLETED") = (row.completed_at # None)

ALLOWED_NON_COMPLETED_TRANSITIONS ==
    {<<"TODO", "IN_PROGRESS">>, <<"TODO", "CANCELLED">>,
     <<"IN_PROGRESS", "TODO">>, <<"IN_PROGRESS", "CANCELLED">>,
     <<"CANCELLED", "TODO">>}

\* _validate_status_transition; a completed task may be reopened as anything.
ValidTransition(current, target) ==
    \/ current = target
    \/ current = "COMPLETED"
    \/ <<current, target>> \in ALLOWED_NON_COMPLETED_TRANSITIONS

-----------------------------------------------------------------------------
\* TaskCreate and ProjectCreate: the first status, and dates in order.
NewRows(rows, status) ==
    {row \in rows : row.status = status /\ row.completed_at = None /\ DatesInOrder(row)}
NewTasks == NewRows(TaskRows, "TODO")
NewProjects == NewRows(ProjectRows, "NOT_STARTED")

\* One transaction for all of the new rows.
Insert(new, rows) ==
    /\ \A i \in new : ~Stored(i) /\ i \notin deleted
    /\ Cardinality({i \in Ids : Stored(i)} \cup new) <= MAX_ROWS
    /\ \E values \in [new -> rows] :
          table' = [i \in Ids |-> IF i \in new THEN values[i] ELSE table[i]]
    /\ UNCHANGED <<deleted, req>>

\* create_task and create_task_batch.
CreateTasks ==
    \E new \in SUBSET TaskIds :
        /\ Cardinality(new) \in 1..MAX_BATCH
        /\ Insert(new, NewTasks)

CreateProject ==
    \E p \in ProjectIds : Insert({p}, NewProjects)

Hold(r, i, op, changes) ==
    /\ req' = [req EXCEPT ![r] = [op |-> op, id |-> i, loaded |-> table[i],
                                  changes |-> changes]]
    /\ UNCHANGED <<table, deleted>>

\* A PATCH names at least one column, and a status that no action of its own
\* is for.
Patches(statuses) ==
    {p \in [status : statuses \cup {Keep}, from : Dates \cup {Keep},
            to : Dates \cup {Keep}, completed_at : {Keep}] :
        p # NoChanges}
TaskPatches == Patches(TaskStatus \ {"COMPLETED"})
ProjectPatches == Patches(ProjectStatus \ {"ARCHIVED"})

\* Mutant: leaving COMPLETED keeps the time.
TaskChangesKeepTime(row, patch) == Dirty(row, patch)

\* Leaving COMPLETED clears completed_at of a task.
TaskChanges(row, patch) ==
    [Dirty(row, patch) EXCEPT !.completed_at =
        IF row.status = "COMPLETED" /\ patch.status \notin {Keep, "COMPLETED"}
        THEN None ELSE Keep]

\* update_owned_task up to the flush; anything else is answered 404 or 422,
\* or returns the row unchanged when there is nothing to write.
UpdateTask(r, t) ==
    /\ Idle(r) /\ Stored(t)
    /\ \E patch \in TaskPatches :
          /\ DatesInOrder(Merge(table[t], patch))
          /\ patch.status # Keep => ValidTransition(table[t].status, patch.status)
          /\ TaskChanges(table[t], patch) # NoChanges
          /\ Hold(r, t, "update", TaskChanges(table[t], patch))

\* complete_owned_task up to the flush; a completed task is returned as it is.
CompleteTask(r, t) ==
    /\ Idle(r) /\ Stored(t)
    /\ table[t].status # "COMPLETED"
    /\ Hold(r, t, "update", [NoChanges EXCEPT !.status = "COMPLETED",
                                              !.completed_at = Timestamp])

\* delete_owned's SELECT.
DeleteTask(r, t) ==
    /\ Idle(r) /\ Stored(t)
    /\ Hold(r, t, "delete", NoChanges)

Archived(p) == Stored(p) /\ table[p].status = "ARCHIVED"

\* update_owned_project up to the flush; an archived one is answered 409.
UpdateProject(r, p) ==
    /\ Idle(r) /\ Stored(p) /\ ~Archived(p)
    /\ \E patch \in ProjectPatches :
          /\ DatesInOrder(Merge(table[p], patch))
          /\ Dirty(table[p], patch) # NoChanges
          /\ Hold(r, p, "update", Dirty(table[p], patch))

\* archive_owned_project up to the flush; an archived one is returned.
ArchiveProject(r, p) ==
    /\ Idle(r) /\ Stored(p) /\ ~Archived(p)
    /\ Hold(r, p, "update", [NoChanges EXCEPT !.status = "ARCHIVED"])

Done(r) == req' = [req EXCEPT ![r] = IdleRequest]

\* Mutant: the service has validated, so the table does not.
FlushUnchecked(r) ==
    /\ req[r].op = "update"
    /\ Stored(req[r].id)
    /\ table' = [table EXCEPT ![req[r].id] = Merge(@, req[r].changes)]
    /\ Done(r)
    /\ UNCHANGED deleted

\* Mutant: the flush writes every column that was loaded.
FlushWholeRow(r) ==
    LET i == req[r].id
        row == Merge(req[r].loaded, req[r].changes)
    IN  /\ req[r].op = "update"
        /\ Stored(i)
        /\ RowChecks(i, row)
        /\ table' = [table EXCEPT ![i] = row]
        /\ Done(r)
        /\ UNCHANGED deleted

\* repository.update, its flush and the commit.
Flush(r) ==
    LET i == req[r].id
        row == Merge(table[i], req[r].changes)
    IN  /\ req[r].op = "update"
        /\ Stored(i)
        /\ RowChecks(i, row)
        /\ table' = [table EXCEPT ![i] = row]
        /\ Done(r)
        /\ UNCHANGED deleted

\* The DELETE; one that finds no row any more succeeds too.
FlushDelete(r) ==
    /\ req[r].op = "delete"
    /\ table' = [table EXCEPT ![req[r].id] = None]
    /\ deleted' = deleted \cup {req[r].id}
    /\ Done(r)

\* No row matched, a CHECK refused it or the database failed: rolled back.
Rollback(r) ==
    /\ ~Idle(r)
    /\ Done(r)
    /\ UNCHANGED <<table, deleted>>

TaskRequest(r, t) == UpdateTask(r, t) \/ CompleteTask(r, t) \/ DeleteTask(r, t)
ProjectRequest(r, p) == UpdateProject(r, p) \/ ArchiveProject(r, p)

Next ==
    \/ CreateTasks
    \/ CreateProject
    \/ \E r \in Requests :
          \/ \E t \in TaskIds : TaskRequest(r, t)
          \/ \E p \in ProjectIds : ProjectRequest(r, p)
          \/ Flush(r) \/ FlushDelete(r) \/ Rollback(r)

Spec == Init /\ [][Next]_vars

-----------------------------------------------------------------------------
(***************************************************************************)
(* Properties.                                                             *)
(***************************************************************************)

\* What the services validate and compute is all that the tables ask for: a
\* request that passed its validation can be refused by a CHECK only when
\* another request changed the row after it was read.
OnlyRacesAreRefused ==
    \A r \in Requests :
        req[r].op = "update" /\ table[req[r].id] = req[r].loaded =>
            RowChecks(req[r].id, Merge(table[req[r].id], req[r].changes))

\* Request r, which read row i, ends.
Ends(r, i) == req[r].id = i /\ req'[r] = IdleRequest

\* A request never restores what it happened to read before others wrote: a
\* deleted task does not come back, and a column, the status of a project
\* included, changes only when a request that set it to this value ends.
NothingIsRestored ==
    [][\A i \in Ids :
          /\ i \in deleted => table'[i] = None
          /\ \A c \in Columns :
                Stored(i) /\ table'[i] # None /\ table'[i][c] # table[i][c] =>
                    \E r \in Requests :
                        Ends(r, i) /\ req[r].changes[c] = table'[i][c]]_vars

\* A PATCH that was validated against another status does not undo the
\* completion of a task that it did not see: only a request that read the
\* task as completed reopens it.
CompletionIsNotOverwritten ==
    [][\A t \in TaskIds :
          /\ Stored(t) /\ table[t].status = "COMPLETED"
          /\ table'[t] # None /\ table'[t].status # "COMPLETED"
          => \E r \in Requests :
                Ends(r, t) /\ req[r].loaded.status = "COMPLETED"]_vars

=============================================================================
