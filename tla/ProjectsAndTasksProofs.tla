----------------------- MODULE ProjectsAndTasksProofs -----------------------
(***************************************************************************)
(* Projects and tasks for any number of rows, requests and days: what the  *)
(* services validate, the CHECK constraints and the column-wise UPDATE are *)
(* enough together, although no request locks the row that it read.        *)
(***************************************************************************)
EXTENDS ProjectsAndTasks, TLAPS

\* Columns of a row, whichever way the row was put together.
TypedRow(i, row) ==
    /\ row.status \in IF i \in TaskIds THEN TaskStatus ELSE ProjectStatus
    /\ row.from \in Dates
    /\ row.to \in Dates
    /\ row.completed_at \in IF i \in TaskIds THEN {Timestamp, None} ELSE {None}

\* Columns that an UPDATE of row i sets, and to what.
TypedChanges(i, changes) ==
    /\ changes.status \in (IF i \in TaskIds THEN TaskStatus ELSE ProjectStatus) \cup {Keep}
    /\ changes.from \in Dates \cup {Keep}
    /\ changes.to \in Dates \cup {Keep}
    /\ changes.completed_at \in (IF i \in TaskIds THEN {Timestamp, None} ELSE {}) \cup {Keep}

\* Rows have the types of their table's columns, and only tasks are deleted.
TypeInv ==
    /\ DOMAIN table = Ids
    /\ \A i \in Ids : Stored(i) => TypedRow(i, table[i])
    /\ deleted \subseteq TaskIds
    /\ DOMAIN req = Requests

\* What a request may hold between its read and its flush.  The changes fit
\* the row that it read, and a task is reopened (completed_at cleared) only
\* by a request that read it as completed.
HeldRequest(q) ==
    /\ q.op = "update" =>
          /\ q.id \in Ids
          /\ TypedChanges(q.id, q.changes)
          /\ q.id \in TaskIds /\ q.changes.completed_at = None =>
                q.loaded.status = "COMPLETED"
          /\ RowChecks(q.id, Merge(q.loaded, q.changes))
    /\ q.op = "delete" => q.id \in TaskIds

RequestInv == \A r \in Requests : HeldRequest(req[r])

\* Stored rows satisfy the CHECKs of their table.
RowsAreConsistent == \A i \in Ids : Stored(i) => RowChecks(i, table[i])

\* A deleted row stays deleted.
DeletedInv == \A i \in deleted : table[i] = None

IInv == TypeInv /\ RowsAreConsistent /\ RequestInv /\ DeletedInv

-----------------------------------------------------------------------------
\* Merge, column by column: what Flush writes over the row as it is then.
LEMMA MergeColumns ==
  ASSUME NEW row, NEW changes, NEW c \in Columns
  PROVE  Merge(row, changes)[c] = IF changes[c] = Keep THEN row[c] ELSE changes[c]
BY DEF Merge

\* Applying the changes of a request to a row of its kind gives such a row.
LEMMA MergeTyped ==
  ASSUME NEW i \in Ids, NEW row, NEW changes,
         TypedRow(i, row), TypedChanges(i, changes)
  PROVE  TypedRow(i, Merge(row, changes))
BY MarkerAssumption DEF TypedRow, TypedChanges, Merge, Columns

-----------------------------------------------------------------------------
\* An empty database with no request in flight satisfies the invariant.
LEMMA InitHolds == Init => IInv
<1> SUFFICES ASSUME Init PROVE IInv
  OBVIOUS
<1>1. TypeInv
  BY DEF Init, TypeInv, Stored
<1>2. RowsAreConsistent
  BY DEF Init, RowsAreConsistent, Stored
<1>3. RequestInv
  BY MarkerAssumption DEF Init, RequestInv, HeldRequest, IdleRequest
<1>4. DeletedInv
  BY DEF Init, DeletedInv
<1> QED
  BY <1>1, <1>2, <1>3, <1>4 DEF IInv

\* create_task, create_task_batch and create_project insert rows that are
\* new, in order and consistent, and touch no row that exists.
LEMMA InsertHolds ==
  ASSUME IInv, NEW new \in SUBSET Ids, NEW rows, Insert(new, rows),
         \A i \in new, row \in rows : TypedRow(i, row) /\ RowChecks(i, row)
  PROVE  /\ IInv'
         /\ \A i \in Ids : Stored(i) \/ i \in deleted => table'[i] = table[i]
         /\ UNCHANGED <<deleted, req>>
<1>1. PICK values \in [new -> rows] :
         table' = [i \in Ids |-> IF i \in new THEN values[i] ELSE table[i]]
  BY DEF Insert
<1>2. UNCHANGED <<deleted, req>>
  BY DEF Insert
<1>3. \A i \in Ids : \/ i \notin new /\ table'[i] = table[i]
                     \/ i \in new /\ table'[i] \in rows
  BY <1>1
<1>4. \A i \in new : ~Stored(i) /\ i \notin deleted
  BY DEF Insert
<1>5. TypeInv'
  BY <1>1, <1>2, <1>3 DEF IInv, TypeInv, Stored
<1>6. RowsAreConsistent'
  BY <1>3 DEF IInv, RowsAreConsistent, Stored
<1>7. RequestInv'
  BY <1>2 DEF IInv, RequestInv
<1>8. DeletedInv'
  BY <1>2, <1>3, <1>4 DEF IInv, DeletedInv, TypeInv, Ids
<1> QED
  BY <1>2, <1>3, <1>4, <1>5, <1>6, <1>7, <1>8 DEF IInv

\* New tasks touch no row that is stored or was deleted.
LEMMA CreateTasksHolds ==
  ASSUME IInv, CreateTasks
  PROVE  /\ IInv'
         /\ \A i \in Ids : Stored(i) \/ i \in deleted => table'[i] = table[i]
         /\ UNCHANGED <<deleted, req>>
<1>1. PICK new \in SUBSET TaskIds : Insert(new, NewTasks)
  BY DEF CreateTasks
<1>2. \A i \in TaskIds, row \in NewTasks : TypedRow(i, row) /\ RowChecks(i, row)
  BY DEF NewTasks, NewRows, TaskRows, TypedRow, RowChecks
<1> QED
  BY <1>1, <1>2, InsertHolds DEF Ids

\* A new project touches no row that is stored or was deleted.
LEMMA CreateProjectHolds ==
  ASSUME IInv, CreateProject
  PROVE  /\ IInv'
         /\ \A i \in Ids : Stored(i) \/ i \in deleted => table'[i] = table[i]
         /\ UNCHANGED <<deleted, req>>
<1>1. PICK p \in ProjectIds : Insert({p}, NewProjects)
  BY DEF CreateProject
<1>2. \A row \in NewProjects : TypedRow(p, row) /\ RowChecks(p, row)
  BY IdsAssumption DEF NewProjects, NewRows, ProjectRows, TypedRow, RowChecks
<1> QED
  BY <1>1, <1>2, InsertHolds DEF Ids

-----------------------------------------------------------------------------
\* The read of a request changes nothing but the request, which must fit
\* what it read.
LEMMA HoldHolds ==
  ASSUME IInv, NEW r \in Requests, NEW i \in Ids, NEW op, NEW changes,
         Hold(r, i, op, changes),
         HeldRequest([op |-> op, id |-> i, loaded |-> table[i], changes |-> changes])
  PROVE  IInv' /\ UNCHANGED <<table, deleted>>
<1>1. UNCHANGED <<table, deleted>>
  BY DEF Hold
<1>2. DOMAIN req' = Requests /\ RequestInv'
  BY DEF Hold, IInv, TypeInv, RequestInv
<1> QED
  BY <1>1, <1>2 DEF IInv, TypeInv, Stored, RowsAreConsistent, DeletedInv

\* The column changes that a PATCH of a task leaves to write.
LEMMA TaskChangesTyped ==
  ASSUME NEW t \in TaskIds, NEW row, NEW patch \in TaskPatches
  PROVE  /\ TypedChanges(t, TaskChanges(row, patch))
         /\ TaskChanges(row, patch).completed_at = None => row.status = "COMPLETED"
<1>1. /\ patch.status \in TaskStatus \cup {Keep}
      /\ patch.from \in Dates \cup {Keep}
      /\ patch.to \in Dates \cup {Keep}
      /\ patch.completed_at = Keep
  BY DEF TaskPatches, Patches
<1> QED
  BY <1>1, MarkerAssumption DEF TaskChanges, Dirty, Columns, TypedChanges

\* The column changes that a PATCH of a project leaves to write.
LEMMA ProjectChangesTyped ==
  ASSUME NEW p \in ProjectIds, NEW row, NEW patch \in ProjectPatches
  PROVE  TypedChanges(p, Dirty(row, patch))
<1>1. /\ patch.status \in ProjectStatus \cup {Keep}
      /\ patch.from \in Dates \cup {Keep}
      /\ patch.to \in Dates \cup {Keep}
      /\ patch.completed_at = Keep
  BY DEF ProjectPatches, Patches
<1> QED
  BY <1>1, IdsAssumption DEF Dirty, Columns, TypedChanges

\* What a PATCH of a task writes satisfies the CHECKs on the row it was
\* computed from: the dates are the ones that were validated, and the task
\* has a completion time exactly when it is completed.
LEMMA TaskChangesChecked ==
  ASSUME NEW t \in TaskIds, NEW row, NEW patch \in TaskPatches,
         RowChecks(t, row), DatesInOrder(Merge(row, patch))
  PROVE  RowChecks(t, Merge(row, TaskChanges(row, patch)))
<1> DEFINE changes == TaskChanges(row, patch)
<1>1. patch.status # "COMPLETED" /\ patch.completed_at = Keep
  BY MarkerAssumption DEF TaskPatches, Patches
<1>2. /\ changes.status = IF patch.status = row.status THEN Keep ELSE patch.status
      /\ changes.from = IF patch.from = row.from THEN Keep ELSE patch.from
      /\ changes.to = IF patch.to = row.to THEN Keep ELSE patch.to
      /\ changes.completed_at =
            IF row.status = "COMPLETED" /\ patch.status \notin {Keep, "COMPLETED"}
            THEN None ELSE Keep
  BY DEF TaskChanges, Dirty, Columns
<1> HIDE DEF changes
<1>3. \A c \in Columns :
        /\ Merge(row, changes)[c] = IF changes[c] = Keep THEN row[c] ELSE changes[c]
        /\ Merge(row, patch)[c] = IF patch[c] = Keep THEN row[c] ELSE patch[c]
  BY MergeColumns
<1>4. /\ Merge(row, changes).from = Merge(row, patch).from
      /\ Merge(row, changes).to = Merge(row, patch).to
  BY <1>2, <1>3 DEF Columns
<1>5. DatesInOrder(Merge(row, changes))
  BY <1>4 DEF DatesInOrder
<1>6. (row.status = "COMPLETED") = (row.completed_at # None)
  BY DEF RowChecks
<1>7. /\ Merge(row, changes).status =
            IF changes.status = Keep THEN row.status ELSE changes.status
      /\ Merge(row, changes).completed_at =
            IF changes.completed_at = Keep THEN row.completed_at
            ELSE changes.completed_at
  BY <1>3 DEF Columns
<1>8. (Merge(row, changes).status = "COMPLETED")
         = (Merge(row, changes).completed_at # None)
  <2>1. CASE row.status = "COMPLETED" /\ patch.status # Keep
    BY <1>1, <1>2, <1>7, <2>1, MarkerAssumption
  <2>2. CASE patch.status = Keep
    BY <1>2, <1>6, <1>7, <2>2, MarkerAssumption
  <2>3. CASE row.status # "COMPLETED" /\ patch.status # Keep
    BY <1>1, <1>2, <1>6, <1>7, <2>3, MarkerAssumption
  <2> QED BY <2>1, <2>2, <2>3
<1> QED
  BY <1>5, <1>8 DEF RowChecks, changes

\* What a PATCH of a project writes leaves the validated dates.
LEMMA ProjectChangesChecked ==
  ASSUME NEW p \in ProjectIds, NEW row, NEW patch, DatesInOrder(Merge(row, patch))
  PROVE  RowChecks(p, Merge(row, Dirty(row, patch)))
<1>1. \A c \in Columns : Merge(row, Dirty(row, patch))[c] = Merge(row, patch)[c]
  BY DEF Merge, Dirty
<1>2. p \notin TaskIds
  BY IdsAssumption
<1> QED
  BY <1>1, <1>2 DEF RowChecks, DatesInOrder, Columns

\* Every read of a task or project prepares a request that fits its row.
LEMMA RequestHolds ==
  ASSUME IInv, NEW r \in Requests,
         \/ \E t \in TaskIds : TaskRequest(r, t)
         \/ \E p \in ProjectIds : ProjectRequest(r, p)
  PROVE  IInv' /\ UNCHANGED <<table, deleted>>
<1>1. ASSUME NEW t \in TaskIds, UpdateTask(r, t)
      PROVE  IInv' /\ UNCHANGED <<table, deleted>>
  <2>1. PICK patch \in TaskPatches :
           /\ DatesInOrder(Merge(table[t], patch))
           /\ Hold(r, t, "update", TaskChanges(table[t], patch))
    BY <1>1 DEF UpdateTask
  <2>2. RowChecks(t, Merge(table[t], TaskChanges(table[t], patch)))
    BY <1>1, <2>1, TaskChangesChecked DEF UpdateTask, IInv, RowsAreConsistent, Ids
  <2>3. HeldRequest([op |-> "update", id |-> t, loaded |-> table[t],
                     changes |-> TaskChanges(table[t], patch)])
    BY <2>2, TaskChangesTyped DEF HeldRequest, Ids
  <2> QED
    BY <2>1, <2>3, HoldHolds DEF Ids
<1>2. ASSUME NEW t \in TaskIds, CompleteTask(r, t)
      PROVE  IInv' /\ UNCHANGED <<table, deleted>>
  <2> DEFINE changes == [NoChanges EXCEPT !.status = "COMPLETED",
                                          !.completed_at = Timestamp]
  <2>1. Hold(r, t, "update", changes)
    BY <1>2 DEF CompleteTask
  <2>2. TypedChanges(t, changes) /\ changes.completed_at # None
    BY MarkerAssumption
    DEF TypedChanges, NoChanges, Columns, Timestamp, TaskStatus
  <2>3. /\ changes.status = "COMPLETED" /\ changes.completed_at = Timestamp
        /\ changes.from = Keep /\ changes.to = Keep
    BY DEF NoChanges, Columns
  <2> HIDE DEF changes
  <2>4. DatesInOrder(table[t])
    BY <1>2 DEF CompleteTask, IInv, RowsAreConsistent, RowChecks, Ids
  <2>5. \A c \in Columns : Merge(table[t], changes)[c] =
                               IF changes[c] = Keep THEN table[t][c] ELSE changes[c]
    BY MergeColumns
  <2>6. /\ Merge(table[t], changes).status = "COMPLETED"
        /\ Merge(table[t], changes).completed_at = Timestamp
        /\ Merge(table[t], changes).from = table[t].from
        /\ Merge(table[t], changes).to = table[t].to
    BY <2>3, <2>5, MarkerAssumption DEF Columns, Timestamp
  <2>7. RowChecks(t, Merge(table[t], changes))
    BY <2>4, <2>6, MarkerAssumption DEF RowChecks, DatesInOrder, Timestamp
  <2>8. HeldRequest([op |-> "update", id |-> t, loaded |-> table[t],
                     changes |-> changes])
    BY <2>2, <2>7 DEF HeldRequest, Ids
  <2> QED
    BY <2>1, <2>8, HoldHolds DEF Ids
<1>3. ASSUME NEW t \in TaskIds, DeleteTask(r, t)
      PROVE  IInv' /\ UNCHANGED <<table, deleted>>
  <2>1. Hold(r, t, "delete", NoChanges)
    BY <1>3 DEF DeleteTask
  <2>2. HeldRequest([op |-> "delete", id |-> t, loaded |-> table[t],
                     changes |-> NoChanges])
    BY MarkerAssumption DEF HeldRequest
  <2> QED
    BY <2>1, <2>2, HoldHolds DEF Ids
<1>4. ASSUME NEW p \in ProjectIds, UpdateProject(r, p)
      PROVE  IInv' /\ UNCHANGED <<table, deleted>>
  <2>1. PICK patch \in ProjectPatches :
           /\ DatesInOrder(Merge(table[p], patch))
           /\ Hold(r, p, "update", Dirty(table[p], patch))
    BY <1>4 DEF UpdateProject
  <2>2. RowChecks(p, Merge(table[p], Dirty(table[p], patch)))
    BY <2>1, ProjectChangesChecked
  <2>3. HeldRequest([op |-> "update", id |-> p, loaded |-> table[p],
                     changes |-> Dirty(table[p], patch)])
    BY <2>2, ProjectChangesTyped, IdsAssumption DEF HeldRequest, Ids
  <2> QED
    BY <2>1, <2>3, HoldHolds DEF Ids
<1>5. ASSUME NEW p \in ProjectIds, ArchiveProject(r, p)
      PROVE  IInv' /\ UNCHANGED <<table, deleted>>
  <2> DEFINE changes == [NoChanges EXCEPT !.status = "ARCHIVED"]
  <2>1. Hold(r, p, "update", changes)
    BY <1>5 DEF ArchiveProject
  <2>2. TypedChanges(p, changes)
    BY IdsAssumption DEF TypedChanges, NoChanges, Columns, ProjectStatus
  <2>3. changes.from = Keep /\ changes.to = Keep
    BY DEF NoChanges, Columns
  <2> HIDE DEF changes
  <2>4. /\ Merge(table[p], changes).from = table[p].from
        /\ Merge(table[p], changes).to = table[p].to
    BY <2>3, MergeColumns DEF Columns
  <2>5. DatesInOrder(table[p])
    BY <1>5 DEF ArchiveProject, IInv, RowsAreConsistent, RowChecks, Ids
  <2>6. RowChecks(p, Merge(table[p], changes))
    BY <2>4, <2>5, IdsAssumption DEF RowChecks, DatesInOrder
  <2>7. HeldRequest([op |-> "update", id |-> p, loaded |-> table[p],
                     changes |-> changes])
    BY <2>2, <2>6, IdsAssumption DEF HeldRequest, Ids
  <2> QED
    BY <2>1, <2>7, HoldHolds DEF Ids
<1> QED
  BY <1>1, <1>2, <1>3, <1>4, <1>5 DEF TaskRequest, ProjectRequest

-----------------------------------------------------------------------------
\* A request that ends leaves the others as they are.
LEMMA DoneRequest ==
  ASSUME IInv, NEW r \in Requests, Done(r)
  PROVE  RequestInv' /\ DOMAIN req' = Requests /\ req'[r] = IdleRequest
<1>1. /\ DOMAIN req' = Requests
      /\ req'[r] = IdleRequest
      /\ \A q \in Requests : q # r => req'[q] = req[q]
  BY DEF Done, IInv, TypeInv
<1>2. HeldRequest(IdleRequest)
  BY MarkerAssumption DEF HeldRequest, IdleRequest
<1> QED
  BY <1>1, <1>2 DEF IInv, RequestInv

\* The flush of an UPDATE: it writes one row that its CHECKs accept.
LEMMA FlushHolds ==
  ASSUME IInv, NEW r \in Requests, Flush(r)
  PROVE  /\ IInv'
         /\ req'[r] = IdleRequest
         /\ UNCHANGED deleted
         /\ req[r].op = "update" /\ req[r].id \in Ids
         /\ Stored(req[r].id)
         /\ RowChecks(req[r].id, Merge(table[req[r].id], req[r].changes))
         /\ table' = [table EXCEPT ![req[r].id] =
                                    Merge(table[req[r].id], req[r].changes)]
<1> DEFINE i == req[r].id
           row == Merge(table[i], req[r].changes)
<1>1. /\ req[r].op = "update" /\ Stored(i) /\ RowChecks(i, row)
      /\ table' = [table EXCEPT ![i] = row]
      /\ Done(r) /\ UNCHANGED deleted
  BY DEF Flush
<1>2. i \in Ids /\ TypedChanges(i, req[r].changes)
  BY <1>1 DEF IInv, RequestInv, HeldRequest
<1>3. TypedRow(i, row)
  BY <1>1, <1>2, MergeTyped DEF IInv, TypeInv
<1> HIDE DEF i, row
<1>4. /\ DOMAIN table' = Ids
      /\ table'[i] = row
      /\ \A j \in Ids : j # i => table'[j] = table[j]
  BY <1>1, <1>2 DEF IInv, TypeInv
<1>5. RequestInv' /\ DOMAIN req' = Requests /\ req'[r] = IdleRequest
  BY <1>1, DoneRequest
<1>6. TypeInv'
  BY <1>1, <1>3, <1>4, <1>5 DEF IInv, TypeInv, Stored
<1>7. RowsAreConsistent'
  BY <1>1, <1>4 DEF IInv, RowsAreConsistent, Stored
<1>8. DeletedInv'
  BY <1>1, <1>4 DEF IInv, DeletedInv, TypeInv, Stored, Ids
<1> QED
  BY <1>1, <1>2, <1>5, <1>6, <1>7, <1>8 DEF IInv, i, row

\* The flush of a DELETE removes one task.
LEMMA FlushDeleteHolds ==
  ASSUME IInv, NEW r \in Requests, FlushDelete(r)
  PROVE  /\ IInv'
         /\ req[r].id \in TaskIds
         /\ table' = [table EXCEPT ![req[r].id] = None]
<1>1. /\ req[r].op = "delete"
      /\ table' = [table EXCEPT ![req[r].id] = None]
      /\ deleted' = deleted \cup {req[r].id}
      /\ Done(r)
  BY DEF FlushDelete
<1>2. req[r].id \in TaskIds
  BY <1>1 DEF IInv, RequestInv, HeldRequest
<1>3. /\ DOMAIN table' = Ids
      /\ table'[req[r].id] = None
      /\ \A j \in Ids : j # req[r].id => table'[j] = table[j]
  BY <1>1, <1>2 DEF IInv, TypeInv, Ids
<1>4. RequestInv' /\ DOMAIN req' = Requests
  BY <1>1, DoneRequest
<1>5. TypeInv'
  BY <1>1, <1>2, <1>3, <1>4 DEF IInv, TypeInv, Stored
<1>6. RowsAreConsistent'
  BY <1>3 DEF IInv, RowsAreConsistent, Stored
<1>7. DeletedInv'
  BY <1>1, <1>2, <1>3 DEF IInv, DeletedInv, TypeInv, Ids
<1> QED
  BY <1>1, <1>2, <1>4, <1>5, <1>6, <1>7 DEF IInv

\* A rollback gives up the request and nothing else.
LEMMA RollbackHolds ==
  ASSUME IInv, NEW r \in Requests, Rollback(r)
  PROVE  IInv' /\ UNCHANGED <<table, deleted>>
<1>1. UNCHANGED <<table, deleted>> /\ RequestInv' /\ DOMAIN req' = Requests
  BY DoneRequest DEF Rollback
<1> QED
  BY <1>1 DEF IInv, TypeInv, Stored, RowsAreConsistent, DeletedInv

-----------------------------------------------------------------------------
\* A step that changes no row and deletes none.
Quiet == UNCHANGED <<table, deleted>>

\* The steps of the specification, as far as the rows are concerned: rows
\* are inserted where none is or was, nothing happens to the rows, or one
\* request flushes.
LEMMA StepCases ==
  ASSUME IInv, [Next]_vars
  PROVE  /\ IInv'
         /\ \/ \A i \in Ids : Stored(i) \/ i \in deleted => table'[i] = table[i]
            \/ Quiet
            \/ \E r \in Requests : Flush(r) \/ FlushDelete(r)
<1>1. CASE CreateTasks
  BY <1>1, CreateTasksHolds
<1>2. CASE CreateProject
  BY <1>2, CreateProjectHolds
<1>3. ASSUME NEW r \in Requests,
             \/ \E t \in TaskIds : TaskRequest(r, t)
             \/ \E p \in ProjectIds : ProjectRequest(r, p)
      PROVE  IInv' /\ Quiet
  BY <1>3, RequestHolds DEF Quiet
<1>4. ASSUME NEW r \in Requests, Flush(r)
      PROVE  IInv'
  BY <1>4, FlushHolds
<1>5. ASSUME NEW r \in Requests, FlushDelete(r)
      PROVE  IInv'
  BY <1>5, FlushDeleteHolds
<1>6. ASSUME NEW r \in Requests, Rollback(r)
      PROVE  IInv' /\ Quiet
  BY <1>6, RollbackHolds DEF Quiet
<1>7. CASE UNCHANGED vars
  BY <1>7 DEF vars, IInv, TypeInv, Stored, RowsAreConsistent, RequestInv,
              DeletedInv, Quiet
<1> QED
  BY <1>1, <1>2, <1>3, <1>4, <1>5, <1>6, <1>7 DEF Next

\* The inductive invariant holds of every reachable state.
THEOREM InvariantHolds == Spec => []IInv
<1>1. IInv /\ [Next]_vars => IInv'
  BY StepCases
<1> QED
  BY <1>1, InitHolds, PTL DEF Spec

\* A CHECK refuses what a service has validated only if the row is another
\* than the one it was validated against.
THEOREM ValidatedRequestsFit == Spec => []OnlyRacesAreRefused
<1>1. IInv => OnlyRacesAreRefused
  BY DEF IInv, RequestInv, HeldRequest, OnlyRacesAreRefused
<1> QED
  BY <1>1, InvariantHolds, PTL

-----------------------------------------------------------------------------
\* What a flush does to a column that its request does not name.
LEMMA FlushColumn ==
  ASSUME IInv, NEW r \in Requests, Flush(r), NEW i \in Ids, NEW c \in Columns,
         table'[i][c] # table[i][c]
  PROVE  /\ req[r].id = i
         /\ req'[r] = IdleRequest
         /\ req[r].changes[c] # Keep
         /\ table'[i][c] = req[r].changes[c]
<1>1. /\ req'[r] = IdleRequest
      /\ req[r].id \in Ids
      /\ table' = [table EXCEPT ![req[r].id] =
                                 Merge(table[req[r].id], req[r].changes)]
  BY FlushHolds
<1>2. req[r].id = i
  BY <1>1 DEF IInv, TypeInv
<1>3. table'[i][c] = Merge(table[i], req[r].changes)[c]
  BY <1>1, <1>2 DEF IInv, TypeInv
<1>4. table'[i][c] = IF req[r].changes[c] = Keep THEN table[i][c]
                                                 ELSE req[r].changes[c]
  BY <1>3, MergeColumns
<1> QED
  BY <1>1, <1>2, <1>4

\* A deleted task never comes back, and a column changes only to the value
\* that a request which ends with this step set: no stale read is written.
THEOREM StaleReadsAreNotRestored == Spec => NothingIsRestored
<1> DEFINE Kept(i) ==
      /\ i \in deleted => table'[i] = None
      /\ \A c \in Columns :
            Stored(i) /\ table'[i] # None /\ table'[i][c] # table[i][c] =>
                \E r \in Requests :
                    Ends(r, i) /\ req[r].changes[c] = table'[i][c]
<1>1. ASSUME IInv, [Next]_vars, NEW i \in Ids
      PROVE  Kept(i)
  <2>1. CASE \A j \in Ids : Stored(j) \/ j \in deleted => table'[j] = table[j]
    BY <1>1, <2>1 DEF IInv, DeletedInv
  <2>2. CASE Quiet
    BY <1>1, <2>2 DEF IInv, DeletedInv, Quiet
  <2>3. ASSUME NEW r \in Requests, Flush(r)
        PROVE  Kept(i)
    <3>1. i \in deleted => table'[i] = None
      BY <1>1, <2>3, FlushHolds DEF IInv, DeletedInv
    <3>2. ASSUME NEW c \in Columns, table'[i][c] # table[i][c]
          PROVE  Ends(r, i) /\ req[r].changes[c] = table'[i][c]
      BY <1>1, <2>3, <3>2, FlushColumn DEF Ends
    <3> QED
      BY <3>1, <3>2
  <2>4. ASSUME NEW r \in Requests, FlushDelete(r)
        PROVE  Kept(i)
    <3>1. table' = [table EXCEPT ![req[r].id] = None]
      BY <1>1, <2>4, FlushDeleteHolds
    <3>2. table'[i] = None \/ table'[i] = table[i]
      BY <1>1, <3>1 DEF IInv, TypeInv
    <3> QED
      BY <1>1, <3>2 DEF IInv, DeletedInv
  <2> QED
    BY <1>1, <2>1, <2>2, <2>3, <2>4, StepCases
<1>2. IInv /\ [Next]_vars => [\A i \in Ids : Kept(i)]_vars
  BY <1>1
<1> HIDE DEF Kept
<1>3. Spec => [][\A i \in Ids : Kept(i)]_vars
  BY <1>2, InvariantHolds, PTL DEF Spec
<1> QED
  BY <1>3 DEF NothingIsRestored, Kept

\* A task that was completed is reopened only by a request that read it as
\* completed: a PATCH validated against an earlier status cannot undo it,
\* because its changes do not name completed_at and the CHECK refuses them.
THEOREM CompletionSurvivesStaleRequests == Spec => CompletionIsNotOverwritten
<1> DEFINE Reopened(t) ==
      /\ Stored(t) /\ table[t].status = "COMPLETED"
      /\ table'[t] # None /\ table'[t].status # "COMPLETED"
<1> DEFINE SawIt(t) ==
      \E r \in Requests : Ends(r, t) /\ req[r].loaded.status = "COMPLETED"
<1>1. ASSUME IInv, [Next]_vars, NEW t \in TaskIds, Reopened(t)
      PROVE  SawIt(t)
  <2>0. t \in Ids
    BY DEF Ids
  <2>1. CASE \A j \in Ids : Stored(j) \/ j \in deleted => table'[j] = table[j]
    BY <1>1, <2>0, <2>1
  <2>2. CASE Quiet
    BY <1>1, <2>2 DEF Quiet
  <2>3. ASSUME NEW r \in Requests, Flush(r)
        PROVE  SawIt(t)
    <3>1. /\ req[r].id = t
          /\ req'[r] = IdleRequest
      BY <1>1, <2>0, <2>3, FlushColumn DEF Columns
    <3>2. table[t].completed_at # None
      BY <1>1, <2>0 DEF IInv, RowsAreConsistent, RowChecks
    <3>3. table'[t].completed_at = None
      BY <1>1, <2>0, StepCases DEF IInv, RowsAreConsistent, RowChecks, Stored
    <3>4. req[r].changes.completed_at = None
      BY <1>1, <2>0, <2>3, <3>2, <3>3, FlushColumn DEF Columns
    <3>5. req[r].op = "update"
      BY <1>1, <2>3, FlushHolds
    <3>6. req[r].loaded.status = "COMPLETED"
      BY <1>1, <3>1, <3>4, <3>5 DEF IInv, RequestInv, HeldRequest
    <3> QED
      BY <3>1, <3>6 DEF Ends
  <2>4. ASSUME NEW r \in Requests, FlushDelete(r)
        PROVE  SawIt(t)
    <3>1. table' = [table EXCEPT ![req[r].id] = None]
      BY <1>1, <2>4, FlushDeleteHolds
    <3>2. table'[t] = None \/ table'[t] = table[t]
      BY <1>1, <2>0, <3>1 DEF IInv, TypeInv
    <3> QED
      BY <1>1, <3>2
  <2> QED
    BY <1>1, <2>1, <2>2, <2>3, <2>4, StepCases
<1>2. IInv /\ [Next]_vars => [\A t \in TaskIds : Reopened(t) => SawIt(t)]_vars
  BY <1>1
<1> HIDE DEF Reopened, SawIt
<1>3. Spec => [][\A t \in TaskIds : Reopened(t) => SawIt(t)]_vars
  BY <1>2, InvariantHolds, PTL DEF Spec
<1> QED
  BY <1>3 DEF CompletionIsNotOverwritten, Reopened, SawIt

=============================================================================
