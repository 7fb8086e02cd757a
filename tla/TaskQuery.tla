----------------------------- MODULE TaskQuery -----------------------------
(***************************************************************************)
(* GET /tasks: a client walks the pages of one query while tasks are       *)
(* created, patched, completed and deleted and time passes.  A page is two *)
(* statements, the list and the count, under one value of now.             *)
(*                                                                         *)
(* The list is sorted by due_at, which may be NULL and which a PATCH sets, *)
(* or by updated_at, which every PATCH and completion sets; planned_date   *)
(* sorts like the one, title and created_at like the other.  Filters that  *)
(* compare another column which is never NULL behave like status and are   *)
(* left out, as is the escaping of the title pattern.                      *)
(*                                                                         *)
(* A write is its commit.  Its request has read the row earlier, without a *)
(* lock (ProjectsAndTasks), so what it validated against that row does not *)
(* restrict what the commit finds.  IN_PROGRESS behaves like TODO here.    *)
(***************************************************************************)
EXTENDS Integers, Sequences, FiniteSets, SequencesExt

CONSTANTS
    TaskIds,          \* as integers: the id breaks ties
    DueTimes,         \* integers
    Shapes,           \* columns of tasks, at first or when they are created
    Asked,            \* queries that clients ask
    PageSizes,
    MAX_CLOCK,        \* bound of the model
    MAX_CHANGES,      \* bound of the model: writes during a walk
    Null

VARIABLES
    clock,
    tasks,            \* the table
    query,
    page, now,        \* the request
    items,            \* what its list statement returned, or Null
    walked,           \* the tasks of the pages so far
    changes,          \* writes so far
    kept              \* history: tasks that nothing ahead of them has left

vars == <<clock, tasks, query, page, now, items, walked, changes, kept>>
walk == <<page, now, items, walked>>

Times == 0..MAX_CLOCK
TaskStatus == {"TODO", "COMPLETED", "CANCELLED"}
Columns == [mine : BOOLEAN, status : TaskStatus, due_at : DueTimes \cup {Null},
            updated_at : Times]
Row(id, shape) ==
    [id |-> id, mine |-> shape.mine, status |-> shape.status, due_at |-> shape.due_at,
     updated_at |-> shape.updated_at]
Rows == {Row(id, columns) : id \in TaskIds, columns \in Columns}
\* TaskListQuery after validate_ranges
Queries ==
    {q \in [status : TaskStatus \cup {Null}, overdue : BOOLEAN \cup {Null},
            due_from : DueTimes \cup {Null}, due_to : DueTimes \cup {Null},
            sort_by : {"due_at", "updated_at"}, sort_direction : {"asc", "desc"},
            page_size : PageSizes] :
        q.due_from # Null /\ q.due_to # Null => q.due_from <= q.due_to}

ASSUME ShapesAssumption == Shapes \subseteq Columns /\ \A s \in Shapes : s.updated_at <= 1
ASSUME AskedAssumption == Asked \subseteq Queries
ASSUME DomainsAssumption ==
    /\ IsFiniteSet(TaskIds) /\ TaskIds \subseteq Int
    /\ DueTimes \subseteq Int /\ Null \notin Int
    /\ PageSizes \subseteq Nat \ {0}
    /\ MAX_CLOCK \in Nat \ {0} /\ MAX_CHANGES \in Nat

TypeOK ==
    /\ clock \in Times /\ now \in Times
    /\ tasks \subseteq Rows /\ kept \subseteq TaskIds
    /\ \A s, t \in tasks : s.id = t.id => s = t
    /\ query \in Queries
    /\ page \in 0..Cardinality(TaskIds)
    /\ items \in Seq(Rows) \cup {Null} /\ walked \in Seq(Rows)
    /\ items # Null => Len(items) <= query.page_size
    /\ changes \in 0..MAX_CHANGES

-----------------------------------------------------------------------------
NON_OVERDUE_STATUSES == {"COMPLETED", "CANCELLED"}

\* Comparisons with NULL are not true in SQL.
Before(a, b) == a # Null /\ a < b
AtLeast(a, b) == a # Null /\ a >= b

Overdue(t, at) == Before(t.due_at, at) /\ t.status \notin NON_OVERDUE_STATUSES

NotOverdue(t, at) ==
    t.due_at = Null \/ AtLeast(t.due_at, at) \/ t.status \in NON_OVERDUE_STATUSES

\* _owned_filters
Matches(t, q, at) ==
    /\ t.mine
    /\ q.status # Null => t.status = q.status
    /\ q.due_from # Null => AtLeast(t.due_at, q.due_from)
    /\ q.due_to # Null => t.due_at # Null /\ t.due_at <= q.due_to
    /\ q.overdue = TRUE => Overdue(t, at)
    /\ q.overdue = FALSE => NotOverdue(t, at)

Selected(at) == {t \in tasks : Matches(t, query, at)}
Ids(rows) == {t.id : t \in rows}

\* _sort_column
Key(t) == IF query.sort_by = "due_at" THEN t.due_at ELSE t.updated_at

\* ORDER BY the sort column, NULLS LAST in both directions
KeyBefore(s, t) ==
    \/ Key(s) # Null /\ Key(t) = Null
    \/ /\ Key(s) # Null /\ Key(t) # Null
       /\ IF query.sort_direction = "asc" THEN Key(s) < Key(t) ELSE Key(s) > Key(t)

\* Mutant: ties are left to the database.
TiesInAnyOrder(s, t) == KeyBefore(s, t)

Precedes(s, t) ==
    \/ KeyBefore(s, t)
    \/ /\ Key(s) = Key(t)
       /\ IF query.sort_direction = "asc" THEN s.id < t.id ELSE s.id > t.id

\* Whatever order the statement leaves open, the database is free to choose.
Orderings(rows) ==
    {order \in SetToSeqs(rows) :
        \A i, j \in DOMAIN order : Precedes(order[i], order[j]) => i < j}

Offset == (page - 1) * query.page_size

\* The list as the next statement finds it: the list statement of a page
\* takes the time, the count statement uses it again.
Seen == Selected(IF items = Null THEN clock ELSE now)

\* What is before a task in the list.
Ahead(k, list) == Ids({s \in list : \E t \in list : t.id = k /\ Precedes(s, t)})

Init ==
    /\ clock = 1 /\ now = 1
    /\ \E ids \in SUBSET TaskIds : \E shape \in [ids -> Shapes] :
          tasks = {Row(id, shape[id]) : id \in ids}
    /\ query \in Asked
    /\ page = 1 /\ items = Null /\ walked = <<>>
    /\ changes = 0
    /\ kept = Ids(Selected(1))

\* A task is kept as long as it stays in the list and whatever was before it
\* in the list still is: nothing before it goes away, is moved behind it or
\* is passed by it.
Observe ==
    kept' = {k \in kept : k \in Ids(Seen') /\ Ahead(k, Seen) \subseteq Ahead(k, Seen')}

\* The model ends with the walk, for which page = 0 stands.
Walking == page > 0

Tick ==
    /\ Walking /\ clock < MAX_CLOCK
    /\ clock' = clock + 1
    /\ UNCHANGED <<tasks, query, changes, walk>>
    /\ Observe

-----------------------------------------------------------------------------
Write ==
    /\ Walking /\ changes < MAX_CHANGES
    /\ changes' = changes + 1
    /\ UNCHANGED <<clock, query, walk>>
    /\ Observe

\* A request takes the time before it commits.
WriteTimes == 0..clock

\* create_task, and create_task_batch, whose rows have the time of their one
\* transaction.
CreateTasks ==
    /\ \E ids \in SUBSET (TaskIds \ Ids(tasks)), at \in WriteTimes :
       \E shape \in [ids -> {s \in Shapes : s.status = "TODO"}] :
          /\ ids # {}
          /\ tasks' = tasks \cup
                {Row(id, [shape[id] EXCEPT !.updated_at = at]) : id \in ids}
    /\ Write

Replace(t, u) == tasks' = (tasks \ {t}) \cup {u}

\* update_owned_task with something to write.  The columns it names may be
\* others than these; it sets updated_at in any case.
UpdateTask(t) ==
    /\ \E status \in (TaskStatus \ {"COMPLETED"}) \cup {t.status},
          due_at \in DueTimes \cup {Null}, at \in WriteTimes :
          Replace(t, [t EXCEPT !.status = status, !.due_at = due_at, !.updated_at = at])
    /\ Write

\* complete_owned_task of a task that it read as not completed.
CompleteTask(t) ==
    /\ \E at \in WriteTimes :
          Replace(t, [t EXCEPT !.status = "COMPLETED", !.updated_at = at])
    /\ Write

DeleteTask(t) ==
    /\ tasks' = tasks \ {t}
    /\ Write

-----------------------------------------------------------------------------
\* The list statement of list_owned_tasks.
ListPage ==
    /\ Walking /\ items = Null
    /\ now' = clock
    /\ \E order \in Orderings(Selected(clock)) :
          items' = SubSeq(order, Offset + 1,
                          IF Offset + query.page_size < Len(order)
                          THEN Offset + query.page_size ELSE Len(order))
    /\ UNCHANGED <<clock, tasks, query, page, walked, changes>>
    /\ Observe

\* Mutant: a last page that is not full is not counted.
FullPages(total) == total \div query.page_size

Pages(total) ==
    IF total = 0 THEN 0 ELSE (total + query.page_size - 1) \div query.page_size

\* The count statement and the answer; the client asks for the next page, or
\* ends its walk.
CountRows ==
    /\ Walking /\ items # Null
    /\ walked' = walked \o items
    /\ items' = Null
    /\ page' = IF page < Pages(Cardinality(Selected(now))) THEN page + 1 ELSE 0
    /\ UNCHANGED <<clock, now, tasks, query, changes>>
    /\ Observe

Next ==
    \/ Tick \/ CreateTasks
    \/ \E t \in tasks : UpdateTask(t) \/ CompleteTask(t) \/ DeleteTask(t)
    \/ ListPage \/ CountRows

Spec == Init /\ [][Next]_vars

-----------------------------------------------------------------------------
(***************************************************************************)
(* Properties.                                                             *)
(***************************************************************************)

\* Pages that are read while nothing changes are a division of the matching
\* tasks: together they hold each one once, in the order that was asked for.
QuietWalkIsExact ==
    page = 0 /\ changes = 0 /\ clock = 1 =>
        /\ ToSet(walked) = Selected(now)
        /\ IsInjective(walked)
        /\ \A i, j \in DOMAIN walked : i < j => ~KeyBefore(walked[j], walked[i])

\* A task is missing from all pages only if it left the list meanwhile, or
\* something that was before it in the list went away or changed places with
\* it.  Rows that appear or move anywhere else, ticks, and a page and its
\* total being two statements are no reason.
OnlyDisplacedTasksAreSkipped == page = 0 => kept \subseteq Ids(ToSet(walked))

=============================================================================
