-------------------------- MODULE TaskQueryProofs --------------------------
(***************************************************************************)
(* Proofs about a walk through the pages of GET /tasks, for any tasks,     *)
(* times, page sizes and number of writes: pages that are read while       *)
(* nothing changes divide the matching tasks, and a task is skipped only   *)
(* if it leaves the list or what was before it does not stay before it.    *)
(***************************************************************************)
EXTENDS TaskQuery, FiniteSetTheorems, SequenceTheorems, TLAPS

-----------------------------------------------------------------------------
(***************************************************************************)
(* The inductive invariant.                                                *)
(***************************************************************************)

TableInv ==
    /\ tasks \subseteq Rows /\ kept \subseteq TaskIds
    /\ \A s, t \in tasks : s.id = t.id => s = t
    /\ query \in Queries
    /\ clock \in 1..MAX_CLOCK /\ now \in Nat /\ changes \in Nat

WalkInv ==
    /\ page \in Nat /\ walked \in Seq(Rows)
    /\ items # Null => items \in Seq(Rows) /\ Walking

\* The ids of what precedes a task in a set of tasks: its place.
Preceding(t, set) == {s.id : s \in {r \in set : Precedes(r, t)}}
Place(t, set) == Cardinality(Preceding(t, set))

\* The first place, and the tasks, of the pages that were read.
Reached == IF items = Null THEN Offset ELSE Offset + query.page_size
Read == Ids(ToSet(walked)) \cup (IF items = Null THEN {} ELSE Ids(ToSet(items)))

\* Tasks that are kept and were not read are still ahead.
KeptInv ==
    \A k \in kept :
        /\ Walking => \E t \in Seen : t.id = k /\ (k \in Read \/ Reached <= Place(t, Seen))
        /\ ~Walking => k \in Read

\* Each task of a sequence has the place that it has in the order.
Placed(seq, from) ==
    \A i \in 1..Len(seq) :
        seq[i] \in Selected(1) /\ Place(seq[i], Selected(1)) = from + (i - 1)

Lower(m, n) == IF m < n THEN m ELSE n

\* The pages so far are the first tasks, in order.
QuietInv ==
    changes = 0 /\ clock = 1 =>
        LET n == Cardinality(Selected(1))
        IN  /\ now = 1
            /\ Placed(walked, 0) /\ Len(walked) = IF Walking THEN Lower(Offset, n) ELSE n
            /\ items # Null =>
                  /\ Placed(items, Offset)
                  /\ Len(items) = Lower(Offset + query.page_size, n) - Lower(Offset, n)

PagesInv == TableInv /\ WalkInv /\ KeptInv /\ QuietInv

-----------------------------------------------------------------------------
(***************************************************************************)
(* Rows and their order.                                                   *)
(***************************************************************************)

RowFields == [id : TaskIds, mine : BOOLEAN, status : TaskStatus,
              due_at : DueTimes \cup {Null}, updated_at : Times]

\* Rows are records.
LEMMA RowsAreRecords == Rows = RowFields
PROOF
<1>1. ASSUME NEW t \in Rows PROVE t \in RowFields
  <2>1. PICK id \in TaskIds, columns \in Columns : t = Row(id, columns)
    BY DEF Rows
  <2> QED BY <2>1 DEF Row, Columns, RowFields
<1>2. ASSUME NEW t \in RowFields PROVE t \in Rows
  <2> DEFINE columns == [mine |-> t.mine, status |-> t.status, due_at |-> t.due_at,
                         updated_at |-> t.updated_at]
  <2>1. columns \in Columns /\ t.id \in TaskIds
    BY DEF RowFields, Columns
  <2>2. t = Row(t.id, columns)
    BY DEF RowFields, Row
  <2> QED BY <2>1, <2>2 DEF Rows
<1> QED BY <1>1, <1>2

\* What a query is.
LEMMA QueryFields ==
    ASSUME TableInv
    PROVE  query.page_size \in Nat \ {0} /\ query.sort_direction \in {"asc", "desc"}
PROOF
<1>1. query \in [status : TaskStatus \cup {Null}, overdue : BOOLEAN \cup {Null},
                 due_from : DueTimes \cup {Null}, due_to : DueTimes \cup {Null},
                 sort_by : {"due_at", "updated_at"}, sort_direction : {"asc", "desc"},
                 page_size : PageSizes]
  BY DEF TableInv, Queries
<1> QED BY <1>1, DomainsAssumption

\* The order of the statement is strict and, up to the id, total.
LEMMA PrecedesOrders ==
    /\ \A s \in Rows : ~Precedes(s, s)
    /\ \A r, s, t \in Rows : Precedes(r, s) /\ Precedes(s, t) => Precedes(r, t)
    /\ \A s, t \in Rows : s.id # t.id => Precedes(s, t) \/ Precedes(t, s)
PROOF
<1>1. \A t \in Rows : t.id \in Int /\ (Key(t) = Null \/ Key(t) \in Int)
  <2>1. ASSUME NEW t \in Rows
        PROVE  /\ t.id \in Int
               /\ t.due_at = Null \/ t.due_at \in Int
               /\ t.updated_at \in Int
    <3>1. t \in RowFields
      BY RowsAreRecords
    <3>2. t.id \in TaskIds /\ t.due_at \in DueTimes \cup {Null} /\ t.updated_at \in Times
      BY <3>1 DEF RowFields
    <3>3. Times \subseteq Int
      BY DomainsAssumption DEF Times
    <3> QED BY <3>2, <3>3, DomainsAssumption
  <2> QED BY <2>1 DEF Key
<1>2. \A s \in Rows : ~Precedes(s, s)
  BY <1>1 DEF Precedes, KeyBefore
<1>3. ASSUME NEW r \in Rows, NEW s \in Rows, NEW t \in Rows, Precedes(r, s), Precedes(s, t)
      PROVE  Precedes(r, t)
  <2>1. CASE query.sort_direction = "asc"
    BY <1>1, <1>3, <2>1, DomainsAssumption DEF Precedes, KeyBefore
  <2>2. CASE query.sort_direction # "asc"
    BY <1>1, <1>3, <2>2, DomainsAssumption DEF Precedes, KeyBefore
  <2> QED BY <2>1, <2>2
<1>4. ASSUME NEW s \in Rows, NEW t \in Rows, s.id # t.id
      PROVE  Precedes(s, t) \/ Precedes(t, s)
  <2>1. CASE query.sort_direction = "asc"
    BY <1>1, <1>4, <2>1, DomainsAssumption DEF Precedes, KeyBefore
  <2>2. CASE query.sort_direction # "asc"
    BY <1>1, <1>4, <2>2, DomainsAssumption DEF Precedes, KeyBefore
  <2> QED BY <2>1, <2>2
<1> QED BY <1>2, <1>3, <1>4

\* Ids are finitely many, and so are the rows.
LEMMA FiniteTable ==
    ASSUME TableInv, NEW set \in SUBSET tasks
    PROVE  /\ IsFiniteSet(set) /\ Cardinality(set) \in Nat
           /\ IsFiniteSet(Ids(set)) /\ Cardinality(Ids(set)) \in Nat
           /\ Cardinality(Ids(set)) <= Cardinality(set)
PROOF
<1>1. set \subseteq Rows /\ \A s, t \in set : s.id = t.id => s = t
  BY DEF TableInv
<1>2. Ids(set) \in SUBSET TaskIds
  BY <1>1, RowsAreRecords DEF Ids, RowFields
<1>3. IsFiniteSet(Ids(set))
  BY <1>2, DomainsAssumption, FS_Subset
<1> DEFINE row == [k \in Ids(set) |-> CHOOSE t \in set : t.id = k]
           id == [t \in set |-> t.id]
<1>4. row \in Surjection(Ids(set), set)
  <2>1. \A k \in Ids(set) : row[k] \in set /\ row[k].id = k
    BY DEF Ids
  <2>2. \A t \in set : t.id \in Ids(set) /\ row[t.id] = t
    BY <1>1 DEF Ids
  <2>3. row \in [Ids(set) -> set]
    BY <2>1
  <2> HIDE DEF row
  <2> QED BY <2>2, <2>3 DEF Surjection
<1>5. IsFiniteSet(set)
  <2> HIDE DEF row
  <2> QED BY <1>3, <1>4, FS_Surjection DEF ExistsSurjection
<1>6. id \in Surjection(set, Ids(set))
  BY DEF Surjection, Ids
<1>7. Cardinality(Ids(set)) <= Cardinality(set)
  <2> HIDE DEF id
  <2> QED BY <1>5, <1>6, FS_Surjection DEF ExistsSurjection
<1> QED BY <1>3, <1>5, <1>7, FS_CardinalityType

\* A place is a number, and whatever precedes a task has a lower one.
LEMMA Places ==
    ASSUME TableInv, NEW set \in SUBSET tasks, NEW t \in set
    PROVE  /\ Preceding(t, set) \subseteq Ids(set) \ {t.id} /\ IsFiniteSet(Preceding(t, set))
           /\ Place(t, set) \in Nat /\ Place(t, set) < Cardinality(set)
           /\ \A s \in set : Precedes(s, t) => Place(s, set) < Place(t, set)
PROOF
<1>1. set \subseteq Rows /\ \A r, s \in set : r.id = s.id => r = s
  BY DEF TableInv
<1>2. ASSUME NEW s \in set
      PROVE  Preceding(s, set) \in SUBSET (Ids(set) \ {s.id})
  BY <1>1, PrecedesOrders DEF Preceding, Ids
<1>3. /\ IsFiniteSet(Ids(set)) /\ Cardinality(Ids(set)) \in Nat /\ Cardinality(set) \in Nat
      /\ Cardinality(Ids(set)) <= Cardinality(set)
  BY FiniteTable
<1>4. ASSUME NEW s \in set
      PROVE  IsFiniteSet(Preceding(s, set)) /\ Place(s, set) \in Nat
  <2>1. Preceding(s, set) \in SUBSET Ids(set)
    BY <1>2
  <2> QED BY <1>3, <2>1, FS_Subset, FS_CardinalityType DEF Place
<1>5. Place(t, set) < Cardinality(set)
  <2>1. t.id \in Ids(set)
    BY DEF Ids
  <2>2. Preceding(t, set) \in SUBSET Ids(set) /\ Preceding(t, set) # Ids(set)
    BY <1>2, <2>1
  <2>3. Place(t, set) <= Cardinality(Ids(set)) /\ Place(t, set) # Cardinality(Ids(set))
    BY <1>3, <2>2, FS_Subset DEF Place
  <2> QED BY <1>3, <1>4, <2>3
<1>6. ASSUME NEW s \in set, Precedes(s, t) PROVE Place(s, set) < Place(t, set)
  <2>1. Preceding(s, set) \in SUBSET Preceding(t, set)
    <3>1. \A r \in set : Precedes(r, s) => Precedes(r, t)
      BY <1>1, <1>6, PrecedesOrders
    <3> QED BY <3>1 DEF Preceding
  <2>2. s.id \in Preceding(t, set) /\ s.id \notin Preceding(s, set)
    BY <1>2, <1>6 DEF Preceding
  <2>3. Place(s, set) <= Place(t, set) /\ Place(s, set) # Place(t, set)
    BY <1>4, <2>1, <2>2, FS_Subset DEF Place
  <2> QED BY <1>4, <2>3
<1> QED BY <1>2, <1>4, <1>5, <1>6

\* The database may leave no choice: the place of a task is its position.
LEMMA OrderedPlaces ==
    ASSUME TableInv, NEW set \in SUBSET tasks, NEW order \in Orderings(set)
    PROVE  LET n == Cardinality(set)
           IN  /\ n \in Nat /\ order \in [1..n -> set]
               /\ \A t \in set : \E i \in 1..n : order[i] = t
               /\ \A i \in 1..n : Place(order[i], set) = i - 1
PROOF
<1> DEFINE n == Cardinality(set)
<1>1. /\ IsFiniteSet(set) /\ n \in Nat
      /\ \A t \in set : Preceding(t, set) \subseteq Ids(set) /\ IsFiniteSet(Preceding(t, set))
  BY FiniteTable, Places
<1>2. /\ order \in [1..n -> set] /\ \A i, j \in 1..n : i # j => order[i] # order[j]
      /\ \A i, j \in 1..n : Precedes(order[i], order[j]) => i < j
  BY DEF Orderings, SetToSeqs
<1>3. \A t \in set : \E i \in 1..n : order[i] = t
  <2>1. order \in Injection(1..n, set)
    BY <1>2 DEF Injection, IsInjective
  <2>2. IsFiniteSet(1..n) /\ Cardinality(1..n) = n
    <3> HIDE DEF n
    <3> QED BY <1>1, FS_Interval
  <2>3. order \in Surjection(1..n, set)
    BY <1>1, <2>1, <2>2, FS_Injection
  <2> QED BY <2>3 DEF Surjection
<1>4. ASSUME NEW i \in 1..n PROVE Place(order[i], set) = i - 1
  <2> DEFINE ids == [j \in 1..(i - 1) |-> order[j].id]
  <2> HIDE DEF n
  <2>1. set \subseteq Rows /\ \A s, t \in set : s.id = t.id => s = t
    BY DEF TableInv
  <2>2. \A j \in 1..n : order[j] \in set /\ order[j] \in Rows
    BY <1>2, <2>1
  <2>3. ASSUME NEW j \in 1..(i - 1) PROVE j \in 1..n /\ Precedes(order[j], order[i])
    <3>1. j \in 1..n /\ j # i /\ ~(i < j)
      BY <1>1, <1>4
    <3>2. order[j] # order[i]
      BY <1>2, <1>4, <3>1
    <3>3. order[j].id # order[i].id
      BY <1>4, <2>1, <2>2, <3>1, <3>2
    <3> QED BY <1>2, <1>4, <2>2, <3>1, <3>3, PrecedesOrders
  <2>4. \A j \in 1..(i - 1) : ids[j] \in Preceding(order[i], set)
    BY <2>2, <2>3 DEF Preceding
  <2>5. \A k \in Preceding(order[i], set) : \E j \in 1..(i - 1) : ids[j] = k
    <3> SUFFICES ASSUME NEW s \in set, Precedes(s, order[i])
                 PROVE  \E j \in 1..(i - 1) : ids[j] = s.id
      BY DEF Preceding
    <3>1. PICK j \in 1..n : order[j] = s
      BY <1>3
    <3>2. j \in 1..(i - 1)
      BY <1>1, <1>2, <1>4, <3>1
    <3> QED BY <3>1, <3>2
  <2>6. \A j, k \in 1..(i - 1) : ids[j] = ids[k] => j = k
    BY <1>2, <2>1, <2>2, <2>3
  <2>7. ids \in Bijection(1..(i - 1), Preceding(order[i], set))
    BY <2>4, <2>5, <2>6 DEF Bijection, Injection, Surjection, IsInjective
  <2>8. i - 1 \in Nat /\ ExistsBijection(1..(i - 1), Preceding(order[i], set))
    BY <1>1, <1>4, <2>7 DEF ExistsBijection
  <2> QED BY <2>8, FS_CountingElements DEF Place
<1> QED BY <1>1, <1>2, <1>3, <1>4

-----------------------------------------------------------------------------
(***************************************************************************)
(* Time passes and tasks change.                                           *)
(***************************************************************************)

\* A commit of create, PATCH, complete or delete.
Writes ==
    \/ CreateTasks
    \/ \E t \in tasks : UpdateTask(t) \/ CompleteTask(t) \/ DeleteTask(t)

\* Whatever is written, ids stay unique and rows stay rows.
LEMMA WritesKeepTable ==
    ASSUME TableInv, Writes
    PROVE  /\ tasks' \subseteq Rows /\ \A s, u \in tasks' : s.id = u.id => s = u
           /\ Write
PROOF
<1>1. /\ tasks \subseteq Rows /\ \A s, t \in tasks : s.id = t.id => s = t
      /\ WriteTimes \subseteq Times
  BY DomainsAssumption DEF TableInv, WriteTimes, Times
<1>2. ASSUME NEW t \in tasks, NEW u \in RowFields, u.id = t.id, Replace(t, u)
      PROVE  tasks' \subseteq Rows /\ \A s, v \in tasks' : s.id = v.id => s = v
  <2>1. u \in Rows
    BY <1>2, RowsAreRecords
  <2> QED BY <1>1, <1>2, <2>1 DEF Replace
<1>3. \A t \in tasks : t \in RowFields
  BY <1>1, RowsAreRecords
<1>4. CASE CreateTasks
  <2>1. PICK ids \in SUBSET (TaskIds \ Ids(tasks)), at \in WriteTimes :
        \E shape \in [ids -> {s \in Shapes : s.status = "TODO"}] :
           tasks' = tasks \cup {Row(id, [shape[id] EXCEPT !.updated_at = at]) : id \in ids}
    BY <1>4 DEF CreateTasks
  <2>2. PICK shape \in [ids -> {s \in Shapes : s.status = "TODO"}] :
           tasks' = tasks \cup {Row(id, [shape[id] EXCEPT !.updated_at = at]) : id \in ids}
    BY <2>1
  <2> DEFINE new(id) == Row(id, [shape[id] EXCEPT !.updated_at = at])
  <2>3. ASSUME NEW id \in ids PROVE new(id) \in Rows /\ new(id).id = id
    <3>1. shape[id] \in Columns /\ id \in TaskIds /\ at \in Times
      BY <1>1, ShapesAssumption
    <3>2. [shape[id] EXCEPT !.updated_at = at] \in Columns
      BY <3>1 DEF Columns
    <3>3. \A columns \in Columns : Row(id, columns) \in Rows /\ Row(id, columns).id = id
      BY <3>1 DEF Rows, Row
    <3> QED BY <3>2, <3>3
  <2>4. tasks' = tasks \cup {new(id) : id \in ids}
    BY <2>2
  <2> HIDE DEF new
  <2>5. tasks' \subseteq Rows /\ \A s, v \in tasks' : s.id = v.id => s = v
    BY <1>1, <2>3, <2>4 DEF Ids
  <2> QED BY <1>4, <2>5 DEF CreateTasks
<1>5. ASSUME NEW t \in tasks, UpdateTask(t)
      PROVE  tasks' \subseteq Rows /\ \A s, v \in tasks' : s.id = v.id => s = v
  <2>1. PICK status \in (TaskStatus \ {"COMPLETED"}) \cup {t.status},
             due_at \in DueTimes \cup {Null}, at \in WriteTimes :
           Replace(t, [t EXCEPT !.status = status, !.due_at = due_at, !.updated_at = at])
    BY <1>5 DEF UpdateTask
  <2> DEFINE u == [t EXCEPT !.status = status, !.due_at = due_at, !.updated_at = at]
  <2>2. u \in RowFields /\ u.id = t.id
    BY <1>1, <1>3 DEF RowFields
  <2> HIDE DEF u
  <2>3. Replace(t, u)
    BY <2>1 DEF u
  <2> QED BY <1>2, <2>2, <2>3
<1>6. ASSUME NEW t \in tasks, CompleteTask(t)
      PROVE  tasks' \subseteq Rows /\ \A s, v \in tasks' : s.id = v.id => s = v
  <2>1. PICK at \in WriteTimes :
           Replace(t, [t EXCEPT !.status = "COMPLETED", !.updated_at = at])
    BY <1>6 DEF CompleteTask
  <2> DEFINE u == [t EXCEPT !.status = "COMPLETED", !.updated_at = at]
  <2>2. u \in RowFields /\ u.id = t.id
    BY <1>1, <1>3 DEF RowFields, TaskStatus
  <2> HIDE DEF u
  <2>3. Replace(t, u)
    BY <2>1 DEF u
  <2> QED BY <1>2, <2>2, <2>3
<1>7. ASSUME NEW t \in tasks, DeleteTask(t)
      PROVE  tasks' \subseteq Rows /\ \A s, v \in tasks' : s.id = v.id => s = v
  BY <1>1, <1>7 DEF DeleteTask
<1>8. Write
  BY DEF Writes, CreateTasks, UpdateTask, CompleteTask, DeleteTask
<1> QED BY <1>4, <1>5, <1>6, <1>7, <1>8 DEF Writes

\* Time passes or something is written: the walk stands still.
LEMMA Changed ==
    ASSUME TableInv, Tick \/ Writes
    PROVE  TableInv' /\ UNCHANGED <<query, walk>> /\ Observe /\ ~(changes' = 0 /\ clock' = 1)
PROOF
<1>1. /\ tasks \subseteq Rows /\ kept \subseteq TaskIds
      /\ \A s, t \in tasks : s.id = t.id => s = t
      /\ query \in Queries
      /\ clock \in 1..MAX_CLOCK /\ now \in Nat /\ changes \in Nat
  BY DEF TableInv
<1>2. UNCHANGED <<query, walk>> /\ Observe
  BY WritesKeepTable DEF Tick, Write
<1>3. query' = query /\ now' = now /\ kept' \subseteq TaskIds
  BY <1>1, <1>2 DEF walk, Observe
<1>4. CASE Tick
  <2>1. tasks' = tasks /\ changes' = changes /\ clock' \in 1..MAX_CLOCK /\ clock' # 1
    BY <1>1, <1>4, DomainsAssumption DEF Tick
  <2> QED BY <1>1, <1>2, <1>3, <2>1 DEF TableInv
<1>5. CASE Writes
  <2>1. tasks' \subseteq Rows /\ \A s, u \in tasks' : s.id = u.id => s = u
    BY <1>5, WritesKeepTable
  <2>2. clock' = clock /\ changes' \in Nat /\ changes' # 0
    BY <1>1, <1>5, WritesKeepTable DEF Write
  <2> QED BY <1>1, <1>2, <1>3, <2>1, <2>2 DEF TableInv
<1> QED BY <1>4, <1>5

SeenPlaced ==
    \A t \in Seen : /\ IsFiniteSet(Preceding(t, Seen)) /\ Place(t, Seen) \in Nat
                   /\ Preceding(t, Seen) = Ahead(t.id, Seen)

\* Whatever is in the list has a place.
LEMMA SeenPlaces == TableInv => SeenPlaced
PROOF
<1> SUFFICES ASSUME TableInv, NEW t \in Seen
             PROVE  /\ IsFiniteSet(Preceding(t, Seen)) /\ Place(t, Seen) \in Nat
                    /\ Preceding(t, Seen) = Ahead(t.id, Seen)
  BY DEF SeenPlaced
<1>1. Seen \in SUBSET tasks
  BY DEF Seen, Selected
<1>2. \A s \in Seen : s.id = t.id => s = t
  BY <1>1 DEF TableInv
<1>3. Preceding(t, Seen) = Ahead(t.id, Seen)
  BY <1>2 DEF Preceding, Ahead, Ids
<1> QED BY <1>1, <1>3, Places

\* A task that is kept does not move towards the first page.
LEMMA KeptPlaces ==
    ASSUME TableInv, TableInv', query' = query, Observe, NEW k \in kept',
           NEW t \in Seen, t.id = k
    PROVE  \E u \in Seen' : /\ u.id = k /\ Place(u, Seen)' \in Nat
                            /\ Place(t, Seen) <= Place(u, Seen)'
PROOF
<1>1. (TableInv => SeenPlaced) /\ (TableInv' => SeenPlaced')
  BY SeenPlaces, PTL
<1>2. k \in Ids(Seen') /\ Ahead(k, Seen) \subseteq Ahead(k, Seen')
  BY DEF Observe
<1>3. PICK u \in Seen' : u.id = k
  BY <1>2 DEF Ids
<1>4. /\ IsFiniteSet(Preceding(t, Seen)) /\ Place(t, Seen) \in Nat
      /\ Preceding(t, Seen) = Ahead(k, Seen)
  BY <1>1 DEF SeenPlaced
<1>5. /\ IsFiniteSet(Preceding(u, Seen)') /\ Place(u, Seen)' \in Nat
      /\ Preceding(u, Seen)' = Ahead(k, Seen)'
  BY <1>1, <1>3 DEF SeenPlaced
<1>6. Ahead(k, Seen)' = Ahead(k, Seen')
  BY DEF Ahead, Ids, Precedes, KeyBefore, Key
<1>7. Preceding(t, Seen) \in SUBSET Preceding(u, Seen)'
  BY <1>2, <1>4, <1>5, <1>6
<1>8. Place(t, Seen) <= Place(u, Seen)'
  BY <1>5, <1>7, FS_Subset DEF Place
<1> QED BY <1>3, <1>5, <1>8

\* Offsets are numbers.
LEMMA ReachedType ==
    ASSUME TableInv, WalkInv
    PROVE  /\ Offset \in Int /\ Reached \in Int /\ (Walking => Offset \in Nat)
           /\ Offset + query.page_size = page * query.page_size
PROOF
<1>1. page \in Nat /\ query.page_size \in Nat \ {0}
  BY QueryFields DEF WalkInv
<1>2. \A m, n \in Int : (m - 1) * n \in Int /\ (m - 1) * n + n = m * n
  OBVIOUS
<1>3. \A m, n \in Nat : m > 0 => (m - 1) * n \in Nat
  OBVIOUS
<1> QED BY <1>1, <1>2, <1>3 DEF Offset, Reached, Walking

\* What is kept and has not been read stays ahead of the pages.
LEMMA ChangedKeptHolds ==
    ASSUME TableInv, WalkInv, KeptInv, Tick \/ Writes PROVE KeptInv'
PROOF
<1> SUFFICES ASSUME NEW k \in kept'
             PROVE  /\ Walking' => \E t \in Seen' : t.id = k /\
                          (k \in Read' \/ Reached' <= Place(t, Seen)')
                    /\ ~Walking' => k \in Read'
  BY DEF KeptInv
<1>1. TableInv' /\ UNCHANGED <<query, walk>> /\ Observe
  BY Changed
<1>2. query' = query /\ page' = page /\ items' = items /\ walked' = walked
  BY <1>1 DEF walk
<1>3. k \in kept
  BY <1>1 DEF Observe
<1>4. Walking' = Walking /\ Read' = Read /\ Reached' = Reached
  BY <1>2 DEF Walking, Read, Reached, Offset
<1>5. CASE ~Walking
  BY <1>3, <1>4, <1>5 DEF KeptInv
<1>6. CASE Walking
  <2>1. PICK t \in Seen : t.id = k /\ (k \in Read \/ Reached <= Place(t, Seen))
    BY <1>3, <1>6 DEF KeptInv
  <2>2. PICK u \in Seen' : /\ u.id = k /\ Place(u, Seen)' \in Nat
                           /\ Place(t, Seen) <= Place(u, Seen)'
    BY <1>1, <1>2, <2>1, KeptPlaces
  <2>3. Reached \in Int /\ Place(t, Seen) \in Nat
    BY ReachedType, SeenPlaces DEF SeenPlaced
  <2>4. k \in Read' \/ Reached' <= Place(u, Seen)'
    BY <1>4, <2>1, <2>2, <2>3
  <2> QED BY <1>4, <1>6, <2>2, <2>4
<1> QED BY <1>5, <1>6

-----------------------------------------------------------------------------
(***************************************************************************)
(* The statements of a page.                                               *)
(***************************************************************************)

\* What the list statement returns: the tasks at the places of the page.
LEMMA PageOf ==
    ASSUME TableInv, WalkInv, ListPage
    PROVE  LET S == Selected(clock)
               n == Cardinality(S)
           IN  /\ n \in Nat /\ items' \in Seq(S) /\ items' \in Seq(Rows)
               /\ Len(items') = Lower(Offset + query.page_size, n) - Lower(Offset, n)
               /\ \A i \in 1..Len(items') :
                     items'[i] \in S /\ Place(items'[i], S) = Offset + (i - 1)
               /\ \A t \in S : \/ Place(t, S) < Offset \/ t \in ToSet(items')
                               \/ Offset + query.page_size <= Place(t, S)
PROOF
<1> DEFINE S == Selected(clock)
           n == Cardinality(S)
           size == query.page_size
           last == IF Offset + size < n THEN Offset + size ELSE n
<1>1. S \in SUBSET tasks /\ tasks \subseteq Rows
  BY DEF Selected, TableInv
<1>2. PICK order \in Orderings(S) :
         items' = SubSeq(order, Offset + 1,
                         IF Offset + size < Len(order) THEN Offset + size ELSE Len(order))
  BY DEF ListPage
<1> HIDE DEF S
<1>3. /\ n \in Nat /\ order \in [1..n -> S]
      /\ \A t \in S : \E i \in 1..n : order[i] = t
      /\ \A i \in 1..n : Place(order[i], S) = i - 1
  BY <1>1, OrderedPlaces
<1>4. Offset \in Nat /\ size \in Nat \ {0}
  BY ReachedType, QueryFields DEF ListPage
<1> HIDE DEF n, size
<1>5. order \in Seq(S) /\ Len(order) = n
  BY <1>3
<1>6. items' = SubSeq(order, Offset + 1, last)
  BY <1>2, <1>5
<1>7. last \in 0..n /\ last \in Nat
  BY <1>3, <1>4
<1>8. CASE Offset < n
  <2>1. Offset + 1 \in 1..(n + 1) /\ last \in Offset..n /\ last - Offset \in Nat
    BY <1>3, <1>4, <1>8
  <2> HIDE DEF last
  <2>2. /\ items' \in Seq(S) /\ Len(items') = last - Offset
        /\ \A i \in 1..(last - Offset) : items'[i] = order[Offset + i]
    <3>1. /\ Offset + 1 \in 1..(Len(order) + 1)
          /\ last \in (Offset + 1) - 1..Len(order)
      BY <1>4, <1>5, <2>1
    <3>2. /\ SubSeq(order, Offset + 1, last) \in Seq(S)
          /\ Len(SubSeq(order, Offset + 1, last)) = last - (Offset + 1) + 1
          /\ \A i \in 1..(last - (Offset + 1) + 1) :
                SubSeq(order, Offset + 1, last)[i] = order[(Offset + 1) + i - 1]
      BY <1>5, <3>1, SubSeqProperties
    <3>3. \A i \in Int : (Offset + 1) + i - 1 = Offset + i
      BY <1>4
    <3>4. last - (Offset + 1) + 1 = last - Offset
      BY <1>4, <1>7
    <3> DEFINE cut == SubSeq(order, Offset + 1, last)
    <3> HIDE DEF cut
    <3>5. cut \in Seq(S) /\ Len(cut) = last - Offset
      BY <3>2, <3>4 DEF cut
    <3>6. ASSUME NEW i \in 1..(last - Offset) PROVE cut[i] = order[Offset + i]
      <4>1. cut[i] = order[(Offset + 1) + i - 1]
        BY <3>2, <3>4 DEF cut
      <4>2. (Offset + 1) + i - 1 = Offset + i
        BY <3>3
      <4> QED BY <4>1, <4>2
    <3>7. items' = cut
      BY <1>6 DEF cut
    <3> QED BY <3>5, <3>6, <3>7
  <2>3. Len(items') = Lower(Offset + size, n) - Lower(Offset, n)
    BY <1>3, <1>4, <1>8, <2>2 DEF Lower, last
  <2>4. ASSUME NEW i \in 1..Len(items')
        PROVE  items'[i] \in S /\ Place(items'[i], S) = Offset + (i - 1)
    <3>1. Offset + i \in 1..n /\ (Offset + i) - 1 = Offset + (i - 1)
      BY <1>3, <1>4, <2>1, <2>2
    <3>2. items'[i] = order[Offset + i]
      BY <2>2
    <3> QED BY <1>3, <3>1, <3>2
  <2>5. ASSUME NEW t \in S, ~(Place(t, S) < Offset), ~(Offset + size <= Place(t, S))
        PROVE  t \in ToSet(items')
    <3>1. PICK i \in 1..n : order[i] = t
      BY <1>3
    <3>2. Place(t, S) = i - 1
      BY <1>3, <3>1
    <3>3. i - Offset \in 1..(last - Offset) /\ Offset + (i - Offset) = i
      BY <1>3, <1>4, <2>5, <3>2 DEF last
    <3>4. i - Offset \in DOMAIN items' /\ items'[i - Offset] = t
      BY <2>2, <3>1, <3>3, LenProperties
    <3> QED BY <3>4 DEF ToSet
  <2>6. items' \in Seq(Rows)
    BY <1>1, <2>2, SeqMonotonic DEF S
  <2> QED BY <1>3, <2>2, <2>3, <2>4, <2>5, <2>6 DEF n, S, size
<1>9. CASE ~(Offset < n)
  <2>1. last = n /\ Offset + 1 > last
    BY <1>3, <1>4, <1>9
  <2>2. items' = <<>>
    <3> HIDE DEF last
    <3>1. Offset + 1 \in Int /\ last \in Int
      BY <1>4, <1>7
    <3> QED BY <1>5, <1>6, <2>1, <3>1, SubSeqEmpty
  <2>3. Len(items') = 0 /\ Len(items') = Lower(Offset + size, n) - Lower(Offset, n)
    BY <1>3, <1>4, <1>9, <2>2 DEF Lower
  <2>4. \A t \in S : Place(t, S) < Offset
    <3>1. \A i \in 1..n : i - 1 < Offset
      BY <1>3, <1>4, <1>9
    <3> QED BY <1>3, <3>1
  <2>5. items' \in Seq(S) /\ items' \in Seq(Rows)
    BY <2>2, EmptySeq
  <2>6. \A i \in 1..Len(items') : FALSE
    BY <2>3
  <2> QED BY <1>3, <2>3, <2>4, <2>5, <2>6 DEF n, S, size
<1> QED BY <1>8, <1>9

\* A page is read.
LEMMA ListPageHolds ==
    ASSUME PagesInv, ListPage PROVE PagesInv'
PROOF
<1> DEFINE S == Selected(clock)
           n == Cardinality(S)
<1>1. TableInv /\ WalkInv /\ KeptInv /\ QuietInv
  BY DEF PagesInv
<1>2. /\ items = Null /\ Walking /\ now' = clock
      /\ clock' = clock /\ tasks' = tasks /\ query' = query /\ page' = page
      /\ walked' = walked /\ changes' = changes /\ kept' \subseteq kept
  BY DEF ListPage, Observe
<1>3. /\ items' \in Seq(Rows)
      /\ Len(items') = Lower(Offset + query.page_size, n) - Lower(Offset, n)
      /\ \A i \in 1..Len(items') : items'[i] \in S /\ Place(items'[i], S) = Offset + (i - 1)
      /\ \A t \in S : \/ Place(t, S) < Offset \/ t \in ToSet(items')
                      \/ Offset + query.page_size <= Place(t, S)
  BY <1>1, PageOf
<1>4. TableInv' /\ WalkInv'
  BY <1>1, <1>2, <1>3 DEF TableInv, WalkInv, Walking
<1>5. /\ Offset' = Offset /\ Walking' = Walking
      /\ \A at, t : Matches(t, query, at)' = Matches(t, query, at)
      /\ \A s, t : Precedes(s, t)' = Precedes(s, t)
  BY <1>2 DEF Offset, Walking, Matches, Overdue, NotOverdue, Precedes, KeyBefore, Key
<1>6. Seen = S /\ Seen' = S
  BY <1>2, <1>5 DEF Seen, Selected
<1>7. KeptInv'
  <2> SUFFICES ASSUME NEW k \in kept'
               PROVE  \E t \in Seen' : t.id = k /\ (k \in Read' \/ Reached' <= Place(t, Seen)')
    BY <1>2, <1>5 DEF KeptInv
  <2>1. PICK t \in S : t.id = k /\ (k \in Read \/ Reached <= Place(t, S))
    BY <1>1, <1>2, <1>6 DEF KeptInv
  <2>2. Place(t, Seen)' = Place(t, S)
    BY <1>2, <1>5, <1>6 DEF Place, Preceding
  <2>3. Read \subseteq Read' /\ Reached = Offset
    BY <1>2 DEF Read, Reached
  <2>4. CASE items' = Null
    <3>1. Reached' = Offset
      BY <1>5, <2>4 DEF Reached
    <3> QED BY <1>6, <2>1, <2>2, <2>3, <3>1
  <2>5. CASE items' # Null
    <3>1. Reached' = Offset + query.page_size
      BY <1>2, <1>5, <2>5 DEF Reached
    <3>2. CASE t \in ToSet(items')
      <4>1. k \in Read'
        BY <2>1, <2>5, <3>2 DEF Read, Ids
      <4> QED BY <1>6, <2>1, <4>1
    <3>3. CASE ~(t \in ToSet(items'))
      <4>1. Place(t, S) \in Nat /\ Offset \in Int
        <5>1. S \in SUBSET tasks
          BY DEF Selected
        <5> QED BY <1>1, <5>1, Places, ReachedType
      <4>2. k \in Read \/ Offset + query.page_size <= Place(t, S)
        <5>1. Place(t, S) < Offset \/ Offset + query.page_size <= Place(t, S)
          BY <1>3, <3>3
        <5> HIDE DEF S
        <5> QED BY <2>1, <2>3, <4>1, <5>1
      <4> QED BY <1>6, <2>1, <2>2, <2>3, <3>1, <4>2
    <3> QED BY <3>2, <3>3
  <2> QED BY <2>4, <2>5
<1>8. QuietInv'
  <2> SUFFICES ASSUME changes = 0, clock = 1 PROVE QuietInv'
    BY <1>2 DEF QuietInv
  <2>1. S = Selected(1) /\ Selected(1)' = Selected(1)
    BY <1>2, <1>5 DEF Selected
  <2>2. \A t : Place(t, Selected(1))' = Place(t, Selected(1))
    BY <1>5, <2>1 DEF Place, Preceding
  <2>3. Placed(walked, 0)' /\ Len(walked') = Lower(Offset, n)
    BY <1>1, <1>2, <2>1, <2>2 DEF QuietInv, Placed
  <2>4. Placed(items, Offset)'
    <3>1. \A i \in 1..Len(items') :
             items'[i] \in Selected(1)' /\ Place(items'[i], Selected(1)') = Offset + (i - 1)
      BY <1>3, <2>1
    <3> QED BY <1>5, <2>1, <2>2, <3>1 DEF Placed
  <2> QED BY <1>2, <1>3, <1>5, <2>1, <2>3, <2>4 DEF QuietInv
<1> QED BY <1>4, <1>7, <1>8 DEF PagesInv

\* The last page is the one that reaches the total.
LEMMA PagesReachTotal ==
    ASSUME NEW total \in Nat, NEW at \in Nat \ {0}, query.page_size \in Nat \ {0}
    PROVE  at < Pages(total) <=> at * query.page_size < total
PROOF
<1> DEFINE size == query.page_size
           up == (total + size - 1) \div size
<1>1. \A s \in Nat \ {0}, m \in Nat :
        m \div s \in Nat /\ (m \div s) * s <= m /\ m < (m \div s) * s + s
  OBVIOUS
<1>2. total + size - 1 \in Nat
  OBVIOUS
<1>3. up \in Nat /\ up * size <= total + size - 1 /\ total + size - 1 < up * size + size
  BY <1>1, <1>2
<1>4. at * size \in Nat /\ up * size \in Nat
  BY <1>3
<1> HIDE DEF up
<1>5. ASSUME at < up PROVE at * size < total
  <2>1. (up - at) * size >= size
    BY <1>3, <1>5
  <2>2. (up - at) * size = up * size - at * size
    BY <1>3
  <2> QED BY <1>3, <1>4, <2>1, <2>2
<1>6. ASSUME at * size < total PROVE at < up
  <2> SUFFICES ASSUME up <= at PROVE FALSE
    BY <1>3
  <2>1. (at - up) * size >= 0
    BY <1>3
  <2>2. (at - up) * size = at * size - up * size
    BY <1>3
  <2> QED BY <1>3, <1>4, <1>6, <2>1, <2>2
<1>7. CASE total = 0
  BY <1>4, <1>7 DEF Pages
<1>8. CASE total # 0
  BY <1>5, <1>6, <1>8 DEF Pages, up
<1> QED BY <1>7, <1>8

\* The total is counted, and the walk goes on or ends.
LEMMA CountRowsHolds ==
    ASSUME PagesInv, CountRows PROVE PagesInv'
PROOF
<1> DEFINE total == Cardinality(Selected(now))
           size == query.page_size
<1>1. TableInv /\ WalkInv /\ KeptInv /\ QuietInv
  BY DEF PagesInv
<1>2. /\ items # Null /\ Walking /\ walked' = walked \o items /\ items' = Null
      /\ page' = IF page < Pages(total) THEN page + 1 ELSE 0
      /\ clock' = clock /\ now' = now /\ tasks' = tasks /\ query' = query
      /\ changes' = changes /\ kept' \subseteq kept /\ Observe
  BY DEF CountRows, Observe
<1>3. /\ items \in Seq(Rows) /\ walked \in Seq(Rows) /\ page \in Nat \ {0}
      /\ size \in Nat \ {0} /\ Offset \in Nat /\ Offset + size = page * size
  BY <1>1, <1>2, ReachedType, QueryFields DEF WalkInv, Walking
<1>4. /\ walked' \in Seq(Rows) /\ Len(walked') = Len(walked) + Len(items)
      /\ \A i \in 1..(Len(walked) + Len(items)) :
            walked'[i] = IF i <= Len(walked) THEN walked[i] ELSE items[i - Len(walked)]
      /\ Len(walked) \in Nat /\ Len(items) \in Nat
  BY <1>2, <1>3, ConcatProperties, LenProperties
<1>5. TableInv' /\ WalkInv'
  BY <1>1, <1>2, <1>3, <1>4 DEF TableInv, WalkInv
<1>6. total \in Nat
  <2>1. Selected(now) \in SUBSET tasks
    BY DEF Selected
  <2> QED BY <1>1, <2>1, FiniteTable
<1>7. /\ Walking' <=> page * size < total
      /\ Walking' => page' = page + 1 /\ Offset' = page * size
  <2>1. page < Pages(total) <=> page * size < total
    <3> HIDE DEF total
    <3> QED BY <1>3, <1>6, PagesReachTotal
  <2>2. \A p, s \in Nat : ((p + 1) - 1) * s = p * s
    OBVIOUS
  <2>3. page' = page + 1 => Offset' = page * size
    BY <1>2, <1>3, <2>2 DEF Offset
  <2> QED BY <1>2, <1>3, <2>1, <2>3 DEF Walking
<1>8. /\ \A at, t : Matches(t, query, at)' = Matches(t, query, at)
      /\ \A s, t : Precedes(s, t)' = Precedes(s, t)
  BY <1>2 DEF Matches, Overdue, NotOverdue, Precedes, KeyBefore, Key
<1> HIDE DEF total, size
<1>9. KeptInv'
  <2> SUFFICES ASSUME NEW k \in kept'
               PROVE  /\ Walking' => \E t \in Seen' : t.id = k /\
                            (k \in Read' \/ Reached' <= Place(t, Seen)')
                      /\ ~Walking' => k \in Read'
    BY DEF KeptInv
  <2>1. PICK t \in Seen : t.id = k /\ (k \in Read \/ page * size <= Place(t, Seen))
    <3>1. Reached = page * size
      BY <1>2, <1>3 DEF Reached, size
    <3> QED BY <1>1, <1>2, <3>1 DEF KeptInv
  <2>2. Read \subseteq Read'
    <3>1. ToSet(walked) \subseteq ToSet(walked')
      <4> SUFFICES ASSUME NEW i \in DOMAIN walked PROVE walked[i] \in ToSet(walked')
        BY DEF ToSet
      <4>1. i \in 1..(Len(walked) + Len(items)) /\ i <= Len(walked)
        BY <1>3, <1>4, LenProperties
      <4>2. i \in DOMAIN walked' /\ walked'[i] = walked[i]
        BY <1>4, <4>1, LenProperties
      <4> QED BY <4>2 DEF ToSet
    <3>2. ToSet(items) \subseteq ToSet(walked')
      <4> SUFFICES ASSUME NEW i \in DOMAIN items PROVE items[i] \in ToSet(walked')
        BY DEF ToSet
      <4>1. /\ i \in Nat /\ Len(walked) + i \in 1..(Len(walked) + Len(items))
            /\ ~(Len(walked) + i <= Len(walked)) /\ (Len(walked) + i) - Len(walked) = i
        BY <1>3, <1>4, LenProperties
      <4>2. Len(walked) + i \in DOMAIN walked' /\ walked'[Len(walked) + i] = items[i]
        BY <1>4, <4>1, LenProperties
      <4> QED BY <4>2 DEF ToSet
    <3> QED BY <1>2, <3>1, <3>2 DEF Read, Ids
  <2>3. PICK u \in Seen' : /\ u.id = k /\ Place(u, Seen)' \in Nat
                           /\ Place(t, Seen) <= Place(u, Seen)'
    BY <1>1, <1>2, <1>5, <2>1, KeptPlaces
  <2>4. CASE k \in Read
    BY <2>2, <2>3, <2>4
  <2>5. CASE page * size <= Place(t, Seen)
    <3>1. Seen = Selected(now) /\ Seen \in SUBSET tasks
      BY <1>2 DEF Seen, Selected
    <3>2. Place(t, Seen) \in Nat /\ Place(t, Seen) < total
      BY <1>1, <3>1, Places DEF total
    <3>3. page * size \in Nat
      BY <1>3
    <3>4. page * size < total
      BY <1>6, <2>5, <3>2, <3>3
    <3>5. Walking' /\ Reached' = page * size
      BY <1>2, <1>7, <3>4 DEF Reached
    <3>6. Reached' <= Place(u, Seen)'
      BY <2>3, <2>5, <3>2, <3>3, <3>5
    <3> QED BY <2>3, <3>5, <3>6
  <2> QED BY <2>1, <2>4, <2>5
<1>10. QuietInv'
  <2> SUFFICES ASSUME changes = 0, clock = 1 PROVE QuietInv'
    BY <1>2 DEF QuietInv
  <2>1. /\ now = 1 /\ Placed(walked, 0) /\ Len(walked) = Lower(Offset, total)
        /\ Placed(items, Offset)
        /\ Len(items) = Lower(Offset + size, total) - Lower(Offset, total)
    BY <1>1, <1>2 DEF QuietInv, total, size
  <2>2. Selected(1)' = Selected(1) /\ total = Cardinality(Selected(1))
    BY <1>2, <1>8, <2>1 DEF Selected, total
  <2>3. \A t : Place(t, Selected(1))' = Place(t, Selected(1))
    BY <1>8, <2>2 DEF Place, Preceding
  <2>4. Len(walked') = Lower(Offset + size, total)
    BY <1>3, <1>4, <1>6, <2>1 DEF Lower
  <2>5. ASSUME NEW i \in 1..Len(walked')
        PROVE  walked'[i] \in Selected(1) /\ Place(walked'[i], Selected(1)) = 0 + (i - 1)
    <3>1. CASE i <= Len(walked)
      <4>1. i \in 1..Len(walked) /\ walked'[i] = walked[i]
        BY <1>4, <2>5, <3>1
      <4> QED BY <2>1, <4>1 DEF Placed
    <3>2. CASE ~(i <= Len(walked))
      <4>1. /\ i - Len(walked) \in 1..Len(items) /\ walked'[i] = items[i - Len(walked)]
            /\ Len(items) > 0
        BY <1>4, <2>5, <3>2
      <4>2. Len(walked) = Offset
        BY <1>3, <1>6, <2>1, <4>1 DEF Lower
      <4>3. Offset + ((i - Len(walked)) - 1) = 0 + (i - 1)
        BY <1>3, <2>5, <4>2
      <4> QED BY <2>1, <4>1, <4>3 DEF Placed
    <3> QED BY <3>1, <3>2
  <2>6. Placed(walked, 0)'
    BY <2>2, <2>3, <2>5 DEF Placed
  <2>7. Len(walked') = IF Walking' THEN Lower(Offset', total) ELSE total
    <3>1. page * size \in Nat
      BY <1>3
    <3> QED BY <1>3, <1>6, <1>7, <2>4, <3>1 DEF Lower
  <2> QED BY <1>2, <2>1, <2>2, <2>6, <2>7 DEF QuietInv
<1> QED BY <1>5, <1>9, <1>10 DEF PagesInv

-----------------------------------------------------------------------------
\* The walk begins with everything ahead.
LEMMA InitPagesInv == Init => PagesInv
PROOF
<1> SUFFICES ASSUME Init PROVE PagesInv
  OBVIOUS
<1>1. /\ clock = 1 /\ now = 1 /\ query \in Queries /\ page = 1 /\ items = Null
      /\ walked = <<>> /\ changes = 0 /\ kept = Ids(Selected(1))
  BY AskedAssumption DEF Init
<1>2. PICK ids \in SUBSET TaskIds : \E shape \in [ids -> Shapes] :
         tasks = {Row(id, shape[id]) : id \in ids}
  BY DEF Init
<1>3. PICK shape \in [ids -> Shapes] : tasks = {Row(id, shape[id]) : id \in ids}
  BY <1>2
<1>4. tasks \subseteq Rows /\ \A s, t \in tasks : s.id = t.id => s = t
  <2>1. \A id \in ids : Row(id, shape[id]) \in Rows
    BY <1>3, ShapesAssumption DEF Rows
  <2>2. \A id \in ids : Row(id, shape[id]).id = id
    BY DEF Row
  <2> QED BY <1>3, <2>1, <2>2
<1>5. kept \subseteq TaskIds
  BY <1>1, <1>4, RowsAreRecords DEF Ids, Selected, RowFields
<1>6. TableInv /\ WalkInv
  <2>1. walked \in Seq(Rows)
    BY <1>1, EmptySeq
  <2>2. clock \in 1..MAX_CLOCK /\ now \in Nat /\ changes \in Nat /\ page \in Nat
    BY <1>1, DomainsAssumption
  <2> QED BY <1>1, <1>4, <1>5, <2>1, <2>2 DEF TableInv, WalkInv
<1>7. Offset = 0 /\ Walking
  <2>1. query.page_size \in Nat
    BY <1>6, QueryFields
  <2>2. \A s \in Nat : (1 - 1) * s = 0
    OBVIOUS
  <2> QED BY <1>1, <2>1, <2>2 DEF Offset, Walking
<1>8. KeptInv
  <2>1. Seen = Selected(1) /\ Reached = 0
    BY <1>1, <1>7 DEF Seen, Selected, Reached
  <2>2. \A t \in Seen : Reached <= Place(t, Seen)
    BY <1>6, <2>1, SeenPlaces DEF SeenPlaced
  <2> QED BY <1>1, <1>7, <2>1, <2>2 DEF KeptInv, Ids
<1>9. QuietInv
  <2>1. Cardinality(Selected(1)) \in Nat
    <3>1. Selected(1) \in SUBSET tasks
      BY DEF Selected
    <3> QED BY <1>6, <3>1, FiniteTable
  <2>2. Len(walked) = 0
    BY <1>1
  <2>3. Placed(walked, 0)
    BY <2>2 DEF Placed
  <2> QED BY <1>1, <1>7, <2>1, <2>2, <2>3 DEF QuietInv, Lower
<1> QED BY <1>6, <1>8, <1>9 DEF PagesInv

\* Every step keeps the invariant.
LEMMA NextPagesInv == PagesInv /\ [Next]_vars => PagesInv'
PROOF
<1> SUFFICES ASSUME PagesInv, [Next]_vars PROVE PagesInv'
  OBVIOUS
<1>1. TableInv /\ WalkInv /\ KeptInv /\ QuietInv
  BY DEF PagesInv
<1>2. CASE Tick \/ Writes
  <2>1. TableInv' /\ UNCHANGED <<query, walk>> /\ ~(changes' = 0 /\ clock' = 1)
    BY <1>1, <1>2, Changed
  <2>2. page' = page /\ items' = items /\ walked' = walked
    BY <2>1 DEF walk
  <2>3. WalkInv'
    BY <1>1, <2>2 DEF WalkInv, Walking
  <2>4. KeptInv'
    BY <1>1, <1>2, ChangedKeptHolds
  <2>5. QuietInv'
    BY <2>1 DEF QuietInv
  <2> QED BY <2>1, <2>3, <2>4, <2>5 DEF PagesInv
<1>3. CASE ListPage
  BY <1>3, ListPageHolds
<1>4. CASE CountRows
  BY <1>4, CountRowsHolds
<1>5. CASE UNCHANGED vars
  <2>1. /\ clock' = clock /\ tasks' = tasks /\ query' = query /\ page' = page /\ now' = now
        /\ items' = items /\ walked' = walked /\ changes' = changes /\ kept' = kept
    BY <1>5 DEF vars
  <2>2. /\ Offset' = Offset /\ Walking' = Walking
        /\ \A at, t : Matches(t, query, at)' = Matches(t, query, at)
        /\ \A s, t : Precedes(s, t)' = Precedes(s, t)
    BY <2>1 DEF Offset, Walking, Matches, Overdue, NotOverdue, Precedes, KeyBefore, Key
  <2>3. Selected(1)' = Selected(1) /\ Seen' = Seen /\ Read' = Read /\ Reached' = Reached
    BY <2>1, <2>2 DEF Selected, Seen, Read, Reached
  <2>4. \A t : /\ Place(t, Selected(1))' = Place(t, Selected(1))
               /\ Place(t, Seen)' = Place(t, Seen)
    BY <2>2, <2>3 DEF Place, Preceding
  <2>5. TableInv' /\ WalkInv'
    BY <1>1, <2>1, <2>2 DEF TableInv, WalkInv
  <2>6. KeptInv'
    BY <1>1, <2>1, <2>2, <2>3, <2>4 DEF KeptInv
  <2>7. QuietInv'
    BY <1>1, <2>1, <2>2, <2>3, <2>4 DEF QuietInv, Placed
  <2> QED BY <2>5, <2>6, <2>7 DEF PagesInv
<1> QED BY <1>2, <1>3, <1>4, <1>5 DEF Next, Writes

\* The invariant holds in every reachable state.
THEOREM PagesInvariant == Spec => []PagesInv
PROOF
<1> QED BY InitPagesInv, NextPagesInv, PTL DEF Spec

\* For all tasks, times and page sizes, and whatever is created, patched,
\* completed and deleted and however often: a task that stayed in the list,
\* with all that was before it still before it, is on one of the pages.
THEOREM OnlyDisplacedAreSkipped == Spec => []OnlyDisplacedTasksAreSkipped
PROOF
<1>1. PagesInv => OnlyDisplacedTasksAreSkipped
  <2> SUFFICES ASSUME PagesInv, page = 0, NEW k \in kept
               PROVE  k \in Ids(ToSet(walked))
    BY DEF OnlyDisplacedTasksAreSkipped
  <2>1. ~Walking /\ items = Null
    BY DEF Walking, PagesInv, WalkInv
  <2> QED BY <2>1 DEF PagesInv, KeptInv, Read
<1> QED BY <1>1, PagesInvariant, PTL

\* The pages of a walk during which nothing changes hold every matching task,
\* each once, in the order that was asked for.
THEOREM QuietWalksAreExact == Spec => []QuietWalkIsExact
PROOF
<1>1. PagesInv => QuietWalkIsExact
  <2> SUFFICES ASSUME PagesInv, page = 0, changes = 0, clock = 1
               PROVE  /\ ToSet(walked) = Selected(now)
                      /\ IsInjective(walked)
                      /\ \A i, j \in DOMAIN walked : i < j => ~KeyBefore(walked[j], walked[i])
    BY DEF QuietWalkIsExact
  <2> DEFINE S == Selected(1)
             n == Cardinality(S)
  <2>1. ~Walking
    BY DEF Walking
  <2>2. now = 1 /\ Placed(walked, 0) /\ Len(walked) = n /\ TableInv /\ walked \in Seq(Rows)
    BY <2>1 DEF PagesInv, QuietInv, WalkInv
  <2>3. S \in SUBSET tasks
    BY DEF Selected
  <2>4. IsFiniteSet(S) /\ n \in Nat
    BY <2>2, <2>3, FiniteTable
  <2> HIDE DEF n
  <2>5. /\ DOMAIN walked = 1..n
        /\ \A i \in 1..n : walked[i] \in S /\ Place(walked[i], S) = i - 1
    BY <2>2, <2>4, LenProperties DEF Placed
  <2> HIDE DEF S
  <2>6. \A i, j \in 1..n : walked[i] = walked[j] => i = j
    BY <2>4, <2>5
  <2>7. walked \in Injection(1..n, S)
    <3>1. walked \in [1..n -> S]
      <4>1. walked \in [1..n -> Rows]
        BY <2>2, LenProperties
      <4> QED BY <2>5, <4>1
    <3> QED BY <2>5, <2>6, <3>1 DEF Injection, IsInjective
  <2>8. walked \in Surjection(1..n, S)
    <3>1. Cardinality(1..n) = n
      BY <2>4, FS_Interval
    <3> QED BY <2>4, <2>7, <3>1, FS_Injection DEF n
  <2>9. ToSet(walked) = S
    BY <2>5, <2>8 DEF ToSet, Surjection
  <2>10. ASSUME NEW i \in DOMAIN walked, NEW j \in DOMAIN walked, i < j,
                KeyBefore(walked[j], walked[i])
         PROVE  FALSE
    <3>1. Precedes(walked[j], walked[i])
      BY <2>10 DEF Precedes
    <3>2. Place(walked[j], S) < Place(walked[i], S)
      BY <2>2, <2>3, <2>5, <3>1, Places
    <3>3. Place(walked[j], S) = j - 1 /\ Place(walked[i], S) = i - 1
      BY <2>5
    <3> QED BY <2>4, <2>5, <2>10, <3>2, <3>3
  <2>11. IsInjective(walked)
    BY <2>5, <2>6 DEF IsInjective
  <2> QED BY <2>2, <2>9, <2>10, <2>11 DEF S
<1> QED BY <1>1, PagesInvariant, PTL

=============================================================================
