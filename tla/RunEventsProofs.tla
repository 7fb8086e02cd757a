-------------------------- MODULE RunEventsProofs --------------------------
(***************************************************************************)
(* Proofs about the event stream, for any executions, revisions and clock: *)
(* a stream with a terminal event is the final account of the run.         *)
(***************************************************************************)
EXTENDS RunEvents, FiniteSetTheorems, SequenceTheorems, TLAPS

-----------------------------------------------------------------------------
(***************************************************************************)
(* Ranks in a finite set with a strict total order, given as the elements  *)
(* before each element.                                                    *)
(***************************************************************************)

TotallyOrders(before, S) ==
    /\ before \in [S -> SUBSET S]
    /\ \A x \in S : x \notin before[x]
    /\ \A x, y \in S : y \in before[x] => before[y] \subseteq before[x]
    /\ \A x, y \in S : x # y => x \in before[y] \/ y \in before[x]

\* Every position is the rank of one element.
LEMMA Ranks ==
    ASSUME NEW S, IsFiniteSet(S), NEW before, TotallyOrders(before, S)
    PROVE  /\ \A x \in S : /\ IsFiniteSet(before[x])
                           /\ Cardinality(before[x]) \in 0..(Cardinality(S) - 1)
           /\ \A x, y \in S : y \in before[x] => Cardinality(before[y]) < Cardinality(before[x])
           /\ \A x, y \in S : Cardinality(before[x]) = Cardinality(before[y]) => x = y
           /\ \A n \in 1..Cardinality(S) : \E x \in S : Cardinality(before[x]) = n - 1
PROOF
<1> DEFINE size == Cardinality(S)
           rank == [x \in S |-> Cardinality(before[x])]
<1>1. /\ before \in [S -> SUBSET S] /\ \A x \in S : x \notin before[x]
      /\ \A x, y \in S : y \in before[x] => before[y] \subseteq before[x]
      /\ \A x, y \in S : x # y => x \in before[y] \/ y \in before[x]
  BY DEF TotallyOrders
<1>2. size \in Nat
  BY FS_CardinalityType
<1>3. ASSUME NEW x \in S
      PROVE  IsFiniteSet(before[x]) /\ Cardinality(before[x]) \in 0..(size - 1)
  <2>1. IsFiniteSet(S \ {x}) /\ Cardinality(S \ {x}) = size - 1
    BY FS_RemoveElement
  <2>2. before[x] \in SUBSET (S \ {x})
    BY <1>1
  <2>3. IsFiniteSet(before[x]) /\ Cardinality(before[x]) <= size - 1
    BY <2>1, <2>2, FS_Subset
  <2>4. Cardinality(before[x]) \in Nat
    BY <2>3, FS_CardinalityType
  <2> QED BY <1>2, <2>3, <2>4
<1>4. ASSUME NEW x \in S, NEW y \in S, y \in before[x]
      PROVE  Cardinality(before[y]) < Cardinality(before[x])
  <2>1. before[y] \in SUBSET before[x] /\ before[y] # before[x]
    BY <1>1, <1>4
  <2>2. IsFiniteSet(before[x])
    BY <1>3
  <2>3. /\ Cardinality(before[y]) <= Cardinality(before[x])
        /\ Cardinality(before[x]) # Cardinality(before[y])
    BY <2>1, <2>2, FS_Subset
  <2>4. Cardinality(before[x]) \in Nat /\ Cardinality(before[y]) \in Nat
    BY <1>3
  <2> QED BY <2>3, <2>4
<1>5. ASSUME NEW x \in S, NEW y \in S, Cardinality(before[x]) = Cardinality(before[y])
      PROVE  x = y
  <2> SUFFICES ASSUME x # y PROVE FALSE
    OBVIOUS
  <2>1. Cardinality(before[x]) \in Nat /\ Cardinality(before[y]) \in Nat
    BY <1>3
  <2>2. \/ Cardinality(before[x]) < Cardinality(before[y])
        \/ Cardinality(before[y]) < Cardinality(before[x])
    BY <1>1, <1>4
  <2> QED BY <1>5, <2>1, <2>2
<1>6. rank \in Injection(S, 0..(size - 1))
  BY <1>3, <1>5 DEF Injection, IsInjective
<1>7. IsFiniteSet(0..(size - 1)) /\ Cardinality(0..(size - 1)) = size
  <2>1. 0 \in Int /\ size - 1 \in Int
    BY <1>2
  <2> HIDE DEF size
  <2> QED BY <1>2, <2>1, FS_Interval
<1>8. rank \in Surjection(S, 0..(size - 1))
  BY <1>6, <1>7, FS_Injection
<1>9. ASSUME NEW n \in 1..size PROVE \E x \in S : Cardinality(before[x]) = n - 1
  <2>1. n - 1 \in 0..(size - 1)
    BY <1>2
  <2>2. \E x \in S : rank[x] = n - 1
    BY <1>8, <2>1 DEF Surjection
  <2> QED BY <2>2
<1> QED BY <1>3, <1>4, <1>5, <1>9

-----------------------------------------------------------------------------
(***************************************************************************)
(* The inductive invariant.                                                *)
(***************************************************************************)

RunRows == [status : Statuses, updated_at : Nat]
ApprovalRows == [decision : Decisions \cup {"PENDING"}, created_at : Nat]
ExecutionRows ==
    [status : {"IN_PROGRESS"}, started_at : Nat, completed_at : {None}]
    \cup [status : Outcomes, started_at : Nat, completed_at : Nat]
Histories == [Tools -> ExecutionRows \cup {None}]

RowTypes ==
    /\ clock \in Nat /\ run \in RunRows
    /\ approvals \in Seq(ApprovalRows) /\ approvals # <<>>
    /\ executions \in Histories

Over(r) == r.status \in TERMINAL_RUN_STATUSES

\* No row is younger than at.
NotAfter(at, asked, xs) ==
    /\ \A i \in 1..Len(asked) : asked[i].created_at <= at
    /\ \A t \in Tools : xs[t] # None =>
          /\ xs[t].started_at <= at
          /\ xs[t].status \in Outcomes => xs[t].completed_at <= at

\* The clock does not go back, and the row of a run that is over is the last
\* that was written.
TimesInv ==
    /\ run.updated_at <= clock
    /\ NotAfter(IF Over(run) THEN run.updated_at ELSE clock, approvals, executions)

\* What a request has read of a run that was over is what the rows are.
ReaderInv ==
    /\ reader \in [at : {"idle", "approvals", "executions"}, run : RunRows \cup {None},
                   approvals : Seq(ApprovalRows) \cup {None}]
    /\ reader.at # "idle" => reader.run \in RunRows /\ (Over(reader.run) => reader.run = run)
    /\ reader.at = "executions" =>
          /\ reader.approvals \in Seq(ApprovalRows)
          /\ Over(reader.run) => reader.approvals = approvals

StreamInv ==
    IsTerminal(stream) => Over(run) /\ stream = Build(run, approvals, executions)

StreamsInv == RowTypes /\ TimesInv /\ ReaderInv /\ StreamInv

-----------------------------------------------------------------------------
(***************************************************************************)
(* The projection.                                                         *)
(***************************************************************************)

\* The draft with an order and a key, if there is one.
DraftAt(r, asked, xs, order, key) ==
    IF order = 10 THEN Draft(r.updated_at, 10, 0, "run_status", r.status)
    ELSE IF order = 20 THEN Draft(r.updated_at, 20, 0, "node_status", None)
    ELSE IF order = 80 THEN Draft(r.updated_at, 80, 0, "metrics", None)
    ELSE IF order = 90 /\ Over(r)
    THEN Draft(r.updated_at, 90, 0, "terminal_result", r.status)
    ELSE IF order = 90 THEN Draft(r.updated_at, 90, 0, "heartbeat", None)
    ELSE IF order = 25 THEN Draft(asked[key].created_at, 25, key, "approval_required", None)
    ELSE IF order = 30 THEN Draft(xs[key].started_at, 30, key, "tool_started", None)
    ELSE Draft(xs[key].completed_at, 40, key,
               IF xs[key].status = "COMPLETED" THEN "tool_result" ELSE "safe_error", None)

\* Order and key tell the drafts apart.
LEMMA DraftForms ==
    ASSUME NEW r, NEW asked, NEW xs, NEW d \in AllDrafts(r, asked, xs)
    PROVE  /\ d = DraftAt(r, asked, xs, d.order, d.stable_key)
           /\ \/ d.order \in {10, 20, 80, 90} /\ d.stable_key = 0
              \/ d.order = 25 /\ d.stable_key \in DOMAIN asked
              \/ d.order = 30 /\ d.stable_key \in Tools /\ xs[d.stable_key] # None
              \/ /\ d.order = 40 /\ d.stable_key \in Tools
                 /\ xs[d.stable_key] # None /\ xs[d.stable_key].status \in Outcomes
PROOF
<1>1. CASE d \in RunDrafts(r)
  <2>1. CASE d = Draft(r.updated_at, 10, 0, "run_status", r.status)
    BY <2>1 DEF Draft, DraftAt
  <2>2. CASE d = Draft(r.updated_at, 20, 0, "node_status", None)
    BY <2>2 DEF Draft, DraftAt
  <2>3. CASE d = Draft(r.updated_at, 80, 0, "metrics", None)
    BY <2>3 DEF Draft, DraftAt
  <2>4. CASE d = Draft(r.updated_at, 90, 0, "terminal_result", r.status) /\ Over(r)
    BY <2>4 DEF Draft, DraftAt
  <2>5. CASE d = Draft(r.updated_at, 90, 0, "heartbeat", None) /\ ~Over(r)
    BY <2>5 DEF Draft, DraftAt
  <2> QED BY <1>1, <2>1, <2>2, <2>3, <2>4, <2>5 DEF RunDrafts, TerminalOrder, Over
<1>2. CASE d \in ApprovalDrafts(asked)
  <2>1. PICK i \in DOMAIN asked : d = Draft(asked[i].created_at, 25, i, "approval_required", None)
    BY <1>2 DEF ApprovalDrafts
  <2>2. d.order = 25 /\ d.stable_key = i
    BY <2>1 DEF Draft
  <2>3. DraftAt(r, asked, xs, 25, i) = Draft(asked[i].created_at, 25, i, "approval_required", None)
    BY DEF DraftAt
  <2> QED BY <2>1, <2>2, <2>3
<1>3. CASE d \in UNION {ExecutionDrafts(t, xs[t]) : t \in {u \in Tools : xs[u] # None}}
  <2>1. PICK t \in Tools : xs[t] # None /\ d \in ExecutionDrafts(t, xs[t])
    BY <1>3
  <2> DEFINE kind == IF xs[t].status = "COMPLETED" THEN "tool_result" ELSE "safe_error"
  <2>2. CASE d = Draft(xs[t].started_at, 30, t, "tool_started", None)
    <3>1. d.order = 30 /\ d.stable_key = t
      BY <2>2 DEF Draft
    <3>2. DraftAt(r, asked, xs, 30, t) = d
      BY <2>2 DEF DraftAt
    <3> QED BY <2>1, <3>1, <3>2
  <2>3. CASE d = Draft(xs[t].completed_at, 40, t, kind, None) /\ xs[t].status \in Outcomes
    <3>1. d.order = 40 /\ d.stable_key = t
      BY <2>3 DEF Draft
    <3>2. DraftAt(r, asked, xs, 40, t) = d
      BY <2>3 DEF DraftAt
    <3> QED BY <2>1, <2>3, <3>1, <3>2
  <2> QED BY <2>1, <2>2, <2>3 DEF ExecutionDrafts
<1> QED BY <1>1, <1>2, <1>3 DEF AllDrafts

\* The numbers of the rows.
LEMMA RowNumbers ==
    ASSUME NEW r \in RunRows, NEW asked \in Seq(ApprovalRows), NEW xs \in Histories
    PROVE  /\ r.status \in Statuses /\ r.updated_at \in Nat
           /\ DOMAIN asked = 1..Len(asked) /\ Len(asked) \in Nat
           /\ \A i \in 1..Len(asked) : i \in Nat /\ asked[i].created_at \in Nat
           /\ \A t \in Tools : xs[t] # None =>
                 /\ t \in Nat /\ xs[t].started_at \in Nat
                 /\ xs[t].status \in Outcomes => xs[t].completed_at \in Nat
PROOF
<1>1. ASSUME NEW i \in 1..Len(asked) PROVE i \in Nat /\ asked[i].created_at \in Nat
  <2>1. asked[i] \in ApprovalRows /\ Len(asked) \in Nat
    BY ElementOfSeq, LenProperties
  <2> QED BY <2>1 DEF ApprovalRows
<1>2. ASSUME NEW t \in Tools, xs[t] # None
      PROVE  /\ t \in Nat /\ xs[t].started_at \in Nat
             /\ xs[t].status \in Outcomes => xs[t].completed_at \in Nat
  <2>1. xs[t] \in ExecutionRows
    BY <1>2 DEF Histories
  <2> QED BY <2>1, ToolsAssumption DEF ExecutionRows, Outcomes
<1>3. r.status \in Statuses /\ r.updated_at \in Nat
  BY DEF RunRows
<1> QED BY <1>1, <1>2, <1>3, LenProperties

\* Drafts have numbers to be sorted by, and only a run that is over has a
\* terminal one.
LEMMA DraftsDiffer ==
    ASSUME NEW r \in RunRows, NEW asked \in Seq(ApprovalRows), NEW xs \in Histories
    PROVE  /\ \A d \in AllDrafts(r, asked, xs) :
                 /\ d.occurred_at \in Nat /\ d.order \in Nat /\ d.stable_key \in Nat
                 /\ d.kind = "terminal_result" => Over(r)
           /\ \A d, e \in AllDrafts(r, asked, xs) :
                 d.order = e.order /\ d.stable_key = e.stable_key => d = e
PROOF
<1>1. ASSUME NEW d \in AllDrafts(r, asked, xs)
      PROVE  /\ d.occurred_at \in Nat /\ d.order \in Nat /\ d.stable_key \in Nat
             /\ d.kind = "terminal_result" => Over(r)
  <2> DEFINE key == d.stable_key
  <2>1. d = DraftAt(r, asked, xs, d.order, key)
    BY DraftForms
  <2>2. CASE d.order \in {10, 20, 80, 90} /\ key = 0
    <3>1. d.occurred_at = r.updated_at /\ (d.kind = "terminal_result" => Over(r))
      BY <2>1, <2>2 DEF DraftAt, Draft
    <3> QED BY <2>2, <3>1, RowNumbers
  <2>3. CASE d.order = 25 /\ key \in DOMAIN asked
    <3>1. d.occurred_at = asked[key].created_at /\ d.kind # "terminal_result"
      BY <2>1, <2>3 DEF DraftAt, Draft
    <3> QED BY <2>3, <3>1, RowNumbers
  <2>4. CASE d.order = 30 /\ key \in Tools /\ xs[key] # None
    <3>1. d.occurred_at = xs[key].started_at /\ d.kind # "terminal_result"
      BY <2>1, <2>4 DEF DraftAt, Draft
    <3> QED BY <2>4, <3>1, RowNumbers
  <2>5. CASE d.order = 40 /\ key \in Tools /\ xs[key] # None /\ xs[key].status \in Outcomes
    <3>1. d.occurred_at = xs[key].completed_at /\ d.kind # "terminal_result"
      BY <2>1, <2>5 DEF DraftAt, Draft
    <3> QED BY <2>5, <3>1, RowNumbers
  <2> QED BY <2>2, <2>3, <2>4, <2>5, DraftForms
<1>2. ASSUME NEW d \in AllDrafts(r, asked, xs), NEW e \in AllDrafts(r, asked, xs),
             d.order = e.order, d.stable_key = e.stable_key
      PROVE  d = e
  BY <1>2, DraftForms
<1> QED BY <1>1, <1>2

\* Who is before a draft.
Earlier(drafts) == [d \in drafts |-> {e \in drafts : Precedes(e, d)}]

\* Drafts are finitely many and ordered.
LEMMA DraftsAreOrdered ==
    ASSUME NEW r \in RunRows, NEW asked \in Seq(ApprovalRows), NEW xs \in Histories
    PROVE  LET drafts == AllDrafts(r, asked, xs)
           IN  IsFiniteSet(drafts) /\ TotallyOrders(Earlier(drafts), drafts)
PROOF
<1> DEFINE drafts == AllDrafts(r, asked, xs)
<1>1. IsFiniteSet(RunDrafts(r))
  <2> DEFINE last == IF r.status \in TERMINAL_RUN_STATUSES
                     THEN Draft(r.updated_at, TerminalOrder, 0, "terminal_result", r.status)
                     ELSE Draft(r.updated_at, 90, 0, "heartbeat", None)
             one == Draft(r.updated_at, 10, 0, "run_status", r.status)
             two == Draft(r.updated_at, 20, 0, "node_status", None)
             three == Draft(r.updated_at, 80, 0, "metrics", None)
  <2>1. RunDrafts(r) = (({one} \cup {two}) \cup {three}) \cup {last}
    BY DEF RunDrafts
  <2> HIDE DEF one, two, three, last
  <2>2. IsFiniteSet({one})
    BY FS_Singleton
  <2>3. IsFiniteSet({one} \cup {two})
    BY <2>2, FS_AddElement
  <2>4. IsFiniteSet(({one} \cup {two}) \cup {three})
    BY <2>3, FS_AddElement
  <2> QED BY <2>1, <2>4, FS_AddElement
<1>2. IsFiniteSet(ApprovalDrafts(asked))
  <2> DEFINE pending == {j \in DOMAIN asked : asked[j].decision = "PENDING"}
             D(i) == Draft(asked[i].created_at, 25, i, "approval_required", None)
  <2>1. IsFiniteSet(DOMAIN asked)
    <3>1. DOMAIN asked = 1..Len(asked) /\ 1 \in Int /\ Len(asked) \in Int
      BY LenProperties
    <3> QED BY <3>1, FS_Interval
  <2>2. IsFiniteSet(pending)
    <3>1. pending \in SUBSET DOMAIN asked
      OBVIOUS
    <3> QED BY <2>1, <3>1, FS_Subset
  <2>3. ApprovalDrafts(asked) = {D(i) : i \in pending}
    BY DEF ApprovalDrafts
  <2>4. [i \in pending |-> D(i)] \in Surjection(pending, {D(i) : i \in pending})
    BY DEF Surjection
  <2> HIDE DEF D, pending
  <2> QED BY <2>2, <2>3, <2>4, FS_Surjection
<1>3. IsFiniteSet(UNION {ExecutionDrafts(t, xs[t]) : t \in {u \in Tools : xs[u] # None}})
  <2> DEFINE begun == {u \in Tools : xs[u] # None}
             D(t) == ExecutionDrafts(t, xs[t])
  <2>1. IsFiniteSet(begun)
    BY ToolsAssumption, FS_Subset
  <2>2. ASSUME NEW t PROVE IsFiniteSet(D(t))
    <3> DEFINE one == Draft(xs[t].started_at, 30, t, "tool_started", None)
               two == Draft(xs[t].completed_at, 40, t,
                            IF xs[t].status = "COMPLETED" THEN "tool_result" ELSE "safe_error",
                            None)
    <3>1. D(t) \in SUBSET ({one} \cup {two})
      BY DEF ExecutionDrafts
    <3> HIDE DEF one, two, D
    <3>2. IsFiniteSet({one} \cup {two})
      BY FS_Singleton, FS_AddElement
    <3> QED BY <3>1, <3>2, FS_Subset
  <2> HIDE DEF begun, D
  <2>3. IsFiniteSet({D(t) : t \in begun})
    <3>1. [t \in begun |-> D(t)] \in Surjection(begun, {D(t) : t \in begun})
      BY DEF Surjection
    <3> QED BY <2>1, <3>1, FS_Surjection
  <2>4. IsFiniteSet(UNION {D(t) : t \in begun})
    BY <2>2, <2>3, FS_UNION
  <2> QED BY <2>4 DEF begun, D
<1>4. IsFiniteSet(drafts)
  BY <1>1, <1>2, <1>3, FS_Union DEF AllDrafts
<1>5. /\ \A d \in drafts : d.occurred_at \in Nat /\ d.order \in Nat /\ d.stable_key \in Nat
      /\ \A d, e \in drafts : d.order = e.order /\ d.stable_key = e.stable_key => d = e
  BY DraftsDiffer
<1> HIDE DEF drafts
<1>6. TotallyOrders(Earlier(drafts), drafts)
  BY <1>5 DEF TotallyOrders, Earlier, Precedes
<1> QED BY <1>4, <1>6 DEF drafts

\* The projection lists every draft at its rank.
LEMMA BuildLists ==
    ASSUME NEW r \in RunRows, NEW asked \in Seq(ApprovalRows), NEW xs \in Histories
    PROVE  LET drafts == AllDrafts(r, asked, xs)
               built == Build(r, asked, xs)
           IN  /\ Cardinality(drafts) \in Nat
               /\ built \in Seq(drafts) /\ Len(built) = Cardinality(drafts)
               /\ \A n \in 1..Cardinality(drafts) :
                     Cardinality(Earlier(drafts)[built[n]]) = n - 1
PROOF
<1> DEFINE drafts == AllDrafts(r, asked, xs)
           built == Build(r, asked, xs)
           size == Cardinality(drafts)
<1>1. IsFiniteSet(drafts) /\ TotallyOrders(Earlier(drafts), drafts)
  BY DraftsAreOrdered
<1>2. size \in Nat
  BY <1>1, FS_CardinalityType
<1>3. \A n \in 1..size : \E d \in drafts : Cardinality(Earlier(drafts)[d]) = n - 1
  <2> HIDE DEF drafts
  <2> QED BY <1>1, Ranks
<1>4. built = [n \in 1..size |->
                  CHOOSE d \in drafts : Cardinality({e \in drafts : Precedes(e, d)}) = n - 1]
  BY DEF Build
<1> HIDE DEF drafts, built, size
<1>5. \A d \in drafts : Earlier(drafts)[d] = {e \in drafts : Precedes(e, d)}
  BY DEF Earlier
<1>6. ASSUME NEW n \in 1..size
      PROVE  built[n] \in drafts /\ Cardinality(Earlier(drafts)[built[n]]) = n - 1
  <2>1. \E d \in drafts : Cardinality({e \in drafts : Precedes(e, d)}) = n - 1
    BY <1>3, <1>5
  <2>2. built[n] = CHOOSE d \in drafts : Cardinality({e \in drafts : Precedes(e, d)}) = n - 1
    BY <1>4
  <2>3. /\ built[n] \in drafts
        /\ Cardinality({e \in drafts : Precedes(e, built[n])}) = n - 1
    BY <2>1, <2>2
  <2> QED BY <1>5, <2>3
<1>7. built \in [1..size -> drafts]
  BY <1>4, <1>6
<1>8. built \in Seq(drafts) /\ Len(built) = size
  BY <1>2, <1>7, IsASeq, LenProperties
<1> QED BY <1>2, <1>6, <1>8 DEF drafts, built, size

\* The terminal event of a run that is over comes after every other.
LEMMA TerminalIsLast ==
    ASSUME NEW r \in RunRows, NEW asked \in Seq(ApprovalRows), NEW xs \in Histories,
           Over(r), NotAfter(r.updated_at, asked, xs)
    PROVE  Last(Build(r, asked, xs)).kind = "terminal_result"
PROOF
<1> DEFINE drafts == AllDrafts(r, asked, xs)
           built == Build(r, asked, xs)
           size == Cardinality(drafts)
           final == Draft(r.updated_at, 90, 0, "terminal_result", r.status)
<1>1. final \in drafts /\ DraftAt(r, asked, xs, 90, 0) = final
  BY DEF AllDrafts, RunDrafts, TerminalOrder, Over, DraftAt
<1>2. final.occurred_at = r.updated_at /\ final.order = 90 /\ final.kind = "terminal_result"
  BY DEF Draft
<1>3. ASSUME NEW e \in drafts, e # final PROVE Precedes(e, final)
  <2> DEFINE key == e.stable_key
  <2>1. e = DraftAt(r, asked, xs, e.order, key) /\ e.occurred_at \in Nat
    BY DraftForms, DraftsDiffer
  <2>2. r.updated_at \in Nat
    BY RowNumbers
  <2>3. CASE e.order \in {10, 20, 80, 90} /\ key = 0
    <3>1. e.order # 90
      BY <1>1, <1>3, <2>1, <2>3
    <3>2. e.occurred_at = r.updated_at
      BY <2>1, <2>3 DEF DraftAt, Draft
    <3> QED BY <1>2, <2>3, <3>1, <3>2 DEF Precedes
  <2>4. CASE e.order = 25 /\ key \in DOMAIN asked
    <3>1. e.occurred_at = asked[key].created_at
      BY <2>1, <2>4 DEF DraftAt, Draft
    <3>2. e.occurred_at <= r.updated_at
      BY <2>4, <3>1, RowNumbers DEF NotAfter
    <3> QED BY <1>2, <2>1, <2>2, <2>4, <3>2 DEF Precedes
  <2>5. CASE e.order = 30 /\ key \in Tools /\ xs[key] # None
    <3>1. e.occurred_at = xs[key].started_at
      BY <2>1, <2>5 DEF DraftAt, Draft
    <3>2. e.occurred_at <= r.updated_at
      BY <2>5, <3>1 DEF NotAfter
    <3> QED BY <1>2, <2>1, <2>2, <2>5, <3>2 DEF Precedes
  <2>6. CASE e.order = 40 /\ key \in Tools /\ xs[key] # None /\ xs[key].status \in Outcomes
    <3>1. e.occurred_at = xs[key].completed_at
      BY <2>1, <2>6 DEF DraftAt, Draft
    <3>2. e.occurred_at <= r.updated_at
      BY <2>6, <3>1 DEF NotAfter
    <3> QED BY <1>2, <2>1, <2>2, <2>6, <3>2 DEF Precedes
  <2> QED BY <2>3, <2>4, <2>5, <2>6, DraftForms
<1>4. /\ IsFiniteSet(drafts) /\ TotallyOrders(Earlier(drafts), drafts)
      /\ size \in Nat /\ built \in Seq(drafts) /\ Len(built) = size
      /\ \A n \in 1..size : Cardinality(Earlier(drafts)[built[n]]) = n - 1
  BY DraftsAreOrdered, BuildLists
<1> HIDE DEF drafts, built, final
<1>5. Earlier(drafts)[final] = drafts \ {final}
  <2>1. final \notin Earlier(drafts)[final]
    BY <1>1, <1>4 DEF TotallyOrders
  <2>2. Earlier(drafts)[final] = {e \in drafts : Precedes(e, final)}
    BY <1>1 DEF Earlier
  <2> QED BY <1>3, <2>1, <2>2
<1>6. Cardinality(Earlier(drafts)[final]) = size - 1
  <2>1. Cardinality(drafts \ {final}) = Cardinality(drafts) - 1
    BY <1>1, <1>4, FS_RemoveElement
  <2> QED BY <1>5, <2>1
<1>7. size \in 1..size
  <2>1. drafts # {}
    BY <1>1
  <2>2. size # 0
    BY <1>4, <2>1, FS_EmptySet
  <2> HIDE DEF size
  <2> QED BY <1>4, <2>2
<1>8. Cardinality(Earlier(drafts)[built[size]]) = size - 1
  BY <1>4, <1>7
<1>9. built[size] \in drafts
  BY <1>4, <1>7, ElementOfSeq
<1>10. \A x, y \in drafts :
          Cardinality(Earlier(drafts)[x]) = Cardinality(Earlier(drafts)[y]) => x = y
  BY <1>4, Ranks
<1>11. built[size] = final
  BY <1>1, <1>6, <1>8, <1>9, <1>10
<1> QED BY <1>2, <1>4, <1>11 DEF Last, built, final

-----------------------------------------------------------------------------
(***************************************************************************)
(* Every step keeps the invariant.                                         *)
(***************************************************************************)

\* A run has been started and nobody reads.
LEMMA InitStreamsInv == Init => StreamsInv
PROOF
<1> SUFFICES ASSUME Init PROVE StreamsInv
  OBVIOUS
<1>1. PICK at \in 0..1 : approvals = <<[decision |-> "PENDING", created_at |-> at]>>
  BY DEF Init
<1>2. /\ clock = 1 /\ run = [status |-> "PENDING_APPROVAL", updated_at |-> 1]
      /\ executions = [t \in Tools |-> None] /\ reader = Idle /\ stream = <<>>
  BY DEF Init
<1>3. RowTypes
  BY <1>1, <1>2 DEF RowTypes, RunRows, Statuses, ApprovalRows, Histories
<1>4. TimesInv
  BY <1>1, <1>2 DEF TimesInv, NotAfter, Over, TERMINAL_RUN_STATUSES
<1>5. ReaderInv
  BY <1>2 DEF ReaderInv, Idle
<1>6. StreamInv
  BY <1>2 DEF StreamInv, IsTerminal
<1> QED BY <1>3, <1>4, <1>5, <1>6 DEF StreamsInv

\* A write to a run that is not over: nobody has read that it was.
LEMMA WritesKeep ==
    ASSUME StreamsInv, ~Over(run), UNCHANGED client, RowTypes', TimesInv'
    PROVE  StreamsInv'
PROOF
<1>1. reader' = reader /\ stream' = stream
  BY DEF client
<1>2. ReaderInv /\ StreamInv
  BY DEF StreamsInv
<1>3. reader.at # "idle" => reader.run \in RunRows /\ ~Over(reader.run)
  BY <1>2 DEF ReaderInv
<1>4. ReaderInv'
  BY <1>1, <1>2, <1>3 DEF ReaderInv, Over
<1>5. StreamInv'
  BY <1>1, <1>2 DEF StreamInv, IsTerminal
<1> QED BY <1>4, <1>5 DEF StreamsInv

\* A step that changes none of the three rows.
LEMMA ReadsKeep ==
    ASSUME StreamsInv, UNCHANGED <<run, approvals, executions>>,
           clock' \in Nat, clock' >= clock, ReaderInv', StreamInv'
    PROVE  StreamsInv'
PROOF
<1>1. run' = run /\ approvals' = approvals /\ executions' = executions
  OBVIOUS
<1>2. RowTypes /\ TimesInv
  BY DEF StreamsInv
<1>3. RowTypes'
  BY <1>1, <1>2 DEF RowTypes
<1>4. /\ run.updated_at \in Nat /\ clock \in Nat /\ Len(approvals) \in Nat
      /\ \A i \in 1..Len(approvals) : approvals[i].created_at \in Nat
      /\ \A t \in Tools : executions[t] # None =>
            /\ executions[t].started_at \in Nat
            /\ executions[t].status \in Outcomes => executions[t].completed_at \in Nat
  <2>1. /\ clock \in Nat /\ run \in RunRows /\ approvals \in Seq(ApprovalRows)
        /\ executions \in Histories
    BY <1>2 DEF RowTypes
  <2> QED BY <2>1, RowNumbers
<1>5. TimesInv'
  <2>1. CASE Over(run)
    BY <1>1, <1>2, <1>4, <2>1 DEF TimesInv, Over, NotAfter
  <2>2. CASE ~Over(run)
    <3>1. NotAfter(clock, approvals, executions) /\ run.updated_at <= clock
      BY <1>2, <2>2 DEF TimesInv
    <3>2. \A n \in Nat : n <= clock => n <= clock'
      BY <1>4
    <3>3. \A i \in 1..Len(approvals) : approvals[i].created_at <= clock'
      BY <1>4, <3>1, <3>2 DEF NotAfter
    <3>4. ASSUME NEW t \in Tools, executions[t] # None
          PROVE  /\ executions[t].started_at <= clock'
                 /\ executions[t].status \in Outcomes => executions[t].completed_at <= clock'
      BY <1>4, <3>1, <3>2, <3>4 DEF NotAfter
    <3>5. run.updated_at <= clock'
      BY <1>4, <3>1, <3>2
    <3> QED BY <1>1, <2>2, <3>3, <3>4, <3>5 DEF TimesInv, Over, NotAfter
  <2> QED BY <2>1, <2>2
<1> QED BY <1>3, <1>5 DEF StreamsInv

\* Time passes, or a handler dies.
LEMMA QuietStepsHold ==
    ASSUME StreamsInv, Tick \/ (\E t \in Tools : Die(t)) \/ UNCHANGED vars
    PROVE  StreamsInv'
PROOF
<1>1. /\ run' = run /\ approvals' = approvals /\ executions' = executions
      /\ reader' = reader /\ stream' = stream /\ (clock' = clock \/ clock' = clock + 1)
  BY DEF Tick, Die, rows, client, vars
<1>2. clock \in Nat /\ ReaderInv /\ StreamInv
  BY DEF StreamsInv, RowTypes
<1>3. ReaderInv' /\ StreamInv'
  BY <1>1, <1>2 DEF ReaderInv, StreamInv, IsTerminal
<1> QED BY <1>1, <1>2, <1>3, ReadsKeep

\* What holds before a write to a run that is not over.
LEMMA Unsettled ==
    ASSUME StreamsInv, ~Over(run)
    PROVE  /\ clock \in Nat /\ run \in RunRows /\ approvals \in Seq(ApprovalRows)
           /\ Len(approvals) \in Nat \ {0} /\ executions \in Histories
           /\ run.updated_at <= clock /\ NotAfter(clock, approvals, executions)
PROOF
<1>1. RowTypes /\ TimesInv
  BY DEF StreamsInv
<1>2. Len(approvals) \in Nat \ {0}
  BY <1>1, EmptySeq DEF RowTypes
<1> QED BY <1>1, <1>2 DEF RowTypes, TimesInv

\* A decision, or the end of the run: the row of the run is the youngest.
LEMMA RunWritesHold ==
    ASSUME StreamsInv, Finish \/ \E decision \in Decisions : Decide(decision)
    PROVE  StreamsInv'
PROOF
<1>1. /\ clock' = clock /\ executions' = executions /\ UNCHANGED client
      /\ ~Over(run)
  BY DEF Finish, Decide, Over, TERMINAL_RUN_STATUSES
<1>2. /\ clock \in Nat /\ run \in RunRows /\ approvals \in Seq(ApprovalRows)
      /\ Len(approvals) \in Nat \ {0} /\ executions \in Histories
      /\ NotAfter(clock, approvals, executions)
  BY <1>1, Unsettled
<1>3. PICK status \in Statuses : run' = [status |-> status, updated_at |-> clock]
  BY DEF Finish, Decide, SetRun, Statuses
<1>4. run' \in RunRows /\ run'.updated_at = clock
  BY <1>2, <1>3 DEF RunRows
<1>5. /\ approvals' \in Seq(ApprovalRows) /\ Len(approvals') = Len(approvals)
      /\ \A i \in 1..Len(approvals) : approvals'[i].created_at = approvals[i].created_at
  <2>1. CASE Finish
    BY <1>2, <2>1 DEF Finish
  <2>2. ASSUME NEW decision \in Decisions, Decide(decision)
        PROVE  /\ approvals' \in Seq(ApprovalRows) /\ Len(approvals') = Len(approvals)
               /\ \A i \in 1..Len(approvals) :
                     approvals'[i].created_at = approvals[i].created_at
    <3> DEFINE n == Len(approvals)
               row == [approvals[n] EXCEPT !.decision = decision]
    <3>1. n \in 1..n
      BY <1>2
    <3>2. approvals[n] \in ApprovalRows
      BY <1>2, <3>1, ElementOfSeq
    <3>3. row \in ApprovalRows /\ row.created_at = approvals[n].created_at
      BY <3>2 DEF ApprovalRows
    <3>4. approvals' = [approvals EXCEPT ![n] = row]
      BY <2>2 DEF Decide
    <3> HIDE DEF row
    <3>5. /\ approvals' \in Seq(ApprovalRows) /\ Len(approvals') = n
          /\ \A i \in 1..n : approvals'[i] = IF i = n THEN row ELSE approvals[i]
      BY <1>2, <3>1, <3>3, <3>4, ExceptSeq
    <3> QED BY <3>3, <3>5
  <2> QED BY <2>1, <2>2
<1>6. RowTypes'
  <2>1. approvals' # <<>>
    BY <1>2, <1>5, EmptySeq
  <2> QED BY <1>1, <1>2, <1>4, <1>5, <2>1 DEF RowTypes
<1>7. NotAfter(clock, approvals', executions)
  BY <1>2, <1>5 DEF NotAfter
<1>8. TimesInv'
  BY <1>1, <1>2, <1>4, <1>7 DEF TimesInv, NotAfter, Over
<1> QED BY <1>1, <1>6, <1>8, WritesKeep

\* The next revision of the plan.
LEMMA AskAgainHolds ==
    ASSUME StreamsInv, AskAgain PROVE StreamsInv'
PROOF
<1>1. /\ clock' = clock /\ executions' = executions /\ UNCHANGED client
      /\ run' = [status |-> "PENDING_APPROVAL", updated_at |-> clock] /\ ~Over(run)
  BY DEF AskAgain, SetRun, Over, TERMINAL_RUN_STATUSES
<1>2. /\ clock \in Nat /\ run \in RunRows /\ approvals \in Seq(ApprovalRows)
      /\ Len(approvals) \in Nat \ {0} /\ executions \in Histories
      /\ NotAfter(clock, approvals, executions)
  BY <1>1, Unsettled
<1>3. PICK at \in run.updated_at..clock :
         approvals' = Append(approvals, [decision |-> "PENDING", created_at |-> at])
  BY DEF AskAgain
<1>4. at \in Nat /\ at <= clock
  <2>1. run.updated_at \in Nat
    BY <1>2 DEF RunRows
  <2> QED BY <1>2, <2>1
<1> DEFINE row == [decision |-> "PENDING", created_at |-> at]
<1>5. row \in ApprovalRows /\ row.created_at <= clock
  BY <1>4 DEF ApprovalRows
<1> HIDE DEF row
<1>6. /\ approvals' \in Seq(ApprovalRows) /\ Len(approvals') = Len(approvals) + 1
      /\ \A i \in 1..Len(approvals) : approvals'[i] = approvals[i]
      /\ approvals'[Len(approvals) + 1] = row
  BY <1>2, <1>3, <1>5, AppendProperties DEF row
<1>7. RowTypes'
  <2>1. approvals' # <<>>
    BY <1>2, <1>6, EmptySeq
  <2>2. run' \in RunRows
    BY <1>1, <1>2 DEF RunRows, Statuses
  <2> QED BY <1>1, <1>2, <1>6, <2>1, <2>2 DEF RowTypes
<1>8. NotAfter(clock, approvals', executions)
  <2>1. \A i \in 1..(Len(approvals) + 1) : i \in 1..Len(approvals) \/ i = Len(approvals) + 1
    BY <1>2
  <2> QED BY <1>2, <1>5, <1>6, <2>1 DEF NotAfter
<1>9. TimesInv'
  BY <1>1, <1>2, <1>8 DEF TimesInv, NotAfter, Over, TERMINAL_RUN_STATUSES
<1> QED BY <1>1, <1>7, <1>9, WritesKeep

\* The coordinator writes the row of an execution while the run is RUNNING.
LEMMA ExecutionWritesHold ==
    ASSUME StreamsInv, NEW t \in Tools,
           Claim(t) \/ Restart(t) \/ \E status \in Outcomes : End(t, status)
    PROVE  StreamsInv'
PROOF
<1>1. /\ clock' = clock /\ run' = run /\ approvals' = approvals /\ UNCHANGED client
      /\ ~Over(run)
  BY DEF Claim, Restart, End, Executing, Over, TERMINAL_RUN_STATUSES
<1>2. /\ clock \in Nat /\ run \in RunRows /\ approvals \in Seq(ApprovalRows)
      /\ Len(approvals) \in Nat \ {0} /\ executions \in Histories
      /\ run.updated_at <= clock /\ NotAfter(clock, approvals, executions)
  BY <1>1, Unsettled
<1>3. PICK row \in ExecutionRows :
         /\ executions' = [executions EXCEPT ![t] = row]
         /\ row.started_at <= clock
         /\ row.status \in Outcomes => row.completed_at <= clock
  <2>1. CASE Claim(t) \/ Restart(t)
    <3>1. executions' = [executions EXCEPT ![t] = Started]
      BY <2>1 DEF Claim, Restart
    <3>2. /\ Started \in ExecutionRows /\ Started.started_at <= clock
          /\ Started.status \notin Outcomes
      BY <1>2 DEF Started, ExecutionRows, Outcomes
    <3> QED BY <3>1, <3>2
  <2>2. ASSUME NEW status \in Outcomes, End(t, status)
        PROVE  \E row \in ExecutionRows :
                  /\ executions' = [executions EXCEPT ![t] = row]
                  /\ row.started_at <= clock
                  /\ row.status \in Outcomes => row.completed_at <= clock
    <3> DEFINE row == [status |-> status, started_at |-> executions[t].started_at,
                       completed_at |-> clock]
    <3>1. executions[t] # None /\ executions[t].status = "IN_PROGRESS"
      BY <2>2 DEF End, Running
    <3>2. executions[t] \in ExecutionRows
      BY <1>2, <3>1 DEF Histories
    <3>3. executions[t].started_at \in Nat /\ executions[t].started_at <= clock
      BY <1>2, <3>1, <3>2 DEF ExecutionRows, NotAfter
    <3>4. row \in ExecutionRows /\ row.started_at <= clock /\ row.completed_at <= clock
      BY <1>2, <3>3 DEF ExecutionRows
    <3>5. executions' = [executions EXCEPT ![t] = row]
      <4>1. executions' = [executions EXCEPT ![t].status = status, ![t].completed_at = clock]
        BY <2>2 DEF End
      <4>2. /\ DOMAIN executions' = Tools /\ \A u \in Tools \ {t} : executions'[u] = executions[u]
            /\ executions' = [u \in Tools |-> executions'[u]]
        BY <1>2, <4>1 DEF Histories
      <4>3. executions'[t] = row
        BY <1>2, <3>2, <4>1 DEF Histories, ExecutionRows
      <4> HIDE DEF row
      <4> QED BY <1>2, <4>2, <4>3 DEF Histories
    <3> QED BY <3>4, <3>5
  <2> QED BY <2>1, <2>2
<1>4. /\ executions' \in Histories /\ executions'[t] = row
      /\ \A u \in Tools \ {t} : executions'[u] = executions[u]
  BY <1>2, <1>3 DEF Histories
<1>5. NotAfter(clock, approvals, executions')
  BY <1>2, <1>3, <1>4 DEF NotAfter
<1>6. RowTypes'
  BY <1>1, <1>2, <1>4, EmptySeq DEF RowTypes
<1>7. TimesInv'
  BY <1>1, <1>2, <1>5 DEF TimesInv, NotAfter, Over
<1> QED BY <1>1, <1>6, <1>7, WritesKeep

\* The first two statements of a request.
LEMMA ReadsHold ==
    ASSUME StreamsInv, ReadRun \/ ReadApprovals PROVE StreamsInv'
PROOF
<1>1. /\ clock' = clock /\ run' = run /\ approvals' = approvals /\ executions' = executions
      /\ stream' = stream
  BY DEF ReadRun, ReadApprovals, rows
<1>2. clock \in Nat /\ run \in RunRows /\ approvals \in Seq(ApprovalRows)
      /\ ReaderInv /\ StreamInv
  BY DEF StreamsInv, RowTypes
<1>3. CASE ReadRun
  <2>1. reader' = [reader EXCEPT !.at = "approvals", !.run = run]
    BY <1>3 DEF ReadRun
  <2>2. reader \in [at : {"idle", "approvals", "executions"}, run : RunRows \cup {None},
                    approvals : Seq(ApprovalRows) \cup {None}]
    BY <1>2 DEF ReaderInv
  <2>3. ReaderInv'
    BY <1>1, <1>2, <2>1, <2>2 DEF ReaderInv
  <2>4. StreamInv'
    BY <1>1, <1>2 DEF StreamInv, IsTerminal
  <2> QED BY <1>1, <1>2, <2>3, <2>4, ReadsKeep
<1>4. CASE ReadApprovals
  <2>1. reader' = [reader EXCEPT !.at = "executions", !.approvals = approvals]
        /\ reader.at = "approvals"
    BY <1>4 DEF ReadApprovals
  <2>2. /\ reader \in [at : {"idle", "approvals", "executions"}, run : RunRows \cup {None},
                       approvals : Seq(ApprovalRows) \cup {None}]
        /\ reader.run \in RunRows /\ (Over(reader.run) => reader.run = run)
    BY <1>2, <2>1 DEF ReaderInv
  <2>3. ReaderInv'
    BY <1>1, <1>2, <2>1, <2>2 DEF ReaderInv, Over
  <2>4. StreamInv'
    BY <1>1, <1>2 DEF StreamInv, IsTerminal
  <2> QED BY <1>1, <1>2, <2>3, <2>4, ReadsKeep
<1> QED BY <1>3, <1>4

\* The last statement and the projection.
LEMMA ReadExecutionsHolds ==
    ASSUME StreamsInv, ReadExecutions PROVE StreamsInv'
PROOF
<1>1. /\ clock' = clock /\ run' = run /\ approvals' = approvals /\ executions' = executions
      /\ stream' = Build(reader.run, reader.approvals, executions)
      /\ reader' = Idle /\ reader.at = "executions"
  BY DEF ReadExecutions, Deliver, rows
<1>2. /\ clock \in Nat /\ executions \in Histories
      /\ reader.run \in RunRows /\ reader.approvals \in Seq(ApprovalRows)
      /\ Over(reader.run) => reader.run = run /\ reader.approvals = approvals
  BY <1>1 DEF StreamsInv, RowTypes, ReaderInv
<1>3. ReaderInv'
  BY <1>1 DEF ReaderInv, Idle
<1>4. ASSUME IsTerminal(stream') PROVE Over(reader.run)
  <2> DEFINE drafts == AllDrafts(reader.run, reader.approvals, executions)
  <2>1. stream' \in Seq(drafts)
    BY <1>1, <1>2, BuildLists
  <2>2. PICK i \in DOMAIN stream' : stream'[i].kind = "terminal_result"
    BY <1>4 DEF IsTerminal
  <2>3. stream'[i] \in drafts
    <3> HIDE DEF drafts
    <3>1. i \in 1..Len(stream')
      BY <2>1, <2>2, LenProperties
    <3> QED BY <2>1, <3>1, ElementOfSeq
  <2> QED BY <1>2, <2>2, <2>3, DraftsDiffer
<1>5. StreamInv'
  <2> SUFFICES ASSUME IsTerminal(stream')
               PROVE  Over(run') /\ stream' = Build(run', approvals', executions')
    BY DEF StreamInv, IsTerminal, Over, Build, AllDrafts, RunDrafts, ApprovalDrafts
  <2> QED BY <1>1, <1>2, <1>4
<1> QED BY <1>1, <1>2, <1>3, <1>5, ReadsKeep

\* Every step keeps the invariant.
LEMMA NextStreamsInv ==
    ASSUME StreamsInv, [Next]_vars PROVE StreamsInv'
PROOF
<1>1. CASE Tick \/ (\E t \in Tools : Die(t)) \/ UNCHANGED vars
  BY <1>1, QuietStepsHold
<1>2. CASE Finish \/ \E decision \in Decisions : Decide(decision)
  BY <1>2, RunWritesHold
<1>3. CASE AskAgain
  BY <1>3, AskAgainHolds
<1>4. ASSUME NEW t \in Tools, Claim(t) \/ Restart(t) \/ \E status \in Outcomes : End(t, status)
      PROVE  StreamsInv'
  BY <1>4, ExecutionWritesHold
<1>5. CASE ReadRun \/ ReadApprovals
  BY <1>5, ReadsHold
<1>6. CASE ReadExecutions
  BY <1>6, ReadExecutionsHolds
<1> QED BY <1>1, <1>2, <1>3, <1>4, <1>5, <1>6 DEF Next

\* The invariant of the rows and their readers holds in every reachable state.
THEOREM StreamsInvariant == Spec => []StreamsInv
PROOF
<1> QED BY InitStreamsInv, NextStreamsInv, PTL DEF Spec

\* A stream with a terminal event ends with it and is what the rows say at
\* any later time: three statements without a common snapshot suffice, since
\* get_owned_agent_events reads the run first and nothing is written to a run
\* that is over.
THEOREM TerminalStreamsAreFinal == Spec => []TerminalStreamIsFinal
PROOF
<1>1. ASSUME StreamsInv PROVE TerminalStreamIsFinal
  <2> SUFFICES ASSUME IsTerminal(stream)
               PROVE  /\ Last(stream).kind = "terminal_result"
                      /\ stream = Build(run, approvals, executions)
    BY DEF TerminalStreamIsFinal
  <2>1. Over(run) /\ stream = Build(run, approvals, executions)
    BY <1>1 DEF StreamsInv, StreamInv
  <2>2. /\ run \in RunRows /\ approvals \in Seq(ApprovalRows) /\ executions \in Histories
        /\ NotAfter(run.updated_at, approvals, executions)
    BY <1>1, <2>1 DEF StreamsInv, RowTypes, TimesInv
  <2> QED BY <2>1, <2>2, TerminalIsLast
<1> QED BY <1>1, StreamsInvariant, PTL

=============================================================================
