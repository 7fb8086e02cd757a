------------------------ MODULE ModelRequestsProofs ------------------------
(***************************************************************************)
(* Proofs about the two ways to a plan: the bounded tool-calling loop, and *)
(* the planning node with its prompt.                                      *)
(*                                                                         *)
(* What the recursive functions of the models compute is proved by         *)
(* induction over sets of numbers, from the well-foundedness of <.         *)
(***************************************************************************)
EXTENDS ModelRequests, WellFoundedInduction, SequenceTheorems, TLAPS

-----------------------------------------------------------------------------
(***************************************************************************)
(* Induction and recursion.                                                *)
(***************************************************************************)

\* A set with 0 and the successors of its numbers has all of them.
LEMMA NatSetInduction ==
    ASSUME NEW T, 0 \in T, \A n \in Nat : n \in T => n + 1 \in T
    PROVE  Nat \subseteq T
PROOF
<1> DEFINE Missing == Nat \ T
           Less == OpToRel(<, Nat)
<1>1. SUFFICES ASSUME Missing # {} PROVE FALSE
  OBVIOUS
<1>2. IsWellFoundedOn(Less, Nat)
  BY NatLessThanWellFounded
<1> HIDE DEF Less
<1>3. PICK x \in Missing : \A y \in Missing : <<y, x>> \notin Less
  <2>1. Missing \subseteq Nat
    OBVIOUS
  <2> HIDE DEF Missing
  <2> QED BY <1>1, <1>2, <2>1, WFMin
<1>4. x # 0 /\ x - 1 \in Nat
  BY <1>3
<1>5. <<x - 1, x>> \in Less
  BY <1>4, <1>3 DEF Less, OpToRel
<1>6. x - 1 \in Missing
  BY <1>4
<1> QED BY <1>3, <1>5, <1>6

\* The same up to a number.
LEMMA IntervalInduction ==
    ASSUME NEW n \in Nat, NEW T, 0 \in T,
           \A i \in 1..n : i - 1 \in T => i \in T
    PROVE  0..n \subseteq T
PROOF
<1> DEFINE Good == {i \in Nat : i <= n => i \in T}
<1>1. 0 \in Good
  OBVIOUS
<1>2. \A i \in Nat : i \in Good => i + 1 \in Good
  <2> SUFFICES ASSUME NEW i \in Nat, i \in Good, i + 1 <= n PROVE i + 1 \in T
    OBVIOUS
  <2>1. i + 1 \in 1..n /\ (i + 1) - 1 = i /\ i \in T
    OBVIOUS
  <2> QED BY <2>1
<1>3. Nat \subseteq Good
  <2> HIDE DEF Good
  <2> QED BY <1>1, <1>2, NatSetInduction
<1> QED BY <1>3

GoAlike(f, g, n) ==
    f[0] = g[0] /\ \A i \in 1..n : f[i - 1] = g[i - 1] => f[i] = g[i]
Alike(f, g, n) == \A i \in 0..n : f[i] = g[i]

\* Two families of values that start alike and go on alike are alike.
LEMMA SameValues ==
    ASSUME NEW n \in Nat, NEW f, NEW g, GoAlike(f, g, n)
    PROVE  Alike(f, g, n)
PROOF
<1> USE DEF GoAlike, Alike
<1> DEFINE T == {i \in 0..n : f[i] = g[i]}
<1>1. 0 \in T /\ \A i \in 1..n : i - 1 \in T => i \in T
  OBVIOUS
<1>2. 0..n \subseteq T
  <2> HIDE DEF T
  <2> QED BY <1>1, IntervalInduction
<1> QED BY <1>2

\* A value of S for each number up to n, from the value of the one before.
Steps(S) == [Nat -> [S -> S]]
Computable(S, first, step, n) ==
    \E g \in [0..n -> S] :
        g[0] = first /\ \A i \in 1..n : g[i] = step[i][g[i - 1]]

\* Values that depend on the one before exist, as many as are asked for.
LEMMA PrimitiveRecursion ==
    ASSUME NEW S, NEW first \in S, NEW step \in Steps(S), NEW n \in Nat
    PROVE  Computable(S, first, step, n)
PROOF
<1> USE DEF Computable, Steps
<1> SUFFICES \A k \in Nat : Computable(S, first, step, k)
  <2> HIDE DEF Computable, Steps
  <2> QED OBVIOUS
<1> DEFINE Computes(k, g) == g[0] = first /\ \A i \in 1..k : g[i] = step[i][g[i - 1]]
           Good == {k \in Nat : \E g \in [0..k -> S] : Computes(k, g)}
<1>1. 0 \in Good
  <2>1. [i \in 0..0 |-> first] \in [0..0 -> S] /\ Computes(0, [i \in 0..0 |-> first])
    OBVIOUS
  <2> QED BY <2>1
<1>2. \A k \in Nat : k \in Good => k + 1 \in Good
  <2> SUFFICES ASSUME NEW k \in Nat, k \in Good PROVE k + 1 \in Good
    OBVIOUS
  <2>1. PICK g \in [0..k -> S] : Computes(k, g)
    OBVIOUS
  <2> DEFINE h == [i \in 0..(k + 1) |-> IF i = k + 1 THEN step[i][g[k]] ELSE g[i]]
  <2>2. h \in [0..(k + 1) -> S]
    OBVIOUS
  <2>3. h[0] = first
    BY <2>1
  <2>4. ASSUME NEW i \in 1..(k + 1) PROVE h[i] = step[i][h[i - 1]]
    <3>1. CASE i = k + 1
      BY <3>1
    <3>2. CASE i # k + 1
      <4>1. i \in 1..k /\ i - 1 \in 0..k /\ i - 1 # k + 1 /\ i - 1 \in 0..(k + 1)
        BY <3>2
      <4> QED BY <2>1, <4>1
    <3> QED BY <3>1, <3>2
  <2>5. Computes(k + 1, h)
    BY <2>3, <2>4
  <2> HIDE DEF h, Computes
  <2> QED BY <2>2, <2>5
<1>3. Nat \subseteq Good
  <2> HIDE DEF Good
  <2> QED BY <1>1, <1>2, NatSetInduction
<1> QED BY <1>3

-----------------------------------------------------------------------------
(***************************************************************************)
(* Sequences of sequences laid end to end.                                 *)
(***************************************************************************)

\* What FlattenSeq computes, one sequence after the other.
Laid(seqs, flat) ==
    \A i \in 1..Len(seqs) :
        flat[i] = IF i = 1 THEN seqs[i] ELSE flat[i - 1] \o seqs[i]

\* FlattenSeq is the last of its partial results, which are sequences.
LEMMA FlattenIsLaid ==
    ASSUME NEW S, NEW seqs \in Seq(Seq(S)), seqs # <<>>
    PROVE  \E flat \in [1..Len(seqs) -> Seq(S)] :
              Laid(seqs, flat) /\ FlattenSeq(seqs) = flat[Len(seqs)]
PROOF
<1> DEFINE n == Len(seqs)
<1>0. n \in Nat \ {0} /\ seqs \in [1..n -> Seq(S)]
  BY EmptySeq, LenProperties
<1> DEFINE step == [i \in Nat |-> [s \in Seq(S) |->
                      IF i \in 1..n THEN s \o seqs[i] ELSE s]]
<1>1. step \in [Nat -> [Seq(S) -> Seq(S)]] /\ <<>> \in Seq(S)
  BY <1>0
<1>2. \E g \in [0..n -> Seq(S)] :
         g[0] = <<>> /\ \A i \in 1..n : g[i] = step[i][g[i - 1]]
  <2> DEFINE All == Seq(S)
             none == <<>>
  <2>1. step \in Steps(All) /\ none \in All /\ n \in Nat
    BY <1>0, <1>1 DEF Steps
  <2>2. Computable(All, none, step, n)
    <3> HIDE DEF step, n, All, none
    <3> QED BY <2>1, PrimitiveRecursion
  <2> QED BY <2>2 DEF Computable
<1>3. PICK g \in [0..n -> Seq(S)] :
         g[0] = <<>> /\ \A i \in 1..n : g[i] = step[i][g[i - 1]]
  BY <1>2
<1> DEFINE h == [i \in 1..n |-> g[i]]
           From(f) == [i \in 1..n |-> IF i = 1 THEN seqs[i] ELSE f[i - 1] \o seqs[i]]
           flatten == CHOOSE f : f = From(f)
<1>4. h = From(h)
  <2>1. ASSUME NEW i \in 1..n
        PROVE  h[i] = IF i = 1 THEN seqs[i] ELSE h[i - 1] \o seqs[i]
    <3>0. i - 1 \in 0..n /\ i \in Nat
      <4> HIDE DEF n
      <4> QED BY <1>0
    <3>1. g[i - 1] \in Seq(S) /\ seqs[i] \in Seq(S)
      <4> HIDE DEF n
      <4> QED BY <1>0, <1>3, <3>0
    <3>2. g[i] = g[i - 1] \o seqs[i]
      BY <1>3, <3>0, <3>1
    <3>3. CASE i = 1
      <4>1. g[i - 1] = <<>>
        BY <1>3, <3>3
      <4>2. <<>> \o seqs[i] = seqs[i]
        BY <3>1
      <4> QED BY <3>2, <4>1, <4>2, <3>3
    <3>4. CASE i # 1
      <4>1. i - 1 \in 1..n
        BY <3>4
      <4> QED BY <3>2, <4>1, <3>4
    <3> QED BY <3>3, <3>4
  <2> QED BY <2>1
<1>5. flatten = From(flatten)
  <2> HIDE DEF From, h
  <2> QED BY <1>4
<1>6. flatten = h
  <2>1. ASSUME NEW i \in 0..n PROVE i = 0 \/ flatten[i] = h[i]
    <3> DEFINE T == {j \in Nat : j = 0 \/ flatten[j] = h[j]}
    <3>1. 0 \in T
      OBVIOUS
    <3>2. \A j \in 1..n : j - 1 \in T => j \in T
      <4> SUFFICES ASSUME NEW j \in 1..n, j - 1 \in T PROVE flatten[j] = h[j]
        <5> HIDE DEF flatten, h, n
        <5> QED BY <1>0
      <4> HIDE DEF flatten, h
      <4>1. flatten[j] = From(flatten)[j] /\ h[j] = From(h)[j]
        BY <1>4, <1>5
      <4> QED BY <4>1
    <3>3. 0..n \subseteq T
      <4> HIDE DEF T, n
      <4> QED BY <1>0, <3>1, <3>2, IntervalInduction
    <3> QED BY <3>3
  <2>2. flatten = [i \in 1..n |-> flatten[i]]
    <3> HIDE DEF flatten
    <3> QED BY <1>5
  <2>3. \A i \in 1..n : flatten[i] = h[i]
    <3> HIDE DEF flatten, h
    <3> QED BY <2>1, <1>0
  <2> HIDE DEF flatten
  <2> QED BY <2>2, <2>3
<1>7. FlattenSeq(seqs) = flatten[n]
  BY <1>0 DEF FlattenSeq
<1>8. h \in [1..n -> Seq(S)] /\ Laid(seqs, h)
  <2>1. h \in [1..n -> Seq(S)]
    BY <1>3, <1>0
  <2> HIDE DEF h
  <2> QED BY <2>1, <1>4 DEF Laid
<1> QED BY <1>6, <1>7, <1>8

\* One sequence more is laid at the end.
LEMMA FlattenAppend ==
    ASSUME NEW S, NEW seqs \in Seq(Seq(S)), NEW last \in Seq(S)
    PROVE  /\ FlattenSeq(seqs) \in Seq(S)
           /\ FlattenSeq(Append(seqs, last)) = FlattenSeq(seqs) \o last
PROOF
<1> DEFINE n == Len(seqs)
           more == Append(seqs, last)
<1>1. /\ n \in Nat /\ more \in Seq(Seq(S)) /\ more # <<>> /\ Len(more) = n + 1
      /\ \A i \in 1..n : more[i] = seqs[i]
      /\ more[n + 1] = last
  BY AppendProperties, LenProperties
<1>2. PICK g \in [1..(n + 1) -> Seq(S)] :
         Laid(more, g) /\ FlattenSeq(more) = g[n + 1]
  <2> HIDE DEF more, n
  <2> QED BY <1>1, FlattenIsLaid
<1>3. CASE seqs = <<>>
  <2>1. FlattenSeq(seqs) = <<>> /\ n = 0
    BY <1>3 DEF FlattenSeq
  <2>2. g[1] = last
    <3> HIDE DEF more, n
    <3> QED BY <1>1, <1>2, <2>1 DEF Laid
  <2>3. FlattenSeq(more) = last
    <3> HIDE DEF more, n
    <3> QED BY <1>2, <2>1, <2>2
  <2>4. <<>> \o last = last /\ <<>> \in Seq(S)
    OBVIOUS
  <2> QED BY <2>1, <2>3, <2>4
<1>4. CASE seqs # <<>>
  <2>1. PICK f \in [1..n -> Seq(S)] : Laid(seqs, f) /\ FlattenSeq(seqs) = f[n]
    <3> HIDE DEF more
    <3> QED BY <1>1, <1>4, FlattenIsLaid
  <2>2. n # 0
    BY <1>4, EmptySeq
  <2> DEFINE T == {j \in Nat : j = 0 \/ f[j] = g[j]}
  <2>3. \A j \in 1..n : j - 1 \in T => j \in T
    <3> SUFFICES ASSUME NEW j \in 1..n, j - 1 \in T PROVE f[j] = g[j]
      <4> HIDE DEF more, n
      <4> QED BY <1>1
    <3> HIDE DEF more
    <3>1. f[j] = IF j = 1 THEN seqs[j] ELSE f[j - 1] \o seqs[j]
      BY <2>1 DEF Laid
    <3>2. g[j] = IF j = 1 THEN seqs[j] ELSE g[j - 1] \o seqs[j]
      <4>1. j \in 1..Len(more) /\ more[j] = seqs[j]
        <5> HIDE DEF n
        <5> QED BY <1>1
      <4> QED BY <1>2, <4>1 DEF Laid
    <3>3. j = 1 \/ f[j - 1] = g[j - 1]
      <4> HIDE DEF n
      <4> QED BY <1>1
    <3> HIDE DEF T, n
    <3> QED BY <3>1, <3>2, <3>3
  <2>4. 0..n \subseteq T
    <3>1. 0 \in T
      OBVIOUS
    <3> HIDE DEF T, n, more
    <3> QED BY <1>1, <2>3, <3>1, IntervalInduction
  <2>5. f[n] = g[n]
    <3>1. n \in T
      <4> HIDE DEF T, n, more
      <4> QED BY <2>4, <1>1
    <3> HIDE DEF n, more
    <3> QED BY <3>1, <2>2
  <2>6. g[n + 1] = g[n] \o last
    <3> HIDE DEF n, more
    <3>1. n + 1 \in 1..Len(more) /\ n + 1 # 1 /\ (n + 1) - 1 = n
      BY <1>1, <2>2
    <3> QED BY <1>1, <1>2, <3>1 DEF Laid
  <2>7. f[n] \in Seq(S)
    <3> HIDE DEF n, more
    <3> QED BY <2>1, <2>2, <1>1
  <2> HIDE DEF n, more
  <2> QED BY <1>2, <2>1, <2>5, <2>6, <2>7 DEF more
<1> QED BY <1>3, <1>4

-----------------------------------------------------------------------------
(***************************************************************************)
(* The loop: its inductive invariant.                                      *)
(***************************************************************************)

EventKinds == {"run_started", "model_started", "result_ready", "run_failed"} \cup ToolKinds
StreamEvents == [kind : EventKinds, call : CallIds \cup {NoCall}]
ToolProgress == [kind : ToolKinds, call : CallIds \cup {NoCall}]

LoopTypes ==
    /\ phase \in {"idle", "request", "model", "tools", "report"} \cup Ended
    /\ records \in Seq(CallIds) /\ batch \in Seq(CallIds) /\ dispatched \in Seq(CallIds)
    /\ transitions \in Seq(ToolProgress)
    /\ events \in Seq(StreamEvents) /\ events # <<>>

\* What was dispatched and what is still to be are calls that were seen, each
\* once; until a call fails the results of all were accepted, and what is
\* left of a response fits in the limit.
CallsInv ==
    /\ IsInjective(dispatched) /\ IsInjective(batch)
    /\ \A i \in DOMAIN dispatched : dispatched[i] \in seen_call_ids
    /\ \A j \in DOMAIN batch : batch[j] \in seen_call_ids
    /\ phase # "failed" =>
          /\ dispatched = records
          /\ \A i \in DOMAIN dispatched, j \in DOMAIN batch : dispatched[i] # batch[j]
    /\ phase \notin {"tools", "failed"} => batch = <<>>
    /\ phase = "tools" => Len(records) + Len(batch) <= MAX_TOTAL_TOOL_CALLS
    /\ Len(dispatched) <= MAX_TOTAL_TOOL_CALLS

\* What was streamed and what is collected for it tell the accepted calls.
ToldInv ==
    /\ phase \in {"idle", "request", "model", "succeeded"} => transitions = <<>>
    /\ phase \notin {"failed", "closed"} =>
          ToolEvents(events) \o transitions = ProgressOf(records)

LoopInv == LoopTypes /\ CallsInv /\ OneTerminalEvent /\ ToldInv

-----------------------------------------------------------------------------
\* An event that is not about a tool adds nothing to the tools' progress; one
\* that is adds itself.
LEMMA ToolEventsAppend ==
    ASSUME NEW told \in Seq(StreamEvents), NEW e \in StreamEvents
    PROVE  /\ ToolEvents(told) \in Seq(StreamEvents)
           /\ ToolEvents(Append(told, e)) =
                 ToolEvents(told) \o (IF e.kind \in ToolKinds THEN <<e>> ELSE <<>>)
PROOF
<1> DEFINE Part(x) == IF x.kind \in ToolKinds THEN <<x>> ELSE <<>>
           Parts(s) == [i \in DOMAIN s |-> Part(s[i])]
           n == Len(told)
<1>1. \A x \in StreamEvents : Part(x) \in Seq(StreamEvents)
  OBVIOUS
<1>2. \A s \in Seq(StreamEvents) :
         Parts(s) \in [1..Len(s) -> Seq(StreamEvents)]
  <2> HIDE DEF Part
  <2> QED BY <1>1
<1>3. Parts(told) \in Seq(Seq(StreamEvents)) /\ Len(Parts(told)) = n /\ n \in Nat
  <2>1. Parts(told) \in [1..n -> Seq(StreamEvents)] /\ n \in Nat
    BY <1>2, LenProperties
  <2> HIDE DEF Parts, n
  <2> QED BY <2>1
<1>4. Parts(Append(told, e)) = Append(Parts(told), Part(e))
  <2>1. /\ Append(told, e) \in Seq(StreamEvents) /\ Len(Append(told, e)) = n + 1
        /\ DOMAIN Append(told, e) = 1..(n + 1)
        /\ \A i \in 1..n : Append(told, e)[i] = told[i]
        /\ Append(told, e)[n + 1] = e
        /\ DOMAIN told = 1..n
    BY AppendProperties, LenProperties
  <2>2. Parts(Append(told, e)) =
           [i \in 1..(n + 1) |-> IF i = n + 1 THEN Part(e) ELSE Part(told[i])]
    <3> HIDE DEF Part, n
    <3> QED BY <2>1, <1>3
  <2>3. Append(Parts(told), Part(e)) =
           [i \in 1..(n + 1) |-> IF i = n + 1 THEN Part(e) ELSE Part(told[i])]
    <3> HIDE DEF Part, n
    <3> QED BY <2>1, <1>3, <1>1
  <2> QED BY <2>2, <2>3
<1>5. ToolEvents(told) = FlattenSeq(Parts(told))
  BY DEF ToolEvents
<1>6. ToolEvents(Append(told, e)) = FlattenSeq(Parts(Append(told, e)))
  BY DEF ToolEvents
<1>7. FlattenSeq(Parts(told)) \in Seq(StreamEvents)
      /\ FlattenSeq(Append(Parts(told), Part(e))) = FlattenSeq(Parts(told)) \o Part(e)
  <2> DEFINE parts == Parts(told)
             part == Part(e)
  <2>1. parts \in Seq(Seq(StreamEvents)) /\ part \in Seq(StreamEvents)
    BY <1>3, <1>1
  <2> HIDE DEF parts, part
  <2>2. FlattenSeq(parts) \in Seq(StreamEvents)
        /\ FlattenSeq(Append(parts, part)) = FlattenSeq(parts) \o part
    BY <2>1, FlattenAppend
  <2> QED BY <2>2 DEF parts, part
<1> HIDE DEF Parts
<1> QED BY <1>4, <1>5, <1>6, <1>7

\* One call more adds its start and its end.
LEMMA ProgressAppend ==
    ASSUME NEW made \in Seq(CallIds), NEW c \in CallIds
    PROVE  ProgressOf(Append(made, c)) =
              ProgressOf(made) \o <<Event("tool_started", c), Event("tool_finished", c)>>
PROOF
<1> DEFINE Part(x) == <<Event("tool_started", x), Event("tool_finished", x)>>
           Parts(s) == [i \in DOMAIN s |-> Part(s[i])]
           n == Len(made)
<1>1. \A x \in CallIds : Part(x) \in Seq(StreamEvents)
  <2>1. \A x \in CallIds : Event("tool_started", x) \in StreamEvents
                           /\ Event("tool_finished", x) \in StreamEvents
    BY DEF Event, StreamEvents, EventKinds, ToolKinds
  <2> QED BY <2>1
<1>2. Parts(made) \in Seq(Seq(StreamEvents)) /\ Len(Parts(made)) = n /\ n \in Nat
  <2>1. Parts(made) \in [1..n -> Seq(StreamEvents)] /\ n \in Nat
    <3> HIDE DEF Part
    <3> QED BY <1>1, LenProperties
  <2> HIDE DEF Parts, n
  <2> QED BY <2>1
<1>3. Parts(Append(made, c)) = Append(Parts(made), Part(c))
  <2>1. /\ Append(made, c) \in Seq(CallIds) /\ Len(Append(made, c)) = n + 1
        /\ DOMAIN Append(made, c) = 1..(n + 1)
        /\ \A i \in 1..n : Append(made, c)[i] = made[i]
        /\ Append(made, c)[n + 1] = c
        /\ DOMAIN made = 1..n
    BY AppendProperties, LenProperties
  <2>2. Parts(Append(made, c)) =
           [i \in 1..(n + 1) |-> IF i = n + 1 THEN Part(c) ELSE Part(made[i])]
    <3> HIDE DEF Part, n
    <3> QED BY <2>1, <1>2
  <2>3. Append(Parts(made), Part(c)) =
           [i \in 1..(n + 1) |-> IF i = n + 1 THEN Part(c) ELSE Part(made[i])]
    <3> HIDE DEF Part, n
    <3> QED BY <2>1, <1>2, <1>1
  <2> QED BY <2>2, <2>3
<1>4. FlattenSeq(Append(Parts(made), Part(c))) = FlattenSeq(Parts(made)) \o Part(c)
  <2> DEFINE parts == Parts(made)
             part == Part(c)
  <2>1. parts \in Seq(Seq(StreamEvents)) /\ part \in Seq(StreamEvents)
    BY <1>1, <1>2
  <2> HIDE DEF parts, part
  <2>2. FlattenSeq(Append(parts, part)) = FlattenSeq(parts) \o part
    BY <2>1, FlattenAppend
  <2> QED BY <2>2 DEF parts, part
<1>5. ProgressOf(made) = FlattenSeq(Parts(made))
      /\ ProgressOf(Append(made, c)) = FlattenSeq(Parts(Append(made, c)))
  BY DEF ProgressOf
<1> HIDE DEF Parts
<1> QED BY <1>3, <1>4, <1>5

\* An appended event is the last, and those before it stay.
LEMMA EmitFacts ==
    ASSUME LoopTypes, NEW e \in StreamEvents, events' = Append(events, e)
    PROVE  /\ events' \in Seq(StreamEvents) /\ events' # <<>>
           /\ Len(events') = Len(events) + 1 /\ Len(events) \in Nat
           /\ DOMAIN events' = 1..(Len(events) + 1) /\ DOMAIN events = 1..Len(events)
           /\ \A i \in DOMAIN events : events'[i] = events[i]
           /\ Last(events') = e
PROOF
<1>1. events \in Seq(StreamEvents)
  BY DEF LoopTypes
<1> QED BY <1>1, AppendProperties, LenProperties DEF Last

\* A stream whose last event is not terminal may get one more.
LEMMA EmitKeepsOneTerminal ==
    ASSUME LoopTypes, OneTerminalEvent, phase \notin {"succeeded", "failed"},
           NEW e \in StreamEvents, events' = Append(events, e),
           IsTerminal(e) <=> phase' \in {"succeeded", "failed"},
           phase' = "succeeded" => e.kind = "result_ready"
    PROVE  OneTerminalEvent'
PROOF
<1>1. /\ Len(events') = Len(events) + 1 /\ Len(events) \in Nat /\ Len(events) # 0
      /\ DOMAIN events' = 1..(Len(events) + 1) /\ DOMAIN events = 1..Len(events)
      /\ \A i \in DOMAIN events : events'[i] = events[i]
      /\ Last(events') = e
  BY EmitFacts DEF LoopTypes
<1>2. ~IsTerminal(Last(events))
  BY DEF OneTerminalEvent
<1>3. ASSUME NEW i \in DOMAIN events', IsTerminal(events'[i])
      PROVE  i = Len(events')
  <2>1. CASE i \in DOMAIN events
    <3>1. IsTerminal(events[i])
      BY <1>1, <1>3, <2>1
    <3>2. i = Len(events)
      BY <3>1, <2>1 DEF OneTerminalEvent
    <3> QED BY <3>1, <3>2, <1>2 DEF Last
  <2> QED BY <2>1, <1>1
<1> QED BY <1>1, <1>3 DEF OneTerminalEvent

\* Fail, at any point of a run that has not ended.
LEMMA FailHolds ==
    ASSUME LoopInv, phase \notin Ended, Fail,
           records' \in Seq(CallIds) /\ batch' \in Seq(CallIds)
           /\ dispatched' \in Seq(CallIds),
           IsInjective(dispatched') /\ IsInjective(batch'),
           \A i \in DOMAIN dispatched' : dispatched'[i] \in seen_call_ids',
           \A j \in DOMAIN batch' : batch'[j] \in seen_call_ids',
           Len(dispatched') <= MAX_TOTAL_TOOL_CALLS
    PROVE  LoopInv'
PROOF
<1> DEFINE e == Event("run_failed", NoCall)
<1>1. e \in StreamEvents /\ IsTerminal(e)
  BY DEF Event, StreamEvents, EventKinds, IsTerminal
<1>2. events' = Append(events, e) /\ phase' = "failed" /\ transitions' = <<>>
  BY DEF Fail, Emit
<1> HIDE DEF e
<1>3. events' \in Seq(StreamEvents) /\ events' # <<>>
  BY <1>1, <1>2, EmitFacts DEF LoopInv
<1>4. LoopTypes'
  BY <1>2, <1>3 DEF LoopTypes, Ended
<1>5. CallsInv'
  BY <1>2 DEF CallsInv
<1>6. OneTerminalEvent'
  BY <1>1, <1>2, EmitKeepsOneTerminal DEF LoopInv, Ended
<1>7. ToldInv'
  BY <1>2 DEF ToldInv
<1> QED BY <1>4, <1>5, <1>6, <1>7 DEF LoopInv

\* Fail where nothing else of the machine changes.
LEMMA PlainFailHolds ==
    ASSUME LoopInv, phase \notin Ended, Fail,
           UNCHANGED <<seen_call_ids, records, batch, dispatched>>
    PROVE  LoopInv'
PROOF
BY FailHolds DEF LoopInv, LoopTypes, CallsInv

\* An event that is not terminal and not about a tool, between phases in which
\* everything was told.
LEMMA PlainEmitHolds ==
    ASSUME LoopInv, phase \in {"request", "model"},
           UNCHANGED <<seen_call_ids, records, batch, dispatched, transitions>>,
           NEW k \in {"model_started", "result_ready"}, Emit(k),
           phase' = IF k = "result_ready" THEN "succeeded" ELSE "model"
    PROVE  LoopInv'
PROOF
<1> DEFINE e == Event(k, NoCall)
<1>1. e \in StreamEvents /\ e.kind = k /\ e.kind \notin ToolKinds
      /\ (IsTerminal(e) <=> phase' \in {"succeeded", "failed"})
      /\ (phase' = "succeeded" => e.kind = "result_ready")
  BY DEF Event, StreamEvents, EventKinds, IsTerminal, ToolKinds
<1>2. events' = Append(events, e) /\ phase' \in {"model", "succeeded"}
  BY DEF Emit
<1> HIDE DEF e
<1>3. events' \in Seq(StreamEvents) /\ events' # <<>>
  BY <1>1, <1>2, EmitFacts DEF LoopInv
<1>4. LoopTypes'
  BY <1>2, <1>3 DEF LoopInv, LoopTypes, Ended
<1>5. CallsInv'
  BY <1>2 DEF LoopInv, CallsInv
<1>6. OneTerminalEvent'
  BY <1>1, <1>2, EmitKeepsOneTerminal DEF LoopInv
<1>7. ToldInv'
  <2>1. transitions' = <<>> /\ records' = records
        /\ ToolEvents(events) \o <<>> = ProgressOf(records)
    BY DEF LoopInv, ToldInv
  <2>2. events \in Seq(StreamEvents)
    BY DEF LoopInv, LoopTypes
  <2>3. ToolEvents(events) \in Seq(StreamEvents)
        /\ ToolEvents(events') = ToolEvents(events) \o <<>>
    BY <1>1, <1>2, <2>2, ToolEventsAppend
  <2>4. ToolEvents(events') = ToolEvents(events)
    BY <2>3, ConcatEmptySeq
  <2> QED BY <2>1, <2>4 DEF ToldInv
<1> QED BY <1>4, <1>5, <1>6, <1>7 DEF LoopInv

\* next_request, and the two ends of an answer without calls.
LEMMA NextRequestHolds ==
    ASSUME LoopInv, NextRequest \/ UnusableAnswer \/ FinalAnswer
    PROVE  LoopInv'
PROOF
<1>1. CASE NextRequest
  <2>1. phase \notin Ended /\ phase = "request"
    BY <1>1 DEF NextRequest, Ended
  <2>2. UNCHANGED <<seen_call_ids, records, batch, dispatched>>
    BY <1>1 DEF NextRequest, machine
  <2>3. CASE Fail
    BY <2>1, <2>2, <2>3, PlainFailHolds
  <2>4. CASE ~Fail
    <3>1. Emit("model_started") /\ phase' = "model" /\ UNCHANGED transitions
      BY <1>1, <2>4 DEF NextRequest
    <3> QED BY <2>1, <2>2, <3>1, PlainEmitHolds
  <2> QED BY <2>3, <2>4
<1>2. CASE UnusableAnswer
  BY <1>2, PlainFailHolds DEF UnusableAnswer, Ended, machine
<1>3. CASE FinalAnswer
  BY <1>3, PlainEmitHolds DEF FinalAnswer, machine
<1> QED BY <1>1, <1>2, <1>3

\* The head of what is to be dispatched is new, and there is room for it.
LEMMA HeadIsNew ==
    ASSUME LoopInv, phase = "tools", batch # <<>>, dispatched' = Append(dispatched, Head(batch))
    PROVE  /\ Head(batch) \in CallIds /\ Head(batch) = batch[1] /\ 1 \in DOMAIN batch
           /\ dispatched' \in Seq(CallIds) /\ IsInjective(dispatched')
           /\ \A i \in DOMAIN dispatched' : dispatched'[i] \in seen_call_ids
           /\ \A i \in DOMAIN dispatched' :
                 (i \in DOMAIN dispatched /\ dispatched'[i] = dispatched[i])
                 \/ dispatched'[i] = batch[1]
           /\ Len(dispatched') = Len(dispatched) + 1
           /\ Len(dispatched') <= MAX_TOTAL_TOOL_CALLS
PROOF
<1> DEFINE c == Head(batch)
           n == Len(dispatched)
<1>1. batch \in Seq(CallIds) /\ dispatched \in Seq(CallIds) /\ records = dispatched
  BY DEF LoopInv, LoopTypes, CallsInv
<1>2. /\ c \in CallIds /\ c = batch[1] /\ 1 \in DOMAIN batch
      /\ Len(batch) \in Nat /\ Len(batch) >= 1
  BY <1>1
<1>3. /\ dispatched' \in Seq(CallIds) /\ n \in Nat /\ Len(dispatched') = n + 1
      /\ DOMAIN dispatched' = 1..(n + 1) /\ DOMAIN dispatched = 1..n
      /\ \A i \in 1..n : dispatched'[i] = dispatched[i]
      /\ dispatched'[n + 1] = c
  BY <1>1, <1>2, AppendProperties, LenProperties
<1>4. n + Len(batch) <= MAX_TOTAL_TOOL_CALLS
  BY <1>1 DEF LoopInv, CallsInv
<1>5. IsInjective(dispatched) /\ (\A i \in DOMAIN dispatched : dispatched[i] # c)
  BY <1>2 DEF LoopInv, CallsInv
<1>6. (\A i \in DOMAIN dispatched : dispatched[i] \in seen_call_ids) /\ c \in seen_call_ids
  BY <1>2 DEF LoopInv, CallsInv
<1> HIDE DEF n, c
<1>7. \A i \in DOMAIN dispatched' :
         (i \in DOMAIN dispatched /\ dispatched'[i] = dispatched[i])
         \/ (i = n + 1 /\ dispatched'[i] = c)
  BY <1>3
<1>8. IsInjective(dispatched')
  BY <1>5, <1>7 DEF IsInjective
<1>9. \A i \in DOMAIN dispatched' : dispatched'[i] \in seen_call_ids
  BY <1>6, <1>7
<1>10. Len(dispatched') <= MAX_TOTAL_TOOL_CALLS
  BY <1>2, <1>3, <1>4, LimitsAssumption
<1> QED BY <1>2, <1>3, <1>7, <1>8, <1>9, <1>10 DEF n, c

\* A response's calls are taken all together or not at all.
LEMMA AcceptCallsHolds ==
    ASSUME LoopInv, AcceptCalls
    PROVE  LoopInv'
PROOF
<1>1. phase = "model" /\ phase \notin Ended
  BY DEF AcceptCalls, Ended
<1>2. PICK made \in SeqOf(CallIds, MAX_TOOL_CALLS_PER_RESPONSE + 1), valid \in BOOLEAN :
         IF Admissible(made) /\ valid
         THEN /\ seen_call_ids' = seen_call_ids \cup ToSet(made)
              /\ batch' = made
              /\ phase' = "tools"
              /\ UNCHANGED <<events, transitions, round_count, feedback_chars,
                             records, dispatched>>
         ELSE Fail /\ UNCHANGED machine
  BY DEF AcceptCalls
<1>3. CASE ~(Admissible(made) /\ valid)
  BY <1>1, <1>2, <1>3, PlainFailHolds DEF machine
<1>4. CASE Admissible(made) /\ valid
  <2>1. made \in Seq(CallIds)
    BY LimitsAssumption DEF SeqOf
  <2>2. /\ seen_call_ids' = seen_call_ids \cup ToSet(made) /\ batch' = made
        /\ phase' = "tools" /\ events' = events /\ transitions' = transitions
        /\ records' = records /\ dispatched' = dispatched
    BY <1>2, <1>4
  <2>3. /\ Len(records) + Len(made) <= MAX_TOTAL_TOOL_CALLS /\ IsInjective(made)
        /\ \A j \in DOMAIN made : made[j] \in ToSet(made) /\ made[j] \notin seen_call_ids
    BY <1>4 DEF Admissible, ToSet
  <2>4. LoopTypes'
    BY <2>1, <2>2 DEF LoopInv, LoopTypes
  <2>5. CallsInv'
    <3>1. CallsInv
      BY DEF LoopInv
    <3>2. \A i \in DOMAIN dispatched, j \in DOMAIN made : dispatched[i] # made[j]
      BY <2>3, <3>1 DEF CallsInv
    <3> QED BY <1>1, <2>2, <2>3, <3>1, <3>2 DEF CallsInv
  <2>6. OneTerminalEvent'
    BY <1>1, <2>2 DEF LoopInv, OneTerminalEvent, IsTerminal
  <2>7. ToldInv'
    BY <1>1, <2>2 DEF LoopInv, ToldInv
  <2> QED BY <2>4, <2>5, <2>6, <2>7 DEF LoopInv
<1> QED BY <1>3, <1>4

\* A tool that raises fails the run, with its call counted.
LEMMA ToolFailsHolds ==
    ASSUME LoopInv, ToolFails
    PROVE  LoopInv'
PROOF
<1>1. /\ phase = "tools" /\ batch # <<>> /\ dispatched' = Append(dispatched, Head(batch))
      /\ Fail /\ records' = records /\ batch' = batch /\ seen_call_ids' = seen_call_ids
  BY DEF ToolFails
<1>2. phase \notin Ended
  BY <1>1 DEF Ended
<1>3. records \in Seq(CallIds) /\ batch \in Seq(CallIds) /\ IsInjective(batch)
      /\ \A j \in DOMAIN batch : batch[j] \in seen_call_ids
  BY DEF LoopInv, LoopTypes, CallsInv
<1> QED BY <1>1, <1>2, <1>3, HeadIsNew, FailHolds

\* A tool that answers: too much, which fails the run, or a record and two
\* transitions that are streamed later.
LEMMA ToolAnswersHolds ==
    ASSUME LoopInv, ToolAnswers
    PROVE  LoopInv'
PROOF
<1>1. /\ phase = "tools" /\ batch # <<>> /\ dispatched' = Append(dispatched, Head(batch))
      /\ seen_call_ids' = seen_call_ids
  BY DEF ToolAnswers
<1>2. batch \in Seq(CallIds) /\ records \in Seq(CallIds) /\ dispatched \in Seq(CallIds)
      /\ transitions \in Seq(ToolProgress) /\ events \in Seq(StreamEvents)
      /\ dispatched = records
  BY <1>1 DEF LoopInv, LoopTypes, CallsInv
<1> DEFINE c == Head(batch)
           two == <<Event("tool_started", c), Event("tool_finished", c)>>
<1>3. CASE Fail /\ UNCHANGED <<records, batch>>
  <2>1. phase \notin Ended
    BY <1>1 DEF Ended
  <2>2. IsInjective(batch) /\ \A j \in DOMAIN batch : batch[j] \in seen_call_ids
    BY DEF LoopInv, CallsInv
  <2> QED BY <1>1, <1>2, <1>3, <2>1, <2>2, HeadIsNew, FailHolds
<1>4. CASE ~(Fail /\ UNCHANGED <<records, batch>>)
  <2>1. /\ records' = Append(records, c) /\ batch' = Tail(batch)
        /\ transitions' = transitions \o two /\ phase' = phase /\ events' = events
    BY <1>4 DEF ToolAnswers
  <2>2. /\ c \in CallIds /\ c = batch[1] /\ 1 \in DOMAIN batch
        /\ dispatched' \in Seq(CallIds) /\ IsInjective(dispatched')
        /\ \A i \in DOMAIN dispatched' : dispatched'[i] \in seen_call_ids
        /\ \A i \in DOMAIN dispatched' :
              (i \in DOMAIN dispatched /\ dispatched'[i] = dispatched[i])
              \/ dispatched'[i] = batch[1]
        /\ Len(dispatched') = Len(dispatched) + 1
        /\ Len(dispatched') <= MAX_TOTAL_TOOL_CALLS
    BY <1>1, HeadIsNew
  <2>3. two \in Seq(ToolProgress) /\ two \in Seq(StreamEvents)
    <3>1. Event("tool_started", c) \in ToolProgress /\ Event("tool_finished", c) \in ToolProgress
      BY <2>2 DEF Event, ToolProgress, ToolKinds
    <3>2. Event("tool_started", c) \in StreamEvents /\ Event("tool_finished", c) \in StreamEvents
      BY <2>2 DEF Event, StreamEvents, EventKinds, ToolKinds
    <3> QED BY <3>1, <3>2
  <2>4. /\ Tail(batch) \in Seq(CallIds) /\ Len(Tail(batch)) = Len(batch) - 1
        /\ Len(batch) \in Nat /\ DOMAIN batch = 1..Len(batch)
        /\ DOMAIN Tail(batch) = 1..(Len(batch) - 1)
        /\ \A j \in DOMAIN Tail(batch) : j + 1 \in DOMAIN batch /\ Tail(batch)[j] = batch[j + 1]
    BY <1>1, <1>2, HeadTailProperties, LenProperties
  <2> HIDE DEF c, two
  <2>5. LoopTypes'
    <3>1. transitions \o two \in Seq(ToolProgress)
      BY <1>2, <2>3, ConcatProperties
    <3>2. phase' = "tools" /\ events' # <<>>
      BY <1>1, <2>1 DEF LoopInv, LoopTypes
    <3>3. records' \in Seq(CallIds)
      BY <1>1, <1>2, <2>1, <2>2 DEF c
    <3> QED BY <1>2, <2>1, <2>2, <2>4, <3>1, <3>2, <3>3 DEF LoopTypes
  <2>6. CallsInv'
    <3>1. IsInjective(batch) /\ (\A j \in DOMAIN batch : batch[j] \in seen_call_ids)
          /\ (\A i \in DOMAIN dispatched, j \in DOMAIN batch : dispatched[i] # batch[j])
          /\ Len(records) + Len(batch) <= MAX_TOTAL_TOOL_CALLS
      BY <1>1 DEF LoopInv, CallsInv
    <3>2. IsInjective(batch')
      BY <2>1, <2>4, <3>1 DEF IsInjective
    <3>3. \A j \in DOMAIN batch' : batch'[j] \in seen_call_ids /\ batch'[j] # batch[1]
      <4> SUFFICES ASSUME NEW j \in DOMAIN batch'
                   PROVE  batch'[j] \in seen_call_ids /\ batch'[j] # batch[1]
        OBVIOUS
      <4>1. j + 1 \in DOMAIN batch /\ batch'[j] = batch[j + 1] /\ j + 1 # 1
        BY <2>1, <2>4
      <4> QED BY <4>1, <3>1, <2>2 DEF IsInjective
    <3>4. \A i \in DOMAIN dispatched', j \in DOMAIN batch' : dispatched'[i] # batch'[j]
      <4> SUFFICES ASSUME NEW i \in DOMAIN dispatched', NEW j \in DOMAIN batch'
                   PROVE  dispatched'[i] # batch'[j]
        OBVIOUS
      <4>1. j + 1 \in DOMAIN batch /\ batch'[j] = batch[j + 1]
        BY <2>1, <2>4
      <4> QED BY <4>1, <3>1, <3>3, <2>2
    <3>5. dispatched' = records'
      BY <1>1, <1>2, <2>1 DEF c
    <3>6. Len(records') + Len(batch') <= MAX_TOTAL_TOOL_CALLS
      <4>1. Len(records) \in Nat /\ Len(records') = Len(records) + 1
        BY <1>2, <2>2, <3>5
      <4> QED BY <2>1, <2>4, <3>1, <4>1, LimitsAssumption
    <3>7. phase' = "tools" /\ seen_call_ids' = seen_call_ids
      BY <1>1, <2>1
    <3> QED BY <2>2, <3>2, <3>3, <3>4, <3>5, <3>6, <3>7 DEF CallsInv
  <2>7. OneTerminalEvent'
    BY <2>1 DEF LoopInv, OneTerminalEvent, IsTerminal
  <2>8. ToldInv'
    <3>1. ToolEvents(events) \o transitions = ProgressOf(records)
      BY <1>1 DEF LoopInv, ToldInv
    <3>2. ToolEvents(events) \in Seq(StreamEvents)
      <4>1. Event("run_failed", NoCall) \in StreamEvents
        BY DEF Event, StreamEvents, EventKinds
      <4> QED BY <1>2, <4>1, ToolEventsAppend
    <3>3. transitions \in Seq(StreamEvents)
      <4>1. ToolProgress \subseteq StreamEvents
        BY DEF ToolProgress, StreamEvents, EventKinds
      <4> QED BY <1>2, <4>1, SeqMonotonic
    <3>4. (ToolEvents(events) \o transitions) \o two = ToolEvents(events) \o (transitions \o two)
      BY <3>2, <3>3, <2>3, ConcatAssociative
    <3>5. ProgressOf(records') = ProgressOf(records) \o two
      BY <1>2, <2>1, <2>2, ProgressAppend DEF two
    <3> QED BY <1>1, <2>1, <3>1, <3>4, <3>5 DEF ToldInv
  <2> QED BY <2>5, <2>6, <2>7, <2>8 DEF LoopInv
<1> QED BY <1>3, <1>4

\* The response is done, or the consumer goes away: nothing is emitted.
LEMMA SilentHolds ==
    ASSUME LoopInv, BatchDone \/ Close
    PROVE  LoopInv'
PROOF
<1>1. /\ phase \notin {"succeeded", "failed", "closed"} /\ phase' \in {"report", "closed"}
      /\ UNCHANGED <<transitions, events, seen_call_ids, records, batch, dispatched>>
      /\ (phase = "tools" => batch = <<>>)
  BY DEF BatchDone, Close, machine
<1>2. LoopTypes'
  BY <1>1 DEF LoopInv, LoopTypes, Ended
<1>3. CallsInv'
  BY <1>1 DEF LoopInv, CallsInv
<1>4. OneTerminalEvent'
  BY <1>1 DEF LoopInv, OneTerminalEvent, IsTerminal
<1>5. ToldInv'
  BY <1>1 DEF LoopInv, ToldInv
<1> QED BY <1>2, <1>3, <1>4, <1>5 DEF LoopInv

\* A transition that is streamed leaves what is collected and joins the events.
LEMMA ReportHolds ==
    ASSUME LoopInv, Report
    PROVE  LoopInv'
PROOF
<1>1. /\ phase = "report"
      /\ UNCHANGED <<seen_call_ids, records, batch, dispatched>>
  BY DEF Report, machine
<1>2. CASE transitions = <<>>
  <2>1. phase' = "request" /\ UNCHANGED <<transitions, events>>
    BY <1>2 DEF Report
  <2>2. LoopTypes'
    BY <1>1, <2>1 DEF LoopInv, LoopTypes
  <2>3. CallsInv'
    BY <1>1, <2>1 DEF LoopInv, CallsInv
  <2>4. OneTerminalEvent'
    BY <1>1, <2>1 DEF LoopInv, OneTerminalEvent, IsTerminal
  <2>5. ToldInv'
    BY <1>1, <1>2, <2>1 DEF LoopInv, ToldInv
  <2> QED BY <2>2, <2>3, <2>4, <2>5 DEF LoopInv
<1>3. CASE transitions # <<>>
  <2> DEFINE e == Head(transitions)
             rest == Tail(transitions)
  <2>1. events' = Append(events, e) /\ transitions' = rest /\ phase' = "report"
    BY <1>1, <1>3 DEF Report
  <2>2. /\ transitions \in Seq(ToolProgress) /\ events \in Seq(StreamEvents)
        /\ e \in ToolProgress /\ rest \in Seq(ToolProgress)
        /\ transitions = <<e>> \o rest
    BY <1>3 DEF LoopInv, LoopTypes
  <2> HIDE DEF e, rest
  <2>3. e \in StreamEvents /\ e.kind \in ToolKinds /\ ~IsTerminal(e)
    BY <2>2 DEF ToolProgress, StreamEvents, EventKinds, IsTerminal, ToolKinds
  <2>4. LoopTypes'
    <3>1. events' \in Seq(StreamEvents) /\ events' # <<>>
      BY <2>1, <2>3, EmitFacts DEF LoopInv
    <3> QED BY <1>1, <2>1, <2>2, <3>1 DEF LoopInv, LoopTypes
  <2>5. CallsInv'
    BY <1>1, <2>1 DEF LoopInv, CallsInv
  <2>6. OneTerminalEvent'
    BY <1>1, <2>1, <2>3, EmitKeepsOneTerminal DEF LoopInv
  <2>7. ToldInv'
    <3>1. ToolEvents(events) \o (<<e>> \o rest) = ProgressOf(records)
      BY <1>1, <2>2 DEF LoopInv, ToldInv
    <3>2. ToolEvents(events) \in Seq(StreamEvents)
          /\ ToolEvents(events') = ToolEvents(events) \o <<e>>
      BY <2>1, <2>2, <2>3, ToolEventsAppend
    <3>3. rest \in Seq(StreamEvents) /\ <<e>> \in Seq(StreamEvents)
      <4>1. ToolProgress \subseteq StreamEvents
        BY DEF ToolProgress, StreamEvents, EventKinds
      <4>2. rest \in Seq(StreamEvents)
        BY <2>2, <4>1, SeqMonotonic
      <4> QED BY <4>2, <2>3
    <3>4. (ToolEvents(events) \o <<e>>) \o rest = ToolEvents(events) \o (<<e>> \o rest)
      BY <3>2, <3>3, ConcatAssociative
    <3> QED BY <1>1, <2>1, <3>1, <3>2, <3>4 DEF ToldInv
  <2> QED BY <2>4, <2>5, <2>6, <2>7 DEF LoopInv
<1> QED BY <1>2, <1>3

\* A run starts with the one event that it started.
LEMMA InitLoopInv ==
    ASSUME LoopInit, phase \in {"request", "idle"}
    PROVE  LoopInv
PROOF
<1> DEFINE e == Event("run_started", NoCall)
<1>1. e \in StreamEvents /\ ~IsTerminal(e) /\ e.kind \notin ToolKinds
  BY DEF Event, StreamEvents, EventKinds, IsTerminal, ToolKinds
<1>2. /\ seen_call_ids = {} /\ records = <<>> /\ batch = <<>> /\ dispatched = <<>>
      /\ transitions = <<>> /\ events = <<e>>
  BY DEF LoopInit
<1> HIDE DEF e
<1>3. LoopTypes
  BY <1>1, <1>2 DEF LoopTypes
<1>4. CallsInv
  BY <1>2, LimitsAssumption DEF CallsInv, IsInjective
<1>5. OneTerminalEvent
  BY <1>1, <1>2 DEF OneTerminalEvent, Last
<1>6. ToldInv
  <2>1. <<>> \in Seq(StreamEvents) /\ Append(<<>>, e) = <<e>>
    BY <1>1
  <2>2. ToolEvents(<<>>) = <<>> /\ ProgressOf(<<>>) = <<>>
    <3>1. FlattenSeq(<<>>) = <<>>
      BY DEF FlattenSeq
    <3>2. [i \in DOMAIN <<>> |->
             IF <<>>[i].kind \in ToolKinds THEN << <<>>[i] >> ELSE <<>>] = <<>>
      OBVIOUS
    <3>3. [i \in DOMAIN <<>> |->
             <<Event("tool_started", <<>>[i]), Event("tool_finished", <<>>[i])>>] = <<>>
      OBVIOUS
    <3> QED BY <3>1, <3>2, <3>3 DEF ToolEvents, ProgressOf
  <2>3. ToolEvents(<<e>>) = ToolEvents(<<>>) \o <<>>
    BY <1>1, <2>1, ToolEventsAppend
  <2>4. <<>> \o <<>> = <<>>
    OBVIOUS
  <2> QED BY <1>2, <2>2, <2>3, <2>4 DEF ToldInv
<1> QED BY <1>3, <1>4, <1>5, <1>6 DEF LoopInv

\* Every step, of the loop, of the planning node or of the consumer.
LEMMA NextLoopInv ==
    ASSUME LoopInv, [Next]_vars
    PROVE  LoopInv'
PROOF
<1>1. CASE LoopStep
  BY <1>1, NextRequestHolds, AcceptCallsHolds, ToolFailsHolds, ToolAnswersHolds,
     SilentHolds, ReportHolds DEF LoopStep
<1>2. CASE Close
  BY <1>2, SilentHolds
<1>3. CASE UNCHANGED loopVars
  <2>1. UNCHANGED <<phase, seen_call_ids, records, batch, dispatched, transitions, events>>
    BY <1>3 DEF loopVars
  <2> QED BY <2>1 DEF LoopInv, LoopTypes, CallsInv, OneTerminalEvent, IsTerminal, ToldInv
<1> QED BY <1>1, <1>2, <1>3 DEF Next, Step, vars

-----------------------------------------------------------------------------
(***************************************************************************)
(* The loop: theorems.                                                     *)
(***************************************************************************)

\* The loop keeps its invariant, whatever its limits, calls and results are.
THEOREM LoopInvariant == Spec => []LoopInv
PROOF
<1>1. Init => LoopInv
  BY InitLoopInv DEF Init
<1>2. LoopInv /\ [Next]_vars => LoopInv'
  BY NextLoopInv
<1> QED BY <1>1, <1>2, PTL DEF Spec

\* accept_response and its limits: no more calls reach a tool than
\* MAX_TOTAL_TOOL_CALLS, and no call reaches one twice.
THEOREM CallsRunAtMostOnce == Spec => []ToolsRunAtMostOnce
PROOF
<1>1. LoopInv => ToolsRunAtMostOnce
  BY DEF LoopInv, CallsInv, ToolsRunAtMostOnce
<1> QED BY <1>1, LoopInvariant, PTL

\* stream_agent: one terminal event, the last, exactly when the run ended by
\* itself.
THEOREM StreamEndsOnce == Spec => []OneTerminalEvent
PROOF
<1>1. LoopInv => OneTerminalEvent
  BY DEF LoopInv
<1> QED BY <1>1, LoopInvariant, PTL

\* stream_agent: a run that succeeds has told every call that reached a tool,
\* in order and once.
THEOREM SuccessIsToldInFull == Spec => []SuccessTellsAll
PROOF
<1>1. LoopInv => SuccessTellsAll
  <2> SUFFICES ASSUME LoopInv, phase = "succeeded"
               PROVE  ToolEvents(events) = ProgressOf(dispatched)
    BY DEF SuccessTellsAll
  <2>1. ToolEvents(events) \o <<>> = ProgressOf(records) /\ dispatched = records
    BY DEF LoopInv, ToldInv, CallsInv
  <2>2. ToolEvents(events) \in Seq(StreamEvents)
    <3>1. Event("run_failed", NoCall) \in StreamEvents
      BY DEF Event, StreamEvents, EventKinds
    <3> QED BY <3>1, ToolEventsAppend DEF LoopInv, LoopTypes
  <2> QED BY <2>1, <2>2, ConcatEmptySeq
<1> QED BY <1>1, LoopInvariant, PTL

-----------------------------------------------------------------------------
(***************************************************************************)
(* The planning node: sums of token counts.                                *)
(***************************************************************************)

Counts == Tokens \cup {None}
Totals == Nat \cup {None}
Added(total, count) ==
    IF count = None THEN total ELSE IF total = None THEN count ELSE total + count
Sums(counts, sum) ==
    sum[0] = None /\ \A i \in 1..Len(counts) : sum[i] = Added(sum[i - 1], counts[i])

\* _sum_known is the last of its partial sums.
LEMMA SumKnownIsASum ==
    ASSUME NEW counts \in Seq(Counts)
    PROVE  \E sum \in [0..Len(counts) -> Totals] :
              Sums(counts, sum) /\ SumKnown(counts) = sum[Len(counts)]
PROOF
<1> DEFINE n == Len(counts)
           step == [i \in Nat |-> [t \in Totals |->
                      IF i \in 1..n THEN Added(t, counts[i]) ELSE t]]
           From(f) == [i \in 0..n |->
                         IF i = 0 THEN None
                         ELSE IF counts[i] = None THEN f[i - 1]
                         ELSE IF f[i - 1] = None THEN counts[i] ELSE f[i - 1] + counts[i]]
           sum == CHOOSE f : f = From(f)
<1>1. n \in Nat /\ counts \in [1..n -> Counts] /\ Counts \subseteq Totals
  BY LenProperties, PlanningAssumption DEF Counts, Totals
<1>2. \A t \in Totals, c \in Counts : Added(t, c) \in Totals
  BY PlanningAssumption DEF Added, Counts, Totals
<1>3. step \in Steps(Totals) /\ None \in Totals
  <2> HIDE DEF n
  <2> QED BY <1>1, <1>2 DEF Steps, Totals
<1>4. Computable(Totals, None, step, n)
  <2> HIDE DEF step, n
  <2> QED BY <1>1, <1>3, PrimitiveRecursion
<1>5. PICK g \in [0..n -> Totals] :
         g[0] = None /\ \A i \in 1..n : g[i] = step[i][g[i - 1]]
  BY <1>4 DEF Computable
<1>6. ASSUME NEW i \in 1..n PROVE g[i] = Added(g[i - 1], counts[i])
  <2> HIDE DEF n
  <2>1. i \in Nat /\ i - 1 \in 0..n
    BY <1>1
  <2> QED BY <1>5, <2>1
<1> HIDE DEF n
<1>7. g = From(g)
  <2>1. \A i \in 0..n : g[i] = From(g)[i]
    <3> SUFFICES ASSUME NEW i \in 0..n PROVE g[i] = From(g)[i]
      OBVIOUS
    <3>1. CASE i = 0
      BY <1>5, <3>1
    <3>2. CASE i # 0
      <4>1. i \in 1..n
        BY <3>2, <1>1
      <4> QED BY <4>1, <1>6 DEF Added
    <3> QED BY <3>1, <3>2
  <2> QED BY <2>1
<1>8. sum = From(sum)
  <2> HIDE DEF From
  <2> QED BY <1>7
<1>9. \A i \in 0..n : sum[i] = g[i]
  <2> HIDE DEF sum
  <2>1. \A i \in 0..n : sum[i] = From(sum)[i] /\ g[i] = From(g)[i]
    <3> HIDE DEF From
    <3> QED BY <1>7, <1>8
  <2>2. sum[0] = g[0]
    BY <2>1, <1>1
  <2>3. \A i \in 1..n : sum[i - 1] = g[i - 1] => sum[i] = g[i]
    BY <2>1, <1>1
  <2>4. GoAlike(sum, g, n)
    BY <2>2, <2>3 DEF GoAlike
  <2>5. Alike(sum, g, n)
    BY <1>1, <2>4, SameValues
  <2> QED BY <2>5 DEF Alike
<1>10. SumKnown(counts) = sum[n]
  BY DEF SumKnown, n
<1>11. SumKnown(counts) = g[n]
  <2> HIDE DEF sum
  <2> QED BY <1>9, <1>10, <1>1
<1> QED BY <1>5, <1>6, <1>11 DEF Sums, n

\* One count more is added to the sum.
LEMMA SumKnownAppend ==
    ASSUME NEW counts \in Seq(Counts), NEW c \in Counts
    PROVE  SumKnown(counts) \in Totals
           /\ SumKnown(Append(counts, c)) = Added(SumKnown(counts), c)
PROOF
<1> DEFINE n == Len(counts)
           more == Append(counts, c)
<1>1. /\ n \in Nat /\ more \in Seq(Counts) /\ Len(more) = n + 1
      /\ (\A i \in 1..n : more[i] = counts[i]) /\ more[n + 1] = c
  BY AppendProperties, LenProperties
<1> HIDE DEF more
<1>2. PICK f \in [0..n -> Totals] : Sums(counts, f) /\ SumKnown(counts) = f[n]
  BY SumKnownIsASum
<1> HIDE DEF n
<1>3. PICK g \in [0..(n + 1) -> Totals] : Sums(more, g) /\ SumKnown(more) = g[n + 1]
  BY <1>1, SumKnownIsASum
<1>4. f[0] = g[0]
  BY <1>2, <1>3 DEF Sums
<1>5. \A i \in 1..n : f[i - 1] = g[i - 1] => f[i] = g[i]
  <2> SUFFICES ASSUME NEW i \in 1..n, f[i - 1] = g[i - 1] PROVE f[i] = g[i]
    OBVIOUS
  <2>1. f[i] = Added(f[i - 1], counts[i])
    BY <1>2 DEF Sums, n
  <2>2. i \in 1..Len(more) /\ more[i] = counts[i]
    BY <1>1
  <2>3. g[i] = Added(g[i - 1], counts[i])
    BY <1>3, <2>2 DEF Sums
  <2> QED BY <2>1, <2>3
<1>6. f[n] = g[n]
  <2>1. GoAlike(f, g, n)
    BY <1>4, <1>5 DEF GoAlike
  <2>2. Alike(f, g, n)
    BY <1>1, <2>1, SameValues
  <2> QED BY <1>1, <2>2 DEF Alike
<1>7. g[n + 1] = Added(g[n], c)
  <2>1. n + 1 \in 1..Len(more) /\ (n + 1) - 1 = n
    BY <1>1
  <2> QED BY <1>1, <1>3, <2>1 DEF Sums
<1>8. f[n] \in Totals
  BY <1>1, <1>2
<1> QED BY <1>2, <1>3, <1>6, <1>7, <1>8 DEF more

-----------------------------------------------------------------------------
(***************************************************************************)
(* The planning node: its inductive invariant.                             *)
(***************************************************************************)

TraceEvents == [attempt : Nat, phase : {"STARTED", "FINISHED", "FAILED"}]
CallRecords == [outcome : Outcomes, tokens : Counts]
TokensOf(made) == [i \in DOMAIN made |-> made[i].tokens]
Unasked == {"idle", "refused"} \cup Building

PlanTypes ==
    /\ place \in Unasked \cup {"ask", "calling"} \cup PlanEnded
    /\ attempt \in Nat
    /\ calls \in Seq(CallRecords) /\ usages \in Seq(Counts)
    /\ trace \in Seq(TraceEvents)

\* Where the node is among its attempts.
AttemptsInv ==
    /\ place \in Unasked => attempt = 0 /\ calls = <<>> /\ trace = <<>>
    /\ attempt = Len(calls) + (IF place = "calling" THEN 1 ELSE 0)
    /\ attempt <= PLANNING_MAX_ATTEMPTS
    /\ place = "ask" => attempt < PLANNING_MAX_ATTEMPTS
    /\ \A i \in DOMAIN calls :
          i < Len(calls) \/ place \in {"ask", "calling"} => calls[i].outcome \in Retryable

\* The usages that were kept add up to what all calls reported.
UsageInv ==
    /\ SumKnown(usages) = SumKnown(TokensOf(calls))
    /\ place = "planned" <=> metrics # None
    /\ metrics # None => metrics.attempts = Len(calls) /\ metrics.tokens = SumKnown(usages)

\* What the trace has of an attempt that is under way is its start.
TraceInv ==
    \A i \in DOMAIN trace :
        /\ trace[i].attempt <= attempt
        /\ place = "calling" /\ trace[i].attempt = attempt => trace[i].phase = "STARTED"
        /\ trace[i].phase = "FINISHED" => metrics # None /\ trace[i].attempt = metrics.attempts
        /\ \A j \in 1..(i - 1) :
              \/ trace[j].attempt < trace[i].attempt
              \/ trace[j].attempt = trace[i].attempt /\ trace[j].phase = "STARTED"
                 /\ trace[i].phase # "STARTED"

PlanInv == PlanTypes /\ AttemptsInv /\ UsageInv /\ TraceInv

-----------------------------------------------------------------------------
\* A call more, with its outcome and its tokens.
LEMMA CallFacts ==
    ASSUME PlanTypes, NEW r \in CallRecords, calls' = Append(calls, r)
    PROVE  /\ calls' \in Seq(CallRecords) /\ Len(calls') = Len(calls) + 1
           /\ Len(calls) \in Nat
           /\ DOMAIN calls' = 1..(Len(calls) + 1) /\ DOMAIN calls = 1..Len(calls)
           /\ \A i \in DOMAIN calls : calls'[i] = calls[i]
           /\ calls'[Len(calls) + 1] = r
           /\ TokensOf(calls) \in Seq(Counts)
           /\ TokensOf(calls') = Append(TokensOf(calls), r.tokens)
PROOF
<1> DEFINE n == Len(calls)
<1>1. calls \in Seq(CallRecords)
  BY DEF PlanTypes
<1>2. /\ calls' \in Seq(CallRecords) /\ Len(calls') = n + 1 /\ n \in Nat
      /\ DOMAIN calls' = 1..(n + 1) /\ DOMAIN calls = 1..n
      /\ \A i \in 1..n : calls'[i] = calls[i]
      /\ calls'[n + 1] = r
  BY <1>1, AppendProperties, LenProperties
<1>3. \A x \in CallRecords : x.tokens \in Counts
  BY DEF CallRecords
<1>4. \A i \in 1..n : calls[i] \in CallRecords
  BY <1>1, ElementOfSeq
<1>5. TokensOf(calls) \in [1..n -> Counts]
  <2> HIDE DEF n
  <2> QED BY <1>2, <1>3, <1>4 DEF TokensOf
<1>6. TokensOf(calls) \in Seq(Counts) /\ Len(TokensOf(calls)) = n
  <2> HIDE DEF n
  <2> QED BY <1>2, <1>5
<1>7. TokensOf(calls') = [i \in 1..(n + 1) |-> IF i = n + 1 THEN r.tokens ELSE calls[i].tokens]
  <2> HIDE DEF n
  <2> QED BY <1>2 DEF TokensOf
<1>8. Append(TokensOf(calls), r.tokens) =
         [i \in 1..(n + 1) |-> IF i = n + 1 THEN r.tokens ELSE calls[i].tokens]
  <2>1. \A i \in 1..n : TokensOf(calls)[i] = calls[i].tokens
    <3> HIDE DEF n
    <3> QED BY <1>2 DEF TokensOf
  <2>2. r.tokens \in Counts
    BY <1>3
  <2> HIDE DEF n
  <2> QED BY <1>2, <1>6, <2>1, <2>2
<1> QED BY <1>2, <1>6, <1>7, <1>8

\* emit_trace: the trace gets the event, or stays as it was.
LEMMA EmittedFacts ==
    ASSUME PlanTypes, attempt' \in Nat,
           NEW k \in {"STARTED", "FINISHED", "FAILED"}, Emitted(k)
    PROVE  /\ trace' \in Seq(TraceEvents) /\ DOMAIN trace' \subseteq Nat
           /\ DOMAIN trace = 1..Len(trace) /\ Len(trace) \in Nat
           /\ \A i \in DOMAIN trace' : \A j \in 1..(i - 1) :
                 j \in DOMAIN trace /\ trace'[j] = trace[j]
           /\ \A i \in DOMAIN trace' :
                 \/ i \in DOMAIN trace /\ trace'[i] = trace[i]
                 \/ trace'[i].attempt = attempt' /\ trace'[i].phase = k
PROOF
<1> DEFINE e == [attempt |-> attempt', phase |-> k]
           n == Len(trace)
<1>1. trace \in Seq(TraceEvents) /\ e \in TraceEvents /\ e.attempt = attempt' /\ e.phase = k
  BY DEF PlanTypes, TraceEvents
<1>2. n \in Nat /\ DOMAIN trace = 1..n
  BY <1>1, LenProperties
<1>3. CASE trace' = trace
  BY <1>1, <1>2, <1>3
<1>4. CASE trace' = Append(trace, e)
  <2> HIDE DEF e
  <2>1. /\ trace' \in Seq(TraceEvents)
        /\ DOMAIN trace' = 1..(n + 1)
        /\ \A i \in 1..n : trace'[i] = trace[i]
        /\ trace'[n + 1] = e
    BY <1>1, <1>4, AppendProperties, LenProperties
  <2> HIDE DEF n
  <2>2. \A i \in DOMAIN trace' : \A j \in 1..(i - 1) : j \in 1..n
    BY <2>1, <1>2
  <2>3. \A i \in DOMAIN trace' : i \in 1..n \/ i = n + 1
    BY <2>1, <1>2
  <2>4. DOMAIN trace' \subseteq Nat
    BY <2>1, <1>2
  <2> QED BY <1>1, <1>2, <2>1, <2>2, <2>3, <2>4 DEF n
<1> QED BY <1>3, <1>4 DEF Emitted

\* The trace keeps its order: an event of an attempt follows those of earlier
\* attempts and, unless it is a start, the start of its own.
LEMMA TraceHolds ==
    ASSUME PlanInv, attempt' \in Nat,
           NEW k \in {"STARTED", "FINISHED", "FAILED"}, Emitted(k),
           \/ k = "STARTED" /\ attempt' = attempt + 1 /\ metrics' = metrics
           \/ k # "STARTED" /\ attempt' = attempt /\ place = "calling"
              /\ place' # "calling" /\ (metrics # None => metrics' = metrics),
           k = "FINISHED" => metrics' # None /\ metrics'.attempts = attempt'
    PROVE  TraceInv'
PROOF
<1>1. /\ trace' \in Seq(TraceEvents) /\ DOMAIN trace' \subseteq Nat
      /\ DOMAIN trace = 1..Len(trace) /\ Len(trace) \in Nat
      /\ \A i \in DOMAIN trace' : \A j \in 1..(i - 1) :
            j \in DOMAIN trace /\ trace'[j] = trace[j]
      /\ \A i \in DOMAIN trace' :
            \/ i \in DOMAIN trace /\ trace'[i] = trace[i]
            \/ trace'[i].attempt = attempt' /\ trace'[i].phase = k
  BY EmittedFacts DEF PlanInv
<1>2. attempt \in Nat /\ \A i \in DOMAIN trace : trace[i].attempt \in Nat
  <2>1. attempt \in Nat /\ trace \in Seq(TraceEvents)
    BY DEF PlanInv, PlanTypes
  <2>2. \A i \in DOMAIN trace : trace[i] \in TraceEvents
    BY <2>1
  <2> QED BY <2>1, <2>2 DEF TraceEvents
<1>3. TraceInv
  BY DEF PlanInv
<1>4. \A j \in DOMAIN trace :
         \/ trace[j].attempt < attempt'
         \/ trace[j].attempt = attempt' /\ trace[j].phase = "STARTED" /\ k # "STARTED"
  <2> SUFFICES ASSUME NEW j \in DOMAIN trace
               PROVE  \/ trace[j].attempt < attempt'
                      \/ trace[j].attempt = attempt' /\ trace[j].phase = "STARTED"
                         /\ k # "STARTED"
    OBVIOUS
  <2>1. trace[j].attempt <= attempt /\ trace[j].attempt \in Nat
        /\ (place = "calling" /\ trace[j].attempt = attempt => trace[j].phase = "STARTED")
    BY <1>2, <1>3 DEF TraceInv
  <2>2. CASE k = "STARTED"
    <3>1. attempt' = attempt + 1
      BY <2>2
    <3>2. trace[j].attempt < attempt + 1
      BY <2>1, <1>2
    <3> QED BY <3>1, <3>2
  <2>3. CASE k # "STARTED"
    <3>1. attempt' = attempt /\ place = "calling"
      BY <2>3
    <3>2. trace[j].attempt < attempt \/ trace[j].attempt = attempt
      BY <2>1, <1>2
    <3>3. trace[j].attempt = attempt => trace[j].phase = "STARTED"
      BY <2>1, <3>1
    <3> QED BY <2>3, <3>1, <3>2, <3>3
  <2> QED BY <2>2, <2>3
<1>5. SUFFICES ASSUME NEW i \in DOMAIN trace'
               PROVE /\ trace'[i].attempt <= attempt'
                     /\ place' = "calling" /\ trace'[i].attempt = attempt'
                           => trace'[i].phase = "STARTED"
                     /\ trace'[i].phase = "FINISHED" =>
                           metrics' # None /\ trace'[i].attempt = metrics'.attempts
                     /\ \A j \in 1..(i - 1) :
                           \/ trace'[j].attempt < trace'[i].attempt
                           \/ trace'[j].attempt = trace'[i].attempt
                              /\ trace'[j].phase = "STARTED"
                              /\ trace'[i].phase # "STARTED"
  BY DEF TraceInv
<1>6. CASE i \in DOMAIN trace /\ trace'[i] = trace[i]
  <2>1. /\ trace[i].attempt <= attempt /\ trace[i].attempt \in Nat
        /\ trace[i].phase = "FINISHED" =>
              metrics # None /\ trace[i].attempt = metrics.attempts
        /\ \A j \in 1..(i - 1) :
              \/ trace[j].attempt < trace[i].attempt
              \/ trace[j].attempt = trace[i].attempt /\ trace[j].phase = "STARTED"
                 /\ trace[i].phase # "STARTED"
    BY <1>2, <1>3, <1>6 DEF TraceInv
  <2>2. trace[i].attempt <= attempt' /\ (k = "STARTED" => trace[i].attempt # attempt')
    BY <2>1, <1>2
  <2>3. place' = "calling" /\ trace'[i].attempt = attempt' => trace'[i].phase = "STARTED"
    BY <2>2, <1>6
  <2> QED BY <1>1, <1>6, <2>1, <2>2, <2>3
<1>7. CASE trace'[i].attempt = attempt' /\ trace'[i].phase = k
  <2>1. \A j \in 1..(i - 1) : j \in DOMAIN trace /\ trace'[j] = trace[j]
    BY <1>1
  <2> QED BY <1>4, <1>7, <2>1
<1> QED BY <1>1, <1>6, <1>7

\* The next attempt is within the limit.
LEMMA AttemptHolds ==
    ASSUME PlanInv, Attempt
    PROVE  PlanInv'
PROOF
<1>1. /\ place = "ask" /\ place' = "calling" /\ attempt' = attempt + 1 /\ attempt \in Nat
      /\ UNCHANGED <<calls, usages, metrics>> /\ Emitted("STARTED")
  BY DEF Attempt, StartTrace, PlanInv, PlanTypes
<1>2. attempt' \in Nat
  BY <1>1
<1>3. PlanTypes'
  <2>1. trace' \in Seq(TraceEvents)
    BY <1>1, <1>2, EmittedFacts DEF PlanInv
  <2> QED BY <1>1, <1>2, <2>1 DEF PlanInv, PlanTypes
<1>4. AttemptsInv'
  <2>1. Len(calls) \in Nat
    BY LenProperties DEF PlanInv, PlanTypes
  <2> QED BY <1>1, <2>1, PlanningAssumption DEF PlanInv, AttemptsInv, Unasked, Building
<1>5. UsageInv'
  BY <1>1 DEF PlanInv, UsageInv, TokensOf
<1>6. TraceInv'
  BY <1>1, <1>2, TraceHolds
<1> QED BY <1>3, <1>4, <1>5, <1>6 DEF PlanInv

\* A count of tokens that is kept or, when there is none, is not.
LEMMA UsageHolds ==
    ASSUME PlanInv, NEW r \in CallRecords, calls' = Append(calls, r),
           \/ usages' = Append(usages, r.tokens)
           \/ usages' = usages /\ r.tokens = None
    PROVE  /\ usages' \in Seq(Counts)
           /\ SumKnown(usages') = SumKnown(TokensOf(calls'))
PROOF
<1>1. r.tokens \in Counts /\ usages \in Seq(Counts)
      /\ SumKnown(usages) = SumKnown(TokensOf(calls))
  BY DEF CallRecords, PlanInv, PlanTypes, UsageInv
<1>2. TokensOf(calls) \in Seq(Counts) /\ TokensOf(calls') = Append(TokensOf(calls), r.tokens)
  BY CallFacts DEF PlanInv
<1>3. SumKnown(TokensOf(calls')) = Added(SumKnown(usages), r.tokens)
  BY <1>1, <1>2, SumKnownAppend
<1>4. CASE usages' = Append(usages, r.tokens)
  <2>1. usages' \in Seq(Counts)
    BY <1>1, <1>4, AppendProperties
  <2>2. SumKnown(usages') = Added(SumKnown(usages), r.tokens)
    BY <1>1, <1>4, SumKnownAppend
  <2> QED BY <1>3, <2>1, <2>2
<1>5. CASE usages' = usages /\ r.tokens = None
  BY <1>1, <1>3, <1>5 DEF Added
<1> QED BY <1>4, <1>5

\* A proposal ends the node, with the metrics of every attempt.
LEMMA ProposedHolds ==
    ASSUME PlanInv, NEW tokens \in Counts, Proposed(tokens)
    PROVE  PlanInv'
PROOF
<1> DEFINE r == [outcome |-> "valid", tokens |-> tokens]
<1>1. r \in CallRecords /\ r.tokens = tokens
  BY DEF CallRecords, Outcomes
<1>2. /\ place = "calling" /\ place' = "planned" /\ attempt' = attempt /\ attempt \in Nat
      /\ calls' = Append(calls, r) /\ usages' = Append(usages, r.tokens)
      /\ metrics' = [attempts |-> attempt, tokens |-> SumKnown(usages')]
      /\ Emitted("FINISHED")
  BY DEF Proposed, Terminal, PlanInv, PlanTypes
<1> HIDE DEF r
<1>3. usages' \in Seq(Counts) /\ SumKnown(usages') = SumKnown(TokensOf(calls'))
  BY <1>1, <1>2, UsageHolds
<1>4. /\ calls' \in Seq(CallRecords) /\ Len(calls') = Len(calls) + 1 /\ Len(calls) \in Nat
      /\ DOMAIN calls' = 1..(Len(calls) + 1) /\ DOMAIN calls = 1..Len(calls)
      /\ \A i \in DOMAIN calls : calls'[i] = calls[i]
  BY <1>1, <1>2, CallFacts DEF PlanInv
<1>5. metrics' # None /\ metrics'.attempts = attempt /\ metrics'.tokens = SumKnown(usages')
  <2>1. SumKnown(usages') \in Totals
    <3>1. None \in Counts
      BY DEF Counts
    <3> QED BY <1>3, <3>1, SumKnownAppend
  <2>2. metrics' \in [attempts : Nat, tokens : Totals]
    BY <1>2, <2>1
  <2> QED BY <1>2, <2>2, PlanningAssumption DEF Totals
<1>6. metrics = None
  BY <1>2 DEF PlanInv, UsageInv
<1>7. PlanTypes'
  <2>1. trace' \in Seq(TraceEvents)
    BY <1>2, EmittedFacts DEF PlanInv
  <2> QED BY <1>2, <1>3, <1>4, <2>1 DEF PlanTypes, PlanEnded
<1>8. AttemptsInv'
  <2>1. AttemptsInv
    BY DEF PlanInv
  <2>2. \A i \in DOMAIN calls' : i < Len(calls') => calls'[i].outcome \in Retryable
    <3> SUFFICES ASSUME NEW i \in DOMAIN calls', i < Len(calls')
                 PROVE  calls'[i].outcome \in Retryable
      OBVIOUS
    <3>1. i \in DOMAIN calls
      BY <1>4
    <3> QED BY <1>2, <1>4, <2>1, <3>1 DEF AttemptsInv
  <2> QED BY <1>2, <1>4, <2>1, <2>2 DEF AttemptsInv, Unasked, Building
<1>9. UsageInv'
  <2>1. attempt = Len(calls')
    BY <1>2, <1>4 DEF PlanInv, AttemptsInv
  <2> QED BY <1>2, <1>3, <1>5, <2>1 DEF UsageInv
<1>10. TraceInv'
  BY <1>2, <1>5, <1>6, TraceHolds
<1> QED BY <1>7, <1>8, <1>9, <1>10 DEF PlanInv

\* Anything else is asked for again, while there are attempts left and the
\* error is one that is retried.
LEMMA NotProposedHolds ==
    ASSUME PlanInv, NEW tokens \in Counts, NEW outcome \in Outcomes \ {"valid"},
           ~Answered(outcome) => tokens = None, NotProposed(outcome, tokens)
    PROVE  PlanInv'
PROOF
<1> DEFINE r == [outcome |-> outcome, tokens |-> tokens]
<1>1. r \in CallRecords /\ r.tokens = tokens /\ r.outcome = outcome
  BY DEF CallRecords
<1>2. /\ place = "calling" /\ attempt' = attempt /\ attempt \in Nat
      /\ calls' = Append(calls, r) /\ metrics' = metrics
      /\ place' \in {"configuration", "ask", "unavailable"}
      /\ (place' = "ask" => outcome \in Retryable /\ attempt < PLANNING_MAX_ATTEMPTS)
      /\ Emitted("FAILED")
  BY DEF NotProposed, Terminal, PlanInv, PlanTypes
<1>3. usages' = Append(usages, r.tokens) \/ (usages' = usages /\ r.tokens = None)
  BY <1>1 DEF NotProposed
<1> HIDE DEF r
<1>4. usages' \in Seq(Counts) /\ SumKnown(usages') = SumKnown(TokensOf(calls'))
  BY <1>1, <1>2, <1>3, UsageHolds
<1>5. /\ calls' \in Seq(CallRecords) /\ Len(calls') = Len(calls) + 1 /\ Len(calls) \in Nat
      /\ DOMAIN calls' = 1..(Len(calls) + 1) /\ DOMAIN calls = 1..Len(calls)
      /\ \A i \in DOMAIN calls : calls'[i] = calls[i]
      /\ calls'[Len(calls) + 1] = r
  BY <1>1, <1>2, CallFacts DEF PlanInv
<1>6. metrics = None
  BY <1>2 DEF PlanInv, UsageInv
<1>7. PlanTypes'
  <2>1. trace' \in Seq(TraceEvents)
    BY <1>2, EmittedFacts DEF PlanInv
  <2> QED BY <1>2, <1>4, <1>5, <2>1 DEF PlanTypes, PlanEnded
<1>8. AttemptsInv'
  <2>1. AttemptsInv
    BY DEF PlanInv
  <2>2. \A i \in DOMAIN calls' :
           i < Len(calls') \/ place' \in {"ask", "calling"} => calls'[i].outcome \in Retryable
    <3> SUFFICES ASSUME NEW i \in DOMAIN calls', i < Len(calls') \/ place' = "ask"
                 PROVE  calls'[i].outcome \in Retryable
      BY <1>2
    <3>1. CASE i \in DOMAIN calls
      BY <1>2, <1>5, <2>1, <3>1 DEF AttemptsInv
    <3>2. CASE i = Len(calls) + 1
      BY <1>1, <1>2, <1>5, <3>2
    <3> QED BY <1>5, <3>1, <3>2
  <2> QED BY <1>2, <1>5, <2>1, <2>2 DEF AttemptsInv, Unasked, Building
<1>9. UsageInv'
  BY <1>2, <1>4, <1>6 DEF UsageInv
<1>10. TraceInv'
  BY <1>2, <1>6, TraceHolds
<1> QED BY <1>7, <1>8, <1>9, <1>10 DEF PlanInv

\* Building the prompt asks nothing.
LEMMA BuildPromptHolds ==
    ASSUME PlanInv, BuildPrompt, UNCHANGED planVars
    PROVE  PlanInv'
PROOF
<1>1. place \in Building /\ place' \in Building \cup {"refused", "ask"}
  <2>1. CASE Allocate \/ Assemble
    BY <2>1 DEF Allocate, Assemble, Building
  <2>2. ASSUME NEW s \in {"goal", "tasks", "projects", "grounding"}, Reclaim(s)
        PROVE  place \in Building /\ place' \in Building \cup {"refused", "ask"}
    <3>1. place = s /\ (place' = "refused" \/ place' = After[s])
      BY <2>2 DEF Reclaim
    <3> QED BY <3>1 DEF After, Building
  <2> QED BY <2>1, <2>2 DEF BuildPrompt
<1>2. UNCHANGED <<attempt, calls, usages, metrics, trace>>
  BY DEF planVars
<1>3. place # "planned" /\ place # "calling" /\ place' # "planned" /\ place' # "calling"
  BY <1>1 DEF Building
<1>4. attempt = 0 /\ calls = <<>> /\ trace = <<>>
  BY <1>1 DEF PlanInv, AttemptsInv, Unasked
<1>5. PlanTypes'
  BY <1>1, <1>2 DEF PlanInv, PlanTypes, Unasked
<1>6. AttemptsInv'
  BY <1>2, <1>3, <1>4, PlanningAssumption DEF PlanInv, AttemptsInv
<1>7. UsageInv'
  BY <1>2, <1>3 DEF PlanInv, UsageInv, TokensOf
<1>8. TraceInv'
  BY <1>2, <1>4 DEF TraceInv
<1> QED BY <1>5, <1>6, <1>7, <1>8 DEF PlanInv

\* Nothing was asked yet.
LEMMA InitPlanInv ==
    ASSUME PlanInit, place \in {"idle", "allocate"}
    PROVE  PlanInv
PROOF
<1>1. /\ attempt = 0 /\ calls = <<>> /\ usages = <<>> /\ trace = <<>> /\ metrics = None
  BY DEF PlanInit
<1>2. PlanTypes
  BY <1>1 DEF PlanTypes, Unasked, Building
<1>3. AttemptsInv
  BY <1>1, PlanningAssumption DEF AttemptsInv
<1>4. UsageInv
  <2>1. TokensOf(<<>>) = <<>>
    BY DEF TokensOf
  <2> QED BY <1>1, <2>1 DEF UsageInv
<1>5. TraceInv
  BY <1>1 DEF TraceInv
<1> QED BY <1>2, <1>3, <1>4, <1>5 DEF PlanInv

\* Every step, of the planning node, of the loop or of the consumer.
LEMMA NextPlanInv ==
    ASSUME PlanInv, [Next]_vars
    PROVE  PlanInv'
PROOF
<1>1. CASE PlanStep
  <2>1. CASE BuildPrompt /\ UNCHANGED planVars
    BY <2>1, BuildPromptHolds
  <2>2. CASE Attempt
    BY <2>2, AttemptHolds
  <2>3. CASE \E tokens \in Tokens \cup {None} : Proposed(tokens)
    BY <2>3, ProposedHolds DEF Counts
  <2>4. CASE \E tokens \in Tokens \cup {None}, outcome \in Outcomes \ {"valid"} :
                /\ ~Answered(outcome) => tokens = None
                /\ NotProposed(outcome, tokens)
    BY <2>4, NotProposedHolds DEF Counts
  <2> QED BY <1>1, <2>1, <2>2, <2>3, <2>4 DEF PlanStep
<1>2. CASE UNCHANGED <<place, planVars>>
  <2>1. UNCHANGED <<place, attempt, calls, usages, metrics, trace>>
    BY <1>2 DEF planVars
  <2> QED BY <2>1 DEF PlanInv, PlanTypes, AttemptsInv, UsageInv, TraceInv, TokensOf
<1> QED BY <1>1, <1>2 DEF Next, Step, vars

-----------------------------------------------------------------------------
(***************************************************************************)
(* The planning node: theorems.                                            *)
(***************************************************************************)

\* The planning node keeps its invariant, however the provider answers and
\* whatever the trace loses.
THEOREM PlanInvariant == Spec => []PlanInv
PROOF
<1>1. Init => PlanInv
  BY InitPlanInv DEF Init
<1>2. PlanInv /\ [Next]_vars => PlanInv'
  BY NextPlanInv
<1> QED BY <1>1, <1>2, PTL DEF Spec

\* generate_plan: the limit on attempts, what is retried, the metrics of all
\* attempts and at most one end of each in the trace.
THEOREM EveryAttemptIsAccounted == Spec => []AttemptsAreAccounted
PROOF
<1>1. PlanInv => AttemptsAreAccounted
  <2> SUFFICES ASSUME PlanInv PROVE AttemptsAreAccounted
    OBVIOUS
  <2>1. PlanTypes /\ AttemptsInv /\ UsageInv /\ TraceInv
    BY DEF PlanInv
  <2>2. Len(calls) <= PLANNING_MAX_ATTEMPTS
    <3>1. Len(calls) \in Nat
      BY <2>1, LenProperties DEF PlanTypes
    <3> QED BY <2>1, <3>1, PlanningAssumption DEF AttemptsInv
  <2>3. \A i \in DOMAIN calls : i < Len(calls) => calls[i].outcome \in Retryable
    BY <2>1 DEF AttemptsInv
  <2>4. place = "refused" => calls = <<>> /\ trace = <<>>
    BY <2>1 DEF AttemptsInv, Unasked
  <2>5. /\ place = "planned" <=> metrics # None
        /\ metrics # None =>
              /\ metrics.attempts = Len(calls)
              /\ metrics.tokens = SumKnown([i \in DOMAIN calls |-> calls[i].tokens])
    BY <2>1 DEF UsageInv, TokensOf
  <2>6. \A i \in DOMAIN trace :
          /\ trace[i].phase = "FINISHED" =>
                metrics # None /\ trace[i].attempt = metrics.attempts
          /\ \A j \in 1..(i - 1) :
                \/ trace[j].attempt < trace[i].attempt
                \/ trace[j].attempt = trace[i].attempt /\ trace[j].phase = "STARTED"
                   /\ trace[i].phase # "STARTED"
    BY <2>1 DEF TraceInv
  <2> QED BY <2>2, <2>3, <2>4, <2>5, <2>6 DEF AttemptsAreAccounted
<1> QED BY <1>1, PlanInvariant, PTL

-----------------------------------------------------------------------------
(***************************************************************************)
(* The prompt: how many items are retained.                                *)
(***************************************************************************)

\* The identities of some items are a length, and of none they are nothing.
LEMMA IdentitiesAreALength ==
    ASSUME NEW items \in Seq(Items), NEW n \in 0..Len(items)
    PROVE  Identities(items, n) \in Nat /\ (n = 0 => Identities(items, n) = 0)
PROOF
<1> DEFINE step == [i \in Nat |-> [t \in Nat |->
                      IF i \in 1..n THEN t + items[i].identity ELSE t]]
           From(f) == [i \in 0..n |-> IF i = 0 THEN 0 ELSE f[i - 1] + items[i].identity]
           sum == CHOOSE f : f = From(f)
<1>1. n \in Nat /\ \A i \in 1..n : items[i].identity \in Nat
  <2>1. Len(items) \in Nat /\ \A i \in 1..Len(items) : items[i] \in Items
    BY LenProperties, ElementOfSeq
  <2> QED BY <2>1 DEF Items
<1>2. step \in Steps(Nat) /\ 0 \in Nat
  BY <1>1 DEF Steps
<1>3. Computable(Nat, 0, step, n)
  <2> HIDE DEF step
  <2> QED BY <1>1, <1>2, PrimitiveRecursion
<1>4. PICK g \in [0..n -> Nat] : g[0] = 0 /\ \A i \in 1..n : g[i] = step[i][g[i - 1]]
  BY <1>3 DEF Computable
<1>5. g = From(g)
  <2>1. ASSUME NEW i \in 0..n PROVE g[i] = From(g)[i]
    <3>1. CASE i = 0
      BY <1>4, <3>1
    <3>2. CASE i # 0
      <4>1. i \in 1..n /\ i \in Nat /\ g[i - 1] \in Nat
        BY <3>2, <1>1, <1>4
      <4> QED BY <1>4, <4>1
    <3> QED BY <3>1, <3>2
  <2> QED BY <2>1
<1>6. sum = From(sum)
  <2> HIDE DEF From
  <2> QED BY <1>5
<1>7. sum[n] = g[n]
  <2> HIDE DEF sum
  <2>1. \A i \in 0..n : sum[i] = From(sum)[i] /\ g[i] = From(g)[i]
    <3> HIDE DEF From
    <3> QED BY <1>5, <1>6
  <2>2. GoAlike(sum, g, n)
    BY <2>1, <1>1 DEF GoAlike
  <2>3. Alike(sum, g, n)
    BY <1>1, <2>2, SameValues
  <2> QED BY <1>1, <2>3 DEF Alike
<1>8. Identities(items, n) = sum[n] + Commas(n)
  BY DEF Identities
<1> HIDE DEF sum
<1>9. Commas(n) \in Nat /\ g[n] \in Nat /\ (n = 0 => g[n] = 0 /\ Commas(n) = 0)
  BY <1>1, <1>4 DEF Commas
<1> QED BY <1>7, <1>8, <1>9

\* What is retained fits, or is nothing; and the next item does not fit.
LEMMA RetainedFits ==
    ASSUME NEW s \in Sections, NEW items \in Seq(Items), NEW b \in Int
    PROVE  LET n == Retained(s, items, b)
           IN  /\ n \in 0..Len(items) /\ (n # 0 => Frame[s] + Identities(items, n) <= b)
               /\ n # Len(items) => Frame[s] + Identities(items, n + 1) > b
PROOF
<1> DEFINE L == Len(items)
           Stop(i) == i = L \/ Frame[s] + Identities(items, i + 1) > b
           step == [k \in Nat |-> [t \in 0..L |->
                      IF k \in 1..L THEN IF Stop(L - k) THEN L - k ELSE t ELSE t]]
           From(f) == [i \in 0..L |-> IF Stop(i) THEN i ELSE f[i + 1]]
           count == CHOOSE f : f = From(f)
<1>1. L \in Nat
  BY LenProperties
<1>2. Retained(s, items, b) = count[0]
  BY DEF Retained
<1> HIDE DEF L
<1>3. Computable(0..L, L, step, L)
  <2>1. step \in Steps(0..L) /\ L \in 0..L
    <3> HIDE DEF Stop
    <3> QED BY <1>1 DEF Steps
  <2> HIDE DEF step
  <2> QED BY <1>1, <2>1, PrimitiveRecursion
<1>4. PICK g \in [0..L -> 0..L] : g[0] = L /\ \A k \in 1..L : g[k] = step[k][g[k - 1]]
  BY <1>3 DEF Computable
<1>5. \A k \in 1..L : g[k] = IF Stop(L - k) THEN L - k ELSE g[k - 1]
  <2> SUFFICES ASSUME NEW k \in 1..L PROVE g[k] = IF Stop(L - k) THEN L - k ELSE g[k - 1]
    OBVIOUS
  <2>1. k \in Nat /\ k - 1 \in 0..L
    BY <1>1
  <2> HIDE DEF Stop
  <2> QED BY <1>4, <2>1
<1> DEFINE h == [i \in 0..L |-> g[L - i]]
<1>6. h = From(h)
  <2>1. ASSUME NEW i \in 0..L PROVE h[i] = IF Stop(i) THEN i ELSE h[i + 1]
    <3>1. CASE i = L
      <4>1. Stop(i) /\ L - i = 0
        BY <3>1, <1>1
      <4> QED BY <4>1, <3>1, <1>4
    <3>2. CASE i # L
      <4>1. L - i \in 1..L /\ L - (L - i) = i /\ (L - i) - 1 = L - (i + 1) /\ i + 1 \in 0..L
        BY <3>2, <1>1
      <4>2. g[L - i] = IF Stop(i) THEN i ELSE g[L - (i + 1)]
        <5> HIDE DEF Stop
        <5> QED BY <1>5, <4>1
      <4> HIDE DEF Stop
      <4> QED BY <4>1, <4>2
    <3> QED BY <3>1, <3>2
  <2> HIDE DEF h, Stop
  <2>2. h = [i \in 0..L |-> h[i]]
    BY DEF h
  <2> QED BY <2>1, <2>2
<1>7. count = From(count)
  <2> HIDE DEF From, h
  <2> QED BY <1>6
<1> HIDE DEF count
<1> DEFINE FitsFrom(i) == /\ count[i] \in i..L
                          /\ count[i] # i => Frame[s] + Identities(items, count[i]) <= b
                          /\ count[i] # L => Frame[s] + Identities(items, count[i] + 1) > b
           T == {k \in 0..L : FitsFrom(L - k)}
<1>8. \A i \in 0..L : count[i] = IF Stop(i) THEN i ELSE count[i + 1]
  <2> HIDE DEF Stop
  <2> QED BY <1>7
<1>9. 0 \in T
  <2>1. L - 0 = L /\ Stop(L) /\ L \in 0..L
    BY <1>1
  <2>2. count[L] = L
    <3> HIDE DEF Stop
    <3> QED BY <1>8, <2>1
  <2> QED BY <1>1, <2>1, <2>2
<1>10. \A k \in 1..L : k - 1 \in T => k \in T
  <2> SUFFICES ASSUME NEW k \in 1..L, k - 1 \in T PROVE FitsFrom(L - k)
    <3> HIDE DEF FitsFrom
    <3> QED BY <1>1
  <2> DEFINE i == L - k
  <2>1. i \in 0..L /\ i # L /\ i + 1 \in 0..L /\ L - (k - 1) = i + 1 /\ i \in Nat
    BY <1>1
  <2>2. FitsFrom(i + 1)
    BY <2>1
  <2>3. Identities(items, i + 1) \in Nat /\ Frame[s] \in Nat
    BY <2>1, IdentitiesAreALength, FrameAssumption DEF L
  <2> HIDE DEF i
  <2>4. CASE Stop(i)
    <3>1. count[i] = i
      <4> HIDE DEF Stop
      <4> QED BY <1>8, <2>1, <2>4
    <3>2. FitsFrom(i)
      BY <3>1, <2>1, <2>4, <1>1
    <3> QED BY <3>2 DEF i
  <2>5. CASE ~Stop(i)
    <3>1. count[i] = count[i + 1]
      <4> HIDE DEF Stop
      <4> QED BY <1>8, <2>1, <2>5
    <3>2. Frame[s] + Identities(items, i + 1) <= b
      BY <2>3, <2>5
    <3>3. FitsFrom(i)
      <4> DEFINE c == count[i + 1]
      <4>1. /\ c \in (i + 1)..L /\ (c # i + 1 => Frame[s] + Identities(items, c) <= b)
            /\ c # L => Frame[s] + Identities(items, c + 1) > b
        BY <2>2
      <4> HIDE DEF c
      <4>2. c \in i..L
        BY <4>1, <2>1, <1>1
      <4>3. Frame[s] + Identities(items, c) <= b
        BY <4>1, <3>2
      <4> QED BY <3>1, <4>1, <4>2, <4>3 DEF c
    <3> QED BY <3>3 DEF i
  <2> QED BY <2>4, <2>5
<1>11. L \in T
  <2>1. 0..L \subseteq T
    <3> HIDE DEF T
    <3> QED BY <1>1, <1>9, <1>10, IntervalInduction
  <2>2. L \in 0..L
    BY <1>1
  <2> HIDE DEF T
  <2> QED BY <2>1, <2>2
<1>12. FitsFrom(0)
  <2>1. L - L = 0
    BY <1>1
  <2> QED BY <1>11, <2>1
<1> QED BY <1>2, <1>12 DEF L

-----------------------------------------------------------------------------
(***************************************************************************)
(* The prompt: the binary search for a prefix.                             *)
(***************************************************************************)

\* A safe prefix is a prefix, and the shortest is empty.
LEMMA SafePrefixIsAPrefix ==
    ASSUME NEW text \in Texts, NEW m \in 0..text.length
    PROVE  SafePrefix(text, m) \in 0..text.length /\ (m = 0 => SafePrefix(text, m) = 0)
PROOF
<1>1. text.length \in Nat /\ text.cluster \in Nat \ {0}
  BY DEF Texts
<1>2. \A a \in Nat, c \in Nat \ {0} : a \div c \in Nat /\ (a \div c) * c <= a
  OBVIOUS
<1>3. \A c \in Nat \ {0} : 0 \div c = 0 /\ 0 * c = 0
  OBVIOUS
<1>4. CASE m >= text.length
  BY <1>1, <1>4 DEF SafePrefix
<1>5. CASE ~(m >= text.length)
  <2>1. SafePrefix(text, m) = (m \div text.cluster) * text.cluster
    BY <1>5 DEF SafePrefix
  <2>2. m \in Nat
    BY <1>1
  <2>3. m \div text.cluster \in Nat /\ (m \div text.cluster) * text.cluster <= m
    BY <1>1, <1>2, <2>2
  <2>4. (m \div text.cluster) * text.cluster \in Nat
    BY <1>1, <2>3
  <2>5. m = 0 => (m \div text.cluster) * text.cluster = 0
    BY <1>1, <1>3
  <2> QED BY <1>1, <2>1, <2>2, <2>3, <2>4, <2>5
<1> QED BY <1>4, <1>5

\* The length of what is kept is a length.
LEMMA SizeIsALength ==
    ASSUME NEW text \in Texts, NEW result \in Results, result # Nothing
    PROVE  Size(text, result) \in Nat
PROOF
<1>1. result.kept \in Nat /\ text.width \in Nat /\ TRUNCATION_MARKER \in Nat
  BY FrameAssumption DEF Results, Texts
<1>2. result.kept * text.width \in Nat
  BY <1>1
<1> QED BY <1>1, <1>2 DEF Size

\* Where the search is, the step it takes, and what it knows.
SearchStates(text) ==
    [low : 0..(text.length + 1), high : -1..text.length, found : -1..text.length]
Moved(text, room, at) ==
    LET middle == (at.low + at.high) \div 2
    IN  IF PrefixFits(text, middle, room)
        THEN [low |-> middle + 1, high |-> at.high, found |-> SafePrefix(text, middle)]
        ELSE [low |-> at.low, high |-> middle - 1, found |-> at.found]
SearchInv(text, room, at) ==
    /\ at.found = -1 => at.low = 0
    /\ at.found # -1 => Size(text, Prefix(at.found)) <= room
    /\ at.high < text.length => ~PrefixFits(text, at.high + 1, room)

\* A step of the search makes its interval smaller and keeps what it knows.
LEMMA SearchMoves ==
    ASSUME NEW text \in Texts, NEW room \in Int, NEW at \in SearchStates(text),
           at.low <= at.high
    PROVE  /\ Moved(text, room, at) \in SearchStates(text)
           /\ Moved(text, room, at).high - Moved(text, room, at).low < at.high - at.low
           /\ SearchInv(text, room, at) => SearchInv(text, room, Moved(text, room, at))
PROOF
<1> DEFINE L == text.length
           middle == (at.low + at.high) \div 2
           next == Moved(text, room, at)
<1>1. L \in Nat /\ at.low \in 0..(L + 1) /\ at.high \in -1..L /\ at.found \in -1..L
  BY DEF Texts, SearchStates
<1>2. middle \in Nat /\ at.low <= middle /\ middle <= at.high
  <2> DEFINE l == at.low
             h == at.high
  <2>1. l \in Nat /\ h \in Nat /\ l <= h
    BY <1>1
  <2> HIDE DEF l, h
  <2>2. (l + h) \div 2 \in Nat /\ l <= (l + h) \div 2 /\ (l + h) \div 2 <= h
    BY <2>1
  <2> QED BY <2>2 DEF l, h
<1>3. next = IF PrefixFits(text, middle, room)
             THEN [low |-> middle + 1, high |-> at.high, found |-> SafePrefix(text, middle)]
             ELSE [low |-> at.low, high |-> middle - 1, found |-> at.found]
  BY DEF Moved
<1>4. middle \in 0..L
  BY <1>1, <1>2
<1>5. SafePrefix(text, middle) \in 0..L
  <2> HIDE DEF middle
  <2> QED BY <1>4, SafePrefixIsAPrefix
<1> HIDE DEF middle, next, L
<1>6. CASE PrefixFits(text, middle, room)
  <2>1. /\ next.low = middle + 1 /\ next.high = at.high
        /\ next.found = SafePrefix(text, middle)
        /\ next = [low |-> middle + 1, high |-> at.high, found |-> SafePrefix(text, middle)]
    BY <1>3, <1>6
  <2>2. next \in SearchStates(text)
    BY <1>1, <1>2, <1>4, <1>5, <2>1 DEF SearchStates, L
  <2>3. next.high - next.low < at.high - at.low
    BY <1>1, <1>2, <2>1
  <2>4. SearchInv(text, room, at) => SearchInv(text, room, next)
    <3>1. Size(text, Prefix(SafePrefix(text, middle))) <= room
      BY <1>6 DEF PrefixFits
    <3> QED BY <1>5, <2>1, <3>1 DEF SearchInv
  <2> QED BY <2>2, <2>3, <2>4 DEF next
<1>7. CASE ~PrefixFits(text, middle, room)
  <2>1. /\ next.low = at.low /\ next.high = middle - 1 /\ next.found = at.found
        /\ next = [low |-> at.low, high |-> middle - 1, found |-> at.found]
    BY <1>3, <1>7
  <2>2. next \in SearchStates(text)
    BY <1>1, <1>2, <1>4, <2>1 DEF SearchStates, L
  <2>3. next.high - next.low < at.high - at.low
    BY <1>1, <1>2, <2>1
  <2>4. SearchInv(text, room, at) => SearchInv(text, room, next)
    <3>1. next.high + 1 = middle
      BY <1>2, <2>1
    <3> QED BY <1>7, <2>1, <3>1 DEF SearchInv
  <2> QED BY <2>2, <2>3, <2>4 DEF next
<1> QED BY <1>6, <1>7

\* The search from any point: what it found, or the search from the next.
Finds(text, room, best) ==
    \A at \in SearchStates(text) :
        best[at] = IF at.low > at.high THEN at.found ELSE best[Moved(text, room, at)]

\* The search has a result, since its intervals get smaller.
LEMMA SearchIsDefined ==
    ASSUME NEW text \in Texts, NEW room \in Int
    PROVE  \E best : /\ Finds(text, room, best)
                     /\ Search(text, room) =
                           best[[low |-> 0, high |-> text.length, found |-> -1]]
PROOF
<1> DEFINE L == text.length
           D == SearchStates(text)
           S == [D -> -1..L]
           Once(F) == [at \in D |->
                         IF at.low > at.high THEN at.found ELSE F[Moved(text, room, at)]]
           step == [k \in Nat |-> [F \in S |-> Once(F)]]
           none == [at \in D |-> at.found]
<1>1. L \in Nat /\ \A at \in D : /\ at.low \in Nat /\ at.high \in Int /\ at.found \in -1..L
                                 /\ at.high - at.low <= L
  BY DEF Texts, SearchStates
<1>2. \A at \in D : ~(at.low > at.high) =>
         /\ Moved(text, room, at) \in D
         /\ Moved(text, room, at).high - Moved(text, room, at).low < at.high - at.low
  <2> SUFFICES ASSUME NEW at \in D, ~(at.low > at.high)
               PROVE  /\ Moved(text, room, at) \in D
                      /\ Moved(text, room, at).high - Moved(text, room, at).low
                            < at.high - at.low
    OBVIOUS
  <2>1. at.low <= at.high
    BY <1>1
  <2> QED BY <2>1, SearchMoves
<1> HIDE DEF L, D
<1>3. Computable(S, none, step, L + 2)
  <2>1. none \in S
    BY <1>1
  <2>2. \A F \in S : Once(F) \in S
    BY <1>1, <1>2
  <2>3. step \in Steps(S)
    <3> HIDE DEF Once, S
    <3> QED BY <2>2 DEF Steps
  <2>4. L + 2 \in Nat
    BY <1>1
  <2> HIDE DEF step, none, S
  <2> QED BY <2>1, <2>3, <2>4, PrimitiveRecursion
<1>4. PICK g \in [0..(L + 2) -> S] :
         g[0] = none /\ \A k \in 1..(L + 2) : g[k] = step[k][g[k - 1]]
  <2> HIDE DEF step, none, S
  <2> QED BY <1>3 DEF Computable
<1>5. \A k \in 1..(L + 2) : g[k] = Once(g[k - 1])
  <2> SUFFICES ASSUME NEW k \in 1..(L + 2) PROVE g[k] = Once(g[k - 1])
    OBVIOUS
  <2>1. k \in Nat /\ k - 1 \in 0..(L + 2)
    BY <1>1
  <2>2. g[k - 1] \in S
    <3> HIDE DEF S
    <3> QED BY <2>1, <1>4
  <2> HIDE DEF Once, S
  <2> QED BY <1>4, <2>1, <2>2
<1> DEFINE Settled(k) == \A at \in D : at.high - at.low < k => g[k + 1][at] = g[k][at]
           T == {k \in 0..(L + 1) : Settled(k)}
<1>6. \A k \in 1..(L + 2), at \in D :
         g[k][at] = IF at.low > at.high THEN at.found ELSE g[k - 1][Moved(text, room, at)]
  <2> SUFFICES ASSUME NEW k \in 1..(L + 2), NEW at \in D
               PROVE  g[k][at] = IF at.low > at.high THEN at.found
                                 ELSE g[k - 1][Moved(text, room, at)]
    OBVIOUS
  <2>1. g[k] = Once(g[k - 1])
    BY <1>5
  <2> QED BY <2>1
<1>7. 0 \in T
  <2> SUFFICES ASSUME NEW at \in D, at.high - at.low < 0 PROVE g[0 + 1][at] = g[0][at]
    BY <1>1
  <2>1. at.low > at.high
    BY <1>1
  <2>2. g[0][at] = at.found
    BY <1>4
  <2>3. 1 \in 1..(L + 2) /\ 0 + 1 = 1
    BY <1>1
  <2>4. g[1][at] = at.found
    BY <1>6, <2>1, <2>3
  <2> QED BY <2>2, <2>3, <2>4
<1>8. \A k \in 1..(L + 1) : k - 1 \in T => k \in T
  <2> SUFFICES ASSUME NEW k \in 1..(L + 1), k - 1 \in T, NEW at \in D, at.high - at.low < k
               PROVE  g[k + 1][at] = g[k][at]
    <3>1. 1..(L + 1) \subseteq 0..(L + 1)
      BY <1>1
    <3> QED BY <3>1
  <2>1. k \in 1..(L + 2) /\ k + 1 \in 1..(L + 2) /\ (k + 1) - 1 = k /\ (k - 1) + 1 = k /\ k \in Nat
    BY <1>1
  <2>2. CASE at.low > at.high
    BY <1>6, <2>1, <2>2
  <2>3. CASE ~(at.low > at.high)
    <3> DEFINE m == Moved(text, room, at)
    <3>1. m \in D /\ m.high - m.low < at.high - at.low
      BY <1>2, <2>3
    <3>2. m.high - m.low < k - 1
      <4>1. m.high \in Int /\ m.low \in Int /\ at.high \in Int /\ at.low \in Int
        <5> HIDE DEF m
        <5> QED BY <1>1, <3>1
      <4> HIDE DEF m
      <4> QED BY <3>1, <4>1, <2>1
    <3>3. g[k][m] = g[k - 1][m]
      <4> HIDE DEF m
      <4> QED BY <3>1, <3>2, <2>1
    <3>4. g[k + 1][at] = g[k][m] /\ g[k][at] = g[k - 1][m]
      BY <1>6, <2>1, <2>3
    <3> QED BY <3>3, <3>4
  <2> QED BY <2>2, <2>3
<1>9. L + 1 \in T
  <2>1. 0..(L + 1) \subseteq T
    <3>1. L + 1 \in Nat
      BY <1>1
    <3> HIDE DEF T
    <3> QED BY <3>1, <1>7, <1>8, IntervalInduction
  <2>2. L + 1 \in 0..(L + 1)
    BY <1>1
  <2> HIDE DEF T
  <2> QED BY <2>1, <2>2
<1> DEFINE h == g[L + 1]
<1>10. \A at \in D : h[at] = IF at.low > at.high THEN at.found ELSE h[Moved(text, room, at)]
  <2> SUFFICES ASSUME NEW at \in D
               PROVE  h[at] = IF at.low > at.high THEN at.found ELSE h[Moved(text, room, at)]
    OBVIOUS
  <2>1. at.high - at.low < L + 1 /\ L + 2 \in 1..(L + 2) /\ (L + 2) - 1 = L + 1
        /\ (L + 1) + 1 = L + 2
    <3>1. at.high - at.low <= L /\ at.high \in Int /\ at.low \in Int
      BY <1>1
    <3> QED BY <3>1, <1>1
  <2>2. g[L + 2][at] = g[L + 1][at]
    BY <1>9, <2>1
  <2> QED BY <1>6, <2>1, <2>2
<1>11. h = Once(h)
  <2>1. h \in S
    <3>1. L + 1 \in 0..(L + 2)
      BY <1>1
    <3> HIDE DEF S
    <3> QED BY <1>4, <3>1
  <2> HIDE DEF h
  <2> QED BY <1>10, <2>1
<1> DEFINE From(F) == [at \in D |->
                         LET middle == (at.low + at.high) \div 2
                         IN  IF at.low > at.high THEN at.found
                             ELSE IF PrefixFits(text, middle, room)
                             THEN F[[low |-> middle + 1, high |-> at.high,
                                     found |-> SafePrefix(text, middle)]]
                             ELSE F[[low |-> at.low, high |-> middle - 1,
                                     found |-> at.found]]]
           best == CHOOSE F : F = From(F)
<1>12. \A F : From(F) = Once(F)
  <2> SUFFICES ASSUME NEW F, NEW at \in D PROVE From(F)[at] = Once(F)[at]
    OBVIOUS
  <2> QED BY DEF Moved
<1>13. best = Once(best)
  <2>1. h = From(h)
    <3> HIDE DEF h, From, Once
    <3> QED BY <1>11, <1>12
  <2>2. best = From(best)
    <3> HIDE DEF h, From
    <3> QED BY <2>1
  <2> HIDE DEF best, From, Once
  <2> QED BY <2>2, <1>12
<1>14. Search(text, room) = best[[low |-> 0, high |-> L, found |-> -1]]
  BY DEF Search, D, L, SearchStates
<1>15. Finds(text, room, best)
  <2> HIDE DEF best
  <2>1. \A at \in D : best[at] = Once(best)[at]
    <3> HIDE DEF Once
    <3> QED BY <1>13
  <2> QED BY <2>1 DEF Finds, D
<1> HIDE DEF best
<1> QED BY <1>14, <1>15 DEF L

\* What the search finds fits; when it finds nothing, the marker does not fit.
LEMMA SearchFits ==
    ASSUME NEW text \in Texts, NEW room \in Int
    PROVE  LET found == Search(text, room)
           IN  /\ found \in -1..text.length
               /\ found # -1 => Size(text, Prefix(found)) <= room
               /\ found = -1 => TRUNCATION_MARKER > room
PROOF
<1> DEFINE L == text.length
           D == SearchStates(text)
           Good(found) == /\ found \in -1..L
                          /\ found # -1 => Size(text, Prefix(found)) <= room
                          /\ found = -1 => TRUNCATION_MARKER > room
           first == [low |-> 0, high |-> L, found |-> -1]
<1>1. PICK best : Finds(text, room, best) /\ Search(text, room) = best[first]
  BY SearchIsDefined
<1>2. L \in Nat /\ \A at \in D : /\ at.low \in 0..(L + 1) /\ at.high \in -1..L
                                 /\ at.found \in -1..L
  BY DEF Texts, SearchStates
<1> DEFINE T == {k \in 0..(L + 1) : \A at \in D :
                   at.high - at.low < k /\ SearchInv(text, room, at) => Good(best[at])}
<1>3. ASSUME NEW at \in D, at.low > at.high, SearchInv(text, room, at)
      PROVE  Good(best[at])
  <2>1. best[at] = at.found
    BY <1>1, <1>3 DEF Finds
  <2>2. at.found = -1 => TRUNCATION_MARKER > room
    <3> SUFFICES ASSUME at.found = -1 PROVE TRUNCATION_MARKER > room
      OBVIOUS
    <3>1. at.low = 0 /\ at.high = -1 /\ at.high < L /\ at.high + 1 = 0
      BY <1>2, <1>3 DEF SearchInv
    <3>2. ~PrefixFits(text, 0, room)
      BY <1>3, <3>1 DEF SearchInv
    <3>3. SafePrefix(text, 0) = 0
      BY <1>2, SafePrefixIsAPrefix
    <3>4. Size(text, Prefix(0)) = TRUNCATION_MARKER
      <4>1. 0 * text.width = 0 /\ TRUNCATION_MARKER \in Nat
        BY FrameAssumption DEF Texts
      <4> QED BY <4>1 DEF Size, Prefix
    <3> QED BY <3>2, <3>3, <3>4, FrameAssumption DEF PrefixFits
  <2>3. at.found # -1 => Size(text, Prefix(at.found)) <= room
    BY <1>3 DEF SearchInv
  <2> QED BY <1>2, <2>1, <2>2, <2>3
<1> HIDE DEF Good
<1>4. 0 \in T
  <2> SUFFICES ASSUME NEW at \in D, at.high - at.low < 0, SearchInv(text, room, at)
               PROVE  Good(best[at])
    BY <1>2
  <2>1. at.low > at.high
    BY <1>2
  <2> QED BY <1>3, <2>1
<1>5. \A k \in 1..(L + 1) : k - 1 \in T => k \in T
  <2> SUFFICES ASSUME NEW k \in 1..(L + 1), k - 1 \in T,
                      NEW at \in D, at.high - at.low < k, SearchInv(text, room, at)
               PROVE  Good(best[at])
    <3>1. 1..(L + 1) \subseteq 0..(L + 1)
      BY <1>2
    <3> HIDE DEF D
    <3> QED BY <3>1
  <2>1. CASE at.low > at.high
    BY <1>3, <2>1
  <2>2. CASE ~(at.low > at.high)
    <3> DEFINE m == Moved(text, room, at)
    <3>1. at.low <= at.high /\ at.high \in Int /\ at.low \in Int /\ k \in Int
      BY <2>2, <1>2
    <3>2. m \in D /\ m.high - m.low < at.high - at.low /\ SearchInv(text, room, m)
      BY <3>1, SearchMoves
    <3>3. best[at] = best[m]
      BY <1>1, <2>2 DEF Finds
    <3> HIDE DEF m
    <3>4. m.high - m.low < k - 1
      <4>1. m.high \in Int /\ m.low \in Int
        BY <1>2, <3>2
      <4> QED BY <3>1, <3>2, <4>1
    <3> HIDE DEF D
    <3> QED BY <3>2, <3>3, <3>4
  <2> QED BY <2>1, <2>2
<1>6. L + 1 \in T
  <2>1. 0..(L + 1) \subseteq T
    <3>1. L + 1 \in Nat
      BY <1>2
    <3> HIDE DEF T, L
    <3> QED BY <3>1, <1>4, <1>5, IntervalInduction
  <2>2. L + 1 \in 0..(L + 1)
    BY <1>2
  <2> HIDE DEF T
  <2> QED BY <2>1, <2>2
<1>7. first \in D /\ SearchInv(text, room, first) /\ first.high - first.low < L + 1
  BY <1>2 DEF SearchStates, SearchInv
<1>8. Good(best[first])
  <2> HIDE DEF first, D, L
  <2> QED BY <1>6, <1>7
<1> QED BY <1>1, <1>8 DEF Good

\* What _fit_text keeps fits; when it keeps nothing, the marker does not fit.
LEMMA FitTextFits ==
    ASSUME NEW text \in Texts, NEW room \in Int
    PROVE  LET result == FitText(text, room)
           IN  /\ result \in Results
               /\ result # Nothing => Size(text, result) \in Nat /\ Size(text, result) <= room
               /\ result = Nothing => TRUNCATION_MARKER > room
PROOF
<1> DEFINE result == FitText(text, room)
           found == Search(text, room)
<1>1. text.length \in Nat
  BY DEF Texts
<1>2. CASE Size(text, Whole(text)) <= room
  <2>1. result = Whole(text)
    BY <1>2 DEF FitText
  <2>2. Whole(text) \in Results /\ Whole(text) # Nothing
    BY <1>1 DEF Whole, Results, Nothing, Prefix
  <2> HIDE DEF result
  <2>3. Size(text, result) \in Nat
    BY <2>1, <2>2, SizeIsALength
  <2> QED BY <1>2, <2>1, <2>2, <2>3 DEF result
<1>3. CASE ~(Size(text, Whole(text)) <= room)
  <2>1. result = Prefix(found)
    BY <1>3 DEF FitText
  <2>2. /\ found \in -1..text.length
        /\ found # -1 => Size(text, Prefix(found)) <= room
        /\ found = -1 => TRUNCATION_MARKER > room
    BY SearchFits
  <2> HIDE DEF result, found
  <2>3. CASE found = -1
    BY <2>1, <2>2, <2>3 DEF Results, Nothing, result
  <2>4. CASE found # -1
    <3>1. found \in Nat
      BY <1>1, <2>2, <2>4
    <3>2. Prefix(found) \in Results /\ Prefix(found) # Nothing
      BY <3>1 DEF Prefix, Nothing, Results
    <3>3. Size(text, Prefix(found)) \in Nat
      BY <3>2, SizeIsALength
    <3> QED BY <2>1, <2>2, <2>4, <3>2, <3>3 DEF result
  <2> QED BY <2>3, <2>4
<1> QED BY <1>2, <1>3

\* One character more is at most one grapheme more.
LEMMA OneMoreGrapheme ==
    ASSUME NEW text \in Texts, NEW m \in Nat, m < text.length
    PROVE  SafePrefix(text, m + 1) <= SafePrefix(text, m) + text.cluster
PROOF
<1>1. text.length \in Nat /\ text.cluster \in Nat \ {0}
  BY DEF Texts
<1>2. \A a \in Nat, c \in Nat \ {0} :
         (a \div c) * c \in Nat /\ (a \div c) * c <= a /\ a + 1 <= (a \div c) * c + c
  OBVIOUS
<1> DEFINE short == (m \div text.cluster) * text.cluster
           long == ((m + 1) \div text.cluster) * text.cluster
<1>3. short \in Nat /\ m + 1 <= short + text.cluster
  BY <1>1, <1>2
<1>4. long \in Nat /\ long <= m + 1
  <2>1. m + 1 \in Nat
    OBVIOUS
  <2> QED BY <1>1, <1>2, <2>1
<1>5. SafePrefix(text, m) = short
  BY <1>1 DEF SafePrefix
<1>6. SafePrefix(text, m + 1) = IF m + 1 >= text.length THEN text.length ELSE long
  BY DEF SafePrefix
<1> HIDE DEF short, long
<1> QED BY <1>1, <1>3, <1>4, <1>5, <1>6

\* What the search found is the prefix before the first it has not tried.
LastInv(text, at) ==
    /\ at.low <= at.high + 1
    /\ at.found = IF at.low = 0 THEN -1 ELSE SafePrefix(text, at.low - 1)

\* A step of the search keeps that.
LEMMA SearchKeepsLast ==
    ASSUME NEW text \in Texts, NEW room \in Int, NEW at \in SearchStates(text),
           at.low <= at.high, LastInv(text, at)
    PROVE  LastInv(text, Moved(text, room, at))
PROOF
<1> DEFINE middle == (at.low + at.high) \div 2
           next == Moved(text, room, at)
<1>1. text.length \in Nat /\ at.low \in 0..(text.length + 1) /\ at.high \in -1..text.length
  BY DEF Texts, SearchStates
<1>2. middle \in Nat /\ at.low <= middle /\ middle <= at.high
  <2> DEFINE l == at.low
             h == at.high
  <2>1. l \in Nat /\ h \in Nat /\ l <= h
    BY <1>1
  <2> HIDE DEF l, h
  <2>2. (l + h) \div 2 \in Nat /\ l <= (l + h) \div 2 /\ (l + h) \div 2 <= h
    BY <2>1
  <2> QED BY <2>2 DEF l, h
<1>3. next = IF PrefixFits(text, middle, room)
             THEN [low |-> middle + 1, high |-> at.high, found |-> SafePrefix(text, middle)]
             ELSE [low |-> at.low, high |-> middle - 1, found |-> at.found]
  BY DEF Moved
<1> HIDE DEF middle, next
<1>4. CASE PrefixFits(text, middle, room)
  <2>1. next.low = middle + 1 /\ next.high = at.high /\ next.found = SafePrefix(text, middle)
    BY <1>3, <1>4
  <2>2. next.low # 0 /\ next.low - 1 = middle /\ next.low <= next.high + 1
    BY <1>1, <1>2, <2>1
  <2> QED BY <2>1, <2>2 DEF LastInv, next
<1>5. CASE ~PrefixFits(text, middle, room)
  <2>1. next.low = at.low /\ next.high = middle - 1 /\ next.found = at.found
    BY <1>3, <1>5
  <2>2. next.low <= next.high + 1
    BY <1>1, <1>2, <2>1
  <2> QED BY <2>1, <2>2 DEF LastInv, next
<1> QED BY <1>4, <1>5

\* The search finds the longest prefix: one grapheme more would not fit.
LEMMA SearchIsLongest ==
    ASSUME NEW text \in Texts, NEW room \in Int, ~(Size(text, Whole(text)) <= room)
    PROVE  LET found == Search(text, room)
           IN  found # -1 =>
                  Size(text, Prefix(found)) + text.cluster * text.width > room
PROOF
<1> DEFINE L == text.length
           D == SearchStates(text)
           Good(found) == found # -1 =>
                             Size(text, Prefix(found)) + text.cluster * text.width > room
           Known(at) == SearchInv(text, room, at) /\ LastInv(text, at)
           first == [low |-> 0, high |-> L, found |-> -1]
<1>1. PICK best : Finds(text, room, best) /\ Search(text, room) = best[first]
  BY SearchIsDefined
<1>2. L \in Nat /\ \A at \in D : /\ at.low \in 0..(L + 1) /\ at.high \in -1..L
                                 /\ at.found \in -1..L
  BY DEF Texts, SearchStates
<1> DEFINE T == {k \in 0..(L + 1) : \A at \in D :
                   at.high - at.low < k /\ Known(at) => Good(best[at])}
<1>3. ASSUME NEW at \in D, at.low > at.high, Known(at)
      PROVE  Good(best[at])
  <2>1. best[at] = at.found
    BY <1>1, <1>3 DEF Finds
  <2> SUFFICES ASSUME at.found # -1
               PROVE  Size(text, Prefix(at.found)) + text.cluster * text.width > room
    BY <2>1
  <2> DEFINE m == at.high
             c == text.cluster
             w == text.width
             k == SafePrefix(text, m)
  <2>2. at.low = m + 1 /\ at.low # 0 /\ m \in 0..L
    BY <1>2, <1>3 DEF LastInv
  <2>3. at.found = k
    BY <1>2, <1>3, <2>2 DEF LastInv
  <2>4. c \in Nat /\ w \in Nat /\ TRUNCATION_MARKER \in Nat
    BY FrameAssumption DEF Texts
  <2>5. k \in 0..L
    <3> HIDE DEF m
    <3> QED BY <2>2, SafePrefixIsAPrefix
  <2>6. \A n : Size(text, Prefix(n)) = n * w + TRUNCATION_MARKER
    BY DEF Size, Prefix
  <2>7. CASE m < L
    <3>1. ~PrefixFits(text, m + 1, room)
      BY <1>3, <2>7 DEF SearchInv
    <3> DEFINE longer == SafePrefix(text, m + 1)
    <3>2. longer <= k + c
      <4> HIDE DEF m
      <4> QED BY <2>2, <2>7, OneMoreGrapheme
    <3>3. longer \in Nat
      <4>1. m + 1 \in 0..L
        BY <1>2, <2>2, <2>7
      <4> HIDE DEF m
      <4>2. longer \in 0..L
        BY <4>1, SafePrefixIsAPrefix
      <4> HIDE DEF longer
      <4> QED BY <4>2, <1>2
    <3>4. ~(longer * w + TRUNCATION_MARKER <= room)
      BY <3>1, <2>6 DEF PrefixFits
    <3> HIDE DEF longer, k, c, w, m, L
    <3>5. k \in Nat
      BY <2>5, <1>2
    <3>6. longer * w <= (k + c) * w /\ (k + c) * w = k * w + c * w
      BY <3>2, <3>3, <3>5, <2>4
    <3>7. longer * w \in Nat /\ k * w \in Nat /\ c * w \in Nat
      BY <3>3, <3>5, <2>4
    <3>8. k * w + TRUNCATION_MARKER + c * w > room
      BY <3>4, <3>6, <3>7, <2>4
    <3> QED BY <3>8, <2>3, <2>6 DEF c, w
  <2>8. CASE ~(m < L)
    <3>1. m = L
      BY <1>2, <2>2, <2>8
    <3>2. k = L
      BY <1>2, <3>1 DEF SafePrefix
    <3>3. Size(text, Prefix(at.found)) <= room
      BY <1>3 DEF SearchInv
    <3>4. Size(text, Whole(text)) = L * w
      <4>1. L * w \in Nat
        BY <1>2, <2>4
      <4> HIDE DEF w
      <4> QED BY <4>1 DEF Size, Whole, w
    <3>5. L * w \in Nat
      BY <1>2, <2>4
    <3> HIDE DEF k, w, L
    <3> QED BY <2>3, <2>4, <2>6, <3>2, <3>3, <3>4, <3>5
  <2> QED BY <2>7, <2>8
<1> HIDE DEF Good
<1>4. 0 \in T
  <2> SUFFICES ASSUME NEW at \in D, at.high - at.low < 0, Known(at)
               PROVE  Good(best[at])
    BY <1>2
  <2>1. at.low > at.high
    BY <1>2
  <2> HIDE DEF Known
  <2> QED BY <1>3, <2>1
<1>5. \A k \in 1..(L + 1) : k - 1 \in T => k \in T
  <2> SUFFICES ASSUME NEW k \in 1..(L + 1), k - 1 \in T,
                      NEW at \in D, at.high - at.low < k, Known(at)
               PROVE  Good(best[at])
    <3>1. 1..(L + 1) \subseteq 0..(L + 1)
      BY <1>2
    <3> HIDE DEF D, Known
    <3> QED BY <3>1
  <2>1. CASE at.low > at.high
    BY <1>3, <2>1
  <2>2. CASE ~(at.low > at.high)
    <3> DEFINE m == Moved(text, room, at)
    <3>1. at.low <= at.high /\ at.high \in Int /\ at.low \in Int /\ k \in Int
      BY <2>2, <1>2
    <3>2. m \in D /\ m.high - m.low < at.high - at.low /\ SearchInv(text, room, m)
      BY <3>1, SearchMoves
    <3>3. LastInv(text, m)
      BY <3>1, SearchKeepsLast
    <3>4. best[at] = best[m]
      BY <1>1, <2>2 DEF Finds
    <3> HIDE DEF m
    <3>5. m.high - m.low < k - 1
      <4>1. m.high \in Int /\ m.low \in Int
        BY <1>2, <3>2
      <4> QED BY <3>1, <3>2, <4>1
    <3> HIDE DEF D
    <3> QED BY <3>2, <3>3, <3>4, <3>5
  <2> QED BY <2>1, <2>2
<1>6. L + 1 \in T
  <2>1. 0..(L + 1) \subseteq T
    <3>1. L + 1 \in Nat
      BY <1>2
    <3> HIDE DEF T, L
    <3> QED BY <3>1, <1>4, <1>5, IntervalInduction
  <2>2. L + 1 \in 0..(L + 1)
    BY <1>2
  <2> HIDE DEF T
  <2> QED BY <2>1, <2>2
<1>7. first \in D /\ Known(first) /\ first.high - first.low < L + 1
  BY <1>2 DEF SearchStates, SearchInv, LastInv
<1>8. Good(best[first])
  <2> HIDE DEF first, D, L, Known
  <2> QED BY <1>6, <1>7
<1> QED BY <1>1, <1>8 DEF Good

\* A text that _fit_text cuts has no room for a grapheme more.
LEMMA CutsAreForced ==
    ASSUME NEW text \in Texts, NEW room \in Int
    PROVE  LET result == FitText(text, room)
           IN  result.cut /\ result # Nothing =>
                  Size(text, result) + text.cluster * text.width > room
PROOF
<1> DEFINE found == Search(text, room)
<1>1. CASE Size(text, Whole(text)) <= room
  <2>1. FitText(text, room) = Whole(text)
    BY <1>1 DEF FitText
  <2>2. ~Whole(text).cut
    BY DEF Whole
  <2> QED BY <2>1, <2>2
<1>2. CASE ~(Size(text, Whole(text)) <= room)
  <2>1. FitText(text, room) = Prefix(found)
    BY <1>2 DEF FitText
  <2>2. found # -1 => Size(text, Prefix(found)) + text.cluster * text.width > room
    BY <1>2, SearchIsLongest
  <2>3. found = -1 => Prefix(found) = Nothing
    BY DEF Nothing
  <2> HIDE DEF found
  <2> QED BY <2>1, <2>2, <2>3
<1> QED BY <1>1, <1>2

-----------------------------------------------------------------------------
(***************************************************************************)
(* The prompt: the texts of a section.                                     *)
(***************************************************************************)

NothingFitted(base) == [texts |-> <<>>, size |-> base]

\* One text more, in the room that is left.
TextStep(s, items, b, before, i) ==
    LET text == items[i].text
        result == IF text = NoText THEN Whole(text)
                  ELSE FitText(text, b - before.size - Label[s])
    IN  [texts |-> Append(before.texts, result),
         size |-> before.size + Cost(s, text, result)]

\* A text that is kept fits in the budget, and one that does not adds nothing.
LEMMA TextStepFits ==
    ASSUME NEW s \in Sections, NEW items \in Seq(Items), NEW b \in Int,
           NEW before \in Fitted, NEW i \in 1..Len(items)
    PROVE  LET after == TextStep(s, items, b, before, i)
           IN  /\ after \in Fitted
               /\ Len(after.texts) = Len(before.texts) + 1
               /\ before.size <= after.size /\ (after.size = before.size \/ after.size <= b)
PROOF
<1> DEFINE text == items[i].text
           room == b - before.size - Label[s]
           result == IF text = NoText THEN Whole(text) ELSE FitText(text, room)
           after == TextStep(s, items, b, before, i)
<1>1. text \in Texts
  <2>1. items[i] \in Items
    BY ElementOfSeq
  <2> QED BY <2>1 DEF Items
<1>2. before.size \in Nat /\ before.texts \in Seq(Results) /\ Label[s] \in Nat /\ room \in Int
  BY FrameAssumption DEF Fitted
<1>3. after = [texts |-> Append(before.texts, result),
               size |-> before.size + Cost(s, text, result)]
  BY DEF TextStep
<1> HIDE DEF after, text, room
<1>4. /\ result \in Results /\ Cost(s, text, result) \in Nat
      /\ Cost(s, text, result) # 0 => before.size + Cost(s, text, result) <= b
  <2>1. CASE text = NoText
    <3>1. result = Whole(text) /\ Whole(text) \in Results
      BY <1>1, <2>1 DEF Whole, Results, Texts
    <3>2. Cost(s, text, result) = 0
      BY <2>1 DEF Cost
    <3> QED BY <3>1, <3>2
  <2>2. CASE text # NoText
    <3>1. result = FitText(text, room)
      BY <2>2
    <3>2. /\ result \in Results
          /\ result # Nothing => Size(text, result) \in Nat /\ Size(text, result) <= room
      BY <1>1, <1>2, <3>1, FitTextFits
    <3> HIDE DEF result
    <3>3. CASE result = Nothing
      BY <3>2, <3>3 DEF Cost
    <3>4. CASE result # Nothing
      <4>1. Cost(s, text, result) = Label[s] + Size(text, result)
        BY <2>2, <3>4 DEF Cost
      <4> QED BY <1>2, <3>2, <3>4, <4>1 DEF room
    <3> QED BY <3>3, <3>4
  <2> QED BY <2>1, <2>2
<1> HIDE DEF result
<1>5. after.texts = Append(before.texts, result)
      /\ after.size = before.size + Cost(s, text, result)
  BY <1>3
<1>6. after.texts \in Seq(Results) /\ Len(after.texts) = Len(before.texts) + 1
  BY <1>2, <1>4, <1>5, AppendProperties
<1>7. after.size \in Nat /\ before.size <= after.size
      /\ (after.size = before.size \/ after.size <= b)
  BY <1>2, <1>4, <1>5
<1>8. after \in Fitted
  BY <1>3, <1>5, <1>6, <1>7 DEF Fitted
<1> QED BY <1>6, <1>7, <1>8 DEF after

\* FitTexts takes the texts one after the other.
LEMMA FitTextsInTurn ==
    ASSUME NEW s \in Sections, NEW items \in Seq(Items), NEW n \in 0..Len(items),
           NEW base \in Nat, NEW b \in Int
    PROVE  \E f \in [0..n -> Fitted] :
              /\ f[0] = NothingFitted(base)
              /\ \A i \in 1..n : f[i] = TextStep(s, items, b, f[i - 1], i)
              /\ FitTexts(s, items, n, base, b) = f[n]
PROOF
<1> DEFINE step == [i \in Nat |-> [t \in Fitted |->
                      IF i \in 1..n THEN TextStep(s, items, b, t, i) ELSE t]]
           First == NothingFitted(base)
<1>1. n \in Nat /\ \A i \in 1..n : i \in 1..Len(items)
  BY LenProperties
<1>2. First \in Fitted
  BY DEF NothingFitted, Fitted
<1>3. \A i \in 1..n, t \in Fitted : TextStep(s, items, b, t, i) \in Fitted
  BY <1>1, TextStepFits
<1> HIDE DEF First
<1>4. step \in Steps(Fitted)
  BY <1>3 DEF Steps
<1>5. Computable(Fitted, First, step, n)
  <2> HIDE DEF step
  <2> QED BY <1>1, <1>2, <1>4, PrimitiveRecursion
<1>6. PICK g \in [0..n -> Fitted] : g[0] = First /\ \A i \in 1..n : g[i] = step[i][g[i - 1]]
  BY <1>5 DEF Computable
<1>7. \A i \in 1..n : g[i] = TextStep(s, items, b, g[i - 1], i)
  <2> SUFFICES ASSUME NEW i \in 1..n PROVE g[i] = TextStep(s, items, b, g[i - 1], i)
    OBVIOUS
  <2>1. i \in Nat /\ i - 1 \in 0..n
    BY <1>1
  <2>2. g[i - 1] \in Fitted
    BY <2>1, <1>6
  <2> QED BY <1>6, <2>1, <2>2
<1> DEFINE Add(i) == [before \in Fitted |-> TextStep(s, items, b, before, i)]
           From(f) == [i \in 0..n |-> IF i = 0 THEN First ELSE Add(i)[f[i - 1]]]
           fitted == CHOOSE f : f = From(f)
<1>9. g = From(g)
  <2>1. \A i \in 0..n : g[i] = IF i = 0 THEN First ELSE Add(i)[g[i - 1]]
    BY <1>1, <1>6, <1>7
  <2> QED BY <2>1
<1>10. FitTexts(s, items, n, base, b) = fitted[n]
  BY DEF FitTexts, First, NothingFitted, TextStep
<1>11. fitted = From(fitted)
  <2> HIDE DEF From
  <2> QED BY <1>9
<1> HIDE DEF fitted, Add
<1>12. fitted[n] = g[n]
  <2>1. \A i \in 0..n : fitted[i] = From(fitted)[i] /\ g[i] = From(g)[i]
    <3> HIDE DEF From
    <3> QED BY <1>9, <1>11
  <2>2. GoAlike(fitted, g, n)
    BY <2>1, <1>1 DEF GoAlike
  <2>3. Alike(fitted, g, n)
    BY <1>1, <2>2, SameValues
  <2> QED BY <1>1, <2>3 DEF Alike
<1> QED BY <1>6, <1>7, <1>10, <1>12 DEF First

\* The texts of a section fit together, or add nothing to what it has already.
LEMMA FitTextsFit ==
    ASSUME NEW s \in Sections, NEW items \in Seq(Items), NEW n \in 0..Len(items),
           NEW base \in Nat, NEW b \in Int
    PROVE  LET f == FitTexts(s, items, n, base, b)
           IN  /\ f \in Fitted /\ Len(f.texts) = n
               /\ base <= f.size /\ (f.size = base \/ f.size <= b)
PROOF
<1>1. PICK f \in [0..n -> Fitted] :
              /\ f[0] = NothingFitted(base)
              /\ \A i \in 1..n : f[i] = TextStep(s, items, b, f[i - 1], i)
              /\ FitTexts(s, items, n, base, b) = f[n]
  BY FitTextsInTurn
<1>2. n \in Nat /\ \A i \in 1..n : i \in 1..Len(items) /\ i - 1 \in 0..n /\ i \in 0..n
  BY LenProperties
<1> DEFINE Good(i) == /\ Len(f[i].texts) = i
                      /\ base <= f[i].size /\ (f[i].size = base \/ f[i].size <= b)
           T == {i \in 0..n : Good(i)}
<1>3. 0 \in T
  BY <1>1, <1>2 DEF NothingFitted
<1>4. \A i \in 1..n : i - 1 \in T => i \in T
  <2> SUFFICES ASSUME NEW i \in 1..n, i - 1 \in T PROVE Good(i)
    <3> HIDE DEF Good
    <3> QED BY <1>2
  <2> DEFINE before == f[i - 1]
             after == f[i]
  <2>1. after = TextStep(s, items, b, before, i)
    BY <1>1
  <2>2. before \in Fitted /\ i \in 1..Len(items)
    BY <1>1, <1>2
  <2>3. /\ Len(before.texts) = i - 1
        /\ base <= before.size /\ (before.size = base \/ before.size <= b)
    OBVIOUS
  <2>4. before.size \in Nat /\ after.size \in Nat
    <3>1. after \in Fitted
      BY <1>1, <1>2
    <3> HIDE DEF before, after
    <3> QED BY <2>2, <3>1 DEF Fitted
  <2> HIDE DEF before, after
  <2>5. /\ Len(after.texts) = Len(before.texts) + 1
        /\ before.size <= after.size /\ (after.size = before.size \/ after.size <= b)
    BY <2>1, <2>2, TextStepFits
  <2>6. Len(after.texts) = i
    BY <2>3, <2>5
  <2>7. base <= after.size /\ (after.size = base \/ after.size <= b)
    BY <2>3, <2>4, <2>5
  <2> QED BY <2>6, <2>7 DEF after
<1>5. n \in T
  <2>1. 0..n \subseteq T
    <3> HIDE DEF T
    <3> QED BY <1>2, <1>3, <1>4, IntervalInduction
  <2>2. n \in 0..n
    BY <1>2
  <2> HIDE DEF T
  <2> QED BY <2>1, <2>2
<1>6. f[n] \in Fitted
  BY <1>1, <1>2
<1> QED BY <1>1, <1>5, <1>6

\* The least that a text, as it is kept, could have grown by.
Grows(s, text, result) ==
    IF result = Nothing THEN Label[s] + TRUNCATION_MARKER ELSE text.cluster * text.width

\* It is a length.
LEMMA GrowsIsALength ==
    ASSUME NEW s \in Sections, NEW text \in Texts, NEW result
    PROVE  Grows(s, text, result) \in Nat
PROOF
<1>1. /\ Label[s] \in Nat /\ TRUNCATION_MARKER \in Nat
      /\ text.cluster \in Nat /\ text.width \in Nat
  BY FrameAssumption DEF Texts
<1>2. text.cluster * text.width \in Nat
  BY <1>1
<1> QED BY <1>1, <1>2 DEF Grows

\* A text that is cut or dropped leaves no room for more of it.
LEMMA TextStepIsForced ==
    ASSUME NEW s \in Sections, NEW items \in Seq(Items), NEW b \in Int,
           NEW before \in Fitted, NEW i \in 1..Len(items)
    PROVE  LET after == TextStep(s, items, b, before, i)
               result == after.texts[Len(before.texts) + 1]
           IN  /\ \A j \in 1..Len(before.texts) : after.texts[j] = before.texts[j]
               /\ result.cut => after.size + Grows(s, items[i].text, result) > b
PROOF
<1> DEFINE text == items[i].text
           room == b - before.size - Label[s]
           result == IF text = NoText THEN Whole(text) ELSE FitText(text, room)
           after == TextStep(s, items, b, before, i)
<1>1. text \in Texts
  <2>1. items[i] \in Items
    BY ElementOfSeq
  <2> QED BY <2>1 DEF Items
<1>2. before.size \in Nat /\ before.texts \in Seq(Results) /\ Label[s] \in Nat /\ room \in Int
      /\ TRUNCATION_MARKER \in Nat
  BY FrameAssumption DEF Fitted
<1>3. /\ after.texts = Append(before.texts, result)
      /\ after.size = before.size + Cost(s, text, result)
  BY DEF TextStep
<1> HIDE DEF after, text, room
<1>4. result \in Results
  <2>1. CASE text = NoText
    BY <1>1, <2>1 DEF Whole, Results, Texts
  <2>2. CASE text # NoText
    BY <1>1, <1>2, <2>2, FitTextFits
  <2> QED BY <2>1, <2>2
<1>5. ASSUME result.cut PROVE after.size + Grows(s, text, result) > b
  <2>1. text # NoText
    BY <1>5 DEF Whole
  <2>2. result = FitText(text, room)
    BY <2>1
  <2>3. /\ result # Nothing => Size(text, result) \in Nat
        /\ result = Nothing => TRUNCATION_MARKER > room
    BY <1>1, <1>2, <2>2, FitTextFits
  <2>4. result # Nothing => Size(text, result) + text.cluster * text.width > room
    BY <1>1, <1>2, <1>5, <2>2, CutsAreForced
  <2> HIDE DEF result
  <2>5. CASE result = Nothing
    <3>1. Cost(s, text, result) = 0 /\ Grows(s, text, result) = Label[s] + TRUNCATION_MARKER
      BY <2>5 DEF Cost, Grows
    <3> QED BY <1>2, <1>3, <2>3, <2>5, <3>1 DEF room
  <2>6. CASE result # Nothing
    <3>1. /\ Cost(s, text, result) = Label[s] + Size(text, result)
          /\ Grows(s, text, result) = text.cluster * text.width
      BY <2>1, <2>6 DEF Cost, Grows
    <3>2. Grows(s, text, result) \in Nat
      BY <1>1, GrowsIsALength
    <3>3. Size(text, result) + Grows(s, text, result) > room
      BY <2>4, <2>6, <3>1
    <3> QED BY <1>2, <1>3, <2>3, <2>6, <3>1, <3>2, <3>3 DEF room
  <2> QED BY <2>5, <2>6
<1> HIDE DEF result
<1>6. /\ after.texts[Len(before.texts) + 1] = result
      /\ \A j \in 1..Len(before.texts) : after.texts[j] = before.texts[j]
  BY <1>2, <1>3, <1>4, AppendProperties
<1> QED BY <1>5, <1>6 DEF after, text

\* None of the texts of a section could have been longer.
LEMMA FitTextsAreForced ==
    ASSUME NEW s \in Sections, NEW items \in Seq(Items), NEW n \in 0..Len(items),
           NEW base \in Nat, NEW b \in Int
    PROVE  LET f == FitTexts(s, items, n, base, b)
           IN  \A i \in 1..n :
                  f.texts[i].cut => f.size + Grows(s, items[i].text, f.texts[i]) > b
PROOF
<1>1. PICK f \in [0..n -> Fitted] :
              /\ f[0] = NothingFitted(base)
              /\ \A i \in 1..n : f[i] = TextStep(s, items, b, f[i - 1], i)
              /\ FitTexts(s, items, n, base, b) = f[n]
  BY FitTextsInTurn
<1>2. n \in Nat /\ \A i \in 1..n : i \in 1..Len(items) /\ i - 1 \in 0..n /\ i \in 0..n
  BY LenProperties
<1> DEFINE Tight(c, i) == c.texts[i].cut => c.size + Grows(s, items[i].text, c.texts[i]) > b
           Good(k) == Len(f[k].texts) = k /\ \A i \in 1..k : Tight(f[k], i)
           T == {k \in 0..n : Good(k)}
<1>3. 0 \in T
  BY <1>1, <1>2 DEF NothingFitted
<1>4. \A k \in 1..n : k - 1 \in T => k \in T
  <2> SUFFICES ASSUME NEW k \in 1..n, k - 1 \in T PROVE Good(k)
    <3> HIDE DEF Good
    <3> QED BY <1>2
  <2> DEFINE before == f[k - 1]
             after == f[k]
  <2>1. after = TextStep(s, items, b, before, k)
    BY <1>1
  <2>2. before \in Fitted /\ after \in Fitted /\ k \in 1..Len(items) /\ k \in Nat
    BY <1>1, <1>2
  <2>3. Len(before.texts) = k - 1 /\ \A i \in 1..(k - 1) : Tight(before, i)
    OBVIOUS
  <2> HIDE DEF before, after, Tight
  <2>4. before.size \in Nat /\ after.size \in Nat
    BY <2>2 DEF Fitted
  <2>5. Len(after.texts) = Len(before.texts) + 1 /\ before.size <= after.size
    BY <2>1, <2>2, TextStepFits
  <2>6. /\ \A i \in 1..Len(before.texts) : after.texts[i] = before.texts[i]
        /\ LET result == after.texts[Len(before.texts) + 1]
           IN  result.cut => after.size + Grows(s, items[k].text, result) > b
    BY <2>1, <2>2, TextStepIsForced
  <2>7. Len(after.texts) = k /\ Len(before.texts) + 1 = k
    BY <2>2, <2>3, <2>5
  <2>8. ASSUME NEW i \in 1..k PROVE Tight(after, i)
    <3>1. CASE i = k
      BY <2>6, <2>7, <3>1 DEF Tight
    <3>2. CASE i # k
      <4>1. i \in 1..(k - 1) /\ i \in 1..Len(before.texts) /\ i \in 1..Len(items)
        BY <2>2, <2>3, <3>2
      <4>2. Tight(before, i) /\ after.texts[i] = before.texts[i]
        BY <2>3, <2>6, <4>1
      <4>3. items[i].text \in Texts
        <5>1. items[i] \in Items
          BY <4>1, ElementOfSeq
        <5> QED BY <5>1 DEF Items
      <4> DEFINE more == Grows(s, items[i].text, before.texts[i])
      <4>4. more \in Nat
        BY <4>3, GrowsIsALength
      <4> HIDE DEF more
      <4>5. before.size + more > b => after.size + more > b
        BY <2>4, <2>5, <4>4
      <4> QED BY <4>2, <4>5 DEF Tight, more
    <3> QED BY <3>1, <3>2
  <2> QED BY <2>7, <2>8 DEF after
<1>5. n \in T
  <2>1. 0..n \subseteq T
    <3> HIDE DEF T
    <3> QED BY <1>2, <1>3, <1>4, IntervalInduction
  <2>2. n \in 0..n
    BY <1>2
  <2> HIDE DEF T
  <2> QED BY <2>1, <2>2
<1> QED BY <1>1, <1>5

\* A page or the evidence: as long as without its items, or within its budget.
LEMMA ProjectionFits ==
    ASSUME NEW s \in Sections, NEW items \in Seq(Items), NEW b \in Int
    PROVE  LET built == Projection(s, items, b)
           IN  /\ built.size \in Nat /\ Base(s, items) <= built.size
               /\ built.size = Base(s, items) \/ built.size <= b
PROOF
<1> DEFINE n == Retained(s, items, b)
           base == Base(s, items) + Identities(items, n)
           f == FitTexts(s, items, n, base, b)
<1>1. n \in 0..Len(items) /\ (n # 0 => Frame[s] + Identities(items, n) <= b)
  BY RetainedFits
<1> HIDE DEF n
<1>2. Identities(items, n) \in Nat /\ (n = 0 => Identities(items, n) = 0)
  BY <1>1, IdentitiesAreALength
<1>3. Base(s, items) \in Nat /\ (items # <<>> => Base(s, items) = Frame[s])
  BY FrameAssumption DEF Base
<1>4. items = <<>> => n = 0
  BY <1>1
<1>5. base \in Nat /\ Base(s, items) <= base
      /\ (n = 0 => base = Base(s, items)) /\ (n # 0 => base <= b)
  BY <1>1, <1>2, <1>3, <1>4
<1> HIDE DEF base
<1>6. /\ f \in Fitted /\ Len(f.texts) = n
      /\ base <= f.size /\ (f.size = base \/ f.size <= b)
  BY <1>1, <1>5, FitTextsFit
<1>7. Projection(s, items, b).size = f.size
  BY DEF Projection, base, n
<1> HIDE DEF f
<1>8. f.size \in Nat
  BY <1>6 DEF Fitted
<1>9. f.size = Base(s, items) \/ f.size <= b
  BY <1>3, <1>5, <1>6, <1>8
<1>10. Base(s, items) <= f.size
  BY <1>3, <1>5, <1>6, <1>8
<1> QED BY <1>7, <1>8, <1>9, <1>10

\* One constraint more, unless one before it had to be cut.
NoConstraint(base) == [texts |-> <<>>, size |-> base, full |-> FALSE]
ConstraintStep(items, b, before, i) ==
    LET label == Label["goal"] + Commas(i) - Commas(i - 1)
        result == FitText(items[i].text, b - before.size - label)
    IN  IF before.full THEN before
        ELSE IF result = Nothing THEN [before EXCEPT !.full = TRUE]
        ELSE [texts |-> Append(before.texts, result),
              size |-> before.size + label + Size(items[i].text, result),
              full |-> result.cut]

\* A constraint that is kept fits, and one that is not adds nothing.
LEMMA ConstraintStepFits ==
    ASSUME NEW items \in Seq(Items), NEW b \in Int,
           NEW before \in Constrained, NEW i \in 1..Len(items)
    PROVE  LET after == ConstraintStep(items, b, before, i)
           IN  /\ after \in Constrained
               /\ before.size <= after.size /\ (after.size = before.size \/ after.size <= b)
PROOF
<1> DEFINE text == items[i].text
           label == Label["goal"] + Commas(i) - Commas(i - 1)
           room == b - before.size - label
           result == FitText(text, room)
           after == ConstraintStep(items, b, before, i)
<1>1. text \in Texts
  <2>1. items[i] \in Items
    BY ElementOfSeq
  <2> QED BY <2>1 DEF Items
<1>2. before.size \in Nat /\ before.texts \in Seq(Results) /\ before.full \in BOOLEAN
  BY DEF Constrained
<1>3. label \in Nat
  <2>1. Len(items) \in Nat
    BY LenProperties
  <2>2. i \in Nat \ {0}
    BY <2>1
  <2>3. Commas(i) - Commas(i - 1) \in Nat
    <3>1. CASE i = 1
      BY <3>1 DEF Commas
    <3>2. CASE i # 1
      BY <2>2, <3>2 DEF Commas
    <3> QED BY <3>1, <3>2
  <2>4. Commas(i) \in Int /\ Commas(i - 1) \in Int
    BY <2>2 DEF Commas
  <2>5. Label["goal"] \in Nat
    BY FrameAssumption DEF Sections
  <2> QED BY <2>3, <2>4, <2>5
<1> HIDE DEF label
<1>4. room \in Int
  BY <1>2, <1>3
<1>5. after = IF before.full THEN before
              ELSE IF result = Nothing THEN [before EXCEPT !.full = TRUE]
              ELSE [texts |-> Append(before.texts, result),
                    size |-> before.size + label + Size(text, result),
                    full |-> result.cut]
  BY DEF ConstraintStep, label
<1> HIDE DEF text, room
<1>6. /\ result \in Results
      /\ result # Nothing => Size(text, result) \in Nat /\ Size(text, result) <= room
  BY <1>1, <1>4, FitTextFits
<1> HIDE DEF result, after
<1>7. CASE before.full
  <2>1. after = before
    BY <1>5, <1>7
  <2> QED BY <1>2, <2>1 DEF after
<1>8. CASE ~before.full /\ result = Nothing
  <2>1. after = [before EXCEPT !.full = TRUE]
    BY <1>5, <1>8
  <2>2. after \in Constrained /\ after.size = before.size
    BY <2>1 DEF Constrained
  <2> QED BY <1>2, <2>2 DEF after
<1>9. CASE ~before.full /\ result # Nothing
  <2>1. after = [texts |-> Append(before.texts, result),
                 size |-> before.size + label + Size(text, result), full |-> result.cut]
    BY <1>5, <1>9
  <2>2. after.size \in Nat /\ before.size <= after.size /\ after.size <= b
    <3>1. after.size = before.size + label + Size(text, result)
      BY <2>1
    <3> QED BY <3>1, <1>2, <1>3, <1>6, <1>9 DEF room
  <2>3. after.texts \in Seq(Results) /\ after.full \in BOOLEAN
    <3>1. after.texts = Append(before.texts, result) /\ after.full = result.cut
      BY <2>1
    <3>2. result.cut \in BOOLEAN
      <4>1. result \in [kept : Nat, cut : BOOLEAN]
        BY <1>6, <1>9 DEF Results
      <4> QED BY <4>1
    <3> QED BY <3>1, <3>2, <1>2, <1>6, AppendProperties
  <2>4. after \in Constrained
    <3>1. after = [texts |-> after.texts, size |-> after.size, full |-> after.full]
      BY <2>1
    <3> QED BY <2>2, <2>3, <3>1 DEF Constrained
  <2> QED BY <2>2, <2>4 DEF after
<1> QED BY <1>2, <1>7, <1>8, <1>9

\* FitConstraints takes the constraints one after the other.
LEMMA FitConstraintsInTurn ==
    ASSUME NEW items \in Seq(Items), NEW base \in Nat, NEW b \in Int
    PROVE  \E f \in [0..Len(items) -> Constrained] :
              /\ f[0] = NoConstraint(base)
              /\ \A i \in 1..Len(items) : f[i] = ConstraintStep(items, b, f[i - 1], i)
              /\ FitConstraints(items, base, b) = f[Len(items)]
PROOF
<1> DEFINE n == Len(items)
           step == [i \in Nat |-> [t \in Constrained |->
                      IF i \in 1..n THEN ConstraintStep(items, b, t, i) ELSE t]]
           First == NoConstraint(base)
<1>1. n \in Nat
  BY LenProperties
<1>2. First \in Constrained
  BY DEF NoConstraint, Constrained
<1>3. \A i \in 1..n, t \in Constrained : ConstraintStep(items, b, t, i) \in Constrained
  BY ConstraintStepFits
<1> HIDE DEF First
<1>4. step \in Steps(Constrained)
  BY <1>3 DEF Steps
<1>5. Computable(Constrained, First, step, n)
  <2> HIDE DEF step, n
  <2> QED BY <1>1, <1>2, <1>4, PrimitiveRecursion
<1>6. PICK g \in [0..n -> Constrained] :
         g[0] = First /\ \A i \in 1..n : g[i] = step[i][g[i - 1]]
  BY <1>5 DEF Computable
<1>7. \A i \in 1..n : g[i] = ConstraintStep(items, b, g[i - 1], i)
  <2> SUFFICES ASSUME NEW i \in 1..n PROVE g[i] = ConstraintStep(items, b, g[i - 1], i)
    OBVIOUS
  <2>1. i \in Nat /\ i - 1 \in 0..n
    BY <1>1
  <2>2. g[i - 1] \in Constrained
    BY <2>1, <1>6
  <2> QED BY <1>6, <2>1, <2>2
<1> DEFINE Add(i) == [before \in Constrained |-> ConstraintStep(items, b, before, i)]
           From(f) == [i \in 0..n |-> IF i = 0 THEN First ELSE Add(i)[f[i - 1]]]
           fitted == CHOOSE f : f = From(f)
<1>8. g = From(g)
  <2>1. \A i \in 0..n : g[i] = IF i = 0 THEN First ELSE Add(i)[g[i - 1]]
    BY <1>1, <1>6, <1>7
  <2> QED BY <2>1
<1>9. FitConstraints(items, base, b) = fitted[n]
  BY DEF FitConstraints, First, NoConstraint, ConstraintStep
<1>10. fitted = From(fitted)
  <2> HIDE DEF From
  <2> QED BY <1>8
<1> HIDE DEF fitted, Add
<1>11. fitted[n] = g[n]
  <2>1. \A i \in 0..n : fitted[i] = From(fitted)[i] /\ g[i] = From(g)[i]
    <3> HIDE DEF From
    <3> QED BY <1>8, <1>10
  <2>2. GoAlike(fitted, g, n)
    BY <2>1, <1>1 DEF GoAlike
  <2>3. Alike(fitted, g, n)
    BY <1>1, <2>2, SameValues
  <2> QED BY <1>1, <2>3 DEF Alike
<1> QED BY <1>6, <1>7, <1>9, <1>11 DEF First

\* The constraints after i of them: in their order, up to one that was cut,
\* and within the budget or as long as the objective alone.
ConstrainedInv(items, base, b, c, i) ==
    /\ c \in Constrained
    /\ base <= c.size /\ (c.size = base \/ c.size <= b)
    /\ Len(c.texts) <= i /\ (~c.full => Len(c.texts) = i)
    /\ \A j \in 1..Len(c.texts) :
          c.texts[j].cut => c.size + Grows("goal", items[j].text, c.texts[j]) > b

\* One constraint more keeps that.
LEMMA ConstraintStepHolds ==
    ASSUME NEW items \in Seq(Items), NEW base \in Nat, NEW b \in Int,
           NEW i \in 1..Len(items), NEW before, ConstrainedInv(items, base, b, before, i - 1)
    PROVE  ConstrainedInv(items, base, b, ConstraintStep(items, b, before, i), i)
PROOF
<1> DEFINE text == items[i].text
           label == Label["goal"] + Commas(i) - Commas(i - 1)
           room == b - before.size - label
           result == FitText(text, room)
           after == ConstraintStep(items, b, before, i)
<1>1. text \in Texts /\ i \in Nat
  <2>1. items[i] \in Items /\ Len(items) \in Nat
    BY ElementOfSeq, LenProperties
  <2> QED BY <2>1 DEF Items
<1>2. /\ before \in Constrained
      /\ before.size \in Nat /\ before.texts \in Seq(Results) /\ before.full \in BOOLEAN
      /\ Len(before.texts) \in Nat /\ Len(before.texts) <= i - 1
      /\ base <= before.size /\ (before.size = base \/ before.size <= b)
      /\ ~before.full => Len(before.texts) = i - 1
      /\ \A j \in 1..Len(before.texts) :
            before.texts[j].cut =>
               before.size + Grows("goal", items[j].text, before.texts[j]) > b
  BY LenProperties DEF ConstrainedInv, Constrained
<1>3. /\ after \in Constrained
      /\ before.size <= after.size /\ (after.size = before.size \/ after.size <= b)
  BY <1>2, ConstraintStepFits
<1>4. label \in Int /\ room \in Int
  <2>1. Commas(i) \in Int /\ Commas(i - 1) \in Int
    BY <1>1 DEF Commas
  <2>2. Label["goal"] \in Nat
    BY FrameAssumption DEF Sections
  <2> HIDE DEF text
  <2> QED BY <1>2, <2>1, <2>2
<1>5. after = IF before.full THEN before
              ELSE IF result = Nothing THEN [before EXCEPT !.full = TRUE]
              ELSE [texts |-> Append(before.texts, result),
                    size |-> before.size + label + Size(text, result),
                    full |-> result.cut]
  BY DEF ConstraintStep
<1> HIDE DEF text, room, label
<1>6. /\ result \in Results
      /\ result # Nothing => Size(text, result) \in Nat
      /\ result.cut /\ result # Nothing =>
            Size(text, result) + text.cluster * text.width > room
  BY <1>1, <1>4, FitTextFits, CutsAreForced
<1> HIDE DEF result, after
<1>7. after.size \in Nat /\ base <= after.size /\ (after.size = base \/ after.size <= b)
  <2>1. after.size \in Nat
    BY <1>3 DEF Constrained
  <2> QED BY <1>2, <1>3, <2>1
<1>8. CASE before.full
  <2>1. after = before
    BY <1>5, <1>8
  <2>2. Len(before.texts) <= i
    BY <1>1, <1>2
  <2> QED BY <1>2, <1>8, <2>1, <2>2 DEF ConstrainedInv, after
<1>9. CASE ~before.full /\ result = Nothing
  <2>1. after = [before EXCEPT !.full = TRUE]
    BY <1>5, <1>9
  <2>2. after.full /\ after.texts = before.texts /\ after.size = before.size
    BY <1>2, <2>1 DEF Constrained
  <2>3. Len(before.texts) <= i
    BY <1>1, <1>2
  <2> QED BY <1>2, <1>3, <2>2, <2>3 DEF ConstrainedInv, after
<1>10. CASE ~before.full /\ result # Nothing
  <2>1. after.texts = Append(before.texts, result)
        /\ after.size = before.size + label + Size(text, result)
    BY <1>5, <1>10
  <2>2. Len(before.texts) = i - 1
    BY <1>2, <1>10
  <2>3. /\ Len(after.texts) = Len(before.texts) + 1
        /\ after.texts[Len(before.texts) + 1] = result
        /\ \A j \in 1..Len(before.texts) : after.texts[j] = before.texts[j]
    BY <1>2, <1>6, <2>1, AppendProperties
  <2>4. Len(after.texts) = i /\ after.texts[i] = result
    BY <1>1, <2>2, <2>3
  <2>5. "goal" \in Sections
    BY DEF Sections
  <2>6. ASSUME NEW j \in 1..i, after.texts[j].cut
        PROVE  after.size + Grows("goal", items[j].text, after.texts[j]) > b
    <3>1. CASE j = i
      <4>1. Grows("goal", text, result) = text.cluster * text.width
        BY <1>10 DEF Grows
      <4>2. Grows("goal", text, result) \in Nat
        BY <1>1, <2>5, GrowsIsALength
      <4>3. Size(text, result) + Grows("goal", text, result) > room
        BY <1>6, <1>10, <2>4, <2>6, <3>1, <4>1
      <4>4. after.size + Grows("goal", text, result) > b
        BY <1>2, <1>4, <1>6, <1>10, <2>1, <4>2, <4>3 DEF room
      <4> QED BY <2>4, <3>1, <4>4 DEF text
    <3>2. CASE j # i
      <4>1. j \in 1..Len(before.texts) /\ j \in 1..Len(items)
        BY <1>1, <2>2, <3>2
      <4>2. after.texts[j] = before.texts[j]
        BY <2>3, <4>1
      <4>3. items[j].text \in Texts
        <5>1. items[j] \in Items
          BY <4>1, ElementOfSeq
        <5> QED BY <5>1 DEF Items
      <4> DEFINE more == Grows("goal", items[j].text, before.texts[j])
      <4>4. more \in Nat
        BY <2>5, <4>3, GrowsIsALength
      <4>5. before.size + more > b
        BY <1>2, <2>6, <4>1, <4>2
      <4> HIDE DEF more
      <4>6. after.size + more > b
        BY <1>2, <1>3, <1>7, <4>4, <4>5
      <4> QED BY <4>2, <4>6 DEF more
    <3> QED BY <3>1, <3>2
  <2>7. Len(after.texts) <= i
    BY <1>1, <2>4
  <2> QED BY <1>3, <1>7, <2>4, <2>6, <2>7 DEF ConstrainedInv, after
<1> QED BY <1>2, <1>8, <1>9, <1>10

\* The constraints fit together, or add nothing to the objective; and none of
\* them that was cut could have been longer.
LEMMA FitConstraintsFit ==
    ASSUME NEW items \in Seq(Items), NEW base \in Nat, NEW b \in Int
    PROVE  ConstrainedInv(items, base, b, FitConstraints(items, base, b), Len(items))
PROOF
<1> DEFINE n == Len(items)
<1>1. PICK f \in [0..n -> Constrained] :
              /\ f[0] = NoConstraint(base)
              /\ \A i \in 1..n : f[i] = ConstraintStep(items, b, f[i - 1], i)
              /\ FitConstraints(items, base, b) = f[n]
  BY FitConstraintsInTurn
<1>2. n \in Nat
  BY LenProperties
<1> DEFINE T == {k \in 0..n : ConstrainedInv(items, base, b, f[k], k)}
<1>3. 0 \in T
  <2>1. f[0] \in Constrained
    BY <1>1, <1>2
  <2>2. f[0].size = base /\ f[0].texts = <<>> /\ Len(f[0].texts) = 0
    BY <1>1 DEF NoConstraint
  <2> QED BY <1>2, <2>1, <2>2 DEF ConstrainedInv
<1>4. \A k \in 1..n : k - 1 \in T => k \in T
  <2> SUFFICES ASSUME NEW k \in 1..n, k - 1 \in T PROVE ConstrainedInv(items, base, b, f[k], k)
    BY <1>2
  <2>1. f[k] = ConstraintStep(items, b, f[k - 1], k)
    BY <1>1
  <2> QED BY <2>1, ConstraintStepHolds
<1>5. n \in T
  <2>1. 0..n \subseteq T
    <3> HIDE DEF T, n
    <3> QED BY <1>2, <1>3, <1>4, IntervalInduction
  <2>2. n \in 0..n
    BY <1>2
  <2> HIDE DEF T
  <2> QED BY <2>1, <2>2
<1> QED BY <1>1, <1>5

\* The goal within a budget that is at least its first.
LEMMA GoalFits ==
    ASSUME NEW objective \in Texts, NEW items \in Seq(Items), NEW b \in Int,
           Budget["goal"] <= b
    PROVE  LET built == GoalAnalysis(objective, items, b)
           IN  built.size \in Nat /\ built.size <= b
PROOF
<1> DEFINE room == b - Frame["goal"]
           first == FitText(objective, room)
           base == Frame["goal"] + Size(objective, first)
           f == FitConstraints(items, base, b)
<1>1. /\ Frame["goal"] \in Nat /\ Budget["goal"] \in Nat /\ TRUNCATION_MARKER \in Nat
      /\ Frame["goal"] + TRUNCATION_MARKER <= Budget["goal"]
  BY FrameAssumption DEF Sections
<1>2. room \in Int /\ TRUNCATION_MARKER <= room
  BY <1>1
<1> HIDE DEF room
<1>3. /\ first # Nothing => Size(objective, first) \in Nat /\ Size(objective, first) <= room
      /\ first = Nothing => TRUNCATION_MARKER > room
  BY <1>2, FitTextFits
<1> HIDE DEF first
<1>4. base \in Nat /\ base <= b
  <2>1. Size(objective, first) \in Nat /\ Size(objective, first) <= room
    BY <1>1, <1>2, <1>3
  <2> QED BY <1>1, <2>1 DEF room
<1> HIDE DEF base
<1>5. f \in Constrained /\ base <= f.size /\ (f.size = base \/ f.size <= b)
  BY <1>4, FitConstraintsFit DEF ConstrainedInv
<1>6. GoalAnalysis(objective, items, b).size = f.size
  BY DEF GoalAnalysis, base, first, room
<1> HIDE DEF f
<1>7. f.size \in Nat /\ f.size <= b
  BY <1>4, <1>5 DEF Constrained
<1> QED BY <1>6, <1>7

\* The feedback within its budget.
LEMMA FeedbackFits ==
    ASSUME NEW items \in Seq(Items)
    PROVE  LET built == Feedback(items, Budget["feedback"])
           IN  built.size \in Nat /\ built.size <= Budget["feedback"]
PROOF
<1> DEFINE b == Budget["feedback"]
           text == items[1].text
           room == b - Label["feedback"]
           result == FitText(text, room)
<1>1. /\ Label["feedback"] \in Nat /\ b \in Nat /\ TRUNCATION_MARKER \in Nat
      /\ Label["feedback"] + TRUNCATION_MARKER <= b
      /\ Empty["feedback"] \in Nat /\ Empty["feedback"] <= b
  BY FrameAssumption DEF Sections
<1>2. CASE items = <<>>
  <2>1. Feedback(items, b).size = Empty["feedback"]
    BY <1>2 DEF Feedback
  <2> QED BY <1>1, <2>1
<1>3. CASE items # <<>>
  <2>1. Feedback(items, b).size = Label["feedback"] + Size(text, result)
    BY <1>3 DEF Feedback
  <2>2. text \in Texts
    <3>1. items[1] \in Items
      BY <1>3
    <3> QED BY <3>1 DEF Items
  <2>3. room \in Int /\ TRUNCATION_MARKER <= room
    <3> HIDE DEF b
    <3> QED BY <1>1
  <2> HIDE DEF text, room, b
  <2>4. /\ result # Nothing => Size(text, result) \in Nat /\ Size(text, result) <= room
        /\ result = Nothing => TRUNCATION_MARKER > room
    BY <2>2, <2>3, FitTextFits
  <2> HIDE DEF result
  <2>5. Size(text, result) \in Nat /\ Size(text, result) <= room
    BY <1>1, <2>3, <2>4
  <2>6. Label["feedback"] + Size(text, result) \in Nat
        /\ Label["feedback"] + Size(text, result) <= b
    BY <1>1, <2>5 DEF room
  <2> QED BY <2>1, <2>6 DEF b
<1> QED BY <1>2, <1>3

-----------------------------------------------------------------------------
(***************************************************************************)
(* The sections together.  While a section waits to be built again it has  *)
(* its first size, and a page or the evidence is then at least as long as  *)
(* without its items.  So a section either takes what it had, or at most   *)
(* its budget and all that is unused: what is lacking after that is what   *)
(* the first allocation of this one section had left.                      *)
(***************************************************************************)

Reclaimed == {"goal", "tasks", "projects", "grounding"}
Listed == {"tasks", "projects", "grounding"}

\* The sections that are still to be built again.
Waiting(at) ==
    {s \in Reclaimed : \/ s = at \/ at = "goal"
                       \/ at = "tasks" /\ s # "goal"
                       \/ at = "projects" /\ s = "grounding"}

\* The shape of the sections, and what they leave of the total.
SizesInv ==
    /\ DOMAIN section = Sections
    /\ \A s \in Sections : section[s].size \in Int
    /\ allotted \in [Sections -> Nat]
    /\ \A s \in Sections : allotted[s] <= Budget[s]
    /\ unused \in Int /\ unused = SECTION_BUDGET_TOTAL - Used(section)

\* What is lacking is at most one gap, and nothing before the first reclaim.
GapInv ==
    /\ \/ unused >= 0
       \/ \E s \in Sections : 0 - unused <= Budget[s] - allotted[s]
    /\ place = "goal" => unused >= 0

\* Sections that wait have their first size.
WaitingInv ==
    \A s \in Waiting(place) :
        /\ section[s].size = allotted[s]
        /\ s # "goal" => Base(s, input.items[s]) <= allotted[s]

PromptInv ==
    /\ place \in Building => input \in Inputs
    /\ Built => SizesInv /\ GapInv /\ WaitingInv

\* The sections of an input, each within the budget it is built with, or as
\* short as it gets.
LEMMA BuildFits ==
    ASSUME input \in Inputs, NEW b \in Int
    PROVE  /\ Budget["goal"] <= b => Build("goal", b).size \in Nat /\ Build("goal", b).size <= b
           /\ LET size == Build("feedback", Budget["feedback"]).size
              IN  size \in Nat /\ size <= Budget["feedback"]
           /\ \A s \in Listed :
                /\ Build(s, b).size \in Nat
                /\ Base(s, input.items[s]) <= Build(s, b).size
                /\ Build(s, b).size = Base(s, input.items[s]) \/ Build(s, b).size <= b
                /\ Base(s, input.items[s]) \in Nat
                /\ Base(s, input.items[s]) <= Budget[s]
PROOF
<1>1. /\ input.objective \in Texts /\ \A s \in Sections : input.items[s] \in Seq(Items)
  BY InputsAssumption
<1>2. /\ Build("goal", b) = GoalAnalysis(input.objective, input.items["goal"], b)
      /\ Build("feedback", Budget["feedback"])
           = Feedback(input.items["feedback"], Budget["feedback"])
      /\ \A s \in Listed : Build(s, b) = Projection(s, input.items[s], b)
  BY DEF Build, Listed
<1>3. Budget["goal"] <= b => Build("goal", b).size \in Nat /\ Build("goal", b).size <= b
  <2>1. input.items["goal"] \in Seq(Items)
    BY <1>1 DEF Sections
  <2> QED BY <1>1, <1>2, <2>1, GoalFits
<1>4. /\ Build("feedback", Budget["feedback"]).size \in Nat
      /\ Build("feedback", Budget["feedback"]).size <= Budget["feedback"]
  <2>1. input.items["feedback"] \in Seq(Items)
    BY <1>1 DEF Sections
  <2> QED BY <1>2, <2>1, FeedbackFits
<1>5. ASSUME NEW s \in Listed
      PROVE  /\ Build(s, b).size \in Nat
             /\ Base(s, input.items[s]) <= Build(s, b).size
             /\ Build(s, b).size = Base(s, input.items[s]) \/ Build(s, b).size <= b
             /\ Base(s, input.items[s]) \in Nat
             /\ Base(s, input.items[s]) <= Budget[s]
  <2>1. s \in Sections
    BY DEF Listed, Sections
  <2>2. input.items[s] \in Seq(Items)
    BY <1>1, <2>1
  <2>3. Build(s, b) = Projection(s, input.items[s], b)
    BY <1>2
  <2>4. /\ Build(s, b).size \in Nat
        /\ Base(s, input.items[s]) <= Build(s, b).size
        /\ Build(s, b).size = Base(s, input.items[s]) \/ Build(s, b).size <= b
    BY <2>1, <2>2, <2>3, ProjectionFits
  <2>5. Base(s, input.items[s]) \in Nat /\ Base(s, input.items[s]) <= Budget[s]
    BY <2>1, FrameAssumption DEF Base
  <2> QED BY <2>4, <2>5
<1> QED BY <1>3, <1>4, <1>5

\* The first allocation keeps every section within its budget.
LEMMA AllocateHolds ==
    ASSUME PromptInv, Allocate PROVE PromptInv'
PROOF
<1>1. input \in Inputs /\ input' = input
  BY DEF PromptInv, Allocate, Building
<1> DEFINE now == [s \in Sections |-> Build(s, Budget[s])]
<1>2. \A s \in Sections : Budget[s] \in Nat /\ Budget[s] \in Int
  BY FrameAssumption
<1>3. \A s \in Sections : now[s].size \in Nat /\ now[s].size <= Budget[s]
  <2>1. now["goal"].size \in Nat /\ now["goal"].size <= Budget["goal"]
    <3>1. Budget["goal"] \in Int
      BY <1>2 DEF Sections
    <3>2. Build("goal", Budget["goal"]).size \in Nat
          /\ Build("goal", Budget["goal"]).size <= Budget["goal"]
      BY <1>1, <3>1, BuildFits
    <3> QED BY <3>2 DEF Sections
  <2>2. now["feedback"].size \in Nat /\ now["feedback"].size <= Budget["feedback"]
    <3>1. Build("feedback", Budget["feedback"]).size \in Nat
          /\ Build("feedback", Budget["feedback"]).size <= Budget["feedback"]
      BY <1>1, BuildFits
    <3> QED BY <3>1 DEF Sections
  <2>3. ASSUME NEW s \in Listed PROVE now[s].size \in Nat /\ now[s].size <= Budget[s]
    <3>1. s \in Sections
      BY DEF Sections, Listed
    <3>2. /\ Build(s, Budget[s]).size \in Nat
          /\ \/ Build(s, Budget[s]).size = Base(s, input.items[s])
             \/ Build(s, Budget[s]).size <= Budget[s]
          /\ Base(s, input.items[s]) <= Budget[s]
      BY <1>1, <1>2, <3>1, BuildFits
    <3> QED BY <3>1, <3>2
  <2>4. \A s \in Sections : s \in {"goal", "feedback"} \/ s \in Listed
    BY DEF Sections, Listed
  <2> QED BY <2>1, <2>2, <2>3, <2>4
<1>4. \A s \in Listed : Base(s, input.items[s]) <= now[s].size
  <2> SUFFICES ASSUME NEW s \in Listed PROVE Base(s, input.items[s]) <= now[s].size
    OBVIOUS
  <2>1. s \in Sections
    BY DEF Sections, Listed
  <2>2. Base(s, input.items[s]) <= Build(s, Budget[s]).size
    BY <1>1, <1>2, <2>1, BuildFits
  <2> QED BY <2>1, <2>2
<1>5. /\ section' = now
      /\ allotted' = [s \in Sections |-> section'[s].size]
      /\ unused' = SECTION_BUDGET_TOTAL - Over(allotted')
      /\ place' \in {"refused", "goal"}
  BY DEF Allocate
<1>6. DOMAIN now = Sections
  OBVIOUS
<1> HIDE DEF now
<1>7. \A s \in Sections : /\ allotted'[s] \in Nat /\ allotted'[s] <= Budget[s]
                          /\ allotted'[s] = section'[s].size
  BY <1>3, <1>5
<1>8. unused' \in Int /\ unused' >= 0 /\ unused' = SECTION_BUDGET_TOTAL - Used(section')
  <2>1. /\ allotted'["goal"] \in Nat /\ allotted'["goal"] <= Budget["goal"]
        /\ allotted'["feedback"] \in Nat /\ allotted'["feedback"] <= Budget["feedback"]
        /\ allotted'["projects"] \in Nat /\ allotted'["projects"] <= Budget["projects"]
        /\ allotted'["tasks"] \in Nat /\ allotted'["tasks"] <= Budget["tasks"]
        /\ allotted'["grounding"] \in Nat /\ allotted'["grounding"] <= Budget["grounding"]
    BY <1>7 DEF Sections
  <2>2. /\ Budget["goal"] \in Nat /\ Budget["feedback"] \in Nat /\ Budget["projects"] \in Nat
        /\ Budget["tasks"] \in Nat /\ Budget["grounding"] \in Nat
    BY <1>2 DEF Sections
  <2>3. Used(section') = Over(allotted')
    BY <1>5 DEF Used
  <2>4. SECTION_BUDGET_TOTAL \in Int /\ Over(allotted') \in Int
        /\ Over(allotted') <= SECTION_BUDGET_TOTAL
    BY <2>1, <2>2 DEF SECTION_BUDGET_TOTAL, Over
  <2> QED BY <1>5, <2>3, <2>4
<1>9. SizesInv'
  <2>1. allotted' \in [Sections -> Nat]
    <3>1. \A s \in Sections : section'[s].size \in Nat
      BY <1>7
    <3> QED BY <1>5, <3>1
  <2>2. \A s \in Sections : section'[s].size \in Int
    BY <1>7
  <2> QED BY <1>5, <1>6, <1>7, <1>8, <2>1, <2>2 DEF SizesInv
<1>10. GapInv'
  BY <1>8 DEF GapInv
<1>11. WaitingInv'
  <2> SUFFICES ASSUME NEW s \in Reclaimed
               PROVE  /\ section'[s].size = allotted'[s]
                      /\ s # "goal" => Base(s, input'.items[s]) <= allotted'[s]
    BY DEF WaitingInv, Waiting
  <2>1. s \in Sections /\ (s # "goal" => s \in Listed)
    BY DEF Reclaimed, Sections, Listed
  <2>2. section'[s].size = allotted'[s] /\ section'[s] = now[s]
    BY <2>1, <1>5, <1>7
  <2> QED BY <1>1, <1>4, <2>1, <2>2
<1> QED BY <1>1, <1>9, <1>10, <1>11 DEF PromptInv

\* A section that is built again leaves at most its own gap uncovered.
LEMMA ReclaimHolds ==
    ASSUME PromptInv, NEW s \in Reclaimed, Reclaim(s) PROVE PromptInv'
PROOF
<1>1. place = s /\ input \in Inputs /\ SizesInv /\ GapInv /\ WaitingInv
  BY DEF PromptInv, Reclaim, Building, Built, Reclaimed
<1>2. s \in Sections /\ (s # "goal" => s \in Listed)
  BY DEF Reclaimed, Sections, Listed
<1> DEFINE given == Capped(s, Budget[s] + unused)
           built == Build(s, given)
           size == built.size
           old == section[s].size
<1>3. /\ section' = [section EXCEPT ![s] = built]
      /\ unused' = unused - (section'[s].size - section[s].size)
      /\ input' = input /\ allotted' = allotted
      /\ place' = IF s = "grounding" /\ Budget[s] + unused < 1 THEN "refused" ELSE After[s]
  BY DEF Reclaim
<1>4. /\ unused \in Int /\ Budget[s] \in Nat /\ allotted[s] \in Nat /\ allotted[s] <= Budget[s]
      /\ old = allotted[s]
  <2>1. s \in Waiting(place)
    BY <1>1 DEF Waiting
  <2> QED BY <1>1, <1>2, <2>1, FrameAssumption DEF SizesInv, WaitingInv
<1>5. given \in Int /\ given <= Budget[s] + unused /\ (s = "goal" => Budget[s] <= given)
  <2>1. s = "goal" => unused >= 0
    BY <1>1 DEF GapInv
  <2>2. MAX_GROUNDING_CONTEXT_CHARACTERS \in Nat
    BY FrameAssumption
  <2> QED BY <1>4, <2>1, <2>2 DEF Capped
<1> HIDE DEF given
<1>6. size \in Nat /\ (size <= Budget[s] + unused \/ size <= old)
  <2>1. CASE s = "goal"
    <3>1. Build("goal", given).size \in Nat /\ Build("goal", given).size <= given
      BY <1>1, <1>5, <2>1, BuildFits
    <3> QED BY <1>4, <1>5, <2>1, <3>1
  <2>2. CASE s # "goal"
    <3>1. /\ size \in Nat
          /\ size = Base(s, input.items[s]) \/ size <= given
      BY <1>1, <1>2, <1>5, <2>2, BuildFits
    <3>2. Base(s, input.items[s]) <= old
      <4>1. s \in Waiting(place)
        BY <1>1 DEF Waiting
      <4> QED BY <1>1, <1>4, <2>2, <4>1 DEF WaitingInv
    <3> HIDE DEF size
    <3> QED BY <1>4, <1>5, <3>1, <3>2
  <2> QED BY <2>1, <2>2
<1> HIDE DEF built
<1>7. /\ DOMAIN section' = Sections /\ section'[s].size = size
      /\ \A t \in Sections : t # s => section'[t] = section[t]
  BY <1>1, <1>2, <1>3 DEF SizesInv
<1> HIDE DEF size
<1>8. unused' = unused - (size - old)
  BY <1>3, <1>7
<1> HIDE DEF old
<1>9. unused' \in Int
  BY <1>4, <1>6, <1>8
<1>10. Used(section') = Used(section) + (size - old)
  <2>1. \A t \in Sections : section[t].size \in Int
    BY <1>1 DEF SizesInv
  <2>2. \A t \in Sections :
           /\ section'[t].size = IF t = s THEN section[t].size + (size - old) ELSE section[t].size
    BY <1>2, <1>4, <1>6, <1>7, <2>1 DEF old
  <2>3. /\ section["goal"].size \in Int /\ section["feedback"].size \in Int
        /\ section["projects"].size \in Int /\ section["tasks"].size \in Int
        /\ section["grounding"].size \in Int
    BY <2>1 DEF Sections
  <2>4. Used(section) = section["goal"].size + section["feedback"].size
           + section["projects"].size + section["tasks"].size + section["grounding"].size
    BY DEF Used, Over, Sections
  <2>5. Used(section') = section'["goal"].size + section'["feedback"].size
           + section'["projects"].size + section'["tasks"].size + section'["grounding"].size
    BY DEF Used, Over, Sections
  <2>6. size - old \in Int
    BY <1>4, <1>6
  <2> DEFINE d == size - old
  <2>7. /\ section'["goal"].size = IF s = "goal" THEN section["goal"].size + d ELSE section["goal"].size
        /\ section'["feedback"].size = section["feedback"].size
        /\ section'["projects"].size = IF s = "projects" THEN section["projects"].size + d ELSE section["projects"].size
        /\ section'["tasks"].size = IF s = "tasks" THEN section["tasks"].size + d ELSE section["tasks"].size
        /\ section'["grounding"].size = IF s = "grounding" THEN section["grounding"].size + d ELSE section["grounding"].size
    BY <2>2 DEF Sections, Reclaimed
  <2> HIDE DEF d
  <2>8. d \in Int
    BY <2>6 DEF d
  <2>9. s = "goal" \/ s = "projects" \/ s = "tasks" \/ s = "grounding"
    BY DEF Reclaimed
  <2>10. Used(section') = Used(section) + d
    <3>1. CASE s = "goal"
      BY <2>3, <2>4, <2>5, <2>7, <2>8, <3>1
    <3>2. CASE s = "projects"
      BY <2>3, <2>4, <2>5, <2>7, <2>8, <3>2
    <3>3. CASE s = "tasks"
      BY <2>3, <2>4, <2>5, <2>7, <2>8, <3>3
    <3>4. CASE s = "grounding"
      BY <2>3, <2>4, <2>5, <2>7, <2>8, <3>4
    <3> QED BY <2>9, <3>1, <3>2, <3>3, <3>4
  <2> QED BY <2>10 DEF d
<1>11. SizesInv'
  <2>1. \A t \in Sections : section'[t].size \in Int
    BY <1>1, <1>6, <1>7 DEF SizesInv
  <2>2. unused' = SECTION_BUDGET_TOTAL - Used(section')
    <3>1. Used(section) \in Int
      <4>1. /\ section["goal"].size \in Int /\ section["feedback"].size \in Int
            /\ section["projects"].size \in Int /\ section["tasks"].size \in Int
            /\ section["grounding"].size \in Int
        BY <1>1 DEF Sections, SizesInv
      <4>2. Used(section) = section["goal"].size + section["feedback"].size
               + section["projects"].size + section["tasks"].size + section["grounding"].size
        BY DEF Used, Over, Sections
      <4> QED BY <4>1, <4>2
    <3>2. SECTION_BUDGET_TOTAL \in Int
      BY FrameAssumption DEF SECTION_BUDGET_TOTAL, Over, Sections
    <3>3. unused = SECTION_BUDGET_TOTAL - Used(section)
      BY <1>1 DEF SizesInv
    <3> QED BY <1>4, <1>6, <1>8, <1>10, <3>1, <3>2, <3>3
  <2> QED BY <1>1, <1>3, <1>7, <1>9, <2>1, <2>2 DEF SizesInv
<1>12. place' # "goal" /\ Waiting(place') \subseteq Waiting(place) \ {s}
  BY <1>1, <1>3 DEF After, Waiting, Reclaimed
<1>13. GapInv'
  <2>1. CASE size <= old
    <3>1. unused' >= unused
      BY <1>4, <1>6, <1>8, <2>1
    <3>2. CASE unused >= 0
      BY <1>4, <1>9, <1>12, <3>1, <3>2 DEF GapInv
    <3>3. CASE ~(unused >= 0)
      <4>1. PICK t \in Sections : 0 - unused <= Budget[t] - allotted[t]
        BY <1>1, <3>3 DEF GapInv
      <4>2. Budget[t] \in Nat /\ allotted[t] \in Nat
        BY <1>1, FrameAssumption DEF SizesInv
      <4>3. 0 - unused' <= Budget[t] - allotted'[t]
        BY <1>3, <1>4, <1>9, <3>1, <4>1, <4>2
      <4> QED BY <1>12, <4>3 DEF GapInv
    <3> QED BY <3>2, <3>3
  <2>2. CASE size <= Budget[s] + unused
    <3>1. 0 - unused' <= Budget[s] - allotted'[s]
      BY <1>3, <1>4, <1>6, <1>8, <2>2
    <3> QED BY <1>2, <1>12, <3>1 DEF GapInv
  <2> QED BY <1>6, <2>1, <2>2
<1>14. WaitingInv'
  <2> SUFFICES ASSUME NEW t \in Waiting(place')
               PROVE  /\ section'[t].size = allotted'[t]
                      /\ t # "goal" => Base(t, input'.items[t]) <= allotted'[t]
    BY DEF WaitingInv
  <2>1. t \in Waiting(place) /\ t # s /\ t \in Sections
    BY <1>12 DEF Waiting, Reclaimed, Sections
  <2> QED BY <1>1, <1>3, <1>7, <2>1 DEF WaitingInv
<1> QED BY <1>1, <1>3, <1>11, <1>13, <1>14 DEF PromptInv

\* Nothing but the building of the prompt touches the sections.
LEMMA SectionsStay ==
    ASSUME PromptInv, UNCHANGED promptVars, Built => place' # "goal",
           place' \in Building => place \in Building /\ place' = place,
           Built' => Built, Waiting(place') \subseteq Waiting(place)
    PROVE  PromptInv'
PROOF
<1>1. input' = input /\ section' = section /\ unused' = unused /\ allotted' = allotted
  BY DEF promptVars
<1>2. place' \in Building => input' \in Inputs
  BY <1>1 DEF PromptInv
<1>3. ASSUME Built' PROVE SizesInv' /\ GapInv' /\ WaitingInv'
  <2>1. SizesInv /\ GapInv /\ WaitingInv
    BY <1>3 DEF PromptInv
  <2>2. SizesInv'
    BY <1>1, <2>1 DEF SizesInv, Used, Over
  <2>3. GapInv'
    BY <1>1, <1>3, <2>1 DEF GapInv
  <2>4. WaitingInv'
    BY <1>1, <2>1 DEF WaitingInv
  <2> QED BY <2>2, <2>3, <2>4
<1> QED BY <1>2, <1>3 DEF PromptInv

\* The first state: no section has been built.
LEMMA InitPromptInv == Init => PromptInv
PROOF
BY DEF Init, PromptInv, Built, Building

\* Every step: the two that build, and the rest, which leave the sections.
LEMMA NextPromptInv == PromptInv /\ [Next]_vars => PromptInv'
PROOF
<1> SUFFICES ASSUME PromptInv, [Next]_vars PROVE PromptInv'
  OBVIOUS
<1>1. CASE UNCHANGED <<place, promptVars>>
  <2>1. place' = place /\ UNCHANGED promptVars
    BY <1>1
  <2>2. input' = input /\ section' = section /\ unused' = unused /\ allotted' = allotted
    BY <2>1 DEF promptVars
  <2> QED BY <2>1, <2>2 DEF PromptInv, SizesInv, GapInv, WaitingInv, Built, Used, Over
<1>2. CASE Allocate
  BY <1>2, AllocateHolds
<1>3. ASSUME NEW s \in {"goal", "tasks", "projects", "grounding"}, Reclaim(s) PROVE PromptInv'
  BY <1>3, ReclaimHolds DEF Reclaimed
<1>4. CASE UNCHANGED promptVars /\ Built /\ place' \notin Building /\ place' # "idle"
  <2>1. Waiting(place') \subseteq Waiting(place)
    BY <1>4 DEF Waiting, Reclaimed, Building
  <2> QED BY <1>4, <2>1, SectionsStay DEF Building
<1>5. CASE Assemble
  BY <1>4, <1>5 DEF Assemble, Built, Building
<1>6. CASE PlanStep
  BY <1>2, <1>3, <1>4, <1>5, <1>6
     DEF PlanStep, BuildPrompt, Attempt, Proposed, NotProposed, Built, Building
<1> QED BY <1>1, <1>6 DEF Next, Step, vars

\* What the first allocation left of one section bounds what is lacking:
\* every prompt that is built, and every one that is refused.
THEOREM OverspendIsBounded == Spec => []OverspendIsOneGap
PROOF
<1>1. PromptInv => OverspendIsOneGap
  <2> SUFFICES ASSUME PromptInv, Built
               PROVE  \/ Used(section) <= SECTION_BUDGET_TOTAL
                      \/ \E s \in Sections :
                            Used(section) - SECTION_BUDGET_TOTAL <= Budget[s] - allotted[s]
    BY DEF OverspendIsOneGap
  <2>1. SizesInv /\ GapInv
    BY DEF PromptInv
  <2>2. SECTION_BUDGET_TOTAL \in Int
    BY FrameAssumption DEF SECTION_BUDGET_TOTAL, Over, Sections
  <2>3. Used(section) \in Int
    <3>1. /\ section["goal"].size \in Int /\ section["feedback"].size \in Int
          /\ section["projects"].size \in Int /\ section["tasks"].size \in Int
          /\ section["grounding"].size \in Int
      BY <2>1 DEF Sections, SizesInv
    <3>2. Used(section) = section["goal"].size + section["feedback"].size
             + section["projects"].size + section["tasks"].size + section["grounding"].size
      BY DEF Used, Over, Sections
    <3> QED BY <3>1, <3>2
  <2>4. unused = SECTION_BUDGET_TOTAL - Used(section)
    BY <2>1 DEF SizesInv
  <2>5. CASE unused >= 0
    BY <2>2, <2>3, <2>4, <2>5
  <2>6. CASE ~(unused >= 0)
    <3>1. PICK s \in Sections : 0 - unused <= Budget[s] - allotted[s]
      BY <2>1, <2>6 DEF GapInv
    <3> QED BY <2>2, <2>3, <2>4, <3>1
  <2> QED BY <2>5, <2>6
<1> QED BY <1>1, InitPromptInv, NextPromptInv, PTL DEF Spec

-----------------------------------------------------------------------------
(***************************************************************************)
(* What is left out of a section.  The search ends at the longest prefix,  *)
(* so a text that is cut has no room for a grapheme more; a section only   *)
(* grows with the texts that follow, so it has none at the end either.     *)
(***************************************************************************)

\* A section of these items: what it leaves out is reported, and was forced.
Forced(s, built, objective, items) ==
    /\ built.texts \in Seq(Results) /\ Len(built.texts) <= Len(items)
    /\ built.objective.cut \in BOOLEAN
    /\ built.manifest = Manifest(built.objective.cut, built.texts, items)
    /\ built.size <= built.budget \/ built.size = Base(s, items)
    /\ built.objective.cut =>
          built.size + Grows(s, objective, built.objective) > built.budget
    /\ \A i \in Shortened(built.texts) :
          built.size + Grows(s, items[i].text, built.texts[i]) > built.budget
    /\ s \notin {"goal", "feedback"} /\ Len(built.texts) < Len(items) =>
          Frame[s] + Identities(items, Len(built.texts) + 1) > built.budget

\* A page or the evidence.
LEMMA ProjectionIsForced ==
    ASSUME NEW s \in Sections, NEW objective, NEW items \in Seq(Items), NEW b \in Int
    PROVE  Forced(s, Projection(s, items, b), objective, items)
PROOF
<1> DEFINE n == Retained(s, items, b)
           base == Base(s, items) + Identities(items, n)
           f == FitTexts(s, items, n, base, b)
           built == Projection(s, items, b)
<1>1. /\ built.size = f.size /\ built.texts = f.texts /\ built.budget = b
      /\ built.objective = Whole(NoText) /\ built.manifest = Manifest(FALSE, f.texts, items)
  BY DEF Projection
<1>2. /\ n \in 0..Len(items) /\ Len(items) \in Nat
      /\ n # Len(items) => Frame[s] + Identities(items, n + 1) > b
  BY RetainedFits, LenProperties
<1>3. built.size = Base(s, items) \/ built.size <= b
  BY ProjectionFits
<1> HIDE DEF n, built
<1>4. base \in Nat
  BY <1>2, IdentitiesAreALength, FrameAssumption DEF Base
<1> HIDE DEF base
<1>5. f \in Fitted /\ Len(f.texts) = n
  BY <1>2, <1>4, FitTextsFit
<1>6. \A i \in 1..n : f.texts[i].cut => f.size + Grows(s, items[i].text, f.texts[i]) > b
  BY <1>2, <1>4, FitTextsAreForced
<1> HIDE DEF f
<1>7. f.texts \in Seq(Results) /\ Len(f.texts) <= Len(items) /\ n \in Nat
  BY <1>2, <1>5 DEF Fitted
<1>8. built.objective.cut = FALSE
  BY <1>1 DEF Whole
<1>9. \A i \in Shortened(f.texts) : f.size + Grows(s, items[i].text, f.texts[i]) > b
  <2> SUFFICES ASSUME NEW i \in Shortened(f.texts)
               PROVE  f.size + Grows(s, items[i].text, f.texts[i]) > b
    OBVIOUS
  <2>1. f.texts[i].cut /\ i \in 1..Len(f.texts)
    BY <1>7, LenProperties DEF Shortened
  <2> QED BY <1>5, <1>6, <2>1
<1>10. Len(f.texts) < Len(items) => Frame[s] + Identities(items, Len(f.texts) + 1) > b
  BY <1>2, <1>5, <1>7
<1>11. Forced(s, built, objective, items)
  BY <1>1, <1>3, <1>7, <1>8, <1>9, <1>10 DEF Forced
<1> QED BY <1>11 DEF built

\* The goal, within a budget that is at least its first.
LEMMA GoalIsForced ==
    ASSUME NEW objective \in Texts, NEW items \in Seq(Items), NEW b \in Int,
           Budget["goal"] <= b
    PROVE  Forced("goal", GoalAnalysis(objective, items, b), objective, items)
PROOF
<1> DEFINE room == b - Frame["goal"]
           first == FitText(objective, room)
           base == Frame["goal"] + Size(objective, first)
           f == FitConstraints(items, base, b)
           built == GoalAnalysis(objective, items, b)
<1>1. /\ built.size = f.size /\ built.texts = f.texts /\ built.budget = b
      /\ built.objective = first /\ built.manifest = Manifest(first.cut, f.texts, items)
  BY DEF GoalAnalysis
<1>2. built.size <= b
  BY GoalFits
<1> HIDE DEF built
<1>3. /\ Frame["goal"] \in Nat /\ Budget["goal"] \in Nat /\ TRUNCATION_MARKER \in Nat
      /\ Frame["goal"] + TRUNCATION_MARKER <= Budget["goal"] /\ "goal" \in Sections
  BY FrameAssumption DEF Sections
<1>4. room \in Int /\ TRUNCATION_MARKER <= room
  BY <1>3
<1> HIDE DEF room
<1>5. /\ first \in Results
      /\ first # Nothing => Size(objective, first) \in Nat
      /\ first = Nothing => TRUNCATION_MARKER > room
      /\ first.cut /\ first # Nothing =>
            Size(objective, first) + objective.cluster * objective.width > room
  BY <1>4, FitTextFits, CutsAreForced
<1> HIDE DEF first
<1>6. first # Nothing /\ Size(objective, first) \in Nat
  BY <1>3, <1>4, <1>5
<1>7. first.cut \in BOOLEAN
  <2>1. first \in [kept : Nat, cut : BOOLEAN]
    BY <1>5, <1>6 DEF Results
  <2> QED BY <2>1
<1>8. base \in Nat
  BY <1>3, <1>6
<1>9. ConstrainedInv(items, base, b, f, Len(items))
  <2> HIDE DEF base
  <2> QED BY <1>8, FitConstraintsFit
<1> HIDE DEF f
<1>10. /\ f.texts \in Seq(Results) /\ Len(f.texts) <= Len(items)
       /\ f.size \in Nat /\ base <= f.size
       /\ \A j \in 1..Len(f.texts) :
             f.texts[j].cut => f.size + Grows("goal", items[j].text, f.texts[j]) > b
  BY <1>9 DEF ConstrainedInv, Constrained
<1>11. first.cut => f.size + Grows("goal", objective, first) > b
  <2> SUFFICES ASSUME first.cut PROVE f.size + Grows("goal", objective, first) > b
    OBVIOUS
  <2>1. Grows("goal", objective, first) = objective.cluster * objective.width
    BY <1>6 DEF Grows
  <2>2. Grows("goal", objective, first) \in Nat
    BY <1>3, GrowsIsALength
  <2>3. Size(objective, first) + Grows("goal", objective, first) > room
    BY <1>5, <1>6, <2>1
  <2> QED BY <1>3, <1>6, <1>10, <2>2, <2>3 DEF room
<1>12. \A i \in Shortened(f.texts) : f.size + Grows("goal", items[i].text, f.texts[i]) > b
  <2> SUFFICES ASSUME NEW i \in Shortened(f.texts)
               PROVE  f.size + Grows("goal", items[i].text, f.texts[i]) > b
    OBVIOUS
  <2>1. f.texts[i].cut /\ i \in 1..Len(f.texts)
    BY <1>10, LenProperties DEF Shortened
  <2> QED BY <1>10, <2>1
<1>13. Forced("goal", built, objective, items)
  <2> HIDE DEF base
  <2> QED BY <1>1, <1>2, <1>7, <1>10, <1>11, <1>12 DEF Forced
<1> QED BY <1>13 DEF built

\* The feedback.
LEMMA FeedbackIsForced ==
    ASSUME NEW objective, NEW items \in Seq(Items)
    PROVE  Forced("feedback", Feedback(items, Budget["feedback"]), objective, items)
PROOF
<1> DEFINE b == Budget["feedback"]
           text == items[1].text
           room == b - Label["feedback"]
           result == FitText(text, room)
           built == Feedback(items, b)
<1>1. /\ Label["feedback"] \in Nat /\ b \in Nat /\ TRUNCATION_MARKER \in Nat
      /\ Label["feedback"] + TRUNCATION_MARKER <= b /\ "feedback" \in Sections
  BY FrameAssumption DEF Sections
<1>2. /\ built.budget = b /\ built.objective = Whole(NoText)
      /\ built.manifest = Manifest(FALSE, built.texts, items)
      /\ built.texts = IF items = <<>> THEN <<>> ELSE <<result>>
  BY DEF Feedback
<1>3. built.size <= b
  BY FeedbackFits
<1>4. built.objective.cut = FALSE
  BY <1>2 DEF Whole
<1>5. CASE items = <<>>
  <2> HIDE DEF built
  <2>1. built.texts = <<>> /\ Len(items) = 0 /\ Len(built.texts) = 0
        /\ built.texts \in Seq(Results)
    BY <1>2, <1>5
  <2>2. Shortened(built.texts) = {} /\ Len(built.texts) <= Len(items)
    BY <2>1 DEF Shortened
  <2> HIDE DEF b, result
  <2>3. Forced("feedback", built, objective, items)
    BY <1>2, <1>3, <1>4, <2>1, <2>2 DEF Forced
  <2> QED BY <2>3 DEF built, b
<1>6. CASE items # <<>>
  <2>1. built.size = Label["feedback"] + Size(text, result)
    BY <1>6 DEF Feedback
  <2>2. text \in Texts /\ Len(items) \in Nat /\ 1 <= Len(items)
    <3>1. items[1] \in Items /\ Len(items) \in Nat /\ Len(items) # 0
      BY <1>6, LenProperties, EmptySeq
    <3> QED BY <3>1 DEF Items
  <2>3. room \in Int /\ TRUNCATION_MARKER <= room
    <3> HIDE DEF b
    <3> QED BY <1>1
  <2> HIDE DEF text, room, b, built
  <2>4. /\ result \in Results
        /\ result # Nothing => Size(text, result) \in Nat
        /\ result = Nothing => TRUNCATION_MARKER > room
        /\ result.cut /\ result # Nothing =>
              Size(text, result) + text.cluster * text.width > room
    BY <2>2, <2>3, FitTextFits, CutsAreForced
  <2> HIDE DEF result
  <2>5. result # Nothing /\ Size(text, result) \in Nat
    BY <1>1, <2>3, <2>4
  <2>6. /\ built.texts = <<result>> /\ built.texts \in Seq(Results)
        /\ Len(built.texts) = 1 /\ built.texts[1] = result
    BY <1>2, <1>6, <2>4
  <2>7. result.cut => built.size + Grows("feedback", text, result) > b
    <3> SUFFICES ASSUME result.cut PROVE built.size + Grows("feedback", text, result) > b
      OBVIOUS
    <3>1. Grows("feedback", text, result) = text.cluster * text.width
      BY <2>5 DEF Grows
    <3>2. Grows("feedback", text, result) \in Nat
      BY <1>1, <2>2, GrowsIsALength
    <3>3. Size(text, result) + Grows("feedback", text, result) > room
      BY <2>4, <2>5, <3>1
    <3> QED BY <1>1, <2>1, <2>5, <3>2, <3>3 DEF room
  <2>8. \A i \in Shortened(built.texts) : i = 1 /\ built.texts[i].cut
    BY <2>6 DEF Shortened
  <2>9. \A i \in Shortened(built.texts) :
           built.size + Grows("feedback", items[i].text, built.texts[i]) > b
    BY <2>6, <2>7, <2>8 DEF text
  <2>10. Len(built.texts) <= Len(items)
    BY <2>2, <2>6
  <2>11. Forced("feedback", built, objective, items)
    BY <1>2, <1>3, <1>4, <2>6, <2>9, <2>10 DEF Forced
  <2> QED BY <2>11 DEF built, b
<1> QED BY <1>5, <1>6

\* Every section, with the budgets it is built with.
LEMMA BuildIsForced ==
    ASSUME input \in Inputs, NEW s \in Sections, NEW b \in Int,
           s = "goal" => Budget["goal"] <= b, s = "feedback" => b = Budget["feedback"]
    PROVE  Forced(s, Build(s, b), input.objective, input.items[s])
PROOF
<1>1. input.objective \in Texts /\ input.items[s] \in Seq(Items)
  BY InputsAssumption
<1>2. CASE s = "goal"
  <2>1. Build(s, b) = GoalAnalysis(input.objective, input.items[s], b)
    BY <1>2 DEF Build
  <2> QED BY <1>1, <1>2, <2>1, GoalIsForced
<1>3. CASE s = "feedback"
  <2>1. Build(s, b) = Feedback(input.items[s], Budget["feedback"])
    BY <1>3 DEF Build
  <2> QED BY <1>1, <1>3, <2>1, FeedbackIsForced
<1>4. CASE s \notin {"goal", "feedback"}
  <2>1. Build(s, b) = Projection(s, input.items[s], b)
    BY <1>4 DEF Build
  <2> QED BY <1>1, <2>1, ProjectionIsForced
<1> QED BY <1>2, <1>3, <1>4

\* What every section leaves out, from the first allocation on.
ForcedInv ==
    Built => \A s \in Sections : Forced(s, section[s], input.objective, input.items[s])

\* Every step keeps that: what is built is forced, and the rest stays.
LEMMA NextForcedInv == PromptInv /\ ForcedInv /\ [Next]_vars => ForcedInv'
PROOF
<1> SUFFICES ASSUME PromptInv, ForcedInv, [Next]_vars PROVE ForcedInv'
  OBVIOUS
<1>1. \A s \in Sections : Budget[s] \in Int
  BY FrameAssumption
<1>2. CASE UNCHANGED promptVars /\ (Built' => Built)
  BY <1>2 DEF ForcedInv, promptVars
<1>3. CASE Allocate
  <2>1. input \in Inputs /\ input' = input
    BY <1>3 DEF PromptInv, Allocate, Building
  <2>2. section' = [s \in Sections |-> Build(s, Budget[s])]
    BY <1>3 DEF Allocate
  <2>3. ASSUME NEW s \in Sections
        PROVE  Forced(s, section'[s], input.objective, input.items[s])
    <3>1. section'[s] = Build(s, Budget[s])
      BY <2>2
    <3>2. Budget[s] \in Int /\ (s = "goal" => Budget["goal"] <= Budget[s])
      BY <1>1
    <3> QED BY <2>1, <3>1, <3>2, BuildIsForced
  <2> QED BY <2>1, <2>3 DEF ForcedInv
<1>4. ASSUME NEW s \in {"goal", "tasks", "projects", "grounding"}, Reclaim(s)
      PROVE  ForcedInv'
  <2> DEFINE given == Capped(s, Budget[s] + unused)
  <2>1. place = s /\ input \in Inputs /\ SizesInv /\ GapInv /\ Built
    BY <1>4 DEF PromptInv, Reclaim, Building, Built
  <2>2. section' = [section EXCEPT ![s] = Build(s, given)] /\ input' = input
    BY <1>4 DEF Reclaim
  <2>3. s \in Sections /\ s # "feedback"
    BY DEF Sections
  <2>4. given \in Int /\ (s = "goal" => Budget["goal"] <= given)
    <3>1. unused \in Int /\ (s = "goal" => unused >= 0)
      BY <2>1 DEF GapInv, SizesInv
    <3>2. MAX_GROUNDING_CONTEXT_CHARACTERS \in Nat /\ Budget[s] \in Int
      BY <1>1, <2>3, FrameAssumption
    <3> QED BY <3>1, <3>2 DEF Capped
  <2> HIDE DEF given
  <2>5. Forced(s, Build(s, given), input.objective, input.items[s])
    BY <2>1, <2>3, <2>4, BuildIsForced
  <2>6. ASSUME NEW t \in Sections
        PROVE  Forced(t, section'[t], input.objective, input.items[t])
    <3>1. section'[t] = IF t = s THEN Build(s, given) ELSE section[t]
      BY <2>1, <2>2, <2>3 DEF SizesInv
    <3>2. Forced(t, section[t], input.objective, input.items[t])
      BY <2>1 DEF ForcedInv
    <3> QED BY <2>5, <3>1, <3>2
  <2> QED BY <2>2, <2>6 DEF ForcedInv
<1>5. CASE UNCHANGED <<place, promptVars>>
  <2>1. place' = place /\ UNCHANGED promptVars
    BY <1>5
  <2> QED BY <1>2, <2>1 DEF Built
<1>6. CASE Assemble
  BY <1>2, <1>6 DEF Assemble, Built
<1>7. CASE PlanStep
  BY <1>2, <1>3, <1>4, <1>6, <1>7
     DEF PlanStep, BuildPrompt, Attempt, Proposed, NotProposed, Built
<1> QED BY <1>5, <1>7 DEF Next, Step, vars

\* Whatever a section leaves out it reports, and could not have kept: for all
\* texts, budgets and graphemes, in every prompt that _build_* produces.
THEOREM OmissionsAreForced == Spec => []OmissionsAreForcedAndReported
PROOF
<1>1. Init => ForcedInv
  BY DEF Init, ForcedInv, Built
<1>2. PromptInv /\ ForcedInv => OmissionsAreForcedAndReported
  <2> SUFFICES ASSUME ForcedInv, Built, NEW s \in Sections
               PROVE  LET built == section[s]
                          items == input.items[s]
                          full == /\ Len(built.texts) = Len(items)
                                  /\ ~built.objective.cut /\ Shortened(built.texts) = {}
                          Grown(text, result) ==
                              IF result = Nothing THEN Label[s] + TRUNCATION_MARKER
                                                  ELSE text.cluster * text.width
                      IN  /\ built.manifest.truncated = ~full
                          /\ built.manifest.omitted = Len(items) - Len(built.texts)
                          /\ built.size <= built.budget \/ built.size = Base(s, items)
                          /\ built.objective.cut =>
                                built.size + Grown(input.objective, built.objective)
                                   > built.budget
                          /\ \A i \in Shortened(built.texts) :
                                built.size + Grown(items[i].text, built.texts[i])
                                   > built.budget
                          /\ s \notin {"goal", "feedback"} /\ Len(built.texts) < Len(items) =>
                                Frame[s] + Identities(items, Len(built.texts) + 1)
                                   > built.budget
    BY DEF OmissionsAreForcedAndReported
  <2> DEFINE built == section[s]
             items == input.items[s]
             full == /\ Len(built.texts) = Len(items)
                     /\ ~built.objective.cut /\ Shortened(built.texts) = {}
  <2>1. Forced(s, built, input.objective, items)
    BY DEF ForcedInv
  <2> HIDE DEF built, items
  <2>2. built.manifest = Manifest(built.objective.cut, built.texts, items)
    BY <2>1 DEF Forced
  <2>3. built.manifest.omitted = Len(items) - Len(built.texts)
    BY <2>2 DEF Manifest
  <2>4. built.manifest.truncated = ~full
    <3>1. built.manifest.truncated =
             (built.objective.cut \/ Shortened(built.texts) # {} \/ Len(built.texts) < Len(items))
      BY <2>2 DEF Manifest
    <3>2. Len(built.texts) < Len(items) <=> Len(built.texts) # Len(items)
      BY <2>1 DEF Forced
    <3> QED BY <3>1, <3>2, Zenon
  <2> QED BY <2>1, <2>3, <2>4 DEF Forced, Grows, built, items
<1> QED BY <1>1, <1>2, InitPromptInv, NextPromptInv, NextForcedInv, PTL DEF Spec

=============================================================================
