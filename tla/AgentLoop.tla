----------------------------- MODULE AgentLoop -----------------------------
(***************************************************************************)
(* The bounded tool-calling loop (agent/loop.py) as stream_agent of        *)
(* agent/events.py drives it: the events a consumer gets are a variable.   *)
(* run_agent takes the same steps without them.  A tool call is its id;    *)
(* results, prompts and answers are lengths or whether they are valid.     *)
(***************************************************************************)
EXTENDS Integers, Sequences, SequencesExt

CONSTANTS
    MAX_MODEL_ROUNDS,
    MAX_TOOL_CALLS_PER_RESPONSE,
    MAX_TOTAL_TOOL_CALLS,
    MAX_SINGLE_TOOL_RESULT_CHARS,
    MAX_ACCUMULATED_TOOL_RESULT_CHARS,
    MAX_INPUT_CHARS,      \* of a provider request
    PromptChars,          \* of the prompt of this goal
    CallChars,            \* what a call adds to the feedback beside its result
    CallIds,
    ResultSizes           \* lengths of serialized tool results

ASSUME LimitsAssumption ==
    /\ MAX_MODEL_ROUNDS \in Nat /\ MAX_TOOL_CALLS_PER_RESPONSE \in Nat
    /\ MAX_TOTAL_TOOL_CALLS \in Nat

VARIABLES
    phase,
    round_count,
    seen_call_ids,
    feedback_chars,
    records,         \* calls whose results were accepted
    batch,           \* calls of the response that are still to be dispatched
    dispatched,      \* history: every call that reached a tool
    transitions,     \* tool progress of this response, not yet streamed
    events           \* what the consumer was given

loopVars == <<phase, round_count, seen_call_ids, feedback_chars, records, batch,
          dispatched, transitions, events>>
machine == <<round_count, seen_call_ids, feedback_chars, records, batch, dispatched>>

Ended == {"succeeded", "failed", "closed"}
NoCall == "no call"
Event(kind, call) == [kind |-> kind, call |-> call]
ToolKinds == {"tool_started", "tool_finished"}

LoopInit ==
    /\ round_count = 0 /\ feedback_chars = 0
    /\ seen_call_ids = {}
    /\ records = <<>> /\ batch = <<>> /\ dispatched = <<>> /\ transitions = <<>>
    /\ events = <<Event("run_started", NoCall)>>

-----------------------------------------------------------------------------
Emit(kind) == events' = Append(events, Event(kind, NoCall))

\* The except clause of stream_agent: what was not streamed yet is dropped.
Fail ==
    /\ Emit("run_failed")
    /\ phase' = "failed"
    /\ transitions' = <<>>

\* _provider_request: prompt and accumulated feedback.
InputTooLong ==
    PromptChars + feedback_chars + CallChars * Len(records) > MAX_INPUT_CHARS

\* Mutant: at the ceiling there is no request and no failure.
RequestBelowCeiling ==
    /\ phase = "request"
    /\ round_count < MAX_MODEL_ROUNDS
    /\ round_count' = round_count + 1
    /\ Emit("model_started") /\ phase' = "model"
    /\ UNCHANGED <<transitions, seen_call_ids, feedback_chars, records, batch, dispatched>>

\* next_request
NextRequest ==
    /\ phase = "request"
    /\ IF round_count >= MAX_MODEL_ROUNDS
       THEN Fail /\ UNCHANGED machine
       ELSE /\ round_count' = round_count + 1
            /\ IF InputTooLong
               THEN Fail
               ELSE Emit("model_started") /\ phase' = "model" /\ UNCHANGED transitions
            /\ UNCHANGED <<seen_call_ids, feedback_chars, records, batch, dispatched>>

\* Mutant: an answer that is not a plan is reported, and asked for again.
UnusableAsksAgain ==
    /\ phase = "model"
    /\ Emit("run_failed")
    /\ phase' = "request"
    /\ UNCHANGED <<transitions, machine>>

\* The provider raises, or its stream is incomplete or inconsistent; or the
\* answer has text and calls, neither, or text that is no PlanningResult.
UnusableAnswer ==
    /\ phase = "model"
    /\ Fail
    /\ UNCHANGED machine

\* The final text is a PlanningResult.
FinalAnswer ==
    /\ phase = "model"
    /\ Emit("result_ready")
    /\ phase' = "succeeded"
    /\ UNCHANGED <<transitions, machine>>

\* Mutant: the limit does not count the batch.
AdmissibleBeforeBatch(calls) ==
    /\ Len(calls) <= MAX_TOOL_CALLS_PER_RESPONSE
    /\ Len(records) <= MAX_TOTAL_TOOL_CALLS
    /\ IsInjective(calls)
    /\ seen_call_ids \cap ToSet(calls) = {}

Admissible(calls) ==
    /\ Len(calls) <= MAX_TOOL_CALLS_PER_RESPONSE
    /\ Len(records) + Len(calls) <= MAX_TOTAL_TOOL_CALLS
    /\ IsInjective(calls)
    /\ seen_call_ids \cap ToSet(calls) = {}

\* The checks of accept_response before it dispatches anything; the calls'
\* names and arguments are valid or not.
AcceptCalls ==
    /\ phase = "model"
    /\ \E calls \in SeqOf(CallIds, MAX_TOOL_CALLS_PER_RESPONSE + 1), valid \in BOOLEAN :
          /\ calls # <<>>
          /\ IF Admissible(calls) /\ valid
             THEN /\ seen_call_ids' = seen_call_ids \cup ToSet(calls)
                  /\ batch' = calls
                  /\ phase' = "tools"
                  /\ UNCHANGED <<events, transitions, round_count, feedback_chars,
                                 records, dispatched>>
             ELSE Fail /\ UNCHANGED machine

\* The tool raises, after its effect or before it.
ToolFails ==
    /\ phase = "tools" /\ batch # <<>>
    /\ dispatched' = Append(dispatched, Head(batch))
    /\ Fail
    /\ UNCHANGED <<round_count, seen_call_ids, feedback_chars, records, batch>>

Fits(size) ==
    /\ size <= MAX_SINGLE_TOOL_RESULT_CHARS
    /\ feedback_chars + size <= MAX_ACCUMULATED_TOOL_RESULT_CHARS

\* The tool answers; an answer that is too long fails the run.
ToolAnswers ==
    /\ phase = "tools" /\ batch # <<>>
    /\ dispatched' = Append(dispatched, Head(batch))
    /\ \E size \in ResultSizes :
          /\ feedback_chars' =
                IF size <= MAX_SINGLE_TOOL_RESULT_CHARS THEN feedback_chars + size
                                                        ELSE feedback_chars
          /\ IF Fits(size)
             THEN
               /\ records' = Append(records, Head(batch))
               /\ batch' = Tail(batch)
               /\ transitions' = transitions \o
                     <<Event("tool_started", Head(batch)), Event("tool_finished", Head(batch))>>
               /\ UNCHANGED <<phase, events>>
             ELSE Fail /\ UNCHANGED <<records, batch>>
    /\ UNCHANGED <<round_count, seen_call_ids>>

\* accept_response returns.
BatchDone ==
    /\ phase = "tools" /\ batch = <<>>
    /\ phase' = "report"
    /\ UNCHANGED <<transitions, events, machine>>

\* Mutant: the last transition of a response is left for the next one.
ReportKeepsOne ==
    /\ phase = "report"
    /\ IF Len(transitions) <= 1
       THEN phase' = "request" /\ UNCHANGED <<transitions, events>>
       ELSE /\ events' = Append(events, Head(transitions))
            /\ transitions' = Tail(transitions)
            /\ UNCHANGED phase
    /\ UNCHANGED machine

\* The loop over transitions: one event per resumption of the generator.
Report ==
    /\ phase = "report"
    /\ IF transitions = <<>>
       THEN phase' = "request" /\ UNCHANGED <<transitions, events>>
       ELSE /\ events' = Append(events, Head(transitions))
            /\ transitions' = Tail(transitions)
            /\ UNCHANGED phase
    /\ UNCHANGED machine

\* The consumer closes the generator at a yield: GeneratorExit, no event.
Close ==
    /\ phase \in {"request", "model", "report"}
    /\ phase' = "closed"
    /\ UNCHANGED <<transitions, events, machine>>

LoopStep ==
    \/ NextRequest \/ UnusableAnswer \/ FinalAnswer \/ AcceptCalls
    \/ ToolFails \/ ToolAnswers \/ BatchDone \/ Report

-----------------------------------------------------------------------------
(***************************************************************************)
(* Properties.                                                             *)
(***************************************************************************)

\* The limit on tool calls counts what reached a tool, calls that failed or
\* whose results were refused included, and no call reaches one twice.
ToolsRunAtMostOnce ==
    Len(dispatched) <= MAX_TOTAL_TOOL_CALLS /\ IsInjective(dispatched)

IsTerminal(event) == event.kind \in {"result_ready", "run_failed"}

\* A stream has one terminal event, as its last, exactly when the run ended
\* by itself; it says whether a plan was made.
OneTerminalEvent ==
    /\ \A i \in DOMAIN events : IsTerminal(events[i]) => i = Len(events)
    /\ IsTerminal(Last(events)) <=> phase \in {"succeeded", "failed"}
    /\ phase = "succeeded" => Last(events).kind = "result_ready"

\* The tool progress among events, and what there is to tell of calls.
ToolEvents(told) ==
    FlattenSeq([i \in DOMAIN told |->
        IF told[i].kind \in ToolKinds THEN <<told[i]>> ELSE <<>>])
ProgressOf(made) ==
    FlattenSeq([i \in DOMAIN made |->
        <<Event("tool_started", made[i]), Event("tool_finished", made[i])>>])

\* Of a run that succeeded the stream has told every tool call, in the order
\* in which it was made, started before it was finished, and nothing twice.
SuccessTellsAll ==
    phase = "succeeded" => ToolEvents(events) = ProgressOf(dispatched)

=============================================================================
