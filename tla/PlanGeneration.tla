--------------------------- MODULE PlanGeneration ---------------------------
(***************************************************************************)
(* The node generate_plan (agent/nodes/planning.py): one prompt, at most   *)
(* PLANNING_MAX_ATTEMPTS calls of the provider with it, a trace span per   *)
(* attempt and the metrics of a plan.  generate_study_plan                 *)
(* (agent/planning.py) makes the same attempts, untraced.                  *)
(***************************************************************************)
EXTENDS PromptBudget

CONSTANTS
    PLANNING_MAX_ATTEMPTS,
    Tokens,               \* counts of tokens a provider reports
    None

ASSUME PlanningAssumption ==
    /\ PLANNING_MAX_ATTEMPTS \in Nat \ {0}
    /\ Tokens \subseteq Nat
    /\ None \notin [attempts : Nat, tokens : Nat \cup {None}]

VARIABLES
    attempt,
    calls,      \* history: how each call of the provider went
    usages,     \* token counts of the responses received
    metrics,    \* of the run that made a plan
    trace       \* what reached the sink

planVars == <<attempt, calls, usages, metrics, trace>>

PlanEnded == {"planned", "unavailable", "configuration", "refused"}

\* How a call goes.  A response comes back, which is a proposal ("valid") or
\* tool calls or other text; or the provider raises: a timeout, a temporary
\* failure or a response it cannot normalise ("retryable"), one of its three
\* configuration errors, or anything else.
Retryable == {"invalid", "retryable"}
Outcomes == {"valid", "misconfigured", "failure"} \cup Retryable
Answered(outcome) == outcome \in {"valid", "invalid"}

PlanInit ==
    /\ attempt = 0
    /\ calls = <<>> /\ usages = <<>> /\ trace = <<>>
    /\ metrics = None

-----------------------------------------------------------------------------
\* emit_trace: a sink, a clock or a value the schema refuses loses the event,
\* and nothing else.
Emitted(phase_of_span) ==
    \/ trace' = Append(trace, [attempt |-> attempt', phase |-> phase_of_span])
    \/ UNCHANGED trace

\* start_trace, and the one end of a span (TraceSpan.finish or fail).
StartTrace == Emitted("STARTED")
Terminal(phase_of_span) == Emitted(phase_of_span)

\* _sum_known
SumKnown(counts) ==
    LET sum[i \in 0..Len(counts)] ==
            IF i = 0 THEN None
            ELSE IF counts[i] = None THEN sum[i - 1]
            ELSE IF sum[i - 1] = None THEN counts[i] ELSE sum[i - 1] + counts[i]
    IN  sum[Len(counts)]

\* The next attempt: start_trace, and the call of the provider.
Attempt ==
    /\ place = "ask"
    /\ attempt' = attempt + 1
    /\ place' = "calling"
    /\ StartTrace
    /\ UNCHANGED <<promptVars, calls, usages, metrics>>

\* The response is a proposal.
Proposed(tokens) ==
    /\ place = "calling"
    /\ calls' = Append(calls, [outcome |-> "valid", tokens |-> tokens])
    /\ usages' = Append(usages, tokens)
    /\ metrics' = [attempts |-> attempt, tokens |-> SumKnown(usages')]
    /\ place' = "planned"
    /\ UNCHANGED <<promptVars, attempt>>
    /\ Terminal("FINISHED")

\* Mutant: only the usage of a response that can be used is kept.
NotProposedForgets(outcome, tokens) ==
    /\ place = "calling"
    /\ calls' = Append(calls, [outcome |-> outcome, tokens |-> tokens])
    /\ place' = IF outcome = "misconfigured" THEN "configuration"
                ELSE IF outcome \in Retryable /\ attempt < PLANNING_MAX_ATTEMPTS
                THEN "ask" ELSE "unavailable"
    /\ UNCHANGED <<promptVars, attempt, metrics, usages>>
    /\ Terminal("FAILED")

\* Anything else: the except clauses.
NotProposed(outcome, tokens) ==
    /\ place = "calling"
    /\ calls' = Append(calls, [outcome |-> outcome, tokens |-> tokens])
    /\ usages' = IF Answered(outcome) THEN Append(usages, tokens) ELSE usages
    /\ place' = IF outcome = "misconfigured" THEN "configuration"
                ELSE IF outcome \in Retryable /\ attempt < PLANNING_MAX_ATTEMPTS
                THEN "ask" ELSE "unavailable"
    /\ UNCHANGED <<promptVars, attempt, metrics>>
    /\ Terminal("FAILED")

PlanStep ==
    \/ BuildPrompt /\ UNCHANGED planVars
    \/ Attempt
    \/ \E tokens \in Tokens \cup {None} : Proposed(tokens)
    \/ \E tokens \in Tokens \cup {None}, outcome \in Outcomes \ {"valid"} :
          /\ ~Answered(outcome) => tokens = None
          /\ NotProposed(outcome, tokens)

-----------------------------------------------------------------------------
(***************************************************************************)
(* Properties.                                                             *)
(***************************************************************************)

\* Every call of the provider is counted: the limit on attempts holds, none
\* follows an error that is not retried, the metrics of a plan count each
\* attempt and the tokens of each response, the rejected ones too, and of an
\* attempt the trace has at most one end, which tells a success only of the
\* attempt that made the plan.
AttemptsAreAccounted ==
    /\ Len(calls) <= PLANNING_MAX_ATTEMPTS
    /\ \A i \in DOMAIN calls : i < Len(calls) => calls[i].outcome \in Retryable
    /\ place = "refused" => calls = <<>> /\ trace = <<>>
    /\ place = "planned" <=> metrics # None
    /\ metrics # None =>
          /\ metrics.attempts = Len(calls)
          /\ metrics.tokens = SumKnown([i \in DOMAIN calls |-> calls[i].tokens])
    /\ \A i \in DOMAIN trace :
          /\ trace[i].phase = "FINISHED" =>
                metrics # None /\ trace[i].attempt = metrics.attempts
          /\ \A j \in 1..(i - 1) :
                \/ trace[j].attempt < trace[i].attempt
                \/ trace[j].attempt = trace[i].attempt /\ trace[j].phase = "STARTED"
                   /\ trace[i].phase # "STARTED"

=============================================================================
