---------------------------- MODULE ModelRequests ----------------------------
(***************************************************************************)
(* A request for a plan enters by one of two ways: the tool-calling loop   *)
(* or the planning node of the graph.  Each asks the model provider.       *)
(***************************************************************************)
EXTENDS AgentLoop, PlanGeneration

vars == <<loopVars, place, promptVars, planVars>>

\* The state of the way that is not taken is "idle".
Init ==
    /\ LoopInit /\ PlanInit
    /\ section = <<>> /\ unused = 0 /\ allotted = <<>>
    /\ \/ phase = "request" /\ place = "idle" /\ input = None
       \/ phase = "idle" /\ place = "allocate" /\ input \in Inputs

Step ==
    \/ LoopStep /\ UNCHANGED <<place, promptVars, planVars>>
    \/ PlanStep /\ UNCHANGED loopVars

Ends == phase \in Ended \/ place \in PlanEnded

Next ==
    \/ Step
    \/ Close /\ UNCHANGED <<place, promptVars, planVars>>
    \/ Ends /\ UNCHANGED vars

\* Provider and tools answer or time out, and the consumer keeps reading.
Spec == Init /\ [][Next]_vars /\ WF_vars(Step)

-----------------------------------------------------------------------------
\* However the provider and the tools answer, a request ends within its
\* limits: with a plan, with an error or because the consumer went away.
RequestsEnd == <>Ends

=============================================================================
