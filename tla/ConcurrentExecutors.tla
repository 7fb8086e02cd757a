------------------------ MODULE ConcurrentExecutors ------------------------
(***************************************************************************)
(* Several coordinator calls for one action with no run lock around them:  *)
(* the situation of two workers that claim together, or of a worker whose  *)
(* advisory-lock connection was lost while it went on.  What the execution *)
(* row alone, with its unique and CHECK constraints, still guarantees.     *)
(***************************************************************************)
EXTENDS ToolExecution

CONSTANT TheAction  \* the identity that all workers execute

ASSUME TheActionAssumption == TheAction \in Identities

VARIABLE approved   \* agent_approvals holds the APPROVED decision

vars == <<toolVars, approved>>

Init == ToolInit /\ approved \in BOOLEAN

Begin(w) == Call(w, TheAction) /\ UNCHANGED approved

Step(w) == ToolStep(w, approved) /\ UNCHANGED approved

\* The caller takes the result, or the process stops: the thread is free.
Leave(w) == WorkerStops(w) /\ UNCHANGED approved

Next == \E w \in Workers : Begin(w) \/ Step(w) \/ Leave(w)

Spec == Init /\ [][Next]_vars

-----------------------------------------------------------------------------
\* Two workers racing for the first claim never both write: while the row
\* is on its first attempt, at most one domain write was committed.
FirstClaimWritesAtMostOnce ==
    \A id \in Identities :
        execution[id].attempt_count <= 1 => committed[id] <= 1

\* A completed row is final: no worker, however late, restarts it, completes
\* it again with another attempt, or overwrites it with a failure.
CompletedIsFinal ==
    [][\A id \in Identities :
          execution[id].status = "COMPLETED" => execution'[id] = execution[id]]_vars

\* A caller that is told of success can rely on a completed row and a write.
SuccessIsDurable ==
    \A w \in Workers :
        At(w, "returned") =>
            /\ Row(w).status = "COMPLETED"
            /\ committed[worker[w].id] >= 1

=============================================================================
