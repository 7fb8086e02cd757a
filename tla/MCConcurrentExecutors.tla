----------------------- MODULE MCConcurrentExecutors -----------------------
(* One delete action, three interchangeable workers, two attempts. *)
EXTENDS ConcurrentExecutors, TLC

CONSTANTS p1, w1, w2, w3

MCPlan == [p \in {p1} |-> <<[action_key |-> "k1", tool_name |-> "delete_task"]>>]
MCDigest == [p \in {p1} |-> "fp1"]
MCAction == <<0, "fp1", "k1">>

WorkerSymmetry == Permutations(Workers)

=============================================================================
