------------------------- MODULE MCApprovalRecovery -------------------------
(* Two requests at a time on one run; a one-action and a two-action plan. *)
EXTENDS ApprovalRecovery, TLC

CONSTANTS p1, p2, r1, r2, f1

MCPlan ==
    [p \in Proposals |->
        IF p = p1 THEN <<[action_key |-> "k1", tool_name |-> "update_task"]>>
        ELSE <<[action_key |-> "k1", tool_name |-> "delete_task"],
               [action_key |-> "k2", tool_name |-> "create_task"]>>]
MCDigest == [p \in Proposals |-> IF p = p1 THEN "fp1" ELSE "fp2"]

WorkerSymmetry == Permutations(Workers)

=============================================================================
