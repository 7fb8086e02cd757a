-------------------------- MODULE MCRefreshTokens --------------------------
(* Two overlapping requests of one user, three credentials, a lifetime of  *)
(* two clock ticks and one password change.                                *)
EXTENDS RefreshTokens, TLC

CONSTANTS t1, t2, t3, r1, r2, pw1, pw2

MCSymmetry ==
    Permutations(TokenIds) \cup Permutations(Requests) \cup Permutations(Passwords)

=============================================================================
