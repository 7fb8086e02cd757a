------------------------- MODULE MCProjectsAndTasks -------------------------
(* Two overlapping requests on one task or on one project, and a calendar  *)
(* of two days.                                                            *)
EXTENDS ProjectsAndTasks, TLC

CONSTANTS t1, p1, r1, r2

MCSymmetry == Permutations(Requests)

=============================================================================
