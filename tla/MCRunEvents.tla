---------------------------- MODULE MCRunEvents ----------------------------
(* One execution and one revision, with a clock of three instants: events  *)
(* of different rows coincide or are apart.                                *)
EXTENDS RunEvents

=============================================================================
