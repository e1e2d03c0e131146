-------------------------- MODULE MCForegroundWake --------------------------
(* Model values for ForegroundWake. *)
EXTENDS ForegroundWake

CONSTANTS main, b1, n1, n2, l1

OneBackground == {b1}
AllTasks == {n1, n2, l1}
LowTasks == {l1}
=============================================================================
