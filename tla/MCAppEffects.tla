---------------------------- MODULE MCAppEffects ----------------------------
(* Model values for AppEffects. *)
EXTENDS AppEffects, TLC

CONSTANTS e1, e2, w1

TwoEntities == {e1, e2}
OneWindow == {w1}

\* Entities differ in nothing.
Alike == Permutations(TwoEntities)

\* The properties of the passing run speak of the time before shutdown: of what
\* comes later it only sees how shutdown begins, and its flush of an empty queue.
UntilShutdown == quit # "no" => Len(stack) <= 1
=============================================================================
