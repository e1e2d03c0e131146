---------------------------- MODULE MCEntityMap ----------------------------
(* Model values for EntityMap: main and one worker, an entity that may hold the
   handle of another. *)
EXTENDS EntityMap

CONSTANTS main, w1, e1, e2, h1, h2, h3

OneWorker == {w1}
MCEntityId == {e1, e2}
ThreeHandles == {h1, h2, h3}
=============================================================================
