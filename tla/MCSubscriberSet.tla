-------------------------- MODULE MCSubscriberSet --------------------------
(* Model values for SubscriberSet. *)
EXTENDS SubscriberSet

CONSTANTS k1, k2

TwoEmitters == {k1, k2}
OneEmitter == {k1}
=============================================================================
