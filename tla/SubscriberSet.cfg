SPECIFICATION Spec
CONSTANTS
  k1 = k1
  k2 = k2
  Emitter <- TwoEmitters
  MaxId = 2
  MaxDepth = 2
  None = None
INVARIANTS
  TypeOK
  LiveIsKept
  InOnePlace
  CancelledIsGone
  MarksOfThePass
\* Callers may stop: when the ids are used up, every Subscription is gone and
\* every emitter removed, nothing is left to do.
CHECK_DEADLOCK FALSE
