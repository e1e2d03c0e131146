SPECIFICATION Spec
CONSTANTS
  e1 = e1
  e2 = e2
  w1 = w1
  Entity <- TwoEntities
  Window <- OneWindow
  None = None
  MaxId = 1
  MaxEffects = 2
  MaxStack = 3
SYMMETRY Alike
CONSTRAINTS
  UntilShutdown
INVARIANTS
  TypeOK
  PendingMatches
  OwedIsPending
  NoOldNews
  IdleIsFlushed
  ReleasedHasNoObservers
PROPERTIES
  UsesSetAsAssumed
\* Shutdown ends everything.
CHECK_DEADLOCK FALSE
