SPECIFICATION FairSpec
CONSTANTS
  main = main
  w1 = w1
  e1 = e1
  e2 = e2
  h1 = h1
  h2 = h2
  h3 = h3
  None = None
  Main = main
  Worker <- OneWorker
  EntityId <- MCEntityId
  Handle <- ThreeHandles
INVARIANTS
  TypeOK
  CountIsHandles
  DroppedExactlyOnce
  NeverOverReleased
  ValueOutlivesHandles
PROPERTIES
  NoResurrection
  ImplementsLifetime
  DeadIsReleased
