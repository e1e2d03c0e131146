SPECIFICATION FairSpec
CONSTANTS
  main = main
  b1 = b1
  n1 = n1
  n2 = n2
  l1 = l1
  Main = main
  Background <- OneBackground
  Task <- AllTasks
  LowTask <- LowTasks
  PostMayFail = TRUE
  MaxPosted = 2
  MaxDepth = 1
INVARIANTS
  TypeOK
  NoLostWakeUp
PROPERTIES
  TasksRun
