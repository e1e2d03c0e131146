SPECIFICATION FairSpec
CONSTANTS
  main = main
  b1 = b1
  n1 = n1
  n2 = n2
  l1 = l1
  Main = main
  Background <- OneBackground
  Task <- AllTasks
  LowTask <- LowTasks
  PostMayFail = FALSE
  MaxPosted = 2
  MaxDepth = 0
PROPERTIES
  LowTasksRun
