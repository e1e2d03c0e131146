SPECIFICATION Spec
CONSTANTS
  t1 = t1
  t2 = t2
  r1 = r1
  r2 = r2
  r3 = r3
  n1 = n1
  n2 = n2
  l1 = l1
  Thread <- TwoThreads
  Receiver <- ThreeReceivers
  Item <- TwoNormalOneLow
  LowItem <- OneLow
  None = None
SYMMETRY Alike
INVARIANTS
  TypeOK
  WakeUpsSuffice
  ToldAtTheEnd
\* When the sender and every receiver are dropped nothing is left to do.
CHECK_DEADLOCK FALSE
