SPECIFICATION Spec
CONSTANTS
  k1 = k1
  k2 = k2
  Emitter <- OneEmitter
  MaxId = 2
  MaxDepth = 2
  None = None
INVARIANTS
  DroppedIsGone
