SPECIFICATION Spec
CONSTANTS
  root = root
  side = side
  plain = plain
  inner = inner
  other = other
  model = model
  NoState = NoState
  Root = root
  View <- FiveViews
  Path <- Paths
  Order <- InOrder
  Cached <- ThreeCached
  Model <- OneModel
  MayHide <- Hideable
  MayRead <- ASibling
INVARIANTS
  NotifiedIsNotRecycled
