SPECIFICATION Spec
CONSTANTS
  root = root
  left = left
  right = right
  group = group
  popover = popover
  menu = menu
  h1 = h1
  h2 = h2
  h3 = h3
  h4 = h4
  NoFocus = NoFocus
  NoState = NoState
  Root = root
  Element <- AllElements
  Kids <- Tree
  CachedView <- ThreeViews
  Deferred <- OnePopover
  Priority <- OnePriority
  Optional <- Optionals
  Handle <- Handles
  TabIndex <- Indexes
  TabStop <- SomeStops
  TabGroup <- OneGroup
INVARIANTS
  RecyclesItsOwn
