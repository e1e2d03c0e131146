SPECIFICATION MCFairSpec
CONSTANTS
  Nothing = Nothing
  Active = Active
  NoFocus = NoFocus
  NoPending = NoPending
  NoState = NoState
  NoTop = NoTop
  NoFrame = NoFrame
  NoSize = NoSize
  NoPress = NoPress
  NoDrag = NoDrag
  View = {"root", "left", "plain", "inner", "right"}
  Root = "root"
  Path <- ViewPaths
  Order <- ViewOrder
  Cached = {"left", "inner", "right"}
  Model = {"model"}
  MayHide = {"left", "plain", "inner", "right"}
  MayRead <- Reads
  Key = {"a", "b"}
  TextKey = {"b"}
  Modifier = {"shift"}
  Focus = {"editor", "list"}
  TextFocus = {"editor"}
  Contexts <- Stacks
  AnyContext = "any"
  Keymaps <- SmallKeymaps
  MaxTyped = 3
  Element = {"card", "button", "menu"}
  Index <- PaintOrder
  Blocking = {"menu"}
  Position = {"left", "right"}
  Layouts <- MouseLayouts
  Clickable = {"card", "button"}
  AuxClickable = {"button"}
  Draggable = {"card"}
  DropTarget = {"button"}
  MaxPresses = 2
  Item = {"one", "two"}
  Metrics = {"small", "large"}
  Heights <- HeightsOf
  ListHeight = 2
  Overdraw = 1
  Alignments = {"top", "bottom"}
  Deltas <- OneUpOrDown
  MaxCalls = 2
  MaxOffset = 1
  Kinds <- QuadsAndSprites
  Tiles <- SceneTiles
  Sprite = {"sprite"}
  NoTile = NoTile
  AllBounds <- SceneBounds
  MaxChildren = 2
  MaxPrimitives = 3
  MaxLayers = 1
  Size = {"small", "large"}
  FirstSize = "small"
  MaxConfigures = 4
  MaxInbox = 1
INVARIANTS
  TypeOK
  InTypedOrder
  ChangedIsDrawn
  FrameIsWhole
  TabsCycle
  FilledAndScrollable
  TreeIsWhole
  CursorsFind
  OverlapsInOrder
  SettledSize
PROPERTIES
  ClicksAreWhole
  AnchorIsKept
  BoundKeysRun
  DirtyIsDrawn
