---------------------------- MODULE WindowParts ----------------------------
(* Parts of one window that share no state: its views, its keystrokes, its mouse, a list in it,
   its scene and its surface on Wayland. A behaviour exercises one of them, the variables of the
   others stay Nothing. *)
EXTENDS ScenePart

CONSTANTS
  Nothing,
  \* of ViewFrames
  View, Root, Path, Order, Cached, Model, MayHide, MayRead, NoState,
  \* of KeyInput
  Key, TextKey, Modifier, Focus, NoFocus, Active, TextFocus, Contexts, AnyContext, Keymaps,
  NoPending, MaxTyped,
  \* of MouseInput
  Element, Index, Blocking, Position, Layouts, Clickable, AuxClickable, Draggable, DropTarget,
  MaxPresses, NoPress, NoDrag,
  \* of ListState
  Item, Metrics, Heights, ListHeight, Overdraw, Alignments, Deltas, NoTop, NoFrame,
  MaxCalls, MaxOffset,
  \* of WaylandSurface
  Size, NoSize, FirstSize, MaxConfigures, MaxInbox

VARIABLES
  dirty, dirtyViews, refreshing, screen, state, tracked, stale, swallowed,
  focus, parked, keymap, pending, held, sawKey, typed, done, lost,
  laidOut, pendingDown, captured, dragListener, activeDrag, mouseRefreshing, presses, told, releasedOver,
  alignment, metrics, items, top, reset, pendingScroll, painted, calls,
  inbox, grab, last, size, restore, maximized, fullscreen, throttle, acked, callback,
  changed, shown, resizes, source, asWindow

viewVars == <<dirty, dirtyViews, refreshing, screen, state, tracked, stale, swallowed>>
keyVars == <<focus, parked, keymap, pending, held, sawKey, typed, done, lost>>
mouseVars == <<laidOut, pendingDown, captured, dragListener, activeDrag, mouseRefreshing,
               presses, told, releasedOver>>
listVars == <<alignment, metrics, items, top, reset, pendingScroll, painted, calls>>
surfaceVars == <<inbox, grab, last, size, restore, maximized, fullscreen, throttle, acked,
                 callback, changed, shown, resizes, source, asWindow>>
vars == <<part, viewVars, keyVars, mouseVars, listVars, sceneVars, surfaceVars>>

Views == INSTANCE ViewFrames
Keys == INSTANCE KeyInput
Mouse == INSTANCE MouseInput WITH refreshing <- mouseRefreshing
List == INSTANCE ListState WITH View <- ListHeight, pending <- pendingScroll
Surface == INSTANCE WaylandSurface

ASSUME ViewAssumption == Views!TreeAssumption
ASSUME KeyAssumption == Keys!KeyAssumption
ASSUME MouseAssumption == Mouse!MouseAssumption
ASSUME ListAssumption == List!ListAssumption
ASSUME SurfaceAssumption == Surface!SurfaceAssumption
-----------------------------------------------------------------------------
NoViews ==
  /\ dirty = Nothing /\ dirtyViews = Nothing /\ refreshing = Nothing /\ screen = Nothing
  /\ state = Nothing /\ tracked = Nothing /\ stale = Nothing /\ swallowed = Nothing
NoKeys ==
  /\ focus = Nothing /\ parked = Nothing /\ keymap = Nothing /\ pending = Nothing
  /\ held = Nothing /\ sawKey = Nothing /\ typed = Nothing /\ done = Nothing /\ lost = Nothing
NoMouse ==
  /\ laidOut = Nothing /\ pendingDown = Nothing /\ captured = Nothing /\ dragListener = Nothing
  /\ activeDrag = Nothing /\ mouseRefreshing = Nothing
  /\ presses = Nothing /\ told = Nothing /\ releasedOver = Nothing
NoList ==
  /\ alignment = Nothing /\ metrics = Nothing /\ items = Nothing /\ top = Nothing
  /\ reset = Nothing /\ pendingScroll = Nothing /\ painted = Nothing /\ calls = Nothing
NoScene ==
  nodes = Nothing /\ root = Nothing /\ maxLeaf = Nothing /\ layers = Nothing /\ prims = Nothing
NoSurface ==
  /\ inbox = Nothing /\ grab = Nothing /\ last = Nothing /\ size = Nothing
  /\ restore = Nothing /\ maximized = Nothing /\ fullscreen = Nothing /\ throttle = Nothing
  /\ acked = Nothing /\ callback = Nothing /\ changed = Nothing /\ shown = Nothing
  /\ resizes = Nothing /\ source = Nothing /\ asWindow = Nothing

Init ==
  \/ part = "views" /\ Views!Init /\ NoKeys /\ NoMouse /\ NoList /\ NoScene /\ NoSurface
  \/ part = "keys" /\ Keys!Init /\ NoViews /\ NoMouse /\ NoList /\ NoScene /\ NoSurface
  \/ part = "mouse" /\ Mouse!Init /\ NoViews /\ NoKeys /\ NoList /\ NoScene /\ NoSurface
  \/ part = "list" /\ List!Init /\ NoViews /\ NoKeys /\ NoMouse /\ NoScene /\ NoSurface
  \/ part = "scene" /\ Scene!Init /\ NoViews /\ NoKeys /\ NoMouse /\ NoList /\ NoSurface
  \/ part = "surface" /\ Surface!Init /\ NoViews /\ NoKeys /\ NoMouse /\ NoList /\ NoScene

InViews == part = "views" /\ UNCHANGED <<part, keyVars, mouseVars, listVars, sceneVars, surfaceVars>>
InKeys == part = "keys" /\ UNCHANGED <<part, viewVars, mouseVars, listVars, sceneVars, surfaceVars>>
InMouse == part = "mouse" /\ UNCHANGED <<part, viewVars, keyVars, listVars, sceneVars, surfaceVars>>
InList == part = "list" /\ UNCHANGED <<part, viewVars, keyVars, mouseVars, sceneVars, surfaceVars>>
InScene == part = "scene" /\ UNCHANGED <<part, viewVars, keyVars, mouseVars, listVars, surfaceVars>>
InSurface == part = "surface" /\ UNCHANGED <<part, viewVars, keyVars, mouseVars, listVars, sceneVars>>

Next ==
  \/ InViews /\ Views!Next
  \/ InKeys /\ Keys!Next
  \/ InMouse /\ Mouse!Next
  \/ InList /\ List!Next
  \/ InScene /\ Scene!Next
  \/ InSurface /\ Surface!Next

Spec == Init /\ [][Next]_vars
-----------------------------------------------------------------------------
\* The properties of the parts, in the behaviours that exercise them.
ChangedIsDrawn == part = "views" => Views!ChangedIsDrawn
InTypedOrder == part = "keys" => Keys!InTypedOrder
FilledAndScrollable == part = "list" => List!FrameIsFilled /\ List!CanScrollOn
SettledSize == part = "surface" => Surface!SettledSize
ClicksAreWhole == [][part = "mouse" => Mouse!KeepsClicks]_vars
AnchorIsKept == [][part = "list" => List!KeepsAnchor]_vars
=============================================================================
