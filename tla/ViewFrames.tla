----------------------------- MODULE ViewFrames -----------------------------
(* Which views of a window a frame renders and which it takes from the last
   frame (view.rs, draw of window.rs), and how a notification finds the window:
   the entities that were accessed while a frame was drawn are tracked
   (record_entities_accessed and notify of app.rs). One window; a frame is a
   step. Left out: deferred draws, and cached views whose bounds, mask or text
   style changed, which are rendered as if they had no state. *)
EXTENDS Integers, Sequences, Functions

CONSTANTS
  View, Root,
  Path,            \* view_path_reversed: a view and the views around it
  Order,           \* the order of drawing: a view before those in it, these one after another
  Cached,          \* views used with .cached()
  Model,           \* entities that are not views
  MayHide,         \* views that are not always shown
  MayRead,         \* what rendering a view may access besides the view itself
  NoState

VARIABLES
  dirty, dirtyViews,  \* of the invalidator
  refreshing,
  screen,             \* views in the dispatch tree of rendered_frame
  state,              \* AnyViewState of a cached view: what it accessed
  tracked,            \* entities with this window in window_invalidators_by_entity
  stale,              \* history: views on the screen notified since they were rendered
  swallowed           \* history: those of them that were notified during a draw

vars == <<dirty, dirtyViews, refreshing, screen, state, tracked, stale, swallowed>>

Entity == View \cup Model

TreeAssumption ==
  /\ Root \in View \ Cached /\ Cached \subseteq View
  /\ View \cap Model = {}
  /\ Path \in [View -> SUBSET View] /\ Path[Root] = {Root}
  /\ Order \in [View -> Nat] /\ IsInjective(Order)
  /\ \A v \in View : {v, Root} \subseteq Path[v]
  /\ \A v \in View : \A u \in Path[v] : Path[u] \subseteq Path[v] /\ Order[u] <= Order[v]
  /\ \A v \in View : \A u, w \in Path[v] : u \in Path[w] \/ w \in Path[u]
  /\ \A u, v, w \in View : u \in Path[w] /\ Order[u] < Order[v] /\ Order[v] < Order[w] => u \in Path[v]
  /\ MayRead \in [View -> SUBSET Entity] /\ MayHide \subseteq View \ {Root}

TypeOK ==
  /\ dirty \in BOOLEAN /\ refreshing \in BOOLEAN
  /\ dirtyViews \subseteq Entity /\ screen \subseteq View
  /\ state \in [Cached -> (SUBSET Entity) \cup {NoState}]
  /\ tracked \subseteq Entity
  /\ stale \subseteq screen /\ swallowed \subseteq stale

Init ==
  /\ dirty = TRUE /\ dirtyViews = {} /\ refreshing = FALSE
  /\ screen = {} /\ tracked = {}
  /\ state = [v \in Cached |-> NoState]
  /\ stale = {} /\ swallowed = {}
-----------------------------------------------------------------------------
\* Mutant: only the notified views, not those around them.
OnlyNotified == dirtyViews \cap screen

\* invalidate_entities, mark_view_dirty: window.dirty_views of the draw.
MarkedDirty == UNION {Path[v] : v \in dirtyViews \cap screen}

\* A frame that shows some views (those whose path it shows). The cached ones are taken from the
\* last frame as they are prepainted, unless they are marked or the window is refreshing;
\* within a cached view that is rendered it always is, so only outermost ones are taken.
Reused(shows) ==
  {c \in Cached : /\ Path[c] \subseteq shows /\ Path[c] \cap Cached = {c}
                  /\ state[c] # NoState /\ c \notin MarkedDirty /\ ~refreshing}

\* What the frame renders.
Rendered(shows) ==
  LET reused == Reused(shows)
  IN  {v \in View : Path[v] \subseteq shows /\ Path[v] \cap reused = {}}

\* entities.accessed_entities: what rendered and reused views access.
AccessedBy(rendered, reused, reading) ==
  rendered \cup (UNION {MayRead[v] : v \in rendered \cap reading}) \cup (UNION {state[c] : c \in reused})

\* A view is rendered as the cached view is prepainted that it is laid out in. That one keeps
\* what was accessed meanwhile and not before (detect_accessed_entities).
Detected(c, rendered, reused, reading) ==
  LET within == {v \in rendered : c \in Path[v]}
      before == {v \in rendered : \A d \in Path[v] \cap Cached : Order[d] < Order[c]}
  IN  AccessedBy(within, {}, reading)
        \ AccessedBy(before, {d \in reused : Order[d] < Order[c]}, reading)

Frame(shows, reading) ==
  LET reused == Reused(shows)
      rendered == Rendered(shows)
      left == {v \in screen : Path[v] \cap reused # {}}
  IN  [rendered |-> rendered, screen |-> rendered \cup left,
       accessed |-> AccessedBy(rendered, reused, reading),
       state |-> [c \in Cached |-> IF c \in rendered THEN Detected(c, rendered, reused, reading)
                                  ELSE IF c \in left THEN state[c] ELSE NoState]]

\* draw: the rendering code shows some views, accesses some entities and may
\* notify a view, which a window that is drawn notes without becoming dirty; so
\* may the focus listeners afterwards. The state of an element that is not on the
\* new frame is dropped.
Draw ==
  LET readers == {v \in View : MayRead[v] # {}}
      Frames(hidden) == {Frame(View \ hidden, reading) : reading \in SUBSET readers}
  IN  \E frame \in UNION {Frames(hidden) : hidden \in SUBSET MayHide}, notified \in {{}} \cup {{v} : v \in View} :
        /\ screen' = frame.screen
        /\ state' = frame.state
        /\ tracked' = frame.accessed
        /\ dirtyViews' = notified \cap tracked
        /\ dirty' = FALSE /\ refreshing' = FALSE
        /\ swallowed' = ((swallowed \ frame.rendered) \cup notified) \cap frame.screen
        /\ stale' = ((stale \ frame.rendered) \cup notified) \cap frame.screen

\* on_request_frame: a frame is drawn when the window is dirty, or the platform
\* wants one anyway.
RequestFrame == dirty /\ Draw
ForceRender == ~dirty /\ Draw

\* App::notify and invalidate_view, while no window is drawn.
Notify(e) ==
  /\ stale' = stale \cup ({e} \cap screen)
  /\ swallowed' = swallowed \ {e}
  /\ IF e \in tracked
     THEN dirtyViews' = dirtyViews \cup {e} /\ dirty' = TRUE
     ELSE UNCHANGED <<dirtyViews, dirty>>
  /\ UNCHANGED <<refreshing, screen, state, tracked>>

Refresh ==
  /\ refreshing' = TRUE /\ dirty' = TRUE
  /\ UNCHANGED <<dirtyViews, screen, state, tracked, stale, swallowed>>

Next == RequestFrame \/ ForceRender \/ Refresh \/ \E e \in Entity : Notify(e)

Spec == Init /\ [][Next]_vars
-----------------------------------------------------------------------------
(* A view on the screen that changed is drawn again: the window is dirty, and the next
   frame will not take the view, or one around it, from the last frame. The exception is a
   view that was notified while the window was drawn: nothing schedules the next frame. *)
ChangedIsDrawn ==
  \A v \in stale \ swallowed : dirty /\ v \in MarkedDirty

(* "The view's previous layout and paint will be recycled from the previous frame if
   Context::notify has not been called since it was rendered": then a notification makes
   the window draw it again, whatever else accesses the view. *)
NotifiedIsNotRecycled == ChangedIsDrawn
=============================================================================
