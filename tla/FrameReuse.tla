----------------------------- MODULE FrameReuse -----------------------------
(* How a frame takes cached views from the last one: ranges of the dispatch tree
   (key_dispatch.rs) and of what was painted, deferred draws included (view.rs,
   window.rs), and the tab stops that are found in it (tab_stop.rs). A frame is a
   step. painted stands for all that is kept by paint index: the scene, the mouse
   listeners and the insertion history of the tab stops. Left out: prompts, drags and
   tooltips, and transact. *)
EXTENDS Integers, FiniteSetsExt, SequencesExt

CONSTANTS
  Element, Root,
  Kids,            \* the elements in an element, in the order of drawing
  CachedView, Deferred,  \* elements of these kinds
  Priority,        \* of deferred elements
  Optional,        \* elements their view does not always show
  Handle,          \* elements that track a focus handle
  TabIndex, TabStop,  \* of the handles and groups
  TabGroup,
  NoFocus, NoState

VARIABLES
  shown,           \* optional elements that the views show
  frame,           \* rendered_frame: [nodes, deferred, painted, focus]
  ranges,          \* AnyViewState of the cached views: [prepaint, paint]
  focus,
  refreshing

frameVars == <<shown, frame, ranges, focus, refreshing>>

ElementAssumption ==
  /\ Root \in Element \ (CachedView \cup Deferred)
  /\ Kids \in [Element -> Seq(Element \ {Root})]
  /\ \A e \in Element \ {Root} : Quantify(Element, LAMBDA p : e \in Range(Kids[p])) = 1
  /\ Optional \subseteq Element \ {Root} /\ Handle \cup TabGroup \subseteq Element
  /\ NoFocus \notin Handle

Around[e \in Element] ==
  IF e = Root THEN {e} ELSE {e} \cup Around[CHOOSE p \in Element : e \in Range(Kids[p])]

\* Nothing can be deferred while deferred elements are drawn.
DeferredAssumption == \A e \in Deferred : Around[e] \cap Deferred = {e}

TypeOK ==
  /\ shown \subseteq Optional
  /\ \A n \in DOMAIN frame.nodes :
       /\ frame.nodes[n].element \in Element /\ frame.nodes[n].live \in BOOLEAN
       /\ frame.nodes[n].parent \in 0..(n - 1)
  /\ frame.focus \in Handle \cup {NoFocus}
  /\ DOMAIN ranges = CachedView
  /\ focus \in Handle \cup {NoFocus} /\ refreshing \in BOOLEAN

NothingYet == [nodes |-> <<>>, deferred |-> <<>>, painted |-> <<>>, focus |-> NoFocus]

Init ==
  /\ shown \in SUBSET Optional
  /\ frame = NothingYet
  /\ ranges = [v \in CachedView |-> NoState]
  /\ focus = NoFocus /\ refreshing = FALSE
-----------------------------------------------------------------------------
(* A frame being drawn, next, also has the ranges, what was reused, the nodes whose
   listeners were taken, and its input: the shown elements, the views that must be
   rendered, and the last frame. *)

PrepaintIndex(next) == [nodes |-> Len(next.nodes), deferred |-> Len(next.deferred)]
PaintIndex(next) == Len(next.painted)

KidsOf(next, e) == SelectSeq(Kids[e], LAMBDA k : k \in Optional => k \in next.shown)

PushNode(next, e, parent) ==
  [next EXCEPT !.nodes = Append(@, [element |-> e, parent |-> parent, live |-> TRUE]),
               !.focus = IF e \in Handle /\ e = focus THEN e ELSE @]

\* Mutant: the nodes of a subtree all become children of the active node.
ReuseSubtreeFlat(next, first, last, active) ==
  LET old == next.last.nodes
      Moved(n) == [old[n] EXCEPT !.parent = active, !.live = @ /\ n \notin next.taken]
  IN  [next EXCEPT !.nodes = @ \o [i \in 1..(last - first) |-> Moved(first + i)],
                   !.taken = @ \cup (first + 1)..last]

\* reuse_subtree: a node goes below its parent while that is on the stack, else below
\* the active node. Listeners are moved.
ReuseSubtree(next, first, last, active) ==
  LET old == next.last.nodes
      Stack[n \in first..last] ==
        IF n = first THEN {}
        ELSE {n} \cup {p \in Stack[n - 1] : old[n].parent \in Stack[n - 1] /\ p <= old[n].parent}
      Parent(n) == IF old[n].parent \in Stack[n - 1] THEN old[n].parent - first + Len(next.nodes) ELSE active
      Moved(n) == [old[n] EXCEPT !.parent = Parent(n), !.live = @ /\ n \notin next.taken]
  IN  [next EXCEPT !.nodes = @ \o [i \in 1..(last - first) |-> Moved(first + i)],
                   !.taken = @ \cup (first + 1)..last]

\* Indexes that do not fit panic, and nothing more is drawn.
InRange(next, from, to) ==
  /\ to.nodes <= Len(next.last.nodes) /\ to.deferred <= Len(next.last.deferred)
  /\ \A d \in (from.deferred + 1)..to.deferred :
       next.last.deferred[d].parent \in (from.nodes + 1)..to.nodes

ReusePrepaint(next, from, to, active) ==
  LET hasFocus == \E n \in (from.nodes + 1)..to.nodes : next.last.nodes[n].element \in {focus} \cap Handle
      Draw(d) == [d EXCEPT !.parent = @ - from.nodes + Len(next.nodes), !.rendered = FALSE]
      draws == SubSeq(next.last.deferred, from.deferred + 1, to.deferred)
  IN  IF ~InRange(next, from, to) THEN next
      ELSE [ReuseSubtree(next, from.nodes, to.nodes, active) EXCEPT
              !.deferred = @ \o [i \in DOMAIN draws |-> Draw(draws[i])],
              !.focus = IF hasFocus THEN focus ELSE @]

Reusable(next, v) ==
  next.ranges[v] # NoState /\ v \notin next.dirty /\ ~next.refreshing

RECURSIVE Prepaint(_, _, _)

PrepaintKids(next, e, node) ==
  FoldLeft(LAMBDA n, k : Prepaint(n, k, node), next, KidsOf(next, e))

Recorded(next, v, from) ==
  [next EXCEPT !.ranges[v] = [from |-> from, to |-> PrepaintIndex(next),
                              paint |-> IF @ = NoState THEN <<0, 0>> ELSE @.paint]]

\* AnyView::prepaint of a cached view. A view that is rendered renders all that is
\* prepainted with it.
PrepaintView(next, v, node) ==
  IF Reusable(next, v)
  THEN Recorded([ReusePrepaint(next, next.ranges[v].from, next.ranges[v].to, node) EXCEPT !.reused = @ \cup {v}],
                v, PrepaintIndex(next))
  ELSE Recorded([PrepaintKids([next EXCEPT !.refreshing = TRUE], v, node) EXCEPT !.refreshing = next.refreshing],
                v, PrepaintIndex(next))

DeferDraw(next, e) ==
  [next EXCEPT !.deferred = Append(@, [element |-> e, parent |-> Len(next.nodes), rendered |-> TRUE,
                                       from |-> 0, to |-> 0, paint |-> <<0, 0>>])]

Prepaint(next, e, parent) ==
  CASE e \in Deferred -> DeferDraw(PushNode(next, e, parent), e)
    [] e \in CachedView -> PrepaintView(PushNode(next, e, parent), e, Len(next.nodes) + 1)
    [] OTHER -> PrepaintKids(PushNode(next, e, parent), e, Len(next.nodes) + 1)

\* prepaint_deferred_draws: while they are prepainted, the list is empty.
PrepaintDeferred(next, i) ==
  LET d == next.deferred[i]
      empty == [next EXCEPT !.deferred = <<>>]
      Back(done) == [done EXCEPT !.deferred = [next.deferred EXCEPT ![i].from = Len(next.nodes),
                                                                    ![i].to = Len(done.nodes)]]
  IN  Back(IF d.rendered THEN PrepaintKids(empty, d.element, d.parent)
           ELSE ReusePrepaint(empty, [nodes |-> d.from, deferred |-> 0], [nodes |-> d.to, deferred |-> 0], d.parent))

ReusePaint(next, range) ==
  IF range[2] > Len(next.last.painted) THEN next
  ELSE [next EXCEPT !.painted = @ \o SubSeq(next.last.painted, range[1] + 1, range[2])]

RECURSIVE Paint(_, _)

PaintKids(next, e) == FoldLeft(Paint, next, KidsOf(next, e))

\* A tab group is opened behind the element's own handle, and closed behind its kids.
Paint(next, e) ==
  LET op(o) == <<[op |-> o, element |-> e]>>
      Opened(n) == [n EXCEPT !.painted = @ \o op("paint") \o (IF e \in TabGroup THEN op("group") ELSE <<>>)]
      Closed(n) == IF e \in TabGroup THEN [n EXCEPT !.painted = @ \o op("end")] ELSE n
      Kept(own, n) == [n EXCEPT !.ranges[e].paint = <<PaintIndex(own), PaintIndex(n)>>]
      AsView(own) == Kept(own, IF e \in own.reused THEN ReusePaint(own, own.ranges[e].paint) ELSE PaintKids(own, e))
  IN  Closed(CASE e \in Deferred -> Opened(next)
               [] e \in CachedView -> AsView(Opened(next))
               [] OTHER -> PaintKids(Opened(next), e))

PaintDeferred(next, i) ==
  LET d == next.deferred[i]
      Kept(done) == [done EXCEPT !.deferred[i].paint = <<PaintIndex(next), PaintIndex(done)>>]
  IN  Kept(IF d.rendered THEN PaintKids(next, d.element) ELSE ReusePaint(next, d.paint))

\* Deferred draws go by priority, and then in the order in which they were made.
DeferredOrder(next) ==
  LET Earlier(i, j) ==
        LET p == Priority[next.deferred[i].element]
            q == Priority[next.deferred[j].element]
        IN  p < q \/ (p = q /\ i < j)
  IN  SetToSortSeq(DOMAIN next.deferred, Earlier)

PrepaintRoots(start) ==
  LET All(next) == FoldLeft(PrepaintDeferred, next, DeferredOrder(next)) IN All(Prepaint(start, Root, 0))

DrawRoots(start) ==
  LET All(next) == FoldLeft(PaintDeferred, Paint(next, Root), DeferredOrder(next)) IN All(PrepaintRoots(start))

Start(now, dirty) ==
  NothingYet @@ [ranges |-> ranges, reused |-> {}, taken |-> {},
                 shown |-> now, dirty |-> dirty, refreshing |-> refreshing, last |-> frame]

\* draw: a view whose content changed was notified, and so were those around it. The
\* state of a view that was not on the frame is dropped.
Draw ==
  \E now \in SUBSET Optional, more \in kSubset(1, CachedView) \cup {{}} :
    LET changed == (shown \ now) \cup (now \ shown)
        dirty == (UNION {Around[e] : e \in changed \cup more}) \cap CachedView
    IN  \E next \in {DrawRoots(Start(now, dirty))} :
          /\ shown' = now
          /\ frame' = [nodes |-> next.nodes, deferred |-> next.deferred, painted |-> next.painted,
                       focus |-> next.focus]
          /\ ranges' = [v \in CachedView |->
                          IF \E n \in DOMAIN next.nodes : next.nodes[n].element = v THEN next.ranges[v] ELSE NoState]
          /\ refreshing' = FALSE
          /\ UNCHANGED focus
-----------------------------------------------------------------------------
(* The tab stops *)

History == frame.painted
Inserted == {i \in DOMAIN History : History[i].op = "paint" /\ History[i].element \in Handle}

\* The groups that are open at i, and the tab index of what is inserted there.
TabPath(i) ==
  LET Open[j \in 0..Len(History)] ==
        IF j = 0 THEN <<>>
        ELSE CASE History[j].op = "group" -> Append(Open[j - 1], TabIndex[History[j].element])
               [] History[j].op = "end" -> Front(Open[j - 1])
               [] OTHER -> Open[j - 1]
  IN  Append(Open[i - 1], TabIndex[History[i].element])

PathLess(s, t) ==
  \/ IsStrictPrefix(s, t)
  \/ \E n \in DOMAIN s \cap DOMAIN t : s[n] < t[n] /\ SubSeq(s, 1, n - 1) = SubSeq(t, 1, n - 1)

\* The order of the tab stop map, as the handles stand in it.
TabOrder ==
  LET Before(i, j) == PathLess(TabPath(i), TabPath(j)) \/ (TabPath(i) = TabPath(j) /\ i < j)
      order == SetToSortSeq(Inserted, Before)
  IN  [n \in DOMAIN order |-> History[order[n]].element]

\* Mutant: what follows a handle is taken though it is no tab stop.
NextStopAny(order, from) ==
  LET n == IF from \in Range(order) THEN Max({m \in DOMAIN order : order[m] = from}) ELSE 0
  IN  IF n + 1 \in DOMAIN order THEN order[n + 1] ELSE IF order = <<>> THEN NoFocus ELSE order[1]

\* The first tab stop behind from, or of all.
NextStop(order, from) ==
  LET stops == {n \in DOMAIN order : order[n] \in TabStop}
      at == IF from \in Range(order) THEN Max({m \in DOMAIN order : order[m] = from}) ELSE 0
      behind == {n \in stops : n > at}
  IN  IF stops = {} THEN NoFocus ELSE order[Min(IF behind # {} THEN behind ELSE stops)]

PrevStop(order, from) == NextStop(Reverse(order), from)

\* focus(): a change of the focus refreshes the window.
FocusOn(h) ==
  /\ h # focus /\ h # NoFocus
  /\ focus' = h /\ refreshing' = TRUE
  /\ UNCHANGED <<shown, frame, ranges>>

FocusNext == FocusOn(NextStop(TabOrder, focus))
FocusPrev == FocusOn(PrevStop(TabOrder, focus))

Next == Draw \/ FocusNext \/ FocusPrev \/ \E h \in Handle : FocusOn(h)

Spec == Init /\ [][Next]_frameVars
-----------------------------------------------------------------------------
(* A frame that takes views from the last one is the frame that rendering all of them gives:
   the same nodes, with their parents and listeners, painted in the same order, and it knows
   its focus. *)
FrameIsWhole ==
  frame # NothingYet /\ ~refreshing =>
    LET full == DrawRoots([Start(shown, CachedView) EXCEPT !.refreshing = TRUE])
    IN  /\ frame.nodes = full.nodes /\ frame.painted = full.painted
        /\ frame.focus = full.focus

(* Tab goes through all tab stops that are painted, groups at their place, and shift-tab
   goes the same way back, whatever of the frame was reused. *)
TabsCycle ==
  LET order == TabOrder
      stops == Range(order) \cap TabStop
      Tabbed[n \in 0..Cardinality(Handle)] == IF n = 0 THEN NoFocus ELSE NextStop(order, Tabbed[n - 1])
  IN  /\ {Tabbed[n] : n \in 1..Cardinality(stops)} = stops
      /\ \A h \in stops : PrevStop(order, NextStop(order, h)) = h

(* "The view's previous layout and paint will be recycled from the previous frame": its own,
   wherever it is. *)
RecyclesItsOwn == FrameIsWhole
=============================================================================
