----------------------------- MODULE MouseInput -----------------------------
(* Clicks and drags: what the mouse listeners of elements (div.rs) make of the events that a
   window dispatches to them (window.rs), while frames lay the elements out anew. The
   listeners of an element live for one frame, its state while frames have it. Left out: hover
   and active styles, tooltips, focus by mouse, and click listeners that keep the drop of
   their own element from being made. *)
EXTENDS Integers, FiniteSetsExt, SequencesExt

CONSTANTS
  Element,
  Index,           \* of an element, in the order of painting
  Blocking,        \* elements that occlude those behind them
  Position,        \* farther from one another than DRAG_THRESHOLD
  Layouts,         \* a frame's elements, with the positions in their bounds
  Clickable, AuxClickable, Draggable, DropTarget,
  MaxPresses,      \* bound: mouse down events
  NoPress, NoDrag

VARIABLES
  laidOut,         \* the layout of rendered_frame
  pendingDown,     \* pending_mouse_down of each element, the number of a press
  captured,        \* captured_mouse_down, of the listener
  dragListener,    \* the elements whose drag_listener was not taken
  activeDrag,      \* of App
  refreshing,
  presses,         \* history: what was pressed where
  told,            \* history: the presses an element was told clicks of
  releasedOver     \* history: the elements that were under a release since the last frame

mouseVars == <<laidOut, pendingDown, captured, dragListener, activeDrag, refreshing,
               presses, told, releasedOver>>

MouseAssumption ==
  /\ IsFiniteSet(Element) /\ Index \in [Element -> Nat] /\ IsInjective(Index)
  /\ Blocking \cup Clickable \cup AuxClickable \cup Draggable \cup DropTarget \subseteq Element
  /\ \A l \in Layouts : DOMAIN l \subseteq Element /\ \A e \in DOMAIN l : l[e] \subseteq Position
  /\ MaxPresses \in Nat /\ NoPress \notin Nat /\ NoDrag \notin Element \cup {"files"}

Button == {"left", "right"}
Under(position) == {e \in DOMAIN laidOut : position \in laidOut[e]}

\* hit_test: from front to back, up to one that blocks the mouse.
Hovered(position) ==
  {e \in Under(position) : \A f \in Under(position) \cap Blocking : Index[f] <= Index[e]}

\* Elements that register the listeners of clicks and drags.
Listening == (Clickable \cup AuxClickable \cup Draggable) \cap DOMAIN laidOut

\* A listener of the application may stop the event, in the capture phase (from back to
\* front), or in the bubble phase (back again). It comes before the others of its element.
NoStop == [phase |-> "none", at |-> NoPress]
Stop == {NoStop} \cup [phase : {"capture", "bubble"}, at : DOMAIN laidOut]
InCapture(stop) == {e \in DOMAIN laidOut : stop.phase = "capture" => Index[e] < Index[stop.at]}
InBubble(stop) ==
  {e \in DOMAIN laidOut : stop.phase # "capture" /\ (stop.phase = "bubble" => Index[e] >= Index[stop.at])}

Foremost(elements) == CHOOSE e \in elements : \A f \in elements : Index[f] <= Index[e]
-----------------------------------------------------------------------------
MouseDown(button, position, stop) ==
  /\ Len(presses) < MaxPresses
  /\ LET over == Hovered(position)
         hit == {e \in over \cap Listening \cap InBubble(stop) : button = "left" \/ e \in AuxClickable}
     IN  /\ presses' = Append(presses, [button |-> button, at |-> position, over |-> over,
                                        released |-> {}, spoilt |-> {}, dragged |-> {}])
         /\ pendingDown' = [e \in Element |-> IF e \in hit THEN Len(presses') ELSE pendingDown[e]]
         /\ refreshing' = (refreshing \/ hit # {})
  /\ UNCHANGED <<laidOut, captured, dragListener, activeDrag, told, releasedOver>>

\* A pressed element that still has its drag listener is dragged when the mouse moves away.
\* The listener is taken before the button is looked at.
MouseMove(position, stop) ==
  LET moved == {e \in InBubble(stop) \cap dragListener :
                  pendingDown[e] # NoPress /\ presses[pendingDown[e]].at # position}
      startable == {e \in moved : presses[pendingDown[e]].button = "left"}
      started == IF startable = {} THEN {} ELSE {Foremost(startable)}
      press == pendingDown[Foremost(startable)]
  IN  /\ IF activeDrag # NoDrag
         THEN UNCHANGED <<pendingDown, dragListener, activeDrag, presses>>
         ELSE /\ dragListener' = dragListener \ {e \in moved : \A s \in started : Index[s] <= Index[e]}
              /\ activeDrag' = IF started = {} THEN NoDrag ELSE Foremost(startable)
              /\ pendingDown' = [e \in Element |-> IF e \in started THEN NoPress ELSE pendingDown[e]]
              /\ presses' = IF started = {} THEN presses ELSE [presses EXCEPT ![press].dragged = @ \cup started]
      /\ refreshing' = (refreshing \/ activeDrag' # NoDrag)
      /\ UNCHANGED <<laidOut, captured, told, releasedOver>>

\* Mutant: an element that is not under the release stays pressed.
ClearedIfOver(seen, over) == [e \in Element |-> IF e \in seen \cap over THEN NoPress ELSE pendingDown[e]]

\* The capture phase clears the press of every element it comes to.
Cleared(seen, over) == [e \in Element |-> IF e \in seen THEN NoPress ELSE pendingDown[e]]
Captured(seen, over) == [e \in Element |-> IF e \in seen \cap over THEN pendingDown[e] ELSE captured[e]]

\* Drop targets take drags of any kind.
Targets(over, stop) ==
  IF activeDrag = NoDrag THEN {} ELSE DropTarget \cap over \cap InBubble(stop)

\* The bubble phase gives the clicks, down to a listener that stops it or takes the drop. The
\* foremost drop target takes the drag, even when it refuses the value.
MouseUp(position, stop, accepted) ==
  LET over == Hovered(position)
      seen == {e \in Listening \cap InCapture(stop) : pendingDown[e] # NoPress}
      targets == Targets(over, stop)
      dropped == accepted /\ targets # {}
      clicked == {e \in Listening \cap InBubble(stop) :
                    /\ Captured(seen, over)[e] # NoPress
                    /\ dropped => Index[e] >= Index[Foremost(targets)]}
  IN  /\ pendingDown' = Cleared(seen, over)
      /\ captured' = [e \in Element |-> IF e \in clicked THEN NoPress ELSE Captured(seen, over)[e]]
      /\ told' = [e \in Element |-> IF e \in clicked THEN Append(told[e], Captured(seen, over)[e]) ELSE told[e]]
      /\ activeDrag' = NoDrag
      /\ refreshing' = (refreshing \/ seen # {} \/ dropped \/ (activeDrag # NoDrag /\ targets = {}))
      /\ releasedOver' = releasedOver \cup over
      /\ presses' = [n \in DOMAIN presses |->
                       LET first == {e \in seen \ presses[n].released : pendingDown[e] = n}
                       IN  [presses[n] EXCEPT !.released = @ \cup first, !.spoilt = @ \cup (first \ over)]]
      /\ UNCHANGED <<laidOut, dragListener>>

\* Files that are dragged over the window are a drag of their own, and moves of the mouse.
FilesEntered ==
  /\ activeDrag' = IF activeDrag = NoDrag THEN "files" ELSE activeDrag
  /\ refreshing' = TRUE
  /\ UNCHANGED <<laidOut, pendingDown, captured, dragListener, presses, told, releasedOver>>
FilesExited ==
  /\ activeDrag' = NoDrag
  /\ UNCHANGED <<laidOut, pendingDown, captured, dragListener, refreshing, presses, told, releasedOver>>

StopActiveDrag ==
  /\ activeDrag # NoDrag
  /\ activeDrag' = NoDrag
  /\ refreshing' = TRUE
  /\ UNCHANGED <<laidOut, pendingDown, captured, dragListener, presses, told, releasedOver>>

\* What the frame does not have loses its state.
StateKept(layout) == [e \in Element |-> IF e \in DOMAIN layout THEN pendingDown[e] ELSE NoPress]

\* A frame: the listeners are new, but for those of views that are reused, which a refresh
\* rules out.
Frame(layout, reused) ==
  /\ refreshing => reused = {}
  /\ \A e \in reused : e \in DOMAIN laidOut /\ e \in DOMAIN layout /\ layout[e] = laidOut[e]
  /\ laidOut' = layout
  /\ pendingDown' = StateKept(layout)
  /\ captured' = [e \in Element |-> IF e \in reused THEN captured[e] ELSE NoPress]
  /\ dragListener' = Draggable \cap (DOMAIN layout \ (reused \ dragListener))
  /\ refreshing' = FALSE
  /\ releasedOver' = {}
  /\ UNCHANGED <<activeDrag, presses, told>>
-----------------------------------------------------------------------------
Init ==
  /\ laidOut \in Layouts
  /\ pendingDown = [e \in Element |-> NoPress] /\ captured = pendingDown
  /\ dragListener = Draggable \cap DOMAIN laidOut
  /\ activeDrag = NoDrag /\ refreshing = FALSE
  /\ presses = <<>> /\ told = [e \in Element |-> <<>>] /\ releasedOver = {}

Next ==
  \/ \E position \in Position, stop \in Stop :
       \/ \E button \in Button : MouseDown(button, position, stop)
       \/ MouseMove(position, stop)
       \/ \E accepted \in BOOLEAN : MouseUp(position, stop, accepted)
  \/ FilesEntered
  \/ FilesExited
  \/ StopActiveDrag
  \/ \E layout \in Layouts, reused \in SUBSET Element : Frame(layout, reused)

Spec == Init /\ [][Next]_mouseVars
-----------------------------------------------------------------------------
TypeOK ==
  /\ laidOut \in Layouts
  /\ pendingDown \in [Element -> {NoPress} \cup DOMAIN presses]
  /\ captured \in [Element -> {NoPress} \cup DOMAIN presses]
  /\ dragListener \subseteq Draggable \cap DOMAIN laidOut
  /\ activeDrag \in Draggable \cup {NoDrag, "files"} /\ refreshing \in BOOLEAN

TellsWhole(e) ==
  LET n == Last(told'[e])
  IN  /\ n \notin Range(told[e])
      /\ e \in presses[n].over \ (presses[n].spoilt \cup presses[n].dragged)
      /\ presses[n].button = "right" => e \in AuxClickable
      /\ e \in releasedOver'
KeepsClicks == \A e \in Element : told'[e] # told[e] => TellsWhole(e)

(* An element is told of a click once for a press over it that it takes, when no drag began with
   the press and it was under the first release that came to it. It is told when it is
   under the mouse, or was at an earlier release since the last frame, whose propagation ended
   before it: whatever stops events, moves elements and takes their state between the two. *)
ClicksAreWhole == [][KeepsClicks]_mouseVars
=============================================================================
