--------------------------- MODULE WaylandSurface ---------------------------
(* A window on Wayland: the configure events of the compositor, the frame
   callbacks that pace drawing, and the sizes the window takes (window.rs of
   platform/linux/wayland). The compositor is modelled as xdg-shell has it: its
   events come in order, an interactive resize ends with a configure event that is
   not resizing, and a frame callback is answered after the commit it came with.
   Left out: insets and tiling, scales, decorations and layer surfaces. *)
EXTENDS Integers, Sequences

CONSTANTS
  Size, NoSize, FirstSize,
  MaxConfigures,   \* bound: configure events
  MaxInbox         \* bound: of them, on their way

VARIABLES
  inbox,           \* events on their way to the window
  grab,            \* an interactive resize is going on
  last,            \* the last configure event that was sent
  size, restore,   \* bounds.size, window_bounds.size
  maximized, fullscreen,
  throttle,        \* resize_throttle
  acked,           \* the serial of the last acknowledged configure event
  callback,        \* a frame callback was committed and not answered
  changed,         \* the window is dirty
  shown,           \* history: the size of the last presented frame
  resizes,         \* sizes of resize() that were spawned and not run
  source,          \* history: who set the size: the "program", or an event for a "window" or
                   \* for the "screen", that is maximized or fullscreen
  asWindow         \* history: the size when an event was last handled as a window that is
                   \* neither, NoSize if no event had set it

waylandVars == <<inbox, grab, last, size, restore, maximized, fullscreen, throttle,
                 acked, callback, changed, shown, resizes, source, asWindow>>

SurfaceAssumption ==
  /\ FirstSize \in Size /\ NoSize \notin Size
  /\ MaxConfigures \in Nat /\ MaxInbox \in Nat

Configures ==
  {c \in [type : {"configure"}, serial : 1..MaxConfigures, size : Size \cup {NoSize},
          maximized : BOOLEAN, fullscreen : BOOLEAN, resizing : BOOLEAN,
          was : BOOLEAN] :   \* history: the event before was maximized
     /\ c.maximized \/ c.fullscreen => c.size # NoSize /\ ~c.resizing
     /\ c.resizing => c.size # NoSize}

Done == [type |-> "done"]
Unconfigured == [type |-> "configure", serial |-> 0, size |-> NoSize, maximized |-> FALSE,
                 fullscreen |-> FALSE, resizing |-> FALSE, was |-> FALSE]

Sources == {"program", "window", "screen"}

TypeOK ==
  /\ inbox \in Seq(Configures \cup {Done})
  /\ last \in Configures \cup {Unconfigured}
  /\ size \in Size /\ restore \in Size /\ shown \in Size \cup {NoSize}
  /\ {grab, maximized, fullscreen, throttle, callback, changed} \subseteq BOOLEAN
  /\ acked \in 0..MaxConfigures
  /\ source \in Sources /\ asWindow \in Size \cup {NoSize}
  /\ resizes \in Seq(Size)

Init ==
  /\ inbox = <<>> /\ grab = FALSE /\ last = Unconfigured
  /\ size = FirstSize /\ restore = FirstSize /\ shown = NoSize
  /\ maximized = FALSE /\ fullscreen = FALSE /\ throttle = FALSE
  /\ acked = 0 /\ callback = FALSE /\ changed = TRUE
  /\ resizes = <<>>
  /\ source = "window" /\ asWindow = FirstSize
-----------------------------------------------------------------------------
(* The compositor *)

OnTheirWay == Len(SelectSeq(inbox, LAMBDA m : m # Done))

Configure(c) ==
  /\ OnTheirWay < MaxInbox
  /\ c.serial = last.serial + 1 /\ c.was = last.maximized
  /\ c.resizing => grab
  /\ c.serial = 1 => ~grab
  /\ grab' = (grab /\ c.resizing)
  /\ last' = c
  /\ inbox' = Append(inbox, c)
  /\ UNCHANGED <<size, restore, maximized, fullscreen, throttle, acked, callback, changed, shown, resizes, source, asWindow>>

\* The user grabs a border of a window that is neither maximized nor fullscreen;
\* there will be a configure event when it is let go.
Grab ==
  /\ last.serial \in 1..(MaxConfigures - 2) /\ ~(last.maximized \/ last.fullscreen)
  /\ grab' = TRUE
  /\ UNCHANGED <<inbox, last, size, restore, maximized, fullscreen, throttle, acked, callback, changed, shown, resizes, source, asWindow>>

Answer ==
  /\ callback
  /\ callback' = FALSE
  /\ inbox' = Append(inbox, Done)
  /\ UNCHANGED <<grab, last, size, restore, maximized, fullscreen, throttle, acked, changed, shown, resizes, source, asWindow>>
-----------------------------------------------------------------------------
(* The window *)

\* Mutant: a frame that was not drawn is not committed.
FrameIfDrawn ==
  /\ throttle' = FALSE
  /\ callback' = changed
  /\ changed' = FALSE
  /\ shown' = IF changed THEN size' ELSE shown

\* frame(): the next callback is asked for, the window is drawn if it is dirty,
\* and the surface is committed either way (complete_frame).
Frame ==
  /\ throttle' = FALSE
  /\ callback' = TRUE
  /\ changed' = FALSE
  /\ shown' = IF changed \/ size' # size THEN size' ELSE shown

HandleDone ==
  /\ inbox # <<>> /\ Head(inbox) = Done
  /\ inbox' = Tail(inbox)
  /\ size' = size
  /\ Frame
  /\ UNCHANGED <<grab, last, restore, maximized, fullscreen, acked, resizes, source, asWindow>>

\* Mutant: the last event of an interactive resize is throttled, too.
ThrottledAlways(c) == throttle
Throttled(c) == c.resizing /\ throttle

\* handle_toplevel_event and handle_xdg_surface_event: during an interactive resize
\* one size per frame is taken, and a window that leaves the maximized state goes
\* back to the size it had.
HandleConfigure ==
  /\ inbox # <<>> /\ Head(inbox).type = "configure"
  /\ LET c == Head(inbox)
         windowed == ~c.maximized /\ ~c.fullscreen
         new == IF windowed /\ maximized THEN restore ELSE c.size
     IN  /\ maximized' = c.maximized /\ fullscreen' = c.fullscreen
         /\ asWindow' = IF maximized \/ fullscreen THEN asWindow ELSE IF source = "window" THEN size ELSE NoSize
         /\ IF Throttled(c)
            THEN UNCHANGED <<size, restore, throttle, acked, callback, changed, shown, source>>
            ELSE /\ size' = IF new = NoSize THEN size ELSE new
                 /\ source' = IF new = NoSize THEN source ELSE IF windowed THEN "window" ELSE "screen"
                 /\ restore' = IF windowed /\ new # NoSize THEN new ELSE restore
                 /\ acked' = c.serial
                 /\ IF acked = 0 THEN Frame
                    ELSE /\ throttle' = (throttle \/ c.resizing)
                         /\ changed' = (changed \/ size' # size)
                         /\ UNCHANGED <<callback, shown>>
  /\ inbox' = Tail(inbox)
  /\ UNCHANGED <<grab, last, resizes>>

\* resize() of the program: the size is taken by a task. Bound: one of them waits.
Resize(s) ==
  /\ resizes = <<>>
  /\ resizes' = <<s>>
  /\ UNCHANGED <<inbox, grab, last, size, restore, maximized, fullscreen, throttle, acked, callback, changed, shown, source, asWindow>>

RunResize ==
  /\ resizes # <<>>
  /\ size' = Head(resizes) /\ resizes' = Tail(resizes) /\ source' = "program"
  /\ changed' = (changed \/ size' # size)
  /\ UNCHANGED <<inbox, grab, last, restore, maximized, fullscreen, throttle, acked, callback, shown, asWindow>>

Invalidate ==
  /\ changed' = TRUE
  /\ UNCHANGED <<inbox, grab, last, size, restore, maximized, fullscreen, throttle, acked, callback, shown, resizes, source, asWindow>>

Next ==
  \/ \E c \in Configures : Configure(c)
  \/ Grab \/ Answer
  \/ HandleDone \/ HandleConfigure
  \/ \E s \in Size : Resize(s)
  \/ RunResize \/ Invalidate

Spec == Init /\ [][Next]_waylandVars
FairSpec ==
  /\ Spec
  /\ WF_waylandVars(Answer) /\ WF_waylandVars(HandleDone) /\ WF_waylandVars(HandleConfigure)
-----------------------------------------------------------------------------
Unmaximized == last.was /\ ~last.maximized /\ ~last.fullscreen

(* When the compositor's events are handled, no border is held and the program has set no size
   since, the window has the size of the last event, if that has one, however many were
   throttled before; one that is maximized no more has the size it had when it became so, if it had that
   from an event for a window. A size that resize() set before is lost: window_bounds, which
   is what the window goes back to, does not know of it. *)
SettledSize ==
  /\ \A n \in DOMAIN inbox : inbox[n] = Done
  /\ ~grab /\ source # "program"
  => IF Unmaximized THEN asWindow # NoSize => size = asWindow
     ELSE last.size # NoSize => size = last.size

Due == changed /\ acked > 0
Presented == ~changed /\ shown = size

(* A window that has its first configure event and is dirty, because of its size or its
   content, is drawn: the chain of frame callbacks never ends. *)
DirtyIsDrawn == Due ~> Presented
=============================================================================
