----------------------------- MODULE AppEffects -----------------------------
(***************************************************************************)
(* The update cycle of App (app.rs): user code queues effects, and when    *)
(* the outermost update ends they are applied one at a time, entities      *)
(* whose last handle is gone being released in between, until nothing is   *)
(* left.  The observers of entities are a SubscriberSet.  Of the effects    *)
(* there are Notify and the Defer that activates an observer; release      *)
(* callbacks are the user code that runs between effects.                  *)
(***************************************************************************)
EXTENDS Integers, Sequences, FiniteSets

CONSTANTS
  Entity,
  Window,
  MaxId,        \* observers are 0 .. MaxId
  MaxEffects,   \* effects pending at once
  MaxStack,     \* frames on the stack when an update is entered
  None

ASSUME BoundAssumption == MaxId \in Nat
ASSUME NoneAssumption == None \notin 0..MaxId \cup Window

VARIABLES
  \* the observers, see SubscriberSet
  entry, members, dropped, nextId, active, held, passes, emitterOf, fate,
  life,                   \* [Entity -> "alive", "dead" or "released"]
  pendingEffects,         \* pending_effects
  pendingNotifications,   \* pending_notifications
  pendingUpdates,         \* pending_updates
  flushing,               \* flushing_effects
  stack,                  \* what the main thread is inside of, innermost last
  tracked,                \* [Window -> SUBSET Entity], tracked_entities
  drawing,                \* the window that is being drawn
  quit,                   \* whether shutdown was called
  owed,                   \* history: observers that a queued notification was for
  news,                   \* history: observers whose entity notified since they joined
  bare                    \* history: an effect was queued outside of every update

setVars == <<entry, members, dropped, nextId, active, held, passes, emitterOf, fate>>
queueVars == <<pendingEffects, pendingNotifications>>
flushVars == <<pendingUpdates, flushing>>
drawVars == <<tracked, drawing>>
history == <<owed, news, bare>>
vars == <<setVars, life, queueVars, flushVars, stack, drawVars, quit, history>>

Observers == INSTANCE SubscriberSet WITH Emitter <- Entity, MaxDepth <- 2

Id == 0..MaxId

\* bare: user code that App calls outside of every update.  pass: inside
\* retain, between two callbacks or in one.  lastflush: the flush of shutdown.
UserFrame == {"bare", "update", "draw", "release"}
FlushFrame == {"flush", "lastflush"}
Effect == [kind : {"notify"}, entity : Entity] \cup
          [kind : {"activate"}, id : Id]

FramesIn(labels) == {p \in DOMAIN stack : stack[p] \in labels}

\* Each update that was entered, and the one whose end is being flushed, is
\* counted.
TypeOK ==
  /\ Observers!TypeOK
  /\ life \in [Entity -> {"alive", "dead", "released"}]
  /\ pendingEffects \in Seq(Effect)
  /\ pendingNotifications \subseteq Entity
  /\ pendingUpdates = Cardinality(FramesIn({"update", "flush"}))
  /\ flushing \in BOOLEAN
  /\ stack \in Seq(UserFrame \cup FlushFrame \cup {"pass"})
  /\ tracked \in [Window -> SUBSET Entity]
  /\ drawing \in Window \cup {None}
  /\ quit \in {"no", "quitting", "ended"}
  /\ owed \subseteq Id /\ news \subseteq Id
  /\ bare \in BOOLEAN

Init ==
  /\ Observers!Init
  /\ life = [e \in Entity |-> "alive"]
  /\ pendingEffects = << >> /\ pendingNotifications = {}
  /\ pendingUpdates = 0 /\ flushing = FALSE
  /\ stack = << >>
  /\ tracked = [w \in Window |-> {}]
  /\ drawing = None
  /\ quit = "no"
  /\ owed = {} /\ news = {} /\ bare = FALSE

-----------------------------------------------------------------------------
Frame == IF stack = << >> THEN "none" ELSE stack[Len(stack)]
Enter(label) == stack' = Append(stack, label)
Leave == stack' = SubSeq(stack, 1, Len(stack) - 1)
GoOnAs(label) == stack' = [stack EXCEPT ![Len(stack)] = label]

Running == passes[Len(passes)]      \* the innermost pass

\* An observer's handler upgrades its weak handle first, and returns false at
\* once where that fails (observe_internal).
InHandler == Frame = "pass" /\ Running.current # None
InUserCode == Frame \in UserFrame \/ (InHandler /\ life[Running.key] = "alive")

Queue(effect) ==
  /\ Len(pendingEffects) < MaxEffects
  /\ pendingEffects' = Append(pendingEffects, effect)
  /\ bare' = (bare \/ pendingUpdates = 0)

-----------------------------------------------------------------------------
(* User code *)

\* Mutant: forgets that the notification is pending.
QueueNotifyAgain(e) ==
  /\ Queue([kind |-> "notify", entity |-> e])
  /\ pendingNotifications' = pendingNotifications \cup {e}

\* push_effect: a notification that is pending is not queued again.
QueueNotify(e) ==
  IF e \in pendingNotifications
  THEN UNCHANGED <<queueVars, bare>>
  ELSE /\ Queue([kind |-> "notify", entity |-> e])
       /\ pendingNotifications' = pendingNotifications \cup {e}

\* WindowInvalidator::invalidate_view: a window that is being drawn swallows
\* the notification of an entity it showed in its last frame, when no other
\* window showed it: nothing is queued, and its observers are told neither then
\* nor later, whatever notify and observe promise them.
Swallowed(e) ==
  LET showing == {w \in Window : e \in tracked[w]}
  IN showing # {} /\ showing \subseteq {drawing}

ObserversOf(e) == {i \in Id : fate[i] = "live" /\ emitterOf[i] = e}

\* App::notify, of any id the caller kept.
Notify(e) ==
  /\ InUserCode
  /\ IF Swallowed(e)
     THEN UNCHANGED <<queueVars, history>>
     ELSE /\ QueueNotify(e)
          /\ owed' = owed \cup (ObserversOf(e) \cap active)
          /\ news' = news \cup {i \in Id : i < nextId /\ emitterOf[i] = e}
  /\ UNCHANGED <<setVars, life, flushVars, stack, drawVars, quit>>

\* Mutant: the observer is active at once.
ObserveActive ==
  /\ InUserCode /\ nextId \in Id /\ life[emitterOf[nextId]] = "alive"
  /\ Observers!SetMembers(emitterOf[nextId], members[emitterOf[nextId]] \cup {nextId})
  /\ held' = held \cup {nextId} /\ active' = active \cup {nextId}
  /\ fate' = [fate EXCEPT ![nextId] = "live"]
  /\ nextId' = nextId + 1
  /\ UNCHANGED <<dropped, passes, emitterOf>>
  /\ UNCHANGED <<life, queueVars, flushVars, stack, drawVars, quit, history>>

\* App::observe, new_observer: the activation is deferred.
Observe ==
  /\ InUserCode /\ nextId \in Id /\ life[emitterOf[nextId]] = "alive"
  /\ Observers!Insert
  /\ Queue([kind |-> "activate", id |-> nextId])
  /\ UNCHANGED <<life, pendingNotifications, flushVars, stack, drawVars, quit, owed, news>>

DropSubscription(i) ==
  /\ InUserCode
  /\ Observers!DropSubscription(i)
  /\ UNCHANGED <<life, queueVars, flushVars, stack, drawVars, quit, history>>

\* The last handle goes, here or on another thread; a handler that runs has one.
DropLast(e) ==
  /\ life[e] = "alive"
  /\ \A p \in DOMAIN passes : passes[p].key = e => passes[p].current = None
  /\ life' = [life EXCEPT ![e] = "dead"]
  /\ UNCHANGED <<setVars, queueVars, flushVars, stack, drawVars, quit, history>>

-----------------------------------------------------------------------------
(* Updates *)

\* The platform calls into the application: run's callback, on_reopen and the
\* keyboard layout observers get App as it is, everything else an update.
EnterBare ==
  /\ stack = << >> /\ quit = "no"
  /\ Enter("bare")
  /\ UNCHANGED <<setVars, life, queueVars, flushVars, drawVars, quit, history>>

LeaveBare ==
  /\ Frame = "bare" /\ ~(quit = "quitting" /\ Len(stack) = 1)
  /\ Leave
  /\ UNCHANGED <<setVars, life, queueVars, flushVars, drawVars, quit, history>>

StartUpdate ==
  /\ quit # "ended" /\ (stack = << >> \/ InUserCode)
  /\ Len(stack) < MaxStack
  /\ Enter("update")
  /\ pendingUpdates' = pendingUpdates + 1
  /\ UNCHANGED <<setVars, life, queueVars, flushing, drawVars, quit, history>>

\* Mutant: flushes at the end of every update.
FinishUpdateAlwaysFlushes ==
  /\ Frame = "update"
  /\ flushing' = TRUE /\ GoOnAs("flush") /\ UNCHANGED pendingUpdates
  /\ UNCHANGED <<setVars, life, queueVars, drawVars, quit, history>>

\* Mutant: counts itself out before it looks whether it is the last.
FinishUpdateNeverLast ==
  /\ Frame = "update"
  /\ Leave /\ pendingUpdates' = pendingUpdates - 1 /\ UNCHANGED flushing
  /\ UNCHANGED <<setVars, life, queueVars, drawVars, quit, history>>

\* App::finish_update: the outermost update flushes.
FinishUpdate ==
  /\ Frame = "update"
  /\ IF ~flushing /\ pendingUpdates = 1
     THEN flushing' = TRUE /\ GoOnAs("flush") /\ UNCHANGED pendingUpdates
     ELSE Leave /\ pendingUpdates' = pendingUpdates - 1 /\ UNCHANGED flushing
  /\ UNCHANGED <<setVars, life, queueVars, drawVars, quit, history>>

\* Window::draw, inside an update: views and the focus listeners are user code.
BeginDraw(w) ==
  /\ Frame = "update" /\ drawing = None
  /\ Enter("draw")
  /\ drawing' = w
  /\ UNCHANGED <<setVars, life, queueVars, flushVars, tracked, quit, history>>

EndDraw(accessed) ==
  /\ Frame = "draw"
  /\ Leave
  /\ tracked' = [tracked EXCEPT ![drawing] = accessed]
  /\ drawing' = None
  /\ UNCHANGED <<setVars, life, queueVars, flushVars, quit, history>>

-----------------------------------------------------------------------------
(* App::flush_effects *)

Dead == {e \in Entity : life[e] = "dead"}

\* Mutant: leaves the observers where they are.
ReleaseKeepsObservers(e) ==
  /\ Frame \in FlushFrame /\ e \in Dead
  /\ life' = [life EXCEPT ![e] = "released"]
  /\ Enter("release")
  /\ UNCHANGED <<setVars, queueVars, flushVars, drawVars, quit, history>>

\* release_dropped_entities, one entity of a batch after the other, with its
\* release callbacks.
Release(e) ==
  /\ Frame \in FlushFrame /\ e \in Dead
  /\ life' = [life EXCEPT ![e] = "released"]
  /\ IF entry[e] = "absent" THEN UNCHANGED setVars ELSE Observers!RemoveEntry(e)
  /\ Enter("release")
  /\ UNCHANGED <<queueVars, flushVars, drawVars, quit, history>>

\* The next effect, when no entity is left to be released.
NextIs(kind) ==
  /\ Frame \in FlushFrame /\ Dead = {}
  /\ pendingEffects # << >> /\ Head(pendingEffects).kind = kind
  /\ pendingEffects' = Tail(pendingEffects)

\* Mutant: the notification counts as pending until its pass is over.
ApplyNotifyPending ==
  /\ NextIs("notify")
  /\ LET e == Head(pendingEffects).entity
     IN IF entry[e] = "map" THEN Observers!TakeMap(e) /\ Enter("pass") /\ UNCHANGED pendingNotifications
        ELSE pendingNotifications' = pendingNotifications \ {e} /\ UNCHANGED <<setVars, stack>>
  /\ UNCHANGED <<life, flushVars, drawVars, quit, history>>

\* apply_notify_effect: an observer may notify again.
ApplyNotify ==
  /\ NextIs("notify")
  /\ LET e == Head(pendingEffects).entity
     IN /\ pendingNotifications' = pendingNotifications \ {e}
        /\ IF entry[e] = "map" THEN Observers!TakeMap(e) /\ Enter("pass")
                               ELSE UNCHANGED <<setVars, stack>>
  /\ UNCHANGED <<life, flushVars, drawVars, quit, history>>

\* apply_defer_effect, of the activation that new_observer deferred.
ApplyActivate ==
  /\ NextIs("activate")
  /\ Observers!Activate(Head(pendingEffects).id)
  /\ UNCHANGED <<life, pendingNotifications, flushVars, stack, drawVars, quit, history>>

Returned ==
  /\ Frame = "release"
  /\ Leave
  /\ UNCHANGED <<setVars, life, queueVars, flushVars, drawVars, quit, history>>

\* SubscriberSet::retain
Visit ==
  /\ Frame = "pass"
  /\ Observers!Visit
  /\ owed' = owed \ {Running.current'}
  /\ UNCHANGED <<life, queueVars, flushVars, stack, drawVars, quit, news, bare>>

HandlerReturns(keep) ==
  /\ InHandler /\ (keep => life[Running.key] = "alive")
  /\ Observers!Return(keep)
  /\ UNCHANGED <<life, queueVars, flushVars, stack, drawVars, quit, history>>

EndRetain ==
  /\ Frame = "pass"
  /\ Observers!EndRetain
  /\ Leave
  /\ UNCHANGED <<life, queueVars, flushVars, drawVars, quit, history>>

\* Mutant: the update whose end was flushed stays counted.
EndFlushStillCounted ==
  /\ Frame \in FlushFrame /\ Dead = {} /\ pendingEffects = << >>
  /\ IF Frame = "flush"
     THEN flushing' = FALSE /\ UNCHANGED <<pendingUpdates, quit>>
     ELSE quit' = "ended" /\ UNCHANGED flushVars
  /\ Leave
  /\ bare' = FALSE
  /\ UNCHANGED <<setVars, life, queueVars, drawVars, owed, news>>

EndFlush ==
  /\ Frame \in FlushFrame /\ Dead = {} /\ pendingEffects = << >>
  /\ IF Frame = "flush"
     THEN flushing' = FALSE /\ pendingUpdates' = pendingUpdates - 1 /\ UNCHANGED quit
     ELSE quit' = "ended" /\ UNCHANGED flushVars
  /\ Leave
  /\ bare' = FALSE
  /\ UNCHANGED <<setVars, life, queueVars, drawVars, owed, news>>

-----------------------------------------------------------------------------
(* App::shutdown: the quit observers get App as it is; then the windows are *)
(* dropped and the effects flushed, with flushing_effects down.             *)

BeginShutdown ==
  /\ stack = << >> /\ quit = "no"
  /\ quit' = "quitting"
  /\ Enter("bare")
  /\ UNCHANGED <<setVars, life, queueVars, flushVars, drawVars, history>>

ShutdownFlush ==
  /\ stack = <<"bare">> /\ quit = "quitting"
  /\ GoOnAs("lastflush")
  /\ UNCHANGED <<setVars, life, queueVars, flushVars, drawVars, quit, history>>

-----------------------------------------------------------------------------
User == \/ \E e \in Entity : Notify(e) \/ DropLast(e)
        \/ Observe
        \/ \E i \in Id : DropSubscription(i)

Update == \/ EnterBare \/ LeaveBare
          \/ StartUpdate \/ FinishUpdate
          \/ \E w \in Window : BeginDraw(w)
          \/ \E accessed \in SUBSET Entity : EndDraw(accessed)

Flush == \/ \E e \in Entity : Release(e)
         \/ ApplyNotify \/ ApplyActivate
         \/ Returned
         \/ Visit \/ EndRetain
         \/ \E keep \in BOOLEAN : HandlerReturns(keep)
         \/ EndFlush

Next == User \/ Update \/ Flush \/ BeginShutdown \/ ShutdownFlush

Spec == Init /\ [][Next]_vars

-----------------------------------------------------------------------------
(* Properties *)

NotifyAt(p, e) == pendingEffects[p] = [kind |-> "notify", entity |-> e]

\* The filter of push_effect and notify never drops a notification that is not
\* queued, nor queues one twice: pending_notifications is what the queue holds.
PendingMatches ==
  /\ \A e \in Entity : e \in pendingNotifications <=>
                       \E p \in DOMAIN pendingEffects : NotifyAt(p, e)
  /\ \A p, q \in DOMAIN pendingEffects, e \in Entity :
       NotifyAt(p, e) /\ NotifyAt(q, e) => p = q

\* A notification that no window being drawn swallowed reaches every observer
\* that was active when it was made and is still subscribed: its effect is queued
\* or its pass has yet to come to the observer, whatever handlers notify, observe,
\* cancel or drop on the way.  (The flush of shutdown runs inside itself, see
\* RetainAssertion.)
OwedIsPending ==
  quit = "no" =>
    \A i \in owed :
      fate[i] = "live" /\ life[emitterOf[i]] = "alive" =>
        \/ \E p \in DOMAIN pendingEffects : NotifyAt(p, emitterOf[i])
        \/ \E p \in DOMAIN passes : i \in passes[p].todo

\* The reason why new_observer defers the activation: an observer is never told
\* of a notification that is older than its subscription.  One made between the
\* subscription and its activation it may be told of.
NoOldNews == quit = "no" /\ InHandler => Running.current \in news

\* When no update is in progress every effect that an update queued has been
\* applied, however updates, flushes and drawing were nested; what is left was
\* queued by code that App called outside of every update.  Of entities it says
\* nothing: one dropped outside of an update waits for the next.
IdleIsFlushed == stack = << >> /\ pendingEffects # << >> => bare

\* The observers of an entity go with it (release_dropped_entities), also those
\* that were added or cancelled while a pass had the others.
ReleasedHasNoObservers ==
  quit = "no" => \A e \in Entity : life[e] = "released" => entry[e] = "absent"

\* Until it shuts down App uses the set as SubscriberSet takes for granted: the
\* callers insert and cancel in user code only, remove between passes, and
\* start no pass inside a pass over another emitter.
UsesSetAsAssumed == [][quit # "no" \/ Observers!Next]_setVars

\* The debug assertion of retain: the marks it finds at its end are its own.
RetainAssertion ==
  Frame = "pass" /\ Running.current = None /\ Running.todo = {} =>
    \A d \in dropped : d[1] = Running.key
=============================================================================
