# A TLA+ verification of lucie

lucie is a UI framework in Rust: an application object on the main thread
(`App`) owns every piece of state as an *entity*, user code holds counted handles to
entities, changes travel as *effects* to observers and windows, and asynchronous
work runs as tasks, in the background or on the main thread between window
messages. These modules model the parts of it that keep state across calls,
callbacks and threads, and say what must hold of them. `crates/lucie/src` is
abbreviated to `…` below.

## Inventory

| part | state | operations | what is hard | what makes it correct | module |
|---|---|---|---|---|---|
| entity map (`…/app/entity_map.rs`) | counters and dropped ids behind a lock, values in a slot map | reserve, insert, lease, clone, drop, upgrade, take_dropped | handles live on any thread; a counter is loaded, exchanged and followed by a push | a counter is the number of handles; each dead entity is released once, and by the end of the update in which it died, if it died in one; no value is missing while a handle exists | `EntityMap` |
| subscriptions (`…/subscription.rs`) | maps of callbacks per emitter, marks | insert, activate, cancel, detach, remove, retain | retain runs callbacks on a map it took out, and they change the set | no subscriber lost, doubled or left over | `SubscriberSet` |
| effect cycle (`…/app.rs`) | pending effects and notifications, update and flush flags, windows' tracked entities | update, notify, observe, flush, release, draw, shutdown | everything nests: updates in handlers, draws in updates, releases between effects | a notification that is queued reaches those who were owed it, once and not before; the outermost update leaves nothing behind | `AppEffects` |
| priority queue (`…/queue.rs`) | two deques, two counters, a condition variable | send, pop, try_pop, clone, drop | stolen items, waits, the sender's drop | nobody sleeps beside an item; disconnection is final | `PriorityQueue` |
| foreground dispatch on Windows (`…/platform/windows`) | `wake_posted`, the message queue, the task queue | dispatch, run_foreground_task, the sizing timer | the flag and the queue are changed separately; dialogs run message loops inside tasks | no wake-up is lost; tasks run | `ForegroundWake` |
| views and tracking (`…/view.rs`, `…/window.rs`) | accessed entities, dirty views, invalidators | draw, notify, refresh | a cache decides from what one frame read, and what was read earlier in the frame counts for the first reader only | a view that changed is drawn again | `ViewFrames` |
| frames (`…/view.rs`, `…/window.rs`, `…/key_dispatch.rs`) | ranges of cached views, deferred draws, dispatch nodes, focus | draw | indexes into the last frame, moved into the next one | a frame that reuses is the frame that rendering gives | `FrameReuse` |
| focus order (`…/tab_stop.rs`) | insertion history | insert, groups, replay, next, prev | rebuilt from what was reused | Tab visits every stop, Shift-Tab goes back | `FrameReuse` |
| key dispatch and keymap (`…/key_dispatch.rs`, `…/keymap.rs`, `…/window.rs`) | pending keystrokes, bindings, focus | dispatch, replay, time-out, bind, activate | a time-out against the next key; handlers move the focus in a replay | keys are neither lost, doubled nor reordered; what waits ends | `KeyInput` |
| clicks and drags (`…/elements/div.rs`, `…/window.rs`) | presses of elements, the active drag | press, move, release, files, frame | two phases any listener may stop; listeners live for a frame, state for longer | a click is told once, for its own press | `MouseInput` |
| lists (`…/elements/list.rs`) | measured items, scroll position | splice, reset, remeasure, scroll, frame | heights of most items are unknown; items move between frames | no blank space, everything can be scrolled to, the anchor survives | `ListState` |
| sum tree (`crates/lucie-common/src/sum_tree`) | a B+ tree with summaries, cursors | build, push, append, seek, slice, replace | summaries are kept twice; splits; cursors that turn around | balanced, in order, cursors stop where a sequence would | `SumTree` |
| scene (`…/scene.rs`, `crates/lucie-common/src/bounds_tree.rs`) | primitives, layers, a tree of bounds | insert, layers, finish, batches | orders come from a tree with a fast path, batches are cut between kinds | what is painted after an area was opened, and over it, is drawn after it | `SceneOrder` |
| Wayland surface (`…/platform/linux/wayland`) | sizes, throttle, frame callbacks | configure, done, resize, draw | the compositor paces both | the last size counts; a dirty window is drawn | `WaylandSurface` |
| runtime and contexts (`…/runtime.rs`, `…/app/*context.rs`) | scopes, timers | spawn, block, time-outs | | | not modelled: wrappers |
| window tabs (`…/app.rs` 270–500) | groups of tabs | add, remove, move, merge | group names are reused | | not modelled: see below |
| layout, renderers, text, style, media | per frame | | | | not modelled: geometry, drivers, libraries |
| macOS and test platforms, X11 | | | | | not modelled: see below |

The parts meet as follows. A handle that is dropped pushes its entity's id; the flush
of `App` takes the ids and releases the entities with their observers.
`App::notify` queues an effect, or tells a window that is being drawn; the flush
applies effects by passing over a `SubscriberSet`, whose callbacks call `App`
again. A task reaches the main thread through the priority queue and a window message;
what it does to `App` is an update, whose end flushes. A notified entity marks the
windows that read it (`ViewFrames`), the next frame renders some views and takes the others from
the last frame (`FrameReuse`), and what it painted decides what keys (`KeyInput`) and the
mouse (`MouseInput`) reach. Lists keep their items in a `SumTree`, and what is painted goes to the
renderer in the order of `SceneOrder`. On Wayland the compositor says when a frame is due.

## Modules

**`EntityLifetime`** is what the entity map promises: an entity is unborn, alive with
a number of owners, dead when the last owner forgot it, and then released; nothing
brings it back.

**`EntityMap`** models the map with every atomic step. `counts`, `droppedIds` and
`entities` are the fields of the same names; `stage`, `pinned` and `releasing` stand
for main's stack (an entity being built, a lease, a batch being freed); `target`
and `holder` say which handles exist and who owns them — a thread, or the
value of an entity. An operation that holds the lock for reading is several steps
(`BeginClone`, `CloneIncrement`; `BeginDrop`, `DropDecrement`, `DropPush`; `BeginUpgrade`,
`UpgradeLoad`, `UpgradeExchange`, `UpgradeRetry`), and one that holds it for writing
is one step that waits for the readers (`LockOutOthers`, `TakeDropped`).
Freed values free the handles they own (`Free`). `phase` says whether a release is still to come
in the update that main runs: in the body of an outermost update and in the handlers of its effects (`update`), inside
`release_dropped_entities` (`release`, which goes round by `AfterTake` until a batch is empty), or neither (`bare`);
updates inside of an update change nothing of it. Left out: `accessed_entities`,
the leak detector of tests, and the flush of `shutdown`, which may run inside itself (it is in `AppEffects`). A
`BorrowedEntity` owns no handle and is not one.

**`SubscriberSet`** models the set with the callbacks as steps: `passes` is the stack of
retains, each with the ids it has still to visit, those it keeps and the one whose
callback is running, during which any other operation may happen. `entry` tells an
absent key from `Some(map)` and from `None` left by a pass (`"map"`, `"taken"`). `fate`
is history: how each subscriber ended. A pass inside a pass is over the same
key, as in `window.rs`, whose sets have the key `()`; passes of `App` do not
nest, which `AppEffects` checks.

**`AppEffects`** models the update cycle of `App`. Observers are an instance of
`SubscriberSet`; `stack` is what the main thread is inside of (an update, a flush, a pass, a draw, a
release callback, code that App calls without an update). User code runs at the
places where the code calls it and does any of the user's operations. A notification that a window being
drawn swallows (`Swallowed`) queues nothing. `owed`, `news`
and `bare` are history; what is swallowed is owed to nobody. Left out: events, global observers, window refreshes, other deferred callbacks
and entity-creation effects (they take the same path
through the queue), detached subscriptions, dirty flags, the release of focus handles,
and the drawing that test builds do at the end of a flush.

**`PriorityQueue`** models the queue with one step per critical section, and the reads
outside of it as steps of their own (`BeginSend`). `receiver` says whether each
receiver is absent, idle, in the wait, or notified and on its way back.

**`ForegroundWake`** models how the main thread of Windows is woken. `wakePosted` is
`wake_posted`; `posted` counts the messages in the queue; `pc` is where each
dispatch is (between the push, the swap and the post); `at` is where main is in
`run_foreground_task`, `suspended` what it was doing when a dialog or a sizing loop opened
a message loop of its own. The queue's mutex makes its operations steps.
Left out: quitting, other messages, and a dispatch to a receiver that is gone.

The parts of one window share no variable, except through frames, which each of the
following modules models as far as its part goes.

**`ViewFrames`** models which views a frame renders. `dirty` and `dirtyViews` are
the invalidator's, `state` is what each cached view accessed (`AnyViewState`), `tracked`
are the entities that name the window in `window_invalidators_by_entity`. The tree of views is
given by the views around each view (`Path`) and the order of drawing (`Order`). `Draw` takes one of the
`Frame`s that the views' choice of what to show and what to read can give: which cached views are
`Reused`, which views are `Rendered`, and what each cached view `Detected` as accessed for the first time;
and at most one notification while it runs. `stale` and `swallowed` are history. Left out:
deferred draws, and cached views whose bounds, mask or text style changed.

**`FrameReuse`** models what the reuse does to the frame: `frame.nodes` is the dispatch tree
with parents, `frame.painted` all that is kept by paint index, `frame.deferred` the deferred
draws, `ranges` what cached views remember of them. Tab stops are found in what was
painted. Left out: prompts, drags, tooltips, `transact`.

**`KeyInput`** models a keystroke from `dispatch_key_event` to the handlers: the bindings it
matches in the contexts of the focus, by depth, order and removal; `pending` with its time-out;
replays, in which handlers may move the focus; modifiers struck alone; activation, which
parks the focus. A keystroke is its place in `typed`, so that order and loss show. Left out:
keystrokes that a handler dispatches itself, character input that is preferred to a binding.

**`MouseInput`** models the listeners of `div.rs` for presses, moves and releases, dispatched
from back to front and back again, down to where a listener of the application stops the event;
drags and drops, files, and frames that move elements or drop them with their state. `captured`
is the variable inside the listener, which a stopped release leaves set until the
next frame. Left out: styles, hover listeners, tooltips, focus by mouse.

**`ListState`** models a list of items with heights in whole pixels: `items` with whether each is
measured, `top` as item and offset, `pending` for the fraction kept over a remeasure,
`painted` for what the last frame's wheel listener captured. `Frame` lays out downwards, fills
upwards, measures the overdraw, and may autoscroll. Left out: padding, inferred
sizes, focused items, the height a dragged scrollbar keeps.

**`SumTree`** models the tree as nodes with the summaries of their children, whose
summary is the sequence of items itself, and cursors as stacks of entries with positions. `content` is the
reference: the sequence the tree stands for. Left out: reading the summary of a range,
`Iter`, edits in batches, `update_last`.

**`SceneOrder`** models the tree of bounds (`nodes`, `root`, `maxLeaf`), layers, the sort and
the batches; bounds have one dimension, which is all that intersections and unions need. A primitive in a layer
may lie anywhere, inside of the layer or not, as in the code. Each primitive and each open layer remembers,
as history, the `area` its order was found for (the layer's, or its own) and how many primitives
there were `before`.

**`WaylandSurface`** models a toplevel surface; the compositor is external and keeps to xdg-shell:
its events come in order, a resize ends with a configure that is not resizing, a callback is
answered once, after its commit. `source` (who set the size) and `asWindow` (the size the window had when it last was
neither maximized nor fullscreen and its size came from an event) are history.

**`WindowParts`** puts the views, the keys, the mouse, the list, the scene and the surface side by side, with
their parameters as constants: `part` says which one a behaviour exercises, and the variables of the
others are `Nothing`. Each property is that of its module, in the behaviours of its part, and
theorems are stated here. The scene's share of it is in **`ScenePart`**, so that `SceneProofs` need not know the
other parts. **`MCWindowParts`** extends it in the same way by frames and the tree, and gives all of them values.

The other `MC…` modules give model values. `…Proofs` hold theorems. The lemmas about least numbers,
greatest elements, sums and recursive functions with which `SceneProofs` begins serve the other window proofs, too.
Operators whose comment begins with "Mutant" are faulty variants of the operator that
follows. They are used in no specification: put in its place they show that a
property notices.

## Runs

| run | checks | bounds and why they are enough |
|---|---|---|
| `entity_map` | counters are the handles; dead entities are queued once; the over-release assertions hold; values outlive handles; no resurrection; `EntityLifetime` is implemented; an entity that is dead while an update runs is released in its flush | main and a worker, so that operations of the two interleave with a release; 2 entities, so that one owns a handle of the other; 3 handles, so that one entity is shared. Without symmetry, because of the liveness property; the safety properties are proved for all values |
| `foreground_wake` | each task waits in the queue of its priority; no lost wake-up; unless a post failed, every task of normal priority runs | a background thread, 3 tasks (one low), 2 messages, one nested loop; posts may fail |
| `low_tasks_starve` | *violated*: low tasks run | no nested loop, no failing posts |
| `subscriber_set` | live subscribers are kept, in one place; cancelled ones are gone; marks belong to the pass | 2 emitters, 3 subscribers — an old one, one inserted in the pass, a bystander — and passes 2 deep |
| `subscription_outlives` | *violated*: a dropped subscription is gone | one emitter |
| `priority_queue` | waits are woken; disconnection is final | 2 senders, 3 receivers (two asleep, one that steals), 3 items |
| `pop_hangs` | *violated*: a blocked pop ends with the sender | the same |
| `app_effects` | notifications that are queued are not lost, doubled or old; the idle application has flushed; released entities have no observers; the set is used as assumed | 2 entities, 1 window, 2 observers, 2 pending effects, frames 3 deep. `UntilShutdown` stops at the start of shutdown |
| `shutdown_flush` | *violated*: the assertion of `retain` | the same, with shutdown |
| `window_parts`, keys | keystrokes reach handlers in order, once; bound keys that wait are run | 3 keystrokes over two keys and a modifier, so that a prefix waits, is overtaken and is replayed in part; two keymaps with prefixes, deeper contexts and removals |
| — mouse | a click is told once, for a press the element took, at a release over it | card, button in it, menu over it; two layouts, two positions, two presses |
| — views | a view that changed is drawn | root, two cached views, a plain one, a cached one inside; one model read by two of them |
| — frames | a frame with reused views is the frame rendering gives; tab order | two cached views, a tab group, a deferred menu, 4 handles, 3 optional elements |
| — list | no blank space, and what is not shown can be scrolled to (`FilledAndScrollable`); the scroll anchor survives (`AnchorIsKept`) | 2 items, a little or much higher than the list; two calls between frames |
| — tree | the tree is whole; cursors and `find` stop right | base 2, up to 17 items to begin with (three levels), then two changes with cuts at the ends and in the middle |
| — scene | what was painted before an area was opened is drawn before what is painted in it, where the areas meet | 3 primitives of two kinds, inside and outside of layers, one area more than there are primitives, nodes of 2 children, so that leaves split |
| — surface | the settled size; a dirty window is drawn | 4 configures, so that after the first a grabbed window is sized, throttled and let go; one of them on its way, besides answers to commits; one `resize()` at a time; 2 sizes |
| `stale_view` | *violated*: a notified view is not recycled | the views above, one read of a sibling |
| `deferred_views` | *violated*: a cached view recycles its own ranges | the frames above, the menu's content cached |

Where a specification can stop — ids are used up, everyone has dropped everything,
shutdown is over — the configuration says so and does not check for deadlock.
The others are checked for it.

## Fairness

*Entity map.* A thread goes on with what it began, and the
lock, which is a parking_lot `RwLock`, lets a writer in eventually although readers
keep coming. Leases and builds end again and again, because they are scopes on
main's stack: `[]<>(pinned = {})`. An update that began comes to its end, and its handlers and release
listeners return, so that main goes on with the flush (`BeginTake`, `Free`). That an update begins (`BeginUpdate`) is not
assumed: nothing in the code schedules one when a worker drops the last handle, and `DeadIsReleased` says nothing
of an entity that dies while no update runs.

*Foreground wake.* Weak fairness of what a thread does without waiting. Strong fairness of
what a nested loop interrupts and then resumes (tasks and input handlers return, dialogs are closed, messages
are taken). `Pop` is strongly fair: ten milliseconds are not over before
the first task every time. The die of the sizing timer's iterator, which is cloned
once and then drawn from repeatedly, falls on both sides; the one of
`run_foreground_task`, cloned for each pop, never does, and no fairness is assumed of it.

*Priority queue.* A send that was begun ends; a notified receiver gets the mutex.

*Window parts.* The timer of pending keys fires unless they end before (`TimerFires`). The
compositor answers a committed callback (`Answer`), and the event loop takes what comes
(`HandleDone`, `HandleConfigure`); nothing is assumed of the user, of resizes or of
invalidation.

`SubscriberSet`, `AppEffects` and the remaining parts state safety only: whether a callback returns or a
handler stops notifying is up to the application.

## Findings

1. `low_tasks_starve`. `run_foreground_task` clones the receiver for each pop
   (`…/platform/windows/platform.rs:531`), and a clone's generator starts at seed 0
   (`…/queue.rs:104`), so each pop draws the same first number, which picks the normal
   queue. Low tasks wait as long as normal ones keep coming, whatever "the loaded
   die" (`…/queue.rs:185`) was to give them.
2. `subscription_outlives`. A callback that inserts on the key being passed over and
   then drops an older subscription of that key leaves the old callback subscribed:
   `unsubscribe` (`…/subscription.rs:66`) finds the fresh map and leaves no mark. The doc (123–124)
   says that the callback is no longer invoked.
3. `pop_hangs`. `recv` (`…/queue.rs:53`) does not look at `sender_count` after the wait,
   and the sender's drop wakes nobody; `pop` (165–167) documents an error.
4. `shutdown_flush`. `shutdown` (`…/app.rs:698`) flushes with `flushing_effects` down, so
   an update in a handler flushes inside the pass, and the inner pass over another
   entity meets a mark of the outer one: the assertion at `…/subscription.rs:113` fails,
   and without assertions the mark is lost.

5. `stale_view`. A cached view keeps what was accessed for the first time in the frame while it was
   prepainted (`…/app.rs:781`). If another view read its entity before it in that frame, the view is missing from
   its own set; a later frame without that reader reuses the view, does not access it, and the window is
   no longer told of it: the view is notified and recycled all the same. The doc
   (`…/view.rs:50-51`) says that the previous layout and paint are recycled if `Context::notify` has not
   been called since.
6. `deferred_views`. `prepaint_deferred_draws` (`…/window.rs:2146`) draws a deferred element
   after the view around it is done, and a frame that reuses the outer view does not renew the ranges
   of a cached view in the deferred element. The next frame that renders the outer view again
   reuses the inner one by ranges of an older frame: nodes and paint of other elements.

Met while modelling, and left to the exceptions of the properties:

A notification while the window is drawn goes into `dirty_views`, but makes the window not
dirty (`…/window.rs:126`) and asks for no frame, so that the view stays as it was until something else draws;
`ChangedIsDrawn` excepts it as `swallowed`. Nor is an effect queued, unless another window showed the entity or none
did: the observers of the entity never hear of it, although the docs of `notify` ("observers of it should be
notified", `…/app.rs:1810`) and `observe` ("a callback to be invoked when the given entity calls `notify`",
`…/app.rs:766`) promise it without exception. `OwedIsPending` speaks of notifications that were queued only.

An entity whose last handle a worker drops, or main outside of an update, stays until the end of the next
update, whenever that is (`…/app.rs:757`).

A primitive takes the order of its layer without a look at its own bounds (`…/scene.rs:76-80`). `Window::paint_layer` clips
to the content mask only (`…/window.rs:2664`), and text paints each line in a layer
one line high at the origin of the whole layout (`crates/lucie-text/src/layout.rs:470`, `…/elements/text.rs:343`), so that the
glyphs of all lines but the first are outside of it (481, 566) and may be drawn under what they were painted over.
`OverlapsInOrder` is about the areas that orders were found for, and says nothing of what leaves its layer.

The size that a Wayland window goes back to when it is no longer maximized is `window_bounds`, which configure events set
and `resize()` does not (`…/platform/linux/wayland/window.rs:788-819`, 948–958): resize, maximize, unmaximize loses the
size. `SettledSize` excepts it through `asWindow`. A window that leaves fullscreen by a configure event without a size keeps the
size of the screen; `last.size # NoSize` excepts it.

A release that a listener stops leaves `captured_mouse_down` set
(`…/elements/div.rs:1889`), and another release before the next frame, of any button, fires the click although the mouse
is elsewhere; `ClicksAreWhole` allows it through `releasedOver`. Activation gives back the focus of before, in place of
one that was set meanwhile (`…/window.rs:1156`, in `KeyInput`). A list without overdraw whose frame
ends exactly at the edge of an item does not scroll on: the items after it are unmeasured and count
as nothing (`…/elements/list.rs:1039`), so that the wheel finds itself at the end. TLC shows it as soon as
`Overdraw` is 0, and `CanScrollOn` asks for some: a frame then measures an item beyond those it shows.

## Proofs

TLAPS proves for every value of the constants:

* `EntityMapProofs`. `IInv` is inductive, and gives `TypeOK`, `CountIsHandles`,
  `DroppedExactlyOnce`, `NeverOverReleased` and `ValueOutlivesHandles`. The properties are not inductive by
  themselves: that a counter is right after a step needs to know that the handle a
  thread clones is still its own and of the entity it touches (`OpsWhole`), that the
  identity it creates is taken by nobody (`FreshUnique`), that who has the lock for
  writing is alone (`LockExclusive`), that what main borrows cannot be dropped
  (`PinnedByMain`), and that values, stages and handles agree (`ValuesWhole`, `HandlesWhole`).
  From `IInv`, each step of the map is also a step of
  `EntityLifetime` or a stutter (`Refinement`), and a dead entity stays dead (`DeadStaysDead`).
* `ForegroundWakeProofs`. `TypeOK`, which keeps each task in the queue of its priority, is inductive, and so is
  `NoLostWakeUp` together with it.
* `PriorityQueueProofs`. `WakeUpsSuffice` is inductive with `TypeOK`;
  `ToldAtTheEnd` needs that a thread was told only after every reference to the sender was
  released (`ToldWhenReleased`).
* `SubscriberSetProofs`. `IInv` joins the properties of the run with what carries them from step to step:
  passes inside one another are over one key (`OneKey`), ids that were not given out are nowhere
  (`Born`), callbacks are under their emitter (`Owned`), only a pass leaves `None` (`TakenByPass`), and
  what is marked was cancelled or had ended (`MarksAreDead`). The hard step is the end of
  a pass, which merges what it kept with what was inserted meanwhile.
* `AppEffectsProofs`. Typing is split by who changes what: the set's variables (`SetTyped`), the
  stack (`StackTyped`), the rest (`OtherTyped`). `PendingMatches` is inductive with it. `IdleIsFlushed`
  follows from `FlushIsDue`: whatever is queued, some frame on the stack will flush. It speaks of effects, not of entities
  that wait for release. `Nested` says
  how frames lie on one another, and gives that the set is used as
  `SubscriberSet` assumes (`SetIsUsedAsAssumed`), so that what is proved of the set holds in App (`SetWhole`).
  `ReleasedIsGone` gives `ReleasedHasNoObservers`, `Told` gives `NoOldNews`, and `OwedDue` is `OwedIsPending`
  with the fact that only active observers are owed anything; a swallowed notification owes nothing.

* `WindowInputProofs`, keys. `InTypedOrder` speaks of what was delivered; inductive is that what was
  delivered, followed by what is pending, is in the order of typing and misses only what is in `lost`
  (`KeyInv`). Dispatch and replay are recursive functions over the keystrokes still to be
  placed: that such functions have values is `RecursionExists` of `SceneProofs`, and that no call
  reorders is shown of the shortest call that would (`FlushKeepsOrder`, `DispatchKeepsOrder`).
* `WindowInputProofs`, mouse. `ClicksAreWhole` is an action property. `MouseInv` says that a press an
  element remembers is whole — taken by that element, with the button it may be told of, and not told
  yet — and that one left in `captured` awaits a frame, is no longer pending and lies under a release that was
  over the element, which is the exception of the property.
* `WindowStateProofs`, list. `AnchorIsKept` follows from the typing of scroll positions and from the
  items being distinct (`ListInv`); the work is in `splice`, which moves the position by what it inserts and
  takes out. It speaks of steps that change the items: frames and remeasures do not. `FilledAndScrollable` needs besides that the position is inside the list (`FillInv`). Its
  proof compares pixels, which are sums of heights: a sum is replaced by the difference of two values of
  one growing function, the ends of the items (`EndsExist`, `TotalOf`, `EndsGrow`), after which each of the stages of a
  frame (`SettleWell`, `LayoutWell`, `AutoscrollWell`, `PaintWell`) is arithmetic.
* `WindowStateProofs`, views. `ChangedIsDrawn` is proved (`ChangedDrawn`) for windows in which no view reads
  a cached view or a view inside of one; without that hypothesis it is false, which is the run
  `stale_view`. Inductive is `ViewInv`: what is stale is on the screen; unless swallowed, it is in
  `dirty_views`, and the window is dirty; whatever is on the screen is tracked; and the state of a cached view
  that is on the screen names every view drawn inside it, and nothing that belongs to another cached
  view. The step that matters is the draw (`FrameOfViews`): what a frame detects for a cached view is the same whatever else
  was read before, because the views that it shows are accessed by nobody else (`AccessedIn`), and a view that is
  reused has nothing dirty inside (`ReusedApart`).
* `SceneProofs` and `WindowStateProofs`, scene. `OverlapsInOrder` speaks of the batches that come out; what goes in
  is put in order by a tree. `SceneInv` has three parts. The tree is one (`TreeWhole`): typed, its children lower than their
  parents, every node holding the bounds and the greatest order of what is below it, every leaf
  reachable from the root, `max_leaf` a leaf of the greatest order. The area of each primitive and of each
  open layer lies inside a leaf that has its order (`Placed`). And an area that was opened after something was painted, and meets its
  area, has the greater order: the areas of primitives (`InFront`) and of open layers (`LayersInFront`). An insertion keeps the tree in
  each of its four cases: no tree, a leaf as the root, room at the bottom of the way down, no room (`InsertKeepsTree`);
  that the way down exists and ends above a leaf follows from the children being lower. That the new order exceeds all it
  meets (`OrderAbove`) is shown of the search as a recursive function over stacks: it ends because a node weighs
  more than all of its children together, and a leaf that is still awaited is above nothing the search passes over.
  From `SceneInv` follows the property (`InFrontIsDrawn`): the sort of each kind exists and rises, a batch is never empty and never takes a primitive
  that another kind must precede, and so every call of the iterator puts the right ones first, until nothing is left.
* `WindowStateProofs`, surface. `SettledSize` depends on what is still under way: each configure event
  knows the maximized state of the one before (`WasIsTold`), the last one sent is last in the
  inbox or was handled (`LastIsLast`), and what a window would go back to is what an event set it to as a window,
  unless the program set a size there (`Restores`).

Assumptions: `HolderAssumption` (main is no worker, threads are no entities),
`NoneAssumption` (of several modules: None is no value), `ThreadAssumption`, `TaskAssumption`, `BoundAssumption` (bounds are numbers),
`ReceiverAssumption` (receivers are a finite set, so that they can be counted),
`ItemAssumption`, `TreeAssumption` of `ViewFrames` (the views around a view are a chain from the root, and
a view is drawn before those in it, these one after another), `KeyAssumption` (modifiers are no keys, None-values are no values),
`MouseAssumption` (a window has finitely many elements, painted one after another), `ListAssumption`
(items and the list are at least a pixel high), `SceneAssumption` (kinds are in a fixed order, bounds are not empty, a node
has room for two children) and `SurfaceAssumption`. TLC evaluates each of them for the values
of the runs.

Model-checked only:

* liveness (`DeadIsReleased`, `TasksRun`, `BoundKeysRun`, `DirtyIsDrawn`), which is out of the
  prover's reach;
* `FrameIsWhole` and `TabsCycle` (frames), `TreeIsWhole` and `CursorsFind` (tree). They compare trees and what
  recursion over trees gives, by RECURSIVE operators in `FrameReuse` and `SumTree`; with them `TypeOK` of
  `MCWindowParts`, which is that of all parts together. The assumptions `ElementAssumption`,
  `DeferredAssumption` and `SumTreeAssumption` are checked of the values of the run;
* the six violations, which are counterexamples of TLC.

## Not modelled

* Geometry, styles, colours, layout, painting, paths and text shaping compute on floats and keep nothing that
  other parts could find stale; a model of them would repeat the arithmetic. They are most of the
  lines of the repository, together with the renderers.
* Renderers, clipboards, displays, input methods and window protocols of X11, macOS and Windows are
  calls into the system. macOS leaves scheduling to the system's queues. The Linux dispatcher
  (`…/platform/linux/dispatcher.rs`) follows an older trait than the rest of the crate.
* Runtime scopes, contexts and time-outs wrap futures of the async-task library and enter
  `App::update`; what they wake is in `PriorityQueue` and `ForegroundWake`.
* Window tabs mirror what macOS reports of its native tabs. What may be reported when is outside of the
  code; without it any sequence of calls is possible, and the code promises nothing of it.
* The asset cache, http and media crates are input and output; procedural macros produce code.
* Of modelled parts: events, globals and plain defers of `AppEffects`; hover, tooltips and focus by mouse;
  `uniform_list.rs`; actions and context predicates other than one identifier; `transact`, whose one
  user renders again what it rolled back.

Hazards that no property covers have a note in `PROJECT.json`. The failure of
`PostMessageW` is in `ForegroundWake`, but `NoLostWakeUp` and `TasksRun` excuse it: the code
has no answer to it.

## Plan

Done, in this order: entity map with its abstract lifetime and proofs; foreground
wake-up with proof; subscriptions with proof; priority queue with proof; effect cycle with proof;
views, frames, keys, lists, scene, Wayland surface, sum tree, mouse; proofs about keys, the mouse,
lists, the Wayland surface, views and the scene.

Next:

1. `ViewFrames` and `FrameReuse` in one module, so that the reuse of ranges follows from notifications.
2. `AppEffects` with events and globals, and the observer that joins between two notifications of
   one update.
3. An abstract sequence that `SumTree` refines, and `ListState` stated over it.
