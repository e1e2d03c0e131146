------------------------------ MODULE KeyInput ------------------------------
(* Keystrokes of a window: which bindings they match (keymap.rs), which wait
   for more keys and which are replayed (key_dispatch.rs), and what the window
   keeps of them between two events (dispatch_key_event of window.rs). A
   keystroke is known by its place in typed. The handlers are user code: of what
   they do, only the focus matters here. Left out: keystrokes that a handler
   dispatches itself, character input that is preferred to a binding, and
   disable_focus. *)
EXTENDS Integers, FiniteSetsExt, SequencesExt

CONSTANTS
  Key,
  TextKey,         \* keys with a key_char
  Modifier,        \* modifiers; striking one alone is a keystroke, too
  Focus, NoFocus, Active,
  TextFocus,       \* focused elements that accept text input
  Contexts,        \* the key contexts from the root to the focused element
  AnyContext,      \* the predicate of a binding without one
  Keymaps,         \* sequences of [keys, context, action, user], in order of addition
  NoPending,
  MaxTyped         \* bound: keystrokes

VARIABLES
  focus,
  parked,          \* focus_before_deactivation of an inactive window
  keymap,
  pending,         \* pending_input: [ids, focus, needsTimeout, timer]; bound is
                   \* history: those that completed a binding when they were typed
  held, sawKey,    \* pending_modifier
  typed,           \* history: the keystrokes
  done,            \* history: those given to actions or listeners, in that order
  lost             \* history: intercepted, or dropped with the pending input

vars == <<focus, parked, keymap, pending, held, sawKey, typed, done, lost>>

Keystroke == Key \cup Modifier
FocusOrNone == Focus \cup {NoFocus}
PendingInput ==
  [ids : Seq(Nat), focus : FocusOrNone, needsTimeout : BOOLEAN, timer : BOOLEAN, bound : SUBSET Nat]

KeyAssumption ==
  /\ TextKey \subseteq Key /\ Modifier \cap Key = {}
  /\ TextFocus \subseteq Focus /\ NoFocus \notin Focus /\ Active \notin Focus \cup {NoFocus}
  /\ NoPending \notin PendingInput
  /\ MaxTyped \in Nat

TypeOK ==
  /\ focus \in FocusOrNone
  /\ parked \in FocusOrNone \cup {Active}
  /\ keymap \in Keymaps
  /\ \/ pending = NoPending
     \/ /\ pending \in PendingInput /\ pending.ids \in Seq(DOMAIN typed) \ {<<>>}
        /\ pending.bound \subseteq Range(pending.ids)
  /\ held \subseteq Modifier /\ sawKey \in BOOLEAN
  /\ typed \in Seq(Keystroke)
  /\ done \in Seq(DOMAIN typed) /\ lost \subseteq DOMAIN typed

Init ==
  /\ focus = NoFocus
  /\ parked = Active
  /\ keymap \in Keymaps
  /\ pending = NoPending
  /\ held = {} /\ sawKey = FALSE
  /\ typed = <<>> /\ done = <<>> /\ lost = {}
-----------------------------------------------------------------------------
(* The keymap *)

\* Depths at which binding i is enabled under focus f; the deepest counts.
Depths(i, f) ==
  IF keymap[i].context = AnyContext THEN {Len(Contexts[f])}
  ELSE {d \in DOMAIN Contexts[f] : Contexts[f][d] = keymap[i].context}

Enabled(f) == {i \in DOMAIN keymap : Depths(i, f) # {}}
NoAction(i) == keymap[i].action = "none"

\* Binding i comes before binding j: deeper, or as deep and added later.
Precedes(i, j, f) ==
  \/ Max(Depths(i, f)) > Max(Depths(j, f))
  \/ Max(Depths(i, f)) = Max(Depths(j, f)) /\ i > j

\* The bindings that the keys ks run, up to the first NoAction of the user.
Bindings(f, ks) ==
  LET matched == {i \in Enabled(f) : keymap[i].keys = ks}
  IN  {i \in matched :
         /\ ~NoAction(i)
         /\ \A j \in matched : NoAction(j) /\ keymap[j].user => ~Precedes(j, i, f)}

\* Whether longer bindings wait for more keys: those added before the binding
\* that matches do not count, nor those a later NoAction takes back.
Partial(f, ks) ==
  LET bound == Bindings(f, ks)
      longer == {i \in Enabled(f) :
                   /\ IsStrictPrefix(ks, keymap[i].keys)
                   /\ \A b \in bound : (\A c \in bound \ {b} : Precedes(b, c, f)) => i >= b}
  IN  \E i \in longer :
        /\ ~NoAction(i)
        /\ \A j \in longer : NoAction(j) /\ j > i => keymap[j].keys # keymap[i].keys
-----------------------------------------------------------------------------
(* The dispatch tree. str is typed with the new keystroke, ids are places in it. *)

KeysOf(str, ids) == [n \in DOMAIN ids |-> str[ids[n]]]
From(ids, n) == SubSeq(ids, n, Len(ids))

\* The length of the prefix that is replayed as one: the longest bound one.
PrefixLength(str, f, ids) ==
  LET bound == {n \in DOMAIN ids : Bindings(f, KeysOf(str, SubSeq(ids, 1, n))) # {}}
  IN  IF bound = {} THEN 1 ELSE Max(bound)

\* What the new keystroke gives behind those that wait: those replayed, those that stay
\* pending, those that are bound as a whole, and those bound to nothing.
DispatchKey(str, f, waiting) ==
  LET Outcome(ids) ==
        CASE Partial(f, KeysOf(str, ids)) -> "pending"
          [] Bindings(f, KeysOf(str, ids)) # {} -> "bound"
          [] OTHER -> "free"
      Go[ids \in Seq(1..Len(str))] ==
        LET input == Append(ids, Len(str))
            n == PrefixLength(str, f, ids)
        IN  IF Outcome(input) # "free" \/ ids = <<>>
            THEN [replayed |-> <<>>, rest |-> input, outcome |-> Outcome(input)]
            ELSE [Go[From(ids, n + 1)] EXCEPT !.replayed = SubSeq(ids, 1, n) \o @]
  IN  Go[waiting]

\* The order in which a timeout gives the pending keystrokes to the handlers.
FlushDispatch(str, f, input) ==
  LET Go[ids \in Seq(1..Len(str))] ==
        IF ids = <<>> THEN <<>>
        ELSE LET n == PrefixLength(str, f, ids)
             IN  SubSeq(ids, 1, n) \o Go[From(ids, n + 1)]
  IN  Go[input]
-----------------------------------------------------------------------------
(* The window *)

\* The focus after handlers ran, none if nothing was replayed: pending_input is
\* taken at that time, and there is nothing that focus() could clear.
FocusAfter(replayed) ==
  IF replayed = <<>> THEN {focus} ELSE FocusOrNone

\* What is left of the pending input when a key comes.
Kept ==
  IF pending = NoPending \/ (pending.focus # NoFocus /\ pending.focus # focus)
  THEN [ids |-> <<>>, needsTimeout |-> FALSE, bound |-> {}]
  ELSE pending

Dropped == IF pending # NoPending /\ Kept.ids = <<>> THEN Range(pending.ids) ELSE {}

\* Mutant: only the last key says whether a timeout is needed.
NeedsTimeoutOfLast(str, f, ids, text) ==
  Bindings(f, KeysOf(str, ids)) # {} \/ text

NeedsTimeout(str, f, ids, text) ==
  \/ Kept.needsTimeout
  \/ Bindings(f, KeysOf(str, ids)) # {}
  \/ text

\* Mutant: the replayed keystrokes come after what is bound.
GivenLate(replayed, rest) == done \o rest \o replayed

Given(replayed, rest) == done \o replayed \o rest

\* dispatch_key_event after the interceptors.
Dispatch(k) ==
  LET str == Append(typed, k)
      r == DispatchKey(str, focus, Kept.ids)
  IN  /\ typed' = str
      /\ lost' = lost \cup Dropped
      /\ \E f \in FocusAfter(r.replayed) :
           /\ focus' = f
           /\ IF r.outcome = "pending"
              THEN LET need == NeedsTimeout(str, focus, r.rest, k \in TextKey /\ focus \in TextFocus)
                       now == IF Bindings(focus, KeysOf(str, r.rest)) = {} THEN {} ELSE {Len(str)}
                   IN  /\ pending' = [ids |-> r.rest, focus |-> f, needsTimeout |-> need, timer |-> need,
                                      bound |-> (Kept.bound \cup now) \cap Range(r.rest)]
                       /\ done' = Given(r.replayed, <<>>)
              ELSE /\ pending' = NoPending
                   /\ done' = Given(r.replayed, r.rest)
      /\ UNCHANGED <<parked, keymap>>

\* An interceptor stops the event: the pending input stays as it is.
Intercept(k) ==
  /\ typed' = Append(typed, k)
  /\ lost' = lost \cup {Len(typed) + 1}
  /\ UNCHANGED <<focus, parked, keymap, pending, done>>

KeyDown(k) ==
  /\ Len(typed) < MaxTyped
  /\ sawKey' = TRUE
  /\ Dispatch(k) \/ Intercept(k)
  /\ UNCHANGED held

\* A modifier that was held alone, with no key struck, is a keystroke when it
\* is let go; the interceptors do not see it.
ModifiersChanged(mods) ==
  /\ mods # held
  /\ held' = mods
  /\ sawKey' = IF held = {} /\ Cardinality(mods) = 1 THEN FALSE ELSE sawKey
  /\ IF mods = {} /\ Cardinality(held) = 1 /\ ~sawKey
     THEN Len(typed) < MaxTyped /\ \E m \in held : Dispatch(m)
     ELSE UNCHANGED <<focus, parked, keymap, pending, typed, done, lost>>

\* The timer of the pending input; it dies with the input it belongs to.
TimerFires ==
  /\ pending # NoPending /\ pending.timer
  /\ pending' = NoPending
  /\ IF pending.focus = focus
     THEN /\ done' = done \o FlushDispatch(typed, focus, pending.ids)
          /\ focus' \in FocusAfter(pending.ids)
          /\ UNCHANGED lost
     ELSE lost' = lost \cup Range(pending.ids) /\ UNCHANGED <<focus, done>>
  /\ UNCHANGED <<parked, keymap, held, sawKey, typed>>

ClearPending ==
  /\ pending' = NoPending
  /\ lost' = IF pending = NoPending THEN lost ELSE lost \cup Range(pending.ids)

FocusOn(f) ==
  /\ focus # f
  /\ focus' = f
  /\ ClearPending
  /\ UNCHANGED <<parked, keymap, held, sawKey, typed, done>>

Blur ==
  /\ focus # NoFocus
  /\ focus' = NoFocus
  /\ UNCHANGED <<parked, keymap, pending, held, sawKey, typed, done, lost>>

\* The window is no longer active: its focus is put aside, and given back later,
\* in place of what took the focus meanwhile. What is pending stays.
Deactivate ==
  /\ parked = Active
  /\ parked' = focus /\ focus' = NoFocus
  /\ UNCHANGED <<keymap, pending, held, sawKey, typed, done, lost>>

Activate ==
  /\ parked # Active
  /\ focus' = IF parked # NoFocus THEN parked ELSE focus
  /\ parked' = Active
  /\ UNCHANGED <<keymap, pending, held, sawKey, typed, done, lost>>

\* bind_keys, clear_key_bindings: what is pending stays.
BindKeys ==
  /\ keymap' \in Keymaps \ {keymap}
  /\ UNCHANGED <<focus, parked, pending, held, sawKey, typed, done, lost>>

\* The application's menu clears the pending input of every window.
OpenMenu ==
  /\ pending # NoPending
  /\ ClearPending
  /\ UNCHANGED <<focus, parked, keymap, held, sawKey, typed, done>>

Next ==
  \/ \E k \in Key : KeyDown(k)
  \/ \E mods \in SUBSET Modifier : ModifiersChanged(mods)
  \/ TimerFires
  \/ \E f \in Focus : FocusOn(f)
  \/ Blur \/ Deactivate \/ Activate \/ BindKeys \/ OpenMenu

Spec == Init /\ [][Next]_vars
FairSpec == Spec /\ WF_vars(TimerFires)
-----------------------------------------------------------------------------
PendingIds == IF pending = NoPending THEN <<>> ELSE pending.ids

(* What is typed is given to the handlers once and in the order of typing, through
   every mix of waiting, replaying and timing out; a keystroke that waits is overtaken by
   none, and one that vanishes was intercepted or lost with the focus. *)
InTypedOrder ==
  LET given == done \o PendingIds
  IN  /\ \A m, n \in DOMAIN given : m < n => given[m] < given[n]
      /\ Range(given) \cap lost = {}
      /\ Range(given) \cup lost = DOMAIN typed

BoundWaits(n) == pending # NoPending /\ n \in pending.bound

(* Keys that completed a binding, but wait because a longer one may follow, do not wait
   for ever, whatever is typed after them and whatever of it is replayed: unless the focus
   moves, the timeout runs them. *)
BoundKeysRun == \A n \in 1..MaxTyped : BoundWaits(n) ~> ~BoundWaits(n)
=============================================================================
