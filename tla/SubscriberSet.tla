--------------------------- MODULE SubscriberSet ---------------------------
(***************************************************************************)
(* A set of subscribers (subscription.rs): callbacks by emitter, each with *)
(* a Subscription that cancels it when dropped.  A pass over an emitter    *)
(* takes its callbacks out of the set, invokes them one after the other    *)
(* and puts back those that return true; the callbacks may insert, cancel  *)
(* and, where the set has the single emitter (), start another pass.       *)
(***************************************************************************)
EXTENDS Integers, Sequences, FiniteSets

CONSTANTS
  Emitter,      \* the keys
  MaxId,        \* subscriber ids are 0 .. MaxId, given out in order
  MaxDepth,     \* passes inside one another
  None

Id == 0..MaxId

ASSUME BoundAssumption == MaxId \in Nat /\ MaxDepth \in Nat \ {0}
ASSUME NoneAssumption == None \notin Id

VARIABLES
  entry,        \* [Emitter -> "absent", "taken" or "map"], the entry of subscribers
  members,      \* [Emitter -> SUBSET Id], the ids of the map, if it is one
  dropped,      \* dropped_subscribers
  nextId,       \* next_subscriber_id
  active,       \* the ids whose flag is set
  held,         \* the ids whose Subscription is neither dropped nor detached
  passes,       \* the passes under way, innermost last
  emitterOf,    \* [Id -> Emitter], captured by the unsubscribe closure
  fate          \* [Id -> Fate], history: how the subscriber ended

vars == <<entry, members, dropped, nextId, active, held, passes, emitterOf, fate>>

Fate == {"unborn", "live", "cancelled", "cancelledInPass", "refused", "removed"}
Pass == [key : Emitter, todo : SUBSET Id, kept : SUBSET Id, current : Id \cup {None}]

\* An emitter with no subscriber left has no entry.
TypeOK ==
  /\ entry \in [Emitter -> {"absent", "taken", "map"}]
  /\ members \in [Emitter -> SUBSET Id]
  /\ \A k \in Emitter : entry[k] = "map" <=> members[k] # {}
  /\ dropped \subseteq Emitter \X Id
  /\ nextId \in 0..MaxId + 1
  /\ active \subseteq Id
  /\ held \subseteq Id
  /\ passes \in Seq(Pass)
  /\ emitterOf \in [Id -> Emitter]
  /\ fate \in [Id -> Fate]

Init ==
  /\ entry = [k \in Emitter |-> "absent"]
  /\ members = [k \in Emitter |-> {}]
  /\ dropped = {}
  /\ nextId = 0
  /\ active = {}
  /\ held = {}
  /\ passes = << >>
  /\ emitterOf \in [Id -> Emitter]      \* of the subscribers to come
  /\ fate = [i \in Id |-> "unborn"]

-----------------------------------------------------------------------------
Depth == Len(passes)
Top == passes[Depth]
SetTop(pass) == passes' = [passes EXCEPT ![Depth] = pass]

\* The application's code runs: outside of every pass, or in a callback.
UserCode == passes # << >> => Top.current # None

SetMembers(k, ids) ==
  /\ entry' = [entry EXCEPT ![k] = IF ids = {} THEN "absent" ELSE "map"]
  /\ members' = [members EXCEPT ![k] = ids]

\* A pass over k is under way.
PassedOver(k) == \E p \in DOMAIN passes : passes[p].key = k

-----------------------------------------------------------------------------
\* SubscriberSet::insert: a map is made where there is none, also in the place
\* of one that a pass has taken.
Insert ==
  /\ UserCode /\ nextId <= MaxId
  /\ LET k == emitterOf[nextId]
     IN SetMembers(k, members[k] \cup {nextId})
  /\ held' = held \cup {nextId}
  /\ fate' = [fate EXCEPT ![nextId] = "live"]
  /\ nextId' = nextId + 1
  /\ UNCHANGED <<dropped, active, passes, emitterOf>>

\* The second value insert returns.
Activate(i) ==
  /\ UserCode /\ i < nextId /\ i \notin active
  /\ active' = active \cup {i}
  /\ UNCHANGED <<entry, members, dropped, nextId, held, passes, emitterOf, fate>>

\* Mutant: marks where it should remove.
UnsubscribeMarks(i) ==
  LET k == emitterOf[i]
  IN \/ /\ entry[k] = "absent"
        /\ UNCHANGED <<entry, members, dropped>>
     \/ /\ entry[k] # "absent"
        /\ dropped' = dropped \cup {<<k, i>>}
        /\ UNCHANGED <<entry, members>>

\* The unsubscribe closure.
Unsubscribe(i) ==
  LET k == emitterOf[i]
  IN \/ /\ entry[k] = "absent"
        /\ UNCHANGED <<entry, members, dropped>>
     \/ /\ entry[k] = "map"
        /\ SetMembers(k, members[k] \ {i})
        /\ UNCHANGED dropped
     \/ /\ entry[k] = "taken"
        /\ dropped' = dropped \cup {<<k, i>>}
        /\ UNCHANGED <<entry, members>>

DropSubscription(i) ==
  /\ UserCode /\ i \in held
  /\ held' = held \ {i}
  /\ Unsubscribe(i)
  /\ fate' = [fate EXCEPT ![i] =
                IF @ # "live" THEN @
                ELSE IF PassedOver(emitterOf[i]) THEN "cancelledInPass" ELSE "cancelled"]
  /\ UNCHANGED <<nextId, active, passes, emitterOf>>

Detach(i) ==
  /\ UserCode /\ i \in held
  /\ held' = held \ {i}
  /\ UNCHANGED <<entry, members, dropped, nextId, active, passes, emitterOf, fate>>

\* SubscriberSet::remove; the callbacks it returns are invoked outside of the
\* set.
RemoveEntry(k) ==
  /\ entry[k] # "absent"
  /\ SetMembers(k, {})
  /\ fate' = [i \in Id |-> IF i \in members[k] THEN "removed" ELSE fate[i]]
  /\ UNCHANGED <<dropped, nextId, active, held, passes, emitterOf>>

\* The callers remove between passes.
Remove(k) == passes = << >> /\ RemoveEntry(k)

-----------------------------------------------------------------------------
(* SubscriberSet::retain *)

\* Mutant: borrows the map where it should take it.
BorrowMap(k) ==
  /\ entry[k] = "map"
  /\ passes' = Append(passes, [key |-> k, todo |-> members[k], kept |-> {}, current |-> None])
  /\ UNCHANGED <<entry, members, dropped, nextId, active, held, emitterOf, fate>>

\* The map is taken out and None left in its place; without a map to take
\* retain returns at once.
TakeMap(k) ==
  /\ entry[k] = "map"
  /\ entry' = [entry EXCEPT ![k] = "taken"]
  /\ members' = [members EXCEPT ![k] = {}]
  /\ passes' = Append(passes, [key |-> k, todo |-> members[k], kept |-> {}, current |-> None])
  /\ UNCHANGED <<dropped, nextId, active, held, emitterOf, fate>>

\* Effects are applied one at a time, so a pass inside a pass is one of
\* window.rs, whose sets have the single key ().  (AppEffects checks that App
\* keeps to this and to the guard of Remove, except while it shuts down.)
BeginRetain(k) ==
  /\ UserCode /\ Depth < MaxDepth
  /\ \A p \in DOMAIN passes : passes[p].key = k
  /\ TakeMap(k)

\* The next subscriber, in the order of the ids; an inactive one is kept.
Visit ==
  /\ passes # << >> /\ Top.current = None /\ Top.todo # {}
  /\ \E i \in Top.todo :
       /\ \A j \in Top.todo : i <= j
       /\ SetTop([Top EXCEPT !.todo = @ \ {i},
                             !.current = IF i \in active THEN i ELSE None,
                             !.kept = IF i \in active THEN @ ELSE @ \cup {i}])
  /\ UNCHANGED <<entry, members, dropped, nextId, active, held, emitterOf, fate>>

\* The callback returns whether it wants to be invoked again.
Return(keep) ==
  /\ passes # << >> /\ Top.current # None
  /\ SetTop([Top EXCEPT !.current = None,
                        !.kept = IF keep THEN @ \cup {Top.current} ELSE @])
  /\ fate' = IF keep \/ fate[Top.current] # "live" THEN fate
             ELSE [fate EXCEPT ![Top.current] = "refused"]
  /\ UNCHANGED <<entry, members, dropped, nextId, active, held, emitterOf>>

\* Mutant: the map put back replaces the one that was made meanwhile.
EndRetainForgetsNew ==
  /\ passes # << >> /\ Top.current = None /\ Top.todo = {}
  /\ SetMembers(Top.key, Top.kept \ {d[2] : d \in dropped})
  /\ dropped' = {}
  /\ passes' = SubSeq(passes, 1, Depth - 1)
  /\ UNCHANGED <<nextId, active, held, emitterOf, fate>>

\* Mutant: reads the marks and leaves them there.
EndRetainKeepsMarks ==
  /\ passes # << >> /\ Top.current = None /\ Top.todo = {}
  /\ SetMembers(Top.key, (Top.kept \cup members[Top.key]) \ {d[2] : d \in dropped})
  /\ passes' = SubSeq(passes, 1, Depth - 1)
  /\ UNCHANGED <<dropped, nextId, active, held, emitterOf, fate>>

\* Mutant: puts a map back even when it is empty.
EndRetainKeepsEmpty ==
  /\ passes # << >> /\ Top.current = None /\ Top.todo = {}
  /\ entry' = [entry EXCEPT ![Top.key] = "map"]
  /\ members' = [members EXCEPT ![Top.key] =
                   (Top.kept \cup @) \ {d[2] : d \in dropped}]
  /\ dropped' = {}
  /\ passes' = SubSeq(passes, 1, Depth - 1)
  /\ UNCHANGED <<nextId, active, held, emitterOf, fate>>

\* The new subscribers join, the marked ones go, and the rest is put back.
EndRetain ==
  /\ passes # << >> /\ Top.current = None /\ Top.todo = {}
  /\ SetMembers(Top.key, (Top.kept \cup members[Top.key]) \ {d[2] : d \in dropped})
  /\ dropped' = {}
  /\ passes' = SubSeq(passes, 1, Depth - 1)
  /\ UNCHANGED <<nextId, active, held, emitterOf, fate>>

-----------------------------------------------------------------------------
Next == \/ Insert
        \/ \E i \in Id : Activate(i) \/ DropSubscription(i) \/ Detach(i)
        \/ \E k \in Emitter : Remove(k) \/ BeginRetain(k)
        \/ Visit
        \/ \E keep \in BOOLEAN : Return(keep)
        \/ EndRetain

Spec == Init /\ [][Next]_vars

-----------------------------------------------------------------------------
(* Properties *)

\* The passes that hold i: it waits for its turn, has had it, or has it now.
HeldByPass(p, i) == i \in passes[p].todo \cup passes[p].kept \cup {passes[p].current}

\* A subscriber that nobody cancelled, that did not return false and whose
\* emitter was not removed is still there, whatever passes it went through and
\* whatever was inserted or cancelled while it was out of the set (retain).
LiveIsKept ==
  \A i \in Id :
    fate[i] = "live" => \/ i \in members[emitterOf[i]]
                        \/ \E p \in DOMAIN passes : passes[p].key = emitterOf[i] /\ HeldByPass(p, i)

\* A subscriber is in one place: no pass inside a pass invokes a callback that
\* is still running or that the outer pass invokes too (an FnMut entered twice).
InOnePlace ==
  \A i \in Id, p, q \in DOMAIN passes :
    /\ HeldByPass(p, i) => i \notin members[passes[p].key]
    /\ HeldByPass(p, i) /\ HeldByPass(q, i) => p = q

\* A Subscription dropped while no pass over its emitter is under way takes its
\* callback out for good.
CancelledIsGone ==
  \A i \in Id :
    fate[i] = "cancelled" => /\ \A k \in Emitter : i \notin members[k]
                             /\ \A p \in DOMAIN passes : ~HeldByPass(p, i)

\* The marks are those of the emitter being passed over (the debug assertion of
\* retain), and none is left when the passes are over.
MarksOfThePass ==
  \A d \in dropped : passes # << >> /\ d[1] = Top.key /\ PassedOver(emitterOf[d[2]])

\* "When dropped, the subscription is cancelled and the callback will no longer
\* be invoked": at least when the pass during which it was dropped is over.
DroppedIsGone ==
  passes = << >> =>
    \A i \in Id : fate[i] \in {"cancelled", "cancelledInPass"} =>
                    \A k \in Emitter : i \notin members[k]
=============================================================================
