----------------------------- MODULE EntityMap -----------------------------
(***************************************************************************)
(* The entity map of an application (app/entity_map.rs): the main thread   *)
(* owns the entities' values, every thread may hold, clone and drop strong *)
(* handles and upgrade weak ones.  The counters and the list of dropped    *)
(* ids sit behind one parking_lot::RwLock.  An operation that takes the    *)
(* lock for reading is split at its atomic accesses; one that takes it for *)
(* writing is one step, taken when nobody else is inside.                  *)
(***************************************************************************)
EXTENDS Integers, Sequences, FiniteSets

CONSTANTS
  Main,                 \* the thread that owns the application
  Worker,               \* the other threads handles are sent to
  EntityId,             \* the keys of the slot map; versions make each unique
  Handle,               \* identities of strong handles
  None                  \* no handle, no entity, no holder

Thread == {Main} \cup Worker
Holder == Thread \cup EntityId          \* an entity's value may own handles

ASSUME HolderAssumption == /\ Main \notin Worker
                           /\ Thread \cap EntityId = {}
ASSUME NoneAssumption == None \notin Holder \cup Handle

VARIABLES
  stage,        \* [EntityId -> Stage], how far the construction of it got
  counts,       \* [EntityId -> Int], the AtomicUsize, or Absent
  droppedIds,   \* dropped_entity_ids
  entities,     \* the ids whose value is in the SecondaryMap
  releasing,    \* the dropped entities main has taken out and not yet freed
  phase,        \* what main runs, as to whether a release is still to come
  target,       \* [Handle -> EntityId or None], the entity of a live handle
  holder,       \* [Handle -> Holder or None], who owns it
  pinned,       \* handles main's stack borrows: a build or a lease
  pc,           \* [Thread -> Label], the operation a thread is inside
  arg,          \* [Thread -> Handle or None], the handle it is cloning or dropping
  subject,      \* [Thread -> EntityId or None], the entity it is pushing or upgrading
  fresh,        \* [Thread -> Handle or None], the identity of the handle it creates
  seen          \* [Thread -> Nat], the counter as last loaded by an upgrade

mapVars == <<stage, counts, droppedIds, entities, releasing, phase>>
handleVars == <<target, holder, pinned>>
opVars == <<pc, arg, subject, fresh, seen>>
vars == <<mapVars, handleVars, opVars>>

Absent == -1            \* counts.get(id) is None
Stage == {"unused", "reserved", "building", "inserted"}
Phase == {"bare",       \* no release follows in the update, or none runs
          "update",     \* an update's body or the handler of one of its effects
          "release"}    \* release_dropped_entities
Label == {"idle", "clone", "drop", "push", "load", "cas", "wait", "take"}

TypeOK ==
  /\ stage \in [EntityId -> Stage]
  /\ counts \in [EntityId -> Nat \cup {Absent}]
  /\ droppedIds \in Seq(EntityId)
  /\ entities \subseteq EntityId
  /\ releasing \subseteq EntityId
  /\ phase \in Phase
  /\ target \in [Handle -> EntityId \cup {None}]
  /\ holder \in [Handle -> Holder \cup {None}]
  /\ pinned \subseteq Handle
  /\ pc \in [Thread -> Label]
  /\ arg \in [Thread -> Handle \cup {None}]
  /\ subject \in [Thread -> EntityId \cup {None}]
  /\ fresh \in [Thread -> Handle \cup {None}]
  /\ seen \in [Thread -> Nat]

Init ==
  /\ stage = [e \in EntityId |-> "unused"]
  /\ counts = [e \in EntityId |-> Absent]
  /\ droppedIds = << >>
  /\ entities = {}
  /\ releasing = {}
  /\ phase = "bare"
  /\ target = [h \in Handle |-> None]
  /\ holder = [h \in Handle |-> None]
  /\ pinned = {}
  /\ pc = [t \in Thread |-> "idle"]
  /\ arg = [t \in Thread |-> None]
  /\ subject = [t \in Thread |-> None]
  /\ fresh = [t \in Thread |-> None]
  /\ seen = [t \in Thread |-> 0]

-----------------------------------------------------------------------------
HandlesOf(e) == {h \in Handle : target[h] = e}
InUse(h) == holder[h] # None \/ \E t \in Thread : fresh[t] = h
Owns(t, h) == holder[h] = t
Leased(e) == /\ stage[e] = "inserted"
             /\ \E h \in pinned : target[h] = e

\* The lock: who is inside, and who keeps others out.  A thread about to push
\* has asked for its upgradable guard to become exclusive, main taking the
\* dropped ids has asked for the write guard: both keep new readers out and
\* wait for the present ones to leave.
Reading(t) == pc[t] \in {"clone", "load", "cas"}
Upgradable(t) == pc[t] \in {"drop", "push"}
CanRead == \A t \in Thread : pc[t] \notin {"push", "take"}
CanReadUpgradably == \A t \in Thread : ~Upgradable(t) /\ pc[t] # "take"
NoReader == \A t \in Thread : ~Reading(t)
LockFree == NoReader /\ CanReadUpgradably

GiveHandle(h, e, o) == /\ target' = [target EXCEPT ![h] = e]
                       /\ holder' = [holder EXCEPT ![h] = o]

Finish(t) == /\ pc' = [pc EXCEPT ![t] = "idle"]
             /\ arg' = [arg EXCEPT ![t] = None]
             /\ subject' = [subject EXCEPT ![t] = None]
             /\ fresh' = [fresh EXCEPT ![t] = None]
             /\ seen' = [seen EXCEPT ![t] = 0]

-----------------------------------------------------------------------------
(* Construction, on the main thread *)

\* EntityMap::reserve: a counter that starts at one, and the slot's handle.
Reserve(e, h) ==
  /\ pc[Main] = "idle" /\ LockFree
  /\ stage[e] = "unused" /\ ~InUse(h)
  /\ stage' = [stage EXCEPT ![e] = "reserved"]
  /\ counts' = [counts EXCEPT ![e] = 1]
  /\ GiveHandle(h, e, Main)
  /\ UNCHANGED <<droppedIds, entities, releasing, phase, pinned, opVars>>

\* App::insert_entity: the constructor runs with the slot on main's stack and
\* a weak handle in its Context.
BeginBuild(h) ==
  /\ pc[Main] = "idle" /\ Owns(Main, h)
  /\ stage[target[h]] = "reserved"
  /\ stage' = [stage EXCEPT ![target[h]] = "building"]
  /\ pinned' = pinned \cup {h}
  /\ UNCHANGED <<counts, droppedIds, entities, releasing, phase, target, holder, opVars>>

\* EntityMap::insert: the value goes into the map, the slot becomes an Entity.
Insert(h) ==
  /\ pc[Main] = "idle" /\ h \in pinned
  /\ stage[target[h]] = "building"
  /\ stage' = [stage EXCEPT ![target[h]] = "inserted"]
  /\ entities' = entities \cup {target[h]}
  /\ pinned' = pinned \ {h}
  /\ UNCHANGED <<counts, droppedIds, releasing, phase, target, holder, opVars>>

-----------------------------------------------------------------------------
(* Access to the value, on the main thread *)

\* EntityMap::lease: an entity that is already leased makes it panic.
Lease(h) ==
  /\ pc[Main] = "idle" /\ Owns(Main, h) /\ h \notin pinned
  /\ target[h] \in entities
  /\ entities' = entities \ {target[h]}
  /\ pinned' = pinned \cup {h}
  /\ UNCHANGED <<stage, counts, droppedIds, releasing, phase, target, holder, opVars>>

\* EntityMap::end_lease
EndLease(h) ==
  /\ pc[Main] = "idle" /\ h \in pinned
  /\ stage[target[h]] = "inserted"
  /\ entities' = entities \cup {target[h]}
  /\ pinned' = pinned \ {h}
  /\ UNCHANGED <<stage, counts, droppedIds, releasing, phase, target, holder, opVars>>

\* While an entity is leased main may move handles in and out of its fields.
MoveInto(h, e) ==
  /\ pc[Main] = "idle" /\ Owns(Main, h) /\ h \notin pinned /\ Leased(e)
  /\ holder' = [holder EXCEPT ![h] = e]
  /\ UNCHANGED <<mapVars, target, pinned, opVars>>

MoveOut(h, e) ==
  /\ pc[Main] = "idle" /\ Owns(e, h) /\ Leased(e)
  /\ holder' = [holder EXCEPT ![h] = Main]
  /\ UNCHANGED <<mapVars, target, pinned, opVars>>

-----------------------------------------------------------------------------
(* Handles, on every thread *)

\* A handle is Send: it moves to another thread.
Send(t, u, h) ==
  /\ pc[t] = "idle" /\ Owns(t, h) /\ h \notin pinned /\ u # t
  /\ holder' = [holder EXCEPT ![h] = u]
  /\ UNCHANGED <<mapVars, target, pinned, opVars>>

\* AnyEntity::clone, with the read guard: fetch_add.  A slot is not cloned.
BeginClone(t, h, n) ==
  /\ pc[t] = "idle" /\ CanRead
  /\ Owns(t, h) /\ stage[target[h]] # "reserved" /\ ~InUse(n)
  /\ pc' = [pc EXCEPT ![t] = "clone"]
  /\ arg' = [arg EXCEPT ![t] = h]
  /\ fresh' = [fresh EXCEPT ![t] = n]
  /\ UNCHANGED <<mapVars, handleVars, subject, seen>>

CloneIncrement(t) ==
  /\ pc[t] = "clone"
  /\ LET e == target[arg[t]]
     IN /\ counts' = [counts EXCEPT ![e] = @ + 1]
        /\ GiveHandle(fresh[t], e, t)
  /\ Finish(t)
  /\ UNCHANGED <<stage, droppedIds, entities, releasing, phase, pinned>>

\* AnyEntity::drop, with the upgradable guard: fetch_sub, and whoever took the
\* counter from one to zero makes the guard exclusive and pushes the id.
BeginDrop(t, h) ==
  /\ pc[t] = "idle" /\ CanReadUpgradably
  /\ Owns(t, h) /\ h \notin pinned
  /\ pc' = [pc EXCEPT ![t] = "drop"]
  /\ arg' = [arg EXCEPT ![t] = h]
  /\ UNCHANGED <<mapVars, handleVars, subject, fresh, seen>>

\* Mutant: compares the counter fetch_sub leaves behind with one.
DropDecrementComparesNew(t) ==
  /\ pc[t] = "drop"
  /\ LET e == target[arg[t]]
     IN /\ counts' = [counts EXCEPT ![e] = @ - 1]
        /\ IF counts[e] - 1 = 1
           THEN /\ pc' = [pc EXCEPT ![t] = "push"]
                /\ arg' = [arg EXCEPT ![t] = None]
                /\ subject' = [subject EXCEPT ![t] = e]
                /\ UNCHANGED <<fresh, seen>>
           ELSE Finish(t)
  /\ GiveHandle(arg[t], None, None)
  /\ UNCHANGED <<stage, droppedIds, entities, releasing, phase, pinned>>

DropDecrement(t) ==
  /\ pc[t] = "drop"
  /\ LET e == target[arg[t]]
     IN /\ counts' = [counts EXCEPT ![e] = @ - 1]
        /\ IF counts[e] = 1
           THEN /\ pc' = [pc EXCEPT ![t] = "push"]
                /\ arg' = [arg EXCEPT ![t] = None]
                /\ subject' = [subject EXCEPT ![t] = e]
                /\ UNCHANGED <<fresh, seen>>
           ELSE Finish(t)
  /\ GiveHandle(arg[t], None, None)
  /\ UNCHANGED <<stage, droppedIds, entities, releasing, phase, pinned>>

\* Mutant: the drop takes the guard but forgets the list.
DropWithoutPush(t) ==
  /\ pc[t] = "push" /\ NoReader
  /\ Finish(t)
  /\ UNCHANGED <<stage, counts, droppedIds, entities, releasing, phase, handleVars>>

DropPush(t) ==
  /\ pc[t] = "push" /\ NoReader
  /\ droppedIds' = Append(droppedIds, subject[t])
  /\ Finish(t)
  /\ UNCHANGED <<stage, counts, entities, releasing, phase, handleVars>>

\* AnyWeakEntity::upgrade, with the read guard: atomic_incr_if_not_zero loads
\* the counter and tries to exchange it until it succeeds or reads a zero.  A
\* weak handle may be anywhere from the moment the entity is being built.
BeginUpgrade(t, e, n) ==
  /\ pc[t] = "idle" /\ CanRead
  /\ stage[e] \in {"building", "inserted"} /\ counts[e] # Absent /\ ~InUse(n)
  /\ pc' = [pc EXCEPT ![t] = "load"]
  /\ subject' = [subject EXCEPT ![t] = e]
  /\ fresh' = [fresh EXCEPT ![t] = n]
  /\ UNCHANGED <<mapVars, handleVars, arg, seen>>

\* Mutant: increments whatever it read.
TryWithAny(t, loaded) ==
  /\ pc' = [pc EXCEPT ![t] = "cas"]
  /\ seen' = [seen EXCEPT ![t] = loaded]
  /\ UNCHANGED <<arg, subject, fresh>>

\* What the loop does with the value it just read.
TryWith(t, loaded) ==
  IF loaded = 0
  THEN Finish(t)
  ELSE /\ pc' = [pc EXCEPT ![t] = "cas"]
       /\ seen' = [seen EXCEPT ![t] = loaded]
       /\ UNCHANGED <<arg, subject, fresh>>

UpgradeLoad(t) ==
  /\ pc[t] = "load"
  /\ TryWith(t, counts[subject[t]])
  /\ UNCHANGED <<mapVars, handleVars>>

\* Mutant: a load and a store where the code has a compare_exchange.
UpgradeStore(t) ==
  /\ pc[t] = "cas"
  /\ counts' = [counts EXCEPT ![subject[t]] = seen[t] + 1]
  /\ GiveHandle(fresh[t], subject[t], t)
  /\ Finish(t)
  /\ UNCHANGED <<stage, droppedIds, entities, releasing, phase, pinned>>

UpgradeExchange(t) ==
  /\ pc[t] = "cas" /\ counts[subject[t]] = seen[t]
  /\ counts' = [counts EXCEPT ![subject[t]] = @ + 1]
  /\ GiveHandle(fresh[t], subject[t], t)
  /\ Finish(t)
  /\ UNCHANGED <<stage, droppedIds, entities, releasing, phase, pinned>>

UpgradeRetry(t) ==
  /\ pc[t] = "cas" /\ counts[subject[t]] # seen[t]
  /\ TryWith(t, counts[subject[t]])
  /\ UNCHANGED <<mapVars, handleVars>>

-----------------------------------------------------------------------------
(* Release, on the main thread *)

\* App::start_update of an outermost update.  Nothing says when the next one is.
BeginUpdate ==
  /\ pc[Main] = "idle" /\ phase = "bare" /\ pinned = {}
  /\ phase' = "update"
  /\ UNCHANGED <<stage, counts, droppedIds, entities, releasing, handleVars, opVars>>

\* EntityMap::take_dropped, called by release_dropped_entities when the update's
\* body or the handler of an effect has returned and when the batch before it is
\* freed: first main asks for the write guard and waits until no drop holds its
\* upgradable one,
BeginTake ==
  /\ pc[Main] = "idle" /\ phase # "bare" /\ pinned = {} /\ releasing = {}
  /\ phase' = "release"
  /\ pc' = [pc EXCEPT ![Main] = "wait"]
  /\ UNCHANGED <<stage, counts, droppedIds, entities, releasing, handleVars,
                 arg, subject, fresh, seen>>

LockOutOthers ==
  /\ pc[Main] = "wait" /\ CanReadUpgradably
  /\ pc' = [pc EXCEPT ![Main] = "take"]
  /\ UNCHANGED <<mapVars, handleVars, arg, subject, fresh, seen>>

\* then the whole list is drained, the counters go, and so do the values: an
\* id that was reserved and never inserted has none.
Drained == {droppedIds[i] : i \in DOMAIN droppedIds}

\* When no value was taken the loop is left: for the next effect, after whose
\* handler flush_effects releases again, or, with no effect queued, for good.
AfterTake(batch) == IF batch = {} THEN {"update", "bare"} ELSE {"release"}

\* Mutant: drains with the readers still inside.
TakeDroppedAmongReaders ==
  /\ pc[Main] = "take"
  /\ counts' = [e \in EntityId |-> IF e \in Drained THEN Absent ELSE counts[e]]
  /\ releasing' = Drained \cap entities
  /\ phase' \in AfterTake(Drained \cap entities)
  /\ entities' = entities \ Drained
  /\ droppedIds' = << >>
  /\ Finish(Main)
  /\ UNCHANGED <<stage, handleVars>>

TakeDropped ==
  /\ pc[Main] = "take" /\ NoReader
  /\ counts' = [e \in EntityId |-> IF e \in Drained THEN Absent ELSE counts[e]]
  /\ releasing' = Drained \cap entities
  /\ phase' \in AfterTake(Drained \cap entities)
  /\ entities' = entities \ Drained
  /\ droppedIds' = << >>
  /\ Finish(Main)
  /\ UNCHANGED <<stage, handleVars>>

\* Mutant: without the loop, the flush goes on when its only batch is freed.
FreeOneBatch(e) ==
  /\ pc[Main] = "idle" /\ pinned = {} /\ e \in releasing
  /\ holder' = [h \in Handle |-> IF holder[h] = e THEN Main ELSE holder[h]]
  /\ releasing' = releasing \ {e}
  /\ phase' \in AfterTake(releasing \ {e})
  /\ UNCHANGED <<stage, counts, droppedIds, entities, target, pinned, opVars>>

\* App::release_dropped_entities: the release listeners get the value and
\* return, then it is freed; the order within a batch is left open.  The handles
\* it owned are main's, to keep or to drop.
Free(e) ==
  /\ pc[Main] = "idle" /\ pinned = {} /\ e \in releasing
  /\ holder' = [h \in Handle |-> IF holder[h] = e THEN Main ELSE holder[h]]
  /\ releasing' = releasing \ {e}
  /\ UNCHANGED <<stage, counts, droppedIds, entities, phase, target, pinned, opVars>>

-----------------------------------------------------------------------------
Construct == \E h \in Handle : \/ \E e \in EntityId : Reserve(e, h)
                               \/ BeginBuild(h)
                               \/ Insert(h)

Access == \E h \in Handle : \/ Lease(h)
                            \/ EndLease(h)
                            \/ \E e \in EntityId : MoveInto(h, e) \/ MoveOut(h, e)

Begin(t) == \E h \in Handle : \/ \E u \in Thread : Send(t, u, h)
                              \/ \E n \in Handle : BeginClone(t, h, n)
                              \/ BeginDrop(t, h)
                              \/ \E e \in EntityId : BeginUpgrade(t, e, h)

Continue(t) == \/ CloneIncrement(t)
               \/ DropDecrement(t)
               \/ DropPush(t)
               \/ UpgradeLoad(t)
               \/ UpgradeExchange(t)
               \/ UpgradeRetry(t)

Next == \/ Construct
        \/ Access
        \/ \E t \in Thread : Begin(t) \/ Continue(t)
        \/ BeginUpdate
        \/ BeginTake
        \/ LockOutOthers
        \/ TakeDropped
        \/ \E e \in EntityId : Free(e)

Spec == Init /\ [][Next]_vars

\* A thread inside an operation goes on, and its exchange is not beaten by the
\* others for ever; every build, lease, update, handler and listener returns, so
\* that the flush at the end of an update that began comes and goes on, but no
\* update has to begin; parking_lot's eventual fairness lets a waiting writer in.
Fairness == /\ \A t \in Thread : WF_vars(Continue(t)) /\ SF_vars(UpgradeExchange(t))
            /\ []<>(pinned = {})
            /\ SF_vars(BeginTake)
            /\ SF_vars(LockOutOthers)
            /\ WF_vars(TakeDropped)
            /\ \A e \in EntityId : SF_vars(Free(e))

FairSpec == Spec /\ Fairness

-----------------------------------------------------------------------------
(* Properties *)

Pushing(t, e) == pc[t] = "push" /\ subject[t] = e

\* The counter an operation in progress is about to touch.
Touched(t) == IF pc[t] \in {"clone", "drop"} THEN target[arg[t]] ELSE subject[t]

\* The counter of a registered entity is the number of its strong handles, on
\* whatever threads they are and whatever operations are half done; a handle
\* never outlives its counter.  (clone, drop and upgrade of entity_map.rs)
CountIsHandles ==
  \A e \in EntityId :
    IF counts[e] = Absent THEN HandlesOf(e) = {}
                          ELSE counts[e] = Cardinality(HandlesOf(e))

\* An entity whose counter is zero is in dropped_entity_ids exactly once, or
\* about to be put there by exactly the thread that took the counter to zero;
\* and nothing else is.  This is what take_dropped's unwrap and its debug
\* assertion ("dropped an entity that was referenced") rest on.
DroppedExactlyOnce ==
  /\ \A i, j \in DOMAIN droppedIds : droppedIds[i] = droppedIds[j] => i = j
  /\ \A e \in EntityId :
       /\ counts[e] = 0 <=> (e \in Drained \/ \E t \in Thread : Pushing(t, e))
       /\ \A t, u \in Thread : Pushing(t, e) /\ Pushing(u, e) => t = u
       /\ e \in Drained => ~\E t \in Thread : Pushing(t, e)

\* The assertions of clone and drop ("detected over-release of a entity") and
\* the reference that upgrade holds into the slot map: the counter is there
\* while an operation is between its lock and its atomic access, and it is
\* not zero when the operation owns a handle.
NeverOverReleased ==
  \A t \in Thread :
    /\ pc[t] \notin {"idle", "wait", "take"} => counts[Touched(t)] # Absent
    /\ pc[t] \in {"clone", "drop"} => counts[Touched(t)] > 0

\* The value of an entity is in the map or on main's stack as long as a handle
\* to it exists on any thread; a value on its way out has no handle at all.
ValueOutlivesHandles ==
  /\ \A h \in Handle :
       LET e == target[h]
       IN e # None /\ stage[e] = "inserted" => e \in entities \/ Leased(e)
  /\ \A e \in releasing : HandlesOf(e) = {}

\* Once the last handle is gone no weak handle brings the entity back, and a
\* counter that is gone does not return (the comment in upgrade: "entity_id is
\* in dropped_entity_ids").
NoResurrection ==
  [][\A e \in EntityId :
       /\ counts[e] = 0 => counts'[e] \in {0, Absent}
       /\ stage[e] # "unused" /\ counts[e] = Absent => counts'[e] = Absent]_vars

\* The map implements the promise: every step is a step of EntityLifetime or
\* changes nothing an owner of a handle can see.
Lifetime == INSTANCE EntityLifetime WITH
  phase <- [e \in EntityId |->
              IF stage[e] = "unused" THEN "unborn"
              ELSE IF counts[e] = Absent THEN "released"
              ELSE IF counts[e] = 0 THEN "dead" ELSE "alive"],
  owners <- [e \in EntityId |-> Cardinality(HandlesOf(e))]

ImplementsLifetime == Lifetime!Spec

\* An entity that nobody refers to while an update runs is taken out of the map
\* before that update's flush is over: whichever thread dropped its last handle,
\* while others keep upgrading and dropping, and also when it was dropped while
\* the flush was freeing others (the loop of release_dropped_entities).  Of one
\* dropped with no update under way nothing is said: it waits for the next.
DeadIsReleased ==
  \A e \in EntityId : phase # "bare" /\ counts[e] = 0 ~> counts[e] = Absent
=============================================================================
