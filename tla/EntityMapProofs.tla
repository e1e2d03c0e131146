-------------------------- MODULE EntityMapProofs --------------------------
(***************************************************************************)
(* Proofs about the entity map for every set of workers, entities and      *)
(* handles: its safety invariants, from one inductive invariant.           *)
(***************************************************************************)
EXTENDS EntityMap, FiniteSetTheorems, TLAPS

\* A live handle has an entity and an owner, a free one has neither.
HandlesWhole ==
  \A h \in Handle : target[h] = None <=> holder[h] = None

\* What an operation in progress holds on to.
OpsWhole ==
  \A t \in Thread :
    /\ pc[t] \in {"wait", "take"} => t = Main
    /\ pc[t] \in {"idle", "wait", "take", "drop", "push"} => fresh[t] = None
    /\ pc[t] \in {"clone", "drop"} => /\ arg[t] \in Handle
                                      /\ holder[arg[t]] = t
                                      /\ target[arg[t]] \in EntityId
    /\ pc[t] = "drop" => arg[t] \notin pinned
    /\ pc[t] \in {"clone", "load", "cas"} => /\ fresh[t] \in Handle
                                             /\ target[fresh[t]] = None
    /\ pc[t] \in {"push", "load", "cas"} => subject[t] \in EntityId
    /\ pc[t] \in {"load", "cas"} => counts[subject[t]] # Absent
    /\ pc[t] = "cas" => seen[t] > 0

\* Two threads never create the same handle.
FreshUnique ==
  \A t, u \in Thread : fresh[t] = fresh[u] /\ fresh[t] # None => t = u

\* The guards that exclude one another.
LockExclusive ==
  /\ \A t, u \in Thread : Upgradable(t) /\ Upgradable(u) => t = u
  /\ pc[Main] = "take" => \A t \in Thread : ~Upgradable(t)

Counted ==
  \A e \in EntityId :
    /\ IsFiniteSet(HandlesOf(e))
    /\ stage[e] = "unused" => counts[e] = Absent

\* Main's stack borrows only handles of its own, of entities under way or made.
PinnedByMain ==
  \A h \in pinned : /\ holder[h] = Main
                    /\ target[h] \in EntityId
                    /\ stage[target[h]] \in {"building", "inserted"}

\* A registered value is in the map or leased; a value on its way out is not
\* registered any more.
ValuesWhole ==
  /\ \A e \in EntityId :
       /\ stage[e] = "inserted" /\ counts[e] # Absent => e \in entities \/ Leased(e)
       /\ e \in entities => stage[e] = "inserted"
  /\ \A e \in releasing : counts[e] = Absent /\ stage[e] # "unused"

IInv == /\ TypeOK
        /\ HandlesWhole
        /\ OpsWhole
        /\ FreshUnique
        /\ LockExclusive
        /\ Counted
        /\ CountIsHandles
        /\ DroppedExactlyOnce
        /\ PinnedByMain
        /\ ValuesWhole

-----------------------------------------------------------------------------
(* Counting handles *)

\* A free handle given to e makes one more handle of e and changes no other
\* entity's handles.
LEMMA GivenHandle ==
  ASSUME NEW f \in [Handle -> EntityId \cup {None}],
         NEW h \in Handle, f[h] = None,
         NEW e \in EntityId,
         NEW x \in EntityId, IsFiniteSet({k \in Handle : f[k] = x})
  PROVE  LET g == [f EXCEPT ![h] = e]
             old == {k \in Handle : f[k] = x}
             new == {k \in Handle : g[k] = x}
         IN /\ IsFiniteSet(new)
            /\ x = e => Cardinality(new) = Cardinality(old) + 1
            /\ x # e => new = old
<1> DEFINE g == [f EXCEPT ![h] = e]
           old == {k \in Handle : f[k] = x}
           new == {k \in Handle : g[k] = x}
<1>0. None \notin EntityId
  BY NoneAssumption DEF Holder
<1>1. CASE x = e
  <2>1. new = old \cup {h} /\ h \notin old
    BY <1>0, <1>1
  <2> QED BY <1>1, <2>1, FS_AddElement
<1>2. CASE x # e
  BY <1>0, <1>2
<1> QED BY <1>1, <1>2

\* A handle of e taken away leaves one less and changes no other entity's.
LEMMA TakenHandle ==
  ASSUME NEW f \in [Handle -> EntityId \cup {None}],
         NEW h \in Handle, f[h] \in EntityId,
         NEW x \in EntityId, IsFiniteSet({k \in Handle : f[k] = x})
  PROVE  LET g == [f EXCEPT ![h] = None]
             old == {k \in Handle : f[k] = x}
             new == {k \in Handle : g[k] = x}
         IN /\ IsFiniteSet(new)
            /\ x = f[h] => /\ Cardinality(old) \in Nat \ {0}
                           /\ Cardinality(new) = Cardinality(old) - 1
            /\ x # f[h] => new = old
<1> DEFINE g == [f EXCEPT ![h] = None]
           old == {k \in Handle : f[k] = x}
           new == {k \in Handle : g[k] = x}
<1>0. None \notin EntityId
  BY NoneAssumption DEF Holder
<1>1. CASE x = f[h]
  <2>1. new = old \ {h} /\ h \in old
    BY <1>0, <1>1
  <2>2. IsFiniteSet(new) /\ Cardinality(new) = Cardinality(old) - 1
    BY <2>1, FS_RemoveElement, ZenonT(40)
  <2>3. Cardinality(old) \in Nat /\ Cardinality(old) # 0
    BY <2>1, FS_CardinalityType, FS_EmptySet
  <2> QED BY <1>1, <2>2, <2>3
<1>2. CASE x # f[h]
  BY <1>0, <1>2
<1> QED BY <1>1, <1>2

\* While the invariant holds, an entity has a positive counter exactly when it
\* has a handle.
LEMMA LiveCounter ==
  ASSUME TypeOK, Counted, CountIsHandles,
         NEW h \in Handle, target[h] \in EntityId
  PROVE  counts[target[h]] \in Nat \ {0}
<1> DEFINE e == target[h]
<1>1. IsFiniteSet(HandlesOf(e)) /\ h \in HandlesOf(e)
  BY DEF Counted, HandlesOf
<1>2. counts[e] = Cardinality(HandlesOf(e))
  BY <1>1 DEF CountIsHandles
<1> QED BY <1>1, <1>2, FS_CardinalityType, FS_EmptySet

LEMMA NoHandleWhenZero ==
  ASSUME TypeOK, Counted, CountIsHandles,
         NEW e \in EntityId, counts[e] = 0
  PROVE  HandlesOf(e) = {}
<1>1. counts[e] = Cardinality(HandlesOf(e))
  BY DEF CountIsHandles, Absent
<1> QED BY <1>1, FS_EmptySet DEF Counted

-----------------------------------------------------------------------------
(* What a step that leaves the handles or the dropped ids alone keeps *)

\* Neither a counter nor a handle changes, and no key is taken back.
LEMMA CountsFrame ==
  ASSUME Counted, CountIsHandles, UNCHANGED <<counts, target>>,
         \A e \in EntityId : stage'[e] = "unused" => stage[e] = "unused"
  PROVE  Counted' /\ CountIsHandles'
BY DEF Counted, CountIsHandles, HandlesOf

\* No counter reaches or leaves zero, nobody starts or ends a push.
LEMMA DroppedFrame ==
  ASSUME DroppedExactlyOnce, UNCHANGED droppedIds,
         \A e \in EntityId : counts'[e] = 0 <=> counts[e] = 0,
         \A t \in Thread, e \in EntityId : Pushing(t, e)' <=> Pushing(t, e)
  PROVE  DroppedExactlyOnce'
<1>1. Drained' = Drained
  BY DEF Drained
<1> QED BY <1>1 DEF DroppedExactlyOnce

\* A free handle is given to an entity whose counter goes to one more than its
\* handles.
LEMMA GiveKeepsCounts ==
  ASSUME TypeOK, Counted, CountIsHandles,
         NEW e \in EntityId, NEW h \in Handle, target[h] = None,
         target' = [target EXCEPT ![h] = e],
         counts' = [counts EXCEPT ![e] = IF counts[e] = Absent THEN 1 ELSE counts[e] + 1],
         \A x \in EntityId : stage'[x] = "unused" => stage[x] = "unused" /\ x # e
  PROVE  Counted' /\ CountIsHandles'
<1>1. target \in [Handle -> EntityId \cup {None}] /\ counts \in [EntityId -> Nat \cup {Absent}]
  BY DEF TypeOK
<1>2. ASSUME NEW x \in EntityId
      PROVE  /\ IsFiniteSet(HandlesOf(x)')
             /\ x = e => Cardinality(HandlesOf(x)') = Cardinality(HandlesOf(x)) + 1
             /\ x # e => HandlesOf(x)' = HandlesOf(x)
  <2>1. IsFiniteSet({k \in Handle : target[k] = x})
    BY DEF Counted, HandlesOf
  <2>2. HandlesOf(x)' = {k \in Handle : [target EXCEPT ![h] = e][k] = x}
    BY DEF HandlesOf
  <2>3. HandlesOf(x) = {k \in Handle : target[k] = x}
    BY DEF HandlesOf
  <2> HIDE DEF HandlesOf
  <2> QED BY <1>1, <2>1, <2>2, <2>3, GivenHandle, SMTT(40)
<1>3. Counted'
  BY <1>1, <1>2 DEF Counted
<1>4. ASSUME NEW x \in EntityId
      PROVE  IF counts'[x] = Absent THEN HandlesOf(x)' = {}
                                    ELSE counts'[x] = Cardinality(HandlesOf(x)')
  <2>1. CASE x # e
    BY <1>1, <1>2, <2>1 DEF CountIsHandles
  <2>2. CASE x = e /\ counts[e] = Absent
    <3>1. HandlesOf(e) = {}
      BY <2>2 DEF CountIsHandles
    <3>2. Cardinality(HandlesOf(x)) = 0
      BY <2>2, <3>1, FS_EmptySet
    <3>4. Cardinality(HandlesOf(x)') = 1
      BY <1>2, <2>2, <3>2
    <3>3. counts'[x] = 1
      BY <1>1, <2>2
    <3> QED BY <3>3, <3>4 DEF Absent
  <2>3. CASE x = e /\ counts[e] # Absent
    BY <1>1, <1>2, <2>3 DEF CountIsHandles, Absent
  <2> QED BY <2>1, <2>2, <2>3
<1> QED BY <1>3, <1>4 DEF CountIsHandles

\* A handle is taken from an entity whose counter goes down by one.
LEMMA TakeKeepsCounts ==
  ASSUME TypeOK, Counted, CountIsHandles,
         NEW h \in Handle, target[h] \in EntityId,
         target' = [target EXCEPT ![h] = None],
         counts' = [counts EXCEPT ![target[h]] = @ - 1],
         UNCHANGED stage
  PROVE  Counted' /\ CountIsHandles'
<1>1. target \in [Handle -> EntityId \cup {None}] /\ counts \in [EntityId -> Nat \cup {Absent}]
  BY DEF TypeOK
<1>2. counts[target[h]] \in Nat \ {0}
  BY LiveCounter
<1>3. ASSUME NEW x \in EntityId
      PROVE  /\ IsFiniteSet(HandlesOf(x)')
             /\ x = target[h] => Cardinality(HandlesOf(x)') = Cardinality(HandlesOf(x)) - 1
             /\ x # target[h] => HandlesOf(x)' = HandlesOf(x)
  <2>1. IsFiniteSet({k \in Handle : target[k] = x})
    BY DEF Counted, HandlesOf
  <2>2. HandlesOf(x)' = {k \in Handle : [target EXCEPT ![h] = None][k] = x}
    BY DEF HandlesOf
  <2>3. HandlesOf(x) = {k \in Handle : target[k] = x}
    BY DEF HandlesOf
  <2> QED BY <1>1, <2>1, <2>2, <2>3, TakenHandle
<1>4. Counted'
  BY <1>1, <1>2, <1>3 DEF Counted, Absent
<1>5. CountIsHandles'
  BY <1>1, <1>2, <1>3 DEF CountIsHandles, Absent
<1> QED BY <1>4, <1>5

\* The thread that takes a counter from one to zero is the one that pushes.
LEMMA LastDropped ==
  ASSUME TypeOK, DroppedExactlyOnce, NEW t \in Thread, NEW e \in EntityId,
         \A u \in Thread : u # t => pc[u] # "push", pc[t] # "push",
         counts[e] = 1, counts' = [counts EXCEPT ![e] = @ - 1],
         pc' = [pc EXCEPT ![t] = "push"], subject' = [subject EXCEPT ![t] = e],
         UNCHANGED droppedIds
  PROVE  DroppedExactlyOnce'
<1>1. \A u \in Thread, x \in EntityId : ~Pushing(u, x)
  BY DEF Pushing
<1>2. \A u \in Thread, x \in EntityId : Pushing(u, x)' <=> u = t /\ x = e
  BY DEF Pushing, TypeOK
<1>3. Drained' = Drained /\ e \notin Drained
  BY DEF Drained, DroppedExactlyOnce
<1>4. \A x \in EntityId : counts'[x] = 0 <=> counts[x] = 0 \/ x = e
  BY DEF TypeOK
<1> QED BY <1>1, <1>2, <1>3, <1>4 DEF DroppedExactlyOnce

-----------------------------------------------------------------------------
(* The invariant is inductive *)

LEMMA InitIInv == Init => IInv
<1> SUFFICES ASSUME Init PROVE IInv
  OBVIOUS
<1> USE NoneAssumption, HolderAssumption
<1>1. TypeOK
  BY DEF Init, TypeOK, Stage, Phase, Label, Absent
<1>2. HandlesWhole /\ OpsWhole /\ FreshUnique /\ LockExclusive
  BY DEF Init, HandlesWhole, OpsWhole, FreshUnique, LockExclusive, Upgradable, Thread
<1>3. \A e \in EntityId : HandlesOf(e) = {}
  BY DEF Init, HandlesOf, Holder
<1>4. Counted /\ CountIsHandles
  BY <1>3, FS_EmptySet DEF Init, Counted, CountIsHandles
<1>5. DroppedExactlyOnce
  BY DEF Init, DroppedExactlyOnce, Drained, Pushing, Absent
<1>6. PinnedByMain /\ ValuesWhole
  BY DEF Init, PinnedByMain, ValuesWhole
<1> QED BY <1>1, <1>2, <1>4, <1>5, <1>6 DEF IInv

\* The values a model keeps apart.
Distinct == /\ None \notin EntityId /\ None \notin Thread /\ None \notin Handle
            /\ None \notin Holder
            /\ Main \in Thread
            /\ Thread \cap EntityId = {}
            /\ Thread \subseteq Holder /\ EntityId \subseteq Holder

LEMMA DistinctValues == Distinct
BY NoneAssumption, HolderAssumption DEF Distinct, Thread, Holder

LEMMA ReserveKeeps ==
  ASSUME IInv, NEW e \in EntityId, NEW h \in Handle, Reserve(e, h)
  PROVE  IInv'
<1>0. Distinct
  BY DistinctValues
<1>a. target[h] = None /\ holder[h] = None /\ \A t \in Thread : fresh[t] # h
  BY DEF IInv, HandlesWhole, Reserve, InUse
<1>1. TypeOK'
  BY <1>0 DEF Distinct, IInv, TypeOK, Reserve, GiveHandle, opVars, Stage, Absent
<1>2. HandlesWhole'
  BY <1>0 DEF Distinct, IInv, TypeOK, HandlesWhole, Reserve, GiveHandle
<1>3. OpsWhole'
  BY <1>0, <1>a DEF Distinct, IInv, TypeOK, HandlesWhole, OpsWhole, Counted, Reserve, GiveHandle, opVars, Absent
<1>4. FreshUnique'
  BY DEF IInv, TypeOK, FreshUnique, Reserve, GiveHandle, opVars
<1>5. LockExclusive'
  BY DEF IInv, TypeOK, LockExclusive, Upgradable, Reserve, GiveHandle, opVars
<1>6. Counted' /\ CountIsHandles'
  BY <1>a, GiveKeepsCounts DEF IInv, TypeOK, Counted, Reserve, GiveHandle
<1>7. DroppedExactlyOnce'
  BY DroppedFrame DEF IInv, TypeOK, Counted, Pushing, Reserve, opVars, Absent
<1>8. PinnedByMain'
  BY <1>0, <1>a DEF Distinct, IInv, TypeOK, PinnedByMain, Reserve, GiveHandle
<1>9. ValuesWhole'
  BY <1>0, <1>a DEF Distinct, IInv, TypeOK, PinnedByMain, ValuesWhole, Leased, Reserve, GiveHandle
<1> QED BY <1>1, <1>2, <1>3, <1>4, <1>5, <1>6, <1>7, <1>8, <1>9 DEF IInv

LEMMA BeginBuildKeeps ==
  ASSUME IInv, NEW h \in Handle, BeginBuild(h)
  PROVE  IInv'
<1>0. Distinct
  BY DistinctValues
<1>a. target[h] \in EntityId
  BY <1>0 DEF Distinct, IInv, TypeOK, HandlesWhole, BeginBuild, Owns
<1>1. TypeOK'
  BY <1>0 DEF Distinct, IInv, TypeOK, BeginBuild, opVars, Stage
<1>2. HandlesWhole'
  BY <1>0 DEF Distinct, IInv, TypeOK, HandlesWhole, BeginBuild, opVars
<1>3. OpsWhole'
  BY DEF IInv, TypeOK, OpsWhole, BeginBuild, Owns, opVars
<1>4. FreshUnique'
  BY DEF IInv, TypeOK, FreshUnique, BeginBuild, opVars
<1>5. LockExclusive'
  BY DEF IInv, TypeOK, LockExclusive, Upgradable, BeginBuild, opVars
<1>6. Counted' /\ CountIsHandles'
  BY CountsFrame DEF IInv, TypeOK, BeginBuild, opVars
<1>7. DroppedExactlyOnce'
  BY DroppedFrame DEF IInv, TypeOK, Pushing, BeginBuild, opVars
<1>8. PinnedByMain'
  BY <1>0, <1>a DEF Distinct, IInv, TypeOK, PinnedByMain, BeginBuild, Owns
<1>9. ValuesWhole'
  BY <1>0, <1>a DEF Distinct, IInv, TypeOK, PinnedByMain, ValuesWhole, Leased, BeginBuild
<1> QED BY <1>1, <1>2, <1>3, <1>4, <1>5, <1>6, <1>7, <1>8, <1>9 DEF IInv

LEMMA InsertKeeps ==
  ASSUME IInv, NEW h \in Handle, Insert(h)
  PROVE  IInv'
<1>0. Distinct
  BY DistinctValues
<1>a. target[h] \in EntityId
  BY DEF IInv, PinnedByMain, Insert
<1>1. TypeOK'
  BY <1>a DEF IInv, TypeOK, Insert, opVars, Stage
<1>2. HandlesWhole'
  BY <1>0 DEF Distinct, IInv, TypeOK, HandlesWhole, Insert, opVars
<1>3. OpsWhole'
  BY DEF IInv, TypeOK, OpsWhole, Insert, opVars
<1>4. FreshUnique'
  BY DEF IInv, TypeOK, FreshUnique, Insert, opVars
<1>5. LockExclusive'
  BY DEF IInv, TypeOK, LockExclusive, Upgradable, Insert, opVars
<1>6. Counted' /\ CountIsHandles'
  BY CountsFrame DEF IInv, TypeOK, Insert, opVars
<1>7. DroppedExactlyOnce'
  BY DroppedFrame DEF IInv, TypeOK, Pushing, Insert, opVars
<1>8. PinnedByMain'
  BY <1>a DEF IInv, TypeOK, PinnedByMain, Insert
<1>9. ValuesWhole'
  BY <1>a DEF IInv, TypeOK, PinnedByMain, ValuesWhole, Leased, Insert
<1> QED BY <1>1, <1>2, <1>3, <1>4, <1>5, <1>6, <1>7, <1>8, <1>9 DEF IInv

LEMMA LeaseKeeps ==
  ASSUME IInv, NEW h \in Handle, Lease(h)
  PROVE  IInv'
<1>0. Distinct
  BY DistinctValues
<1>a. target[h] \in EntityId /\ counts[target[h]] # Absent
  BY <1>0, LiveCounter DEF Distinct, IInv, TypeOK, HandlesWhole, Lease, Owns, Absent
<1>1. TypeOK'
  BY <1>0 DEF Distinct, IInv, TypeOK, Lease, opVars
<1>2. HandlesWhole'
  BY <1>0 DEF Distinct, IInv, TypeOK, HandlesWhole, Lease, opVars
<1>3. OpsWhole'
  BY <1>0 DEF Distinct, IInv, TypeOK, OpsWhole, Lease, Owns, opVars
<1>4. FreshUnique'
  BY DEF IInv, TypeOK, FreshUnique, Lease, opVars
<1>5. LockExclusive'
  BY DEF IInv, TypeOK, LockExclusive, Upgradable, Lease, opVars
<1>6. Counted' /\ CountIsHandles'
  BY CountsFrame DEF IInv, TypeOK, Lease, opVars
<1>7. DroppedExactlyOnce'
  BY DroppedFrame DEF IInv, TypeOK, Pushing, Lease, opVars
<1>8. PinnedByMain'
  BY <1>a DEF IInv, TypeOK, PinnedByMain, ValuesWhole, Lease, Owns
<1>9. ValuesWhole'
  BY <1>a DEF IInv, TypeOK, PinnedByMain, ValuesWhole, Leased, Lease, Owns
<1> QED BY <1>1, <1>2, <1>3, <1>4, <1>5, <1>6, <1>7, <1>8, <1>9 DEF IInv

LEMMA EndLeaseKeeps ==
  ASSUME IInv, NEW h \in Handle, EndLease(h)
  PROVE  IInv'
<1>0. Distinct
  BY DistinctValues
<1>a. target[h] \in EntityId
  BY DEF IInv, PinnedByMain, EndLease
<1>1. TypeOK'
  BY <1>a DEF IInv, TypeOK, EndLease, opVars
<1>2. HandlesWhole'
  BY <1>0 DEF Distinct, IInv, TypeOK, HandlesWhole, EndLease, opVars
<1>3. OpsWhole'
  BY DEF IInv, TypeOK, OpsWhole, EndLease, opVars
<1>4. FreshUnique'
  BY DEF IInv, TypeOK, FreshUnique, EndLease, opVars
<1>5. LockExclusive'
  BY DEF IInv, TypeOK, LockExclusive, Upgradable, EndLease, opVars
<1>6. Counted' /\ CountIsHandles'
  BY CountsFrame DEF IInv, TypeOK, EndLease, opVars
<1>7. DroppedExactlyOnce'
  BY DroppedFrame DEF IInv, TypeOK, Pushing, EndLease, opVars
<1>8. PinnedByMain'
  BY <1>0 DEF Distinct, IInv, TypeOK, HandlesWhole, PinnedByMain, EndLease, opVars
<1>9. ValuesWhole'
  BY <1>a DEF IInv, TypeOK, PinnedByMain, ValuesWhole, Leased, EndLease
<1> QED BY <1>1, <1>2, <1>3, <1>4, <1>5, <1>6, <1>7, <1>8, <1>9 DEF IInv

LEMMA MoveIntoKeeps ==
  ASSUME IInv, NEW h \in Handle, NEW e \in EntityId, MoveInto(h, e)
  PROVE  IInv'
<1>0. Distinct
  BY DistinctValues
<1>1. TypeOK'
  BY <1>0 DEF Distinct, IInv, TypeOK, MoveInto, mapVars, opVars, Owns
<1>2. HandlesWhole'
  BY <1>0 DEF Distinct, IInv, TypeOK, HandlesWhole, MoveInto, mapVars, opVars, Owns
<1>3. OpsWhole'
  BY <1>0 DEF Distinct, IInv, TypeOK, HandlesWhole, OpsWhole, MoveInto, mapVars, opVars, Owns
<1>4. FreshUnique'
  BY DEF IInv, TypeOK, FreshUnique, MoveInto, mapVars, opVars, Owns
<1>5. LockExclusive'
  BY DEF IInv, TypeOK, LockExclusive, Upgradable, MoveInto, mapVars, opVars, Owns
<1>6. Counted' /\ CountIsHandles'
  BY CountsFrame DEF IInv, TypeOK, MoveInto, mapVars, opVars, Owns
<1>7. DroppedExactlyOnce'
  BY DroppedFrame DEF IInv, TypeOK, Pushing, MoveInto, mapVars, opVars, Owns
<1>8. PinnedByMain'
  BY <1>0 DEF Distinct, IInv, TypeOK, HandlesWhole, PinnedByMain, MoveInto, mapVars, opVars, Owns
<1>9. ValuesWhole'
  BY <1>0 DEF Distinct, IInv, TypeOK, PinnedByMain, ValuesWhole, Leased, MoveInto, mapVars, opVars, Owns
<1> QED BY <1>1, <1>2, <1>3, <1>4, <1>5, <1>6, <1>7, <1>8, <1>9 DEF IInv

LEMMA MoveOutKeeps ==
  ASSUME IInv, NEW h \in Handle, NEW e \in EntityId, MoveOut(h, e)
  PROVE  IInv'
<1>0. Distinct
  BY DistinctValues
<1>1. TypeOK'
  BY <1>0 DEF Distinct, IInv, TypeOK, MoveOut, mapVars, opVars, Owns
<1>2. HandlesWhole'
  BY <1>0 DEF Distinct, IInv, TypeOK, HandlesWhole, MoveOut, mapVars, opVars, Owns
<1>3. OpsWhole'
  BY <1>0 DEF Distinct, IInv, TypeOK, HandlesWhole, OpsWhole, MoveOut, mapVars, opVars, Owns
<1>4. FreshUnique'
  BY DEF IInv, TypeOK, FreshUnique, MoveOut, mapVars, opVars, Owns
<1>5. LockExclusive'
  BY DEF IInv, TypeOK, LockExclusive, Upgradable, MoveOut, mapVars, opVars, Owns
<1>6. Counted' /\ CountIsHandles'
  BY CountsFrame DEF IInv, TypeOK, MoveOut, mapVars, opVars, Owns
<1>7. DroppedExactlyOnce'
  BY DroppedFrame DEF IInv, TypeOK, Pushing, MoveOut, mapVars, opVars, Owns
<1>8. PinnedByMain'
  BY <1>0 DEF Distinct, IInv, TypeOK, HandlesWhole, PinnedByMain, MoveOut, mapVars, opVars, Owns
<1>9. ValuesWhole'
  BY <1>0 DEF Distinct, IInv, TypeOK, PinnedByMain, ValuesWhole, Leased, MoveOut, mapVars, opVars, Owns
<1> QED BY <1>1, <1>2, <1>3, <1>4, <1>5, <1>6, <1>7, <1>8, <1>9 DEF IInv

LEMMA SendKeeps ==
  ASSUME IInv, NEW t \in Thread, NEW u \in Thread, NEW h \in Handle, Send(t, u, h)
  PROVE  IInv'
<1>0. Distinct
  BY DistinctValues
<1>1. TypeOK'
  BY <1>0 DEF Distinct, IInv, TypeOK, Send, mapVars, opVars, Owns
<1>2. HandlesWhole'
  BY <1>0 DEF Distinct, IInv, TypeOK, HandlesWhole, Send, mapVars, opVars, Owns
<1>3. OpsWhole'
  BY <1>0 DEF Distinct, IInv, TypeOK, HandlesWhole, OpsWhole, Send, mapVars, opVars, Owns
<1>4. FreshUnique'
  BY DEF IInv, TypeOK, FreshUnique, Send, mapVars, opVars, Owns
<1>5. LockExclusive'
  BY DEF IInv, TypeOK, LockExclusive, Upgradable, Send, mapVars, opVars, Owns
<1>6. Counted' /\ CountIsHandles'
  BY CountsFrame DEF IInv, TypeOK, Send, mapVars, opVars, Owns
<1>7. DroppedExactlyOnce'
  BY DroppedFrame DEF IInv, TypeOK, Pushing, Send, mapVars, opVars, Owns
<1>8. PinnedByMain'
  BY <1>0 DEF Distinct, IInv, TypeOK, HandlesWhole, PinnedByMain, Send, mapVars, opVars, Owns
<1>9. ValuesWhole'
  BY <1>0 DEF Distinct, IInv, TypeOK, PinnedByMain, ValuesWhole, Leased, Send, mapVars, opVars, Owns
<1> QED BY <1>1, <1>2, <1>3, <1>4, <1>5, <1>6, <1>7, <1>8, <1>9 DEF IInv

LEMMA BeginCloneKeeps ==
  ASSUME IInv, NEW t \in Thread, NEW h \in Handle, NEW n \in Handle, BeginClone(t, h, n)
  PROVE  IInv'
<1>0. Distinct
  BY DistinctValues
<1>a. target[n] = None /\ holder[n] = None /\ \A x \in Thread : fresh[x] # n
  BY DEF IInv, HandlesWhole, BeginClone, InUse
<1>1. TypeOK'
  BY <1>0 DEF Distinct, IInv, TypeOK, BeginClone, mapVars, handleVars, Label
<1>2. HandlesWhole'
  BY <1>0 DEF Distinct, IInv, TypeOK, HandlesWhole, BeginClone, mapVars, handleVars
<1>3. OpsWhole'
  BY <1>0, <1>a DEF Distinct, IInv, TypeOK, HandlesWhole, OpsWhole, BeginClone, Owns, mapVars, handleVars
<1>4. FreshUnique'
  BY <1>0, <1>a DEF Distinct, IInv, TypeOK, FreshUnique, BeginClone
<1>5. LockExclusive'
  BY DEF IInv, TypeOK, LockExclusive, Upgradable, BeginClone, mapVars, handleVars
<1>6. Counted' /\ CountIsHandles'
  BY CountsFrame DEF IInv, TypeOK, BeginClone, mapVars, handleVars
<1>7. DroppedExactlyOnce'
  BY DroppedFrame DEF IInv, TypeOK, Pushing, BeginClone, mapVars, handleVars
<1>8. PinnedByMain'
  BY <1>0 DEF Distinct, IInv, TypeOK, HandlesWhole, PinnedByMain, BeginClone, mapVars, handleVars
<1>9. ValuesWhole'
  BY <1>0 DEF Distinct, IInv, TypeOK, PinnedByMain, ValuesWhole, Leased, BeginClone, mapVars, handleVars
<1> QED BY <1>1, <1>2, <1>3, <1>4, <1>5, <1>6, <1>7, <1>8, <1>9 DEF IInv

LEMMA BeginDropKeeps ==
  ASSUME IInv, NEW t \in Thread, NEW h \in Handle, BeginDrop(t, h)
  PROVE  IInv'
<1>0. Distinct
  BY DistinctValues
<1>1. TypeOK'
  BY <1>0 DEF Distinct, IInv, TypeOK, BeginDrop, mapVars, handleVars, Owns, Label
<1>2. HandlesWhole'
  BY <1>0 DEF Distinct, IInv, TypeOK, HandlesWhole, BeginDrop, mapVars, handleVars, Owns
<1>3. OpsWhole'
  BY <1>0 DEF Distinct, IInv, TypeOK, HandlesWhole, OpsWhole, BeginDrop, mapVars, handleVars, Owns
<1>4. FreshUnique'
  BY DEF IInv, TypeOK, FreshUnique, BeginDrop, mapVars, handleVars, Owns
<1>5. LockExclusive'
  BY <1>0 DEF Distinct, IInv, TypeOK, LockExclusive, CanReadUpgradably, Upgradable, BeginDrop
<1>6. Counted' /\ CountIsHandles'
  BY CountsFrame DEF IInv, TypeOK, BeginDrop, mapVars, handleVars, Owns
<1>7. DroppedExactlyOnce'
  BY DroppedFrame DEF IInv, TypeOK, Pushing, BeginDrop, mapVars, handleVars, Owns
<1>8. PinnedByMain'
  BY <1>0 DEF Distinct, IInv, TypeOK, HandlesWhole, PinnedByMain, BeginDrop, mapVars, handleVars, Owns
<1>9. ValuesWhole'
  BY <1>0 DEF Distinct, IInv, TypeOK, PinnedByMain, ValuesWhole, Leased, BeginDrop, mapVars, handleVars, Owns
<1> QED BY <1>1, <1>2, <1>3, <1>4, <1>5, <1>6, <1>7, <1>8, <1>9 DEF IInv

LEMMA BeginUpgradeKeeps ==
  ASSUME IInv, NEW t \in Thread, NEW e \in EntityId, NEW n \in Handle, BeginUpgrade(t, e, n)
  PROVE  IInv'
<1>0. Distinct
  BY DistinctValues
<1>a. target[n] = None /\ holder[n] = None /\ \A x \in Thread : fresh[x] # n
  BY DEF IInv, HandlesWhole, BeginUpgrade, InUse
<1>1. TypeOK'
  BY <1>0 DEF Distinct, IInv, TypeOK, BeginUpgrade, mapVars, handleVars, Label
<1>2. HandlesWhole'
  BY <1>0 DEF Distinct, IInv, TypeOK, HandlesWhole, BeginUpgrade, mapVars, handleVars
<1>3. OpsWhole'
  BY <1>0, <1>a DEF Distinct, IInv, TypeOK, OpsWhole, BeginUpgrade, mapVars, handleVars
<1>4. FreshUnique'
  BY <1>0, <1>a DEF Distinct, IInv, TypeOK, FreshUnique, BeginUpgrade
<1>5. LockExclusive'
  BY DEF IInv, TypeOK, LockExclusive, Upgradable, BeginUpgrade, mapVars, handleVars
<1>6. Counted' /\ CountIsHandles'
  BY CountsFrame DEF IInv, TypeOK, BeginUpgrade, mapVars, handleVars
<1>7. DroppedExactlyOnce'
  BY DroppedFrame DEF IInv, TypeOK, Pushing, BeginUpgrade, mapVars, handleVars
<1>8. PinnedByMain'
  BY <1>0 DEF Distinct, IInv, TypeOK, HandlesWhole, PinnedByMain, BeginUpgrade, mapVars, handleVars
<1>9. ValuesWhole'
  BY <1>0 DEF Distinct, IInv, TypeOK, PinnedByMain, ValuesWhole, Leased, BeginUpgrade, mapVars, handleVars
<1> QED BY <1>1, <1>2, <1>3, <1>4, <1>5, <1>6, <1>7, <1>8, <1>9 DEF IInv

LEMMA CloneIncrementKeeps ==
  ASSUME IInv, NEW t \in Thread, CloneIncrement(t)
  PROVE  IInv'
<1>0. Distinct
  BY DistinctValues
<1>a. /\ arg[t] \in Handle /\ target[arg[t]] \in EntityId
      /\ counts[target[arg[t]]] \in Nat \ {0}
  BY LiveCounter DEF IInv, OpsWhole, CloneIncrement
<1>b. fresh[t] \in Handle /\ target[fresh[t]] = None /\ holder[fresh[t]] = None
  BY DEF IInv, OpsWhole, HandlesWhole, CloneIncrement
<1>1. TypeOK'
  BY <1>0, <1>a, <1>b DEF Distinct, IInv, TypeOK, CloneIncrement, GiveHandle, Finish, Label
<1>2. HandlesWhole'
  BY <1>0, <1>a, <1>b DEF Distinct, IInv, TypeOK, HandlesWhole, CloneIncrement, GiveHandle
<1>3. OpsWhole'
  BY <1>0, <1>a, <1>b DEF Distinct, IInv, TypeOK, OpsWhole, FreshUnique, CloneIncrement, GiveHandle, Finish, Absent
<1>4. FreshUnique'
  BY DEF IInv, TypeOK, FreshUnique, CloneIncrement, GiveHandle, Finish
<1>5. LockExclusive'
  BY DEF IInv, TypeOK, LockExclusive, Upgradable, CloneIncrement, GiveHandle, Finish
<1>6. Counted' /\ CountIsHandles'
  <2>1. /\ target' = [target EXCEPT ![fresh[t]] = target[arg[t]]]
        /\ counts' = [counts EXCEPT ![target[arg[t]]] = counts[target[arg[t]]] + 1]
        /\ stage' = stage
    BY DEF CloneIncrement, GiveHandle
  <2>2. counts[target[arg[t]]] # Absent
    BY <1>a DEF Absent
  <2>3. stage[target[arg[t]]] # "unused"
    BY <1>a, <2>2 DEF IInv, Counted
  <2> QED BY <1>a, <1>b, <2>1, <2>2, <2>3, GiveKeepsCounts DEF IInv
<1>7. DroppedExactlyOnce'
  BY <1>a, DroppedFrame DEF IInv, TypeOK, Pushing, CloneIncrement, Finish
<1>8. PinnedByMain'
  BY <1>0, <1>a, <1>b DEF Distinct, IInv, TypeOK, PinnedByMain, CloneIncrement, GiveHandle
<1>9. ValuesWhole'
  BY <1>0, <1>a, <1>b DEF Distinct, IInv, TypeOK, PinnedByMain, ValuesWhole, Leased, CloneIncrement, GiveHandle, Absent
<1> QED BY <1>1, <1>2, <1>3, <1>4, <1>5, <1>6, <1>7, <1>8, <1>9 DEF IInv

LEMMA UpgradeExchangeKeeps ==
  ASSUME IInv, NEW t \in Thread, UpgradeExchange(t)
  PROVE  IInv'
<1>0. Distinct
  BY DistinctValues
<1>a. /\ subject[t] \in EntityId
      /\ counts[subject[t]] \in Nat \ {0}
  BY DEF IInv, TypeOK, OpsWhole, UpgradeExchange, Absent
<1>b. fresh[t] \in Handle /\ target[fresh[t]] = None /\ holder[fresh[t]] = None
  BY DEF IInv, OpsWhole, HandlesWhole, UpgradeExchange
<1>1. TypeOK'
  BY <1>0, <1>a, <1>b DEF Distinct, IInv, TypeOK, UpgradeExchange, GiveHandle, Finish, Label
<1>2. HandlesWhole'
  BY <1>0, <1>a, <1>b DEF Distinct, IInv, TypeOK, HandlesWhole, UpgradeExchange, GiveHandle
<1>3. OpsWhole'
  BY <1>0, <1>a, <1>b DEF Distinct, IInv, TypeOK, OpsWhole, FreshUnique, UpgradeExchange, GiveHandle, Finish, Absent
<1>4. FreshUnique'
  BY DEF IInv, TypeOK, FreshUnique, UpgradeExchange, GiveHandle, Finish
<1>5. LockExclusive'
  BY DEF IInv, TypeOK, LockExclusive, Upgradable, UpgradeExchange, GiveHandle, Finish
<1>6. Counted' /\ CountIsHandles'
  <2>1. /\ target' = [target EXCEPT ![fresh[t]] = subject[t]]
        /\ counts' = [counts EXCEPT ![subject[t]] = counts[subject[t]] + 1]
        /\ stage' = stage
    BY DEF UpgradeExchange, GiveHandle
  <2>2. counts[subject[t]] # Absent
    BY <1>a DEF Absent
  <2>3. stage[subject[t]] # "unused"
    BY <1>a, <2>2 DEF IInv, Counted
  <2> QED BY <1>a, <1>b, <2>1, <2>2, <2>3, GiveKeepsCounts DEF IInv
<1>7. DroppedExactlyOnce'
  BY <1>a, DroppedFrame DEF IInv, TypeOK, Pushing, UpgradeExchange, Finish
<1>8. PinnedByMain'
  BY <1>0, <1>a, <1>b DEF Distinct, IInv, TypeOK, PinnedByMain, UpgradeExchange, GiveHandle
<1>9. ValuesWhole'
  BY <1>0, <1>a, <1>b DEF Distinct, IInv, TypeOK, PinnedByMain, ValuesWhole, Leased, UpgradeExchange, GiveHandle, Absent
<1> QED BY <1>1, <1>2, <1>3, <1>4, <1>5, <1>6, <1>7, <1>8, <1>9 DEF IInv

LEMMA DropDecrementKeeps ==
  ASSUME IInv, NEW t \in Thread, DropDecrement(t)
  PROVE  IInv'
<1>0. Distinct
  BY DistinctValues
<1>a. /\ arg[t] \in Handle /\ target[arg[t]] \in EntityId
      /\ counts[target[arg[t]]] \in Nat \ {0}
  BY LiveCounter DEF IInv, OpsWhole, DropDecrement
<1>1. TypeOK'
  <2>1. TypeOK
    BY DEF IInv
  <2>2. counts' \in [EntityId -> Nat \cup {Absent}]
    BY <1>a, <2>1 DEF TypeOK, DropDecrement
  <2>3. /\ target' \in [Handle -> EntityId \cup {None}]
        /\ holder' \in [Handle -> Holder \cup {None}]
    BY <1>a, <2>1 DEF TypeOK, DropDecrement, GiveHandle
  <2>4. /\ pc' \in [Thread -> Label]
        /\ arg' \in [Thread -> Handle \cup {None}]
        /\ subject' \in [Thread -> EntityId \cup {None}]
        /\ fresh' \in [Thread -> Handle \cup {None}]
        /\ seen' \in [Thread -> Nat]
    <3>1. CASE counts[target[arg[t]]] = 1
      BY <1>a, <2>1, <3>1 DEF TypeOK, DropDecrement, Label
    <3>2. CASE counts[target[arg[t]]] # 1
      <4>1. Finish(t)
        BY <3>2 DEF DropDecrement
      <4> QED BY <2>1, <4>1 DEF TypeOK, Finish, Label
    <3> QED BY <3>1, <3>2
  <2> QED BY <2>1, <2>2, <2>3, <2>4 DEF TypeOK, DropDecrement
<1>2. HandlesWhole'
  BY <1>0, <1>a DEF Distinct, IInv, TypeOK, HandlesWhole, DropDecrement, GiveHandle
<1>3. OpsWhole'
  <2>1. CASE counts[target[arg[t]]] = 1
    BY <1>0, <1>a, <2>1 DEF Distinct, IInv, TypeOK, OpsWhole, DropDecrement, GiveHandle, Absent
  <2>2. CASE counts[target[arg[t]]] # 1
    <3>1. Finish(t)
      BY <2>2 DEF DropDecrement
    <3>2. \A e \in EntityId : counts[e] # Absent => counts'[e] # Absent
      BY <1>a DEF IInv, TypeOK, DropDecrement, Absent
    <3>3. pinned' = pinned /\ GiveHandle(arg[t], None, None)
      BY DEF DropDecrement
    <3>4. pc'[t] = "idle" /\ fresh'[t] = None
      BY <3>1 DEF IInv, TypeOK, Finish
    <3>5. \A u \in Thread \ {t} : /\ pc'[u] = pc[u] /\ arg'[u] = arg[u]
                                  /\ subject'[u] = subject[u]
                                  /\ fresh'[u] = fresh[u] /\ seen'[u] = seen[u]
      BY <3>1 DEF IInv, TypeOK, Finish
    <3>6. holder[arg[t]] = t
      BY DEF IInv, OpsWhole, DropDecrement
    <3> QED BY <1>0, <1>a, <3>2, <3>3, <3>4, <3>5, <3>6 DEF Distinct, IInv, TypeOK, OpsWhole, GiveHandle
  <2> QED BY <2>1, <2>2
<1>4. FreshUnique'
  <2>1. fresh' = fresh \/ fresh' = [fresh EXCEPT ![t] = None]
    BY DEF DropDecrement, Finish
  <2> QED BY <2>1 DEF IInv, TypeOK, FreshUnique
<1>5. LockExclusive'
  <2>1. pc' = [pc EXCEPT ![t] = "push"] \/ pc' = [pc EXCEPT ![t] = "idle"]
    BY DEF DropDecrement, Finish
  <2>2. pc[t] = "drop"
    BY DEF DropDecrement
  <2>3. \A u \in Thread : Upgradable(u)' => Upgradable(u)
    BY <2>1, <2>2 DEF IInv, TypeOK, Upgradable
  <2>4. pc'[Main] = "take" => pc[Main] = "take"
    BY <1>0, <2>1, <2>2 DEF Distinct, IInv, TypeOK
  <2> QED BY <2>3, <2>4 DEF IInv, LockExclusive
<1>6. Counted' /\ CountIsHandles'
  BY <1>a, TakeKeepsCounts DEF IInv, Counted, DropDecrement, GiveHandle
<1>7. DroppedExactlyOnce'
  <2>1. CASE counts[target[arg[t]]] = 1
    BY <1>a, <2>1, LastDropped DEF IInv, DropDecrement, LockExclusive, Upgradable
  <2>2. CASE counts[target[arg[t]]] # 1
    BY <1>a, <2>2, DroppedFrame DEF IInv, TypeOK, Pushing, DropDecrement, Finish
  <2> QED BY <2>1, <2>2
<1>8. PinnedByMain'
  BY <1>0, <1>a DEF Distinct, IInv, TypeOK, OpsWhole, PinnedByMain, DropDecrement, GiveHandle
<1>9. ValuesWhole'
  BY <1>0, <1>a DEF Distinct, IInv, TypeOK, OpsWhole, PinnedByMain, ValuesWhole, Leased, DropDecrement, GiveHandle, Absent
<1> QED BY <1>1, <1>2, <1>3, <1>4, <1>5, <1>6, <1>7, <1>8, <1>9 DEF IInv

LEMMA DropPushKeeps ==
  ASSUME IInv, NEW t \in Thread, DropPush(t)
  PROVE  IInv'
<1>0. Distinct
  BY DistinctValues
<1>a. subject[t] \in EntityId
  BY DEF IInv, OpsWhole, DropPush
<1>1. TypeOK'
  BY <1>0, <1>a DEF Distinct, IInv, TypeOK, DropPush, handleVars, Finish, Label
<1>2. HandlesWhole'
  BY <1>0 DEF Distinct, IInv, TypeOK, HandlesWhole, DropPush, handleVars, Finish
<1>3. OpsWhole'
  BY <1>0 DEF Distinct, IInv, TypeOK, OpsWhole, DropPush, handleVars, Finish
<1>4. FreshUnique'
  BY DEF IInv, TypeOK, FreshUnique, DropPush, handleVars, Finish
<1>5. LockExclusive'
  BY DEF IInv, TypeOK, LockExclusive, Upgradable, DropPush, handleVars, Finish
<1>6. Counted' /\ CountIsHandles'
  BY CountsFrame DEF IInv, TypeOK, DropPush, handleVars, Finish
<1>7. DroppedExactlyOnce'
  <2>1. DEFINE e == subject[t]
  <2>2. Pushing(t, e) /\ e \in EntityId /\ droppedIds \in Seq(EntityId)
    BY DEF IInv, TypeOK, OpsWhole, Pushing, DropPush
  <2>3. counts[e] = 0 /\ e \notin Drained
    BY <2>2 DEF IInv, DroppedExactlyOnce
  <2>4. Drained' = Drained \cup {e}
    BY <2>2 DEF DropPush, Drained
  <2>5. \A i, j \in DOMAIN droppedIds' : droppedIds'[i] = droppedIds'[j] => i = j
    BY <2>2, <2>3 DEF IInv, DroppedExactlyOnce, DropPush, Drained
  <2>6. \A u \in Thread, x \in EntityId : Pushing(u, x)' <=> Pushing(u, x) /\ u # t
    BY <1>0 DEF Distinct, IInv, TypeOK, Pushing, DropPush, Finish
  <2>7. \A x \in EntityId : Pushing(t, x) <=> x = e
    BY <2>2 DEF Pushing
  <2>8. counts' = counts
    BY DEF DropPush
  <2> HIDE DEF e
  <2> QED BY <2>2, <2>3, <2>4, <2>5, <2>6, <2>7, <2>8 DEF IInv, DroppedExactlyOnce
<1>8. PinnedByMain'
  BY <1>0 DEF Distinct, IInv, TypeOK, HandlesWhole, PinnedByMain, DropPush, handleVars, Finish
<1>9. ValuesWhole'
  BY <1>0 DEF Distinct, IInv, TypeOK, PinnedByMain, ValuesWhole, Leased, DropPush, handleVars, Finish
<1> QED BY <1>1, <1>2, <1>3, <1>4, <1>5, <1>6, <1>7, <1>8, <1>9 DEF IInv

\* The loop gives up: the operation of t is over and nothing was touched.
LEMMA GivingUpKeeps ==
  ASSUME IInv, NEW t \in Thread, pc[t] \in {"load", "cas"},
         Finish(t), UNCHANGED <<mapVars, handleVars>>
  PROVE  IInv'
<1>0. Distinct
  BY DistinctValues
<1> USE DEF Finish, mapVars, handleVars
<1>1. TypeOK'
  <2>1. pc' \in [Thread -> Label] /\ seen' \in [Thread -> Nat]
    BY DEF IInv, TypeOK, Label
  <2>2. /\ arg' \in [Thread -> Handle \cup {None}]
        /\ subject' \in [Thread -> EntityId \cup {None}]
        /\ fresh' \in [Thread -> Handle \cup {None}]
    BY DEF IInv, TypeOK
  <2> QED BY <2>1, <2>2 DEF IInv, TypeOK
<1>2. HandlesWhole'
  BY DEF IInv, HandlesWhole
<1>3. OpsWhole'
  BY <1>0 DEF Distinct, IInv, TypeOK, OpsWhole
<1>4. FreshUnique'
  BY DEF IInv, TypeOK, FreshUnique
<1>5. LockExclusive'
  BY <1>0 DEF Distinct, IInv, TypeOK, LockExclusive, Upgradable
<1>6. Counted' /\ CountIsHandles'
  BY CountsFrame DEF IInv
<1>7. DroppedExactlyOnce'
  BY DroppedFrame DEF IInv, TypeOK, Pushing
<1>8. PinnedByMain'
  BY <1>0 DEF Distinct, IInv, TypeOK, HandlesWhole, PinnedByMain
<1>9. ValuesWhole'
  BY <1>0 DEF Distinct, IInv, TypeOK, PinnedByMain, ValuesWhole, Leased
<1> QED BY <1>1, <1>2, <1>3, <1>4, <1>5, <1>6, <1>7, <1>8, <1>9 DEF IInv

\* The loop goes on to its exchange with the counter it just read.
LEMMA TryingKeeps ==
  ASSUME IInv, NEW t \in Thread, pc[t] \in {"load", "cas"},
         counts[subject[t]] # 0,
         pc' = [pc EXCEPT ![t] = "cas"],
         seen' = [seen EXCEPT ![t] = counts[subject[t]]],
         UNCHANGED <<arg, subject, fresh>>, UNCHANGED <<mapVars, handleVars>>
  PROVE  IInv'
<1>0. Distinct
  BY DistinctValues
<1>a. subject[t] \in EntityId /\ counts[subject[t]] \in Nat
  BY DEF IInv, TypeOK, OpsWhole, Absent
<1> USE DEF mapVars, handleVars
<1>1. TypeOK'
  <2>1. pc' \in [Thread -> Label] /\ seen' \in [Thread -> Nat]
    BY <1>a DEF IInv, TypeOK, Label
  <2> QED BY <2>1 DEF IInv, TypeOK
<1>2. HandlesWhole'
  BY DEF IInv, HandlesWhole
<1>3. OpsWhole'
  BY <1>0, <1>a DEF Distinct, IInv, TypeOK, OpsWhole
<1>4. FreshUnique'
  BY DEF IInv, FreshUnique
<1>5. LockExclusive'
  BY <1>0 DEF Distinct, IInv, TypeOK, LockExclusive, Upgradable
<1>6. Counted' /\ CountIsHandles'
  BY CountsFrame DEF IInv
<1>7. DroppedExactlyOnce'
  BY DroppedFrame DEF IInv, TypeOK, Pushing
<1>8. PinnedByMain'
  BY <1>0 DEF Distinct, IInv, TypeOK, HandlesWhole, PinnedByMain
<1>9. ValuesWhole'
  BY <1>0 DEF Distinct, IInv, TypeOK, PinnedByMain, ValuesWhole, Leased
<1> QED BY <1>1, <1>2, <1>3, <1>4, <1>5, <1>6, <1>7, <1>8, <1>9 DEF IInv

LEMMA UpgradeLoadKeeps ==
  ASSUME IInv, NEW t \in Thread, UpgradeLoad(t)
  PROVE  IInv'
<1>1. pc[t] \in {"load", "cas"} /\ UNCHANGED <<mapVars, handleVars>>
  BY DEF UpgradeLoad
<1>2. CASE counts[subject[t]] = 0
  <2>1. Finish(t)
    BY <1>2 DEF UpgradeLoad, TryWith
  <2> QED BY <1>1, <2>1, GivingUpKeeps
<1>3. CASE counts[subject[t]] # 0
  <2>1. /\ pc' = [pc EXCEPT ![t] = "cas"]
        /\ seen' = [seen EXCEPT ![t] = counts[subject[t]]]
        /\ UNCHANGED <<arg, subject, fresh>>
    BY <1>3 DEF UpgradeLoad, TryWith
  <2> QED BY <1>1, <1>3, <2>1, TryingKeeps
<1> QED BY <1>2, <1>3

LEMMA UpgradeRetryKeeps ==
  ASSUME IInv, NEW t \in Thread, UpgradeRetry(t)
  PROVE  IInv'
<1>1. pc[t] \in {"load", "cas"} /\ UNCHANGED <<mapVars, handleVars>>
  BY DEF UpgradeRetry
<1>2. CASE counts[subject[t]] = 0
  <2>1. Finish(t)
    BY <1>2 DEF UpgradeRetry, TryWith
  <2> QED BY <1>1, <2>1, GivingUpKeeps
<1>3. CASE counts[subject[t]] # 0
  <2>1. /\ pc' = [pc EXCEPT ![t] = "cas"]
        /\ seen' = [seen EXCEPT ![t] = counts[subject[t]]]
        /\ UNCHANGED <<arg, subject, fresh>>
    BY <1>3 DEF UpgradeRetry, TryWith
  <2> QED BY <1>1, <1>3, <2>1, TryingKeeps
<1> QED BY <1>2, <1>3

LEMMA BeginUpdateKeeps ==
  ASSUME IInv, BeginUpdate
  PROVE  IInv'
<1> USE DEF BeginUpdate, handleVars, opVars
<1>1. TypeOK' /\ HandlesWhole' /\ OpsWhole' /\ FreshUnique' /\ LockExclusive'
  BY DEF IInv, TypeOK, Phase, HandlesWhole, OpsWhole, FreshUnique, LockExclusive, Upgradable
<1>2. Counted' /\ CountIsHandles'
  BY CountsFrame DEF IInv
<1>3. DroppedExactlyOnce'
  BY DroppedFrame DEF IInv, Pushing
<1>4. PinnedByMain' /\ ValuesWhole'
  BY DEF IInv, PinnedByMain, ValuesWhole, Leased
<1> QED BY <1>1, <1>2, <1>3, <1>4 DEF IInv

LEMMA BeginTakeKeeps ==
  ASSUME IInv, BeginTake
  PROVE  IInv'
<1>0. Distinct
  BY DistinctValues
<1>1. TypeOK'
  BY <1>0 DEF Distinct, IInv, TypeOK, BeginTake, handleVars, Phase, Label
<1>2. HandlesWhole'
  BY <1>0 DEF Distinct, IInv, TypeOK, HandlesWhole, BeginTake, handleVars
<1>3. OpsWhole'
  BY <1>0 DEF Distinct, IInv, TypeOK, HandlesWhole, OpsWhole, BeginTake, handleVars
<1>4. FreshUnique'
  BY DEF IInv, TypeOK, FreshUnique, BeginTake, handleVars
<1>5. LockExclusive'
  BY DEF IInv, TypeOK, LockExclusive, Upgradable, BeginTake, handleVars
<1>6. Counted' /\ CountIsHandles'
  BY CountsFrame DEF IInv, TypeOK, BeginTake, handleVars
<1>7. DroppedExactlyOnce'
  BY DroppedFrame DEF IInv, TypeOK, Pushing, BeginTake, handleVars
<1>8. PinnedByMain'
  BY <1>0 DEF Distinct, IInv, TypeOK, HandlesWhole, PinnedByMain, BeginTake, handleVars
<1>9. ValuesWhole'
  BY <1>0 DEF Distinct, IInv, TypeOK, PinnedByMain, ValuesWhole, Leased, BeginTake, handleVars
<1> QED BY <1>1, <1>2, <1>3, <1>4, <1>5, <1>6, <1>7, <1>8, <1>9 DEF IInv

LEMMA LockOutOthersKeeps ==
  ASSUME IInv, LockOutOthers
  PROVE  IInv'
<1>0. Distinct
  BY DistinctValues
<1>1. TypeOK'
  BY <1>0 DEF Distinct, IInv, TypeOK, LockOutOthers, mapVars, handleVars, CanReadUpgradably, Label
<1>2. HandlesWhole'
  BY <1>0 DEF Distinct, IInv, TypeOK, HandlesWhole, LockOutOthers, mapVars, handleVars, CanReadUpgradably
<1>3. OpsWhole'
  BY <1>0 DEF Distinct, IInv, TypeOK, HandlesWhole, OpsWhole, LockOutOthers, mapVars, handleVars, CanReadUpgradably
<1>4. FreshUnique'
  BY DEF IInv, TypeOK, FreshUnique, LockOutOthers, mapVars, handleVars, CanReadUpgradably
<1>5. LockExclusive'
  BY DEF IInv, TypeOK, LockExclusive, Upgradable, LockOutOthers, mapVars, handleVars, CanReadUpgradably
<1>6. Counted' /\ CountIsHandles'
  BY CountsFrame DEF IInv, TypeOK, LockOutOthers, mapVars, handleVars, CanReadUpgradably
<1>7. DroppedExactlyOnce'
  BY DroppedFrame DEF IInv, TypeOK, Pushing, LockOutOthers, mapVars, handleVars, CanReadUpgradably
<1>8. PinnedByMain'
  BY <1>0 DEF Distinct, IInv, TypeOK, HandlesWhole, PinnedByMain, LockOutOthers, mapVars, handleVars, CanReadUpgradably
<1>9. ValuesWhole'
  BY <1>0 DEF Distinct, IInv, TypeOK, PinnedByMain, ValuesWhole, Leased, LockOutOthers, mapVars, handleVars, CanReadUpgradably
<1> QED BY <1>1, <1>2, <1>3, <1>4, <1>5, <1>6, <1>7, <1>8, <1>9 DEF IInv

LEMMA TakeDroppedKeeps ==
  ASSUME IInv, TakeDropped
  PROVE  IInv'
<1>0. Distinct
  BY DistinctValues
<1>a. \A e \in Drained : e \in EntityId /\ counts[e] = 0 /\ HandlesOf(e) = {}
  BY NoHandleWhenZero DEF IInv, TypeOK, DroppedExactlyOnce, Drained
<1>1. TypeOK'
  BY <1>0 DEF Distinct, IInv, TypeOK, TakeDropped, AfterTake, handleVars, Finish, Phase, Label, Absent
<1>2. HandlesWhole'
  BY <1>0 DEF Distinct, IInv, TypeOK, HandlesWhole, TakeDropped, handleVars, Finish
<1>3. OpsWhole'
  BY <1>0 DEF Distinct, IInv, TypeOK, OpsWhole, TakeDropped, NoReader, Reading, LockExclusive, Upgradable, handleVars, Finish
<1>4. FreshUnique'
  BY DEF IInv, TypeOK, FreshUnique, TakeDropped, handleVars, Finish
<1>5. LockExclusive'
  BY DEF IInv, TypeOK, LockExclusive, Upgradable, TakeDropped, handleVars, Finish
<1>6. Counted' /\ CountIsHandles'
  <2>1. \A x \in EntityId : HandlesOf(x)' = HandlesOf(x)
    BY DEF HandlesOf, TakeDropped, handleVars
  <2>2. \A x \in EntityId : counts'[x] = IF x \in Drained THEN Absent ELSE counts[x]
    BY DEF TakeDropped
  <2>3. stage' = stage
    BY DEF TakeDropped
  <2> QED BY <1>a, <2>1, <2>2, <2>3 DEF IInv, Counted, CountIsHandles
<1>7. DroppedExactlyOnce'
  <2>1. \A x \in EntityId, t \in Thread : ~Pushing(t, x) /\ ~Pushing(t, x)'
    BY <1>0 DEF Distinct, IInv, TypeOK, LockExclusive, Upgradable, Pushing, TakeDropped, Finish
  <2>2. Drained' = {} /\ DOMAIN droppedIds' = {}
    BY DEF TakeDropped, Drained
  <2>3. \A x \in EntityId : counts[x] = 0 <=> x \in Drained
    BY <2>1 DEF IInv, DroppedExactlyOnce
  <2>4. \A x \in EntityId : counts'[x] # 0
    BY <2>3 DEF TakeDropped, Absent
  <2> QED BY <2>1, <2>2, <2>4 DEF DroppedExactlyOnce
<1>8. PinnedByMain'
  BY <1>0 DEF Distinct, IInv, TypeOK, HandlesWhole, PinnedByMain, TakeDropped, handleVars, Finish
<1>9. ValuesWhole'
  BY <1>a DEF IInv, TypeOK, Counted, ValuesWhole, Leased, TakeDropped, handleVars, Absent
<1> QED BY <1>1, <1>2, <1>3, <1>4, <1>5, <1>6, <1>7, <1>8, <1>9 DEF IInv

LEMMA FreeKeeps ==
  ASSUME IInv, NEW e \in EntityId, Free(e)
  PROVE  IInv'
<1>0. Distinct
  BY DistinctValues
<1>1. TypeOK'
  BY <1>0 DEF Distinct, IInv, TypeOK, Free, opVars
<1>2. HandlesWhole'
  BY <1>0 DEF Distinct, IInv, TypeOK, HandlesWhole, Free
<1>3. OpsWhole'
  BY <1>0 DEF Distinct, IInv, TypeOK, OpsWhole, Free, opVars
<1>4. FreshUnique'
  BY DEF IInv, TypeOK, FreshUnique, Free, opVars
<1>5. LockExclusive'
  BY DEF IInv, TypeOK, LockExclusive, Upgradable, Free, opVars
<1>6. Counted' /\ CountIsHandles'
  BY CountsFrame DEF IInv, TypeOK, Free, opVars
<1>7. DroppedExactlyOnce'
  BY DroppedFrame DEF IInv, TypeOK, Pushing, Free, opVars
<1>8. PinnedByMain'
  BY <1>0 DEF Distinct, IInv, TypeOK, PinnedByMain, Free
<1>9. ValuesWhole'
  BY DEF IInv, TypeOK, ValuesWhole, Leased, Free
<1> QED BY <1>1, <1>2, <1>3, <1>4, <1>5, <1>6, <1>7, <1>8, <1>9 DEF IInv

LEMMA StutterKeeps ==
  ASSUME IInv, UNCHANGED vars
  PROVE  IInv'
<1> USE DEF vars, mapVars, handleVars, opVars
<1>1. TypeOK' /\ HandlesWhole' /\ OpsWhole' /\ FreshUnique' /\ LockExclusive'
  BY DEF IInv, TypeOK, HandlesWhole, OpsWhole, FreshUnique, LockExclusive, Upgradable
<1>2. Counted' /\ CountIsHandles'
  BY CountsFrame DEF IInv
<1>3. DroppedExactlyOnce'
  BY DroppedFrame DEF IInv, Pushing
<1>4. PinnedByMain' /\ ValuesWhole'
  BY DEF IInv, PinnedByMain, ValuesWhole, Leased
<1> QED BY <1>1, <1>2, <1>3, <1>4 DEF IInv

LEMMA NextKeeps == IInv /\ [Next]_vars => IInv'
<1> SUFFICES ASSUME IInv, [Next]_vars PROVE IInv'
  OBVIOUS
<1>1. CASE Construct
  BY <1>1, ReserveKeeps, BeginBuildKeeps, InsertKeeps DEF Construct
<1>2. CASE Access
  BY <1>2, LeaseKeeps, EndLeaseKeeps, MoveIntoKeeps, MoveOutKeeps DEF Access
<1>3. ASSUME NEW t \in Thread, Begin(t) PROVE IInv'
  BY <1>3, SendKeeps, BeginCloneKeeps, BeginDropKeeps, BeginUpgradeKeeps DEF Begin
<1>4. ASSUME NEW t \in Thread, Continue(t) PROVE IInv'
  BY <1>4, CloneIncrementKeeps, DropDecrementKeeps, DropPushKeeps, UpgradeLoadKeeps,
     UpgradeExchangeKeeps, UpgradeRetryKeeps DEF Continue
<1>5. CASE BeginUpdate \/ BeginTake \/ LockOutOthers \/ TakeDropped \/ \E e \in EntityId : Free(e)
  BY <1>5, BeginUpdateKeeps, BeginTakeKeeps, LockOutOthersKeeps, TakeDroppedKeeps, FreeKeeps
<1>6. CASE UNCHANGED vars
  BY <1>6, StutterKeeps
<1> QED BY <1>1, <1>2, <1>3, <1>4, <1>5, <1>6 DEF Next

-----------------------------------------------------------------------------
(* What holds of every behaviour *)

\* The invariant the theorems below rest on holds in every reachable state of
\* the entity map (entity_map.rs: reserve, insert, lease, clone, drop, upgrade,
\* take_dropped).
THEOREM Inductive == Spec => []IInv
<1>1. Init => IInv
  BY InitIInv
<1>2. IInv /\ [Next]_vars => IInv'
  BY NextKeeps
<1> QED BY <1>1, <1>2, PTL DEF Spec

\* Every variable keeps its type, the lists of entity_map.rs hold entity ids.
THEOREM TypeCorrect == Spec => []TypeOK
<1>1. IInv => TypeOK
  BY DEF IInv
<1> QED BY <1>1, Inductive, PTL

\* However many threads clone, drop and upgrade, a counter is the number of
\* the strong handles.
THEOREM CounterCorrect == Spec => []CountIsHandles
<1>1. IInv => CountIsHandles
  BY DEF IInv
<1> QED BY <1>1, Inductive, PTL

\* dropped_entity_ids holds each id of a zero counter once, and no other.
THEOREM DroppedOnce == Spec => []DroppedExactlyOnce
<1>1. IInv => DroppedExactlyOnce
  BY DEF IInv
<1> QED BY <1>1, Inductive, PTL

\* The assertions against over-release in AnyEntity::clone and drop hold, and
\* no operation touches a counter that take_dropped removed.
THEOREM OverReleaseImpossible == Spec => []NeverOverReleased
<1>1. IInv => NeverOverReleased
  <2> SUFFICES ASSUME IInv, NEW t \in Thread
               PROVE  /\ pc[t] \notin {"idle", "wait", "take"} => counts[Touched(t)] # Absent
                      /\ pc[t] \in {"clone", "drop"} => counts[Touched(t)] > 0
    BY DEF NeverOverReleased
  <2>1. TypeOK /\ Counted /\ CountIsHandles /\ OpsWhole /\ DroppedExactlyOnce
    BY DEF IInv
  <2>2. CASE pc[t] \in {"clone", "drop"}
    <3>1. Touched(t) = target[arg[t]]
      BY <2>2 DEF Touched
    <3>2. counts[target[arg[t]]] \in Nat \ {0}
      BY <2>1, <2>2, LiveCounter DEF OpsWhole
    <3> QED BY <3>1, <3>2 DEF Absent
  <2>3. CASE pc[t] \in {"load", "cas"}
    BY <2>1, <2>3 DEF OpsWhole, Touched
  <2>4. CASE pc[t] = "push"
    <3>1. subject[t] \in EntityId /\ Pushing(t, subject[t])
      BY <2>1, <2>4 DEF OpsWhole, Pushing
    <3>2. counts[subject[t]] = 0
      BY <2>1, <3>1 DEF DroppedExactlyOnce
    <3> QED BY <2>4, <3>2 DEF Touched, Absent
  <2>5. CASE pc[t] \in {"idle", "wait", "take"}
    BY <2>5
  <2> QED BY <2>1, <2>2, <2>3, <2>4, <2>5 DEF TypeOK, Label
<1> QED BY <1>1, Inductive, PTL

\* A registered value is in the map or on main's stack while a handle to it
\* exists; a value take_dropped handed out has no handle.
THEOREM ValueSafe == Spec => []ValueOutlivesHandles
<1>1. IInv => ValueOutlivesHandles
  <2> SUFFICES ASSUME IInv PROVE ValueOutlivesHandles
    OBVIOUS
  <2>1. ASSUME NEW h \in Handle, target[h] # None, stage[target[h]] = "inserted"
        PROVE  target[h] \in entities \/ Leased(target[h])
    <3>1. target[h] \in EntityId
      BY <2>1 DEF IInv, TypeOK
    <3>2. counts[target[h]] # Absent
      BY <3>1, LiveCounter DEF IInv, Absent
    <3> QED BY <2>1, <3>1, <3>2 DEF IInv, ValuesWhole
  <2>2. \A e \in releasing : HandlesOf(e) = {}
    BY DEF IInv, TypeOK, ValuesWhole, CountIsHandles
  <2> QED BY <2>1, <2>2 DEF ValueOutlivesHandles
<1> QED BY <1>1, Inductive, PTL
-----------------------------------------------------------------------------
(* The entity map implements EntityLifetime, for every set of workers, entities and
   handles. *)

Owners(c) == IF c = Absent THEN 0 ELSE c

(* What a step does to the keys and the counters, all that Lifetime can see *)

Reserved(e) == /\ stage[e] = "unused" /\ counts[e] = Absent
               /\ stage' = [stage EXCEPT ![e] = "reserved"]
               /\ counts' = [counts EXCEPT ![e] = 1]

Acquired(e) == /\ counts[e] \in Nat \ {0}
               /\ stage' = stage
               /\ counts' = [counts EXCEPT ![e] = @ + 1]

Relinquished(e) == /\ counts[e] \in Nat \ {0}
                   /\ stage' = stage
                   /\ counts' = [counts EXCEPT ![e] = @ - 1]

Taken(S) == /\ \A e \in S : counts[e] = 0
            /\ stage' = stage
            /\ counts' = [e \in EntityId |-> IF e \in S THEN Absent ELSE counts[e]]

Unseen == /\ counts' = counts
          /\ \A e \in EntityId : stage'[e] = "unused" <=> stage[e] = "unused"

CounterStep == \/ \E e \in EntityId : Reserved(e) \/ Acquired(e) \/ Relinquished(e)
               \/ \E S \in SUBSET EntityId : Taken(S)
               \/ Unseen

LEMMA OperationCounts ==
  ASSUME IInv, NEW t \in Thread, Continue(t)
  PROVE  CounterStep
<1> USE DEF Continue
<1>0. TypeOK /\ OpsWhole /\ Counted /\ CountIsHandles
  BY DEF IInv
<1>1. CASE CloneIncrement(t)
  <2>1. arg[t] \in Handle /\ target[arg[t]] \in EntityId
    BY <1>0, <1>1 DEF OpsWhole, CloneIncrement
  <2>2. Acquired(target[arg[t]])
    BY <1>0, <1>1, <2>1, LiveCounter DEF CloneIncrement, Acquired
  <2> QED BY <2>1, <2>2 DEF CounterStep
<1>2. CASE DropDecrement(t)
  <2>1. arg[t] \in Handle /\ target[arg[t]] \in EntityId
    BY <1>0, <1>2 DEF OpsWhole, DropDecrement
  <2>2. Relinquished(target[arg[t]])
    BY <1>0, <1>2, <2>1, LiveCounter DEF DropDecrement, Relinquished
  <2> QED BY <2>1, <2>2 DEF CounterStep
<1>3. CASE UpgradeExchange(t)
  <2>1. subject[t] \in EntityId /\ counts[subject[t]] \in Nat \ {0}
    BY <1>0, <1>3 DEF TypeOK, OpsWhole, UpgradeExchange, Absent
  <2>2. Acquired(subject[t])
    BY <1>3, <2>1 DEF UpgradeExchange, Acquired
  <2> QED BY <2>1, <2>2 DEF CounterStep
<1>4. CASE DropPush(t) \/ UpgradeLoad(t) \/ UpgradeRetry(t)
  BY <1>4 DEF DropPush, UpgradeLoad, UpgradeRetry, mapVars, CounterStep, Unseen
<1> QED BY <1>1, <1>2, <1>3, <1>4

LEMMA EveryCounterStep == IInv /\ [Next]_vars => CounterStep
<1> SUFFICES ASSUME IInv, [Next]_vars PROVE CounterStep
  OBVIOUS
<1>0. TypeOK /\ Counted /\ DroppedExactlyOnce /\ PinnedByMain /\ HandlesWhole
  BY DEF IInv
<1>1. ASSUME NEW e \in EntityId, NEW h \in Handle, Reserve(e, h) PROVE CounterStep
  <2>1. Reserved(e)
    BY <1>0, <1>1 DEF Counted, Reserve, Reserved
  <2> QED BY <2>1 DEF CounterStep
<1>2. ASSUME NEW h \in Handle, BeginBuild(h) \/ Insert(h) PROVE CounterStep
  <2>1. Unseen
    BY <1>0, <1>2 DEF TypeOK, BeginBuild, Insert, Unseen
  <2> QED BY <2>1 DEF CounterStep
<1>3. CASE Access
  <2>1. Unseen
    BY <1>3 DEF Access, Lease, EndLease, MoveInto, MoveOut, mapVars, Unseen
  <2> QED BY <2>1 DEF CounterStep
<1>4. ASSUME NEW t \in Thread, Begin(t) PROVE CounterStep
  <2>1. Unseen
    BY <1>4 DEF Begin, Send, BeginClone, BeginDrop, BeginUpgrade, mapVars, Unseen
  <2> QED BY <2>1 DEF CounterStep
<1>5. CASE TakeDropped
  <2>1. Drained \in SUBSET EntityId /\ Taken(Drained)
    BY <1>0, <1>5 DEF TypeOK, DroppedExactlyOnce, TakeDropped, Taken, Drained
  <2> QED BY <2>1 DEF CounterStep
<1>6. CASE BeginUpdate \/ BeginTake \/ LockOutOthers \/ (\E e \in EntityId : Free(e)) \/ UNCHANGED vars
  <2>1. Unseen
    BY <1>6 DEF BeginUpdate, BeginTake, LockOutOthers, Free, vars, mapVars, Unseen
  <2> QED BY <2>1 DEF CounterStep
<1> QED BY <1>1, <1>2, <1>3, <1>4, <1>5, <1>6, OperationCounts DEF Next, Construct

-----------------------------------------------------------------------------
\* A counter at zero or gone never grows again: upgrade increments only what it
\* has seen above zero, and clone owns a handle (entity_map.rs).
THEOREM DeadStaysDead == Spec => NoResurrection
<1>1. IInv /\ [Next]_vars =>
        [\A e \in EntityId :
           /\ counts[e] = 0 => counts'[e] \in {0, Absent}
           /\ stage[e] # "unused" /\ counts[e] = Absent => counts'[e] = Absent]_vars
  <2> SUFFICES ASSUME IInv, [Next]_vars, NEW e \in EntityId
               PROVE  /\ counts[e] = 0 => counts'[e] \in {0, Absent}
                      /\ stage[e] # "unused" /\ counts[e] = Absent => counts'[e] = Absent
    OBVIOUS
  <2>1. counts \in [EntityId -> Nat \cup {Absent}]
    BY DEF IInv, TypeOK
  <2> QED BY <2>1, EveryCounterStep
          DEF CounterStep, Reserved, Acquired, Relinquished, Taken, Unseen, Absent
<1> QED BY <1>1, Inductive, PTL DEF Spec, NoResurrection

-----------------------------------------------------------------------------
LEMMA OwnersCounted ==
  ASSUME IInv, NEW e \in EntityId
  PROVE  Cardinality(HandlesOf(e)) = Owners(counts[e])
BY FS_EmptySet DEF IInv, CountIsHandles, Owners

\* Every behaviour of the entity map is one of EntityLifetime: the entity is
\* alive while a handle exists, dead after the last, released once.
THEOREM Refinement == Spec => ImplementsLifetime
<1> DEFINE life == [e \in EntityId |->
                      IF stage[e] = "unused" THEN "unborn"
                      ELSE IF counts[e] = Absent THEN "released"
                      ELSE IF counts[e] = 0 THEN "dead" ELSE "alive"]
           owners == [e \in EntityId |-> Cardinality(HandlesOf(e))]
<1>1. Init => Lifetime!Init
  <2> SUFFICES ASSUME Init PROVE Lifetime!Init
    OBVIOUS
  <2>1. \A e \in EntityId : HandlesOf(e) = {}
    BY NoneAssumption DEF Init, HandlesOf, Holder
  <2> QED BY <2>1, FS_EmptySet DEF Init, Lifetime!Init
<1>2. IInv /\ IInv' /\ [Next]_vars => [Lifetime!Next]_(Lifetime!vars)
  <2> SUFFICES ASSUME IInv, IInv', [Next]_vars PROVE [Lifetime!Next]_(Lifetime!vars)
    OBVIOUS
  <2>1. /\ owners = [e \in EntityId |-> Owners(counts[e])]
        /\ owners' = [e \in EntityId |-> Owners(counts'[e])]
    <3>1. \A e \in EntityId : Cardinality(HandlesOf(e)) = Owners(counts[e])
      BY OwnersCounted
    <3>2. \A e \in EntityId : Cardinality(HandlesOf(e)') = Owners(counts'[e])
      BY FS_EmptySet DEF IInv, CountIsHandles, Owners
    <3> QED BY <3>1, <3>2
  <2>2. counts \in [EntityId -> Nat \cup {Absent}] /\ stage \in [EntityId -> Stage]
    BY DEF IInv, TypeOK
  <2>3. \A e \in EntityId : stage[e] = "unused" => counts[e] = Absent
    BY DEF IInv, Counted
  <2> USE <2>2, <2>3 DEF Owners, Absent, Stage
  <2>4. ASSUME NEW e \in EntityId, Reserved(e) PROVE Lifetime!Create(e)
    <3>1. owners' = [owners EXCEPT ![e] = 1]
      <4> HIDE DEF owners
      <4> QED BY <2>1, <2>4 DEF Reserved
    <3>2. life[e] = "unborn" /\ life' = [life EXCEPT ![e] = "alive"]
      <4>1. \A x \in EntityId : x # e => stage'[x] = stage[x] /\ counts'[x] = counts[x]
        BY <2>4 DEF Reserved
      <4>2. stage'[e] = "reserved" /\ counts'[e] = 1
        BY <2>4 DEF Reserved
      <4>3. life[e] = "unborn" /\ life'[e] = "alive"
        BY <2>4, <4>2 DEF Reserved
      <4>4. \A x \in EntityId : x # e => life'[x] = life[x]
        BY <4>1
      <4>5. /\ life = [x \in EntityId |-> life[x]]
            /\ life' = [x \in EntityId |-> life'[x]]
        OBVIOUS
      <4> HIDE DEF life
      <4> QED BY <4>3, <4>4, <4>5
    <3> QED BY <3>1, <3>2 DEF Lifetime!Create
  <2>5. ASSUME NEW e \in EntityId, Acquired(e) PROVE Lifetime!Share(e)
    <3>1. owners' = [owners EXCEPT ![e] = owners[e] + 1]
      <4> HIDE DEF owners
      <4> QED BY <2>1, <2>5 DEF Acquired
    <3>2. life[e] = "alive" /\ life' = life
      BY <2>5 DEF Acquired
    <3> QED BY <3>1, <3>2 DEF Lifetime!Share
  <2>6. ASSUME NEW e \in EntityId, Relinquished(e) PROVE Lifetime!Forget(e)
    <3>1. owners' = [owners EXCEPT ![e] = owners[e] - 1] /\ owners[e] = counts[e]
      <4> HIDE DEF owners
      <4> QED BY <2>1, <2>6 DEF Relinquished
    <3>2. /\ life[e] = "alive"
          /\ life' = [life EXCEPT ![e] = IF counts[e] = 1 THEN "dead" ELSE "alive"]
      <4>1. \A x \in EntityId : x # e => counts'[x] = counts[x]
        BY <2>6 DEF Relinquished
      <4>2. counts'[e] = counts[e] - 1 /\ stage' = stage /\ counts[e] \in Nat \ {0}
        BY <2>6 DEF Relinquished
      <4>3. stage[e] # "unused"
        BY <4>2
      <4>4. life[e] = "alive" /\ life'[e] = IF counts[e] = 1 THEN "dead" ELSE "alive"
        BY <4>2, <4>3
      <4>5. \A x \in EntityId : x # e => life'[x] = life[x]
        BY <4>1, <4>2
      <4>6. /\ life = [x \in EntityId |-> life[x]]
            /\ life' = [x \in EntityId |-> life'[x]]
        OBVIOUS
      <4> HIDE DEF life
      <4> QED BY <4>4, <4>5, <4>6
    <3> QED BY <3>1, <3>2 DEF Lifetime!Forget
  <2>7. ASSUME NEW S \in SUBSET EntityId, Taken(S)
        PROVE  Lifetime!Release(S) \/ UNCHANGED Lifetime!vars
    BY <2>1, <2>7 DEF Taken, Lifetime!Release, Lifetime!vars
  <2>8. CASE Unseen
    BY <2>1, <2>8 DEF Unseen, Lifetime!vars
  <2> QED BY <2>4, <2>5, <2>6, <2>7, <2>8, EveryCounterStep DEF CounterStep, Lifetime!Next
<1> QED BY <1>1, <1>2, Inductive, PTL DEF Spec, ImplementsLifetime, Lifetime!Spec
=============================================================================
