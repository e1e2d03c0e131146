------------------------ MODULE PriorityQueueProofs ------------------------
(***************************************************************************)
(* No wake-up of the priority queue is lost and RecvError is final, for    *)
(* every number of threads, receivers and items.                           *)
(***************************************************************************)
EXTENDS PriorityQueue, FiniteSetTheorems, TLAPS

\* A receiver is told only when nobody can send any more.
ToldWhenReleased == told # {} => QueueEmpty /\ sharers = {}

IInv == TypeOK /\ WakeUpsSuffice /\ ToldWhenReleased

Items == Len(normal) + Len(low)

LEMMA InitIInv == Init => IInv
<1> SUFFICES ASSUME Init PROVE IInv
  OBVIOUS
<1>1. TypeOK
  BY DEF Init, TypeOK, ReceiverLabel
<1>2. Waiting = {}
  BY DEF Init, Waiting
<1> QED BY <1>1, <1>2 DEF Init, IInv, WakeUpsSuffice, ToldWhenReleased

\* TakeOne takes one item and leaves sequences.
LEMMA TakeOneTakes ==
  ASSUME TypeOK, TakeOne
  PROVE  /\ normal' \in Seq(Item \ LowItem) /\ low' \in Seq(LowItem)
         /\ ~QueueEmpty
         /\ Items \in Nat /\ Items' = Items - 1
<1>1. normal \in Seq(Item \ LowItem) /\ low \in Seq(LowItem)
  BY DEF TypeOK
<1>2. CASE normal # << >> /\ normal' = Tail(normal) /\ UNCHANGED low
  BY <1>1, <1>2 DEF QueueEmpty, Items
<1>3. CASE low # << >> /\ low' = Tail(low) /\ UNCHANGED normal
  BY <1>1, <1>3 DEF QueueEmpty, Items
<1> QED BY <1>2, <1>3 DEF TakeOne

\* Enqueue adds one.
LEMMA EnqueueAdds ==
  ASSUME TypeOK, NEW i \in Item, Enqueue(i)
  PROVE  /\ normal' \in Seq(Item \ LowItem) /\ low' \in Seq(LowItem)
         /\ Items' = Items + 1
<1>1. normal \in Seq(Item \ LowItem) /\ low \in Seq(LowItem)
  BY DEF TypeOK
<1>2. CASE i \in LowItem
  BY <1>1, <1>2 DEF Enqueue, Items
<1>3. CASE i \notin LowItem
  BY <1>1, <1>3 DEF Enqueue, Items
<1> QED BY <1>2, <1>3

LEMMA NotifyWakes ==
  ASSUME TypeOK, NotifyOne
  PROVE  /\ receiver' \in [Receiver -> ReceiverLabel]
         /\ Waiting = {} => receiver' = receiver
         /\ Waiting # {} => \E r \in Waiting : r \notin Woken /\ Woken' = Woken \cup {r}
<1>1. receiver \in [Receiver -> ReceiverLabel]
  BY DEF TypeOK
<1>2. CASE Waiting = {}
  BY <1>1, <1>2 DEF NotifyOne
<1>3. CASE Waiting # {}
  <2>1. PICK r \in Waiting : Becomes(r, "woken")
    BY <1>3 DEF NotifyOne
  <2>2. r \in Receiver /\ r \notin Woken /\ Woken' = Woken \cup {r}
    BY <1>1, <2>1 DEF Becomes, Waiting, Woken
  <2> QED BY <1>1, <1>3, <2>1, <2>2 DEF Becomes, ReceiverLabel
<1> QED BY <1>2, <1>3

LEMMA WokenFinite == IsFiniteSet(Woken) /\ Cardinality(Woken) \in Nat
<1>1. IsFiniteSet(Woken)
  <2>1. Woken \in SUBSET Receiver
    BY DEF Woken
  <2> QED BY <2>1, ReceiverAssumption, FS_Subset
<1> QED BY <1>1, FS_CardinalityType

-----------------------------------------------------------------------------
(* Every step keeps the types *)

LEMMA TypesKept == TypeOK /\ [Next]_vars => TypeOK'
<1> SUFFICES ASSUME TypeOK, [Next]_vars PROVE TypeOK'
  OBVIOUS
<1> USE DEF TypeOK, queueVars, senderVars
<1>1. ASSUME NEW t \in Thread, NEW i \in Item, BeginSend(t, i) PROVE TypeOK'
  BY <1>1 DEF BeginSend
<1>2. ASSUME NEW t \in Thread, Send(t) PROVE TypeOK'
  <2>1. sending[t] \in Item
    BY <1>2 DEF Send
  <2>2. normal' \in Seq(Item \ LowItem) /\ low' \in Seq(LowItem)
    BY <1>2, <2>1, EnqueueAdds DEF Send
  <2>3. receiver' \in [Receiver -> ReceiverLabel]
    BY <1>2, NotifyWakes DEF Send
  <2> QED BY <1>2, <2>2, <2>3 DEF Send
<1>3. ASSUME NEW t \in Thread, ReleaseSender(t) PROVE TypeOK'
  BY <1>3 DEF ReleaseSender
<1>4. ASSUME NEW r \in Receiver, NEW n \in Receiver, CloneReceiver(r, n) PROVE TypeOK'
  BY <1>4 DEF CloneReceiver, Becomes, ReceiverLabel
<1>5. ASSUME NEW r \in Receiver, DropReceiver(r) PROVE TypeOK'
  BY <1>5 DEF DropReceiver, Becomes, ReceiverLabel
<1>6. ASSUME NEW r \in Receiver, Pop(r) PROVE TypeOK'
  BY <1>6, TakeOneTakes DEF Pop
<1>7. ASSUME NEW r \in Receiver, Disconnected(r) PROVE TypeOK'
  BY <1>7 DEF Disconnected
<1>8. ASSUME NEW r \in Receiver, Block(r) PROVE TypeOK'
  BY <1>8 DEF Block, Becomes, ReceiverLabel
<1>9. ASSUME NEW r \in Receiver, Resume(r) PROVE TypeOK'
  <2>1. receiver' \in [Receiver -> ReceiverLabel]
    BY <1>9 DEF Resume, Becomes, ReceiverLabel
  <2> QED BY <1>9, <2>1, TakeOneTakes DEF Resume
<1>10. CASE UNCHANGED vars
  BY <1>10 DEF vars
<1> QED BY <1>1, <1>2, <1>3, <1>4, <1>5, <1>6, <1>7, <1>8, <1>9, <1>10 DEF Next

-----------------------------------------------------------------------------
(* Every step keeps WakeUpsSuffice *)

LEMMA WakeUpsKept ==
  TypeOK /\ WakeUpsSuffice /\ [Next]_vars => WakeUpsSuffice'
<1> SUFFICES ASSUME TypeOK, WakeUpsSuffice, [Next]_vars PROVE WakeUpsSuffice'
  OBVIOUS
<1>a. receiver \in [Receiver -> ReceiverLabel] /\ Items \in Nat
  BY DEF TypeOK, Items
<1>b. Waiting # {} => Items <= Cardinality(Woken)
  BY DEF WakeUpsSuffice, Items
<1>c. SUFFICES ASSUME Waiting' # {} PROVE Items' <= Cardinality(Woken)'
  BY DEF WakeUpsSuffice, Items
<1>d. ASSUME UNCHANGED <<queueVars, receiver>> PROVE Items' <= Cardinality(Woken)'
  BY <1>b, <1>c, <1>d DEF Waiting, Woken, Items, queueVars
<1>1. ASSUME NEW t \in Thread, NEW i \in Item, BeginSend(t, i)
      PROVE Items' <= Cardinality(Woken)'
  BY <1>1, <1>d DEF BeginSend
<1>2. ASSUME NEW t \in Thread, Send(t) PROVE Items' <= Cardinality(Woken)'
  <2>1. Items' = Items + 1
    BY <1>2, EnqueueAdds DEF Send, TypeOK
  <2>2. NotifyOne
    BY <1>2 DEF Send
  <2>3. Waiting # {}
    BY <2>2, <1>c, NotifyWakes DEF Waiting
  <2>4. PICK r \in Waiting : r \notin Woken /\ Woken' = Woken \cup {r}
    BY <2>2, <2>3, NotifyWakes
  <2>5. Cardinality(Woken') = Cardinality(Woken) + 1
    BY <2>4, WokenFinite, FS_AddElement
  <2> QED BY <1>a, <1>b, <2>1, <2>3, <2>5, WokenFinite
<1>3. ASSUME NEW t \in Thread, ReleaseSender(t) PROVE Items' <= Cardinality(Woken)'
  BY <1>3, <1>d DEF ReleaseSender
<1>4. ASSUME NEW r \in Receiver, receiver[r] \in {"idle", "absent"},
             NEW label \in {"idle", "absent"}, Becomes(r, label), UNCHANGED queueVars
      PROVE  Items' <= Cardinality(Woken)'
  <2>1. Waiting' = Waiting /\ Woken' = Woken
    BY <1>a, <1>4 DEF Becomes, Waiting, Woken
  <2> QED BY <1>b, <1>c, <1>4, <2>1 DEF Items, queueVars
<1>5. ASSUME NEW r \in Receiver, NEW n \in Receiver, CloneReceiver(r, n) \/ DropReceiver(r)
      PROVE  Items' <= Cardinality(Woken)'
  BY <1>4, <1>5 DEF CloneReceiver, DropReceiver
<1>6. ASSUME NEW r \in Receiver, Pop(r) PROVE Items' <= Cardinality(Woken)'
  <2>1. Waiting' = Waiting /\ Woken' = Woken
    BY <1>6 DEF Pop, Waiting, Woken
  <2>2. Items' = Items - 1
    BY <1>6, TakeOneTakes DEF Pop
  <2> QED BY <1>a, <1>b, <1>c, <2>1, <2>2, WokenFinite
<1>7. ASSUME NEW r \in Receiver, Disconnected(r) PROVE Items' <= Cardinality(Woken)'
  BY <1>7, <1>d DEF Disconnected
<1>8. ASSUME NEW r \in Receiver, Block(r) PROVE Items' <= Cardinality(Woken)'
  <2>1. Woken' = Woken
    BY <1>a, <1>8 DEF Block, Becomes, Woken
  <2>2. Items' = 0
    BY <1>8 DEF Block, QueueEmpty, queueVars, Items
  <2> QED BY <2>1, <2>2, WokenFinite
<1>9. ASSUME NEW r \in Receiver, Resume(r) PROVE Items' <= Cardinality(Woken)'
  <2>1. Woken' = Woken \ {r} /\ r \in Woken
    BY <1>a, <1>9 DEF Resume, Becomes, Woken
  <2>2. Cardinality(Woken') = Cardinality(Woken) - 1 /\ Cardinality(Woken') \in Nat
    BY <2>1, WokenFinite, FS_RemoveElement, FS_CardinalityType
  <2>3. CASE TakeOne /\ Becomes(r, "idle")
    <3>1. Waiting' = Waiting
      BY <1>a, <1>9, <2>3 DEF Resume, Becomes, Waiting
    <3>2. Items' = Items - 1
      BY <2>3, TakeOneTakes
    <3> QED BY <1>a, <1>b, <1>c, <2>2, <3>1, <3>2, WokenFinite
  <2>4. CASE QueueEmpty /\ UNCHANGED queueVars
    <3>1. Items' = 0
      BY <2>4 DEF QueueEmpty, queueVars, Items
    <3> QED BY <2>2, <3>1
  <2> QED BY <1>9, <2>3, <2>4 DEF Resume
<1>10. CASE UNCHANGED vars
  BY <1>10, <1>d DEF vars
<1> QED BY <1>1, <1>2, <1>3, <1>5, <1>6, <1>7, <1>8, <1>9, <1>10 DEF Next

-----------------------------------------------------------------------------
(* Every step keeps ToldWhenReleased *)

LEMMA ToldKept ==
  TypeOK /\ ToldWhenReleased /\ [Next]_vars => ToldWhenReleased'
<1> SUFFICES ASSUME TypeOK, ToldWhenReleased, [Next]_vars, told' # {}
             PROVE  QueueEmpty' /\ sharers' = {}
  BY DEF ToldWhenReleased
<1> USE DEF queueVars, senderVars
<1>1. ASSUME NEW r \in Receiver, Disconnected(r) PROVE QueueEmpty' /\ sharers' = {}
  BY <1>1 DEF Disconnected, QueueEmpty, TypeOK
<1>2. CASE \A r \in Receiver : ~Disconnected(r)
  <2>1. told # {}
    BY <1>2 DEF Next, BeginSend, Send, ReleaseSender, CloneReceiver, DropReceiver,
                Pop, Block, Resume, vars
  <2>2. QueueEmpty /\ sharers = {}
    BY <2>1 DEF ToldWhenReleased
  <2>3. \A t \in Thread : /\ \A i \in Item : ~BeginSend(t, i)
                         /\ ~Send(t) /\ ~ReleaseSender(t)
    BY <2>2 DEF TypeOK, BeginSend, Send, ReleaseSender
  <2>4. ~TakeOne
    BY <2>2 DEF TakeOne, QueueEmpty
  <2> QED BY <1>2, <2>2, <2>3, <2>4
          DEF Next, CloneReceiver, DropReceiver, Pop, Block, Resume, QueueEmpty, vars
<1> QED BY <1>1, <1>2

-----------------------------------------------------------------------------
LEMMA Inductive == Spec => []IInv
<1>1. IInv /\ [Next]_vars => IInv'
  BY TypesKept, WakeUpsKept, ToldKept DEF IInv
<1> QED BY <1>1, InitIInv, PTL DEF Spec

\* Type correctness of the queue of queue.rs.
THEOREM TypesSafe == Spec => []TypeOK
<1>1. IInv => TypeOK
  BY DEF IInv
<1> QED BY <1>1, Inductive, PTL

\* A send notifies enough: no receiver sleeps through an item it should take
\* (PriorityQueueState::send and recv), for any number of receivers.
THEOREM NoSleepingReceiver == Spec => []WakeUpsSuffice
<1>1. IInv => WakeUpsSuffice
  BY DEF IInv
<1> QED BY <1>1, Inductive, PTL

\* Nothing is queued, or on its way, once a receiver was told RecvError.
THEOREM ToldLast == Spec => []ToldAtTheEnd
<1>1. IInv => ToldAtTheEnd
  BY DEF IInv, TypeOK, ToldWhenReleased, ToldAtTheEnd
<1> QED BY <1>1, Inductive, PTL
=============================================================================
