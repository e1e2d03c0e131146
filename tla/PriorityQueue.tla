--------------------------- MODULE PriorityQueue ---------------------------
(***************************************************************************)
(* The two-priority queue behind a mutex and a condition variable          *)
(* (queue.rs).  One sender is shared by reference among threads; receivers *)
(* are cloned, poll or block, and are dropped.  What runs under the mutex  *)
(* is one step.  try_pop on an empty queue with a sender changes nothing.  *)
(***************************************************************************)
EXTENDS Integers, Sequences, FiniteSets

CONSTANTS
  Thread,       \* those that share the sender
  Receiver,     \* receivers that may exist
  Item,         \* each may be sent again when it has been popped
  LowItem,      \* those sent with TaskPriority::Low
  None

ASSUME ReceiverAssumption == IsFiniteSet(Receiver)
ASSUME ItemAssumption == LowItem \subseteq Item /\ None \notin Item

VARIABLES
  normal, low,  \* the two queues
  sharers,      \* the threads that still refer to the sender
  senderCount,  \* sender_count
  sending,      \* [Thread -> Item or None], what a send that saw a receiver carries
  receiver,     \* [Receiver -> ReceiverLabel]
  told          \* receivers that were told the sender is gone

queueVars == <<normal, low>>
senderVars == <<sharers, senderCount, sending>>
vars == <<queueVars, senderVars, receiver, told>>

\* waiting: in Condvar::wait and not notified.  woken: notified, not yet back.
ReceiverLabel == {"absent", "idle", "waiting", "woken"}

TypeOK ==
  /\ normal \in Seq(Item \ LowItem)
  /\ low \in Seq(LowItem)
  /\ sharers \subseteq Thread
  /\ senderCount = IF sharers = {} THEN 0 ELSE 1
  /\ sending \in [Thread -> Item \cup {None}]
  /\ \A t \in Thread : sending[t] # None => t \in sharers
  /\ receiver \in [Receiver -> ReceiverLabel]
  /\ told \subseteq Receiver

\* PriorityQueueReceiver::new
Init ==
  /\ normal = << >> /\ low = << >>
  /\ sharers = Thread /\ Thread # {}
  /\ senderCount = 1
  /\ sending = [t \in Thread |-> None]
  /\ \E r \in Receiver : receiver = [q \in Receiver |-> IF q = r THEN "idle" ELSE "absent"]
  /\ told = {}

-----------------------------------------------------------------------------
Waiting == {r \in Receiver : receiver[r] = "waiting"}
Woken == {r \in Receiver : receiver[r] = "woken"}
ReceiverCount == Cardinality({r \in Receiver : receiver[r] # "absent"})

Elements(s) == {s[i] : i \in DOMAIN s}
Queued == Elements(normal) \cup Elements(low)
QueueEmpty == normal = << >> /\ low = << >>

Becomes(r, label) == receiver' = [receiver EXCEPT ![r] = label]

-----------------------------------------------------------------------------
(* The sender *)

\* receiver_count is looked at before the lock is taken.
BeginSend(t, i) ==
  /\ t \in sharers /\ sending[t] = None
  /\ i \notin Queued \cup {sending[u] : u \in Thread}
  /\ ReceiverCount # 0
  /\ sending' = [sending EXCEPT ![t] = i]
  /\ UNCHANGED <<queueVars, sharers, senderCount, receiver, told>>

\* condvar.notify_one
NotifyOne ==
  IF Waiting = {} THEN UNCHANGED receiver
                  ELSE \E r \in Waiting : Becomes(r, "woken")

Enqueue(i) ==
  IF i \in LowItem THEN low' = Append(low, i) /\ UNCHANGED normal
                   ELSE normal' = Append(normal, i) /\ UNCHANGED low

\* Mutant: notifies only when the queue was empty.
SendIfEmptyNotifies(t) ==
  /\ sending[t] # None
  /\ Enqueue(sending[t])
  /\ IF QueueEmpty THEN NotifyOne ELSE UNCHANGED receiver
  /\ sending' = [sending EXCEPT ![t] = None]
  /\ UNCHANGED <<sharers, senderCount, told>>

Send(t) ==
  /\ sending[t] # None
  /\ Enqueue(sending[t])
  /\ NotifyOne
  /\ sending' = [sending EXCEPT ![t] = None]
  /\ UNCHANGED <<sharers, senderCount, told>>

\* Mutant: each reference counts itself out.
ReleaseSenderEach(t) ==
  /\ t \in sharers /\ sending[t] = None
  /\ sharers' = sharers \ {t}
  /\ senderCount' = 0
  /\ UNCHANGED <<queueVars, sending, receiver, told>>

\* The last reference drops the sender, which takes neither the lock nor
\* notifies anyone.
ReleaseSender(t) ==
  /\ t \in sharers /\ sending[t] = None
  /\ sharers' = sharers \ {t}
  /\ senderCount' = IF sharers = {t} THEN 0 ELSE senderCount
  /\ UNCHANGED <<queueVars, sending, receiver, told>>

-----------------------------------------------------------------------------
(* The receivers *)

CloneReceiver(r, n) ==
  /\ receiver[r] = "idle" /\ receiver[n] = "absent"
  /\ Becomes(n, "idle")
  /\ UNCHANGED <<queueVars, senderVars, told>>

DropReceiver(r) ==
  /\ receiver[r] = "idle"
  /\ Becomes(r, "absent")
  /\ told' = told \ {r}
  /\ UNCHANGED <<queueVars, senderVars>>

\* The loaded die of pop_inner: either side where both have an item.
TakeOne == \/ normal # << >> /\ normal' = Tail(normal) /\ UNCHANGED low
           \/ low # << >> /\ low' = Tail(low) /\ UNCHANGED normal

\* pop and try_pop that find an item.
Pop(r) ==
  /\ receiver[r] = "idle"
  /\ TakeOne
  /\ UNCHANGED <<senderVars, receiver, told>>

\* Mutant: tells as soon as the sender is gone.
DisconnectedAtOnce(r) ==
  /\ receiver[r] = "idle" /\ senderCount = 0
  /\ told' = told \cup {r}
  /\ UNCHANGED <<queueVars, senderVars, receiver>>

\* pop and try_pop that return RecvError.
Disconnected(r) ==
  /\ receiver[r] = "idle" /\ QueueEmpty /\ senderCount = 0
  /\ told' = told \cup {r}
  /\ UNCHANGED <<queueVars, senderVars, receiver>>

\* pop: sender_count is looked at once, before the first wait.
Block(r) ==
  /\ receiver[r] = "idle" /\ QueueEmpty /\ senderCount # 0
  /\ Becomes(r, "waiting")
  /\ UNCHANGED <<queueVars, senderVars, told>>

\* Back from the wait: somebody else may have been faster.
Resume(r) ==
  /\ receiver[r] = "woken"
  /\ \/ TakeOne /\ Becomes(r, "idle")
     \/ QueueEmpty /\ Becomes(r, "waiting") /\ UNCHANGED queueVars
  /\ UNCHANGED <<senderVars, told>>

-----------------------------------------------------------------------------
Next == \/ \E t \in Thread : \/ \E i \in Item : BeginSend(t, i)
                             \/ Send(t)
                             \/ ReleaseSender(t)
        \/ \E r \in Receiver : \/ \E n \in Receiver : CloneReceiver(r, n)
                               \/ DropReceiver(r)
                               \/ Pop(r)
                               \/ Disconnected(r)
                               \/ Block(r)
                               \/ Resume(r)

Spec == Init /\ [][Next]_vars

\* A send that was begun ends, and a notified receiver gets the lock.
Fairness == /\ \A t \in Thread : WF_vars(Send(t))
            /\ \A r \in Receiver : SF_vars(Resume(r))

FairSpec == Spec /\ Fairness

-----------------------------------------------------------------------------
(* Properties *)

\* No wake-up is lost although each send notifies one receiver and others may
\* steal its item: while somebody waits without having been notified, there are
\* no more items than receivers on their way back from the wait, each of which
\* will take one.  (send and recv)
WakeUpsSuffice ==
  Waiting # {} => Len(normal) + Len(low) <= Cardinality(Woken)

\* RecvError is final: who was told that the sender is gone has missed nothing,
\* and no thread is about to enqueue.  (try_recv and recv read sender_count
\* without what the sender's drop would have to lock)
ToldAtTheEnd ==
  told # {} => QueueEmpty /\ \A t \in Thread : sending[t] = None

\* "Errors: if the sender was dropped" (pop), "if None is returned the sender
\* disconnected" (Iter): a blocked pop ends when the sender goes.
PopEndsWithSender ==
  \A r \in Receiver :
    sharers = {} /\ receiver[r] = "waiting" ~> receiver[r] # "waiting"
=============================================================================
