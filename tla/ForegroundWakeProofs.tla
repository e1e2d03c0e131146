------------------------ MODULE ForegroundWakeProofs ------------------------
(***************************************************************************)
(* No wake-up is lost, for every number of threads, tasks, nested message  *)
(* loops and posted messages.  NoLostWakeUp is inductive together with the *)
(* type invariant.                                                         *)
(***************************************************************************)
EXTENDS ForegroundWake, SequenceTheorems, TLAPS

IInv == TypeOK /\ NoLostWakeUp

LEMMA Popped ==
  ASSUME TypeOK, PopNormal \/ PopLow
  PROVE  normal' \in Seq(Task \ LowTask) /\ low' \in Seq(LowTask) /\ ~QueueEmpty
<1>1. normal \in Seq(Task \ LowTask) /\ low \in Seq(LowTask)
  BY DEF TypeOK
<1>2. CASE PopNormal
  BY <1>1, <1>2 DEF PopNormal, QueueEmpty
<1>3. CASE PopLow
  BY <1>1, <1>3 DEF PopLow, QueueEmpty
<1> QED BY <1>2, <1>3

LEMMA InitIInv == Init => IInv
<1> SUFFICES ASSUME Init PROVE IInv
  OBVIOUS
<1>1. TypeOK
  <2>1. normal \in Seq(Task \ LowTask) /\ low \in Seq(LowTask) /\ suspended \in Seq(UserCode)
    BY DEF Init
  <2>2. posted \in 0..MaxPosted
    BY BoundAssumption DEF Init
  <2> QED BY <2>1, <2>2 DEF Init, TypeOK, DispatchLabel, MainLabel
<1>2. NoLostWakeUp
  BY DEF Init, NoLostWakeUp, FlagUpIsServed, FlagDownIsNoticed, QueueEmpty
<1> QED BY <1>1, <1>2 DEF IInv

-----------------------------------------------------------------------------
(* Every step keeps the types *)

LEMMA TypesKept == TypeOK /\ [Next]_vars => TypeOK'
<1> SUFFICES ASSUME TypeOK, [Next]_vars PROVE TypeOK'
  OBVIOUS
<1> USE BoundAssumption DEF TypeOK, DispatchLabel, MainLabel, UserCode, queueVars, mainVars
<1>1. ASSUME NEW t \in Thread, NEW k \in Task, Enqueue(t, k) PROVE TypeOK'
  <2>1. normal' \in Seq(Task \ LowTask) /\ low' \in Seq(LowTask)
    <3>1. CASE k \in LowTask
      <4>1. low' = Append(low, k) /\ normal' = normal
        BY <1>1, <3>1 DEF Enqueue
      <4> QED BY <3>1, <4>1
    <3>2. CASE k \notin LowTask
      <4>1. normal' = Append(normal, k) /\ low' = low
        BY <1>1, <3>2 DEF Enqueue
      <4> QED BY <3>2, <4>1
    <3> QED BY <3>1, <3>2
  <2>2. pc' \in [Thread -> DispatchLabel]
    BY <1>1 DEF Enqueue
  <2> QED BY <1>1, <2>1, <2>2 DEF Enqueue
<1>2. ASSUME NEW t \in Thread, Dispatch(t) PROVE TypeOK'
  <2>1. CASE Swap(t)
    BY <2>1 DEF Swap
  <2>2. CASE Post(t)
    BY <2>2 DEF Post
  <2>3. CASE PostFails(t)
    BY <2>3 DEF PostFails
  <2> QED BY <1>2, <2>1, <2>2, <2>3 DEF Dispatch
<1>3. CASE GetMessage
  BY <1>3 DEF GetMessage
<1>4. CASE RunForeground
  <2>1. CASE Pop \/ Recheck
    BY <2>1, Popped DEF Pop, Recheck, PopFirstOfClone
  <2>2. CASE FinishTask \/ FoundEmpty \/ TimedOut \/ EndInput
    BY <2>2 DEF FinishTask, FoundEmpty, TimedOut, EndInput
  <2>3. CASE Clear \/ Reflag
    BY <2>3 DEF Clear, Reflag
  <2>4. CASE Repost
    BY <2>4 DEF Repost
  <2>5. CASE RepostFails
    <3>1. stranded' \in BOOLEAN
      BY <2>5 DEF RepostFails
    <3> QED BY <2>5, <3>1 DEF RepostFails
  <2> QED BY <1>4, <2>5, <2>1, <2>2, <2>3, <2>4 DEF RunForeground
<1>5. CASE OpenLoop
  <2>1. at \in UserCode
    BY <1>5 DEF OpenLoop, MainAt
  <2> QED BY <1>5, <2>1 DEF OpenLoop
<1>6. CASE CloseLoop
  <2>1. Len(suspended) \in DOMAIN suspended
    BY <1>6 DEF CloseLoop
  <2> QED BY <1>6, <2>1 DEF CloseLoop
<1>7. CASE Drain
  BY <1>7, Popped
     DEF Drain, Timer, DrainPop, DrainNext, DrainEnd, PopFirstOfClone, PopAny
<1>8. CASE UNCHANGED vars
  BY <1>8 DEF vars
<1> QED BY <1>1, <1>2, <1>3, <1>4, <1>5, <1>6, <1>7, <1>8 DEF Next

-----------------------------------------------------------------------------
(* Every step keeps NoLostWakeUp *)

LEMMA SubSeqShorter ==
  ASSUME NEW S, NEW s \in Seq(S), NEW n \in Nat, Len(s) = n + 1
  PROVE  /\ SubSeq(s, 1, n) \in Seq(S) /\ Len(SubSeq(s, 1, n)) = n
         /\ \A i \in 1..n : SubSeq(s, 1, n)[i] = s[i]
<1>1. n \in Int /\ 1 \in Int /\ \A i \in 1..n : s[i] \in S
  OBVIOUS
<1>2. /\ SubSeq(s, 1, n) \in Seq(S)
      /\ Len(SubSeq(s, 1, n)) = IF 1 <= n THEN n - 1 + 1 ELSE 0
      /\ \A i \in 1..n - 1 + 1 : SubSeq(s, 1, n)[i] = s[1 + i - 1]
  BY <1>1, SubSeqProperties
<1>3. (IF 1 <= n THEN n - 1 + 1 ELSE 0) = n
  OBVIOUS
<1>4. ASSUME NEW i \in 1..n PROVE SubSeq(s, 1, n)[i] = s[i]
  <2>1. i \in 1..n - 1 + 1 /\ 1 + i - 1 = i
    OBVIOUS
  <2> QED BY <1>2, <2>1
<1> QED BY <1>2, <1>3, <1>4

\* A loop that is opened or closed changes where main will go on, not whether
\* it will look at the queue again.
LEMMA LoopKeepsConsuming ==
  ASSUME TypeOK, OpenLoop \/ CloseLoop
  PROVE  MainConsumes' <=> MainConsumes
<1> USE DEF TypeOK, MainConsumes, Consuming, UserCode
<1>1. CASE OpenLoop
  <2>1. at \in UserCode /\ at' = "pump" /\ suspended' = Append(suspended, at)
    BY <1>1 DEF OpenLoop, MainAt
  <2>2. /\ DOMAIN suspended' = DOMAIN suspended \cup {Len(suspended) + 1}
        /\ suspended'[Len(suspended) + 1] = at
        /\ \A i \in DOMAIN suspended : suspended'[i] = suspended[i]
    BY <2>1, SMTT(40)
  <2> QED BY <2>1, <2>2
<1>2. CASE CloseLoop
  <2>1. /\ at = "pump" /\ at' = suspended[Len(suspended)]
        /\ Len(suspended) \in DOMAIN suspended
        /\ suspended' = SubSeq(suspended, 1, Len(suspended) - 1)
    BY <1>2 DEF CloseLoop, MainAt
  <2>2. /\ DOMAIN suspended = DOMAIN suspended' \cup {Len(suspended)}
        /\ \A i \in DOMAIN suspended' : suspended'[i] = suspended[i]
    <3>1. PICK n \in Nat : Len(suspended) = n + 1
      <4>1. Len(suspended) \in Nat /\ 1 <= Len(suspended)
        BY <2>1
      <4>2. \A k \in Nat : 1 <= k => \E n \in Nat : k = n + 1
        <5>1. ASSUME NEW k \in Nat, 1 <= k PROVE k - 1 \in Nat /\ k = (k - 1) + 1
          BY <5>1
        <5> QED BY <5>1
      <4> QED BY <4>1, <4>2
    <3>2. suspended' = SubSeq(suspended, 1, n)
      BY <2>1, <3>1
    <3>3. /\ suspended' \in Seq(UserCode) /\ Len(suspended') = n
          /\ \A i \in 1..n : suspended'[i] = suspended[i]
      BY <3>1, <3>2, SubSeqShorter DEF TypeOK
    <3>4. DOMAIN suspended' = 1..n /\ DOMAIN suspended = 1..n + 1
      BY <3>1, <3>3
    <3> QED BY <3>1, <3>3, <3>4
  <2>3. at' \in UserCode
    BY <2>1
  <2> QED BY <2>1, <2>2, <2>3, Zenon
<1> QED BY <1>1, <1>2

LEMMA WakeUpKept == IInv /\ [Next]_vars => NoLostWakeUp'
<1> SUFFICES ASSUME IInv, [Next]_vars PROVE NoLostWakeUp'
  OBVIOUS
<1>0. TypeOK /\ NoLostWakeUp
  BY DEF IInv
<1> USE BoundAssumption, <1>0
    DEF NoLostWakeUp, FlagUpIsServed, FlagDownIsNoticed, queueVars, mainVars
<1>1. ASSUME NEW t \in Thread, NEW k \in Task, Enqueue(t, k) PROVE NoLostWakeUp'
  BY <1>1 DEF Enqueue, TypeOK, MainConsumes
<1>2. ASSUME NEW t \in Thread, Dispatch(t) PROVE NoLostWakeUp'
  <2>1. CASE Swap(t)
    BY <2>1 DEF Swap, TypeOK, MainConsumes
  <2>2. CASE Post(t)
    BY <2>2 DEF Post, TypeOK
  <2>3. CASE PostFails(t)
    BY <2>3 DEF PostFails, TypeOK, MainConsumes, QueueEmpty
  <2> QED BY <1>2, <2>1, <2>2, <2>3 DEF Dispatch
<1>3. CASE GetMessage
  BY <1>3 DEF GetMessage, TypeOK, MainConsumes, Consuming
<1>4. CASE RunForeground
  <2> USE DEF MainConsumes, Consuming, MainAt
  <2>1. CASE Pop
    BY <2>1, Popped DEF Pop, PopFirstOfClone
  <2>2. CASE FinishTask \/ FoundEmpty \/ TimedOut \/ EndInput
    BY <2>2 DEF FinishTask, FoundEmpty, TimedOut, EndInput
  <2>3. CASE Clear \/ Reflag
    BY <2>3 DEF Clear, Reflag
  <2>4. CASE Recheck
    BY <2>4, Popped DEF Recheck, PopFirstOfClone, QueueEmpty
  <2>5. CASE Repost \/ RepostFails
    BY <2>5 DEF Repost, RepostFails, TypeOK
  <2> QED BY <1>4, <2>1, <2>2, <2>3, <2>4, <2>5 DEF RunForeground
<1>5. CASE OpenLoop \/ CloseLoop
  <2>1. at \notin {"recheck", "reflag"}
    BY <1>5 DEF OpenLoop, CloseLoop, MainAt, UserCode
  <2>2. UNCHANGED <<wakePosted, posted, lost, stranded, pc, normal, low>>
    BY <1>5 DEF OpenLoop, CloseLoop
  <2> QED BY <1>5, <2>1, <2>2, LoopKeepsConsuming DEF QueueEmpty
<1>6. CASE Drain
  <2>1. UNCHANGED <<wakePosted, posted, lost, stranded, pc>>
    BY <1>6 DEF Drain, Timer, DrainPop, DrainNext, DrainEnd
  <2>2. MainConsumes' <=> MainConsumes
    BY <1>6 DEF Drain, Timer, DrainPop, DrainNext, DrainEnd, MainAt, MainConsumes, Consuming
  <2>3. QueueEmpty => QueueEmpty'
    BY <1>6, Popped DEF Drain, Timer, DrainPop, DrainNext, DrainEnd, PopFirstOfClone, PopAny,
                        QueueEmpty
  <2>4. at \notin {"recheck", "reflag"}
    BY <1>6 DEF Drain, Timer, DrainPop, DrainNext, DrainEnd, MainAt
  <2> QED BY <2>1, <2>2, <2>3, <2>4
<1>7. CASE UNCHANGED vars
  BY <1>7 DEF vars, MainConsumes, QueueEmpty
<1> QED BY <1>1, <1>2, <1>3, <1>4, <1>5, <1>6, <1>7 DEF Next

-----------------------------------------------------------------------------
\* The second look that run_foreground_task takes after it clears wake_posted is
\* enough: as long as no dispatch fails to post, a queued task always has a
\* message, a thread that is about to post one, or main itself coming for it.
THEOREM WakeUpsSafe == Spec => []NoLostWakeUp
<1>1. IInv /\ [Next]_vars => IInv'
  BY TypesKept, WakeUpKept DEF IInv
<1>2. IInv => NoLostWakeUp
  BY DEF IInv
<1> QED BY <1>1, <1>2, InitIInv, PTL DEF Spec

\* Every variable keeps its type; in particular each task waits in the queue of
\* its priority (dispatch_on_main_thread), and the thread's message queue never
\* holds more than MaxPosted messages to run_foreground_task.
THEOREM TypesSafe == Spec => []TypeOK
<1>1. Init => TypeOK
  BY InitIInv DEF IInv
<1> QED BY <1>1, TypesKept, PTL DEF Spec
=============================================================================
