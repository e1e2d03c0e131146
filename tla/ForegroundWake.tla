--------------------------- MODULE ForegroundWake ---------------------------
(***************************************************************************)
(* How the main thread of the Windows platform is woken to run foreground  *)
(* tasks (platform/windows: dispatcher.rs, platform.rs, events.rs).  Any   *)
(* thread pushes a task into the priority queue and posts a window message *)
(* unless wake_posted says that one is on its way; main takes the message, *)
(* runs tasks until the queue is empty or ten milliseconds are over,       *)
(* clears the flag and looks once more.  Tasks, paint and input handlers   *)
(* may run a message loop of their own (a dialog, a window being sized).   *)
(***************************************************************************)
EXTENDS Integers, Sequences, FiniteSets

CONSTANTS
  Main,           \* the thread of the message loop
  Background,     \* the other threads that dispatch
  Task,           \* foreground tasks; each may be dispatched again and again
  LowTask,        \* those of TaskPriority::Low
  PostMayFail,    \* whether PostMessageW may fail for reasons of its own
  MaxPosted,      \* messages the thread's queue takes; PostMessageW fails beyond
  MaxDepth        \* how many message loops may be open inside one another

Thread == {Main} \cup Background

ASSUME ThreadAssumption == Main \notin Background
ASSUME TaskAssumption == LowTask \subseteq Task
ASSUME BoundAssumption == /\ PostMayFail \in BOOLEAN
                          /\ MaxPosted \in Nat \ {0}
                          /\ MaxDepth \in Nat

VARIABLES
  normal, low,    \* the queues of main_receiver, each task in that of its priority
  wakePosted,     \* wake_posted
  posted,         \* WM_LUCIE_TASK_DISPATCHED_ON_MAIN_THREAD messages in main's queue
  pc,             \* [Thread -> DispatchLabel], where a dispatch is
  at,             \* what main is doing
  suspended,      \* what it was doing when each open message loop was entered
  lost,           \* a dispatch failed to post its message
  stranded        \* the flag is down only because a repost failed

queueVars == <<normal, low>>
mainVars == <<at, suspended>>
vars == <<queueVars, wakePosted, posted, pc, mainVars, lost, stranded>>

DispatchLabel == {"idle", "swap", "post"}

\* pump: GetMessage.  tasks..rerun and input, repost: inside
\* run_foreground_task.  drain..: inside the timer handler of a window that is
\* being moved or sized.
UserCode == {"run", "rerun", "input", "drainrun"}
MainLabel == UserCode \cup
             {"pump", "tasks", "clear", "recheck", "reflag", "repost", "drain", "drainmore"}

TypeOK ==
  /\ normal \in Seq(Task \ LowTask)
  /\ low \in Seq(LowTask)
  /\ wakePosted \in BOOLEAN
  /\ posted \in 0..MaxPosted
  /\ pc \in [Thread -> DispatchLabel]
  /\ at \in MainLabel
  /\ suspended \in Seq(UserCode)
  /\ lost \in BOOLEAN
  /\ stranded \in BOOLEAN

Init ==
  /\ normal = << >> /\ low = << >>
  /\ wakePosted = FALSE
  /\ posted = 0
  /\ pc = [t \in Thread |-> "idle"]
  /\ at = "pump"
  /\ suspended = << >>
  /\ lost = FALSE
  /\ stranded = FALSE

-----------------------------------------------------------------------------
Elements(s) == {s[i] : i \in DOMAIN s}
Queued(k) == k \in Elements(normal) \cup Elements(low)
QueueEmpty == normal = << >> /\ low = << >>

\* Main goes on with its own code when no dispatch of its own is half done.
MainAt(label) == at = label /\ pc[Main] = "idle"

-----------------------------------------------------------------------------
(* WindowsDispatcher::dispatch_on_main_thread, on every thread *)

\* Mutant: dispatches without the priority.
EnqueueOfNoPriority(t, k) ==
  /\ pc[t] = "idle" /\ ~Queued(k)
  /\ t = Main => at \in UserCode \cup {"pump"}
  /\ normal' = Append(normal, k)
  /\ pc' = [pc EXCEPT ![t] = "swap"]
  /\ UNCHANGED <<low, wakePosted, posted, mainVars, lost, stranded>>

\* Main dispatches from a task or from a handler of the message loop.
Enqueue(t, k) ==
  /\ pc[t] = "idle" /\ ~Queued(k)
  /\ t = Main => at \in UserCode \cup {"pump"}
  /\ IF k \in LowTask
     THEN low' = Append(low, k) /\ UNCHANGED normal
     ELSE normal' = Append(normal, k) /\ UNCHANGED low
  /\ pc' = [pc EXCEPT ![t] = "swap"]
  /\ UNCHANGED <<wakePosted, posted, mainVars, lost, stranded>>

\* wake_posted.swap(true): only who found it down posts.
Swap(t) ==
  /\ pc[t] = "swap"
  /\ wakePosted' = TRUE
  /\ pc' = [pc EXCEPT ![t] = IF wakePosted THEN "idle" ELSE "post"]
  /\ stranded' = FALSE
  /\ UNCHANGED <<queueVars, posted, mainVars, lost>>

Post(t) ==
  /\ pc[t] = "post" /\ posted < MaxPosted
  /\ posted' = posted + 1
  /\ pc' = [pc EXCEPT ![t] = "idle"]
  /\ UNCHANGED <<queueVars, wakePosted, mainVars, lost, stranded>>

\* The error is logged and nothing else; while messages of this kind fill the
\* queue that loses nothing.
PostFails(t) ==
  /\ pc[t] = "post" /\ (PostMayFail \/ posted = MaxPosted)
  /\ pc' = [pc EXCEPT ![t] = "idle"]
  /\ lost' = (lost \/ posted < MaxPosted)
  /\ UNCHANGED <<queueVars, wakePosted, posted, mainVars, stranded>>

-----------------------------------------------------------------------------
(* Popping: PriorityQueueReceiver::pop_inner *)

PopNormal == normal # << >> /\ normal' = Tail(normal) /\ UNCHANGED low
PopLow == low # << >> /\ low' = Tail(low) /\ UNCHANGED normal

\* A clone of the receiver starts its generator from seed 0, and the first
\* number of that sequence is below 70/100: the loaded die falls on Normal.
PopFirstOfClone == IF normal # << >> THEN PopNormal ELSE PopLow

\* Later numbers of the same clone: either side.
PopAny == PopNormal \/ PopLow

-----------------------------------------------------------------------------
(* WindowsPlatformInner::run_foreground_task and the message loops *)

GetMessage ==
  /\ MainAt("pump") /\ posted > 0
  /\ posted' = posted - 1
  /\ at' = "tasks"
  /\ UNCHANGED <<queueVars, wakePosted, pc, suspended, lost, stranded>>

Pop ==
  /\ MainAt("tasks")
  /\ PopFirstOfClone
  /\ at' = "run"
  /\ UNCHANGED <<wakePosted, posted, pc, suspended, lost, stranded>>

FinishTask ==
  /\ MainAt("run") \/ MainAt("rerun")
  /\ at' = "tasks"
  /\ UNCHANGED <<queueVars, wakePosted, posted, pc, suspended, lost, stranded>>

FoundEmpty ==
  /\ MainAt("tasks") /\ QueueEmpty
  /\ at' = "clear"
  /\ UNCHANGED <<queueVars, wakePosted, posted, pc, suspended, lost, stranded>>

Clear ==
  /\ MainAt("clear")
  /\ wakePosted' = FALSE
  /\ at' = "recheck"
  /\ UNCHANGED <<queueVars, posted, pc, suspended, lost, stranded>>

\* Mutant: returns without a second look.
RecheckNothing ==
  /\ MainAt("recheck")
  /\ at' = "pump"
  /\ UNCHANGED <<queueVars, wakePosted, posted, pc, suspended, lost, stranded>>

\* "Someone could enqueue a Runnable here."
Recheck ==
  /\ MainAt("recheck")
  /\ \/ PopFirstOfClone /\ at' = "reflag"
     \/ QueueEmpty /\ at' = "pump" /\ UNCHANGED queueVars
  /\ UNCHANGED <<wakePosted, posted, pc, suspended, lost, stranded>>

Reflag ==
  /\ MainAt("reflag")
  /\ wakePosted' = TRUE
  /\ stranded' = FALSE
  /\ at' = "rerun"
  /\ UNCHANGED <<queueVars, posted, pc, suspended, lost>>

\* MAIN_TASK_TIMEOUT is over: one paint and all input messages first,
TimedOut ==
  /\ MainAt("tasks")
  /\ at' = "input"
  /\ UNCHANGED <<queueVars, wakePosted, posted, pc, suspended, lost, stranded>>

EndInput ==
  /\ MainAt("input")
  /\ at' = "repost"
  /\ UNCHANGED <<queueVars, wakePosted, posted, pc, suspended, lost, stranded>>

\* Mutant: leaves it to the next dispatch to post.
RepostForgotten ==
  /\ MainAt("repost")
  /\ at' = "pump"
  /\ UNCHANGED <<queueVars, wakePosted, posted, pc, suspended, lost, stranded>>

\* then a message to come back, with the flag left up.
Repost ==
  /\ MainAt("repost") /\ posted < MaxPosted
  /\ posted' = posted + 1
  /\ at' = "pump"
  /\ UNCHANGED <<queueVars, wakePosted, pc, suspended, lost, stranded>>

RepostFails ==
  /\ MainAt("repost") /\ (PostMayFail \/ posted = MaxPosted)
  /\ wakePosted' = FALSE
  /\ stranded' = (posted = 0)
  /\ at' = "pump"
  /\ UNCHANGED <<queueVars, posted, pc, suspended, lost>>

\* A task or a handler opens a message loop, and main returns from it.
OpenLoop ==
  /\ \E label \in UserCode : MainAt(label)
  /\ Len(suspended) < MaxDepth
  /\ suspended' = Append(suspended, at)
  /\ at' = "pump"
  /\ UNCHANGED <<queueVars, wakePosted, posted, pc, lost, stranded>>

CloseLoop ==
  /\ MainAt("pump") /\ suspended # << >>
  /\ at' = suspended[Len(suspended)]
  /\ suspended' = SubSeq(suspended, 1, Len(suspended) - 1)
  /\ UNCHANGED <<queueVars, wakePosted, posted, pc, lost, stranded>>

-----------------------------------------------------------------------------
(* WindowsWindowInner::handle_timer_msg: a loop that moves or sizes a window *)
(* drains the queue on a timer and leaves the flag alone.                    *)

Timer ==
  /\ MainAt("pump")
  /\ at' = "drain"
  /\ UNCHANGED <<queueVars, wakePosted, posted, pc, suspended, lost, stranded>>

DrainPop ==
  /\ \/ MainAt("drain") /\ PopFirstOfClone
     \/ MainAt("drainmore") /\ PopAny
  /\ at' = "drainrun"
  /\ UNCHANGED <<wakePosted, posted, pc, suspended, lost, stranded>>

DrainNext ==
  /\ MainAt("drainrun")
  /\ at' = "drainmore"
  /\ UNCHANGED <<queueVars, wakePosted, posted, pc, suspended, lost, stranded>>

DrainEnd ==
  /\ MainAt("drain") \/ MainAt("drainmore")
  /\ QueueEmpty
  /\ at' = "pump"
  /\ UNCHANGED <<queueVars, wakePosted, posted, pc, suspended, lost, stranded>>

-----------------------------------------------------------------------------
Dispatch(t) == Swap(t) \/ Post(t) \/ PostFails(t)

RunForeground == \/ Pop \/ FinishTask \/ FoundEmpty \/ Clear \/ Recheck \/ Reflag
                 \/ TimedOut \/ EndInput \/ Repost \/ RepostFails

Drain == Timer \/ DrainPop \/ DrainNext \/ DrainEnd

Next == \/ \E t \in Thread : Dispatch(t) \/ \E k \in Task : Enqueue(t, k)
        \/ GetMessage \/ RunForeground
        \/ OpenLoop \/ CloseLoop
        \/ Drain

Spec == Init /\ [][Next]_vars

\* Threads go on with a dispatch they began; tasks and handlers return,
\* whatever loops they open, and those are closed; a message in the queue is
\* taken; ten milliseconds are not always over before the first task is popped;
\* and the numbers a clone draws after its first fall on both sides.
Fairness == /\ \A t \in Thread : WF_vars(Dispatch(t))
            /\ WF_vars(FoundEmpty) /\ WF_vars(Clear) /\ WF_vars(Recheck)
            /\ WF_vars(Reflag) /\ WF_vars(Repost \/ RepostFails)
            /\ WF_vars(DrainPop) /\ WF_vars(DrainEnd)
            /\ SF_vars(FinishTask) /\ SF_vars(EndInput) /\ SF_vars(DrainNext)
            /\ SF_vars(GetMessage) /\ SF_vars(CloseLoop) /\ SF_vars(Pop)
            /\ SF_vars(DrainPop /\ PopNormal) /\ SF_vars(DrainPop /\ PopLow)

FairSpec == Spec /\ Fairness

-----------------------------------------------------------------------------
(* Properties *)

\* Main, here or below an open message loop, will clear the flag and look.
Consuming == {"tasks", "run", "rerun", "clear", "input", "repost"}
MainConsumes == at \in Consuming \/ \E i \in DOMAIN suspended : suspended[i] \in {"run", "rerun", "input"}

\* No wake-up is lost (the comment of run_foreground_task: "We need to check
\* for those Runnables after we clear the flag").  While the flag is up a
\* message is in the queue or about to be, or main is still to clear the flag;
\* while it is down, whoever put a task in the queue has yet to raise it, or
\* main is at its second look.  Only a PostMessageW that fails breaks this.
FlagUpIsServed ==
  wakePosted => \/ posted > 0 \/ lost
                \/ \E t \in Thread : pc[t] = "post"
                \/ MainConsumes
FlagDownIsNoticed ==
  ~wakePosted /\ ~QueueEmpty =>
     \/ stranded \/ posted > 0
     \/ at \in {"recheck", "reflag"} \/ MainConsumes
     \/ \E t \in Thread : pc[t] = "swap"
NoLostWakeUp == FlagUpIsServed /\ FlagDownIsNoticed

\* Every dispatched task of normal priority is run, however often main is
\* interrupted by dialogs, by input and by its own time-out, unless PostMessageW
\* has failed.
TasksRun == \A k \in Task \ LowTask : Queued(k) ~> (~Queued(k) \/ lost \/ stranded)

\* The die of pop_inner gives tasks of low priority their share while tasks of
\* normal priority keep coming (queue.rs: "algorithm is the loaded die").
LowTasksRun == \A k \in LowTask : Queued(k) ~> ~Queued(k)
=============================================================================
