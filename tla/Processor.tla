----------------------------- MODULE Processor -----------------------------
(***************************************************************************)
(* CProcessor (src/processor.cpp, include/utility/processor.h): one        *)
(* processor thread, three task queues served by priority, one queue of    *)
(* synchronous tasks, and any number of calling threads inside PostTask,   *)
(* SendTask and Stop.                                                      *)
(*                                                                         *)
(* A call is identified with the task it carries, so a queue is a sequence *)
(* of calls.  An RWQueue is a sequence whose push is visible (the tail     *)
(* advances) one step before it is counted (++m_nSize), which is what      *)
(* module RWQueue shows of rwqueue.h.                                      *)
(*                                                                         *)
(* Time is left out.  m_runCond is waited on for at most 50 ms, so the     *)
(* processor thread comes round by itself, with or without a notification: *)
(* neither the wait nor the notifications that shorten it are a step here. *)
(***************************************************************************)
EXTENDS Integers, Sequences, FiniteSets

CONSTANTS
  PostCall,   \* calls of PostTask
  SendCall,   \* calls of SendTask
  StopCall,   \* calls of Stop
  None,       \* no call
  Priority,   \* the priority each PostTask is given
  Timed,      \* the SendTask calls with an nWaitTime other than -1
  OwnThread,  \* calls made by a task, on the processor's own thread
  Repeat,     \* posts and sends that their caller makes again once the task ran
  After,      \* <<b, c>>: the thread that calls c called b before
  Spurious    \* whether a condition variable may wake up by itself

Call == PostCall \cup SendCall \cup StopCall
Level == {"HIGHT", "NORMAL", "LOW"}

ASSUME CallAssumption ==
  /\ PostCall \cap SendCall = {}
  /\ PostCall \cap StopCall = {}
  /\ SendCall \cap StopCall = {}
  /\ None \notin Call

ASSUME ParameterAssumption ==
  /\ Priority \in [PostCall -> Level]
  /\ Timed \subseteq SendCall
  /\ OwnThread \subseteq PostCall \cup SendCall
  /\ Repeat \subseteq PostCall \cup SendCall
  /\ After \subseteq Call \X Call
  /\ Spurious \in BOOLEAN

VARIABLES
  eState,    \* m_eState
  queue,     \* m_hight, m_normal and m_low, by level
  sysQueue,  \* m_sysQueue
  pc,        \* where each call is; "true" and "false" are its answers
  task,      \* pSysTask->eState of each SendTask, "none" before it exists
  deletes,   \* how often the SSysTask of each SendTask was deleted
  ran,       \* how often the task of each call was executed
  at,        \* where the processor thread is
  cur,       \* the SSysTask the processor thread is dealing with
  que,       \* the level RunAll looks at
  left,      \* the tasks InternalDealTask still has to execute
  promised   \* posts answered TRUE before Stop, whose task has not run since

callVars == <<pc, task, deletes>>
workerVars == <<at, cur, que, left>>
vars == <<eState, queue, sysQueue, callVars, ran, workerVars, promised>>

EState == [RUNNING |-> 0, PAUSE |-> 1, STOPPING |-> 2, STOPED |-> 3]
Above(s) == EState[eState] > EState[s]

Answered(c) == pc[c] \in {"true", "false"}

(***************************************************************************)
(* The queues.  A push holds the queue's mutex until it is counted, so at  *)
(* most one push of a queue is visible and not counted.                    *)
(***************************************************************************)
(* Mistake: InternalStop is pushed on the queue served first. *)
QueueOf_StopFirst(c) == IF c \in StopCall THEN "HIGHT" ELSE Priority[c]

QueueOf(c) == IF c \in StopCall THEN "NORMAL" ELSE Priority[c]

Counting(q) ==
  \E c \in PostCall \cup StopCall : pc[c] = "count" /\ QueueOf(c) = q

(* Mistake: the size misses one task. *)
Size_OneLess(q) == IF Counting(q) THEN Len(queue[q]) - 2 ELSE Len(queue[q]) - 1

Size(q) == IF Counting(q) THEN Len(queue[q]) - 1 ELSE Len(queue[q])

Lower == [HIGHT |-> "NORMAL", NORMAL |-> "LOW"]

-----------------------------------------------------------------------------
Init ==
  /\ eState = "STOPED"
  /\ queue = [q \in Level |-> <<>>]
  /\ sysQueue = <<>>
  /\ pc = [c \in Call |-> "idle"]
  /\ task = [c \in SendCall |-> "none"]
  /\ deletes = [c \in SendCall |-> 0]
  /\ ran = [c \in Call |-> 0]
  /\ at = "start"
  /\ cur = None
  /\ que = "HIGHT"
  /\ left = 0
  /\ promised = {}

(***************************************************************************)
(* The calling threads.                                                    *)
(***************************************************************************)

(* The processor thread is inside a task of a caller. *)
InTask ==
  \/ at = "sysRun"
  \/ at = "task" /\ Head(queue[que]) \notin StopCall

(* AllocProcessor hands the processor out once Run has set the promise; a  *)
(* call on the processor's own thread is made by the task it executes.     *)
MayBegin(c) ==
  /\ pc[c] = "idle"
  /\ at # "start"
  /\ c \in OwnThread => InTask
  /\ \A b \in Call : <<b, c>> \in After => Answered(b)

Goto(c, place) == pc' = [pc EXCEPT ![c] = place]

(* Mistake: PostTask does not look at m_eState. *)
PostCheck_Unchecked(c) ==
  /\ MayBegin(c)
  /\ Goto(c, "push")
  /\ UNCHANGED <<eState, queue, sysQueue, task, deletes, ran, workerVars,
                 promised>>

PostCheck(c) ==
  /\ MayBegin(c)
  /\ Goto(c, IF Above("PAUSE") THEN "false" ELSE "push")
  /\ UNCHANGED <<eState, queue, sysQueue, task, deletes, ran, workerVars,
                 promised>>

(* Mistake: the queue is a stack. *)
Push_AtFront(c) ==
  /\ pc[c] = "push"
  /\ ~Counting(QueueOf(c))
  /\ queue' = [queue EXCEPT ![QueueOf(c)] = <<c>> \o @]
  /\ Goto(c, "count")
  /\ UNCHANGED <<eState, sysQueue, task, deletes, ran, workerVars, promised>>

(* RWQueue::push up to the advance of the tail. *)
Push(c) ==
  /\ pc[c] = "push"
  /\ ~Counting(QueueOf(c))
  /\ queue' = [queue EXCEPT ![QueueOf(c)] = Append(@, c)]
  /\ Goto(c, "count")
  /\ UNCHANGED <<eState, sysQueue, task, deletes, ran, workerVars, promised>>

(* ++m_nSize, and the answer. *)
Count(c) ==
  /\ pc[c] = "count"
  /\ Goto(c, "true")
  /\ UNCHANGED <<eState, queue, sysQueue, task, deletes, ran, workerVars,
                 promised>>

(* The caller makes the call again once its task ran.  A SendTask has a    *)
(* new SSysTask each time: its caller waits until the processor thread has *)
(* let go of the last one (SysNotify), so that `cur' says which is meant.  *)
Reissue(c) ==
  /\ pc[c] = "true"
  /\ ran[c] = 1
  /\ cur # c
  /\ Goto(c, "idle")
  /\ ran' = [ran EXCEPT ![c] = 0]
  /\ task' = [d \in SendCall |-> IF d = c THEN "none" ELSE task[d]]
  /\ deletes' = [d \in SendCall |-> IF d = c THEN 0 ELSE deletes[d]]
  /\ UNCHANGED <<eState, queue, sysQueue, workerVars, promised>>

(* Stop is called under the mutex of CProcessorMgr, so no other Stop comes *)
(* between its test of m_eState and its assignment.                        *)
Stop(c) ==
  /\ MayBegin(c)
  /\ IF Above("PAUSE")
       THEN /\ Goto(c, "true")
            /\ UNCHANGED <<eState, promised>>
       ELSE /\ eState' = "STOPPING"
            /\ promised' = {b \in PostCall : pc[b] = "true" /\ ran[b] = 0}
            /\ Goto(c, "push")
  /\ UNCHANGED <<queue, sysQueue, task, deletes, ran, workerVars>>

SendCheck(c) ==
  /\ MayBegin(c)
  /\ Goto(c, IF Above("RUNNING") THEN "false"
             ELSE IF c \in OwnThread THEN "inline" ELSE "send")
  /\ UNCHANGED <<eState, queue, sysQueue, task, deletes, ran, workerVars,
                 promised>>

(* task() on the processor's own thread, inside the task that called. *)
SendInline(c) ==
  /\ pc[c] = "inline"
  /\ ran' = [ran EXCEPT ![c] = @ + 1]
  /\ Goto(c, "inlined")
  /\ UNCHANGED <<eState, queue, sysQueue, task, deletes, workerVars, promised>>

InlineReturn(c) ==
  /\ pc[c] = "inlined"
  /\ Goto(c, "true")
  /\ UNCHANGED <<eState, queue, sysQueue, task, deletes, ran, workerVars,
                 promised>>

(* new SSysTask, and its push on m_sysQueue (whose size nobody reads). *)
SendPush(c) ==
  /\ pc[c] = "send"
  /\ sysQueue' = Append(sysQueue, c)
  /\ task' = [task EXCEPT ![c] = "WAITING"]
  /\ Goto(c, "lock")
  /\ UNCHANGED <<eState, queue, deletes, ran, workerVars, promised>>

(* stateMutex of c is held across steps only while its task is executed.   *)
MutexFree(c) == ~(at = "sysRun" /\ cur = c)

(* The task is dealt with: delete it and answer TRUE. *)
SendDone(c) ==
  /\ pc[c] \in {"lock", "woken"}
  /\ MutexFree(c)
  /\ task[c] = "DEALED"
  /\ deletes' = [deletes EXCEPT ![c] = @ + 1]
  /\ Goto(c, "true")
  /\ UNCHANGED <<eState, queue, sysQueue, task, ran, workerVars, promised>>

(* The task is not dealt with yet: release the mutex and wait, once. *)
SendWait(c) ==
  /\ pc[c] = "lock"
  /\ MutexFree(c)
  /\ task[c] # "DEALED"
  /\ Goto(c, "waiting")
  /\ UNCHANGED <<eState, queue, sysQueue, task, deletes, ran, workerVars,
                 promised>>

(* Mistake: the sender deletes the SSysTask it gives up. *)
SendTimeout_Deletes(c) ==
  /\ pc[c] = "woken"
  /\ MutexFree(c)
  /\ task[c] # "DEALED"
  /\ task' = [task EXCEPT ![c] = "TIMEOUT"]
  /\ deletes' = [deletes EXCEPT ![c] = @ + 1]
  /\ Goto(c, "false")
  /\ UNCHANGED <<eState, queue, sysQueue, ran, workerVars, promised>>

(* The wait ends, and the task is still not dealt with: give it up. *)
SendTimeout(c) ==
  /\ pc[c] = "woken"
  /\ MutexFree(c)
  /\ task[c] # "DEALED"
  /\ task' = [task EXCEPT ![c] = "TIMEOUT"]
  /\ Goto(c, "false")
  /\ UNCHANGED <<eState, queue, sysQueue, deletes, ran, workerVars, promised>>

(* wait_for runs out of time. *)
TimerExpires(c) ==
  /\ pc[c] = "waiting"
  /\ c \in Timed
  /\ Goto(c, "woken")
  /\ UNCHANGED <<eState, queue, sysQueue, task, deletes, ran, workerVars,
                 promised>>

(* wait and wait_for may return without a notification. *)
SpuriousWake(c) ==
  /\ pc[c] = "waiting"
  /\ Spurious
  /\ Goto(c, "woken")
  /\ UNCHANGED <<eState, queue, sysQueue, task, deletes, ran, workerVars,
                 promised>>

-----------------------------------------------------------------------------
(***************************************************************************)
(* The processor thread.                                                   *)
(***************************************************************************)
Run ==
  /\ at = "start"
  /\ eState' = "RUNNING"
  /\ at' = "loop"
  /\ UNCHANGED <<queue, sysQueue, callVars, ran, cur, que, left, promised>>

(* The head of Run's loop and the test of RunOneSys: m_eState becomes      *)
(* STOPED by an act of this thread only.                                   *)
Loop ==
  /\ at = "loop"
  /\ \/ /\ eState = "STOPED"
        /\ at' = "exit"
        /\ UNCHANGED <<sysQueue, cur>>
     \/ /\ eState # "STOPED"
        /\ sysQueue # <<>>
        /\ cur' = Head(sysQueue)
        /\ sysQueue' = Tail(sysQueue)
        /\ at' = "sysLock"
     \/ /\ eState # "STOPED"
        /\ sysQueue = <<>>
        /\ at' = "pick"
        /\ UNCHANGED <<sysQueue, cur>>
  /\ UNCHANGED <<eState, queue, callVars, ran, que, left, promised>>

(* Mistake: a task is executed without a look at its state. *)
DealSys_Always ==
  /\ at = "sysLock"
  /\ task' = [task EXCEPT ![cur] = "DEALING"]
  /\ at' = "sysRun"
  /\ UNCHANGED <<eState, queue, sysQueue, pc, deletes, ran, cur, que, left,
                 promised>>

(* InternalDealSysTask takes stateMutex, and deals with the task ...       *)
DealSys ==
  /\ at = "sysLock"
  /\ task[cur] = "WAITING"
  /\ task' = [task EXCEPT ![cur] = "DEALING"]
  /\ at' = "sysRun"
  /\ UNCHANGED <<eState, queue, sysQueue, pc, deletes, ran, cur, que, left,
                 promised>>

(* Mistake: a task that was given up is forgotten. *)
DropSys_Leaks ==
  /\ at = "sysLock"
  /\ task[cur] # "WAITING"
  /\ at' = "loop"
  /\ cur' = None
  /\ UNCHANGED <<eState, queue, sysQueue, callVars, ran, que, left, promised>>

(* ... or throws it away, if its sender gave it up. *)
DropSys ==
  /\ at = "sysLock"
  /\ task[cur] # "WAITING"
  /\ deletes' = [deletes EXCEPT ![cur] = @ + 1]
  /\ at' = "loop"
  /\ cur' = None
  /\ UNCHANGED <<eState, queue, sysQueue, pc, task, ran, que, left, promised>>

(* A task returns when the calls it made have returned. *)
TaskReturns == \A c \in OwnThread : pc[c] = "idle" \/ Answered(c)

(* The task returns: DEALED, and stateMutex is released. *)
SysDealt ==
  /\ at = "sysRun"
  /\ TaskReturns
  /\ ran' = [ran EXCEPT ![cur] = @ + 1]
  /\ task' = [task EXCEPT ![cur] = "DEALED"]
  /\ at' = "sysNotify"
  /\ UNCHANGED <<eState, queue, sysQueue, pc, deletes, cur, que, left, promised>>

(* cond.notify_one, after the mutex was released. *)
SysNotify ==
  /\ at = "sysNotify"
  /\ pc' = IF pc[cur] = "waiting" THEN [pc EXCEPT ![cur] = "woken"] ELSE pc
  /\ at' = "loop"
  /\ cur' = None
  /\ UNCHANGED <<eState, queue, sysQueue, task, deletes, ran, que, left,
                 promised>>

(* RunAll tests one queue after the other; InternalDealTask reads the size *)
(* of the one it takes, once.                                              *)
Pick ==
  /\ at = "pick"
  /\ \/ /\ queue[que] # <<>>
        /\ left' = Size(que)
        /\ at' = "batch"
        /\ UNCHANGED que
     \/ /\ queue[que] = <<>>
        /\ que # "LOW"
        /\ que' = Lower[que]
        /\ UNCHANGED <<at, left>>
     \/ /\ queue[que] = <<>>
        /\ que = "LOW"
        /\ que' = "HIGHT"
        /\ at' = "loop"
        /\ UNCHANGED left
  /\ UNCHANGED <<eState, queue, sysQueue, callVars, ran, cur, promised>>

(* Mistake: the batch lasts until the queue is empty. *)
Batch_UntilEmpty ==
  /\ at = "batch"
  /\ IF queue[que] # <<>>
       THEN at' = "task" /\ left' = 1 /\ UNCHANGED que
       ELSE at' = "loop" /\ left' = 0 /\ que' = "HIGHT"
  /\ UNCHANGED <<eState, queue, sysQueue, callVars, ran, cur, promised>>

Batch ==
  /\ at = "batch"
  /\ IF left > 0
       THEN at' = "task" /\ UNCHANGED que
       ELSE at' = "loop" /\ que' = "HIGHT"
  /\ UNCHANGED <<eState, queue, sysQueue, callVars, ran, cur, left, promised>>

(* The task at the front returns and is popped; InternalStop is the task   *)
(* of Stop.                                                                *)
TaskDone ==
  /\ at = "task"
  /\ TaskReturns
  /\ LET t == Head(queue[que])
     IN  /\ ran' = [ran EXCEPT ![t] = @ + 1]
         /\ promised' = promised \ {t}
         /\ eState' = IF t \in StopCall THEN "STOPED" ELSE eState
  /\ queue' = [queue EXCEPT ![que] = Tail(@)]
  /\ left' = left - 1
  /\ at' = "batch"
  /\ UNCHANGED <<sysQueue, callVars, cur, que>>

-----------------------------------------------------------------------------
Worker ==
  \/ Run \/ Loop \/ DealSys \/ DropSys \/ SysDealt \/ SysNotify
  \/ Pick \/ Batch \/ TaskDone

(* What a thread inside a call does next. *)
Continue(c) ==
  \/ c \in PostCall \cup StopCall /\ (Push(c) \/ Count(c))
  \/ c \in SendCall /\ (\/ SendInline(c) \/ InlineReturn(c)
                        \/ SendPush(c) \/ SendDone(c) \/ SendWait(c)
                        \/ SendTimeout(c) \/ TimerExpires(c))

Begin ==
  \/ \E c \in PostCall : PostCheck(c)
  \/ \E c \in SendCall : SendCheck(c)
  \/ \E c \in StopCall : Stop(c)

Next ==
  \/ Worker
  \/ Begin
  \/ \E c \in Call : Continue(c)
  \/ \E c \in Repeat : Reissue(c)
  \/ \E c \in SendCall : SpuriousWake(c)

Spec == Init /\ [][Next]_vars

(* The processor thread and the threads inside a call are scheduled.       *)
(* Nobody has to make a call, and no wake-up has to be spurious.           *)
Fairness ==
  /\ WF_vars(Worker)
  /\ \A c \in Call : WF_vars(Continue(c))

FairSpec == Spec /\ Fairness

-----------------------------------------------------------------------------
(***************************************************************************)
(* What must hold.                                                         *)
(***************************************************************************)
Place == {"idle", "push", "count", "send", "lock", "waiting", "woken",
          "inline", "inlined", "true", "false"}

(* The type invariant. *)
TypeOK ==
  /\ eState \in {"RUNNING", "STOPPING", "STOPED"}
  /\ queue \in [Level -> Seq(PostCall \cup StopCall)]
  /\ sysQueue \in Seq(SendCall)
  /\ pc \in [Call -> Place]
  /\ task \in [SendCall -> {"none", "WAITING", "DEALING", "DEALED", "TIMEOUT"}]
  /\ deletes \in [SendCall -> Nat]
  /\ ran \in [Call -> Nat]
  /\ at \in {"start", "loop", "pick", "batch", "task",
             "sysLock", "sysRun", "sysNotify", "exit"}
  /\ cur \in SendCall \cup {None}
  /\ que \in Level
  /\ left \in Nat
  /\ promised \subseteq PostCall

In(c, seq) == \E k \in 1..Len(seq) : seq[k] = c

Queued(c) == In(c, sysQueue)

(* The processor thread still has to lock or to fill in the SSysTask of c. *)
Dealing(c) == cur = c /\ at \in {"sysLock", "sysRun"}

(* Sender and processor thread agree on who deletes an SSysTask, whatever  *)
(* the order of the timeout, the execution and the wake-ups: it is deleted *)
(* at most once, and never while its sender is inside SendTask or the      *)
(* processor thread still has to lock it (the notification of line 128     *)
(* excepted: see NotifyAlive).                                             *)
SysTaskSafe ==
  \A c \in SendCall :
    /\ deletes[c] <= 1
    /\ Queued(c) \/ Dealing(c) => deletes[c] = 0
    /\ pc[c] \in {"lock", "waiting", "woken"} => deletes[c] = 0

(* No SSysTask is forgotten: once its sender has answered, it is deleted   *)
(* or the processor thread will still come across it.                      *)
SysTaskOwned ==
  \A c \in SendCall :
    Answered(c) /\ task[c] # "none" /\ deletes[c] = 0 => Queued(c) \/ Dealing(c)

(* The processor thread ends only after every NORMAL task that PostTask    *)
(* had accepted when Stop was called.                                      *)
StopDrainsNormal ==
  at = "exit" => \A c \in promised : Priority[c] # "NORMAL"

(* Two posts of one thread at one priority run in the order of the calls   *)
(* (of a post made over and over, the later ones come after c).            *)
ProgramOrder ==
  \A b \in PostCall \ Repeat, c \in PostCall :
    /\ <<b, c>> \in After
    /\ Priority[b] = Priority[c]
    /\ pc[b] = "true"
    => ran[b] >= ran[c]

View(place) == IF place \in {"idle", "true", "false"} THEN place ELSE "open"

Answer == [c \in Call |-> View(pc[c])]

Service ==
  INSTANCE TaskService
    WITH Sync <- SendCall, Async <- PostCall \cup StopCall,
         answer <- Answer, executed <- ran

(* The callers see what TaskService promises: a task runs at most once, a  *)
(* SendTask answers TRUE only after its task ran and FALSE only if it      *)
(* never will, and a refused post never runs.                              *)
ImplementsService == Service!Spec

(* A SendTask whose task is queued is answered, even while posts at the    *)
(* highest priority, or other SendTasks, never cease: InternalDealTask     *)
(* executes the tasks it found, not those that arrive.  Only a Stop can    *)
(* leave it unanswered.                                                    *)
SendServed ==
  \A c \in SendCall :
    pc[c] = "lock" ~> Answered(c) \/ eState # "RUNNING"

(* RunOneSys finds a SendTask again and again. *)
SendsNeverCease == []<>(at = "sysLock")

(* A post at the highest priority is executed unless Stop comes, also one  *)
(* whose size was read as zero because its push was not counted yet.  The  *)
(* exception is the code's: RunAll is called only when RunOneSys found     *)
(* nothing, so SendTasks that never cease keep every post from being       *)
(* executed.                                                               *)
HightServed ==
  \/ SendsNeverCease
  \/ \A c \in {p \in PostCall : Priority[p] = "HIGHT"} :
       pc[c] = "true" ~> ran[c] = 1 \/ eState # "RUNNING"

(* A Stop ends the processor thread, even under a load that never ceases:  *)
(* once m_eState is STOPPING, the posts that would delay it are refused.   *)
StopCompletes == eState = "STOPPING" ~> at = "exit"

(* What processor.h:82 and test_thread_processor/main.cpp:59 say of Stop:  *)
(* the tasks posted before it are executed before the thread ends.         *)
StopDrainsAll == at = "exit" => promised = {}

(* What interface_processor.h:39 says of SendTask: without a time limit it *)
(* returns after its task has been dealt with.  A call that was refused    *)
(* because the processor stops has no SSysTask.                            *)
SentIsDealt ==
  \A c \in SendCall \ Timed :
    Answered(c) /\ task[c] # "none" => task[c] = "DEALED"

(* What processor.cpp:84 and :91 say of the deletion: the sender deletes   *)
(* once the processor thread is done with the SSysTask.                    *)
NotifyAlive == at = "sysNotify" => deletes[cur] = 0
=============================================================================
