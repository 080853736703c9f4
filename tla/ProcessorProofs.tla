-------------------------- MODULE ProcessorProofs --------------------------
(***************************************************************************)
(* Theorems on Processor, for any calls, priorities and wake-ups.          *)
(*                                                                         *)
(* Shape is the type invariant with what makes it inductive.  Handshake    *)
(* says what sender and processor thread may do with an SSysTask, by its   *)
(* state.  Delivery says the same of a posted task, by its place in its    *)
(* queue.  The three give SysTaskSafe and SysTaskOwned, and that Processor *)
(* implements TaskService.  StopOrder and PostOrder say which task is in   *)
(* front of which.                                                         *)
(***************************************************************************)
EXTENDS Processor, SequenceTheorems, TLAPS

(* While a batch is executed its queue holds at least what is left of it.  *)
BatchFits ==
  /\ at = "batch" => left <= Len(queue[que])
  /\ at = "task" => 1 <= left /\ left <= Len(queue[que])
  /\ at \in {"sysLock", "sysRun", "sysNotify"} <=> cur # None

Shape == TypeOK /\ BatchFits

NoDuplicate(seq) == \A j, k \in 1..Len(seq) : seq[j] = seq[k] => j = k

(* The SSysTask of c, by its state. *)
Agreed(c) ==
  /\ task[c] = "none" =>
       /\ ~Queued(c) /\ cur # c /\ deletes[c] = 0
       /\ \/ pc[c] \in {"idle", "send", "inline", "false"} /\ ran[c] = 0
          \/ pc[c] \in {"inlined", "true"} /\ ran[c] = 1
  /\ task[c] = "WAITING" =>
       /\ Queued(c) <=> ~(cur = c /\ at = "sysLock")
       /\ cur = c => at = "sysLock"
       /\ pc[c] \in {"lock", "waiting", "woken"}
       /\ deletes[c] = 0 /\ ran[c] = 0
  /\ task[c] = "DEALING" =>
       /\ ~Queued(c) /\ cur = c /\ at = "sysRun"
       /\ pc[c] \in {"lock", "waiting", "woken"}
       /\ deletes[c] = 0 /\ ran[c] = 0
  /\ task[c] = "DEALED" =>
       /\ ~Queued(c) /\ ran[c] = 1
       /\ cur = c => at = "sysNotify"
       /\ \/ pc[c] \in {"lock", "waiting", "woken"} /\ deletes[c] = 0
          \/ pc[c] = "true" /\ deletes[c] = 1
  /\ task[c] = "TIMEOUT" =>
       /\ pc[c] = "false" /\ ran[c] = 0
       /\ cur = c => at = "sysLock"
       /\ \/ Queued(c) /\ cur # c /\ deletes[c] = 0
          \/ ~Queued(c) /\ cur = c /\ deletes[c] = 0
          \/ ~Queued(c) /\ cur # c /\ deletes[c] = 1

Handshake ==
  /\ NoDuplicate(sysQueue)
  /\ \A c \in SendCall : Agreed(c)

(* The task of a post or of a Stop, by the place of the call. *)
Delivered(c) ==
  \/ /\ pc[c] \in {"idle", "push", "false"}
     /\ ran[c] = 0 /\ ~In(c, queue[QueueOf(c)])
  \/ /\ pc[c] \in {"count", "true"}
     /\ ran[c] = 0 /\ In(c, queue[QueueOf(c)])
  \/ /\ pc[c] \in {"count", "true"}
     /\ ran[c] = 1 /\ ~In(c, queue[QueueOf(c)])
  \/ /\ c \in StopCall /\ pc[c] = "true"
     /\ ran[c] = 0 /\ ~In(c, queue["NORMAL"])

Delivery ==
  /\ \A q \in Level :
       /\ NoDuplicate(queue[q])
       /\ \A k \in 1..Len(queue[q]) : QueueOf(queue[q][k]) = q
  /\ \A c \in PostCall \cup StopCall : Delivered(c)

-----------------------------------------------------------------------------
(* Pushing e makes it a member, and keeps a sequence without duplicates.   *)
LEMMA Pushed ==
  ASSUME NEW S, NEW seq \in Seq(S), NEW e \in S
  PROVE  /\ Append(seq, e) \in Seq(S)
         /\ Len(Append(seq, e)) = Len(seq) + 1
         /\ \A d : In(d, Append(seq, e)) <=> In(d, seq) \/ d = e
         /\ NoDuplicate(seq) /\ ~In(e, seq) => NoDuplicate(Append(seq, e))
<1> DEFINE new == Append(seq, e)
<1>1. /\ new \in Seq(S)
      /\ Len(new) = Len(seq) + 1
      /\ \A k \in 1..Len(seq) : new[k] = seq[k]
      /\ new[Len(seq) + 1] = e
  BY AppendProperties
<1>2. Len(seq) \in Nat
  BY LenProperties
<1> HIDE DEF new
<1>3. \A d : In(d, new) <=> In(d, seq) \/ d = e
  BY <1>1, <1>2 DEF In
<1>4. NoDuplicate(seq) /\ ~In(e, seq) => NoDuplicate(new)
  BY <1>1, <1>2 DEF In, NoDuplicate
<1>5. QED
  BY <1>1, <1>3, <1>4 DEF new

(* Popping takes the head out, and nothing else. *)
LEMMA Popped ==
  ASSUME NEW S, NEW seq \in Seq(S), seq # <<>>
  PROVE  /\ Head(seq) \in S
         /\ Tail(seq) \in Seq(S)
         /\ Len(Tail(seq)) = Len(seq) - 1
         /\ Len(seq) >= 1
         /\ seq[1] = Head(seq)
         /\ \A k \in 1..Len(Tail(seq)) : Tail(seq)[k] = seq[k + 1]
         /\ In(Head(seq), seq)
         /\ \A d : In(d, seq) <=> d = Head(seq) \/ In(d, Tail(seq))
         /\ NoDuplicate(seq) =>
              NoDuplicate(Tail(seq)) /\ ~In(Head(seq), Tail(seq))
<1> DEFINE rest == Tail(seq)
           first == Head(seq)
<1>1. /\ first \in S
      /\ rest \in Seq(S)
      /\ Len(rest) = Len(seq) - 1
      /\ \A k \in 1..Len(rest) : rest[k] = seq[k + 1]
  BY HeadTailProperties
<1>2. Len(seq) \in Nat /\ Len(seq) # 0 /\ seq[1] = first
  BY LenProperties, EmptySeq
<1> HIDE DEF rest, first
<1>3. In(first, seq)
  BY <1>2 DEF In
<1>4. \A d : In(d, rest) => In(d, seq)
  BY <1>1, <1>2 DEF In
<1>5. \A d : In(d, seq) => d = first \/ In(d, rest)
  <2> SUFFICES ASSUME NEW d, NEW k \in 1..Len(seq), seq[k] = d, d # first
               PROVE  In(d, rest)
    BY DEF In
  <2>1. k # 1 /\ k - 1 \in 1..Len(rest) /\ rest[k - 1] = seq[k]
    BY <1>1, <1>2
  <2>2. QED
    BY <2>1 DEF In
<1>6. ASSUME NoDuplicate(seq)
      PROVE  NoDuplicate(rest) /\ ~In(first, rest)
  <2>1. NoDuplicate(rest)
    BY <1>1, <1>2, <1>6 DEF NoDuplicate
  <2>2. ASSUME NEW k \in 1..Len(rest), rest[k] = first PROVE FALSE
    <3>1. k + 1 \in 1..Len(seq) /\ 1 \in 1..Len(seq) /\ seq[k + 1] = seq[1]
      BY <1>1, <1>2, <2>2
    <3>2. k + 1 = 1
      BY <3>1, <1>6 DEF NoDuplicate
    <3>3. QED
      BY <3>2
  <2>3. QED
    BY <2>1, <2>2 DEF In
<1>7. QED
  BY <1>1, <1>2, <1>3, <1>4, <1>5, <1>6 DEF rest, first

-----------------------------------------------------------------------------
LEMMA InitShape == Init => Shape
<1>1. <<>> \in Seq(PostCall \cup StopCall) /\ <<>> \in Seq(SendCall)
  BY EmptySeq
<1>2. QED
  BY <1>1 DEF Init, Shape, TypeOK, BatchFits, Place, Level, Call

(* Every step of a call keeps the shape. *)
LEMMA CallShape ==
  ASSUME Shape, Begin \/ (\E c \in Call : Continue(c))
                      \/ (\E c \in Repeat : Reissue(c))
                      \/ (\E c \in SendCall : SpuriousWake(c))
  PROVE  Shape'
<1> USE CallAssumption, ParameterAssumption
<1> USE DEF Shape, TypeOK, BatchFits, Place, Call, Goto, workerVars
<1>1. ASSUME NEW c \in PostCall, PostCheck(c) PROVE Shape'
  BY <1>1 DEF PostCheck
<1>2. ASSUME NEW c \in SendCall, SendCheck(c) PROVE Shape'
  BY <1>2 DEF SendCheck
<1>3. ASSUME NEW c \in StopCall, Stop(c) PROVE Shape'
  BY <1>3 DEF Stop
<1>4. ASSUME NEW c \in PostCall \cup StopCall, Push(c) PROVE Shape'
  <2> DEFINE q == QueueOf(c)
  <2>1. q \in Level
    BY DEF QueueOf, Level
  <2>2. /\ Append(queue[q], c) \in Seq(PostCall \cup StopCall)
        /\ Len(Append(queue[q], c)) = Len(queue[q]) + 1
        /\ Len(queue[q]) \in Nat
    BY <2>1, Pushed, LenProperties
  <2> HIDE DEF q
  <2>3. queue' = [queue EXCEPT ![q] = Append(@, c)]
    BY <1>4 DEF Push, q
  <2>4. /\ queue' \in [Level -> Seq(PostCall \cup StopCall)]
        /\ Len(queue'[que]) = Len(queue[que]) \/ Len(queue'[que]) = Len(queue[que]) + 1
        /\ Len(queue[que]) \in Nat
    BY <2>1, <2>2, <2>3, LenProperties
  <2>5. QED
    BY <1>4, <2>4 DEF Push
<1>5. ASSUME NEW c \in PostCall \cup StopCall, Count(c) PROVE Shape'
  BY <1>5 DEF Count
<1>6. ASSUME NEW c \in Repeat, Reissue(c) PROVE Shape'
  BY <1>6 DEF Reissue
<1>7. ASSUME NEW c \in SendCall, SendInline(c) PROVE Shape'
  BY <1>7 DEF SendInline
<1>8. ASSUME NEW c \in SendCall, InlineReturn(c) PROVE Shape'
  BY <1>8 DEF InlineReturn
<1>9. ASSUME NEW c \in SendCall, SendPush(c) PROVE Shape'
  <2>1. Append(sysQueue, c) \in Seq(SendCall)
    BY Pushed
  <2>2. QED
    BY <1>9, <2>1 DEF SendPush
<1>10. ASSUME NEW c \in SendCall, SendDone(c) PROVE Shape'
  BY <1>10 DEF SendDone
<1>11. ASSUME NEW c \in SendCall, SendWait(c) PROVE Shape'
  BY <1>11 DEF SendWait
<1>12. ASSUME NEW c \in SendCall, SendTimeout(c) PROVE Shape'
  BY <1>12 DEF SendTimeout
<1>13. ASSUME NEW c \in SendCall, TimerExpires(c) \/ SpuriousWake(c) PROVE Shape'
  BY <1>13 DEF TimerExpires, SpuriousWake
<1>14. QED
  BY <1>1, <1>2, <1>3, <1>4, <1>5, <1>6, <1>7, <1>8, <1>9, <1>10, <1>11,
     <1>12, <1>13 DEF Begin, Continue

(* Every step of the processor thread keeps the shape. *)
LEMMA WorkerShape ==
  ASSUME Shape, Worker
  PROVE  Shape'
<1> USE CallAssumption, ParameterAssumption
<1> USE DEF Shape, TypeOK, BatchFits, Place, Call, callVars
<1>0. \A q \in Level : Len(queue[q]) \in Nat /\ (queue[q] # <<>> => Len(queue[q]) >= 1)
  BY LenProperties, Popped
<1>1. CASE Run
  BY <1>1 DEF Run
<1>2. CASE Loop
  <2>1. sysQueue # <<>> => Head(sysQueue) \in SendCall /\ Tail(sysQueue) \in Seq(SendCall)
    BY Popped
  <2>2. QED
    BY <1>2, <2>1 DEF Loop
<1>3. CASE DealSys
  BY <1>3 DEF DealSys
<1>4. CASE DropSys
  BY <1>4 DEF DropSys
<1>5. CASE SysDealt
  BY <1>5 DEF SysDealt
<1>6. CASE SysNotify
  BY <1>6 DEF SysNotify
<1>7. CASE Pick
  <2>1. queue[que] # <<>> => Size(que) \in Nat /\ Size(que) <= Len(queue[que])
    BY <1>0 DEF Size
  <2>2. que # "LOW" => Lower[que] \in Level
    BY DEF Lower, Level
  <2>3. QED
    BY <1>7, <2>1, <2>2 DEF Pick, Level
<1>8. CASE Batch
  BY <1>8, <1>0 DEF Batch, Level
<1>9. CASE TaskDone
  <2>1. at = "task" /\ queue[que] # <<>>
    BY <1>9, EmptySeq DEF TaskDone
  <2>2. /\ Head(queue[que]) \in Call
        /\ Tail(queue[que]) \in Seq(PostCall \cup StopCall)
        /\ Len(Tail(queue[que])) = Len(queue[que]) - 1
    BY <2>1, Popped
  <2>3. /\ queue' \in [Level -> Seq(PostCall \cup StopCall)]
        /\ Len(queue'[que]) = Len(queue[que]) - 1
        /\ left' \in Nat /\ left' <= Len(queue'[que])
    BY <1>9, <2>1, <2>2, <1>0 DEF TaskDone
  <2>4. ran' \in [Call -> Nat] /\ promised' \subseteq PostCall
    BY <1>9, <2>2 DEF TaskDone
  <2>5. QED
    BY <1>9, <2>3, <2>4 DEF TaskDone
<1>10. QED
  BY <1>1, <1>2, <1>3, <1>4, <1>5, <1>6, <1>7, <1>8, <1>9 DEF Worker

LEMMA StutterShape == Shape /\ UNCHANGED vars => Shape'
BY DEF Shape, TypeOK, BatchFits, vars, callVars, workerVars

LEMMA ShapeInvariant == Spec => []Shape
<1>1. Shape /\ [Next]_vars => Shape'
  BY CallShape, WorkerShape, StutterShape DEF Next
<1>2. QED
  BY InitShape, <1>1, PTL DEF Spec

(* Type correctness of CProcessor's state, for any set of calls. *)
THEOREM TypeCorrect == Spec => []TypeOK
<1>1. Shape => TypeOK
  BY DEF Shape
<1>2. QED
  BY ShapeInvariant, <1>1, PTL

-----------------------------------------------------------------------------
LEMMA InitHandshake == Init => Handshake
BY CallAssumption DEF Init, Handshake, Agreed, Queued, In, NoDuplicate, Call

(* The steps that leave m_sysQueue alone keep it free of duplicates, and   *)
(* keep its members.                                                       *)
LEMMA SameSysQueue ==
  ASSUME UNCHANGED sysQueue
  PROVE  /\ \A c : Queued(c)' <=> Queued(c)
         /\ NoDuplicate(sysQueue)' <=> NoDuplicate(sysQueue)
BY DEF Queued, In, NoDuplicate

(* Every step of a call keeps the handshake. *)
LEMMA CallHandshake ==
  ASSUME Shape, Handshake,
         Begin \/ (\E c \in Call : Continue(c))
               \/ (\E c \in Repeat : Reissue(c))
               \/ (\E c \in SendCall : SpuriousWake(c))
  PROVE  Handshake'
<1> USE CallAssumption, ParameterAssumption
<1> USE DEF Call, Goto, workerVars
<1>0. /\ pc \in [Call -> Place] /\ ran \in [Call -> Nat]
      /\ deletes \in [SendCall -> Nat]
      /\ task \in [SendCall -> {"none", "WAITING", "DEALING", "DEALED", "TIMEOUT"}]
      /\ sysQueue \in Seq(SendCall)
  BY DEF Shape, TypeOK
<1>1. ASSUME NEW b \in PostCall \cup StopCall,
             PostCheck(b) \/ Stop(b) \/ Push(b) \/ Count(b) \/ Reissue(b)
      PROVE  Handshake'
  <2>1. UNCHANGED <<sysQueue, at, cur>>
    BY <1>1 DEF PostCheck, Stop, Push, Count, Reissue
  <2>2. \A d \in SendCall : /\ pc'[d] = pc[d] /\ ran'[d] = ran[d]
                            /\ task'[d] = task[d] /\ deletes'[d] = deletes[d]
    BY <1>0, <1>1 DEF PostCheck, Stop, Push, Count, Reissue
  <2>3. QED
    BY <2>1, <2>2, SameSysQueue DEF Handshake, Agreed
<1>2. ASSUME NEW c \in SendCall, SendCheck(c) PROVE Handshake'
  BY <1>0, <1>2, SameSysQueue DEF Handshake, Agreed, SendCheck, MayBegin
<1>3. ASSUME NEW c \in SendCall, SendInline(c) PROVE Handshake'
  BY <1>0, <1>3, SameSysQueue DEF Handshake, Agreed, SendInline
<1>4. ASSUME NEW c \in SendCall, InlineReturn(c) PROVE Handshake'
  BY <1>0, <1>4, SameSysQueue DEF Handshake, Agreed, InlineReturn
<1>5. ASSUME NEW c \in SendCall, SendPush(c) PROVE Handshake'
  <2>1. task[c] = "none" /\ ~Queued(c)
    BY <1>0, <1>5 DEF Handshake, Agreed, SendPush
  <2>2. /\ \A d : Queued(d)' <=> Queued(d) \/ d = c
        /\ NoDuplicate(sysQueue)'
    BY <1>0, <1>5, <2>1, Pushed DEF Handshake, SendPush, Queued
  <2>3. QED
    BY <1>0, <1>5, <2>1, <2>2 DEF Handshake, Agreed, SendPush
<1>6. ASSUME NEW c \in SendCall, SendDone(c) PROVE Handshake'
  BY <1>0, <1>6, SameSysQueue DEF Handshake, Agreed, SendDone
<1>7. ASSUME NEW c \in SendCall, SendWait(c) PROVE Handshake'
  BY <1>0, <1>7, SameSysQueue DEF Handshake, Agreed, SendWait
<1>8. ASSUME NEW c \in SendCall, SendTimeout(c) PROVE Handshake'
  <2>1. task[c] = "WAITING"
    BY <1>0, <1>8 DEF Handshake, Agreed, SendTimeout, MutexFree
  <2>2. QED
    BY <1>0, <1>8, <2>1, SameSysQueue DEF Handshake, Agreed, SendTimeout
<1>9. ASSUME NEW c \in SendCall, TimerExpires(c) \/ SpuriousWake(c)
      PROVE  Handshake'
  BY <1>0, <1>9, SameSysQueue DEF Handshake, Agreed, TimerExpires, SpuriousWake
<1>10. ASSUME NEW c \in SendCall, Reissue(c) PROVE Handshake'
  <2>1. task[c] \in {"none", "DEALED"} /\ ~Queued(c) /\ cur # c
    BY <1>0, <1>10 DEF Handshake, Agreed, Reissue
  <2>2. /\ task'[c] = "none" /\ deletes'[c] = 0 /\ pc'[c] = "idle" /\ ran'[c] = 0
        /\ UNCHANGED <<sysQueue, at, cur>>
    BY <1>0, <1>10 DEF Reissue
  <2>3. \A d \in SendCall \ {c} : /\ pc'[d] = pc[d] /\ ran'[d] = ran[d]
                                  /\ task'[d] = task[d] /\ deletes'[d] = deletes[d]
    BY <1>0, <1>10 DEF Reissue
  <2>4. Agreed(c)'
    BY <2>1, <2>2, SameSysQueue DEF Agreed
  <2>5. \A d \in SendCall \ {c} : Agreed(d)'
    BY <2>2, <2>3, SameSysQueue DEF Handshake, Agreed
  <2>6. QED
    BY <2>2, <2>4, <2>5, SameSysQueue DEF Handshake
<1>11. QED
  BY <1>1, <1>2, <1>3, <1>4, <1>5, <1>6, <1>7, <1>8, <1>9, <1>10 DEF Begin, Continue

(* Every step of the processor thread keeps the handshake. *)
LEMMA WorkerHandshake ==
  ASSUME Shape, Handshake, Worker
  PROVE  Handshake'
<1> USE CallAssumption, ParameterAssumption
<1> USE DEF Call, callVars
<1>0. /\ pc \in [Call -> Place] /\ ran \in [Call -> Nat]
      /\ deletes \in [SendCall -> Nat]
      /\ task \in [SendCall -> {"none", "WAITING", "DEALING", "DEALED", "TIMEOUT"}]
      /\ sysQueue \in Seq(SendCall)
      /\ at \in {"sysLock", "sysRun", "sysNotify"} => cur \in SendCall
      /\ at \notin {"sysLock", "sysRun", "sysNotify"} => cur \notin SendCall
  BY DEF Shape, TypeOK, BatchFits
<1>1. CASE Run \/ Pick \/ Batch
  <2>1. /\ UNCHANGED <<sysQueue, pc, task, deletes, ran, cur>>
        /\ cur \notin SendCall
    BY <1>0, <1>1 DEF Run, Pick, Batch
  <2>2. QED
    BY <2>1, SameSysQueue DEF Handshake, Agreed
<1>2. CASE Loop
  <2>1. CASE UNCHANGED <<sysQueue, cur>>
    BY <1>0, <1>2, <2>1, SameSysQueue DEF Handshake, Agreed, Loop
  <2>2. CASE sysQueue # <<>> /\ cur' = Head(sysQueue) /\ sysQueue' = Tail(sysQueue)
             /\ at' = "sysLock"
    <3>1. /\ cur' \in SendCall /\ Queued(cur') /\ NoDuplicate(sysQueue)'
          /\ \A d : Queued(d)' <=> Queued(d) /\ d # cur'
      BY <1>0, <2>2, Popped DEF Queued, Handshake
    <3>2. UNCHANGED <<pc, task, deletes, ran>> /\ cur \notin SendCall
      BY <1>0, <1>2 DEF Loop
    <3>3. QED
      BY <1>0, <2>2, <3>1, <3>2 DEF Handshake, Agreed
  <2>3. QED
    BY <1>2, <2>1, <2>2 DEF Loop
<1>3. CASE DealSys
  BY <1>0, <1>3, SameSysQueue DEF Handshake, Agreed, DealSys
<1>4. CASE DropSys
  <2>1. task[cur] = "TIMEOUT"
    BY <1>0, <1>4 DEF Handshake, Agreed, DropSys
  <2>2. None \notin SendCall
    OBVIOUS
  <2>3. QED
    BY <1>0, <1>4, <2>1, <2>2, SameSysQueue DEF Handshake, Agreed, DropSys
<1>5. CASE SysDealt
  <2>1. task[cur] = "DEALING"
    BY <1>0, <1>5 DEF Handshake, Agreed, SysDealt
  <2>2. QED
    BY <1>0, <1>5, <2>1, SameSysQueue DEF Handshake, Agreed, SysDealt
<1>6. CASE SysNotify
  <2>1. task[cur] = "DEALED" /\ cur \in SendCall
    BY <1>0, <1>6 DEF Handshake, Agreed, SysNotify
  <2>2. None \notin SendCall
    OBVIOUS
  <2>3. QED
    BY <1>0, <1>6, <2>1, <2>2, SameSysQueue DEF Handshake, Agreed, SysNotify
<1>7. CASE TaskDone
  <2>1. /\ UNCHANGED <<sysQueue, pc, task, deletes, cur>>
        /\ at = "task" /\ at' = "batch" /\ cur \notin SendCall
    BY <1>0, <1>7 DEF TaskDone
  <2>2. \A d \in SendCall : ran'[d] = ran[d]
    <3>1. queue[que] # <<>> /\ queue[que] \in Seq(PostCall \cup StopCall)
      BY <2>1, EmptySeq DEF Shape, TypeOK, BatchFits
    <3>2. Head(queue[que]) \notin SendCall
      BY <3>1, Popped
    <3>3. QED
      BY <1>0, <1>7, <3>2 DEF TaskDone
  <2>3. QED
    BY <2>1, <2>2, SameSysQueue DEF Handshake, Agreed
<1>8. QED
  BY <1>1, <1>2, <1>3, <1>4, <1>5, <1>6, <1>7 DEF Worker

LEMMA StutterHandshake == Handshake /\ UNCHANGED vars => Handshake'
BY SameSysQueue DEF Handshake, Agreed, vars, callVars, workerVars

LEMMA HandshakeInvariant == Spec => []Handshake
<1>1. Shape /\ Handshake /\ [Next]_vars => Handshake'
  BY CallHandshake, WorkerHandshake, StutterHandshake DEF Next
<1>2. QED
  BY InitHandshake, <1>1, ShapeInvariant, PTL DEF Spec

(* An SSysTask is deleted at most once, and never under its sender or      *)
(* before the processor thread has locked it for the last time.            *)
THEOREM SysTaskSafety == Spec => []SysTaskSafe
<1>1. Shape /\ Handshake => SysTaskSafe
  <2> SUFFICES ASSUME Shape, Handshake, NEW c \in SendCall
               PROVE  /\ deletes[c] <= 1
                      /\ Queued(c) \/ Dealing(c) => deletes[c] = 0
                      /\ pc[c] \in {"lock", "waiting", "woken"} => deletes[c] = 0
    BY DEF SysTaskSafe
  <2>1. Agreed(c) /\ task[c] \in {"none", "WAITING", "DEALING", "DEALED", "TIMEOUT"}
    BY DEF Handshake, Shape, TypeOK
  <2>2. QED
    BY <2>1 DEF Agreed, Dealing
<1>2. QED
  BY <1>1, ShapeInvariant, HandshakeInvariant, PTL

(* An SSysTask whose sender has answered is deleted, or will be come       *)
(* across by the processor thread.                                         *)
THEOREM SysTaskOwnership == Spec => []SysTaskOwned
<1>1. Shape /\ Handshake => SysTaskOwned
  <2> SUFFICES ASSUME Shape, Handshake, NEW c \in SendCall,
                      Answered(c), task[c] # "none", deletes[c] = 0
               PROVE  Queued(c) \/ Dealing(c)
    BY DEF SysTaskOwned
  <2>1. Agreed(c) /\ task[c] \in {"WAITING", "DEALING", "DEALED", "TIMEOUT"}
    BY DEF Handshake, Shape, TypeOK
  <2>2. QED
    BY <2>1 DEF Agreed, Answered, Dealing
<1>2. QED
  BY <1>1, ShapeInvariant, HandshakeInvariant, PTL

-----------------------------------------------------------------------------
LEMMA QueueOfLevel == \A c \in PostCall \cup StopCall : QueueOf(c) \in Level
BY ParameterAssumption DEF QueueOf, Level

LEMMA InitDelivery == Init => Delivery
<1> SUFFICES ASSUME Init PROVE Delivery
  OBVIOUS
<1>1. \A q \in Level : queue[q] = <<>> /\ Len(queue[q]) = 0
  BY EmptySeq DEF Init
<1>2. \A q \in Level : \A c : ~In(c, queue[q])
  BY <1>1 DEF In
<1>3. \A c \in PostCall \cup StopCall : Delivered(c)
  BY <1>2, QueueOfLevel DEF Init, Delivered, Call
<1>4. QED
  BY <1>1, <1>3 DEF Delivery, NoDuplicate

(* A step that leaves the queues and the posts alone keeps Delivery. *)
LEMMA SameDelivery ==
  ASSUME Delivery, UNCHANGED queue,
         \A c \in PostCall \cup StopCall : pc'[c] = pc[c] /\ ran'[c] = ran[c]
  PROVE  Delivery'
<1>1. ASSUME NEW c \in PostCall \cup StopCall PROVE Delivered(c)'
  <2>1. Delivered(c) /\ pc'[c] = pc[c] /\ ran'[c] = ran[c]
    BY DEF Delivery
  <2>2. queue' = queue /\ QueueOf(c)' = QueueOf(c)
    BY DEF QueueOf
  <2> QED
    BY <2>1, <2>2 DEF Delivered, In
<1>2. \A q \in Level : /\ NoDuplicate(queue'[q])
                       /\ \A k \in 1..Len(queue'[q]) : QueueOf(queue'[q][k]) = q
  BY DEF Delivery
<1> QED
  BY <1>1, <1>2 DEF Delivery, NoDuplicate, QueueOf

(* Every step of a call keeps Delivery. *)
LEMMA CallDelivery ==
  ASSUME Shape, Delivery,
         Begin \/ (\E c \in Call : Continue(c))
               \/ (\E c \in Repeat : Reissue(c))
               \/ (\E c \in SendCall : SpuriousWake(c))
  PROVE  Delivery'
<1> USE CallAssumption, ParameterAssumption
<1> USE DEF Call, Goto
<1>0. /\ pc \in [Call -> Place] /\ ran \in [Call -> Nat]
      /\ queue \in [Level -> Seq(PostCall \cup StopCall)]
  BY DEF Shape, TypeOK
<1>1. ASSUME NEW c \in SendCall,
             SendCheck(c) \/ SendInline(c) \/ InlineReturn(c) \/ SendPush(c)
             \/ SendDone(c) \/ SendWait(c) \/ SendTimeout(c) \/ TimerExpires(c)
             \/ SpuriousWake(c) \/ Reissue(c)
      PROVE  Delivery'
  <2>1. UNCHANGED queue
    BY <1>1 DEF SendCheck, SendInline, InlineReturn, SendPush, SendDone,
                SendWait, SendTimeout, TimerExpires, SpuriousWake, Reissue
  <2>2. \A b \in PostCall \cup StopCall : pc'[b] = pc[b] /\ ran'[b] = ran[b]
    BY <1>0, <1>1 DEF SendCheck, SendInline, InlineReturn, SendPush, SendDone,
                      SendWait, SendTimeout, TimerExpires, SpuriousWake, Reissue
  <2>3. QED
    BY <2>1, <2>2, SameDelivery
<1>2. ASSUME NEW c \in PostCall \cup StopCall,
             \/ c \in PostCall /\ PostCheck(c)
             \/ c \in StopCall /\ Stop(c)
             \/ c \in Repeat /\ Reissue(c)
             \/ Count(c)
      PROVE  Delivery'
  <2>1. UNCHANGED queue
    BY <1>2 DEF PostCheck, Stop, Count, Reissue
  <2>2. \A b \in (PostCall \cup StopCall) \ {c} :
          pc'[b] = pc[b] /\ ran'[b] = ran[b]
    BY <1>0, <1>2 DEF PostCheck, Stop, Count, Reissue
  <2>3. \A b, q : In(b, queue[q])' <=> In(b, queue[q])
    BY <2>1 DEF In
  <2>4. Delivered(c)'
    <3>1. Delivered(c) /\ QueueOf(c)' = QueueOf(c)
      BY DEF Delivery, QueueOf
    <3>2. CASE c \in PostCall /\ PostCheck(c)
      BY <1>0, <2>3, <3>1, <3>2 DEF Delivered, PostCheck, MayBegin
    <3>3. CASE c \in StopCall /\ Stop(c)
      BY <1>0, <2>3, <3>1, <3>3 DEF Delivered, Stop, MayBegin, QueueOf
    <3>4. CASE Count(c)
      BY <1>0, <2>3, <3>1, <3>4 DEF Delivered, Count
    <3>5. CASE c \in Repeat /\ Reissue(c)
      BY <1>0, <2>3, <3>1, <3>5 DEF Delivered, Reissue
    <3>6. QED
      BY <1>2, <3>2, <3>3, <3>4, <3>5
  <2>5. \A b \in (PostCall \cup StopCall) \ {c} : Delivered(b)'
    BY <2>2, <2>3 DEF Delivery, Delivered, QueueOf
  <2>6. QED
    BY <2>1, <2>4, <2>5 DEF Delivery, NoDuplicate, QueueOf
<1>3. ASSUME NEW c \in PostCall \cup StopCall, Push(c) PROVE Delivery'
  <2> DEFINE q == QueueOf(c)
  <2>1. /\ q \in Level /\ ~In(c, queue[q]) /\ ran[c] = 0 /\ pc[c] = "push"
        /\ NoDuplicate(queue[q])
    BY <1>3, QueueOfLevel DEF Delivery, Delivered, Push
  <2>2. /\ \A d : In(d, Append(queue[q], c)) <=> In(d, queue[q]) \/ d = c
        /\ NoDuplicate(Append(queue[q], c))
        /\ Append(queue[q], c) \in Seq(PostCall \cup StopCall)
    BY <1>0, <2>1, Pushed
  <2>3. \A k \in 1..Len(Append(queue[q], c)) : QueueOf(Append(queue[q], c)[k]) = q
    BY <1>0, <2>1, <2>2 DEF Delivery, In
  <2>4. /\ queue'[q] = Append(queue[q], c)
        /\ \A r \in Level \ {q} : queue'[r] = queue[r]
        /\ ran' = ran /\ pc'[c] = "count"
        /\ \A b \in (PostCall \cup StopCall) \ {c} : pc'[b] = pc[b]
    BY <1>0, <1>3, <2>1 DEF Push
  <2> HIDE DEF q
  <2>5. \A r \in Level : /\ NoDuplicate(queue'[r])
                         /\ \A k \in 1..Len(queue'[r]) : QueueOf(queue'[r][k]) = r
    <3> SUFFICES ASSUME NEW r \in Level
                 PROVE  /\ NoDuplicate(queue'[r])
                        /\ \A k \in 1..Len(queue'[r]) : QueueOf(queue'[r][k]) = r
      OBVIOUS
    <3>1. CASE r = q
      BY <3>1, <2>2, <2>3, <2>4
    <3>2. CASE r # q
      BY <3>2, <2>4 DEF Delivery
    <3>3. QED
      BY <3>1, <3>2
  <2>6. Delivered(c)'
    BY <2>1, <2>2, <2>4 DEF Delivered, QueueOf, q
  <2>7. ASSUME NEW b \in (PostCall \cup StopCall) \ {c} PROVE Delivered(b)'
    <3>1. QueueOf(b) \in Level /\ "NORMAL" \in Level
      BY QueueOfLevel DEF Level
    <3>2. \A r \in Level : In(b, queue'[r]) <=> In(b, queue[r])
      BY <2>2, <2>4, <2>7
    <3>3. Delivered(b)
      BY DEF Delivery
    <3>4. QED
      BY <2>4, <3>1, <3>2, <3>3 DEF Delivered, QueueOf
  <2>8. QED
    BY <2>5, <2>6, <2>7 DEF Delivery, NoDuplicate, QueueOf
<1>4. QED
  BY <1>1, <1>2, <1>3 DEF Begin, Continue

(* Every step of the processor thread keeps Delivery. *)
LEMMA WorkerDelivery ==
  ASSUME Shape, Handshake, Delivery, Worker
  PROVE  Delivery'
<1> USE CallAssumption, ParameterAssumption
<1> USE DEF Call, callVars
<1>0. /\ pc \in [Call -> Place] /\ ran \in [Call -> Nat]
      /\ queue \in [Level -> Seq(PostCall \cup StopCall)]
      /\ at \in {"sysLock", "sysRun", "sysNotify"} => cur \in SendCall
      /\ que \in Level /\ left \in Nat
  BY DEF Shape, TypeOK, BatchFits
<1>1. CASE Run \/ Loop \/ DealSys \/ DropSys \/ SysDealt \/ SysNotify \/ Pick \/ Batch
  <2>1. /\ UNCHANGED queue
        /\ \A c \in PostCall \cup StopCall : pc'[c] = pc[c] /\ ran'[c] = ran[c]
    BY <1>0, <1>1 DEF Run, Loop, DealSys, DropSys, SysDealt, SysNotify, Pick, Batch
  <2>2. QED
    BY <2>1, SameDelivery
<1>2. CASE TaskDone
  <2> DEFINE t == Head(queue[que])
             rest == Tail(queue[que])
  <2>1. queue[que] # <<>> /\ queue[que] \in Seq(PostCall \cup StopCall)
    <3>1. 1 <= left /\ left <= Len(queue[que])
      BY <1>2 DEF Shape, BatchFits, TaskDone
    <3>2. queue[que] \in Seq(PostCall \cup StopCall)
      BY <1>0
    <3>3. Len(queue[que]) # 0
      BY <1>0, <3>1, <3>2, LenProperties
    <3>4. QED
      BY <3>2, <3>3, EmptySeq
  <2>2. NoDuplicate(queue[que])
    BY <1>0 DEF Delivery
  <2>3. /\ t \in PostCall \cup StopCall /\ t = queue[que][1] /\ Len(queue[que]) >= 1
        /\ In(t, queue[que]) /\ ~In(t, rest)
        /\ \A d : In(d, queue[que]) <=> d = t \/ In(d, rest)
        /\ NoDuplicate(rest)
        /\ Len(rest) = Len(queue[que]) - 1
        /\ \A k \in 1..Len(rest) : rest[k] = queue[que][k + 1]
    BY <2>1, <2>2, Popped
  <2>4. Len(queue[que]) \in Nat
    BY <2>1, LenProperties
  <2> HIDE DEF rest, t
  <2>5. QueueOf(t) = que /\ ran[t] = 0 /\ pc[t] \in {"count", "true"}
    <3>1. QueueOf(t) = que
      BY <1>0, <2>3, <2>4 DEF Delivery
    <3>2. Delivered(t) /\ (t \in StopCall => que = "NORMAL")
      BY <2>3, <3>1 DEF Delivery, QueueOf
    <3>3. QED
      BY <2>3, <3>1, <3>2 DEF Delivered
  <2>6. /\ queue'[que] = rest
        /\ \A r \in Level \ {que} : queue'[r] = queue[r]
        /\ pc' = pc /\ ran'[t] = 1
        /\ \A b \in Call \ {t} : ran'[b] = ran[b]
    BY <1>0, <1>2, <2>3, <2>5 DEF TaskDone, t, rest
  <2>7. \A r \in Level : /\ NoDuplicate(queue'[r])
                         /\ \A k \in 1..Len(queue'[r]) : QueueOf(queue'[r][k]) = r
    <3> SUFFICES ASSUME NEW r \in Level
                 PROVE  /\ NoDuplicate(queue'[r])
                        /\ \A k \in 1..Len(queue'[r]) : QueueOf(queue'[r][k]) = r
      OBVIOUS
    <3>1. CASE r = que
      <4>1. ASSUME NEW k \in 1..Len(rest) PROVE QueueOf(rest[k]) = que
        <5>1. k + 1 \in 1..Len(queue[que]) /\ rest[k] = queue[que][k + 1]
          BY <2>3, <2>4
        <5>2. \A j \in 1..Len(queue[que]) : QueueOf(queue[que][j]) = que
          BY <1>0 DEF Delivery
        <5>3. QED
          BY <5>1, <5>2
      <4>2. QED
        BY <3>1, <4>1, <2>3, <2>6
    <3>2. CASE r # que
      BY <3>2, <2>6 DEF Delivery
    <3>3. QED
      BY <3>1, <3>2
  <2>8. ASSUME NEW b \in PostCall \cup StopCall PROVE Delivered(b)'
    <3>1. QueueOf(b) \in Level /\ "NORMAL" \in Level
      BY QueueOfLevel DEF Level
    <3>2. CASE b = t
      BY <3>2, <2>3, <2>5, <2>6 DEF Delivered, QueueOf
    <3>3. CASE b # t
      <4>1. \A r \in Level : In(b, queue'[r]) <=> In(b, queue[r])
        BY <2>3, <2>6, <3>3
      <4>2. Delivered(b)
        BY DEF Delivery
      <4>3. QED
        BY <2>6, <3>1, <3>3, <4>1, <4>2 DEF Delivered, QueueOf
    <3>4. QED
      BY <3>2, <3>3
  <2>9. QED
    BY <2>7, <2>8 DEF Delivery, NoDuplicate, QueueOf
<1>3. QED
  BY <1>1, <1>2 DEF Worker

LEMMA DeliveryInvariant == Spec => []Delivery
<1>1. Delivery /\ UNCHANGED vars => Delivery'
  BY SameDelivery DEF vars, callVars
<1>2. Shape /\ Handshake /\ Delivery /\ [Next]_vars => Delivery'
  BY <1>1, CallDelivery, WorkerDelivery DEF Next
<1>3. QED
  BY InitDelivery, <1>2, ShapeInvariant, HandshakeInvariant, PTL DEF Spec

-----------------------------------------------------------------------------
(***************************************************************************)
(* Processor implements TaskService.                                       *)
(***************************************************************************)
LEMMA ServiceCall == Service!Call = Call
BY DEF Service!Call, Call

LEMMA InitService == Init => Service!Init
BY ServiceCall DEF Init, Service!Init, Answer, View

(* What a step that moves one call does to the answers. *)
LEMMA AnswerMoves ==
  ASSUME Shape, NEW c \in Call, NEW place, pc' = [pc EXCEPT ![c] = place]
  PROVE  /\ Answer[c] = View(pc[c])
         /\ Answer' = [Answer EXCEPT ![c] = View(place)]
BY DEF Shape, TypeOK, Answer

(* A move between two places inside a call is not seen by the caller.      *)
LEMMA Unseen ==
  ASSUME Shape, NEW c \in Call, NEW place, pc' = [pc EXCEPT ![c] = place],
         pc[c] \notin {"idle", "true", "false"},
         place \notin {"idle", "true", "false"}
  PROVE  Answer' = Answer
<1>1. \A d \in Call : View(pc'[d]) = View(pc[d])
  BY DEF Shape, TypeOK, View
<1>2. QED
  BY <1>1 DEF Answer

(* A step of a call is a step of the service, or none. *)
LEMMA CallImplements ==
  ASSUME Shape, Handshake,
         Begin \/ (\E c \in Call : Continue(c))
               \/ (\E c \in Repeat : Reissue(c))
               \/ (\E c \in SendCall : SpuriousWake(c))
  PROVE  [Service!Next]_(Service!vars)
<1> USE CallAssumption, ParameterAssumption, ServiceCall
<1> USE DEF Call, Goto, View, Service!vars
<1>0. /\ pc \in [Call -> Place] /\ ran \in [Call -> Nat]
      /\ \A c \in SendCall :
           task[c] \in {"none", "WAITING", "DEALING", "DEALED", "TIMEOUT"} /\ Agreed(c)
  BY DEF Shape, TypeOK, Handshake
<1>1. ASSUME NEW c \in PostCall, PostCheck(c) PROVE Service!Next
  <2>1. PICK place \in {"false", "push"} : pc' = [pc EXCEPT ![c] = place]
    BY <1>1 DEF PostCheck
  <2>2. pc[c] = "idle" /\ ran' = ran /\ c \in Call
    BY <1>1 DEF PostCheck, MayBegin
  <2>3. Answer[c] = "idle" /\ Answer' = [Answer EXCEPT ![c] = View(place)]
    BY <2>1, <2>2, AnswerMoves
  <2>4. Service!Issue(c) \/ Service!Reject(c)
    BY <2>1, <2>2, <2>3 DEF Service!Issue, Service!Reject
  <2>5. QED
    BY <2>2, <2>4 DEF Service!Next
<1>2. ASSUME NEW c \in StopCall, Stop(c) PROVE Service!Next
  <2>1. PICK place \in {"true", "push"} : pc' = [pc EXCEPT ![c] = place]
    BY <1>2 DEF Stop
  <2>2. pc[c] = "idle" /\ ran' = ran /\ c \in Call
    BY <1>2 DEF Stop, MayBegin
  <2>3. Answer[c] = "idle" /\ Answer' = [Answer EXCEPT ![c] = View(place)]
    BY <2>1, <2>2, AnswerMoves
  <2>4. Service!Issue(c) \/ Service!Skip(c)
    BY <2>1, <2>2, <2>3 DEF Service!Issue, Service!Skip
  <2>5. QED
    BY <2>2, <2>4 DEF Service!Next
<1>3. ASSUME NEW c \in SendCall, SendCheck(c) PROVE Service!Next
  <2>1. PICK place \in {"false", "inline", "send"} : pc' = [pc EXCEPT ![c] = place]
    BY <1>3 DEF SendCheck
  <2>2. pc[c] = "idle" /\ ran' = ran /\ c \in Call
    BY <1>3 DEF SendCheck, MayBegin
  <2>3. Answer[c] = "idle" /\ Answer' = [Answer EXCEPT ![c] = View(place)]
    BY <2>1, <2>2, AnswerMoves
  <2>4. Service!Issue(c) \/ Service!Reject(c)
    BY <2>1, <2>2, <2>3 DEF Service!Issue, Service!Reject
  <2>5. QED
    BY <2>2, <2>4 DEF Service!Next
<1>4. ASSUME NEW c \in PostCall \cup StopCall, Push(c) PROVE UNCHANGED Service!vars
  <2>1. Answer' = Answer
    <3>1. pc' = [pc EXCEPT ![c] = "count"] /\ pc[c] = "push" /\ c \in Call
      BY <1>4 DEF Push
    <3>2. QED
      BY <3>1, Unseen
  <2>2. QED
    BY <1>4, <2>1 DEF Push
<1>5. ASSUME NEW c \in PostCall \cup StopCall, Count(c) PROVE Service!Next
  <2>1. Service!Accept(c)
    BY <1>5, AnswerMoves DEF Count, Service!Accept
  <2>2. QED
    BY <2>1 DEF Service!Next
<1>6. ASSUME NEW c \in Repeat, Reissue(c) PROVE Service!Next
  <2>1. Service!Reissue(c)
    BY <1>6, AnswerMoves DEF Reissue, Service!Reissue
  <2>2. QED
    BY <2>1 DEF Service!Next
<1>7. ASSUME NEW c \in SendCall, SendInline(c) PROVE Service!Next
  <2>1. ran[c] = 0 /\ Answer[c] = "open"
    BY <1>0, <1>7 DEF SendInline, Agreed, Answer
  <2>2. Answer' = Answer /\ ran' = [ran EXCEPT ![c] = 1]
    <3>1. pc' = [pc EXCEPT ![c] = "inlined"] /\ pc[c] = "inline" /\ c \in Call
      BY <1>7 DEF SendInline
    <3>2. Answer' = Answer
      BY <3>1, Unseen
    <3>3. QED
      BY <1>7, <2>1, <3>2 DEF SendInline
  <2>3. Service!Execute(c)
    BY <2>1, <2>2 DEF Service!Execute
  <2>4. QED
    BY <2>3 DEF Service!Next
<1>8. ASSUME NEW c \in SendCall, InlineReturn(c) PROVE Service!Next
  <2>1. Service!Accept(c)
    BY <1>0, <1>8, AnswerMoves DEF InlineReturn, Service!Accept, Agreed
  <2>2. QED
    BY <2>1 DEF Service!Next
<1>9. ASSUME NEW c \in SendCall,
             SendPush(c) \/ SendWait(c) \/ TimerExpires(c) \/ SpuriousWake(c)
      PROVE  UNCHANGED Service!vars
  <2>1. \E place \in {"lock", "waiting", "woken"} : pc' = [pc EXCEPT ![c] = place]
    BY <1>9 DEF SendPush, SendWait, TimerExpires, SpuriousWake
  <2>2. pc[c] \in {"send", "lock", "waiting"} /\ ran' = ran
    BY <1>9 DEF SendPush, SendWait, TimerExpires, SpuriousWake
  <2>3. Answer' = Answer
    BY <2>1, <2>2, Unseen
  <2>4. QED
    BY <2>2, <2>3
<1>10. ASSUME NEW c \in SendCall, SendDone(c) PROVE Service!Next
  <2>1. Service!Accept(c)
    BY <1>0, <1>10, AnswerMoves DEF SendDone, Service!Accept, Agreed
  <2>2. QED
    BY <2>1 DEF Service!Next
<1>11. ASSUME NEW c \in SendCall, SendTimeout(c) PROVE Service!Next
  <2>1. ran[c] = 0
    BY <1>0, <1>11 DEF SendTimeout, Agreed
  <2>2. Service!Refuse(c)
    BY <1>11, <2>1, AnswerMoves DEF SendTimeout, Service!Refuse
  <2>3. QED
    BY <2>2 DEF Service!Next
<1>12. QED
  BY <1>1, <1>2, <1>3, <1>4, <1>5, <1>6, <1>7, <1>8, <1>9, <1>10, <1>11
  DEF Begin, Continue

(* A step of the processor thread executes a task, or is no step of the    *)
(* service.                                                                *)
LEMMA WorkerImplements ==
  ASSUME Shape, Handshake, Delivery, Worker
  PROVE  [Service!Next]_(Service!vars)
<1> USE CallAssumption, ParameterAssumption, ServiceCall
<1> USE DEF Call, Service!vars
<1>0. /\ pc \in [Call -> Place] /\ ran \in [Call -> Nat]
      /\ queue \in [Level -> Seq(PostCall \cup StopCall)]
      /\ que \in Level /\ left \in Nat
      /\ at \in {"sysLock", "sysRun", "sysNotify"} => cur \in SendCall
      /\ \A c \in SendCall :
           task[c] \in {"none", "WAITING", "DEALING", "DEALED", "TIMEOUT"} /\ Agreed(c)
  BY DEF Shape, TypeOK, BatchFits, Handshake
<1>1. CASE Run \/ Loop \/ DealSys \/ DropSys \/ Pick \/ Batch
  BY <1>1 DEF Run, Loop, DealSys, DropSys, Pick, Batch, callVars, Answer
<1>2. CASE SysNotify
  <2>1. cur \in SendCall /\ ran' = ran
    BY <1>0, <1>2 DEF SysNotify
  <2>2. pc' = pc \/ (pc' = [pc EXCEPT ![cur] = "woken"] /\ pc[cur] = "waiting")
    BY <1>2 DEF SysNotify
  <2>3. Answer' = Answer
    <3>1. CASE pc' = pc
      BY <3>1 DEF Answer
    <3>2. CASE pc' = [pc EXCEPT ![cur] = "woken"] /\ pc[cur] = "waiting"
      BY <2>1, <3>2, Unseen
    <3>3. QED
      BY <2>2, <3>1, <3>2
  <2>4. QED
    BY <2>1, <2>3
<1>3. CASE SysDealt
  <2>1. cur \in SendCall /\ ran[cur] = 0 /\ Answer[cur] = "open"
    BY <1>0, <1>3 DEF SysDealt, Agreed, Answer, View
  <2>2. Answer' = Answer /\ ran' = [ran EXCEPT ![cur] = 1]
    BY <1>3, <2>1 DEF SysDealt, Answer
  <2>3. Service!Execute(cur)
    BY <2>1, <2>2 DEF Service!Execute
  <2>4. QED
    BY <2>1, <2>3 DEF Service!Next
<1>4. CASE TaskDone
  <2> DEFINE t == Head(queue[que])
  <2>1. queue[que] # <<>> /\ queue[que] \in Seq(PostCall \cup StopCall)
    <3>1. 1 <= left /\ left <= Len(queue[que])
      BY <1>4 DEF Shape, BatchFits, TaskDone
    <3>2. queue[que] \in Seq(PostCall \cup StopCall)
      BY <1>0
    <3>3. Len(queue[que]) # 0
      BY <1>0, <3>1, <3>2, LenProperties
    <3>4. QED
      BY <3>2, <3>3, EmptySeq
  <2>2. t \in PostCall \cup StopCall /\ In(t, queue[que]) /\ t = queue[que][1]
        /\ 1 \in 1..Len(queue[que])
    BY <2>1, Popped, LenProperties
  <2>3. /\ Answer' = Answer
        /\ ran' = [ran EXCEPT ![t] = @ + 1]
    BY <1>4 DEF TaskDone, Answer, callVars
  <2> HIDE DEF t
  <2>4. QueueOf(t) = que /\ Delivered(t)
    BY <1>0, <2>2 DEF Delivery
  <2>5. ran[t] = 0 /\ pc[t] \in {"count", "true"}
    BY <2>2, <2>4 DEF Delivered, QueueOf
  <2>6. Answer[t] \in {"open", "true"}
    BY <2>2, <2>5 DEF Answer, View
  <2>7. Service!Execute(t)
    BY <2>2, <2>3, <2>5, <2>6 DEF Service!Execute
  <2>8. QED
    BY <2>2, <2>7 DEF Service!Next
<1>5. QED
  BY <1>1, <1>2, <1>3, <1>4 DEF Worker

(* Whatever the calls, the timeouts and the wake-ups: a task runs at most  *)
(* once, SendTask answers TRUE only after its task ran, and a call that    *)
(* answered FALSE never has its task run.                                  *)
THEOREM Implementation == Spec => ImplementsService
<1>1. UNCHANGED vars => UNCHANGED Service!vars
  BY DEF vars, callVars, Service!vars, Answer
<1>2. Shape /\ Handshake /\ Delivery /\ [Next]_vars => [Service!Next]_(Service!vars)
  BY <1>1, CallImplements, WorkerImplements DEF Next
<1>3. QED
  BY InitService, <1>2, ShapeInvariant, HandshakeInvariant, DeliveryInvariant, PTL
  DEF Spec, ImplementsService, Service!Spec

-----------------------------------------------------------------------------
(***************************************************************************)
(* In which order the tasks of the queues run: what a Stop waits for, and  *)
(* the posts of one thread.  Both rest on the places in the queues.        *)
(***************************************************************************)
(* No InternalStop is queued at or before some place of b. *)
AheadOfStop(b) ==
  \E j \in 1..Len(queue["NORMAL"]) :
    /\ queue["NORMAL"][j] = b
    /\ \A k \in 1..j : queue["NORMAL"][k] \notin StopCall

StopOrder ==
  /\ at = "start" \/ eState = "RUNNING" =>
       promised = {} /\ \A x \in StopCall : pc[x] = "idle"
  /\ at # "start" /\ eState = "STOPED" => \A b \in promised : Priority[b] # "NORMAL"
  /\ at = "exit" => eState = "STOPED"
  /\ \A b \in promised : Priority[b] = "NORMAL" => AheadOfStop(b)

(* What TaskDone does, in terms of the front of the queue. *)
LEMMA FrontTask ==
  ASSUME Shape, Delivery, TaskDone
  PROVE  \E t \in PostCall \cup StopCall :
           /\ t = Head(queue[que])
           /\ queue[que] \in Seq(PostCall \cup StopCall)
           /\ Len(queue[que]) \in Nat /\ Len(queue[que]) >= 1
           /\ queue[que][1] = t
           /\ QueueOf(t) = que /\ que \in Level
           /\ queue' = [queue EXCEPT ![que] = Tail(@)]
           /\ Len(queue'[que]) = Len(queue[que]) - 1
           /\ \A k \in 1..Len(queue'[que]) : queue'[que][k] = queue[que][k + 1]
           /\ \A q \in Level \ {que} : queue'[q] = queue[q]
           /\ pc' = pc /\ promised' = promised \ {t}
           /\ ran' = [ran EXCEPT ![t] = @ + 1]
           /\ eState' = IF t \in StopCall THEN "STOPED" ELSE eState
           /\ at = "task" /\ at' = "batch"
<1>1. /\ queue \in [Level -> Seq(PostCall \cup StopCall)] /\ que \in Level
      /\ left \in Nat /\ 1 <= left /\ left <= Len(queue[que])
  BY DEF Shape, TypeOK, BatchFits, TaskDone
<1>2. queue[que] # <<>> /\ queue[que] \in Seq(PostCall \cup StopCall)
      /\ Len(queue[que]) \in Nat
  <2>1. queue[que] \in Seq(PostCall \cup StopCall)
    BY <1>1
  <2>2. Len(queue[que]) # 0 /\ Len(queue[que]) \in Nat
    BY <1>1, <2>1, LenProperties
  <2>3. QED
    BY <2>1, <2>2, EmptySeq
<1>3. /\ Head(queue[que]) \in PostCall \cup StopCall
      /\ queue[que][1] = Head(queue[que]) /\ Len(queue[que]) >= 1
      /\ Len(Tail(queue[que])) = Len(queue[que]) - 1
      /\ \A k \in 1..Len(Tail(queue[que])) : Tail(queue[que])[k] = queue[que][k + 1]
  BY <1>2, Popped
<1>4. queue' = [queue EXCEPT ![que] = Tail(@)]
  BY DEF TaskDone
<1>5. queue'[que] = Tail(queue[que]) /\ \A q \in Level \ {que} : queue'[q] = queue[q]
  BY <1>1, <1>4
<1>6. QueueOf(Head(queue[que])) = que
  BY <1>1, <1>2, <1>3 DEF Delivery
<1>7. /\ pc' = pc /\ promised' = promised \ {Head(queue[que])}
      /\ ran' = [ran EXCEPT ![Head(queue[que])] = @ + 1]
      /\ eState' = IF Head(queue[que]) \in StopCall THEN "STOPED" ELSE eState
      /\ at = "task" /\ at' = "batch"
  BY DEF TaskDone, callVars
<1>8. QED
  BY <1>1, <1>2, <1>3, <1>4, <1>5, <1>6, <1>7

(* What Push does. *)
LEMMA BackTask ==
  ASSUME Shape, NEW c \in PostCall \cup StopCall, Push(c)
  PROVE  /\ queue[QueueOf(c)] \in Seq(PostCall \cup StopCall)
         /\ Len(queue[QueueOf(c)]) \in Nat
         /\ Len(queue'[QueueOf(c)]) = Len(queue[QueueOf(c)]) + 1
         /\ \A k \in 1..Len(queue[QueueOf(c)]) : queue'[QueueOf(c)][k] = queue[QueueOf(c)][k]
         /\ queue'[QueueOf(c)][Len(queue[QueueOf(c)]) + 1] = c
         /\ \A q \in Level \ {QueueOf(c)} : queue'[q] = queue[q]
         /\ pc[c] = "push" /\ pc' = [pc EXCEPT ![c] = "count"]
         /\ UNCHANGED <<eState, ran, at, promised>>
<1> DEFINE q == QueueOf(c)
<1>1. q \in Level /\ queue \in [Level -> Seq(PostCall \cup StopCall)]
  BY QueueOfLevel DEF Shape, TypeOK
<1>2. queue[q] \in Seq(PostCall \cup StopCall)
  BY <1>1
<1>3. queue'[q] = Append(queue[q], c) /\ \A r \in Level \ {q} : queue'[r] = queue[r]
  BY <1>1 DEF Push
<1>4. /\ Len(queue'[q]) = Len(queue[q]) + 1 /\ Len(queue[q]) \in Nat
      /\ \A k \in 1..Len(queue[q]) : queue'[q][k] = queue[q][k]
      /\ queue'[q][Len(queue[q]) + 1] = c
  BY <1>2, <1>3, AppendProperties, LenProperties
<1>5. QED
  BY <1>2, <1>3, <1>4 DEF Push, Goto, workerVars

-----------------------------------------------------------------------------
LEMMA InitStopOrder == Init => StopOrder
BY DEF Init, StopOrder, Call

(* The steps that touch neither the queues nor what Stop recorded, and     *)
(* move no call of Stop out of "idle".                                     *)
LEMMA SameStopOrder ==
  ASSUME StopOrder, UNCHANGED <<queue, promised, eState>>,
         at' = at \/ (at # "start" /\ at' \notin {"start", "exit"}),
         \A x \in StopCall : pc[x] = "idle" => pc'[x] = "idle"
  PROVE  StopOrder'
BY DEF StopOrder, AheadOfStop

LEMMA StepStopOrder ==
  ASSUME Shape, Delivery, StopOrder, Next
  PROVE  StopOrder'
<1> USE CallAssumption, ParameterAssumption DEF Call
<1>0. /\ pc \in [Call -> Place] /\ queue \in [Level -> Seq(PostCall \cup StopCall)]
      /\ promised \subseteq PostCall /\ eState \in {"RUNNING", "STOPPING", "STOPED"}
  BY DEF Shape, TypeOK
<1>1. ASSUME NEW c \in PostCall \cup SendCall,
             \/ PostCheck(c) \/ Count(c) \/ Reissue(c) \/ SendCheck(c)
             \/ SendInline(c) \/ InlineReturn(c) \/ SendPush(c) \/ SendDone(c)
             \/ SendWait(c) \/ SendTimeout(c) \/ TimerExpires(c) \/ SpuriousWake(c)
      PROVE  StopOrder'
  <2>1. UNCHANGED <<queue, promised, eState, at>>
    BY <1>1 DEF PostCheck, Count, Reissue, SendCheck, SendInline, InlineReturn,
                SendPush, SendDone, SendWait, SendTimeout, TimerExpires,
                SpuriousWake, workerVars
  <2>2. \A x \in StopCall : pc'[x] = pc[x]
    BY <1>0, <1>1 DEF PostCheck, Count, Reissue, SendCheck, SendInline,
                      InlineReturn, SendPush, SendDone, SendWait, SendTimeout,
                      TimerExpires, SpuriousWake, Goto
  <2>3. QED
    BY <2>1, <2>2, SameStopOrder
<1>2. ASSUME NEW c \in StopCall, Count(c) PROVE StopOrder'
  BY <1>0, <1>2, SameStopOrder DEF Count, Goto, workerVars
<1>3. ASSUME NEW c \in PostCall \cup StopCall, Push(c) PROVE StopOrder'
  <2>1. QueueOf(c) \in Level /\ "NORMAL" \in Level
    BY QueueOfLevel DEF Level
  <2>2. /\ Len(queue["NORMAL"]) \in Nat
        /\ Len(queue'["NORMAL"]) >= Len(queue["NORMAL"])
        /\ Len(queue'["NORMAL"]) \in Nat
        /\ \A k \in 1..Len(queue["NORMAL"]) : queue'["NORMAL"][k] = queue["NORMAL"][k]
    <3>1. queue["NORMAL"] \in Seq(PostCall \cup StopCall)
      BY <1>0, <2>1
    <3>2. Len(queue["NORMAL"]) \in Nat
      BY <3>1, LenProperties
    <3>3. CASE QueueOf(c) = "NORMAL"
      BY <1>3, <3>2, <3>3, BackTask
    <3>4. CASE QueueOf(c) # "NORMAL"
      BY <1>3, <2>1, <3>2, <3>4, BackTask
    <3>5. QED
      BY <3>3, <3>4
  <2>3. \A b : AheadOfStop(b) => AheadOfStop(b)'
    BY <2>2 DEF AheadOfStop
  <2>4. UNCHANGED <<promised, eState, at>> /\ pc' = [pc EXCEPT ![c] = "count"]
        /\ pc[c] = "push"
    BY <1>3, BackTask
  <2>5. QED
    BY <1>0, <2>3, <2>4 DEF StopOrder
<1>4. ASSUME NEW c \in StopCall, Stop(c) PROVE StopOrder'
  <2>1. CASE eState = "RUNNING"
    <3>1. /\ eState' = "STOPPING" /\ at' = at /\ at # "start" /\ queue' = queue
          /\ promised' = {b \in PostCall : pc[b] = "true" /\ ran[b] = 0}
      BY <1>4, <2>1 DEF Stop, Above, EState, MayBegin, workerVars
    <3>2. \A k \in 1..Len(queue["NORMAL"]) : queue["NORMAL"][k] \notin StopCall
      <4> SUFFICES ASSUME NEW k \in 1..Len(queue["NORMAL"]),
                          queue["NORMAL"][k] \in StopCall
                   PROVE  FALSE
        OBVIOUS
      <4> DEFINE x == queue["NORMAL"][k]
      <4>1. pc[x] = "idle"
        BY <2>1 DEF StopOrder
      <4>2. In(x, queue["NORMAL"])
        BY DEF In
      <4>3. Delivered(x) /\ QueueOf(x) = "NORMAL"
        BY DEF Delivery, QueueOf
      <4>4. QED
        BY <4>1, <4>2, <4>3 DEF Delivered
    <3>3. ASSUME NEW b \in promised', Priority[b] = "NORMAL" PROVE AheadOfStop(b)'
      <4>1. Delivered(b) /\ QueueOf(b) = "NORMAL" /\ pc[b] = "true" /\ ran[b] = 0
            /\ b \notin StopCall
        BY <3>1, <3>3 DEF Delivery, QueueOf
      <4>2. In(b, queue["NORMAL"])
        BY <4>1 DEF Delivered
      <4>3. Len(queue["NORMAL"]) \in Nat
        BY <1>0, LenProperties DEF Level
      <4>4. QED
        BY <3>1, <3>2, <4>2, <4>3 DEF In, AheadOfStop
    <3>4. at' # "exit" /\ at' # "start"
      BY <2>1, <3>1 DEF StopOrder
    <3>5. \A b \in promised' : Priority[b] = "NORMAL" => AheadOfStop(b)'
      BY <3>3
    <3>6. QED
      BY <3>1, <3>4, <3>5 DEF StopOrder
  <2>2. CASE eState # "RUNNING"
    <3>1. UNCHANGED <<eState, promised, queue, at>> /\ at # "start"
      BY <1>0, <1>4, <2>2 DEF Stop, Above, EState, MayBegin, workerVars
    <3>2. \A x : AheadOfStop(x)' <=> AheadOfStop(x)
      BY <3>1 DEF AheadOfStop
    <3>3. QED
      BY <2>2, <3>1, <3>2 DEF StopOrder
  <2>3. QED
    BY <2>1, <2>2
<1>5. CASE Run
  BY <1>5 DEF Run, callVars, StopOrder, AheadOfStop
<1>6. CASE Loop
  BY <1>6 DEF Loop, callVars, StopOrder, AheadOfStop
<1>7. CASE DealSys \/ DropSys \/ SysDealt \/ SysNotify \/ Pick \/ Batch
  <2>1. /\ UNCHANGED <<queue, promised, eState>>
        /\ at' = at \/ (at # "start" /\ at' \notin {"start", "exit"})
    BY <1>7 DEF DealSys, DropSys, SysDealt, SysNotify, Pick, Batch
  <2>2. \A x \in StopCall : pc[x] = "idle" => pc'[x] = "idle"
    BY <1>0, <1>7 DEF DealSys, DropSys, SysDealt, SysNotify, Pick, Batch, callVars
  <2>3. QED
    BY <2>1, <2>2, SameStopOrder
<1>8. CASE TaskDone
  <2>1. PICK t \in PostCall \cup StopCall :
           /\ queue[que] \in Seq(PostCall \cup StopCall)
           /\ Len(queue[que]) \in Nat /\ Len(queue[que]) >= 1
           /\ queue[que][1] = t
           /\ QueueOf(t) = que /\ que \in Level
           /\ Len(queue'[que]) = Len(queue[que]) - 1
           /\ \A k \in 1..Len(queue'[que]) : queue'[que][k] = queue[que][k + 1]
           /\ \A q \in Level \ {que} : queue'[q] = queue[q]
           /\ pc' = pc /\ promised' = promised \ {t}
           /\ eState' = IF t \in StopCall THEN "STOPED" ELSE eState
           /\ at = "task" /\ at' = "batch"
    BY <1>8, FrontTask
  <2>2. ASSUME t \in StopCall, NEW b \in promised' PROVE Priority[b] # "NORMAL"
    <3>1. que = "NORMAL"
      BY <2>1, <2>2 DEF QueueOf
    <3>2. ~AheadOfStop(b)
      BY <2>1, <2>2, <3>1 DEF AheadOfStop
    <3>3. QED
      BY <2>1, <2>2, <3>2 DEF StopOrder
  <2>3. ASSUME NEW b \in promised', Priority[b] = "NORMAL" PROVE AheadOfStop(b)'
    <3>1. AheadOfStop(b) /\ b # t
      BY <2>1, <2>3 DEF StopOrder
    <3>2. PICK j \in 1..Len(queue["NORMAL"]) :
             /\ queue["NORMAL"][j] = b
             /\ \A k \in 1..j : queue["NORMAL"][k] \notin StopCall
      BY <3>1 DEF AheadOfStop
    <3>3. CASE que = "NORMAL"
      <4>1. j # 1 /\ j - 1 \in 1..Len(queue'["NORMAL"])
        BY <2>1, <3>1, <3>2, <3>3
      <4>2. queue'["NORMAL"][j - 1] = b
        BY <2>1, <3>2, <3>3, <4>1
      <4>3. \A k \in 1..(j - 1) : queue'["NORMAL"][k] \notin StopCall
        BY <2>1, <3>2, <3>3, <4>1
      <4>4. QED
        BY <4>1, <4>2, <4>3 DEF AheadOfStop
    <3>4. CASE que # "NORMAL"
      BY <2>1, <3>1, <3>4 DEF AheadOfStop, Level
    <3>5. QED
      BY <3>3, <3>4
  <2>4. /\ eState' = "RUNNING" => eState = "RUNNING"
        /\ eState' = "STOPED" => eState = "STOPED" \/ t \in StopCall
    BY <2>1
  <2>5. /\ at = "start" \/ eState = "RUNNING" =>
             promised = {} /\ \A x \in StopCall : pc[x] = "idle"
        /\ at # "start" /\ eState = "STOPED" =>
             \A b \in promised : Priority[b] # "NORMAL"
    BY DEF StopOrder
  <2>6. QED
    BY <2>1, <2>2, <2>3, <2>4, <2>5 DEF StopOrder
<1>9. QED
  BY <1>1, <1>2, <1>3, <1>4, <1>5, <1>6, <1>7, <1>8
  DEF Next, Worker, Begin, Continue

LEMMA StopOrderInvariant == Spec => []StopOrder
<1>1. StopOrder /\ UNCHANGED vars => StopOrder'
  BY DEF StopOrder, AheadOfStop, vars, callVars, workerVars
<1>2. Shape /\ Delivery /\ StopOrder /\ [Next]_vars => StopOrder'
  BY <1>1, StepStopOrder DEF Next
<1>3. QED
  BY InitStopOrder, <1>2, ShapeInvariant, DeliveryInvariant, PTL DEF Spec

(* The processor thread ends only after every NORMAL task that was         *)
(* accepted before Stop: InternalStop is queued behind them.               *)
THEOREM StopDrains == Spec => []StopDrainsNormal
<1>1. StopOrder => StopDrainsNormal
  BY DEF StopOrder, StopDrainsNormal
<1>2. QED
  BY <1>1, StopOrderInvariant, PTL

-----------------------------------------------------------------------------
(* c is in the queue of b only behind b. *)
Precedes(b, c) ==
  \A k \in 1..Len(queue[Priority[b]]) :
    queue[Priority[b]][k] = c => \E j \in 1..(k - 1) : queue[Priority[b]][j] = b

Follows(b, c) == <<b, c>> \in After /\ Priority[b] = Priority[c]

PostOrder ==
  \A b \in PostCall \ Repeat, c \in PostCall :
    Follows(b, c) =>
      /\ pc[c] # "idle" => Answered(b)
      /\ pc[b] = "true" /\ ran[b] = 0 => ran[c] = 0 /\ Precedes(b, c)

LEMMA InitPostOrder == Init => PostOrder
BY DEF Init, PostOrder, Call

(* The steps that leave the queues and the posts alone. *)
LEMMA SamePostOrder ==
  ASSUME PostOrder, UNCHANGED queue,
         \A c \in PostCall : pc'[c] = pc[c] /\ ran'[c] = ran[c]
  PROVE  PostOrder'
<1>1. \A b, c : Precedes(b, c)' <=> Precedes(b, c)
  BY DEF Precedes
<1>2. QED
  BY <1>1 DEF PostOrder, Follows, Answered

LEMMA StepPostOrder ==
  ASSUME Shape, Delivery, PostOrder, Next
  PROVE  PostOrder'
<1> USE CallAssumption, ParameterAssumption DEF Call
<1>0. /\ pc \in [Call -> Place] /\ queue \in [Level -> Seq(PostCall \cup StopCall)]
      /\ ran \in [Call -> Nat]
      /\ at \in {"sysLock", "sysRun", "sysNotify"} => cur \in SendCall
  BY DEF Shape, TypeOK, BatchFits
<1>a. SUFFICES ASSUME NEW b \in PostCall \ Repeat, NEW c \in PostCall, Follows(b, c)
               PROVE  /\ pc'[c] # "idle" => Answered(b)'
                      /\ pc'[b] = "true" /\ ran'[b] = 0 =>
                           ran'[c] = 0 /\ Precedes(b, c)'
  BY DEF PostOrder, Follows
<1> DEFINE Goal == /\ pc'[c] # "idle" => Answered(b)'
                   /\ pc'[b] = "true" /\ ran'[b] = 0 =>
                        ran'[c] = 0 /\ Precedes(b, c)'
<1>b. /\ pc[c] # "idle" => Answered(b)
      /\ pc[b] = "true" /\ ran[b] = 0 => ran[c] = 0 /\ Precedes(b, c)
      /\ Delivered(b) /\ Delivered(c) /\ b \notin StopCall /\ c \notin StopCall
      /\ QueueOf(b) = Priority[b] /\ QueueOf(c) = Priority[b] /\ Priority[b] \in Level
      /\ <<b, c>> \in After
  BY <1>a DEF PostOrder, Delivery, Follows, QueueOf
<1>c. Len(queue[Priority[b]]) \in Nat
  BY <1>0, <1>b, LenProperties
<1>d. queue' = queue => (Precedes(b, c)' <=> Precedes(b, c))
  BY DEF Precedes
<1>1. ASSUME NEW d \in SendCall \cup StopCall,
             \/ d \in SendCall /\ \/ SendCheck(d) \/ SendInline(d) \/ InlineReturn(d)
                                  \/ SendPush(d) \/ SendDone(d) \/ SendWait(d)
                                  \/ SendTimeout(d) \/ TimerExpires(d)
                                  \/ SpuriousWake(d)
             \/ d \in StopCall /\ (Stop(d) \/ Count(d))
      PROVE  Goal
  <2>1. UNCHANGED queue
    BY <1>1 DEF SendCheck, SendInline, InlineReturn, SendPush, SendDone, SendWait,
                SendTimeout, TimerExpires, SpuriousWake, Stop, Count
  <2>2. \A e \in PostCall : pc'[e] = pc[e] /\ ran'[e] = ran[e]
    BY <1>0, <1>1 DEF SendCheck, SendInline, InlineReturn, SendPush, SendDone,
         SendWait, SendTimeout, TimerExpires, SpuriousWake, Stop, Count, Goto
  <2>3. QED
    BY <2>1, <2>2, <1>b, <1>d DEF Answered
<1>2. ASSUME NEW d \in PostCall, PostCheck(d) PROVE Goal
  <2>1. /\ UNCHANGED <<queue, ran>> /\ pc'[d] \in {"false", "push"}
        /\ pc[d] = "idle" /\ \A e \in PostCall \ {d} : pc'[e] = pc[e]
        /\ \A e \in Call : <<e, d>> \in After => Answered(e)
    BY <1>0, <1>2 DEF PostCheck, MayBegin, Goto
  <2>2. QED
    BY <2>1, <1>b, <1>d DEF Answered
<1>3. ASSUME NEW d \in PostCall, Count(d) PROVE Goal
  <2>1. /\ UNCHANGED <<queue, ran>> /\ pc[d] = "count" /\ pc'[d] = "true"
        /\ \A e \in PostCall \ {d} : pc'[e] = pc[e]
    BY <1>0, <1>3 DEF Count, Goto
  <2>2. CASE d = b
    <3>1. pc[c] = "idle"
      BY <2>1, <2>2, <1>b DEF Answered
    <3>2. ran[c] = 0 /\ ~In(c, queue[Priority[b]])
      BY <3>1, <1>b DEF Delivered
    <3>3. Precedes(b, c)
      BY <3>2 DEF In, Precedes
    <3>4. QED
      BY <2>1, <2>2, <3>1, <3>2, <3>3, <1>d DEF Answered
  <2>3. CASE d # b
    BY <2>1, <2>3, <1>b, <1>d DEF Answered
  <2>4. QED
    BY <2>2, <2>3
<1>4. ASSUME NEW d \in Repeat, Reissue(d) PROVE Goal
  <2>1. /\ UNCHANGED queue /\ pc'[d] = "idle" /\ ran'[d] = 0 /\ d # b
        /\ \A e \in PostCall \ {d} : pc'[e] = pc[e] /\ ran'[e] = ran[e]
    BY <1>0, <1>4 DEF Reissue, Goto
  <2>2. QED
    BY <2>1, <1>b, <1>d DEF Answered
<1>5. ASSUME NEW d \in PostCall \cup StopCall, Push(d) PROVE Goal
  <2>1. /\ UNCHANGED ran /\ pc[d] = "push" /\ pc'[d] = "count"
        /\ \A e \in PostCall \ {d} : pc'[e] = pc[e]
    BY <1>0, <1>5, BackTask
  <2>2. ASSUME pc'[b] = "true", ran'[b] = 0 PROVE ran'[c] = 0 /\ Precedes(b, c)'
    <3>1. pc[b] = "true" /\ ran[b] = 0 /\ ran[c] = 0 /\ Precedes(b, c)
      BY <2>1, <2>2, <1>b
    <3>2. CASE QueueOf(d) # Priority[b]
      <4>1. queue'[Priority[b]] = queue[Priority[b]]
        BY <1>5, <1>b, <3>2, BackTask
      <4>2. QED
        BY <2>1, <3>1, <4>1 DEF Precedes
    <3>3. CASE QueueOf(d) = Priority[b]
      <4> DEFINE s == queue[Priority[b]]
                 n == queue'[Priority[b]]
      <4>1. /\ Len(n) = Len(s) + 1 /\ n[Len(s) + 1] = d
            /\ \A k \in 1..Len(s) : n[k] = s[k]
        BY <1>5, <3>3, BackTask
      <4>2. In(b, s)
        BY <1>b, <3>1 DEF Delivered
      <4>3. PICK i \in 1..Len(s) : s[i] = b
        BY <4>2 DEF In
      <4> HIDE DEF s, n
      <4>4. ASSUME NEW k \in 1..Len(n), n[k] = c
            PROVE  \E j \in 1..(k - 1) : n[j] = b
        <5>1. Len(s) \in Nat
          BY <1>c DEF s
        <5>2. CASE k \in 1..Len(s)
          <6>1. s[k] = c
            BY <4>1, <4>4, <5>2
          <6>2. PICK j \in 1..(k - 1) : s[j] = b
            BY <3>1, <5>2, <6>1 DEF Precedes, s
          <6>3. j \in 1..Len(s)
            BY <5>1, <5>2
          <6>4. QED
            BY <4>1, <6>2, <6>3
        <5>3. CASE k = Len(s) + 1
          BY <4>1, <4>3, <5>1, <5>3
        <5>4. QED
          BY <4>1, <4>4, <5>1, <5>2, <5>3
      <4>5. QED
        BY <2>1, <3>1, <4>4 DEF Precedes, n
    <3>4. QED
      BY <3>2, <3>3
  <2>3. pc'[c] # "idle" => Answered(b)'
    BY <2>1, <1>b DEF Answered
  <2>4. QED
    BY <2>2, <2>3
<1>6. CASE Run \/ Loop \/ DealSys \/ DropSys \/ SysDealt \/ SysNotify \/ Pick \/ Batch
  <2>1. /\ UNCHANGED queue
        /\ \A e \in PostCall : pc'[e] = pc[e] /\ ran'[e] = ran[e]
    BY <1>0, <1>6 DEF Run, Loop, DealSys, DropSys, SysDealt, SysNotify, Pick,
                      Batch, callVars
  <2>2. QED
    BY <2>1, <1>b, <1>d DEF Answered
<1>7. CASE TaskDone
  <2>1. PICK t \in PostCall \cup StopCall :
           /\ Len(queue[que]) \in Nat /\ Len(queue[que]) >= 1
           /\ queue[que][1] = t
           /\ QueueOf(t) = que /\ que \in Level
           /\ Len(queue'[que]) = Len(queue[que]) - 1
           /\ \A k \in 1..Len(queue'[que]) : queue'[que][k] = queue[que][k + 1]
           /\ \A q \in Level \ {que} : queue'[q] = queue[q]
           /\ pc' = pc
           /\ ran' = [ran EXCEPT ![t] = @ + 1]
    BY <1>7, FrontTask
  <2>2. ASSUME pc'[b] = "true", ran'[b] = 0 PROVE ran'[c] = 0 /\ Precedes(b, c)'
    <3>1. t # b /\ pc[b] = "true" /\ ran[b] = 0
      BY <1>0, <2>1, <2>2
    <3>2. ran[c] = 0 /\ Precedes(b, c)
      BY <3>1, <1>b
    <3>3. t # c
      BY <2>1, <3>2, <1>b DEF Precedes
    <3>4. ran'[c] = 0
      BY <1>0, <2>1, <3>2, <3>3
    <3>5. CASE que # Priority[b]
      BY <2>1, <3>2, <3>4, <3>5, <1>b DEF Precedes
    <3>6. CASE que = Priority[b]
      <4>1. ASSUME NEW k \in 1..Len(queue'[que]), queue'[que][k] = c
            PROVE  \E j \in 1..(k - 1) : queue'[que][j] = b
        <5>1. k + 1 \in 1..Len(queue[que]) /\ queue[que][k + 1] = c
          BY <2>1, <4>1
        <5>2. PICK j \in 1..k : queue[que][j] = b
          BY <3>2, <3>6, <5>1 DEF Precedes
        <5>3. j # 1 /\ j - 1 \in 1..(k - 1) /\ j - 1 \in 1..Len(queue'[que])
          BY <2>1, <3>1, <5>2
        <5>4. queue'[que][j - 1] = b
          BY <2>1, <5>2, <5>3
        <5>5. QED
          BY <5>3, <5>4
      <4>2. QED
        BY <3>4, <3>6, <4>1 DEF Precedes
    <3>7. QED
      BY <3>5, <3>6
  <2>3. QED
    BY <2>1, <2>2, <1>b DEF Answered
<1>8. QED
  BY <1>1, <1>2, <1>3, <1>4, <1>5, <1>6, <1>7 DEF Next, Worker, Begin, Continue

LEMMA PostOrderInvariant == Spec => []PostOrder
<1>1. PostOrder /\ UNCHANGED vars => PostOrder'
  BY SamePostOrder DEF vars, callVars
<1>2. Shape /\ Delivery /\ PostOrder /\ [Next]_vars => PostOrder'
  BY <1>1, StepPostOrder DEF Next
<1>3. QED
  BY InitPostOrder, <1>2, ShapeInvariant, DeliveryInvariant, PTL DEF Spec

(* Two posts of one thread at one priority are executed in their order.    *)
THEOREM PostsInOrder == Spec => []ProgramOrder
<1>1. Shape /\ Delivery /\ PostOrder => ProgramOrder
  <2> SUFFICES ASSUME Shape, Delivery, PostOrder,
                      NEW b \in PostCall \ Repeat, NEW c \in PostCall,
                      Follows(b, c), pc[b] = "true"
               PROVE  ran[b] >= ran[c]
    BY DEF ProgramOrder, Follows
  <2>1. ran[b] \in {0, 1} /\ ran[c] \in {0, 1}
    BY DEF Delivery, Delivered
  <2>2. ran[b] = 0 => ran[c] = 0
    BY DEF PostOrder
  <2>3. QED
    BY <2>1, <2>2
<1>2. QED
  BY <1>1, ShapeInvariant, DeliveryInvariant, PostOrderInvariant, PTL
=============================================================================
