----------------------------- MODULE TimerProofs -----------------------------
(***************************************************************************)
(* Theorems on Timer, for any number of timers, identifiers and calls.     *)
(*                                                                         *)
(* ChainInv holds for any number of clients: what a call and a handler     *)
(* have of their timer, what a timer is before it was armed, and then the  *)
(* chain of its waits and the account of its count.                        *)
(*                                                                         *)
(* KillInv needs that one thread makes all the calls, as the logical       *)
(* processor does: what its call finds in the table is still there when it *)
(* acts on it, so a timer that KillTimer took out is nobody's any more.    *)
(***************************************************************************)
EXTENDS Timer, TLAPS

InCallOf(k, t) == pc[k] # "out" /\ call[k].timer = t

(* A call has its arguments, and its timer once it is to use it. *)
CallOf(k) ==
  /\ call[k].count >= -1
  /\ pc[k] = "insert" => call[k].timer = None
  /\ pc[k] # "out" => call[k].id \in Id
  /\ pc[k] \in {"store", "arm", "remove", "zero"} =>
       call[k].timer \in Timer /\ life[call[k].timer] # "unused"

Calls == \A k \in Client : CallOf(k)

Tabled == \A i \in Id : table[i] # None => life[table[i]] # "unused"

(* Between its test and its decrement, a count is at most what a call set. *)
Tested == io.at \in {"zero", "counted", "less"} => runs[io.timer] >= -1

(* A timer that was not armed has neither wait nor handler, and its count  *)
(* is as it was set.                                                       *)
Unarmed(t) ==
  /\ life[t] = "unused" => past[t].armed = 0 /\ ~past[t].killed
  /\ past[t].armed = 0 =>
       /\ waits[t] = 0 /\ due[t] = 0 /\ io.timer # t
       /\ past[t].posted = 0
       /\ past[t].killed \/ runs[t] = past[t].count

Chain(t) ==
  past[t].armed = 1 =>
    \/ waits[t] + due[t] + (IF io.timer = t THEN 1 ELSE 0) = IF life[t] = "live" THEN 1 ELSE 0
    \/ service = "gone"

Ahead(t) == IF io.timer = t /\ io.at = "less" THEN 1 ELSE 0

(* What was posted and what is left make up the count, if no call is about *)
(* to change it.                                                           *)
Account(t) ==
  past[t].armed = 1 /\ ~past[t].killed =>
    \/ \E k \in Client : InCallOf(k, t)
    \/ past[t].count < 0
    \/ past[t].posted + runs[t] - Ahead(t) = past[t].count

ChainInv ==
  /\ TypeOK /\ Calls /\ Tabled /\ Tested
  /\ \A t \in Timer : Unarmed(t) /\ Chain(t) /\ Account(t)

-----------------------------------------------------------------------------
(***************************************************************************)
(* One client.                                                             *)
(***************************************************************************)
OneClient == \A k, l \in Client : k = l

Absent(t) == \A i \in Id : table[i] # t

(* The table is as the call found it. *)
Found ==
  /\ \A k \in Client :
       /\ pc[k] = "insert" => table[call[k].id] = None
       /\ pc[k] = "remove" => table[call[k].id] = call[k].timer
       /\ pc[k] = "zero" => Absent(call[k].timer)
  /\ \A i, j \in Id : table[i] = table[j] /\ table[i] # None => i = j

(* A timer that was killed is in no table and in no call. *)
Abandoned(t) ==
  /\ past[t].killed => Absent(t) /\ \A k \in Client : ~InCallOf(k, t)
  /\ ~past[t].killed => past[t].late = 0 /\ (past[t].count < 0 => runs[t] < 0)

(* A timer that was set once is decremented only if it has a count. *)
SetOnce(t) ==
  past[t].armed = 1 /\ (\A k \in Client : pc[k] \in {"store", "arm"} => call[k].timer # t) =>
    /\ past[t].count = 0 => runs[t] = 0
    /\ past[t].count < 0 /\ past[t].killed => runs[t] = 0
    /\ io.timer = t /\ io.at \in {"counted", "less"} => past[t].count > 0
    /\ io.timer = t /\ io.at = "zero" /\ past[t].count < 0 => past[t].killed

(* What is left of a timer after KillTimer. *)
Killed(t) ==
  past[t].killed /\ past[t].armed = 1 =>
    \/ runs[t] = 0 /\ past[t].late = 0
    \/ /\ runs[t] = 0 /\ past[t].late = 1
       /\ io.timer = t => io.at \notin {"endless", "counted"}
    \/ runs[t] < 0 /\ past[t].count > 0

(* A timer that lives can be found or was killed; of the others the table  *)
(* has those that used up their count.                                     *)
Lasting(t) ==
  service # "gone" =>
    /\ life[t] = "live" =>
         \/ ~Absent(t) \/ past[t].killed
         \/ \E k \in Client : call[k].timer = t /\ pc[k] = "zero"
    /\ life[t] = "dead" /\ ~Absent(t) => past[t].count >= 0 /\ runs[t] = 0

KillInv ==
  /\ Found
  /\ \A t \in Timer : Abandoned(t) /\ SetOnce(t) /\ Killed(t) /\ Lasting(t)

-----------------------------------------------------------------------------
(***************************************************************************)
(* Types.                                                                  *)
(***************************************************************************)
LEMMA Records ==
  ASSUME TypeOK
  PROVE  /\ call \in [Client -> Call] /\ past \in [Timer -> Past]
         /\ table \in [Id -> Timer \cup {None}]
         /\ io = Idle \/ (io.at # "idle" /\ io.timer \in Timer)
         /\ io.timer \in Timer => io # Idle
         /\ None \notin Timer
<1>1. Idle.at = "idle" /\ Idle.timer = None /\ None \notin Timer
  BY TimerAssumption DEF Idle
<1>2. io = Idle \/ (io.at # "idle" /\ io.timer \in Timer)
  BY DEF TypeOK, Place
<1> QED
  BY <1>1, <1>2 DEF TypeOK

LEMMA NewIsUnused ==
  ASSUME NEW u \in Timer, life[u] = "unused"
  PROVE  NewTimer \in Timer /\ life[NewTimer] = "unused"
BY DEF NewTimer

(* What Posted writes. *)
LEMMA PostedWrites ==
  ASSUME TypeOK, NEW t \in Timer, Posted(t)
  PROVE  /\ past' \in [Timer -> Past]
         /\ \A u \in Timer : u # t => past'[u] = past[u]
         /\ UNCHANGED <<past[t].armed, past[t].count, past[t].killed>>
         /\ past'[t].posted = past[t].posted + (IF io.at = "counted" THEN 1 ELSE 0)
         /\ past'[t].late =
              past[t].late + (IF past[t].killed /\ past[t].late < 2 THEN 1 ELSE 0)
<1>1. past[t] \in Past
  BY Records
<1> DEFINE l == IF past[t].killed /\ past[t].late < 2 THEN past[t].late + 1 ELSE past[t].late
           p == IF io.at = "counted" THEN past[t].posted + 1 ELSE past[t].posted
<1>2. l \in 0..2 /\ p \in Nat
  BY <1>1 DEF Past
<1>3. past' = [past EXCEPT ![t].late = l, ![t].posted = p]
  <2>1. [past EXCEPT ![t].late = l][t].posted = past[t].posted
    BY <1>1, Records DEF Past
  <2> QED
    BY <2>1 DEF Posted
<1> HIDE DEF l, p
<1>4. [past[t] EXCEPT !.late = l, !.posted = p] \in Past
  BY <1>1, <1>2 DEF Past
<1>5. past' = [past EXCEPT ![t] = [past[t] EXCEPT !.late = l, !.posted = p]]
  BY <1>3, Records
<1>6. /\ past' \in [Timer -> Past] /\ \A u \in Timer : u # t => past'[u] = past[u]
      /\ past'[t] = [past[t] EXCEPT !.late = l, !.posted = p]
  BY <1>4, <1>5, Records
<1>7. /\ UNCHANGED <<past[t].armed, past[t].count, past[t].killed>>
      /\ past'[t].posted = p /\ past'[t].late = l
  BY <1>1, <1>6 DEF Past
<1>8. /\ p = past[t].posted + (IF io.at = "counted" THEN 1 ELSE 0)
      /\ l = past[t].late + (IF past[t].killed /\ past[t].late < 2 THEN 1 ELSE 0)
  BY <1>1 DEF Past, l, p
<1> QED
  BY <1>6, <1>7, <1>8

(* Names for the actions that a part of the invariant is about. *)
ClientStep(k) ==
  InCall(k) \/ \E i \in Id : KillTimer(k, i) \/ \E n \in Count : SetTimer(k, i, n)

TimerStep(t) == Expire(t) \/ RunBegin(t)

EndStep == Stop \/ Destroy \/ DestroyDead

LEMMA TypeClient ==
  ASSUME TypeOK, Calls, NEW k \in Client, ClientStep(k)
  PROVE  TypeOK'
<1> USE TimerAssumption
<1>1. ASSUME NEW i \in Id, NEW n \in Count, SetTimer(k, i, n)
      PROVE  TypeOK'
  <2>1. [id |-> i, count |-> n, timer |-> table[i]] \in Call
    BY DEF TypeOK, Call
  <2>2. call' \in [Client -> Call]
    BY <1>1, <2>1, Records DEF SetTimer
  <2> QED
    BY <1>1, <2>2 DEF SetTimer, MayCall, Goto, timerVars, TypeOK
<1>2. ASSUME NEW i \in Id, KillTimer(k, i)
      PROVE  TypeOK'
  <2>1. [id |-> i, count |-> 0, timer |-> table[i]] \in Call
    BY DEF TypeOK, Call
  <2>2. call' \in [Client -> Call]
    BY <1>2, <2>1, Records DEF KillTimer
  <2> QED
    BY <1>2, <2>2 DEF KillTimer, MayCall, Goto, timerVars, TypeOK
<1>3. CASE SetInsert(k)
  <2>1. NewTimer \in Timer
    BY <1>3, NewIsUnused DEF SetInsert
  <2>2. call' \in [Client -> Call]
    BY <1>3, <2>1, Records DEF SetInsert, Call
  <2> QED
    BY <1>3, <2>1, <2>2 DEF SetInsert, Goto, TypeOK
<1>4. CASE SetNoMemory(k) \/ KillRemove(k) \/ CallDead(k)
  BY <1>4 DEF SetNoMemory, KillRemove, CallDead, Goto, timerVars, clientVars, TypeOK
<1>5. CASE SetStore(k)
  <2>1. call[k].count \in Int /\ call[k].count >= -2
    BY Records DEF Calls, CallOf, Call
  <2>2. past' \in [Timer -> Past]
    BY <1>5, <2>1, Records DEF SetStore, Past
  <2> QED
    BY <1>5, <2>1, <2>2 DEF SetStore, Goto, TypeOK
<1>6. CASE SetArm(k)
  <2>1. call[k].timer \in Timer
    BY <1>6 DEF SetArm, Calls, CallOf
  <2>2. past' \in [Timer -> Past]
    BY <1>6, <2>1, Records DEF SetArm, Past
  <2> QED
    BY <1>6, <2>2 DEF SetArm, Goto, TypeOK
<1>7. CASE KillZero(k)
  <2>1. past' \in [Timer -> Past]
    BY <1>7, Records DEF KillZero, Past
  <2> QED
    BY <1>7, <2>1 DEF KillZero, Goto, TypeOK
<1> QED
  BY <1>1, <1>2, <1>3, <1>4, <1>5, <1>6, <1>7 DEF ClientStep, InCall

LEMMA TypeRun ==
  ASSUME TypeOK, Tested, Run \/ EndStep \/ \E t \in Timer : TimerStep(t)
  PROVE  TypeOK'
<1>1. ASSUME NEW t \in Timer, TimerStep(t)
      PROVE  TypeOK'
  BY <1>1 DEF TimerStep, Expire, RunBegin, clientVars, TypeOK, Place
<1>2. CASE RunNegative \/ RunZero \/ RunDead
  <2>1. io' \in Place
    BY <1>2, Records DEF RunNegative, RunZero, RunDead, RunAt, TypeOK, Place, Idle
  <2> QED
    BY <1>2, <2>1 DEF RunNegative, RunZero, RunDead, timerVars, clientVars, TypeOK
<1>3. CASE RunOut \/ RunWait
  BY <1>3 DEF RunOut, RunWait, clientVars, TypeOK, Place
<1>4. CASE RunPost
  <2>1. io.timer \in Timer
    BY <1>4, Records DEF RunPost, RunAt, Idle
  <2>2. io' \in Place
    BY <1>4, Records DEF RunPost, RunAt, TypeOK, Place, Idle
  <2> QED
    BY <1>4, <2>1, <2>2, PostedWrites DEF RunPost, timerVars, clientVars, TypeOK
<1>5. CASE RunLess
  <2>1. io.timer \in Timer /\ runs[io.timer] >= -1
    BY <1>5, Records DEF RunLess, RunAt, Tested, Idle
  <2>2. io' \in Place
    BY <1>5, Records DEF RunLess, RunAt, TypeOK, Place, Idle
  <2> QED
    BY <1>5, <2>1, <2>2 DEF RunLess, clientVars, TypeOK
<1>6. CASE EndStep
  BY <1>6 DEF EndStep, Stop, Destroy, DestroyDead, timerVars, clientVars, TypeOK
<1> QED
  BY <1>1, <1>2, <1>3, <1>4, <1>5, <1>6 DEF Run

-----------------------------------------------------------------------------
(***************************************************************************)
(* The calls, the table and the handler.                                   *)
(***************************************************************************)
LEMMA LifeGrows ==
  ASSUME TypeOK, Calls, Next, NEW t \in Timer, life[t] # "unused"
  PROVE  life'[t] # "unused"
<1>1. ASSUME NEW k \in Client, ClientStep(k)
      PROVE  life'[t] # "unused"
  BY <1>1 DEF ClientStep, InCall, SetTimer, SetInsert, SetNoMemory, SetStore, SetArm, KillTimer,
              KillRemove, KillZero, CallDead, timerVars, TypeOK
<1>2. CASE Run \/ EndStep \/ \E u \in Timer : TimerStep(u)
  BY <1>2 DEF Run, RunNegative, RunZero, RunOut, RunPost, RunLess, RunWait, RunDead, EndStep, Stop,
              Destroy, DestroyDead, TimerStep, Expire, RunBegin, timerVars, TypeOK
<1> QED
  BY <1>1, <1>2 DEF Next, ClientStep, EndStep, TimerStep

LEMMA CallsStep ==
  ASSUME TypeOK, Calls, Tabled, Next
  PROVE  Calls'
<1> USE TimerAssumption
<1>1. ASSUME NEW k \in Client, ClientStep(k)
      PROVE  Calls'
  <2>1. \A l \in Client : l # k => call'[l] = call[l] /\ pc'[l] = pc[l]
    BY <1>1, Records DEF ClientStep, InCall, SetTimer, SetInsert, SetNoMemory, SetStore, SetArm,
            KillTimer, KillRemove, KillZero, CallDead, Goto, clientVars, TypeOK
  <2>2. CallOf(k)'
    <3>1. ASSUME NEW i \in Id, NEW n \in Count, SetTimer(k, i, n)
          PROVE  CallOf(k)'
      <4>1. /\ call'[k] = [id |-> i, count |-> n, timer |-> table[i]]
            /\ pc'[k] = IF table[i] = None THEN "insert" ELSE "store"
            /\ life' = life
        BY <3>1, Records DEF SetTimer, Goto, timerVars, TypeOK
      <4> QED
        BY <4>1, Records DEF Tabled, CallOf
    <3>2. ASSUME NEW i \in Id, KillTimer(k, i)
          PROVE  CallOf(k)'
      <4>1. /\ call'[k] = [id |-> i, count |-> 0, timer |-> table[i]] /\ table[i] # None
            /\ pc'[k] = "remove" /\ life' = life
        BY <3>2, Records DEF KillTimer, Goto, timerVars, TypeOK
      <4> QED
        BY <4>1, Records DEF Tabled, CallOf
    <3>3. CASE SetInsert(k)
      <4>1. NewTimer \in Timer
        BY <3>3, NewIsUnused DEF SetInsert
      <4>2. /\ call'[k].id = call[k].id /\ call'[k].count = call[k].count
            /\ call'[k].timer = NewTimer
            /\ pc[k] = "insert" /\ pc'[k] = "store" /\ life'[NewTimer] = "live"
        BY <3>3, <4>1, Records DEF SetInsert, Goto, TypeOK, Call
      <4> QED
        BY <4>1, <4>2 DEF Calls, CallOf
    <3>4. CASE SetNoMemory(k) \/ SetStore(k) \/ SetArm(k) \/ KillRemove(k) \/ KillZero(k)
               \/ CallDead(k)
      <4>1. /\ call' = call /\ life' = life
            /\ \/ pc'[k] = "out" \/ pc'[k] = pc[k]
               \/ pc[k] = "store" /\ pc'[k] = "arm"
               \/ pc[k] = "remove" /\ pc'[k] = "zero"
        BY <3>4 DEF SetNoMemory, SetStore, SetArm, KillRemove, KillZero, CallDead, Goto,
                    timerVars, clientVars, TypeOK
      <4> QED
        BY <4>1 DEF Calls, CallOf
    <3> QED
      BY <1>1, <3>1, <3>2, <3>3, <3>4 DEF ClientStep, InCall
  <2>3. ASSUME NEW l \in Client, l # k, pc[l] \in {"store", "arm", "remove", "zero"}
        PROVE  call[l].timer \in Timer /\ life'[call[l].timer] # "unused"
    BY <2>3, LifeGrows DEF Calls, CallOf
  <2> QED
    BY <2>1, <2>2, <2>3 DEF Calls, CallOf
<1>2. CASE Run \/ EndStep \/ \E u \in Timer : TimerStep(u)
  <2>1. UNCHANGED <<call, pc>>
    BY <1>2 DEF Run, RunNegative, RunZero, RunOut, RunPost, RunLess, RunWait, RunDead, EndStep,
                Stop, Destroy, DestroyDead, TimerStep, Expire, RunBegin, clientVars
  <2> QED
    BY <2>1, LifeGrows DEF Calls, CallOf
<1> QED
  BY <1>1, <1>2 DEF Next, ClientStep, EndStep, TimerStep

LEMMA TabledStep ==
  ASSUME TypeOK, Calls, Tabled, Next
  PROVE  Tabled'
<1> SUFFICES ASSUME NEW i \in Id, table'[i] # None
             PROVE  life'[table'[i]] # "unused"
  BY DEF Tabled
<1>1. CASE table'[i] = table[i]
  BY <1>1, LifeGrows, Records DEF Tabled
<1>2. CASE table'[i] # table[i]
  <2>1. PICK k \in Client : SetInsert(k)
    BY <1>2 DEF Next, InCall, SetTimer, SetNoMemory, SetStore, SetArm, KillTimer, KillRemove,
                KillZero, CallDead, Run, RunNegative, RunZero, RunOut, RunPost, RunLess, RunWait,
                RunDead, Stop, Destroy, DestroyDead, Expire, RunBegin, TypeOK
  <2>2. NewTimer \in Timer
    BY <2>1, NewIsUnused DEF SetInsert
  <2>3. table'[i] = NewTimer /\ life'[NewTimer] = "live"
    BY <1>2, <2>1, <2>2 DEF SetInsert, TypeOK
  <2> QED
    BY <2>3
<1> QED
  BY <1>1, <1>2

LEMMA TestedStep ==
  ASSUME TypeOK, Calls, Tested, Next
  PROVE  Tested'
<1>1. \A t \in Timer : runs[t] \in Int
  BY DEF TypeOK
<1>2. ASSUME NEW k \in Client, ClientStep(k)
      PROVE  Tested'
  <2>1. CASE SetStore(k) \/ KillZero(k)
    <3>1. /\ io' = io
          /\ \A t \in Timer : runs'[t] = runs[t] \/ runs'[t] = call[k].count \/ runs'[t] = 0
      BY <2>1 DEF SetStore, KillZero, TypeOK
    <3>2. call[k].count >= -1
      BY DEF Calls, CallOf
    <3> QED
      BY <1>1, <3>1, <3>2, Records DEF Tested, Idle
  <2>2. CASE ~(SetStore(k) \/ KillZero(k))
    <3>1. UNCHANGED <<io, runs>>
      BY <1>2, <2>2 DEF ClientStep, InCall, SetTimer, SetInsert, SetNoMemory, SetArm, KillTimer,
                        KillRemove, CallDead, timerVars
    <3> QED
      BY <3>1 DEF Tested
  <2> QED
    BY <2>1, <2>2
<1>3. CASE Run
  <2>1. CASE RunNegative
    BY <1>1, <2>1, Records DEF RunNegative, RunAt, timerVars, Tested, Idle, TypeOK, Place
  <2>2. CASE RunZero \/ RunPost
    BY <2>2, Records DEF RunZero, RunPost, RunAt, timerVars, Tested, Idle, TypeOK, Place
  <2>3. CASE RunOut \/ RunLess \/ RunWait
    BY <2>3, Records DEF RunOut, RunLess, RunWait, RunAt, Tested, Idle, TypeOK, Place
  <2>4. CASE RunDead
    BY <2>4 DEF RunDead, timerVars, Tested
  <2> QED
    BY <1>3, <2>1, <2>2, <2>3, <2>4 DEF Run
<1>4. CASE EndStep \/ \E u \in Timer : TimerStep(u)
  BY <1>4 DEF EndStep, Stop, Destroy, DestroyDead, TimerStep, Expire, RunBegin, timerVars, Tested
<1> QED
  BY <1>2, <1>3, <1>4 DEF Next, ClientStep, EndStep, TimerStep

-----------------------------------------------------------------------------
(***************************************************************************)
(* The chain of a timer and the account of its count.                      *)
(***************************************************************************)
Ledger(t) == Unarmed(t) /\ Chain(t) /\ Account(t)

(* A step that is not about t. *)
Quiet(t) ==
  /\ UNCHANGED <<runs[t], waits[t], due[t], past[t], life[t]>>
  /\ io' = io \/ (io.timer # t /\ io'.timer # t)

Calling(t) == \E k \in Client : InCallOf(k, t)

LEMMA QuietStep ==
  ASSUME NEW t \in Timer, Ledger(t), Quiet(t), Calling(t) => Calling(t)',
         service = "gone" => service' = "gone"
  PROVE  Ledger(t)'
<1>1. Unarmed(t)'
  BY DEF Ledger, Unarmed, Quiet
<1>2. Chain(t)'
  BY DEF Ledger, Chain, Quiet
<1>3. Account(t)'
  BY DEF Ledger, Account, Ahead, Quiet, Calling
<1> QED
  BY <1>1, <1>2, <1>3 DEF Ledger

(* A call of t ends with the arming or with the kill of t. *)
LEMMA CallingStays ==
  ASSUME TypeOK, Calls, NEW k \in Client, ClientStep(k), NEW t \in Timer,
         (SetArm(k) \/ KillZero(k)) => call[k].timer # t, Calling(t)
  PROVE  Calling(t)'
<1> USE TimerAssumption
<1>1. PICK l \in Client : InCallOf(l, t)
  BY DEF Calling
<1>2. CASE l # k
  <2>1. call'[l] = call[l] /\ pc'[l] = pc[l]
    BY <1>2, Records DEF ClientStep, InCall, SetTimer, SetInsert, SetNoMemory, SetStore, SetArm,
            KillTimer, KillRemove, KillZero, CallDead, Goto, clientVars, TypeOK
  <2> QED
    BY <1>1, <2>1 DEF InCallOf, Calling
<1>3. CASE l = k
  <2>1. pc[k] \notin {"out", "insert"}
    BY <1>1, <1>3 DEF InCallOf, Calls, CallOf
  <2>2. SetStore(k) \/ SetArm(k) \/ KillRemove(k) \/ KillZero(k) \/ CallDead(k)
    BY <2>1 DEF ClientStep, InCall, SetTimer, MayCall, SetInsert, SetNoMemory, KillTimer
  <2>3. call' = call /\ pc'[k] # "out"
    BY <1>1, <1>3, <2>2 DEF SetStore, SetArm, KillRemove, KillZero, CallDead, Goto, clientVars,
                            InCallOf, TypeOK
  <2> QED
    BY <1>1, <1>3, <2>3 DEF InCallOf, Calling
<1> QED
  BY <1>2, <1>3

LEMMA LedgerClient ==
  ASSUME TypeOK, Calls, NEW k \in Client, ClientStep(k), NEW t \in Timer, Ledger(t)
  PROVE  Ledger(t)'
<1> USE TimerAssumption
<1>1. UNCHANGED <<io, service, due>>
  BY DEF ClientStep, InCall, SetTimer, SetInsert, SetNoMemory, SetStore, SetArm, KillTimer,
         KillRemove, KillZero, CallDead, timerVars
<1>2. past[t] \in Past /\ runs[t] \in Int /\ waits[t] \in Nat /\ due[t] \in Nat
  BY Records DEF TypeOK
<1>3. CASE SetInsert(k) /\ t = NewTimer
  <2>1. life[t] = "unused" /\ life'[t] = "live" /\ UNCHANGED <<runs, waits, past>>
    BY <1>3, NewIsUnused DEF SetInsert, TypeOK
  <2>2. past[t].armed = 0
    BY <2>1 DEF Ledger, Unarmed
  <2> QED
    BY <1>1, <2>1, <2>2 DEF Ledger, Unarmed, Chain, Account
<1>4. CASE SetStore(k) /\ t = call[k].timer
  <2>1. /\ runs'[t] = call[k].count /\ UNCHANGED <<life, waits>> /\ life[t] = "live"
        /\ InCallOf(k, t)'
    BY <1>4 DEF SetStore, Goto, InCallOf, TypeOK
  <2>2. /\ past'[t].count = call[k].count
        /\ UNCHANGED <<past[t].armed, past[t].posted, past[t].killed>>
    BY <1>2, <1>4, Records DEF SetStore, Past
  <2> QED
    BY <1>1, <2>1, <2>2 DEF Ledger, Unarmed, Chain, Account
<1>5. CASE SetArm(k) /\ t = call[k].timer
  <2>1. waits'[t] = waits[t] + 1 /\ UNCHANGED <<life, runs>> /\ life[t] = "live"
    BY <1>5 DEF SetArm, TypeOK
  <2>2. /\ past'[t].armed = past[t].armed + 1
        /\ UNCHANGED <<past[t].count, past[t].posted, past[t].killed>>
    BY <1>2, <1>5, Records DEF SetArm, Past
  <2>3. past[t].armed \in Nat
    BY <1>2 DEF Past
  <2>4. past'[t].armed = 1 =>
          /\ waits'[t] = 1 /\ due'[t] = 0 /\ io'.timer # t
          /\ past'[t].posted = 0 /\ (past'[t].killed \/ runs'[t] = past'[t].count)
    BY <1>1, <2>1, <2>2, <2>3 DEF Ledger, Unarmed
  <2>5. Unarmed(t)' /\ Chain(t)'
    BY <1>1, <2>1, <2>2, <2>3, <2>4 DEF Unarmed, Chain
  <2>6. Account(t)'
    BY <1>2, <2>1, <2>4 DEF Account, Ahead
  <2> QED
    BY <2>5, <2>6 DEF Ledger
<1>6. CASE KillZero(k) /\ t = call[k].timer
  <2>1. UNCHANGED <<life, waits>> /\ life[t] = "live"
    BY <1>6 DEF KillZero
  <2>2. past'[t].killed /\ UNCHANGED <<past[t].armed, past[t].posted>>
    BY <1>2, <1>6, Records DEF KillZero, Past
  <2> QED
    BY <1>1, <2>1, <2>2 DEF Ledger, Unarmed, Chain, Account
<1>7. CASE /\ (SetStore(k) \/ SetArm(k) \/ KillZero(k)) => t # call[k].timer
           /\ SetInsert(k) => t # NewTimer
  <2>1. Quiet(t)
    BY <1>1, <1>7, Records DEF ClientStep, InCall, SetTimer, SetInsert, SetNoMemory, SetStore,
         SetArm, KillTimer, KillRemove, KillZero, CallDead, timerVars, Quiet, TypeOK
  <2> QED
    BY <1>1, <1>7, <2>1, CallingStays, QuietStep
<1> QED
  BY <1>3, <1>4, <1>5, <1>6, <1>7

LEMMA LedgerRun ==
  ASSUME TypeOK, Calls, Tested, Run, NEW t \in Timer, Ledger(t)
  PROVE  Ledger(t)'
<1> USE TimerAssumption
<1>1. UNCHANGED <<service, due, pc, call>> /\ (Calling(t) => Calling(t)')
  BY DEF Run, RunNegative, RunZero, RunOut, RunPost, RunLess, RunWait, RunDead, timerVars,
         clientVars, Calling, InCallOf
<1>2. past[t] \in Past /\ runs[t] \in Int /\ waits[t] \in Nat /\ due[t] \in Nat
  BY Records DEF TypeOK
<1>3. CASE io.timer # t
  <2>1. io'.timer # t
    BY <1>3, Records DEF Run, RunNegative, RunZero, RunOut, RunPost, RunLess, RunWait, RunDead,
         Idle, TypeOK, Place
  <2>2. CASE RunPost
    <3>1. io.timer \in Timer
      BY <2>2, Records DEF RunPost, RunAt, Idle
    <3>2. past'[t] = past[t]
      BY <1>3, <2>2, <3>1, PostedWrites DEF RunPost
    <3> QED
      BY <1>1, <1>3, <2>1, <2>2, <3>2, QuietStep DEF RunPost, timerVars, Quiet
  <2>3. CASE ~RunPost
    <3>1. UNCHANGED <<runs[t], waits[t], past[t], life[t]>>
      BY <1>3, <2>3 DEF Run, RunNegative, RunZero, RunOut, RunLess, RunWait, RunDead, timerVars,
           TypeOK
    <3> QED
      BY <1>1, <1>3, <2>1, <3>1, QuietStep DEF Quiet
  <2> QED
    BY <2>2, <2>3
<1>4. CASE io.timer = t
  <2>1. past[t].armed # 0
    BY <1>4 DEF Ledger, Unarmed
  <2>2. CASE RunNegative \/ RunZero \/ RunDead
    <3>1. /\ UNCHANGED <<timerVars, past>> /\ io'.timer = t
          /\ (io'.at # "less" /\ io.at # "less") \/ io' = io
      BY <1>4, <2>2, Records DEF RunNegative, RunZero, RunDead, RunAt, TypeOK, Place, Idle
    <3> QED
      BY <1>1, <1>4, <3>1 DEF timerVars, Ledger, Unarmed, Chain, Account, Ahead, Calling
  <2>3. CASE RunOut
    <3>1. /\ io.at = "zero" /\ life[t] = "live" /\ life'[t] = "dead" /\ waits'[t] = 0
          /\ io'.timer # t /\ UNCHANGED <<runs, past>>
      BY <1>4, <2>3 DEF RunOut, RunAt, TypeOK, Idle
    <3>2. Unarmed(t)' /\ Chain(t)'
      BY <1>1, <1>2, <1>4, <2>1, <3>1 DEF Ledger, Unarmed, Chain
    <3>3. Account(t)'
      BY <1>1, <3>1 DEF Ledger, Account, Ahead, Calling
    <3> QED
      BY <3>2, <3>3 DEF Ledger
  <2>4. CASE RunPost
    <3>1. /\ UNCHANGED <<past[t].armed, past[t].count, past[t].killed>>
          /\ past'[t].posted = past[t].posted + (IF io.at = "counted" THEN 1 ELSE 0)
          /\ io.at \in {"endless", "counted"} /\ UNCHANGED timerVars
      BY <1>4, <2>4, PostedWrites DEF RunPost, RunAt
    <3>2. io'.timer = t /\ io'.at = IF io.at = "endless" THEN "wait" ELSE "less"
      BY <1>4, <2>4 DEF RunPost, RunAt, TypeOK, Place, Idle
    <3>3. Unarmed(t)' /\ Chain(t)'
      BY <1>1, <1>4, <2>1, <3>1, <3>2 DEF timerVars, Ledger, Unarmed, Chain
    <3>4. past[t].posted \in Int /\ past[t].count \in Int
      BY <1>2 DEF Past
    <3>5. Account(t)'
      BY <1>1, <1>2, <1>4, <3>1, <3>2, <3>4 DEF timerVars, Ledger, Account, Ahead, Calling
    <3> QED
      BY <3>3, <3>5 DEF Ledger
  <2>5. CASE RunLess
    <3>1. /\ io.at = "less" /\ io'.at = "wait" /\ io'.timer = t
          /\ runs'[t] = runs[t] - 1 /\ UNCHANGED <<life, waits, past>>
      BY <1>4, <2>5 DEF RunLess, RunAt, TypeOK, Place, Idle
    <3>2. Unarmed(t)' /\ Chain(t)'
      BY <1>1, <1>4, <2>1, <3>1 DEF Ledger, Unarmed, Chain
    <3>3. past[t].posted \in Int /\ past[t].count \in Int
      BY <1>2 DEF Past
    <3>4. Account(t)'
      BY <1>1, <1>2, <1>4, <3>1, <3>3 DEF Ledger, Account, Ahead, Calling
    <3> QED
      BY <3>2, <3>4 DEF Ledger
  <2>6. CASE RunWait
    <3>1. /\ io.at = "wait" /\ io'.timer # t /\ life[t] = "live"
          /\ waits'[t] = 1 /\ UNCHANGED <<life, runs, past>>
      BY <1>4, <2>6 DEF RunWait, RunAt, TypeOK, Idle
    <3>2. Unarmed(t)' /\ Chain(t)'
      BY <1>1, <1>2, <1>4, <2>1, <3>1 DEF Ledger, Unarmed, Chain
    <3>3. Account(t)'
      BY <1>1, <3>1 DEF Ledger, Account, Ahead, Calling
    <3> QED
      BY <3>2, <3>3 DEF Ledger
  <2> QED
    BY <2>2, <2>3, <2>4, <2>5, <2>6 DEF Run
<1> QED
  BY <1>3, <1>4

LEMMA LedgerRest ==
  ASSUME TypeOK, EndStep \/ \E u \in Timer : TimerStep(u), NEW t \in Timer, Ledger(t)
  PROVE  Ledger(t)'
<1> USE TimerAssumption
<1>1. UNCHANGED <<pc, call, past, runs>> /\ (Calling(t) => Calling(t)')
  BY DEF EndStep, Stop, Destroy, DestroyDead, TimerStep, Expire, RunBegin, timerVars, clientVars,
         Calling, InCallOf
<1>2. waits[t] \in Nat /\ due[t] \in Nat
  BY DEF TypeOK
<1>3. CASE Stop \/ DestroyDead
  <2>1. Quiet(t) /\ (service = "gone" => service' = "gone")
    BY <1>3 DEF Stop, DestroyDead, timerVars, Quiet
  <2> QED
    BY <1>1, <2>1, QuietStep
<1>4. CASE Destroy
  <2>1. /\ life'[t] \in {life[t], "dead"} /\ service' = "gone" /\ UNCHANGED <<waits, due, io>>
        /\ life'[t] = "unused" => life[t] = "unused"
    BY <1>4 DEF Destroy, TypeOK
  <2> QED
    BY <1>1, <2>1 DEF Ledger, Unarmed, Chain, Account, Ahead, Calling
<1>5. ASSUME NEW u \in Timer, TimerStep(u), u # t
      PROVE  Ledger(t)'
  <2>1. Quiet(t) /\ service' = service
    BY <1>1, <1>5, Records DEF TimerStep, Expire, RunBegin, Idle, Quiet, TypeOK
  <2> QED
    BY <1>1, <2>1, QuietStep
<1>6. CASE Expire(t)
  <2>1. /\ waits'[t] = 0 /\ due'[t] = due[t] + waits[t] /\ waits[t] > 0
        /\ UNCHANGED <<life, io, service>>
    BY <1>6 DEF Expire, TypeOK
  <2> QED
    BY <1>1, <1>2, <2>1 DEF Ledger, Unarmed, Chain, Account, Ahead, Calling
<1>7. CASE RunBegin(t)
  <2>1. /\ due'[t] = due[t] - 1 /\ due[t] > 0 /\ UNCHANGED <<waits, life, service>>
        /\ io'.timer = t /\ io'.at = "negative" /\ io.timer # t
    BY <1>7 DEF RunBegin, Idle, TypeOK
  <2>2. Unarmed(t)' /\ Chain(t)'
    BY <1>1, <1>2, <2>1 DEF Ledger, Unarmed, Chain
  <2>3. Account(t)'
    BY <1>1, <2>1 DEF Ledger, Account, Ahead, Calling
  <2> QED
    BY <2>2, <2>3 DEF Ledger
<1> QED
  BY <1>3, <1>4, <1>5, <1>6, <1>7 DEF EndStep, TimerStep

-----------------------------------------------------------------------------
(***************************************************************************)
(* One client: what becomes of a timer that was killed.                    *)
(***************************************************************************)
Control(t) == Abandoned(t) /\ SetOnce(t) /\ Killed(t) /\ Lasting(t)

LEMMA FoundStep ==
  ASSUME OneClient, TypeOK, Calls, Tabled, Found, Next
  PROVE  Found'
<1> USE TimerAssumption
<1>1. ASSUME NEW k \in Client, ClientStep(k)
      PROVE  Found'
  <2> \A l \in Client : l = k
    BY DEF OneClient
  <2>1. ASSUME NEW i \in Id, NEW n \in Count, SetTimer(k, i, n)
        PROVE  Found'
    <3>1. /\ call'[k].id = i /\ call'[k].timer = table[i] /\ table' = table
          /\ pc'[k] = IF table[i] = None THEN "insert" ELSE "store"
      BY <2>1, Records DEF SetTimer, Goto, TypeOK
    <3> QED
      BY <3>1 DEF Found, Absent
  <2>2. ASSUME NEW i \in Id, KillTimer(k, i)
        PROVE  Found'
    <3>1. /\ call'[k].id = i /\ call'[k].timer = table[i] /\ table' = table
          /\ pc'[k] = "remove"
      BY <2>2, Records DEF KillTimer, Goto, TypeOK
    <3> QED
      BY <3>1 DEF Found, Absent
  <2>3. CASE SetInsert(k)
    <3>1. NewTimer \in Timer /\ life[NewTimer] = "unused"
      BY <2>3, NewIsUnused DEF SetInsert
    <3>2. /\ pc[k] = "insert" /\ pc'[k] = "store"
          /\ table' = [table EXCEPT ![call[k].id] = IF @ = None THEN NewTimer ELSE @]
      BY <2>3 DEF SetInsert, Goto, TypeOK
    <3>3. ASSUME NEW i \in Id, NEW j \in Id, table'[i] = table'[j], table'[i] # None
          PROVE  i = j
      BY <3>1, <3>2, <3>3, Records DEF Found, Tabled
    <3> QED
      BY <3>2, <3>3 DEF Found
  <2>4. CASE KillRemove(k)
    <3>1. /\ pc[k] = "remove" /\ pc'[k] = "zero" /\ call' = call /\ call[k].id \in Id
          /\ table' = [table EXCEPT ![call[k].id] = None] /\ call[k].timer \in Timer
      BY <2>4 DEF KillRemove, Goto, TypeOK, Calls, CallOf
    <3>2. Absent(call[k].timer)'
      BY <3>1, Records DEF Found, Absent
    <3> QED
      BY <3>1, <3>2, Records DEF Found
  <2>5. CASE SetNoMemory(k) \/ SetStore(k) \/ SetArm(k) \/ KillZero(k) \/ CallDead(k)
    <3>1. /\ UNCHANGED <<table, call>>
          /\ pc'[k] \in {"out", "arm"} \/ pc'[k] = pc[k]
      BY <2>5 DEF SetNoMemory, SetStore, SetArm, KillZero, CallDead, Goto, clientVars, TypeOK
    <3> QED
      BY <3>1 DEF Found, Absent
  <2> QED
    BY <1>1, <2>1, <2>2, <2>3, <2>4, <2>5 DEF ClientStep, InCall
<1>2. CASE Run \/ EndStep \/ \E u \in Timer : TimerStep(u)
  <2>1. CASE Destroy
    BY <2>1 DEF Destroy, clientVars, Found
  <2>2. CASE ~Destroy
    <3>1. UNCHANGED <<table, call, pc>>
      BY <1>2, <2>2 DEF Run, RunNegative, RunZero, RunOut, RunPost, RunLess, RunWait, RunDead,
           EndStep, Stop, DestroyDead, TimerStep, Expire, RunBegin, clientVars
    <3> QED
      BY <3>1 DEF Found, Absent
  <2> QED
    BY <2>1, <2>2
<1> QED
  BY <1>1, <1>2 DEF Next, ClientStep, EndStep, TimerStep

LEMMA ControlClient ==
  ASSUME OneClient, TypeOK, Calls, Tabled, Found, NEW k \in Client, ClientStep(k),
         NEW t \in Timer, Ledger(t), Control(t)
  PROVE  Control(t)'
<1> USE TimerAssumption
<1> \A l \in Client : l = k
  BY DEF OneClient
<1>1. UNCHANGED <<io, service>>
  BY DEF ClientStep, InCall, SetTimer, SetInsert, SetNoMemory, SetStore, SetArm, KillTimer,
         KillRemove, KillZero, CallDead, timerVars
<1>2. past[t] \in Past /\ runs[t] \in Int
  BY Records DEF TypeOK
<1>3. ASSUME NEW i \in Id, KillTimer(k, i) \/ \E n \in Count : SetTimer(k, i, n)
      PROVE  Control(t)'
  <2>1. UNCHANGED <<table, life, runs, past>>
    BY <1>3 DEF KillTimer, SetTimer, timerVars
  <2>2. pc[k] = "out" /\ call'[k].timer = table[i] /\ pc'[k] \in {"insert", "store", "remove"}
    BY <1>3, Records DEF KillTimer, SetTimer, MayCall, Goto, TypeOK
  <2>3. past[t].killed => table[i] # t
    BY DEF Control, Abandoned, Absent
  <2>4. Abandoned(t)' /\ Killed(t)' /\ Lasting(t)'
    BY <1>1, <2>1, <2>2, <2>3 DEF Control, Abandoned, Absent, InCallOf, Killed, Lasting
  <2>5. SetOnce(t)'
    BY <1>1, <2>1, <2>2 DEF Control, SetOnce
  <2> QED
    BY <2>4, <2>5 DEF Control
<1>4. CASE SetInsert(k)
  <2>1. NewTimer \in Timer /\ life[NewTimer] = "unused"
    BY <1>4, NewIsUnused DEF SetInsert
  <2>2. /\ pc[k] = "insert" /\ pc'[k] = "store" /\ call'[k].timer = NewTimer
        /\ table[call[k].id] = None /\ call[k].id \in Id
        /\ table' = [table EXCEPT ![call[k].id] = NewTimer]
        /\ life' = [life EXCEPT ![NewTimer] = "live"]
        /\ UNCHANGED <<runs, past>>
    <3>1. pc[k] = "insert" /\ pc'[k] = "store" /\ call'[k].timer = NewTimer
      BY <1>4, <2>1, Records DEF SetInsert, Goto, TypeOK, Call
    <3>2. table[call[k].id] = None /\ call[k].id \in Id
      BY <3>1 DEF Found, Calls, CallOf
    <3> QED
      BY <1>4, <3>1, <3>2 DEF SetInsert
  <2>3. CASE t = NewTimer
    <3>1. past[t].armed = 0 /\ ~past[t].killed
      BY <2>1, <2>3 DEF Ledger, Unarmed
    <3>2. ~Absent(t)' /\ life'[t] = "live"
      BY <2>1, <2>2, <2>3, Records DEF Absent, TypeOK
    <3> QED
      BY <2>2, <3>1, <3>2 DEF Control, Abandoned, SetOnce, Killed, Lasting
  <2>4. CASE t # NewTimer
    <3>1. life'[t] = life[t] /\ (Absent(t)' <=> Absent(t))
      BY <2>1, <2>2, <2>4, Records DEF Absent, TypeOK
    <3>2. call[k].timer # t
      BY <2>2 DEF Calls, CallOf
    <3> QED
      BY <1>1, <2>2, <2>4, <3>1, <3>2 DEF Control, Abandoned, InCallOf, SetOnce, Killed, Lasting
  <2> QED
    BY <2>3, <2>4
<1>5. CASE SetNoMemory(k) \/ CallDead(k)
  <2>1. /\ UNCHANGED <<table, call, life, runs, past>> /\ (pc' = pc \/ pc[k] = "insert")
        /\ pc'[k] = pc[k] \/ pc'[k] = "out"
    BY <1>5 DEF SetNoMemory, CallDead, Goto, timerVars, clientVars, TypeOK
  <2> QED
    BY <1>1, <2>1 DEF Control, Abandoned, Absent, InCallOf, SetOnce, Killed, Lasting
<1>6. CASE KillRemove(k)
  <2>1. /\ pc[k] = "remove" /\ pc'[k] = "zero" /\ UNCHANGED <<call, life, runs, past>>
        /\ table' = [table EXCEPT ![call[k].id] = None] /\ table[call[k].id] = call[k].timer
        /\ call[k].id \in Id
    BY <1>6 DEF KillRemove, Goto, timerVars, TypeOK, Found, Calls, CallOf
  <2>2. Absent(t) => Absent(t)'
    BY <2>1, Records DEF Absent
  <2>3. call[k].timer # t => (Absent(t)' <=> Absent(t))
    BY <2>1, Records DEF Absent
  <2>4. Abandoned(t)' /\ SetOnce(t)' /\ Killed(t)'
    BY <1>1, <2>1, <2>2 DEF Control, Abandoned, InCallOf, SetOnce, Killed
  <2>5. Lasting(t)'
    BY <1>1, <2>1, <2>2, <2>3 DEF Control, Lasting
  <2> QED
    BY <2>4, <2>5 DEF Control
<1>7. CASE (SetStore(k) \/ SetArm(k) \/ KillZero(k)) /\ call[k].timer # t
  <2>1. /\ UNCHANGED <<table, call, life>> /\ runs'[t] = runs[t] /\ past'[t] = past[t]
        /\ pc'[k] \in {"arm", "out"}
    BY <1>7, Records DEF SetStore, SetArm, KillZero, Goto, TypeOK
  <2> QED
    BY <1>1, <1>7, <2>1 DEF Control, Abandoned, Absent, InCallOf, SetOnce, Killed, Lasting
<1>8. CASE SetStore(k) /\ call[k].timer = t
  <2>1. /\ UNCHANGED <<table, call, life>> /\ runs'[t] = call[k].count /\ life[t] = "live"
        /\ pc[k] = "store" /\ pc'[k] = "arm"
    BY <1>8 DEF SetStore, Goto, TypeOK
  <2>2. /\ past'[t].count = call[k].count
        /\ UNCHANGED <<past[t].armed, past[t].killed, past[t].late>>
    BY <1>2, <1>8, Records DEF SetStore, Past
  <2>3. ~past[t].killed
    BY <1>8, <2>1 DEF Control, Abandoned, InCallOf
  <2> QED
    BY <1>1, <1>8, <2>1, <2>2, <2>3 DEF Control, Abandoned, Absent, SetOnce, Killed, Lasting
<1>9. CASE SetArm(k) /\ call[k].timer = t
  <2>1. /\ UNCHANGED <<table, call, life, runs>> /\ life[t] = "live"
        /\ pc[k] = "arm" /\ pc'[k] = "out"
    BY <1>9 DEF SetArm, Goto, TypeOK
  <2>2. /\ past'[t].armed = past[t].armed + 1 /\ past[t].armed \in Nat
        /\ UNCHANGED <<past[t].count, past[t].killed, past[t].late>>
    BY <1>2, <1>9, Records DEF SetArm, Past
  <2>3. ~past[t].killed
    BY <1>9, <2>1 DEF Control, Abandoned, InCallOf
  <2>4. past'[t].armed = 1 => runs[t] = past[t].count /\ io.timer # t
    BY <2>2, <2>3 DEF Ledger, Unarmed
  <2>5. SetOnce(t)'
    BY <1>1, <2>1, <2>2, <2>3, <2>4 DEF SetOnce
  <2>6. Abandoned(t)' /\ Killed(t)' /\ Lasting(t)'
    BY <1>1, <2>1, <2>2, <2>3 DEF Control, Abandoned, Absent, Killed, Lasting
  <2> QED
    BY <2>5, <2>6 DEF Control
<1>10. CASE KillZero(k) /\ call[k].timer = t
  <2>1. /\ UNCHANGED <<table, call, life>> /\ runs'[t] = 0 /\ life[t] = "live"
        /\ pc[k] = "zero" /\ pc'[k] = "out"
    BY <1>10 DEF KillZero, Goto, TypeOK
  <2>2. /\ past'[t].killed
        /\ UNCHANGED <<past[t].count, past[t].armed, past[t].late>>
    BY <1>2, <1>10, Records DEF KillZero, Past
  <2>3. ~past[t].killed /\ Absent(t)
    BY <1>10, <2>1 DEF Control, Abandoned, InCallOf, Found
  <2>4. Abandoned(t)' /\ Killed(t)' /\ Lasting(t)'
    BY <1>1, <2>1, <2>2, <2>3 DEF Control, Abandoned, Absent, InCallOf, Killed, Lasting
  <2>5. SetOnce(t)'
    BY <1>1, <2>1, <2>2 DEF Control, SetOnce
  <2> QED
    BY <2>4, <2>5 DEF Control
<1> QED
  BY <1>3, <1>4, <1>5, <1>6, <1>7, <1>8, <1>9, <1>10 DEF ClientStep, InCall

LEMMA ControlRun ==
  ASSUME TypeOK, Run, NEW t \in Timer, Ledger(t), Control(t)
  PROVE  Control(t)'
<1>1. UNCHANGED <<table, pc, call, service>>
  BY DEF Run, RunNegative, RunZero, RunOut, RunPost, RunLess, RunWait, RunDead, timerVars,
         clientVars
<1>2. past[t] \in Past /\ runs[t] \in Int
  BY Records DEF TypeOK
<1>3. past[t].killed => \A k \in Client : pc[k] \in {"store", "arm"} => call[k].timer # t
  BY DEF Control, Abandoned, InCallOf
<1>4. CASE io.timer # t
  <2>1. io'.timer # t
    BY <1>4, Records DEF Run, RunNegative, RunZero, RunOut, RunPost, RunLess, RunWait, RunDead,
         Idle, TypeOK, Place
  <2>2. UNCHANGED <<runs[t], past[t], life[t]>>
    <3>1. CASE RunPost
      <4>1. io.timer \in Timer
        BY <3>1, Records DEF RunPost, RunAt, Idle
      <4> QED
        BY <1>4, <3>1, <4>1, PostedWrites DEF RunPost, timerVars
    <3>2. CASE ~RunPost
      BY <1>4, <3>2 DEF Run, RunNegative, RunZero, RunOut, RunLess, RunWait, RunDead, timerVars,
           TypeOK
    <3> QED
      BY <3>1, <3>2
  <2> QED
    BY <1>1, <1>4, <2>1, <2>2 DEF Control, Abandoned, Absent, InCallOf, SetOnce, Killed, Lasting
<1>5. CASE io.timer = t
  <2>1. CASE RunNegative
    <3>1. /\ UNCHANGED <<life, runs, past>> /\ io'.timer = t
          /\ io'.at = IF runs[t] < 0 THEN "endless" ELSE "zero"
      BY <1>5, <2>1, Records DEF RunNegative, RunAt, timerVars, TypeOK, Place, Idle
    <3>2. runs[t] >= 0 /\ past[t].count < 0 => past[t].killed
      BY <1>2 DEF Control, Abandoned
    <3>3. SetOnce(t)'
      BY <1>1, <1>2, <3>1, <3>2 DEF Control, SetOnce
    <3>4. Abandoned(t)' /\ Killed(t)' /\ Lasting(t)'
      BY <1>1, <3>1 DEF Control, Abandoned, Absent, InCallOf, Killed, Lasting
    <3> QED
      BY <3>3, <3>4 DEF Control
  <2>2. CASE RunZero
    <3>1. /\ UNCHANGED <<life, runs, past>> /\ io'.timer = t /\ io.at = "zero"
          /\ io'.at = "counted" /\ runs[t] # 0
      BY <1>5, <2>2, Records DEF RunZero, RunAt, timerVars, TypeOK, Place, Idle
    <3>2. past[t].count \in Int
      BY <1>2 DEF Past
    <3>3. SetOnce(t)'
      BY <1>1, <1>5, <3>1, <3>2 DEF Control, SetOnce
    <3>4. Abandoned(t)' /\ Killed(t)' /\ Lasting(t)'
      BY <1>1, <3>1 DEF Control, Abandoned, Absent, InCallOf, Killed, Lasting
    <3> QED
      BY <3>3, <3>4 DEF Control
  <2>3. CASE RunOut
    <3>1. /\ UNCHANGED <<runs, past>> /\ io'.timer # t /\ runs[t] = 0 /\ life'[t] = "dead"
      BY <1>5, <2>3, Records DEF RunOut, RunAt, TypeOK, Place, Idle
    <3>2. past[t].count \in Int
      BY <1>2 DEF Past
    <3> QED
      BY <1>1, <3>1, <3>2 DEF Control, Abandoned, Absent, InCallOf, SetOnce, Killed, Lasting
  <2>4. CASE RunPost
    <3>1. /\ UNCHANGED <<past[t].armed, past[t].count, past[t].killed>>
          /\ past'[t].late =
               past[t].late + (IF past[t].killed /\ past[t].late < 2 THEN 1 ELSE 0)
          /\ io.at \in {"endless", "counted"} /\ UNCHANGED <<life, runs>>
      BY <1>5, <2>4, PostedWrites DEF RunPost, RunAt, timerVars
    <3>2. io'.timer = t /\ io'.at = IF io.at = "endless" THEN "wait" ELSE "less"
      BY <1>5, <2>4 DEF RunPost, RunAt, TypeOK, Place, Idle
    <3>3. past[t].late \in Int
      BY <1>2 DEF Past
    <3>4. Abandoned(t)' /\ Lasting(t)'
      BY <1>1, <3>1, <3>3 DEF Control, Abandoned, Absent, InCallOf, Lasting
    <3>5. SetOnce(t)'
      BY <1>1, <1>5, <3>1, <3>2 DEF Control, SetOnce
    <3>6. Killed(t)'
      BY <1>5, <3>1, <3>2, <3>3 DEF Control, Killed
    <3> QED
      BY <3>4, <3>5, <3>6 DEF Control
  <2>5. CASE RunLess
    <3>1. /\ io.at = "less" /\ io'.at = "wait" /\ io'.timer = t
          /\ runs'[t] = runs[t] - 1 /\ UNCHANGED <<life, past>> /\ life[t] = "live"
      BY <1>5, <2>5 DEF RunLess, RunAt, TypeOK, Place, Idle
    <3>2. Abandoned(t)' /\ Lasting(t)'
      BY <1>1, <1>2, <3>1 DEF Control, Abandoned, Absent, InCallOf, Lasting
    <3>3. (/\ past[t].armed = 1
           /\ \A k \in Client : pc[k] \in {"store", "arm"} => call[k].timer # t)
            => past[t].count > 0
      BY <1>5, <3>1 DEF Control, SetOnce
    <3>4. past[t].count \in Int
      BY <1>2 DEF Past
    <3>5. SetOnce(t)'
      BY <1>1, <3>1, <3>3, <3>4 DEF SetOnce
    <3>6. Killed(t)'
      BY <1>2, <1>3, <3>1, <3>3 DEF Control, Killed
    <3> QED
      BY <3>2, <3>5, <3>6 DEF Control
  <2>6. CASE RunWait \/ RunDead
    <3>1. UNCHANGED <<life, runs, past>> /\ (io' = io \/ io'.timer # t)
      BY <1>5, <2>6, Records DEF RunWait, RunDead, timerVars, Idle
    <3> QED
      BY <1>1, <3>1 DEF Control, Abandoned, Absent, InCallOf, SetOnce, Killed, Lasting
  <2> QED
    BY <2>1, <2>2, <2>3, <2>4, <2>5, <2>6 DEF Run
<1> QED
  BY <1>4, <1>5

LEMMA ControlRest ==
  ASSUME TypeOK, EndStep \/ \E u \in Timer : TimerStep(u), NEW t \in Timer, Control(t)
  PROVE  Control(t)'
<1>1. UNCHANGED <<pc, call, past, runs>>
  BY DEF EndStep, Stop, Destroy, DestroyDead, TimerStep, Expire, RunBegin, timerVars, clientVars
<1>2. CASE Destroy
  <2>1. service' = "gone" /\ io' = io /\ Absent(t)'
    BY <1>2, Records DEF Destroy, Absent
  <2> QED
    BY <1>1, <2>1 DEF Control, Abandoned, InCallOf, SetOnce, Killed, Lasting
<1>3. CASE ~Destroy
  <2>1. /\ UNCHANGED <<table, life>> /\ (service = "gone" => service' = "gone")
        /\ io' = io \/ io'.timer # t \/ io'.at = "negative"
    BY <1>3 DEF EndStep, Stop, DestroyDead, TimerStep, Expire, RunBegin, timerVars
  <2> QED
    BY <1>1, <2>1 DEF Control, Abandoned, Absent, InCallOf, SetOnce, Killed, Lasting
<1> QED
  BY <1>2, <1>3

-----------------------------------------------------------------------------
(***************************************************************************)
(* The invariants.                                                         *)
(***************************************************************************)
LEMMA ChainStep ==
  ASSUME ChainInv, Next
  PROVE  ChainInv'
<1>1. TypeOK /\ Calls /\ Tabled /\ Tested /\ \A t \in Timer : Ledger(t)
  BY DEF ChainInv, Ledger
<1>2. \/ \E k \in Client : ClientStep(k)
      \/ Run
      \/ EndStep \/ \E t \in Timer : TimerStep(t)
  BY DEF Next, ClientStep, EndStep, TimerStep
<1>3. TypeOK'
  BY <1>1, <1>2, TypeClient, TypeRun
<1>4. Calls' /\ Tabled' /\ Tested'
  BY <1>1, CallsStep, TabledStep, TestedStep
<1>5. \A t \in Timer : Ledger(t)'
  BY <1>1, <1>2, LedgerClient, LedgerRun, LedgerRest
<1> QED
  BY <1>3, <1>4, <1>5 DEF ChainInv, Ledger

LEMMA KillStep ==
  ASSUME OneClient, ChainInv, KillInv, Next
  PROVE  KillInv'
<1>1. /\ TypeOK /\ Calls /\ Tabled /\ Found
      /\ \A t \in Timer : Ledger(t) /\ Control(t)
  BY DEF ChainInv, KillInv, Ledger, Control
<1>2. \/ \E k \in Client : ClientStep(k)
      \/ Run
      \/ EndStep \/ \E t \in Timer : TimerStep(t)
  BY DEF Next, ClientStep, EndStep, TimerStep
<1>3. Found'
  BY <1>1, FoundStep
<1>4. \A t \in Timer : Control(t)'
  BY <1>1, <1>2, ControlClient, ControlRun, ControlRest
<1> QED
  BY <1>3, <1>4 DEF KillInv, Control

LEMMA Stutters ==
  ASSUME UNCHANGED vars
  PROVE  (ChainInv => ChainInv') /\ (KillInv => KillInv')
<1> USE DEF vars, timerVars, clientVars
<1>1. ChainInv => ChainInv'
  BY DEF ChainInv, TypeOK, Calls, CallOf, Tabled, Tested, Unarmed, Chain, Account, InCallOf, Ahead
<1>2. KillInv => KillInv'
  BY DEF KillInv, Found, Absent, Abandoned, InCallOf, SetOnce, Killed, Lasting
<1> QED
  BY <1>1, <1>2

LEMMA Begins == Init => ChainInv /\ KillInv
<1> SUFFICES ASSUME Init PROVE ChainInv /\ KillInv
  OBVIOUS
<1> USE TimerAssumption DEF Init
<1>1. TypeOK
  <2>1. past \in [Timer -> Past] /\ call \in [Client -> Call] /\ io \in Place
    BY DEF Past, NoPast, Call, Place
  <2> QED
    BY <2>1 DEF TypeOK
<1>2. Calls /\ Tabled /\ Tested /\ Found
  BY DEF Calls, CallOf, Tabled, Tested, Found, Absent, Idle
<1>3. ASSUME NEW t \in Timer
      PROVE  /\ Unarmed(t) /\ Chain(t) /\ Account(t)
             /\ Abandoned(t) /\ SetOnce(t) /\ Killed(t) /\ Lasting(t)
  <2>1. past[t] = NoPast /\ life[t] = "unused" /\ io.timer # t
    BY DEF Idle
  <2>2. /\ past[t].armed = 0 /\ past[t].count = 0 /\ past[t].posted = 0
        /\ ~past[t].killed /\ past[t].late = 0
    BY <2>1 DEF NoPast
  <2> QED
    BY <2>1, <2>2 DEF Unarmed, Chain, Account, Abandoned, SetOnce, Killed, Lasting
<1> QED
  BY <1>1, <1>2, <1>3 DEF ChainInv, KillInv

(* For any number of threads that call the timer: what a call and a        *)
(* handler have of their timer, one chain of waits and handlers, and the   *)
(* account of the callbacks against the count.                             *)
THEOREM ChainInvariant == Spec => []ChainInv
<1>1. ChainInv /\ [Next]_vars => ChainInv'
  BY ChainStep, Stutters
<1>2. Init => ChainInv
  BY Begins
<1> QED
  BY <1>1, <1>2, PTL DEF Spec

(* Every variable keeps its type: a count is never below minus two, as it  *)
(* is decremented below zero at most once.                                 *)
THEOREM TypeCorrect == Spec => []TypeOK
<1>1. ChainInv => TypeOK
  BY DEF ChainInv
<1> QED
  BY ChainInvariant, <1>1, PTL

(* A timer that was set once has one wait or handler while it lives and    *)
(* none afterwards, whichever threads kill it meanwhile: its handler finds *)
(* it in memory, as line 72 says, until ~CTimer.                           *)
THEOREM OneChainOfWaits == Spec => []OneChain
<1>1. ChainInv => OneChain
  BY DEF ChainInv, Chain, OneChain, Handlers
<1> QED
  BY ChainInvariant, <1>1, PTL

(* A timer that was set once with a count, and not killed, has posted at   *)
(* each point of its handler what the count says.                          *)
THEOREM CountIsExact == Spec => []RunsExact
<1>1. ChainInv => RunsExact
  <2> SUFFICES ASSUME ChainInv, NEW t \in Timer,
                      past[t].armed = 1 /\ past[t].count >= 0 /\ ~past[t].killed,
                      ~\E k \in Client : call[k].timer = t /\ pc[k] # "out"
               PROVE  past[t].posted + runs[t] - Ahead(t) = past[t].count
    BY DEF RunsExact, Ahead
  <2>1. past[t].count \in Int
    BY Records DEF ChainInv, Past
  <2> QED
    BY <2>1 DEF ChainInv, Account, InCallOf
<1> QED
  BY ChainInvariant, <1>1, PTL

(* When one thread makes the calls: what its call found in the table is    *)
(* there until it changes it, and a killed timer is nobody's.              *)
THEOREM KillInvariant ==
  ASSUME OneClient
  PROVE  Spec => [](ChainInv /\ KillInv)
<1>1. ChainInv /\ KillInv /\ [Next]_vars => (ChainInv /\ KillInv)'
  BY ChainStep, KillStep, Stutters
<1> QED
  BY Begins, <1>1, PTL DEF Spec

(* With one client: after KillTimer a timer that was set once posts one    *)
(* callback more at the most, but for the handler that was between its     *)
(* test and its decrement of line 92.                                      *)
THEOREM KillTakesEffect ==
  ASSUME OneClient
  PROVE  Spec => []KillStops
<1>1. ChainInv /\ KillInv => KillStops
  <2> SUFFICES ASSUME KillInv, NEW t \in Timer, past[t].killed, past[t].armed = 1
               PROVE  past[t].late < 2 \/ (past[t].count > 0 /\ runs[t] < 0)
    BY DEF KillStops
  <2> QED
    BY DEF KillInv, Killed
<1> QED
  BY KillInvariant, <1>1, PTL

(* With one client: a timer that lives is in the table or is killed, one   *)
(* that was killed is not found again, and what the table keeps of a timer *)
(* that was deleted had a count, which is used up.                         *)
THEOREM TimersAreReachable ==
  ASSUME OneClient
  PROVE  Spec => []Reachable
<1>1. ChainInv /\ KillInv => Reachable
  <2> SUFFICES ASSUME KillInv, service # "gone", NEW t \in Timer
               PROVE  /\ life[t] = "live" =>
                           \/ t \in InTable \/ past[t].killed
                           \/ \E k \in Client : call[k].timer = t /\ pc[k] = "zero"
                      /\ t \in InTable => ~past[t].killed
                      /\ t \in InTable /\ life[t] = "dead" =>
                           past[t].count >= 0 /\ runs[t] = 0
    BY DEF Reachable
  <2>1. ~Absent(t) <=> t \in InTable
    BY TimerAssumption DEF Absent, InTable
  <2> QED
    BY <2>1 DEF KillInv, Abandoned, Lasting
<1> QED
  BY KillInvariant, <1>1, PTL
=============================================================================
