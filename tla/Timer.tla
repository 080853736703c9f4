-------------------------------- MODULE Timer --------------------------------
(***************************************************************************)
(* CTimer (src/timer.cpp): timers by identifier.  Clients call SetTimer    *)
(* and KillTimer; one io thread runs the handler of a timer each time its  *)
(* deadline passes, posts the callback to the processor, and waits again.  *)
(* Only the table is under a lock, so a call and a handler interleave at   *)
(* every access to a timer.                                                *)
(*                                                                         *)
(* A timer is the memory of one STimerObj from its construction to its     *)
(* destruction, so no timer is used twice.  An access to a timer that was  *)
(* destroyed is recorded in fault, and nothing is said of what follows.    *)
(* Aborted handlers return at once (line 75) and are left out.             *)
(***************************************************************************)
EXTENDS Integers, FiniteSets

CONSTANTS
  Client,    \* threads that call the timer
  Id,        \* nIDEvent
  Timer,     \* the STimerObjs
  Count,     \* the nRunTimes that clients ask for
  MaxCalls,  \* bound on the calls made
  None       \* no timer

ASSUME TimerAssumption ==
  /\ IsFiniteSet(Timer)
  /\ \A n \in Count : n \in Int /\ n >= -1
  /\ MaxCalls \in Nat
  /\ None \notin Timer

VARIABLES
  table,    \* m_ts
  life,     \* life[t]: "unused", "live" or "dead"
  runs,     \* nRunTimes of each timer
  waits,    \* pending async_waits of each timer
  due,      \* its handlers that are queued, without error
  io,       \* the handler on the io thread: where it is and its timer
  service,  \* "runs", "stopped" (ios.stop), "gone" (~CTimer has run)
  pc,       \* where each client is
  call,     \* its call: identifier, count and timer
  calls,    \* number of calls
  fault,    \* "none", or the code that used a destroyed timer
  past      \* what the properties remember of each timer

timerVars == <<life, runs, waits, due>>
clientVars == <<pc, call, calls>>
vars == <<table, timerVars, io, service, clientVars, fault, past>>

Idle == [at |-> "idle", timer |-> None]

(* armed: how often SetTimer started a wait; count: what it asked for;     *)
(* posted: callbacks posted against the count; late: callbacks posted      *)
(* after KillTimer, counted up to 2.                                       *)
NoPast == [armed |-> 0, count |-> 0, posted |-> 0, killed |-> FALSE, late |-> 0]

Init ==
  /\ table = [i \in Id |-> None]
  /\ life = [t \in Timer |-> "unused"]
  /\ runs = [t \in Timer |-> 0]
  /\ waits = [t \in Timer |-> 0]
  /\ due = [t \in Timer |-> 0]
  /\ io = Idle
  /\ service = "runs"
  /\ pc = [k \in Client |-> "out"]
  /\ call = [k \in Client |-> [id |-> None, count |-> 0, timer |-> None]]
  /\ calls = 0
  /\ fault = "none"
  /\ past = [t \in Timer |-> NoPast]

Goto(k, place) == pc' = [pc EXCEPT ![k] = place]

MayCall(k) == pc[k] = "out" /\ calls < MaxCalls /\ service # "gone"

-----------------------------------------------------------------------------
(***************************************************************************)
(* SetTimer: findTimer, then for a new timer insertTimer, which keeps what *)
(* the table has; the count; async_wait.                                   *)
(***************************************************************************)
SetTimer(k, i, n) ==
  /\ MayCall(k)
  /\ calls' = calls + 1
  /\ call' = [call EXCEPT ![k] = [id |-> i, count |-> n, timer |-> table[i]]]
  /\ Goto(k, IF table[i] = None THEN "insert" ELSE "store")
  /\ UNCHANGED <<table, timerVars, io, service, fault, past>>

(* Which memory the new timer gets does not matter. *)
NewTimer == CHOOSE t \in Timer : life[t] = "unused"

SetInsert(k) ==
  LET t == NewTimer IN
  /\ pc[k] = "insert"
  /\ \E u \in Timer : life[u] = "unused"
  /\ life' = [life EXCEPT ![t] = "live"]
  /\ table' = [table EXCEPT ![call[k].id] = IF @ = None THEN t ELSE @]
  /\ call' = [call EXCEPT ![k].timer = t]
  /\ Goto(k, "store")
  /\ UNCHANGED <<runs, waits, due, io, service, calls, fault, past>>

(* The allocator returned NULL. *)
SetNoMemory(k) ==
  /\ pc[k] = "insert"
  /\ Goto(k, "out")
  /\ UNCHANGED <<table, timerVars, io, service, call, calls, fault, past>>

(* Mistake: the count is taken one too high. *)
SetStore_OneMore(k) ==
  LET t == call[k].timer IN
  /\ pc[k] = "store"
  /\ life[t] = "live"
  /\ runs' = [runs EXCEPT ![t] = call[k].count + 1]
  /\ past' = [past EXCEPT ![t].count = call[k].count]
  /\ Goto(k, "arm")
  /\ UNCHANGED <<table, life, waits, due, io, service, call, calls, fault>>

SetStore(k) ==
  LET t == call[k].timer IN
  /\ pc[k] = "store"
  /\ life[t] = "live"
  /\ runs' = [runs EXCEPT ![t] = call[k].count]
  /\ past' = [past EXCEPT ![t].count = call[k].count]
  /\ Goto(k, "arm")
  /\ UNCHANGED <<table, life, waits, due, io, service, call, calls, fault>>

SetArm(k) ==
  LET t == call[k].timer IN
  /\ pc[k] = "arm"
  /\ life[t] = "live"
  /\ waits' = [waits EXCEPT ![t] = @ + 1]
  /\ past' = [past EXCEPT ![t].armed = @ + 1]
  /\ Goto(k, "out")
  /\ UNCHANGED <<table, life, runs, due, io, service, call, calls, fault>>

-----------------------------------------------------------------------------
(***************************************************************************)
(* KillTimer: find, remove from the table, set the count to zero and leave *)
(* the rest to the handler.                                                *)
(***************************************************************************)
KillTimer(k, i) ==
  /\ MayCall(k)
  /\ table[i] # None
  /\ calls' = calls + 1
  /\ call' = [call EXCEPT ![k] = [id |-> i, count |-> 0, timer |-> table[i]]]
  /\ Goto(k, "remove")
  /\ UNCHANGED <<table, timerVars, io, service, fault, past>>

(* Mistake: the timer stays in the table. *)
KillRemove_Not(k) ==
  /\ pc[k] = "remove"
  /\ Goto(k, "zero")
  /\ UNCHANGED <<table, timerVars, io, service, call, calls, fault, past>>

KillRemove(k) ==
  /\ pc[k] = "remove"
  /\ table' = [table EXCEPT ![call[k].id] = None]
  /\ Goto(k, "zero")
  /\ UNCHANGED <<timerVars, io, service, call, calls, fault, past>>

(* Mistake: the timer is removed from the table and its count left alone. *)
KillZero_Removed(k) ==
  LET t == call[k].timer IN
  /\ pc[k] = "zero"
  /\ life[t] = "live"
  /\ past' = [past EXCEPT ![t].killed = TRUE]
  /\ Goto(k, "out")
  /\ UNCHANGED <<table, timerVars, io, service, call, calls, fault>>

KillZero(k) ==
  LET t == call[k].timer IN
  /\ pc[k] = "zero"
  /\ life[t] = "live"
  /\ runs' = [runs EXCEPT ![t] = 0]
  /\ past' = [past EXCEPT ![t].killed = TRUE]
  /\ Goto(k, "out")
  /\ UNCHANGED <<table, life, waits, due, io, service, call, calls, fault>>

-----------------------------------------------------------------------------
(***************************************************************************)
(* The io thread: a deadline completes every wait of its timer; run then   *)
(* reads nRunTimes up to twice.                                            *)
(***************************************************************************)
Expire(t) ==
  /\ waits[t] > 0
  /\ due' = [due EXCEPT ![t] = @ + waits[t]]
  /\ waits' = [waits EXCEPT ![t] = 0]
  /\ UNCHANGED <<table, life, runs, io, service, clientVars, fault, past>>

RunBegin(t) ==
  /\ io = Idle
  /\ service = "runs"
  /\ due[t] > 0
  /\ due' = [due EXCEPT ![t] = @ - 1]
  /\ io' = [at |-> "negative", timer |-> t]
  /\ UNCHANGED <<table, life, runs, waits, service, clientVars, fault, past>>

(* io holds the handler of a timer that is in memory. *)
RunAt(place) == io.at = place /\ life[io.timer] = "live"

(* Mistake: there is no branch for timers without a count. *)
RunNegative_Missing ==
  /\ RunAt("negative")
  /\ io' = [io EXCEPT !.at = "zero"]
  /\ UNCHANGED <<table, timerVars, service, clientVars, fault, past>>

RunNegative ==
  /\ RunAt("negative")
  /\ io' = [io EXCEPT !.at = IF runs[io.timer] < 0 THEN "endless" ELSE "zero"]
  /\ UNCHANGED <<table, timerVars, service, clientVars, fault, past>>

RunZero ==
  /\ RunAt("zero")
  /\ runs[io.timer] # 0
  /\ io' = [io EXCEPT !.at = "counted"]
  /\ UNCHANGED <<table, timerVars, service, clientVars, fault, past>>

(* Mistake: the timer that ran out is not deleted; it waits once more. *)
RunOut_Kept ==
  /\ RunAt("zero")
  /\ runs[io.timer] = 0
  /\ io' = [io EXCEPT !.at = "wait"]
  /\ UNCHANGED <<table, timerVars, service, clientVars, fault, past>>

(* Mistake: the return after doKillTimer is missing. *)
RunOut_FallsThrough ==
  /\ RunAt("zero")
  /\ runs[io.timer] = 0
  /\ life' = [life EXCEPT ![io.timer] = "dead"]
  /\ waits' = [waits EXCEPT ![io.timer] = 0]
  /\ io' = [io EXCEPT !.at = "wait"]
  /\ UNCHANGED <<table, runs, due, service, clientVars, fault, past>>

(* doKillTimer: the destructor of the deadline_timer aborts its waits.     *)
(* The table is not told.                                                  *)
RunOut ==
  /\ RunAt("zero")
  /\ runs[io.timer] = 0
  /\ life' = [life EXCEPT ![io.timer] = "dead"]
  /\ waits' = [waits EXCEPT ![io.timer] = 0]
  /\ io' = Idle
  /\ UNCHANGED <<table, runs, due, service, clientVars, fault, past>>

(* PostTask of the callback, for a timer without and with a count. *)
Posted(t) ==
  past' = [past EXCEPT ![t].late = IF past[t].killed /\ @ < 2 THEN @ + 1 ELSE @,
                       ![t].posted = IF io.at = "counted" THEN @ + 1 ELSE @]

RunPost ==
  /\ RunAt("endless") \/ RunAt("counted")
  /\ Posted(io.timer)
  /\ io' = [io EXCEPT !.at = IF @ = "endless" THEN "wait" ELSE "less"]
  /\ UNCHANGED <<table, timerVars, service, clientVars, fault>>

RunLess ==
  /\ RunAt("less")
  /\ runs' = [runs EXCEPT ![io.timer] = @ - 1]
  /\ io' = [io EXCEPT !.at = "wait"]
  /\ UNCHANGED <<table, life, waits, due, service, clientVars, fault, past>>

(* expires_from_now aborts the pending waits; then async_wait. *)
RunWait ==
  /\ RunAt("wait")
  /\ waits' = [waits EXCEPT ![io.timer] = 1]
  /\ io' = Idle
  /\ UNCHANGED <<table, life, runs, due, service, clientVars, fault, past>>

-----------------------------------------------------------------------------
(***************************************************************************)
(* The end: ios.stop does not wait for the handler that runs.  The         *)
(* destructor deletes what the table has, while no client is in a call.    *)
(***************************************************************************)
Stop ==
  /\ service = "runs"
  /\ service' = "stopped"
  /\ UNCHANGED <<table, timerVars, io, clientVars, fault, past>>

InTable == {table[i] : i \in Id} \ {None}

Destroy ==
  /\ service = "stopped"
  /\ \A k \in Client : pc[k] = "out"
  /\ \A t \in InTable : life[t] = "live"
  /\ life' = [t \in Timer |-> IF t \in InTable THEN "dead" ELSE life[t]]
  /\ table' = [i \in Id |-> None]
  /\ service' = "gone"
  /\ UNCHANGED <<runs, waits, due, io, clientVars, fault, past>>

(* The accesses to a destroyed timer, by a call, a handler and ~CTimer. *)
CallDead(k) ==
  /\ pc[k] \in {"store", "arm", "zero"}
  /\ life[call[k].timer] = "dead"
  /\ fault' = "call"
  /\ UNCHANGED <<table, timerVars, io, service, clientVars, past>>

RunDead ==
  /\ io # Idle
  /\ life[io.timer] = "dead"
  /\ fault' = "run"
  /\ UNCHANGED <<table, timerVars, io, service, clientVars, past>>

DestroyDead ==
  /\ service = "stopped"
  /\ \A k \in Client : pc[k] = "out"
  /\ \E t \in InTable : life[t] = "dead"
  /\ fault' = "~CTimer"
  /\ UNCHANGED <<table, timerVars, io, service, clientVars, past>>

-----------------------------------------------------------------------------
InCall(k) ==
  \/ SetInsert(k) \/ SetNoMemory(k) \/ SetStore(k) \/ SetArm(k)
  \/ KillRemove(k) \/ KillZero(k) \/ CallDead(k)

Run ==
  RunNegative \/ RunZero \/ RunOut \/ RunPost \/ RunLess \/ RunWait \/ RunDead

Next ==
  /\ fault = "none"
  /\ \/ \E k \in Client : \/ InCall(k)
                          \/ \E i \in Id : \/ KillTimer(k, i)
                                           \/ \E n \in Count : SetTimer(k, i, n)
     \/ \E t \in Timer : Expire(t) \/ RunBegin(t)
     \/ Run \/ Stop \/ Destroy \/ DestroyDead

Spec == Init /\ [][Next]_vars

(* A deadline passes, the io thread goes on, and serves the handlers of    *)
(* its queue in their order, so none is passed over for ever.              *)
Fairness ==
  /\ \A k \in Client : WF_vars(fault = "none" /\ InCall(k))
  /\ \A t \in Timer : /\ WF_vars(fault = "none" /\ Expire(t))
                      /\ SF_vars(fault = "none" /\ RunBegin(t))
  /\ WF_vars(fault = "none" /\ Run)

FairSpec == Spec /\ Fairness

-----------------------------------------------------------------------------
(***************************************************************************)
(* What must hold.                                                         *)
(***************************************************************************)

Place ==
  {Idle} \cup
    [at : {"negative", "zero", "endless", "counted", "less", "wait"}, timer : Timer]

Call == [id : Id \cup {None}, count : Int, timer : Timer \cup {None}]

Past == [armed : Nat, count : Int, posted : Nat, killed : BOOLEAN, late : 0..2]

(* The type invariant.  A count is decremented below zero at most once,     *)
(* after SetTimer or KillTimer changed it under the handler's test.        *)
TypeOK ==
  /\ table \in [Id -> Timer \cup {None}]
  /\ life \in [Timer -> {"unused", "live", "dead"}]
  /\ runs \in [Timer -> {n \in Int : n >= -2}]
  /\ waits \in [Timer -> Nat]
  /\ due \in [Timer -> Nat]
  /\ io \in Place
  /\ service \in {"runs", "stopped", "gone"}
  /\ pc \in [Client -> {"out", "insert", "store", "arm", "remove", "zero"}]
  /\ call \in [Client -> Call]
  /\ calls \in 0..MaxCalls
  /\ fault \in {"none", "call", "run", "~CTimer"}
  /\ past \in [Timer -> Past]

Handlers(t) == waits[t] + due[t] + (IF io.timer = t THEN 1 ELSE 0)

(* A timer that was set once has one wait or handler as long as it lives   *)
(* and none afterwards, whatever KillTimer does meanwhile: a handler finds *)
(* its timer, as line 72 says.  ~CTimer alone deletes it under a handler.  *)
OneChain ==
  \A t \in Timer :
    past[t].armed = 1 =>
      \/ Handlers(t) = IF life[t] = "live" THEN 1 ELSE 0
      \/ service = "gone"

(* A timer that was set once, with a count, and not killed posts its       *)
(* callback exactly that often before it is deleted: what was posted and   *)
(* what is left to post are the count at each point of the handler.        *)
RunsExact ==
  \A t \in Timer :
    past[t].armed = 1 /\ past[t].count >= 0 /\ ~past[t].killed =>
      \/ \E k \in Client : call[k].timer = t /\ pc[k] # "out"
      \/ LET ahead == IF io.timer = t /\ io.at = "less" THEN 1 ELSE 0
         IN  past[t].posted + runs[t] - ahead = past[t].count
      \/ service = "gone"

(* With one client: after KillTimer has returned, a timer that was set     *)
(* once posts at most one callback more.  The exception is the handler     *)
(* that was between its test and its decrement of line 92: the count is    *)
(* below zero from then on, and the timer never ends.                      *)
KillStops ==
  \A t \in Timer :
    past[t].killed /\ past[t].armed = 1 =>
      past[t].late < 2 \/ (past[t].count > 0 /\ runs[t] < 0)

(* With one client: a timer that lives is in the table, where KillTimer    *)
(* finds it, unless it was killed or is being killed; one that was killed  *)
(* is never found again; and a deleted timer that the table still names,   *)
(* as doKillTimer leaves it, was set with a count and has used it up.      *)
Reachable ==
  service # "gone" =>
    \A t \in Timer :
      /\ life[t] = "live" =>
           \/ t \in InTable \/ past[t].killed
           \/ \E k \in Client : call[k].timer = t /\ pc[k] = "zero"
      /\ t \in InTable => ~past[t].killed
      /\ t \in InTable /\ life[t] = "dead" => past[t].count >= 0 /\ runs[t] = 0

(* A timer that was killed, or that has a count, is deleted in the end,    *)
(* unless its count went below zero in the race of line 92, or it was set  *)
(* again, or the service stops.                                            *)
TimerEnds ==
  \A t \in Timer :
    life[t] = "live" /\ past[t].armed = 1 /\ (past[t].killed \/ past[t].count >= 0)
      ~> \/ life[t] = "dead" \/ runs[t] < 0 \/ past[t].armed > 1
         \/ service # "runs" \/ fault # "none"

(* What the comment of line 72 says: while the callback of a timer runs,   *)
(* the timer exists.                                                       *)
TimerExists == fault # "run" \/ service = "gone"
=============================================================================
