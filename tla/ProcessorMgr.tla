---------------------------- MODULE ProcessorMgr ----------------------------
(***************************************************************************)
(* CProcessorMgr (src/processor_mgr.cpp): processors that are shared by    *)
(* name.  Each has a thread of its own, which starts with the first        *)
(* AllocProcessor of the name and is joined by the last FreeProcessor; the *)
(* mutex of the manager is held until the thread has started, or ended.    *)
(*                                                                         *)
(* A client is a part of the program that allocates a processor, uses it   *)
(* and frees it, again and again.  Most run on threads of their own; those *)
(* in Inside run as a task of some processor, which does nothing else      *)
(* meanwhile.                                                              *)
(*                                                                         *)
(* Of a processor only what the manager needs of module Processor is left: *)
(* after Stop the thread ends when it is not in a task.                    *)
(***************************************************************************)
EXTENDS Integers, FiniteSets

CONSTANTS
  Client,   \* who calls the manager
  Inside,   \* the clients that are tasks of a processor
  Name,     \* the identifiers
  Object,   \* the memory of the CProcessors
  NoOne     \* no client, no name, no object

ASSUME ClientAssumption ==
  /\ IsFiniteSet(Client)
  /\ Inside \subseteq Client
  /\ NoOne \notin Client \cup Name \cup Object

VARIABLES
  mutex,    \* the client that holds *m_pMutex
  object,   \* pProcessor of each name in m_mapProcessors, else NoOne
  refs,     \* nRefCount of each name
  alive,    \* the objects that were allocated and not deleted
  thread,   \* the thread of each object
  busy,     \* the client that the thread of an object executes
  step,     \* where each client is
  name,     \* the identifier of the client's call
  held,     \* the processor each client has allocated
  closed    \* the program ended: shutDown was called

tableVars == <<object, refs, alive>>
clientVars == <<step, name, held>>
mgrVars == <<mutex, tableVars, thread, busy, clientVars, closed>>

MgrInit ==
  /\ mutex = NoOne
  /\ object = [n \in Name |-> NoOne]
  /\ refs = [n \in Name |-> 0]
  /\ alive = {}
  /\ thread = [o \in Object |-> "none"]
  /\ busy = [o \in Object |-> NoOne]
  /\ step = [k \in Client |-> "out"]
  /\ name = [k \in Client |-> NoOne]
  /\ held = [k \in Client |-> NoOne]
  /\ closed = "no"

StepTo(k, place) == step' = [step EXCEPT ![k] = place]

(* The client can make a call: it is on a thread of its own, or it is the  *)
(* task that a processor executes.                                         *)
MayCall(k) ==
  /\ step[k] = "out"
  /\ IF k \in Inside THEN \E o \in Object : busy[o] = k
                     ELSE closed = "no"

TableFree == mutex = NoOne /\ closed # "closing"

-----------------------------------------------------------------------------
(***************************************************************************)
(* AllocProcessor.                                                         *)
(***************************************************************************)
Alloc(k, n) ==
  /\ MayCall(k)
  /\ held[k] = NoOne
  /\ name' = [name EXCEPT ![k] = n]
  /\ StepTo(k, "alloc")
  /\ UNCHANGED <<mutex, tableVars, thread, busy, held, closed>>

AllocLock(k) ==
  /\ step[k] = "alloc"
  /\ TableFree
  /\ mutex' = k
  /\ StepTo(k, "find")
  /\ UNCHANGED <<tableVars, thread, busy, name, held, closed>>

(* Mistake: a processor that exists is handed out without a count. *)
AllocShare_Uncounted(k) ==
  /\ step[k] = "find"
  /\ object[name[k]] # NoOne
  /\ held' = [held EXCEPT ![k] = object[name[k]]]
  /\ mutex' = NoOne
  /\ StepTo(k, "out")
  /\ UNCHANGED <<tableVars, thread, busy, name, closed>>

AllocShare(k) ==
  /\ step[k] = "find"
  /\ object[name[k]] # NoOne
  /\ refs' = [refs EXCEPT ![name[k]] = @ + 1]
  /\ held' = [held EXCEPT ![k] = object[name[k]]]
  /\ mutex' = NoOne
  /\ StepTo(k, "out")
  /\ UNCHANGED <<object, alive, thread, busy, name, closed>>

(* A new CProcessor and a new thread: the reference to proInfo that the    *)
(* thread is given lives until the promise is set.                         *)
AllocStart(k, o) ==
  /\ step[k] = "find"
  /\ object[name[k]] = NoOne
  /\ o \notin alive
  /\ alive' = alive \cup {o}
  /\ thread' = [thread EXCEPT ![o] = "starting"]
  /\ object' = [object EXCEPT ![name[k]] = o]
  /\ refs' = [refs EXCEPT ![name[k]] = 1]
  /\ StepTo(k, "promise")
  /\ UNCHANGED <<mutex, busy, name, held, closed>>

AllocReady(k) ==
  /\ step[k] = "promise"
  /\ thread[object[name[k]]] # "starting"
  /\ held' = [held EXCEPT ![k] = object[name[k]]]
  /\ mutex' = NoOne
  /\ StepTo(k, "out")
  /\ UNCHANGED <<tableVars, thread, busy, name, closed>>

-----------------------------------------------------------------------------
(***************************************************************************)
(* FreeProcessor, with the pointer or with the name of what the client     *)
(* holds.                                                                  *)
(***************************************************************************)
Free(k) ==
  /\ MayCall(k)
  /\ held[k] # NoOne
  /\ StepTo(k, "free")
  /\ UNCHANGED <<mutex, tableVars, thread, busy, name, held, closed>>

FreeLock(k) ==
  /\ step[k] = "free"
  /\ TableFree
  /\ mutex' = k
  /\ StepTo(k, "drop")
  /\ UNCHANGED <<tableVars, thread, busy, name, held, closed>>

(* Mistake: the count is tested before it is decremented. *)
FreeDrop_TestFirst(k) ==
  /\ step[k] = "drop"
  /\ refs' = [refs EXCEPT ![name[k]] = @ - 1]
  /\ held' = [held EXCEPT ![k] = NoOne]
  /\ IF refs[name[k]] = 0
       THEN /\ thread' = [thread EXCEPT ![object[name[k]]] = "stopping"]
            /\ StepTo(k, "join")
            /\ UNCHANGED mutex
       ELSE /\ mutex' = NoOne
            /\ StepTo(k, "out")
            /\ UNCHANGED thread
  /\ UNCHANGED <<object, alive, busy, name, closed>>

(* Mistake: the last reference joins a processor that nobody stopped. *)
FreeDrop_NoStop(k) ==
  /\ step[k] = "drop"
  /\ refs' = [refs EXCEPT ![name[k]] = @ - 1]
  /\ held' = [held EXCEPT ![k] = NoOne]
  /\ IF refs[name[k]] = 1
       THEN StepTo(k, "join") /\ UNCHANGED mutex
       ELSE StepTo(k, "out") /\ mutex' = NoOne
  /\ UNCHANGED <<object, alive, thread, busy, name, closed>>

(* The identifier is read from the processor; the last reference stops it. *)
FreeDrop(k) ==
  /\ step[k] = "drop"
  /\ refs' = [refs EXCEPT ![name[k]] = @ - 1]
  /\ held' = [held EXCEPT ![k] = NoOne]
  /\ IF refs[name[k]] = 1
       THEN /\ thread' = [thread EXCEPT ![object[name[k]]] = "stopping"]
            /\ StepTo(k, "join")
            /\ UNCHANGED mutex
       ELSE /\ mutex' = NoOne
            /\ StepTo(k, "out")
            /\ UNCHANGED thread
  /\ UNCHANGED <<object, alive, busy, name, closed>>

(* Mistake: the thread is not joined. *)
FreeJoin_Detach(k) ==
  /\ step[k] = "join"
  /\ alive' = alive \ {object[name[k]]}
  /\ object' = [object EXCEPT ![name[k]] = NoOne]
  /\ mutex' = NoOne
  /\ StepTo(k, "out")
  /\ UNCHANGED <<refs, thread, busy, name, held, closed>>

(* The thread has ended: delete the processor, erase the name, unlock.     *)
FreeJoin(k) ==
  /\ step[k] = "join"
  /\ thread[object[name[k]]] = "ended"
  /\ alive' = alive \ {object[name[k]]}
  /\ thread' = [thread EXCEPT ![object[name[k]]] = "none"]
  /\ object' = [object EXCEPT ![name[k]] = NoOne]
  /\ mutex' = NoOne
  /\ StepTo(k, "out")
  /\ UNCHANGED <<refs, busy, name, held, closed>>

-----------------------------------------------------------------------------
(***************************************************************************)
(* shutDown, by the destructor of the manager, with the mutex held.  The   *)
(* clients on threads of their own have returned; what they did not free   *)
(* is still in the table.  Tasks may still run, and call.                  *)
(***************************************************************************)
ShutDown ==
  /\ closed = "no"
  /\ mutex = NoOne
  /\ \A k \in Client \ Inside : step[k] = "out"
  /\ closed' = "closing"
  /\ UNCHANGED <<mutex, tableVars, thread, busy, clientVars>>

(* Mistake: shutDown stops only what nobody uses. *)
CloseStop_Unused(n) ==
  /\ closed = "closing"
  /\ object[n] # NoOne
  /\ refs[n] = 0
  /\ thread' = [thread EXCEPT ![object[n]] = "stopping"]
  /\ UNCHANGED <<mutex, tableVars, busy, clientVars, closed>>

(* The loop stops one processor after the other ...                        *)
CloseStop(n) ==
  /\ closed = "closing"
  /\ object[n] # NoOne
  /\ \A m \in Name : object[m] # NoOne => thread[object[m]] = "running"
  /\ thread' = [thread EXCEPT ![object[n]] = "stopping"]
  /\ UNCHANGED <<mutex, tableVars, busy, clientVars, closed>>

(* ... and joins and deletes it.  No count is looked at.                   *)
CloseJoin(n) ==
  /\ closed = "closing"
  /\ object[n] # NoOne
  /\ thread[object[n]] = "ended"
  /\ alive' = alive \ {object[n]}
  /\ object' = [object EXCEPT ![n] = NoOne]
  /\ thread' = [thread EXCEPT ![object[n]] = "none"]
  /\ UNCHANGED <<mutex, refs, busy, clientVars, closed>>

Closed ==
  /\ closed = "closing"
  /\ \A n \in Name : object[n] = NoOne
  /\ closed' = "yes"
  /\ UNCHANGED <<mutex, tableVars, thread, busy, clientVars>>

-----------------------------------------------------------------------------
(***************************************************************************)
(* The processor threads.                                                  *)
(***************************************************************************)
ThreadStart(o) ==
  /\ thread[o] = "starting"
  /\ thread' = [thread EXCEPT ![o] = "running"]
  /\ UNCHANGED <<mutex, tableVars, busy, clientVars, closed>>

TaskBegin(o, k) ==
  /\ thread[o] \in {"running", "stopping"}
  /\ busy[o] = NoOne
  /\ k \in Inside
  /\ \A p \in Object : busy[p] # k
  /\ busy' = [busy EXCEPT ![o] = k]
  /\ UNCHANGED <<mutex, tableVars, thread, clientVars, closed>>

TaskEnd(o) ==
  /\ busy[o] # NoOne
  /\ step[busy[o]] = "out"
  /\ busy' = [busy EXCEPT ![o] = NoOne]
  /\ UNCHANGED <<mutex, tableVars, thread, clientVars, closed>>

ThreadEnd(o) ==
  /\ thread[o] = "stopping"
  /\ busy[o] = NoOne
  /\ thread' = [thread EXCEPT ![o] = "ended"]
  /\ UNCHANGED <<mutex, tableVars, busy, clientVars, closed>>

-----------------------------------------------------------------------------
(* A client that holds the mutex. *)
InLock(k) ==
  \/ AllocShare(k) \/ AllocReady(k) \/ FreeDrop(k) \/ FreeJoin(k)
  \/ \E o \in Object : AllocStart(k, o)

Closing == Closed \/ \E n \in Name : CloseStop(n) \/ CloseJoin(n)

Thread(o) == ThreadStart(o) \/ TaskEnd(o) \/ ThreadEnd(o)

MgrNext ==
  \/ \E k \in Client :
       \/ \E n \in Name : Alloc(k, n)
       \/ AllocLock(k) \/ Free(k) \/ FreeLock(k) \/ InLock(k)
  \/ \E o \in Object : Thread(o) \/ \E k \in Client : TaskBegin(o, k)
  \/ ShutDown \/ Closing

MgrSpec == MgrInit /\ [][MgrNext]_mgrVars

(* Who holds the mutex goes on when it can, and so do the processor        *)
(* threads; StopCompletes of Processor says that a thread that was told to *)
(* stop does not execute tasks for ever.  The mutex itself may pass a      *)
(* waiting client over for ever.                                           *)
MgrFairness ==
  /\ WF_mgrVars(\E k \in Client : InLock(k))
  /\ \A o \in Object : WF_mgrVars(Thread(o)) /\ SF_mgrVars(ThreadEnd(o))
  /\ WF_mgrVars(Closing)

MgrFairSpec == MgrSpec /\ MgrFairness

-----------------------------------------------------------------------------
(***************************************************************************)
(* What must hold.                                                         *)
(***************************************************************************)

(* The type invariant. *)
MgrTypeOK ==
  /\ mutex \in Client \cup {NoOne}
  /\ object \in [Name -> Object \cup {NoOne}]
  /\ refs \in [Name -> Nat]
  /\ alive \subseteq Object
  /\ thread \in [Object ->
                 {"none", "starting", "running", "stopping", "ended"}]
  /\ busy \in [Object -> Client \cup {NoOne}]
  /\ step \in [Client -> {"out", "alloc", "find", "promise", "free", "drop",
                        "join"}]
  /\ name \in [Client -> Name \cup {NoOne}]
  /\ held \in [Client -> Object \cup {NoOne}]
  /\ closed \in {"no", "closing", "yes"}

(* The count of a name is the number of clients that have its processor,   *)
(* or are about to be given it; a processor stays in the table exactly as  *)
(* long as the count is not zero.                                          *)
RefsExact ==
  \A n \in Name :
    /\ refs[n] = Cardinality({k \in Client :
                                /\ name[k] = n
                                /\ held[k] # NoOne \/ step[k] = "promise"})
    /\ TableFree /\ closed = "no" => (refs[n] = 0 <=> object[n] = NoOne)

(* Until the program ends, a client that has allocated a processor has one *)
(* that is in memory, in the table under its name, and runs: nobody else's *)
(* FreeProcessor stops it, and line 60 reads a live object.                *)
HeldRuns ==
  closed = "no" =>
    \A k \in Client :
      held[k] # NoOne =>
        /\ held[k] \in alive
        /\ held[k] = object[name[k]]
        /\ thread[held[k]] = "running"

(* The counts are right, and so who holds a processor has a running one.   *)
HoldersServed == RefsExact /\ HeldRuns

(* A thread never runs on a processor that was deleted, and no processor   *)
(* is left behind without a name.                                          *)
ThreadsOwned ==
  /\ \A o \in Object : thread[o] # "none" <=> o \in alive
  /\ alive = {object[n] : n \in Name} \ {NoOne}

(* The thread that somebody joins is executing a task that calls the       *)
(* manager, or that is itself the one that joins.                          *)
Stuck(o) ==
  /\ thread[o] = "stopping"
  /\ \E j \in Inside : busy[o] = j /\ step[j] # "out"

(* Somebody joins a thread under the mutex: a FreeProcessor, one at a time *)
(* since it holds the mutex, or shutDown.                                  *)
Joins == closed = "closing" \/ \E k \in Client : step[k] = "join"

(* Every join under the mutex ends, so FreeProcessor and shutDown return,  *)
(* unless the very thread that is joined is executing a task that calls    *)
(* the manager: then both wait for ever.                                   *)
JoinsEnd == Joins ~> ~Joins \/ \E o \in Object : Stuck(o)
=============================================================================
