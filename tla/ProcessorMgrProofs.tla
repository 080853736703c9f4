------------------------- MODULE ProcessorMgrProofs -------------------------
(***************************************************************************)
(* Theorems on ProcessorMgr, for any number of clients, names and objects. *)
(*                                                                         *)
(* MgrInv says who may be where while the mutex is held (Locked, Called,   *)
(* Tasks), that an object has one name and one thread (Owned), that the    *)
(* counts are those of the users (Counted), and what the thread of a name  *)
(* does while somebody starts it, joins it or uses it (Lives, Held).       *)
(***************************************************************************)
EXTENDS ProcessorMgr, FiniteSetTheorems, TLAPS

Users(n) == {k \in Client : name[k] = n /\ (held[k] # NoOne \/ step[k] = "promise")}

Joining(n) == \E k \in Client : step[k] = "join" /\ name[k] = n
Promising(n) == \E k \in Client : step[k] = "promise" /\ name[k] = n

(* The mutex is with the client that is between lock and unlock. *)
Locked ==
  \A k \in Client : step[k] \in {"find", "promise", "drop", "join"} <=> mutex = k

(* A call has a name; an AllocProcessor is made with nothing allocated, a  *)
(* FreeProcessor with something.                                           *)
Called ==
  \A k \in Client :
    /\ step[k] # "out" \/ held[k] # NoOne => name[k] # NoOne
    /\ step[k] \in {"alloc", "find", "promise", "join"} => held[k] = NoOne
    /\ step[k] \in {"free", "drop"} => held[k] # NoOne

(* A task that calls keeps its processor busy; once shutDown began nobody  *)
(* else calls, and when it ended there is no processor.                    *)
Tasks ==
  /\ \A k \in Inside : step[k] # "out" => \E o \in Object : busy[o] = k
  /\ \A o \in Object : busy[o] # NoOne => thread[o] \in {"running", "stopping"}
  /\ closed # "no" => mutex = NoOne /\ \A k \in Client \ Inside : step[k] = "out"
  /\ closed = "yes" => \A n \in Name : object[n] = NoOne

Owned ==
  /\ ThreadsOwned
  /\ \A m, n \in Name : object[m] = object[n] /\ object[m] # NoOne => m = n

Counted == \A n \in Name : refs[n] = Cardinality(Users(n))

(* The thread of a name runs, except while it is started or joined. *)
Lives ==
  closed = "no" =>
    \A n \in Name :
      /\ object[n] = NoOne <=> refs[n] = 0 /\ ~Joining(n)
      /\ Joining(n) => refs[n] = 0 /\ thread[object[n]] \in {"stopping", "ended"}
      /\ Promising(n) => refs[n] = 1 /\ thread[object[n]] \in {"starting", "running"}
      /\ object[n] # NoOne /\ ~Joining(n) /\ ~Promising(n) =>
           thread[object[n]] = "running"

Held ==
  closed = "no" => \A k \in Client : held[k] # NoOne => held[k] = object[name[k]]

CallInv == MgrTypeOK /\ Locked /\ Called /\ Tasks
MgrInv == CallInv /\ Owned /\ Counted /\ Lives /\ Held

-----------------------------------------------------------------------------
(***************************************************************************)
(* The users of a name, and their number.                                  *)
(***************************************************************************)
LEMMA UsersCount ==
  ASSUME NEW n \in Name
  PROVE  /\ IsFiniteSet(Users(n)) /\ Cardinality(Users(n)) \in Nat
         /\ Cardinality(Users(n)) = 0 <=> Users(n) = {}
         /\ Cardinality(Users(n)) = 1 => \A j, k \in Users(n) : j = k
<1>1. Users(n) \subseteq Client
  BY DEF Users
<1>2. IsFiniteSet(Users(n))
  BY <1>1, ClientAssumption, FS_Subset
<1>3. Cardinality(Users(n)) \in Nat
  BY <1>2, FS_CardinalityType
<1>4. Cardinality(Users(n)) = 0 <=> Users(n) = {}
  BY <1>2, FS_EmptySet
<1>5. Cardinality(Users(n)) = 1 => \A j, k \in Users(n) : j = k
  BY <1>2, FS_Singleton
<1> QED
  BY <1>2, <1>3, <1>4, <1>5

(* One more user, or one less. *)
LEMMA UserAdded ==
  ASSUME NEW n \in Name, NEW k \in Client, k \notin Users(n), Users(n)' = Users(n) \cup {k}
  PROVE  Cardinality(Users(n)') = Cardinality(Users(n)) + 1
BY UsersCount, FS_AddElement

LEMMA UserRemoved ==
  ASSUME NEW n \in Name, NEW k \in Client, k \in Users(n), Users(n)' = Users(n) \ {k}
  PROVE  Cardinality(Users(n)') = Cardinality(Users(n)) - 1
BY UsersCount, FS_RemoveElement

LEMMA Used ==
  ASSUME CallInv, Counted, NEW k \in Client, step[k] \in {"drop", "promise"}
  PROVE  /\ name[k] \in Name /\ k \in Users(name[k]) /\ refs[name[k]] \in Nat \ {0}
<1>1. name[k] \in Name /\ k \in Users(name[k])
  BY DEF CallInv, MgrTypeOK, Called, Users
<1>2. refs[name[k]] # 0
  BY <1>1, UsersCount DEF Counted
<1> QED
  BY <1>1, <1>2 DEF CallInv, MgrTypeOK

-----------------------------------------------------------------------------
(***************************************************************************)
(* The calls.                                                              *)
(***************************************************************************)

(* After shutDown there is no thread, so no task either: nobody calls.     *)
LEMMA NobodyAfterwards ==
  ASSUME CallInv, Owned, closed = "yes"
  PROVE  \A k \in Client : step[k] = "out"
<1>1. \A o \in Object : o \notin alive
  BY ClientAssumption DEF CallInv, Tasks, Owned, ThreadsOwned
<1>2. \A o \in Object : thread[o] = "none"
  BY <1>1 DEF CallInv, MgrTypeOK, Owned, ThreadsOwned
<1>3. \A o \in Object : busy[o] = NoOne
  BY <1>2 DEF CallInv, Tasks
<1> QED
  BY <1>3, ClientAssumption DEF CallInv, Tasks

LEMMA CallStep ==
  ASSUME CallInv, Counted, [MgrNext]_mgrVars
  PROVE  MgrTypeOK' /\ Locked' /\ Called'
<1> USE ClientAssumption
<1>1. ASSUME NEW k \in Client, NEW n \in Name, Alloc(k, n)
      PROVE  MgrTypeOK' /\ Locked' /\ Called'
  BY <1>1 DEF CallInv, Alloc, StepTo, MayCall, tableVars, MgrTypeOK, Locked, Called
<1>2. ASSUME NEW k \in Client, AllocLock(k) \/ Free(k) \/ FreeLock(k)
      PROVE  MgrTypeOK' /\ Locked' /\ Called'
  BY <1>2 DEF CallInv, AllocLock, Free, FreeLock, TableFree, StepTo, MayCall, tableVars,
              MgrTypeOK, Locked, Called
<1>3. ASSUME NEW k \in Client, AllocShare(k)
      PROVE  MgrTypeOK' /\ Locked' /\ Called'
  BY <1>3 DEF CallInv, AllocShare, StepTo, MgrTypeOK, Locked, Called
<1>4. ASSUME NEW k \in Client, NEW o \in Object, AllocStart(k, o)
      PROVE  MgrTypeOK' /\ Locked' /\ Called'
  BY <1>4 DEF CallInv, AllocStart, StepTo, MgrTypeOK, Locked, Called
<1>5. ASSUME NEW k \in Client, AllocReady(k)
      PROVE  MgrTypeOK' /\ Locked' /\ Called'
  BY <1>5 DEF CallInv, AllocReady, StepTo, tableVars, MgrTypeOK, Locked, Called
<1>6. ASSUME NEW k \in Client, FreeDrop(k)
      PROVE  MgrTypeOK' /\ Locked' /\ Called'
  <2>1. name[k] \in Name /\ refs[name[k]] - 1 \in Nat
    BY <1>6, Used DEF FreeDrop
  <2>2. refs' \in [Name -> Nat]
    BY <1>6, <2>1 DEF CallInv, FreeDrop, MgrTypeOK
  <2> QED
    BY <1>6, <2>2 DEF CallInv, FreeDrop, StepTo, MgrTypeOK, Locked, Called
<1>7. ASSUME NEW k \in Client, FreeJoin(k)
      PROVE  MgrTypeOK' /\ Locked' /\ Called'
  BY <1>7 DEF CallInv, FreeJoin, StepTo, MgrTypeOK, Locked, Called
<1>8. CASE ShutDown \/ Closing \/ (\E o \in Object : Thread(o) \/ \E k \in Client : TaskBegin(o, k))
  <2>1. UNCHANGED <<mutex, step, name, held, refs>>
    BY <1>8 DEF ShutDown, Closing, CloseStop, CloseJoin, Closed, Thread, ThreadStart, ThreadEnd,
                TaskEnd, TaskBegin, clientVars, tableVars
  <2>2. MgrTypeOK'
    BY <1>8, <2>1 DEF CallInv, ShutDown, Closing, CloseStop, CloseJoin, Closed, Thread,
                ThreadStart, ThreadEnd, TaskEnd, TaskBegin, clientVars, tableVars, MgrTypeOK
  <2> QED
    BY <2>1, <2>2 DEF CallInv, Locked, Called
<1>9. CASE UNCHANGED mgrVars
  BY <1>9 DEF mgrVars, tableVars, clientVars, CallInv, MgrTypeOK, Locked, Called
<1> QED
  BY <1>1, <1>2, <1>3, <1>4, <1>5, <1>6, <1>7, <1>8, <1>9 DEF MgrNext, InLock

LEMMA TasksStep ==
  ASSUME CallInv, Owned, [MgrNext]_mgrVars
  PROVE  Tasks'
<1> USE ClientAssumption
<1>1. ASSUME NEW k \in Client,
             \/ \E n \in Name : Alloc(k, n)
             \/ AllocLock(k) \/ Free(k) \/ FreeLock(k)
      PROVE  Tasks'
  <2>1. /\ UNCHANGED <<object, thread, busy, closed>>
        /\ \A j \in Client \ {k} : step'[j] = step[j]
        /\ \/ MayCall(k) /\ mutex' = mutex
           \/ step[k] # "out" /\ TableFree
    BY <1>1 DEF Alloc, AllocLock, Free, FreeLock, StepTo, CallInv, MgrTypeOK, tableVars
  <2>2. closed # "yes" \/ mutex' = mutex
    BY <2>1, NobodyAfterwards
  <2> QED
    BY <2>1, <2>2 DEF MayCall, TableFree, CallInv, MgrTypeOK, Tasks
<1>2. ASSUME NEW k \in Client, AllocShare(k) \/ AllocReady(k) \/ FreeDrop(k) \/ FreeJoin(k)
      PROVE  Tasks'
  <2>1. mutex = k /\ closed = "no" /\ closed' = "no"
    BY <1>2 DEF AllocShare, AllocReady, FreeDrop, FreeJoin, CallInv, Locked, MgrTypeOK, Tasks
  <2>2. /\ busy' = busy /\ \A j \in Client : step'[j] # "out" => step[j] # "out"
        /\ \A o \in Object : busy[o] # NoOne => thread'[o] \in {"running", "stopping"}
    BY <1>2 DEF AllocShare, AllocReady, FreeDrop, FreeJoin, StepTo, CallInv, MgrTypeOK, Tasks
  <2> QED
    BY <2>1, <2>2 DEF CallInv, MgrTypeOK, Tasks
<1>3. ASSUME NEW k \in Client, NEW o \in Object, AllocStart(k, o)
      PROVE  Tasks'
  <2>1. mutex = k /\ closed = "no" /\ closed' = "no"
    BY <1>3 DEF AllocStart, CallInv, Locked, MgrTypeOK, Tasks
  <2>2. busy[o] = NoOne
    BY <1>3 DEF AllocStart, Owned, ThreadsOwned, CallInv, Tasks
  <2> QED
    BY <1>3, <2>1, <2>2 DEF AllocStart, StepTo, CallInv, MgrTypeOK, Tasks
<1>4. CASE ShutDown
  BY <1>4 DEF ShutDown, tableVars, clientVars, CallInv, MgrTypeOK, Tasks
<1>5. CASE Closing
  BY <1>5 DEF Closing, Closed, CloseStop, CloseJoin, tableVars, clientVars, CallInv, MgrTypeOK, Tasks
<1>6. ASSUME NEW o \in Object, ThreadStart(o) \/ ThreadEnd(o)
      PROVE  Tasks'
  BY <1>6 DEF ThreadStart, ThreadEnd, tableVars, clientVars, CallInv, MgrTypeOK, Tasks
<1>7. ASSUME NEW o \in Object, TaskEnd(o)
      PROVE  Tasks'
  BY <1>7 DEF TaskEnd, tableVars, clientVars, CallInv, MgrTypeOK, Tasks
<1>8. ASSUME NEW o \in Object, NEW k \in Client, TaskBegin(o, k)
      PROVE  Tasks'
  BY <1>8 DEF TaskBegin, tableVars, clientVars, CallInv, MgrTypeOK, Tasks
<1>9. CASE UNCHANGED mgrVars
  BY <1>9 DEF mgrVars, tableVars, clientVars, CallInv, Tasks
<1> QED
  BY <1>1, <1>2, <1>3, <1>4, <1>5, <1>6, <1>7, <1>8, <1>9 DEF MgrNext, InLock, Thread

-----------------------------------------------------------------------------
(***************************************************************************)
(* The table.                                                              *)
(***************************************************************************)

(* The identifier is where the client of the mutex is told it is. *)
LEMMA InCall ==
  ASSUME CallInv, NEW k \in Client, step[k] \in {"find", "promise", "drop", "join"}
  PROVE  /\ name[k] \in Name /\ mutex = k /\ closed = "no"
         /\ \A j \in Client \ {k} : step[j] \notin {"find", "promise", "drop", "join"}
BY ClientAssumption DEF CallInv, MgrTypeOK, Locked, Called, Tasks

(* What deleting the processor of a name leaves. *)
LEMMA OwnedDelete ==
  ASSUME CallInv, Owned, NEW n \in Name, object[n] # NoOne,
         alive' = alive \ {object[n]}, object' = [object EXCEPT ![n] = NoOne],
         thread' = [thread EXCEPT ![object[n]] = "none"]
  PROVE  Owned'
<1>1. {object'[m] : m \in Name} \ {NoOne} = ({object[m] : m \in Name} \ {NoOne}) \ {object[n]}
  BY DEF CallInv, MgrTypeOK, Owned
<1>2. \A o \in Object : thread'[o] # "none" <=> o \in alive'
  BY DEF CallInv, MgrTypeOK, Owned, ThreadsOwned
<1> QED
  BY <1>1, <1>2 DEF CallInv, MgrTypeOK, Owned, ThreadsOwned

LEMMA OwnedStep ==
  ASSUME CallInv, Owned, Lives, [MgrNext]_mgrVars
  PROVE  Owned'
<1> USE ClientAssumption
<1>1. ASSUME UNCHANGED <<object, alive>>,
             \A o \in Object : thread'[o] = "none" <=> thread[o] = "none"
      PROVE  Owned'
  BY <1>1 DEF Owned, ThreadsOwned
<1>2. ASSUME NEW k \in Client,
             \/ \E n \in Name : Alloc(k, n)
             \/ AllocLock(k) \/ Free(k) \/ FreeLock(k) \/ AllocShare(k) \/ AllocReady(k)
      PROVE  Owned'
  BY <1>1, <1>2 DEF Alloc, AllocLock, Free, FreeLock, AllocShare, AllocReady, tableVars
<1>3. ASSUME NEW k \in Client, NEW o \in Object, AllocStart(k, o)
      PROVE  Owned'
  <2>1. /\ name[k] \in Name /\ object[name[k]] = NoOne /\ o \notin alive
        /\ alive' = alive \cup {o} /\ thread' = [thread EXCEPT ![o] = "starting"]
        /\ object' = [object EXCEPT ![name[k]] = o]
    BY <1>3, InCall DEF AllocStart
  <2>2. {object'[m] : m \in Name} \ {NoOne} = ({object[m] : m \in Name} \ {NoOne}) \cup {o}
    BY <2>1 DEF CallInv, MgrTypeOK
  <2>3. \A m \in Name : object[m] # o
    BY <2>1 DEF Owned, ThreadsOwned
  <2> QED
    BY <2>1, <2>2, <2>3 DEF CallInv, MgrTypeOK, Owned, ThreadsOwned
<1>4. ASSUME NEW k \in Client, FreeDrop(k)
      PROVE  Owned'
  BY <1>1, <1>4, InCall, Used DEF FreeDrop, CallInv, MgrTypeOK, Lives, Owned, ThreadsOwned
<1>5. ASSUME NEW k \in Client, FreeJoin(k)
      PROVE  Owned'
  BY <1>5, InCall, OwnedDelete DEF FreeJoin, Lives, Joining
<1>6. ASSUME NEW n \in Name, CloseStop(n)
      PROVE  Owned'
  BY <1>1, <1>6 DEF CloseStop, tableVars, CallInv, MgrTypeOK, Owned, ThreadsOwned
<1>7. ASSUME NEW n \in Name, CloseJoin(n)
      PROVE  Owned'
  BY <1>7, OwnedDelete DEF CloseJoin
<1>8. CASE ShutDown \/ Closed \/ (\E o \in Object : Thread(o) \/ \E k \in Client : TaskBegin(o, k))
  BY <1>1, <1>8 DEF ShutDown, Closed, Thread, ThreadStart, ThreadEnd, TaskEnd, TaskBegin,
                    tableVars, CallInv, MgrTypeOK
<1>9. CASE UNCHANGED mgrVars
  BY <1>1, <1>9 DEF mgrVars, tableVars
<1> QED
  BY <1>2, <1>3, <1>4, <1>5, <1>6, <1>7, <1>8, <1>9 DEF MgrNext, InLock, Closing

-----------------------------------------------------------------------------
(***************************************************************************)
(* The counts.                                                             *)
(***************************************************************************)
LEMMA Unused ==
  ASSUME CallInv, Counted, NEW n \in Name, refs[n] = 0
  PROVE  Users(n) = {}
BY UsersCount DEF Counted

LEMMA CountedKept ==
  ASSUME Counted, UNCHANGED refs, \A n \in Name : Users(n)' = Users(n)
  PROVE  Counted'
BY DEF Counted

LEMMA CountedStep ==
  ASSUME CallInv, Owned, Counted, Lives, [MgrNext]_mgrVars
  PROVE  Counted'
<1> USE ClientAssumption
<1>1. ASSUME NEW k \in Client,
             \/ \E n \in Name : Alloc(k, n)
             \/ AllocLock(k) \/ Free(k) \/ FreeLock(k) \/ FreeJoin(k)
      PROVE  Counted'
  <2>1. /\ UNCHANGED <<refs, held>> /\ (held[k] # NoOne => name' = name)
        /\ \A j \in Client \ {k} : step'[j] = step[j] /\ name'[j] = name[j]
        /\ step[k] # "promise" /\ step'[k] # "promise"
    BY <1>1 DEF Alloc, MayCall, AllocLock, Free, FreeLock, FreeJoin, StepTo, CallInv, MgrTypeOK,
                tableVars
  <2>2. \A n \in Name : Users(n)' = Users(n)
    BY <2>1 DEF Users
  <2> QED
    BY <2>1, <2>2, CountedKept
<1>2. ASSUME NEW k \in Client, AllocShare(k)
      PROVE  Counted'
  <2>1. /\ name[k] \in Name /\ object[name[k]] # NoOne /\ name' = name
        /\ held' = [held EXCEPT ![k] = object[name[k]]]
        /\ step[k] = "find" /\ step' = [step EXCEPT ![k] = "out"]
        /\ refs' = [refs EXCEPT ![name[k]] = @ + 1]
    BY <1>2, InCall DEF AllocShare, StepTo
  <2>2. k \notin Users(name[k]) /\ Users(name[k])' = Users(name[k]) \cup {k}
    BY <2>1 DEF CallInv, MgrTypeOK, Called, Users
  <2>3. \A n \in Name \ {name[k]} : Users(n)' = Users(n)
    BY <2>1 DEF CallInv, MgrTypeOK, Users
  <2>4. Cardinality(Users(name[k])') = Cardinality(Users(name[k])) + 1
    BY <2>1, <2>2, UserAdded
  <2> QED
    BY <2>1, <2>3, <2>4 DEF CallInv, MgrTypeOK, Counted
<1>3. ASSUME NEW k \in Client, NEW o \in Object, AllocStart(k, o)
      PROVE  Counted'
  <2>1. /\ name[k] \in Name /\ object[name[k]] = NoOne /\ UNCHANGED <<name, held>>
        /\ step[k] = "find" /\ step' = [step EXCEPT ![k] = "promise"]
        /\ refs' = [refs EXCEPT ![name[k]] = 1] /\ closed = "no"
    BY <1>3, InCall DEF AllocStart, StepTo
  <2>2. refs[name[k]] = 0
    BY <2>1 DEF Lives
  <2>3. Users(name[k]) = {} /\ Users(name[k])' = Users(name[k]) \cup {k}
    BY <2>1, <2>2, Unused DEF CallInv, MgrTypeOK, Called, Users
  <2>4. \A n \in Name \ {name[k]} : Users(n)' = Users(n)
    BY <2>1 DEF CallInv, MgrTypeOK, Users
  <2>5. Cardinality(Users(name[k])') = Cardinality(Users(name[k])) + 1
    BY <2>1, <2>3, UserAdded
  <2>6. Cardinality(Users(name[k])) = 0
    BY <2>1, <2>3, UsersCount
  <2> QED
    BY <2>1, <2>4, <2>5, <2>6 DEF CallInv, MgrTypeOK, Counted
<1>4. ASSUME NEW k \in Client, AllocReady(k)
      PROVE  Counted'
  <2>1. /\ name[k] \in Name /\ closed = "no" /\ UNCHANGED <<name, refs>>
        /\ held' = [held EXCEPT ![k] = object[name[k]]]
        /\ step[k] = "promise" /\ step' = [step EXCEPT ![k] = "out"]
    BY <1>4, InCall DEF AllocReady, StepTo, tableVars
  <2>2. object[name[k]] # NoOne
    BY <2>1, Used DEF Lives
  <2>3. \A n \in Name : Users(n)' = Users(n)
    BY <2>1, <2>2 DEF CallInv, MgrTypeOK, Users
  <2> QED
    BY <2>1, <2>3, CountedKept
<1>5. ASSUME NEW k \in Client, FreeDrop(k)
      PROVE  Counted'
  <2>1. /\ name[k] \in Name /\ name' = name /\ held' = [held EXCEPT ![k] = NoOne]
        /\ step[k] = "drop" /\ step'[k] \in {"join", "out"}
        /\ \A j \in Client \ {k} : step'[j] = step[j]
        /\ refs' = [refs EXCEPT ![name[k]] = @ - 1]
    BY <1>5, InCall DEF FreeDrop, StepTo, CallInv, MgrTypeOK
  <2>2. k \in Users(name[k]) /\ Users(name[k])' = Users(name[k]) \ {k}
    BY <2>1, Used DEF CallInv, MgrTypeOK, Users
  <2>3. \A n \in Name \ {name[k]} : Users(n)' = Users(n)
    BY <2>1 DEF CallInv, MgrTypeOK, Users
  <2>4. Cardinality(Users(name[k])') = Cardinality(Users(name[k])) - 1
    BY <2>1, <2>2, UserRemoved
  <2> QED
    BY <2>1, <2>3, <2>4 DEF CallInv, MgrTypeOK, Counted
<1>6. CASE \/ ShutDown \/ Closing \/ UNCHANGED mgrVars
           \/ \E o \in Object : Thread(o) \/ \E k \in Client : TaskBegin(o, k)
  <2>1. UNCHANGED <<refs, step, name, held>>
    BY <1>6 DEF ShutDown, Closing, CloseStop, CloseJoin, Closed, Thread, ThreadStart, ThreadEnd,
                TaskEnd, TaskBegin, mgrVars, clientVars, tableVars
  <2> QED
    BY <2>1, CountedKept DEF Users
<1> QED
  BY <1>1, <1>2, <1>3, <1>4, <1>5, <1>6 DEF MgrNext, InLock

-----------------------------------------------------------------------------
(***************************************************************************)
(* The threads, and who holds them.                                        *)
(***************************************************************************)
LEMMA LivesKept ==
  ASSUME Lives, UNCHANGED <<object, refs, thread>>, closed' = "no" => closed = "no",
         \A n \in Name : (Joining(n)' <=> Joining(n)) /\ (Promising(n)' <=> Promising(n))
  PROVE  Lives'
BY DEF Lives

(* Nobody else starts or joins a processor meanwhile. *)
LEMMA Alone ==
  ASSUME CallInv, NEW k \in Client, step[k] \in {"find", "promise", "drop", "join"},
         NEW n \in Name
  PROVE  /\ Joining(n) <=> step[k] = "join" /\ name[k] = n
         /\ Promising(n) <=> step[k] = "promise" /\ name[k] = n
BY InCall DEF Joining, Promising

LEMMA LivesStep ==
  ASSUME CallInv, Owned, Counted, Lives, [MgrNext]_mgrVars
  PROVE  Lives'
<1> USE ClientAssumption
<1>1. ASSUME NEW k \in Client,
             \/ \E n \in Name : Alloc(k, n)
             \/ AllocLock(k) \/ Free(k) \/ FreeLock(k)
      PROVE  Lives'
  <2>1. /\ UNCHANGED <<object, refs, thread, closed>>
        /\ step[k] \notin {"promise", "join"} /\ step'[k] \notin {"promise", "join"}
        /\ \A j \in Client \ {k} : step'[j] = step[j] /\ name'[j] = name[j]
    BY <1>1 DEF Alloc, AllocLock, Free, FreeLock, StepTo, CallInv, MgrTypeOK, tableVars, MayCall
  <2>2. \A n \in Name : (Joining(n)' <=> Joining(n)) /\ (Promising(n)' <=> Promising(n))
    BY <2>1 DEF Joining, Promising
  <2> QED
    BY <2>1, <2>2, LivesKept
<1>2. ASSUME NEW k \in Client, AllocShare(k)
      PROVE  Lives'
  <2>1. /\ name[k] \in Name /\ step[k] = "find" /\ step' = [step EXCEPT ![k] = "out"]
        /\ object[name[k]] # NoOne /\ refs' = [refs EXCEPT ![name[k]] = @ + 1]
        /\ UNCHANGED <<object, thread, name, closed>> /\ closed = "no"
    BY <1>2, InCall DEF AllocShare, StepTo
  <2>2. \A n \in Name : ~Joining(n) /\ ~Promising(n)
    BY <2>1, Alone
  <2>3. \A n \in Name : ~Joining(n)' /\ ~Promising(n)'
    BY <2>1, <2>2 DEF Joining, Promising, CallInv, MgrTypeOK
  <2> QED
    BY <2>1, <2>2, <2>3 DEF CallInv, MgrTypeOK, Lives
<1>3. ASSUME NEW k \in Client, NEW o \in Object, AllocStart(k, o)
      PROVE  Lives'
  <2>1. /\ name[k] \in Name /\ step[k] = "find" /\ step' = [step EXCEPT ![k] = "promise"]
        /\ o \notin alive /\ object' = [object EXCEPT ![name[k]] = o]
        /\ thread' = [thread EXCEPT ![o] = "starting"]
        /\ refs' = [refs EXCEPT ![name[k]] = 1] /\ UNCHANGED <<name, closed>> /\ closed = "no"
    BY <1>3, InCall DEF AllocStart, StepTo
  <2>2. \A n \in Name : ~Joining(n) /\ ~Promising(n) /\ object[n] # o
    BY <2>1, Alone DEF Owned, ThreadsOwned
  <2>3. \A n \in Name : ~Joining(n)' /\ (Promising(n)' <=> n = name[k])
    BY <2>1, <2>2 DEF Joining, Promising, CallInv, MgrTypeOK
  <2>4. \A n \in Name \ {name[k]} :
          /\ object'[n] = object[n] /\ refs'[n] = refs[n]
          /\ object[n] # NoOne => thread'[object[n]] = thread[object[n]]
    BY <2>1, <2>2 DEF CallInv, MgrTypeOK
  <2>5. /\ object'[name[k]] = o /\ o # NoOne /\ refs'[name[k]] = 1
        /\ thread'[o] = "starting"
    BY <2>1 DEF CallInv, MgrTypeOK
  <2> QED
    BY <2>1, <2>2, <2>3, <2>4, <2>5 DEF Lives
<1>4. ASSUME NEW k \in Client, AllocReady(k)
      PROVE  Lives'
  <2>1. /\ name[k] \in Name /\ step[k] = "promise" /\ step' = [step EXCEPT ![k] = "out"]
        /\ thread[object[name[k]]] # "starting"
        /\ UNCHANGED <<object, refs, thread, name, closed>> /\ closed = "no"
    BY <1>4, InCall DEF AllocReady, StepTo, tableVars
  <2>2. \A n \in Name : ~Joining(n) /\ (Promising(n) <=> n = name[k])
    BY <2>1, Alone
  <2>3. \A n \in Name : ~Joining(n)' /\ ~Promising(n)'
    BY <2>1, InCall DEF Joining, Promising, CallInv, MgrTypeOK
  <2> QED
    BY <2>1, <2>2, <2>3 DEF Lives
<1>5. ASSUME NEW k \in Client, FreeDrop(k)
      PROVE  Lives'
  <2>1. /\ name[k] \in Name /\ step[k] = "drop" /\ refs' = [refs EXCEPT ![name[k]] = @ - 1]
        /\ UNCHANGED <<object, name, closed>> /\ closed = "no"
        /\ refs[name[k]] \in Nat \ {0}
    BY <1>5, InCall, Used DEF FreeDrop
  <2>2. \A n \in Name : ~Joining(n) /\ ~Promising(n)
    BY <2>1, Alone
  <2>3. CASE refs[name[k]] = 1
    <3>1. /\ thread' = [thread EXCEPT ![object[name[k]]] = "stopping"]
          /\ step' = [step EXCEPT ![k] = "join"]
      BY <1>5, <2>3 DEF FreeDrop, StepTo
    <3>2. \A n \in Name : (Joining(n)' <=> n = name[k]) /\ ~Promising(n)'
      BY <2>1, <2>2, <3>1 DEF Joining, Promising, CallInv, MgrTypeOK
    <3>3. object[name[k]] # NoOne
      BY <2>1 DEF Lives
    <3>4. thread'[object[name[k]]] = "stopping" /\ refs'[name[k]] = 0
      BY <2>1, <2>3, <3>1, <3>3 DEF CallInv, MgrTypeOK
    <3>5. \A n \in Name \ {name[k]} :
            /\ refs'[n] = refs[n]
            /\ object[n] # NoOne => thread'[object[n]] = thread[object[n]]
      BY <2>1, <3>1, <3>3 DEF CallInv, MgrTypeOK, Owned
    <3> QED
      BY <2>1, <2>2, <3>2, <3>3, <3>4, <3>5 DEF Lives
  <2>4. CASE refs[name[k]] # 1
    <3>1. thread' = thread /\ step' = [step EXCEPT ![k] = "out"]
      BY <1>5, <2>4 DEF FreeDrop, StepTo
    <3>2. \A n \in Name : ~Joining(n)' /\ ~Promising(n)'
      BY <2>1, <2>2, <3>1 DEF Joining, Promising, CallInv, MgrTypeOK
    <3>3. \A n \in Name : refs'[n] = 0 <=> refs[n] = 0
      BY <2>1, <2>4 DEF CallInv, MgrTypeOK
    <3> QED
      BY <2>1, <2>2, <3>1, <3>2, <3>3 DEF Lives
  <2> QED
    BY <2>3, <2>4
<1>6. ASSUME NEW k \in Client, FreeJoin(k)
      PROVE  Lives'
  <2>1. /\ name[k] \in Name /\ step[k] = "join" /\ step' = [step EXCEPT ![k] = "out"]
        /\ object' = [object EXCEPT ![name[k]] = NoOne]
        /\ thread' = [thread EXCEPT ![object[name[k]]] = "none"]
        /\ UNCHANGED <<refs, name, closed>> /\ closed = "no"
    BY <1>6, InCall DEF FreeJoin, StepTo
  <2>2. \A n \in Name : ~Promising(n) /\ (Joining(n) <=> n = name[k])
    BY <2>1, Alone
  <2>3. \A n \in Name : ~Joining(n)' /\ ~Promising(n)'
    BY <2>1, InCall DEF Joining, Promising, CallInv, MgrTypeOK
  <2>4. object'[name[k]] = NoOne /\ refs[name[k]] = 0 /\ object[name[k]] # NoOne
    BY <2>1, <2>2 DEF Lives, CallInv, MgrTypeOK
  <2>5. \A n \in Name \ {name[k]} :
          /\ object'[n] = object[n]
          /\ object[n] # NoOne => thread'[object[n]] = thread[object[n]]
    BY <2>1, <2>4 DEF CallInv, MgrTypeOK, Owned
  <2> QED
    BY <2>1, <2>2, <2>3, <2>4, <2>5 DEF Lives
<1>7. CASE ShutDown \/ Closing
  BY <1>7 DEF ShutDown, Closing, Closed, CloseStop, CloseJoin, Lives
<1>8. ASSUME NEW o \in Object, ThreadStart(o) \/ ThreadEnd(o)
      PROVE  Lives'
  <2>1. /\ UNCHANGED <<object, refs, step, name, closed>>
        /\ \/ thread[o] = "starting" /\ thread' = [thread EXCEPT ![o] = "running"]
           \/ thread[o] = "stopping" /\ thread' = [thread EXCEPT ![o] = "ended"]
    BY <1>8 DEF ThreadStart, ThreadEnd, tableVars, clientVars
  <2>2. \A n \in Name : (Joining(n)' <=> Joining(n)) /\ (Promising(n)' <=> Promising(n))
    BY <2>1 DEF Joining, Promising
  <2>3. \A n \in Name : Joining(n) => ~Promising(n)
    BY Alone DEF Joining
  <2> QED
    BY <2>1, <2>2, <2>3 DEF CallInv, MgrTypeOK, Lives
<1>9. CASE UNCHANGED mgrVars \/ \E o \in Object : TaskEnd(o) \/ \E k \in Client : TaskBegin(o, k)
  <2>1. UNCHANGED <<object, refs, thread, step, name, closed>>
    BY <1>9 DEF TaskEnd, TaskBegin, mgrVars, tableVars, clientVars
  <2> QED
    BY <2>1, LivesKept DEF Joining, Promising
<1> QED
  BY <1>1, <1>2, <1>3, <1>4, <1>5, <1>6, <1>7, <1>8, <1>9 DEF MgrNext, InLock, Thread

LEMMA HeldStep ==
  ASSUME MgrInv, [MgrNext]_mgrVars
  PROVE  Held'
<1> USE ClientAssumption
<1>1. ASSUME NEW k \in Client,
             \/ \E n \in Name : Alloc(k, n)
             \/ AllocLock(k) \/ Free(k) \/ FreeLock(k) \/ AllocShare(k) \/ AllocReady(k)
             \/ FreeDrop(k)
      PROVE  Held'
  <2>1. /\ UNCHANGED <<object, closed>>
        /\ \A j \in Client \ {k} : held'[j] = held[j] /\ name'[j] = name[j]
        /\ \/ held'[k] = NoOne
           \/ held'[k] = held[k] /\ name'[k] = name[k]
           \/ held'[k] = object[name[k]] /\ name'[k] = name[k]
    BY <1>1 DEF Alloc, AllocLock, Free, FreeLock, AllocShare, AllocReady, FreeDrop, tableVars,
                MgrInv, CallInv, MgrTypeOK
  <2> QED
    BY <2>1 DEF MgrInv, Held
<1>2. ASSUME NEW k \in Client, FreeJoin(k) \/ \E o \in Object : AllocStart(k, o)
      PROVE  Held'
  <2>1. /\ name[k] \in Name /\ closed = "no" /\ UNCHANGED <<held, name, closed>>
        /\ \A n \in Name \ {name[k]} : object'[n] = object[n]
        /\ \/ step[k] = "join"
           \/ step[k] = "find" /\ object[name[k]] = NoOne
    <3>1. CASE FreeJoin(k)
      BY <3>1, InCall DEF FreeJoin, MgrInv, CallInv, MgrTypeOK
    <3>2. CASE \E o \in Object : AllocStart(k, o)
      BY <3>2, InCall DEF AllocStart, MgrInv, CallInv, MgrTypeOK
    <3> QED
      BY <1>2, <3>1, <3>2
  <2>2. refs[name[k]] = 0
    BY <2>1 DEF MgrInv, Lives, Joining
  <2>3. \A j \in Client : held[j] # NoOne => name[j] # name[k]
    BY <2>1, <2>2, Unused DEF MgrInv, Users
  <2> QED
    BY <2>1, <2>3 DEF MgrInv, CallInv, MgrTypeOK, Called, Held
<1>3. CASE ShutDown \/ Closing
  BY <1>3 DEF ShutDown, Closing, Closed, CloseStop, CloseJoin, Held
<1>4. CASE UNCHANGED mgrVars \/ \E o \in Object : Thread(o) \/ \E k \in Client : TaskBegin(o, k)
  BY <1>4 DEF Thread, ThreadStart, ThreadEnd, TaskEnd, TaskBegin, mgrVars, tableVars, clientVars,
              MgrInv, Held
<1> QED
  BY <1>1, <1>2, <1>3, <1>4 DEF MgrNext, InLock

-----------------------------------------------------------------------------
(***************************************************************************)
(* The invariant.                                                          *)
(***************************************************************************)
LEMMA MgrBegins == MgrInit => MgrInv
<1> SUFFICES ASSUME MgrInit PROVE MgrInv
  OBVIOUS
<1>1. CallInv
  BY ClientAssumption DEF MgrInit, CallInv, MgrTypeOK, Locked, Called, Tasks
<1>2. Owned
  BY DEF MgrInit, Owned, ThreadsOwned
<1>3. \A n \in Name : Users(n) = {}
  BY DEF MgrInit, Users
<1>4. Counted
  BY <1>3, UsersCount DEF MgrInit, Counted
<1>5. Lives /\ Held
  BY DEF MgrInit, Lives, Held, Joining, Promising
<1> QED
  BY <1>1, <1>2, <1>4, <1>5 DEF MgrInv

LEMMA MgrStep == MgrInv /\ [MgrNext]_mgrVars => MgrInv'
BY CallStep, TasksStep, OwnedStep, CountedStep, LivesStep, HeldStep DEF MgrInv, CallInv

(* The invariant holds in every behaviour of the manager. *)
THEOREM MgrInvariant == MgrSpec => []MgrInv
BY MgrBegins, MgrStep, PTL DEF MgrSpec

(* The state of the manager and of its threads is of the types of          *)
(* processor_mgr.h; no count goes below zero.                              *)
THEOREM MgrIsTyped == MgrSpec => []MgrTypeOK
<1>1. MgrInv => MgrTypeOK
  BY DEF MgrInv, CallInv
<1> QED
  BY <1>1, MgrInvariant, PTL

(* The count of a name is the number of its users, and who has allocated a *)
(* processor has one that runs, whatever the others free.                  *)
THEOREM HoldersAreServed == MgrSpec => []HoldersServed
<1>1. MgrInv => RefsExact
  <2> SUFFICES ASSUME MgrInv, NEW n \in Name
               PROVE  /\ refs[n] = Cardinality(Users(n))
                      /\ TableFree /\ closed = "no" => (refs[n] = 0 <=> object[n] = NoOne)
    BY DEF RefsExact, Users
  <2>1. TableFree => ~Joining(n)
    BY ClientAssumption DEF MgrInv, CallInv, Locked, TableFree, Joining
  <2> QED
    BY <2>1 DEF MgrInv, Counted, Lives
<1>2. MgrInv => HeldRuns
  <2> SUFFICES ASSUME MgrInv, closed = "no", NEW k \in Client, held[k] # NoOne
               PROVE  /\ held[k] \in alive /\ held[k] = object[name[k]]
                      /\ thread[held[k]] = "running"
    BY DEF HeldRuns
  <2>1. name[k] \in Name /\ k \in Users(name[k]) /\ held[k] = object[name[k]]
    BY DEF MgrInv, CallInv, MgrTypeOK, Called, Held, Users
  <2>2. held[k] \in alive
    BY <2>1 DEF MgrInv, Owned, ThreadsOwned
  <2>3. refs[name[k]] # 0
    BY <2>1, Unused DEF MgrInv
  <2>4. ASSUME NEW j \in Client, step[j] = "promise", name[j] = name[k]
        PROVE  FALSE
    <3>1. j \in Users(name[k]) /\ Promising(name[k]) /\ j # k
      BY <2>1, <2>4 DEF MgrInv, CallInv, Called, Users, Promising
    <3>2. refs[name[k]] = 1
      BY <2>1, <3>1 DEF MgrInv, Lives
    <3> QED
      BY <2>1, <3>1, <3>2, UsersCount DEF MgrInv, Counted
  <2> QED
    BY <2>1, <2>2, <2>3, <2>4 DEF MgrInv, Lives, Promising
<1> QED
  BY <1>1, <1>2, MgrInvariant, PTL DEF HoldersServed

(* Every thread has a processor in memory, every processor a name.         *)
THEOREM ThreadsAreOwned == MgrSpec => []ThreadsOwned
<1>1. MgrInv => ThreadsOwned
  BY DEF MgrInv, Owned
<1> QED
  BY <1>1, MgrInvariant, PTL
=============================================================================
