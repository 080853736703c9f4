----------------------------- MODULE DataManager -----------------------------
(***************************************************************************)
(* CDataManager (src/include/frame/dynamic_create.h): the classes of an    *)
(* interface enter a list before main, in an order that the linker         *)
(* chooses; a manager creates one module for each identifier, hands        *)
(* messages to one module and events to all that registered them.          *)
(*                                                                         *)
(* A module is named by its class, since a manager has at most one of      *)
(* each.  The code of the modules is left out: heard is who was called.    *)
(***************************************************************************)
EXTENDS Naturals, Sequences, FiniteSets

CONSTANTS
  ModuleClass, \* the classes of the interface
  ClassID,     \* the identifier that each class is declared with
  Priority,    \* its priority: the lower, the earlier
  MessageMap,  \* the messages and events that it has functions for
  ModuleNum,   \* MODULE_NUM
  EventStart,  \* events are between these two
  EventEnd,
  NoModule     \* NULL in the table, and no table

EventNum == EventEnd - EventStart - 1
Events == (EventStart + 1)..(EventEnd - 1)
Message == 0..EventEnd
Module == 0..(ModuleNum - 1)
Slot == 0..(EventNum - 1)

ASSUME DataAssumption ==
  /\ IsFiniteSet(ModuleClass) /\ NoModule \notin ModuleClass
  /\ ClassID \in [ModuleClass -> Nat] /\ Priority \in [ModuleClass -> Nat]
  /\ ModuleNum \in Nat \ {0}
  /\ EventStart \in Nat /\ EventEnd \in Nat /\ EventStart + 1 < EventEnd
  /\ MessageMap \in [ModuleClass -> SUBSET Message]

VARIABLES
  s_pFirst,       \* the list of classes
  m_modules,      \* the table of the manager, NoModule when there is none
  m_moduleEvent,  \* who has registered each event
  asked,          \* the last call
  heard           \* the modules it called, at their places in the vector

dataVars == <<s_pFirst, m_modules, m_moduleEvent, asked, heard>>

NoCall == [kind |-> "none", id |-> 0, msg |-> 0]

DataInit ==
  /\ s_pFirst = <<>>
  /\ m_modules = NoModule
  /\ m_moduleEvent = [e \in Slot |-> <<>>]
  /\ asked = NoCall /\ heard = <<>>

InList(c) == \E i \in DOMAIN s_pFirst : s_pFirst[i] = c

(* initRunTimeClassEx, when the statics are constructed. *)
initRunTimeClass(c) ==
  /\ ~InList(c)
  /\ s_pFirst' = <<c>> \o s_pFirst
  /\ UNCHANGED <<m_modules, m_moduleEvent, asked, heard>>

-----------------------------------------------------------------------------
(* The classes for an entry of the table; an identifier beyond it has none. *)
Fitting(index) ==
  {k \in DOMAIN s_pFirst :
     LET id == ClassID[s_pFirst[k]] IN id < ModuleNum /\ id % ModuleNum = index}

(* The first class of the list gets the entry, and those that find it      *)
(* taken get none.                                                         *)
Table ==
  [index \in Module |->
     IF Fitting(index) = {} THEN NoModule
     ELSE s_pFirst[CHOOSE k \in Fitting(index) : \A n \in Fitting(index) : k <= n]]

(* operator< of SModuleEvent. *)
Earlier(c, d) ==
  IF Priority[c] = Priority[d] THEN ClassID[c] < ClassID[d]
                               ELSE Priority[c] < Priority[d]

Registered(table, slot) ==
  {c \in ModuleClass : /\ \E i \in Module : table[i] = c
                       /\ \E e \in Events : e % EventNum = slot /\ e \in MessageMap[c]}

(* The vectors of the elements of S that std::sort may leave. *)
Sorted(S) ==
  {v \in [1..Cardinality(S) -> S] :
     /\ {v[i] : i \in DOMAIN v} = S
     /\ \A i, j \in DOMAIN v : i < j => v[i] # v[j] /\ ~Earlier(v[j], v[i])}

(* Mistake: the vectors of the events are not sorted. *)
Construct_Unsorted ==
  /\ m_modules = NoModule /\ \A c \in ModuleClass : InList(c)
  /\ m_modules' = Table
  /\ m_moduleEvent' =
       [e \in Slot |-> SelectSeq(s_pFirst, LAMBDA c : c \in Registered(Table, e))]
  /\ UNCHANGED <<s_pFirst, asked, heard>>

(* The constructor of a manager. *)
Construct ==
  /\ m_modules = NoModule /\ \A c \in ModuleClass : InList(c)
  /\ m_modules' = Table
  /\ m_moduleEvent' \in [Slot -> UNION {Sorted(Registered(Table, e)) : e \in Slot}]
  /\ \A e \in Slot : m_moduleEvent'[e] \in Sorted(Registered(Table, e))
  /\ UNCHANGED <<s_pFirst, asked, heard>>

DestroyManager ==
  /\ m_modules # NoModule
  /\ m_modules' = NoModule
  /\ m_moduleEvent' = [e \in Slot |-> <<>>]
  /\ asked' = NoCall /\ heard' = <<>>
  /\ UNCHANGED s_pFirst

-----------------------------------------------------------------------------
GetModuleByID(id) == m_modules[id % ModuleNum]

(* SendMsg of the module: it has a function for the message or has not. *)
Hears(c, msg) == c # NoModule /\ msg \in MessageMap[c]

dispatchMessage(id, msg) ==
  /\ m_modules # NoModule
  /\ asked' = [kind |-> "message", id |-> id, msg |-> msg]
  /\ heard' = [i \in {j \in {1} : Hears(GetModuleByID(id), msg)} |-> GetModuleByID(id)]
  /\ UNCHANGED <<s_pFirst, m_modules, m_moduleEvent>>

(* Each module is found again by the identifier it has registered with. *)
allModuleExcEvent(msg) ==
  LET registered == m_moduleEvent[msg % EventNum]
      module(i) == GetModuleByID(ClassID[registered[i]])
      hearing == {i \in DOMAIN registered : msg \in Events /\ Hears(module(i), msg)}
  IN  /\ m_modules # NoModule
      /\ asked' = [kind |-> "event", id |-> 0, msg |-> msg]
      /\ heard' = [i \in hearing |-> module(i)]
      /\ UNCHANGED <<s_pFirst, m_modules, m_moduleEvent>>

DataNext ==
  \/ \E c \in ModuleClass : initRunTimeClass(c)
  \/ Construct \/ DestroyManager
  \/ \E msg \in Message :
       \/ allModuleExcEvent(msg)
       \/ \E c \in ModuleClass : dispatchMessage(ClassID[c], msg)

DataSpec == DataInit /\ [][DataNext]_dataVars

-----------------------------------------------------------------------------
(***************************************************************************)
(* What must hold.                                                         *)
(***************************************************************************)
(* The type invariant. *)
DataTypeOK ==
  /\ s_pFirst \in Seq(ModuleClass)
  /\ m_modules \in [Module -> ModuleClass \cup {NoModule}] \cup {NoModule}
  /\ m_moduleEvent \in [Slot -> Seq(ModuleClass)]
  /\ asked \in [kind : {"none", "message", "event"}, id : Nat, msg : Message]
  /\ DOMAIN heard \subseteq Nat /\ \A i \in DOMAIN heard : heard[i] \in ModuleClass

(* In whatever order the classes were linked, a manager has a module for   *)
(* each identifier of the table that a class declares, and an event is     *)
(* handled once by each module that has a function for it and by no other, *)
(* those of lower priority number first, then those of lower identifier    *)
(* (as the comment of allModuleExcEvent says).  A message for an           *)
(* identifier is handled by the module that has it, or by none; only one   *)
(* beyond the table goes to the module it is congruent to.                 *)
EventsReachModules ==
  m_modules # NoModule =>
    LET module == {m_modules[i] : i \in Module} \ {NoModule} IN
    /\ \A c \in ModuleClass :
         ClassID[c] < ModuleNum => \E d \in module : ClassID[d] = ClassID[c]
    /\ \A i \in Module : m_modules[i] # NoModule => ClassID[m_modules[i]] = i
    /\ asked.kind = "event" /\ asked.msg \in Events =>
         /\ {heard[i] : i \in DOMAIN heard} = {c \in module : asked.msg \in MessageMap[c]}
         /\ \A i, j \in DOMAIN heard :
              i < j => \/ Priority[heard[i]] < Priority[heard[j]]
                       \/ /\ Priority[heard[i]] = Priority[heard[j]]
                          /\ ClassID[heard[i]] < ClassID[heard[j]]
    /\ asked.kind = "message" /\ heard # <<>> =>
         asked.id = ClassID[heard[1]] \/ asked.id >= ModuleNum
=============================================================================
