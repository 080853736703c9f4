------------------------------- MODULE Singleton -------------------------------
(***************************************************************************)
(* Singleton and its LifetimeTrackers (src/include/utility/single.h,       *)
(* src/single.cpp): instances that threads create on first use, under a    *)
(* lock for each type, and that handlers of atexit destroy.  A constructor *)
(* and a destructor may call other singletons, so a thread has a stack of  *)
(* calls.                                                                  *)
(*                                                                         *)
(* Two things are undefined and end the behaviour, with a name in fault:   *)
(* "race", two threads in SetLongevity at once, since the list has no      *)
(* lock; and "raw", the use of an instance whose pointer could be read     *)
(* before the writes of its constructor.                                   *)
(***************************************************************************)
EXTENDS Naturals, Sequences, FiniteSets

CONSTANTS
  Thread,     \* the threads; main runs the handlers at the end
  Type,       \* the classes
  Longevity,  \* their longevity, 999 at most
  Uses        \* the singletons that constructor and destructor of each call

ASSUME LifeAssumption ==
  Longevity \in [Type -> 0..999] /\ Uses \in [Type -> SUBSET Type]

VARIABLES
  pInstance, \* the pointer of each type is set
  built,     \* the types whose instance is built
  live,      \* live_ of each type
  locked,    \* the types whose lock is held
  list,      \* pTrackerArray: <<>> stands for NULL
  handlers,  \* calls of atexit that were not answered yet
  stack,     \* the calls of each thread
  exiting,   \* main has returned
  fault      \* "none", "race", "raw", or "dead": SingletonException

lifeVars == <<pInstance, built, live, locked, list, handlers, stack, exiting, fault>>

LifeInit ==
  /\ pInstance = [c \in Type |-> FALSE]
  /\ built = {} /\ live = {} /\ locked = {}
  /\ list = <<>> /\ handlers = 0
  /\ stack = [t \in Thread |-> <<>>]
  /\ exiting = FALSE
  /\ fault = "none"

Top(t) == Head(stack[t])
At(t, place) == stack[t] # <<>> /\ Top(t).at = place
Goto(t, place) == stack' = [stack EXCEPT ![t][1].at = place]
Return(t) == stack' = [stack EXCEPT ![t] = Tail(@)]

-----------------------------------------------------------------------------
(***************************************************************************)
(* Instance().                                                             *)
(***************************************************************************)
(* The first test, without the lock.  A call from a constructor or a       *)
(* destructor is struck off its list.                                      *)
Call(t, c) ==
  LET frame == [type |-> c, at |-> "lock", left |-> Uses[c]]
      below == IF stack[t] = <<>> THEN <<>>
                 ELSE [stack[t] EXCEPT ![1].left = @ \ {c}]
  IN  /\ \/ stack[t] = <<>> /\ ~exiting
         \/ At(t, "create") /\ c \in Top(t).left
         \/ At(t, "destroy") /\ c \in Top(t).left
      /\ stack' = [stack EXCEPT ![t] =
                    IF pInstance[c] THEN below ELSE <<frame>> \o below]
      /\ fault' = IF pInstance[c] /\ c \notin built THEN "raw" ELSE fault
      /\ UNCHANGED <<pInstance, built, live, locked, list, handlers, exiting>>

(* Mistake: the second test is not made under a lock. *)
Check_Unlocked(t) ==
  LET c == Top(t).type IN
  /\ At(t, "lock")
  /\ IF pInstance[c] THEN Return(t) ELSE Goto(t, "create")
  /\ UNCHANGED <<pInstance, built, live, locked, list, handlers, exiting, fault>>

(* The lock, the second test, and the test of live_. *)
Check(t) ==
  LET c == Top(t).type IN
  /\ At(t, "lock") /\ c \notin locked
  /\ \/ pInstance[c] /\ Return(t) /\ UNCHANGED <<locked, fault>>
     \/ ~pInstance[c] /\ c \in live /\ fault' = "dead" /\ UNCHANGED <<stack, locked>>
     \/ /\ ~pInstance[c] /\ c \notin live
        /\ Goto(t, "create") /\ locked' = locked \cup {c} /\ UNCHANGED fault
  /\ UNCHANGED <<pInstance, built, live, list, handlers, exiting>>

(* Create, and the write of the pointer, which other threads may see       *)
(* before what the constructor wrote.                                      *)
Create(t) ==
  LET c == Top(t).type IN
  /\ At(t, "create") /\ Top(t).left = {}
  /\ pInstance' = [pInstance EXCEPT ![c] = TRUE]
  /\ \/ built' = built \cup {c} /\ Goto(t, "track")
     \/ built' = built /\ Goto(t, "built")
  /\ UNCHANGED <<live, locked, list, handlers, exiting, fault>>

Built(t) ==
  /\ At(t, "built")
  /\ built' = built \cup {Top(t).type} /\ Goto(t, "track")
  /\ UNCHANGED <<pInstance, live, locked, list, handlers, exiting, fault>>

(* SetLongevity takes time and no lock that other types share. *)
Track(t) ==
  /\ At(t, "track")
  /\ Goto(t, "insert")
  /\ fault' = IF \E u \in Thread : At(u, "insert") THEN "race" ELSE fault
  /\ UNCHANGED <<pInstance, built, live, locked, list, handlers, exiting>>

(* The list with c behind its first k types. *)
With(c, k) == SubSeq(list, 1, k) \o <<c>> \o SubSeq(list, k + 1, Len(list))

(* upper_bound in a list of descending longevity, and atexit. *)
Insert(t) ==
  LET c == Top(t).type
      before(d) == Longevity[d] >= Longevity[c]
  IN  /\ At(t, "insert")
      /\ \E k \in 0..Len(list) :
           /\ \A i \in DOMAIN list : before(list[i]) <=> i <= k
           /\ list' = With(c, k)
      /\ handlers' = handlers + 1
      /\ Goto(t, "live")
      /\ UNCHANGED <<pInstance, built, live, locked, exiting, fault>>

Live(t) ==
  LET c == Top(t).type IN
  /\ At(t, "live")
  /\ live' = live \cup {c} /\ locked' = locked \ {c}
  /\ Return(t)
  /\ UNCHANGED <<pInstance, built, list, handlers, exiting, fault>>

-----------------------------------------------------------------------------
(***************************************************************************)
(* The end of the program: main returns after the threads have ended, and  *)
(* a handler destroys what is last in the list.                            *)
(***************************************************************************)
Exit ==
  /\ ~exiting /\ \A t \in Thread : stack[t] = <<>>
  /\ exiting' = TRUE
  /\ UNCHANGED <<pInstance, built, live, locked, list, handlers, stack, fault>>

atExitFn(t) ==
  LET c == list[Len(list)] IN
  /\ exiting /\ \A u \in Thread : stack[u] = <<>>
  /\ handlers > 0 /\ list # <<>>
  /\ handlers' = handlers - 1
  /\ list' = SubSeq(list, 1, Len(list) - 1)
  /\ stack' = [stack EXCEPT ![t] = <<[type |-> c, at |-> "destroy", left |-> Uses[c]]>>]
  /\ UNCHANGED <<pInstance, built, live, locked, exiting, fault>>

DestroySingleton(t) ==
  LET c == Top(t).type IN
  /\ At(t, "destroy") /\ Top(t).left = {}
  /\ pInstance' = [pInstance EXCEPT ![c] = FALSE]
  /\ built' = built \ {c}
  /\ Return(t)
  /\ UNCHANGED <<live, locked, list, handlers, exiting, fault>>

-----------------------------------------------------------------------------
LifeNext ==
  /\ fault = "none"
  /\ \/ \E t \in Thread : \/ Check(t) \/ Create(t) \/ Built(t) \/ Track(t)
                          \/ Insert(t) \/ Live(t)
                          \/ atExitFn(t) \/ DestroySingleton(t)
                          \/ \E c \in Type : Call(t, c)
     \/ Exit

LifeSpec == LifeInit /\ [][LifeNext]_lifeVars

-----------------------------------------------------------------------------
(***************************************************************************)
(* What must hold.                                                         *)
(***************************************************************************)
Frame ==
  [type : Type, left : SUBSET Type,
   at : {"lock", "create", "built", "track", "insert", "live", "destroy"}]

(* The type invariant. *)
LifeTypeOK ==
  /\ pInstance \in [Type -> BOOLEAN]
  /\ built \subseteq Type /\ live \subseteq Type /\ locked \subseteq Type
  /\ list \in Seq(Type) /\ handlers \in Nat
  /\ stack \in [Thread -> Seq(Frame)]
  /\ exiting \in BOOLEAN
  /\ fault \in {"none", "race", "raw", "dead"}

(* What single.h promises of longevity: a destructor never meets a         *)
(* singleton of higher longevity that is gone, only one of its own that    *)
(* another thread registered after it had created it; each handler finds   *)
(* an instance in the list; and after the last one no instance is left.    *)
LongevityKept ==
  /\ \A t \in Thread :
       fault = "dead" /\ Len(stack[t]) = 2 =>
         Longevity[stack[t][1].type] <= Longevity[stack[t][2].type]
  /\ fault = "none" => handlers = Len(list)
  /\ \A i, j \in DOMAIN list : i # j => list[i] # list[j]
  /\ exiting /\ handlers = 0 /\ (\A t \in Thread : stack[t] = <<>>) =>
       \A c \in Type : ~pInstance[c]

(* What the head of single.h says, that threads are supported (line 10):   *)
(* one thread at a time changes the list of lifetimes.  It does not hold:  *)
(* the lock is of the type, the list is of all types and has none.         *)
OneRegisters == fault # "race"
=============================================================================
