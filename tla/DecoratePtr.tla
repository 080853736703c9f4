------------------------------ MODULE DecoratePtr ------------------------------
(***************************************************************************)
(* decorate_ptr (src/include/utility/decorate_ptr.h): a pointer that runs  *)
(* code around each call of its object.  Copies share a count and a store, *)
(* and the pointer that brings the count to zero deletes the object,       *)
(* though the comment of the class has the user delete it.  The count is   *)
(* not atomic: the pointers belong to one thread, and a call is a step.    *)
(***************************************************************************)
EXTENDS Naturals, FiniteSets

CONSTANTS
  Var,      \* the variables of type decorate_ptr
  Object,   \* what they point to
  Counter,  \* the memory of a count with its store
  Null      \* no object, no count

ASSUME DecorateAssumption ==
  IsFiniteSet(Var) /\ Null \notin Object \cup Counter

VARIABLES
  dp,       \* each variable: pInstance and its count
  count,    \* the counts
  pointee,  \* of each object: "unused", "live" or "deleted"
  wrapped,  \* how often each object was given to a decorate_ptr as a T*
  byHand,   \* objects that the user has deleted
  twice     \* objects that were deleted when they were deleted already

decorateVars == <<dp, count, pointee, wrapped, byHand, twice>>

Gone == [here |-> FALSE, pInstance |-> Null, m_count |-> Null]

DecorateInit ==
  /\ dp = [v \in Var |-> Gone]
  /\ count = [n \in Counter |-> 0]
  /\ pointee = [o \in Object |-> "unused"]
  /\ wrapped = [o \in Object |-> 0]
  /\ byHand = {} /\ twice = {}

Here(o, n) == [here |-> TRUE, pInstance |-> o, m_count |-> n]

(* add_count: a new count, in memory that no pointer refers to, or one more. *)
Unused == CHOOSE n \in Counter : count[n] = 0
Fresh == \E n \in Counter : count[n] = 0
Added(n) == IF n = Null THEN Unused ELSE n

(* The counts after add_count for n and sub_count for m, if they differ. *)
Recount(n, m) ==
  count' = [k \in Counter |-> count[k] + (IF k = Added(n) THEN 1 ELSE 0)
                                       - (IF k = m THEN 1 ELSE 0)]

(* Mistake: a pointer that goes deletes the object, though others share it. *)
SubCount_Any(v) ==
  LET o == dp[v].pInstance
      counted == dp[v].m_count # Null /\ o # Null
  IN  /\ pointee' = IF counted THEN [pointee EXCEPT ![o] = "deleted"] ELSE pointee
      /\ twice' = IF counted /\ pointee[o] = "deleted" THEN twice \cup {o} ELSE twice

(* sub_count: the last pointer deletes the object. *)
SubCount(v) ==
  LET o == dp[v].pInstance
      last == dp[v].m_count # Null /\ count[dp[v].m_count] = 1 /\ o # Null
  IN  /\ pointee' = IF last THEN [pointee EXCEPT ![o] = "deleted"] ELSE pointee
      /\ twice' = IF last /\ pointee[o] = "deleted" THEN twice \cup {o} ELSE twice

-----------------------------------------------------------------------------
Default(v) ==
  /\ ~dp[v].here
  /\ dp' = [dp EXCEPT ![v] = Here(Null, Null)]
  /\ UNCHANGED <<count, pointee, wrapped, byHand, twice>>

(* From a T*: a new object, or one that other pointers have. *)
Wrap(v, o) ==
  /\ ~dp[v].here /\ pointee[o] # "deleted" /\ Fresh
  /\ dp' = [dp EXCEPT ![v] = Here(o, Unused)]
  /\ Recount(Null, Null)
  /\ pointee' = [pointee EXCEPT ![o] = "live"]
  /\ wrapped' = [wrapped EXCEPT ![o] = @ + 1]
  /\ UNCHANGED <<byHand, twice>>

(* The copy of a pointer without a count gets one of its own. *)
CopyPointer(v, w) ==
  LET n == dp[w].m_count IN
  /\ ~dp[v].here /\ dp[w].here /\ (n = Null => Fresh)
  /\ dp' = [dp EXCEPT ![v] = Here(dp[w].pInstance, Added(n))]
  /\ Recount(n, Null)
  /\ UNCHANGED <<pointee, wrapped, byHand, twice>>

(* A copy, swapped with the left side and then destroyed. *)
AssignPointer(v, w) ==
  LET n == dp[w].m_count IN
  /\ v # w /\ dp[v].here /\ dp[w].here /\ (n = Null => Fresh)
  /\ dp' = [dp EXCEPT ![v] = Here(dp[w].pInstance, Added(n))]
  /\ Recount(n, dp[v].m_count)
  /\ IF n = dp[v].m_count THEN UNCHANGED <<pointee, twice>> ELSE SubCount(v)
  /\ UNCHANGED <<wrapped, byHand>>

(* From a T*, which may be NULL; nothing happens if v has it already.  The *)
(* object that v had is deleted before the new one is counted.             *)
AssignRaw(v, o) ==
  /\ dp[v].here /\ dp[v].pInstance # o
  /\ (o # Null => pointee[o] # "deleted" /\ Fresh)
  /\ dp' = [dp EXCEPT ![v] = Here(o, IF o = Null THEN Null ELSE Unused)]
  /\ count' = [k \in Counter |->
                count[k] + (IF o # Null /\ k = Unused THEN 1 ELSE 0)
                         - (IF k = dp[v].m_count THEN 1 ELSE 0)]
  /\ LET last == dp[v].m_count # Null /\ count[dp[v].m_count] = 1
         old == IF last THEN dp[v].pInstance ELSE Null
     IN  /\ pointee' = [p \in Object |-> CASE p = old -> "deleted"
                                          [] p = o /\ p # old -> "live"
                                          [] OTHER -> pointee[p]]
         /\ twice' = IF old # Null /\ pointee[old] = "deleted"
                       THEN twice \cup {old} ELSE twice
  /\ wrapped' = [p \in Object |-> wrapped[p] + (IF p = o THEN 1 ELSE 0)]
  /\ UNCHANGED byHand

DestroyPointer(v) ==
  /\ dp[v].here
  /\ dp' = [dp EXCEPT ![v] = Gone]
  /\ count' = [k \in Counter |-> count[k] - (IF k = dp[v].m_count THEN 1 ELSE 0)]
  /\ SubCount(v)
  /\ UNCHANGED <<wrapped, byHand>>

(* The user deletes an object, as the comment of the class says. *)
DeleteByHand(o) ==
  /\ pointee[o] = "live"
  /\ pointee' = [pointee EXCEPT ![o] = "deleted"]
  /\ byHand' = byHand \cup {o}
  /\ UNCHANGED <<dp, count, wrapped, twice>>

DecorateNext ==
  \/ \E v \in Var :
       \/ Default(v) \/ DestroyPointer(v) \/ AssignRaw(v, Null)
       \/ \E o \in Object : Wrap(v, o) \/ AssignRaw(v, o)
       \/ \E w \in Var : CopyPointer(v, w) \/ AssignPointer(v, w)
  \/ \E o \in Object : DeleteByHand(o)

DecorateSpec == DecorateInit /\ [][DecorateNext]_decorateVars

-----------------------------------------------------------------------------
(***************************************************************************)
(* What must hold.                                                         *)
(***************************************************************************)
(* The type invariant. *)
DecorateTypeOK ==
  /\ dp \in [Var -> [here : BOOLEAN, pInstance : Object \cup {Null},
                     m_count : Counter \cup {Null}]]
  /\ count \in [Counter -> Nat]
  /\ pointee \in [Object -> {"unused", "live", "deleted"}]
  /\ wrapped \in [Object -> Nat]
  /\ byHand \subseteq Object /\ twice \subseteq Object

(* A count is the number of pointers that share it, whatever is copied,    *)
(* swapped and assigned.  So an object that was given to one decorate_ptr  *)
(* as a T*, and that the user leaves alone, is never deleted under a       *)
(* decorate_ptr that has it, nor twice.  Two counts of one object (line    *)
(* 334) or a delete by the user (line 130) do delete it again.             *)
DecoratedUsable ==
  /\ \A n \in Counter : count[n] = Cardinality({v \in Var : dp[v].m_count = n})
  /\ \A o \in Object :
       wrapped[o] = 1 /\ o \notin byHand =>
         /\ (\E v \in Var : dp[v].pInstance = o) => pointee[o] = "live"
         /\ o \notin twice

(* What the comment of the class says (line 130): the pointer is weak, the *)
(* class does not release it, and the user deletes the object by hand.     *)
(* It does not hold: the count that ends deletes the object (line 338).    *)
NeverReleases == \A o \in Object : pointee[o] = "deleted" => o \in byHand
=============================================================================
