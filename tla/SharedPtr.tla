------------------------------- MODULE SharedPtr -------------------------------
(***************************************************************************)
(* shared_ptr, weak_ptr and sp_count (src/include/utility).  Each method   *)
(* of sp_count locks its mutex, but what a pointer does takes several:     *)
(* the destructor asks unique(), deletes the object, and gives up its      *)
(* reference.  Every pointer is at work in a thread of its own.            *)
(*                                                                         *)
(* A block is the memory of one sp_count, with the object it counts, and   *)
(* is not used twice.  The object may derive from enable_shared_from_this, *)
(* and then has a weak pointer to its own block.                           *)
(***************************************************************************)
EXTENDS Naturals, FiniteSets

CONSTANTS
  Ptr,      \* the variables of type shared_ptr and weak_ptr
  SpCount,    \* the sp_counts
  None      \* no block, no pointer

ASSUME PointerAssumption ==
  IsFiniteSet(Ptr) /\ None \notin Ptr \cup SpCount

VARIABLES
  ptr,      \* each pointer: what it does, its block, what it is assigned from
  uses,     \* use_count of each block
  weaks,    \* weak_count of each block
  block,    \* "unused", "live" or "freed"
  object,   \* "null", "plain", "self" (it has a weak pointer) or "deleted"
  promoted, \* blocks that were locked when no shared_ptr was settled on them
  raced     \* blocks that two shared_ptrs let go of at once

countVars == <<uses, weaks, block>>
vars == <<ptr, countVars, object, promoted, raced>>

Nothing == [at |-> "none", of |-> None, from |-> None]

Init ==
  /\ ptr = [p \in Ptr |-> Nothing]
  /\ uses = [b \in SpCount |-> 0]
  /\ weaks = [b \in SpCount |-> 0]
  /\ block = [b \in SpCount |-> "unused"]
  /\ object = [b \in SpCount |-> "null"]
  /\ promoted = {} /\ raced = {}

(* A pointer that nobody changes, so that it can be read. *)
Shared(p) == ptr[p].at = "shared"
Weak(p) == ptr[p].at = "weak"

(* Callers do not change a pointer while another is assigned from it. *)
Free(p) == \A q \in Ptr : ptr[q].from # p

Points(p, kind, b) == ptr' = [ptr EXCEPT ![p] = [at |-> kind, of |-> b, from |-> None]]

-----------------------------------------------------------------------------
(***************************************************************************)
(* Construction.  A new object may be a plain one or know its own block,   *)
(* and a default shared_ptr counts a NULL pointer.                         *)
(***************************************************************************)
NewShared(p, b, what) ==
  /\ ptr[p] = Nothing /\ block[b] = "unused"
  /\ Points(p, "shared", b)
  /\ block' = [block EXCEPT ![b] = "live"]
  /\ object' = [object EXCEPT ![b] = what]
  /\ uses' = [uses EXCEPT ![b] = 1]
  /\ weaks' = [weaks EXCEPT ![b] = IF what = "self" THEN 1 ELSE 0]
  /\ UNCHANGED <<promoted, raced>>

NewWeak(p, b) ==
  /\ ptr[p] = Nothing /\ block[b] = "unused"
  /\ Points(p, "weak", b)
  /\ block' = [block EXCEPT ![b] = "live"]
  /\ weaks' = [weaks EXCEPT ![b] = 1]
  /\ UNCHANGED <<uses, object, promoted, raced>>

(* Copies, and shared_from_this() of an object that q owns. *)
CopyShared(p, q) ==
  LET b == ptr[q].of IN
  /\ ptr[p] = Nothing /\ Shared(q)
  /\ Points(p, "shared", b)
  /\ uses' = [uses EXCEPT ![b] = @ + 1]
  /\ UNCHANGED <<weaks, block, object, promoted, raced>>

CopyWeak(p, q) ==
  LET b == ptr[q].of IN
  /\ ptr[p] = Nothing /\ (Shared(q) \/ Weak(q))
  /\ Points(p, "weak", b)
  /\ weaks' = [weaks EXCEPT ![b] = @ + 1]
  /\ UNCHANGED <<uses, block, object, promoted, raced>>

(* Mistake: the reference of the new shared_ptr is not counted. *)
Lock_Uncounted(p, q) ==
  LET b == ptr[q].of IN
  /\ ptr[p] = Nothing /\ Weak(q)
  /\ Points(p, "shared", b)
  /\ promoted' = IF \E r \in Ptr : Shared(r) /\ ptr[r].of = b
                   THEN promoted ELSE promoted \cup {b}
  /\ UNCHANGED <<uses, weaks, block, object, raced>>

(* lock() takes a reference whether or not the object was deleted. *)
Lock(p, q) ==
  LET b == ptr[q].of IN
  /\ ptr[p] = Nothing /\ Weak(q)
  /\ Points(p, "shared", b)
  /\ uses' = [uses EXCEPT ![b] = @ + 1]
  /\ promoted' = IF \E r \in Ptr : Shared(r) /\ ptr[r].of = b
                   THEN promoted ELSE promoted \cup {b}
  /\ UNCHANGED <<weaks, block, object, raced>>

-----------------------------------------------------------------------------
(***************************************************************************)
(* Destruction, and the first half of an assignment from q.                *)
(***************************************************************************)
(* Mistake: the object is taken for shared, whatever the count. *)
LetGo_NotUnique(p, q) ==
  LET b == ptr[p].of IN
  /\ ptr' = [ptr EXCEPT ![p].at = "sub", ![p].from = q]
  /\ raced' = IF \E r \in Ptr : ptr[r].at = "sub" /\ ptr[r].of = b
                THEN raced \cup {b} ELSE raced
  /\ UNCHANGED <<countVars, object, promoted>>

(* unique(), which two pointers may both deny before either lets go. *)
LetGo(p, q) ==
  LET b == ptr[p].of IN
  /\ ptr' = [ptr EXCEPT ![p] = [at |-> IF uses[b] = 1 THEN "delete" ELSE "sub",
                                of |-> b, from |-> q]]
  /\ raced' = IF \E r \in Ptr : ptr[r].at = "sub" /\ ptr[r].of = b
                THEN raced \cup {b} ELSE raced
  /\ UNCHANGED <<countVars, object, promoted>>

Destroy(p) == Shared(p) /\ Free(p) /\ LetGo(p, None)

(* Nothing happens when a pointer is assigned to itself. *)
Assign(p, q) == p # q /\ Shared(p) /\ Free(p) /\ Shared(q) /\ LetGo(p, q)

(* The destructor of the object drops its own weak pointer.  A second      *)
(* deletion is undefined, and nothing is said of what follows.             *)
Delete(p) ==
  LET b == ptr[p].of IN
  /\ ptr[p].at = "delete" /\ object[b] # "deleted"
  /\ object' = [object EXCEPT ![b] = IF @ = "null" THEN @ ELSE "deleted"]
  /\ weaks' = [weaks EXCEPT ![b] = IF object[b] = "self" THEN @ - 1 ELSE @]
  /\ ptr' = [ptr EXCEPT ![p].at = "sub"]
  /\ UNCHANGED <<uses, block, promoted, raced>>

(* Where a pointer goes that has given up its reference: the last one of   *)
(* either kind frees the block, after the mutex was released.              *)
GivenUp(p, b, last) ==
  ptr' = [ptr EXCEPT ![p] =
            CASE last -> [at |-> "free", of |-> b, from |-> @.from]
              [] ~last /\ @.from = None -> Nothing
              [] OTHER -> [at |-> "add", of |-> None, from |-> @.from]]

(* Mistake: the weak pointers are not asked for. *)
Sub_WeakIgnored(p) ==
  LET b == ptr[p].of IN
  /\ ptr[p].at = "sub"
  /\ uses' = [uses EXCEPT ![b] = @ - 1]
  /\ GivenUp(p, b, uses[b] = 1)
  /\ UNCHANGED <<weaks, block, object, promoted, raced>>

Sub(p) ==
  LET b == ptr[p].of IN
  /\ ptr[p].at = "sub"
  /\ uses' = [uses EXCEPT ![b] = @ - 1]
  /\ GivenUp(p, b, uses[b] = 1 /\ weaks[b] = 0)
  /\ UNCHANGED <<weaks, block, object, promoted, raced>>

DestroyWeak(p) ==
  LET b == ptr[p].of IN
  /\ Weak(p) /\ Free(p)
  /\ weaks' = [weaks EXCEPT ![b] = @ - 1]
  /\ GivenUp(p, b, weaks[b] = 1 /\ uses[b] = 0)
  /\ UNCHANGED <<uses, block, object, promoted, raced>>

FreeBlock(p) ==
  /\ ptr[p].at = "free"
  /\ block' = [block EXCEPT ![ptr[p].of] = "freed"]
  /\ GivenUp(p, ptr[p].of, FALSE)
  /\ UNCHANGED <<uses, weaks, object, promoted, raced>>

(* The second half of an assignment. *)
AssignAdd(p) ==
  LET b == ptr[ptr[p].from].of IN
  /\ ptr[p].at = "add"
  /\ Points(p, "shared", b)
  /\ uses' = [uses EXCEPT ![b] = @ + 1]
  /\ UNCHANGED <<weaks, block, object, promoted, raced>>

-----------------------------------------------------------------------------
New(p) ==
  \E b \in SpCount :
    NewWeak(p, b) \/ \E what \in {"null", "plain", "self"} : NewShared(p, b, what)

Copy(p, q) == CopyShared(p, q) \/ CopyWeak(p, q) \/ Lock(p, q)

End(p) ==
  \/ Destroy(p) \/ Delete(p) \/ Sub(p) \/ DestroyWeak(p) \/ FreeBlock(p)
  \/ AssignAdd(p)

Next ==
  \E p \in Ptr : \/ New(p) \/ End(p)
                 \/ \E q \in Ptr : Copy(p, q) \/ Assign(p, q)

Spec == Init /\ [][Next]_vars

-----------------------------------------------------------------------------
(***************************************************************************)
(* What must hold.                                                         *)
(***************************************************************************)
(* The type invariant. *)
TypeOK ==
  /\ ptr \in [Ptr -> [at : {"none", "shared", "weak", "delete", "sub", "free", "add"},
                      of : SpCount \cup {None}, from : Ptr \cup {None}]]
  /\ uses \in [SpCount -> Nat]
  /\ weaks \in [SpCount -> Nat]
  /\ block \in [SpCount -> {"unused", "live", "freed"}]
  /\ object \in [SpCount -> {"null", "plain", "self", "deleted"}]
  /\ promoted \subseteq SpCount /\ raced \subseteq SpCount

(* The pointers that have a reference of b, settled or on their way out. *)
Owners(b) == {p \in Ptr : ptr[p].of = b /\ ptr[p].at \in {"shared", "delete", "sub"}}
Watchers(b) == {p \in Ptr : ptr[p].of = b /\ ptr[p].at = "weak"}

(* The counts are the pointers there are, whatever interleaves, and the    *)
(* last pointer of either kind frees the block, and it alone: a block is   *)
(* in memory as long as a pointer needs it and no longer.                  *)
CountsExact ==
  \A b \in SpCount :
    /\ uses[b] = Cardinality(Owners(b))
    /\ weaks[b] = Cardinality(Watchers(b)) + (IF object[b] = "self" THEN 1 ELSE 0)
    /\ block[b] = "live" <=>
         \/ uses[b] + weaks[b] > 0
         \/ \E p \in Ptr : ptr[p].at = "free" /\ ptr[p].of = b
    /\ \A p, q \in Ptr :
         ptr[p].at = "free" /\ ptr[q].at = "free" /\ ptr[p].of = b /\ ptr[q].of = b
           => p = q /\ uses[b] + weaks[b] = 0

(* An object is deleted with its last owner: no shared_ptr is left with    *)
(* one that was deleted, or about to delete it again, and none outlives    *)
(* its owners.  The exceptions are what the separate steps cost: lock() of *)
(* a weak_ptr while the last owner goes or after it (line 72 of            *)
(* shared_ptr.h tests nothing), and two owners that go at once (line 77).  *)
DeletedWithLastOwner ==
  \A b \in SpCount :
    /\ object[b] = "deleted" /\ b \notin promoted =>
         \A p \in Owners(b) : ptr[p].at = "sub"
    /\ object[b] \in {"plain", "self"} /\ Owners(b) = {} =>
         block[b] = "unused" \/ b \in raced
=============================================================================
