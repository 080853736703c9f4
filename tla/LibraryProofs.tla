----------------------------- MODULE LibraryProofs -----------------------------
(***************************************************************************)
(* Theorems on the parts of the library that own something: DecoratePtr,   *)
(* Singleton, TcpClient, DataManager, SharedPtr and SmallObj, for any      *)
(* number of variables, objects and counts, of threads and types, of       *)
(* clients, descriptors and URLs, of classes and events, of pointers and   *)
(* blocks, for any memory.                                                 *)
(***************************************************************************)
EXTENDS SharedPtr, SmallObj, DecoratePtr, Singleton, TcpClient, DataManager,
        FiniteSetTheorems, SequenceTheorems, WellFoundedInduction, TLAPS

(***************************************************************************)
(* DecoratePtr.  Every step but the user's delete gives one variable a new *)
(* value, and moves the counts as the value moves: Recounted and Changed   *)
(* say what that does.  That an object which was wrapped once lives as     *)
(* long as its pointers needs that they share one count (Known), and that  *)
(* who shares a count has the same object (Alike).                         *)
(***************************************************************************)
Sharers(n) == {v \in Var : dp[v].m_count = n}

Counted == \A n \in Counter : count[n] = Cardinality(Sharers(n))

(* What is not there has nothing, and who has an object has a count.       *)
VarsPlaced ==
  \A v \in Var :
    /\ ~dp[v].here => dp[v].m_count = Null
    /\ dp[v].pInstance # Null => dp[v].m_count # Null

Alike ==
  \A v, w \in Var :
    dp[v].m_count # Null /\ dp[v].m_count = dp[w].m_count
      => dp[v].pInstance = dp[w].pInstance

(* An object that was never wrapped is nobody's, and the pointers to one   *)
(* that was wrapped once go back to one count.                             *)
Known(o) ==
  /\ wrapped[o] = 0 =>
       /\ pointee[o] = "unused" /\ o \notin byHand \cup twice
       /\ \A v \in Var : dp[v].pInstance # o
  /\ wrapped[o] = 1 =>
       \A v, w \in Var :
         dp[v].pInstance = o /\ dp[w].pInstance = o => dp[v].m_count = dp[w].m_count

Lives(o) ==
  wrapped[o] = 1 /\ o \notin byHand =>
    /\ pointee[o] = "live" <=> \E v \in Var : dp[v].pInstance = o
    /\ o \notin twice

DecorateInv ==
  /\ DecorateTypeOK
  /\ Counted /\ VarsPlaced /\ Alike
  /\ \A o \in Object : Known(o) /\ Lives(o)

One(condition) == IF condition THEN 1 ELSE 0

-----------------------------------------------------------------------------
(***************************************************************************)
(* What a new value of one variable does to the counts.                    *)
(***************************************************************************)
LEMMA Finite ==
  ASSUME NEW n
  PROVE  IsFiniteSet(Sharers(n)) /\ Cardinality(Sharers(n)) \in Nat
<1>1. IsFiniteSet(Var) /\ Sharers(n) \in SUBSET Var
  BY DecorateAssumption DEF Sharers
<1>2. IsFiniteSet(Sharers(n))
  BY <1>1, FS_Subset
<1> QED
  BY <1>2, FS_CardinalityType

(* Who shares a count is counted, and when the count is one it is alone.   *)
LEMMA SharersCounted ==
  ASSUME DecorateTypeOK, Counted, NEW v \in Var, dp[v].m_count # Null
  PROVE  /\ dp[v].m_count \in Counter /\ count[dp[v].m_count] >= 1
         /\ count[dp[v].m_count] = 1 => Sharers(dp[v].m_count) = {v}
         /\ count[dp[v].m_count] # 1 =>
              \E w \in Var : w # v /\ dp[w].m_count = dp[v].m_count
<1> DEFINE n == dp[v].m_count
<1>1. n \in Counter /\ v \in Sharers(n)
  BY DEF DecorateTypeOK, Sharers
<1>2. IsFiniteSet(Sharers(n)) /\ Cardinality(Sharers(n)) \in Nat
  BY Finite
<1>3. count[n] = Cardinality(Sharers(n))
  BY <1>1 DEF Counted
<1>4. count[n] # 0
  BY <1>1, <1>2, <1>3, FS_EmptySet
<1>5. ASSUME count[n] = 1
      PROVE  Sharers(n) = {v}
  <2>1. \E x : Sharers(n) = {x}
    BY <1>2, <1>3, <1>5, FS_Singleton
  <2> QED
    BY <1>1, <2>1
<1>6. ASSUME \A w \in Var : dp[w].m_count = n => w = v
      PROVE  count[n] = 1
  <2>1. Sharers(n) = {v}
    BY <1>1, <1>6 DEF Sharers
  <2> QED
    BY <1>3, <2>1, FS_Singleton
<1> QED
  BY <1>1, <1>2, <1>3, <1>4, <1>5, <1>6

LEMMA Recounted ==
  ASSUME NEW v \in Var, \A w \in Var : w # v => dp'[w] = dp[w], NEW n \in Counter
  PROVE  Cardinality(Sharers(n)') =
           Cardinality(Sharers(n)) + One(n = dp'[v].m_count) - One(n = dp[v].m_count)
<1>1. v \in Sharers(n) <=> dp[v].m_count = n
  BY DEF Sharers
<1>2. Sharers(n)' = IF dp'[v].m_count = n THEN Sharers(n) \cup {v} ELSE Sharers(n) \ {v}
  BY DEF Sharers
<1>3. IsFiniteSet(Sharers(n)) /\ Cardinality(Sharers(n)) \in Nat
  BY Finite
<1>4. /\ Cardinality(Sharers(n) \cup {v}) =
           IF v \in Sharers(n) THEN Cardinality(Sharers(n))
                               ELSE Cardinality(Sharers(n)) + 1
      /\ Cardinality(Sharers(n) \ {v}) =
           IF v \in Sharers(n) THEN Cardinality(Sharers(n)) - 1
                               ELSE Cardinality(Sharers(n))
  BY <1>3, FS_AddElement, FS_RemoveElement
<1> QED
  BY <1>1, <1>2, <1>3, <1>4 DEF One

Value == [here : BOOLEAN, pInstance : Object \cup {Null}, m_count : Counter \cup {Null}]

(* A variable may get r: a count that is new, or that of a pointer to the  *)
(* same object.                                                            *)
MayGet(r) ==
  /\ r \in Value
  /\ ~r.here => r.m_count = Null
  /\ r.pInstance # Null => r.m_count # Null
  /\ r.m_count # Null =>
       \/ count[r.m_count] = 0
       \/ \E w \in Var : dp[w].m_count = r.m_count /\ dp[w].pInstance = r.pInstance

LEMMA Changed ==
  ASSUME DecorateTypeOK, Counted, VarsPlaced, Alike,
         NEW v \in Var, NEW r, MayGet(r), dp' = [dp EXCEPT ![v] = r],
         count' = [k \in Counter |->
                    count[k] + One(k = r.m_count) - One(k = dp[v].m_count)]
  PROVE  /\ dp' \in [Var -> Value] /\ count' \in [Counter -> Nat]
         /\ Counted' /\ VarsPlaced' /\ Alike'
<1>1. dp' \in [Var -> Value]
  BY DEF DecorateTypeOK, Value, MayGet
<1>2. /\ dp'[v] = r
      /\ \A w \in Var : w # v => dp'[w] = dp[w]
  BY DEF DecorateTypeOK
<1>3. Counted'
  <2> SUFFICES ASSUME NEW k \in Counter
               PROVE  count'[k] = Cardinality(Sharers(k)')
    BY DEF Counted
  <2>1. count[k] = Cardinality(Sharers(k))
    BY DEF Counted
  <2>2. count'[k] = count[k] + One(k = r.m_count) - One(k = dp[v].m_count)
    OBVIOUS
  <2>3. Cardinality(Sharers(k)') =
          Cardinality(Sharers(k)) + One(k = r.m_count) - One(k = dp[v].m_count)
    BY <1>2, Recounted
  <2> QED
    BY <2>1, <2>2, <2>3
<1>4. count' \in [Counter -> Nat]
  <2> SUFFICES ASSUME NEW k \in Counter
               PROVE  count[k] + One(k = r.m_count) - One(k = dp[v].m_count) \in Nat
    OBVIOUS
  <2>1. count[k] \in Nat
    BY DEF DecorateTypeOK
  <2>2. k = dp[v].m_count => count[k] >= 1
    BY SharersCounted, DecorateAssumption
  <2> QED
    BY <2>1, <2>2 DEF One
<1>5. VarsPlaced'
  BY <1>2 DEF VarsPlaced, MayGet
<1>6. Alike'
  <2>1. ASSUME NEW w \in Var, w # v, r.m_count # Null, dp[w].m_count = r.m_count
        PROVE  dp[w].pInstance = r.pInstance
    <3>1. count[r.m_count] # 0
      BY <2>1, SharersCounted
    <3> QED
      BY <2>1, <3>1 DEF MayGet, Alike
  <2> QED
    BY <1>2, <2>1 DEF Alike
<1> QED
  BY <1>1, <1>3, <1>4, <1>5, <1>6

-----------------------------------------------------------------------------
(***************************************************************************)
(* What it does to an object.                                              *)
(***************************************************************************)
Has(r, o, w) == dp[w].pInstance = o /\ dp[w].m_count = r.m_count

(* A value that the object is not touched by: v keeps it, if it has it.    *)
LEMMA Kept ==
  ASSUME DecorateTypeOK, NEW v \in Var, NEW r, dp' = [dp EXCEPT ![v] = r],
         NEW o \in Object, Known(o), Lives(o),
         r.pInstance = o => \E w \in Var : Has(r, o, w),
         dp[v].pInstance = o => r.pInstance = o,
         pointee'[o] = pointee[o], wrapped'[o] = wrapped[o],
         o \in byHand' <=> o \in byHand, o \in twice' <=> o \in twice
  PROVE  Known(o)' /\ Lives(o)'
<1>1. /\ dp'[v] = r
      /\ \A w \in Var : w # v => dp'[w] = dp[w]
  BY DEF DecorateTypeOK
<1>2. Known(o)'
  BY <1>1 DEF Known, Has
<1>3. (\E w \in Var : dp'[w].pInstance = o) <=> \E w \in Var : dp[w].pInstance = o
  BY <1>1 DEF Has
<1> QED
  BY <1>2, <1>3 DEF Lives

(* v leaves the object it has, which is deleted if v was alone with it.    *)
LEMMA Left ==
  ASSUME DecorateInv, NEW v \in Var, NEW r,
         dp' = [dp EXCEPT ![v] = r], NEW o \in Object,
         r.pInstance = o => \E w \in Var : w # v /\ Has(r, o, w),
         dp[v].pInstance = o => r.m_count # dp[v].m_count,
         NEW last, last <=> dp[v].m_count # Null /\ count[dp[v].m_count] = 1
                              /\ dp[v].pInstance = o,
         pointee'[o] = IF last THEN "deleted" ELSE pointee[o],
         wrapped'[o] = wrapped[o], o \in byHand' <=> o \in byHand,
         o \in twice' <=> o \in twice \/ (last /\ pointee[o] = "deleted")
  PROVE  Known(o)' /\ Lives(o)'
<1>1. /\ dp'[v] = r
      /\ \A w \in Var : w # v => dp'[w] = dp[w]
  BY DEF DecorateInv, DecorateTypeOK
<1>2. Known(o) /\ Lives(o)
  BY DEF DecorateInv
<1>3. Known(o)'
  <2>1. wrapped[o] = 0 => ~last /\ r.pInstance # o
    BY <1>2 DEF Known, Has
  <2>2. wrapped[o] = 0 => /\ pointee'[o] = "unused" /\ o \notin byHand' \cup twice'
                          /\ \A w \in Var : dp'[w].pInstance # o
    BY <1>1, <1>2, <2>1 DEF Known
  <2>3. wrapped[o] = 1 =>
          \A x, y \in Var : dp'[x].pInstance = o /\ dp'[y].pInstance = o
                              => dp'[x].m_count = dp'[y].m_count
    BY <1>1, <1>2 DEF Known, Has
  <2> QED
    BY <2>2, <2>3 DEF Known
<1>4. ASSUME wrapped[o] = 1, o \notin byHand
      PROVE  /\ pointee'[o] = "live" <=> \E w \in Var : dp'[w].pInstance = o
             /\ o \notin twice'
  <2>1. CASE dp[v].pInstance = o
    <3>1. pointee[o] = "live" /\ o \notin twice
      BY <1>2, <1>4, <2>1 DEF Lives
    <3>2. r.pInstance # o
      BY <1>2, <1>4, <2>1 DEF Known, Has
    <3>3. dp[v].m_count # Null
      BY <2>1, DecorateAssumption DEF DecorateInv, VarsPlaced
    <3>4. \A w \in Var : dp[w].pInstance = o => dp[w].m_count = dp[v].m_count
      BY <1>2, <1>4, <2>1 DEF Known
    <3>5. CASE last
      <4>1. Sharers(dp[v].m_count) = {v}
        BY <3>3, <3>5, SharersCounted DEF DecorateInv
      <4>2. \A w \in Var : dp[w].pInstance = o => w = v
        BY <3>4, <4>1 DEF Sharers
      <4> QED
        BY <1>1, <3>1, <3>2, <3>5, <4>2
    <3>6. CASE ~last
      <4>1. PICK w \in Var : w # v /\ dp[w].m_count = dp[v].m_count
        BY <2>1, <3>3, <3>6, SharersCounted DEF DecorateInv
      <4>2. dp'[w].pInstance = o
        BY <1>1, <2>1, <3>3, <4>1 DEF DecorateInv, Alike
      <4> QED
        BY <3>1, <3>6, <4>2
    <3> QED
      BY <3>5, <3>6
  <2>2. CASE dp[v].pInstance # o
    <3>1. (\E w \in Var : dp'[w].pInstance = o) <=> \E w \in Var : dp[w].pInstance = o
      BY <1>1, <2>2 DEF Has
    <3> QED
      BY <1>2, <1>4, <2>2, <3>1 DEF Lives
  <2> QED
    BY <2>1, <2>2
<1> QED
  BY <1>3, <1>4 DEF Lives

(* v gets an object that it did not have, as a T*.                         *)
LEMMA Wrapped ==
  ASSUME DecorateTypeOK, NEW v \in Var, NEW r, dp' = [dp EXCEPT ![v] = r],
         NEW o \in Object, Known(o), r.pInstance = o,
         pointee'[o] = "live", wrapped'[o] = wrapped[o] + 1,
         o \in byHand' <=> o \in byHand, o \in twice' <=> o \in twice
  PROVE  Known(o)' /\ Lives(o)'
<1>1. /\ dp'[v] = r
      /\ \A w \in Var : w # v => dp'[w] = dp[w]
  BY DEF DecorateTypeOK
<1>2. wrapped[o] \in Nat
  BY DEF DecorateTypeOK
<1>3. /\ wrapped'[o] # 0
      /\ wrapped'[o] = 1 => wrapped[o] = 0
  BY <1>2
<1>4. Known(o)'
  BY <1>1, <1>3 DEF Known
<1>5. \E w \in Var : dp'[w].pInstance = o
  BY <1>1
<1>6. wrapped'[o] = 1 => o \notin twice'
  BY <1>3 DEF Known
<1> QED
  BY <1>4, <1>5, <1>6 DEF Lives

-----------------------------------------------------------------------------
(***************************************************************************)
(* Each step keeps the invariant.                                          *)
(***************************************************************************)
LEMMA UnusedIsUnused ==
  ASSUME Fresh
  PROVE  Unused \in Counter /\ count[Unused] = 0
BY DEF Fresh, Unused

LEMMA InvDefault ==
  ASSUME DecorateInv, NEW v \in Var, Default(v)
  PROVE  DecorateInv'
<1> DEFINE r == Here(Null, Null)
<1>1. /\ dp' = [dp EXCEPT ![v] = r] /\ r.pInstance = Null /\ r.m_count = Null
      /\ dp[v].m_count = Null /\ dp[v].pInstance = Null
  BY DEF Default, Here, DecorateInv, VarsPlaced
<1>2. MayGet(r)
  BY DEF MayGet, Here, Value
<1>3. count' = [k \in Counter |-> count[k] + One(k = r.m_count) - One(k = dp[v].m_count)]
  <2>1. \A k \in Counter :
          count[k] = count[k] + One(k = r.m_count) - One(k = dp[v].m_count)
    BY <1>1 DEF DecorateInv, DecorateTypeOK, One
  <2> QED
    BY <2>1 DEF Default, DecorateInv, DecorateTypeOK
<1>4. /\ dp' \in [Var -> Value] /\ count' \in [Counter -> Nat]
      /\ Counted' /\ VarsPlaced' /\ Alike'
  BY <1>1, <1>2, <1>3, Changed DEF DecorateInv
<1>5. DecorateTypeOK'
  BY <1>4 DEF DecorateInv, DecorateTypeOK, Value, Default
<1>6. ASSUME NEW o \in Object
      PROVE  Known(o)' /\ Lives(o)'
  BY <1>1, Kept, DecorateAssumption DEF Default, DecorateInv
<1> QED
  BY <1>4, <1>5, <1>6 DEF DecorateInv

LEMMA InvWrap ==
  ASSUME DecorateInv, NEW v \in Var, NEW o \in Object, Wrap(v, o)
  PROVE  DecorateInv'
<1> DEFINE r == Here(o, Unused)
<1>1. /\ dp' = [dp EXCEPT ![v] = r] /\ r.pInstance = o /\ r.m_count = Unused
      /\ dp[v].m_count = Null /\ dp[v].pInstance = Null
  BY DEF Wrap, Here, DecorateInv, VarsPlaced
<1>2. Unused \in Counter /\ count[Unused] = 0
  BY UnusedIsUnused DEF Wrap
<1>3. MayGet(r)
  BY <1>2, DecorateAssumption DEF MayGet, Here, Value
<1>4. count' = [k \in Counter |-> count[k] + One(k = r.m_count) - One(k = dp[v].m_count)]
  BY <1>1 DEF Wrap, Recount, Added, One
<1>5. /\ dp' \in [Var -> Value] /\ count' \in [Counter -> Nat]
      /\ Counted' /\ VarsPlaced' /\ Alike'
  BY <1>1, <1>3, <1>4, Changed DEF DecorateInv
<1>6. DecorateTypeOK'
  BY <1>5 DEF DecorateInv, DecorateTypeOK, Value, Wrap
<1>7. Known(o)' /\ Lives(o)'
  <2>1. pointee'[o] = "live" /\ wrapped'[o] = wrapped[o] + 1
    BY DEF Wrap, DecorateInv, DecorateTypeOK
  <2> QED
    BY <1>1, <2>1, Wrapped DEF Wrap, DecorateInv
<1>8. ASSUME NEW p \in Object, p # o
      PROVE  Known(p)' /\ Lives(p)'
  <2>1. pointee'[p] = pointee[p] /\ wrapped'[p] = wrapped[p] /\ p # Null
    BY <1>8, DecorateAssumption DEF Wrap, DecorateInv, DecorateTypeOK
  <2> QED
    BY <1>1, <1>8, <2>1, Kept DEF Wrap, DecorateInv
<1> QED
  BY <1>5, <1>6, <1>7, <1>8 DEF DecorateInv

(* The value of a copy of w. *)
LEMMA Copied ==
  ASSUME DecorateInv, NEW w \in Var, dp[w].here,
         dp[w].m_count = Null => Fresh
  PROVE  LET r == Here(dp[w].pInstance, Added(dp[w].m_count))
         IN  /\ MayGet(r)
             /\ \A o \in Object : r.pInstance = o => Has(r, o, w)
<1> DEFINE r == Here(dp[w].pInstance, Added(dp[w].m_count))
<1>1. CASE dp[w].m_count = Null
  <2>1. Unused \in Counter /\ count[Unused] = 0 /\ dp[w].pInstance = Null
    BY <1>1, UnusedIsUnused DEF DecorateInv, VarsPlaced
  <2> QED
    BY <1>1, <2>1, DecorateAssumption DEF MayGet, Here, Value, Added
<1>2. CASE dp[w].m_count # Null
  <2>1. r.m_count = dp[w].m_count /\ r.pInstance = dp[w].pInstance /\ r.here
    BY <1>2 DEF Here, Added
  <2>2. r \in Value
    BY <2>1 DEF Here, Value, DecorateInv, DecorateTypeOK
  <2> QED
    BY <1>2, <2>1, <2>2 DEF MayGet, Has
<1> QED
  BY <1>1, <1>2

LEMMA InvCopy ==
  ASSUME DecorateInv, NEW v \in Var, NEW w \in Var, CopyPointer(v, w)
  PROVE  DecorateInv'
<1> DEFINE r == Here(dp[w].pInstance, Added(dp[w].m_count))
<1>1. /\ dp' = [dp EXCEPT ![v] = r] /\ r.m_count = Added(dp[w].m_count)
      /\ dp[v].m_count = Null /\ dp[v].pInstance = Null
  BY DEF CopyPointer, Here, DecorateInv, VarsPlaced
<1>2. MayGet(r) /\ \A o \in Object : r.pInstance = o => Has(r, o, w)
  BY Copied DEF CopyPointer
<1>3. count' = [k \in Counter |-> count[k] + One(k = r.m_count) - One(k = dp[v].m_count)]
  BY <1>1 DEF CopyPointer, Recount, One
<1>4. /\ dp' \in [Var -> Value] /\ count' \in [Counter -> Nat]
      /\ Counted' /\ VarsPlaced' /\ Alike'
  BY <1>1, <1>2, <1>3, Changed DEF DecorateInv
<1>5. DecorateTypeOK'
  BY <1>4 DEF DecorateInv, DecorateTypeOK, Value, CopyPointer
<1>6. ASSUME NEW o \in Object
      PROVE  Known(o)' /\ Lives(o)'
  BY <1>1, <1>2, Kept, DecorateAssumption DEF CopyPointer, DecorateInv
<1> QED
  BY <1>4, <1>5, <1>6 DEF DecorateInv

(* sub_count, for one object. *)
LEMMA SubCounted ==
  ASSUME DecorateTypeOK, NEW v \in Var, SubCount(v), NEW o \in Object
  PROVE  LET last == dp[v].m_count # Null /\ count[dp[v].m_count] = 1
                       /\ dp[v].pInstance = o
         IN  /\ pointee'[o] = IF last THEN "deleted" ELSE pointee[o]
             /\ o \in twice' <=> o \in twice \/ (last /\ pointee[o] = "deleted")
BY DecorateAssumption DEF SubCount, DecorateTypeOK

LEMMA InvDestroy ==
  ASSUME DecorateInv, NEW v \in Var, DestroyPointer(v)
  PROVE  DecorateInv'
<1>1. /\ dp' = [dp EXCEPT ![v] = Gone] /\ Gone.m_count = Null /\ Gone.pInstance = Null
      /\ MayGet(Gone)
  BY DEF DestroyPointer, Gone, MayGet, Value
<1>2. count' = [k \in Counter |->
                 count[k] + One(k = Gone.m_count) - One(k = dp[v].m_count)]
  <2>1. \A k \in Counter :
          count[k] + One(k = Gone.m_count) - One(k = dp[v].m_count)
            = count[k] - (IF k = dp[v].m_count THEN 1 ELSE 0)
    BY <1>1, DecorateAssumption DEF One, DecorateInv, DecorateTypeOK
  <2> QED
    BY <2>1 DEF DestroyPointer
<1>3. /\ dp' \in [Var -> Value] /\ count' \in [Counter -> Nat]
      /\ Counted' /\ VarsPlaced' /\ Alike'
  BY <1>1, <1>2, Changed DEF DecorateInv
<1>4. DecorateTypeOK'
  BY <1>3 DEF DecorateInv, DecorateTypeOK, Value, DestroyPointer, SubCount
<1>5. ASSUME NEW o \in Object
      PROVE  Known(o)' /\ Lives(o)'
  <2>1. dp[v].pInstance = o => dp[v].m_count # Null
    BY DecorateAssumption DEF DecorateInv, VarsPlaced
  <2> DEFINE last == dp[v].m_count # Null /\ count[dp[v].m_count] = 1
                       /\ dp[v].pInstance = o
  <2>2. /\ pointee'[o] = IF last THEN "deleted" ELSE pointee[o]
        /\ o \in twice' <=> o \in twice \/ (last /\ pointee[o] = "deleted")
    BY SubCounted DEF DestroyPointer, DecorateInv
  <2>3. Gone.pInstance # o
    BY <1>1, DecorateAssumption
  <2>4. wrapped'[o] = wrapped[o] /\ (o \in byHand' <=> o \in byHand)
    BY DEF DestroyPointer
  <2> HIDE DEF last
  <2> QED
    BY <1>1, <2>1, <2>2, <2>3, <2>4, Left DEF last
<1> QED
  BY <1>3, <1>4, <1>5 DEF DecorateInv

LEMMA InvAssign ==
  ASSUME DecorateInv, NEW v \in Var, NEW w \in Var, AssignPointer(v, w)
  PROVE  DecorateInv'
<1> DEFINE r == Here(dp[w].pInstance, Added(dp[w].m_count))
<1>1. dp' = [dp EXCEPT ![v] = r] /\ r.m_count = Added(dp[w].m_count) /\ w # v
  BY DEF AssignPointer, Here
<1>2. MayGet(r) /\ \A o \in Object : r.pInstance = o => Has(r, o, w)
  BY Copied DEF AssignPointer
<1>3. count' = [k \in Counter |-> count[k] + One(k = r.m_count) - One(k = dp[v].m_count)]
  BY <1>1 DEF AssignPointer, Recount, One
<1>4. /\ dp' \in [Var -> Value] /\ count' \in [Counter -> Nat]
      /\ Counted' /\ VarsPlaced' /\ Alike'
  BY <1>1, <1>2, <1>3, Changed DEF DecorateInv
<1>5. DecorateTypeOK'
  BY <1>4 DEF DecorateInv, DecorateTypeOK, Value, AssignPointer, SubCount
<1>6. ASSUME NEW o \in Object
      PROVE  Known(o)' /\ Lives(o)'
  <2>1. wrapped'[o] = wrapped[o] /\ (o \in byHand' <=> o \in byHand)
    BY DEF AssignPointer
  <2>2. CASE dp[w].m_count = dp[v].m_count
    <3>1. pointee' = pointee /\ twice' = twice
      BY <2>2 DEF AssignPointer
    <3>2. dp[v].pInstance = o => r.pInstance = o
      BY <2>2, DecorateAssumption DEF Here, DecorateInv, Alike, VarsPlaced
    <3> QED
      BY <1>1, <1>2, <2>1, <3>1, <3>2, Kept DEF DecorateInv
  <2>3. CASE dp[w].m_count # dp[v].m_count
    <3> DEFINE last == dp[v].m_count # Null /\ count[dp[v].m_count] = 1
                         /\ dp[v].pInstance = o
    <3>1. /\ pointee'[o] = IF last THEN "deleted" ELSE pointee[o]
          /\ o \in twice' <=> o \in twice \/ (last /\ pointee[o] = "deleted")
      BY <2>3, SubCounted DEF AssignPointer, DecorateInv
    <3>2. dp[v].pInstance = o => r.m_count # dp[v].m_count
      <4>1. ASSUME dp[v].pInstance = o
            PROVE  dp[v].m_count # Null /\ count[dp[v].m_count] >= 1
        BY <4>1, SharersCounted, DecorateAssumption DEF DecorateInv, VarsPlaced
      <4>2. dp[w].m_count = Null => count[Unused] = 0
        BY UnusedIsUnused DEF AssignPointer
      <4> QED
        BY <1>1, <2>3, <4>1, <4>2 DEF Added
    <3> HIDE DEF last
    <3> QED
      BY <1>1, <1>2, <2>1, <3>1, <3>2, Left DEF last
  <2> QED
    BY <2>2, <2>3
<1> QED
  BY <1>4, <1>5, <1>6 DEF DecorateInv

LEMMA InvAssignRaw ==
  ASSUME DecorateInv, NEW v \in Var, NEW o \in Object \cup {Null},
         AssignRaw(v, o)
  PROVE  DecorateInv'
<1> DEFINE r == Here(o, IF o = Null THEN Null ELSE Unused)
<1>1. /\ dp' = [dp EXCEPT ![v] = r] /\ r.here /\ r.pInstance = o
      /\ r.m_count = IF o = Null THEN Null ELSE Unused
      /\ dp[v].pInstance # o
  BY DEF AssignRaw, Here
<1>2. o # Null => /\ Unused \in Counter /\ count[Unused] = 0 /\ Unused # Null
  BY UnusedIsUnused, DecorateAssumption DEF AssignRaw
<1>3. MayGet(r)
  <2>1. r \in Value
    BY <1>2 DEF Here, Value
  <2> QED
    BY <1>1, <1>2, <2>1 DEF MayGet
<1>4. count' = [k \in Counter |-> count[k] + One(k = r.m_count) - One(k = dp[v].m_count)]
  <2>1. \A k \in Counter : (o # Null /\ k = Unused) <=> k = r.m_count
    BY <1>1, DecorateAssumption
  <2> QED
    BY <2>1 DEF AssignRaw, One
<1>5. /\ dp' \in [Var -> Value] /\ count' \in [Counter -> Nat]
      /\ Counted' /\ VarsPlaced' /\ Alike'
  BY <1>1, <1>3, <1>4, Changed DEF DecorateInv
<1> DEFINE last == dp[v].m_count # Null /\ count[dp[v].m_count] = 1
           old == IF last THEN dp[v].pInstance ELSE Null
<1>6. /\ pointee' = [p \in Object |-> CASE p = old -> "deleted"
                                       [] p = o /\ p # old -> "live"
                                       [] OTHER -> pointee[p]]
      /\ twice' = IF old # Null /\ pointee[old] = "deleted"
                    THEN twice \cup {old} ELSE twice
      /\ wrapped' = [p \in Object |-> wrapped[p] + (IF p = o THEN 1 ELSE 0)]
      /\ byHand' = byHand
  BY DEF AssignRaw
<1>7. old \in Object \cup {Null}
  BY DEF DecorateInv, DecorateTypeOK
<1>8. old = o => o = Null
  BY <1>1
<1> HIDE DEF r, last
<1>9. DecorateTypeOK'
  <2>1. \A p \in Object : pointee'[p] \in {"unused", "live", "deleted"}
    BY <1>6 DEF DecorateInv, DecorateTypeOK
  <2>2. pointee' \in [Object -> {"unused", "live", "deleted"}]
    BY <1>6, <2>1
  <2>3. \A p \in Object : wrapped[p] + (IF p = o THEN 1 ELSE 0) \in Nat
    BY DEF DecorateInv, DecorateTypeOK
  <2>4. twice' \subseteq Object /\ byHand' \subseteq Object
    BY <1>6, <1>7 DEF DecorateInv, DecorateTypeOK
  <2> QED
    BY <1>5, <1>6, <2>2, <2>3, <2>4 DEF DecorateTypeOK, Value
<1>10. ASSUME NEW p \in Object
       PROVE  Known(p)' /\ Lives(p)'
  <2>1. CASE p = o
    <3>1. pointee'[p] = "live" /\ wrapped'[p] = wrapped[p] + 1 /\ p # old
      BY <1>6, <1>8, <2>1, DecorateAssumption
    <3>2. p \in twice' <=> p \in twice
      BY <1>6, <3>1
    <3> QED
      BY <1>1, <1>6, <2>1, <3>1, <3>2, Wrapped DEF DecorateInv
  <2>2. CASE p # o
    <3> DEFINE gone == dp[v].m_count # Null /\ count[dp[v].m_count] = 1
                         /\ dp[v].pInstance = p
    <3>1. gone <=> p = old
      BY DecorateAssumption DEF last
    <3>2. pointee'[p] = IF gone THEN "deleted" ELSE pointee[p]
      BY <1>6, <2>2, <3>1
    <3>3. p \in twice' <=> p \in twice \/ (gone /\ pointee[p] = "deleted")
      BY <1>6, <3>1, DecorateAssumption
    <3>4. wrapped'[p] = wrapped[p] /\ (p \in byHand' <=> p \in byHand)
      BY <1>6, <2>2 DEF DecorateInv, DecorateTypeOK
    <3>5. dp[v].pInstance = p => r.m_count # dp[v].m_count
      <4>1. dp[v].pInstance = p => dp[v].m_count # Null /\ count[dp[v].m_count] >= 1
        BY SharersCounted, DecorateAssumption DEF DecorateInv, VarsPlaced
      <4> QED
        BY <1>1, <1>2, <4>1
    <3>6. r.pInstance # p
      BY <1>1, <2>2
    <3> HIDE DEF gone
    <3> QED
      BY <1>1, <3>2, <3>3, <3>4, <3>5, <3>6, Left DEF gone
  <2> QED
    BY <2>1, <2>2
<1> QED
  BY <1>5, <1>9, <1>10 DEF DecorateInv

(* A delete by the user leaves the pointers and their counts as they are.  *)
LEMMA InvDelete ==
  ASSUME DecorateInv, NEW o \in Object, DeleteByHand(o)
  PROVE  DecorateInv'
<1>1. DecorateTypeOK'
  BY DEF DecorateInv, DecorateTypeOK, DeleteByHand
<1>2. Counted' /\ VarsPlaced' /\ Alike'
  BY DEF DecorateInv, Counted, VarsPlaced, Alike, Sharers, DeleteByHand
<1>3. ASSUME NEW p \in Object
      PROVE  Known(p)' /\ Lives(p)'
  <2>1. Known(p) /\ Lives(p)
    BY DEF DecorateInv
  <2>2. CASE p = o
    <3>1. wrapped'[p] # 0 /\ p \in byHand'
      BY <2>1, <2>2 DEF DeleteByHand, Known
    <3> QED
      BY <2>1, <3>1 DEF DeleteByHand, Known, Lives
  <2>3. CASE p # o
    BY <2>1, <2>3 DEF DeleteByHand, Known, Lives, DecorateInv, DecorateTypeOK
  <2> QED
    BY <2>2, <2>3
<1> QED
  BY <1>1, <1>2, <1>3 DEF DecorateInv

LEMMA InvInit ==
  ASSUME DecorateInit
  PROVE  DecorateInv
<1>1. DecorateTypeOK /\ VarsPlaced /\ Alike
  BY DEF DecorateInit, Gone, DecorateTypeOK, VarsPlaced, Alike
<1>2. ASSUME NEW n \in Counter
      PROVE  count[n] = Cardinality(Sharers(n))
  <2>1. Sharers(n) = {}
    BY DecorateAssumption DEF DecorateInit, Gone, Sharers
  <2> QED
    BY <2>1, FS_EmptySet DEF DecorateInit
<1>3. \A o \in Object : Known(o) /\ Lives(o)
  BY DecorateAssumption DEF DecorateInit, Gone, Known, Lives
<1> QED
  BY <1>1, <1>2, <1>3 DEF DecorateInv, Counted

LEMMA InvStutter ==
  ASSUME DecorateInv, UNCHANGED decorateVars
  PROVE  DecorateInv'
<1>1. DecorateTypeOK'
  BY DEF DecorateInv, DecorateTypeOK, decorateVars
<1>2. Counted' /\ VarsPlaced' /\ Alike'
  BY DEF DecorateInv, Counted, VarsPlaced, Alike, Sharers, decorateVars
<1>3. \A o \in Object : Known(o)' /\ Lives(o)'
  BY DEF DecorateInv, Known, Lives, decorateVars
<1> QED
  BY <1>1, <1>2, <1>3 DEF DecorateInv

-----------------------------------------------------------------------------
(* The invariant: counts are what they count, and know their objects.      *)
THEOREM DecorateInvariant == DecorateSpec => []DecorateInv
<1>1. DecorateInit => DecorateInv
  BY InvInit
<1>2. DecorateInv /\ [DecorateNext]_decorateVars => DecorateInv'
  <2> SUFFICES ASSUME DecorateInv, [DecorateNext]_decorateVars
               PROVE  DecorateInv'
    OBVIOUS
  <2>1. ASSUME NEW v \in Var, Default(v) \/ DestroyPointer(v) \/ AssignRaw(v, Null)
        PROVE  DecorateInv'
    BY <2>1, InvDefault, InvDestroy, InvAssignRaw
  <2>2. ASSUME NEW v \in Var, NEW o \in Object, Wrap(v, o) \/ AssignRaw(v, o)
        PROVE  DecorateInv'
    BY <2>2, InvWrap, InvAssignRaw
  <2>3. ASSUME NEW v \in Var, NEW w \in Var, CopyPointer(v, w) \/ AssignPointer(v, w)
        PROVE  DecorateInv'
    BY <2>3, InvCopy, InvAssign
  <2>4. ASSUME NEW o \in Object, DeleteByHand(o)
        PROVE  DecorateInv'
    BY <2>4, InvDelete
  <2>5. CASE UNCHANGED decorateVars
    BY <2>5, InvStutter
  <2> QED
    BY <2>1, <2>2, <2>3, <2>4, <2>5 DEF DecorateNext
<1> QED
  BY <1>1, <1>2, PTL DEF DecorateSpec

(* A count of decorate_ptr is the number of its pointers after any copies, *)
(* swaps and assignments, and an object that was wrapped once and not      *)
(* deleted by hand is there as long as a pointer has it, and no longer.    *)
THEOREM ObjectsLiveAsPointers == DecorateSpec => []DecoratedUsable
<1>1. DecorateInv => DecoratedUsable
  BY DEF DecorateInv, Counted, Sharers, Lives, DecoratedUsable
<1> QED
  BY <1>1, DecorateInvariant, PTL

-----------------------------------------------------------------------------
(***************************************************************************)
(* Singleton.  Before main returns, a call that holds the lock of its type *)
(* is the one that makes the instance, and its type enters the list when   *)
(* the instance is there, so the list has a type once and in the order of  *)
(* longevity; an instance is made after those that its constructor calls.  *)
(* Afterwards one call of a destructor is under way, and what it may meet  *)
(* and finds gone was taken out of the list before, from behind.           *)
(***************************************************************************)
Listed == {list[i] : i \in DOMAIN list}
Holding == {"create", "built", "track", "insert", "live"}

(* Each handler finds its instance in the list, which is in the order of   *)
(* longevity.                                                              *)
Ordered ==
  /\ handlers = Len(list)
  /\ \A i, j \in DOMAIN list : i # j => list[i] # list[j]
  /\ \A i, j \in DOMAIN list : i < j => Longevity[list[i]] >= Longevity[list[j]]

(* A call that holds the lock of its type is the one that makes it.        *)
FrameSound(place, c) ==
  /\ place # "destroy"
  /\ place \in Holding => c \in locked
  /\ place \in Holding \ {"live"} => c \notin Listed
  /\ place = "create" => ~pInstance[c]
  /\ place \in Holding \ {"create"} => pInstance[c]
  /\ place = "live" => c \in Listed

(* A constructor has the singletons that it was to call, or calls them.    *)
Nested(t, i) ==
  /\ i > 1 => stack[t][i].at = "create"
  /\ stack[t][i].at \in {"lock", "create"} =>
       \A d \in Uses[stack[t][i].type] \ stack[t][i].left :
         pInstance[d] \/ (i > 1 /\ stack[t][i - 1].type = d)

Frames ==
  \A t \in Thread : \A i \in DOMAIN stack[t] :
    FrameSound(stack[t][i].at, stack[t][i].type) /\ Nested(t, i)

Exclusive ==
  \A t, u \in Thread : \A i \in DOMAIN stack[t], j \in DOMAIN stack[u] :
    stack[t][i].at \in Holding /\ stack[u][j].at \in Holding
      /\ stack[t][i].type = stack[u][j].type => t = u /\ i = j

(* What is made is listed, and what it uses was made before.               *)
Made ==
  /\ live \subseteq Listed /\ \A d \in Listed : pInstance[d]
  /\ \A d \in Type : pInstance[d] => \A e \in Uses[d] : pInstance[e]
  /\ \A d \in Type : pInstance[d] =>
       d \in live \/ \E t \in Thread : \E i \in DOMAIN stack[t] :
                       stack[t][i].type = d /\ stack[t][i].at \in Holding

Running == Frames /\ Exclusive /\ Made

Bottom(t) == stack[t][Len(stack[t])]

Ending ==
  /\ \A t \in Thread : stack[t] # <<>> =>
       /\ Bottom(t).at = "destroy" /\ Bottom(t).left \subseteq Uses[Bottom(t).type]
       /\ pInstance[Bottom(t).type] /\ Bottom(t).type \notin Listed
       /\ \A d \in Listed : Longevity[Bottom(t).type] <= Longevity[d]
       /\ Len(stack[t]) <= 2
       /\ Len(stack[t]) = 2 =>
            stack[t][1].at = "lock" /\ stack[t][1].type \in live /\ ~pInstance[stack[t][1].type]
  /\ \A t, u \in Thread : stack[t] # <<>> /\ stack[u] # <<>> => t = u
  /\ \A d \in Listed : pInstance[d]
  /\ \A d \in Type : pInstance[d] =>
       d \in live /\ (d \in Listed \/ \E t \in Thread : stack[t] # <<>> /\ Bottom(t).type = d)
  /\ \A d \in live : Uses[d] \subseteq live
  /\ \A d \in live, e \in Type : ~pInstance[d] /\ pInstance[e] => Longevity[d] <= Longevity[e]

LifeInv ==
  /\ LifeTypeOK /\ Ordered
  /\ fault = "dead" => exiting
  /\ ~exiting => Running
  /\ exiting => Ending

-----------------------------------------------------------------------------
LEMMA StackShape ==
  ASSUME LifeTypeOK, NEW t \in Thread
  PROVE  /\ stack[t] \in Seq(Frame) /\ Len(stack[t]) \in Nat /\ DOMAIN stack[t] = 1..Len(stack[t])
         /\ \A i \in DOMAIN stack[t] : stack[t][i] \in Frame
         /\ stack[t] # <<>> <=> Len(stack[t]) > 0
         /\ stack[t] # <<>> => 1 \in DOMAIN stack[t] /\ Top(t) = stack[t][1] /\ Top(t) \in Frame
<1>1. stack[t] \in Seq(Frame)
  BY DEF LifeTypeOK
<1>2. /\ Len(stack[t]) \in Nat /\ DOMAIN stack[t] = 1..Len(stack[t])
      /\ \A i \in DOMAIN stack[t] : stack[t][i] \in Frame
  BY <1>1, LenProperties, ElementOfSeq
<1>3. stack[t] # <<>> <=> Len(stack[t]) > 0
  BY <1>1, EmptySeq
<1>4. stack[t] # <<>> => 1 \in DOMAIN stack[t] /\ Top(t) = stack[t][1]
  BY <1>1, <1>2, <1>3 DEF Top
<1> QED
  BY <1>1, <1>2, <1>3, <1>4

(* The call on top goes to another place. *)
Moved(t, place) ==
  /\ stack' \in [Thread -> Seq(Frame)]
  /\ \A u \in Thread :
       /\ DOMAIN stack'[u] = DOMAIN stack[u] /\ Len(stack'[u]) = Len(stack[u])
       /\ \A i \in DOMAIN stack[u] :
            /\ stack'[u][i].type = stack[u][i].type
            /\ stack'[u][i].left = stack[u][i].left
            /\ stack'[u][i].at = IF u = t /\ i = 1 THEN place ELSE stack[u][i].at

LEMMA StackGoto ==
  ASSUME LifeTypeOK, NEW t \in Thread, stack[t] # <<>>,
         NEW place \in {"lock", "create", "built", "track", "insert", "live", "destroy"},
         Goto(t, place)
  PROVE  Moved(t, place)
<1> DEFINE f == [stack[t][1] EXCEPT !.at = place]
           s == [stack[t] EXCEPT ![1] = f]
<1>1. /\ stack[t] \in Seq(Frame) /\ 1 \in 1..Len(stack[t])
      /\ stack[t][1] \in Frame /\ DOMAIN stack[t] = 1..Len(stack[t])
  BY StackShape
<1>2. f \in Frame /\ f.type = stack[t][1].type /\ f.left = stack[t][1].left /\ f.at = place
  BY <1>1 DEF Frame
<1>3. stack' = [stack EXCEPT ![t] = s]
  BY DEF Goto
<1> HIDE DEF f
<1>4. /\ s \in Seq(Frame) /\ Len(s) = Len(stack[t])
      /\ \A j \in 1..Len(stack[t]) : s[j] = IF j = 1 THEN f ELSE stack[t][j]
  BY <1>1, <1>2, ExceptSeq
<1> HIDE DEF s
<1>5. DOMAIN s = DOMAIN stack[t]
  BY <1>1, <1>4, LenProperties
<1>6. /\ stack' \in [Thread -> Seq(Frame)] /\ stack'[t] = s
      /\ \A u \in Thread : u # t => stack'[u] = stack[u]
  BY <1>3, <1>4 DEF LifeTypeOK
<1> QED
  BY <1>1, <1>2, <1>4, <1>5, <1>6 DEF Moved

(* The call on top returns. *)
Returned(t) ==
  /\ stack' \in [Thread -> Seq(Frame)]
  /\ Len(stack'[t]) = Len(stack[t]) - 1
  /\ \A u \in Thread : u # t => stack'[u] = stack[u]
  /\ \A i \in DOMAIN stack'[t] : i + 1 \in DOMAIN stack[t] /\ stack'[t][i] = stack[t][i + 1]
  /\ \A i \in DOMAIN stack[t] : i > 1 => i - 1 \in DOMAIN stack'[t] /\ stack'[t][i - 1] = stack[t][i]

LEMMA StackReturn ==
  ASSUME LifeTypeOK, NEW t \in Thread, stack[t] # <<>>, Return(t)
  PROVE  Returned(t)
<1>1. /\ stack[t] \in Seq(Frame) /\ Len(stack[t]) \in Nat
      /\ DOMAIN stack[t] = 1..Len(stack[t])
  BY StackShape
<1>2. /\ stack' \in [Thread -> Seq(Frame)] /\ stack'[t] = Tail(stack[t])
      /\ \A u \in Thread : u # t => stack'[u] = stack[u]
  <2>1. Tail(stack[t]) \in Seq(Frame)
    BY <1>1, HeadTailProperties
  <2> QED
    BY <2>1 DEF Return, LifeTypeOK
<1>3. /\ stack'[t] \in Seq(Frame) /\ Len(stack'[t]) = Len(stack[t]) - 1
      /\ \A i \in 1..Len(stack'[t]) : stack'[t][i] = stack[t][i + 1]
  BY <1>1, <1>2, HeadTailProperties
<1>4. DOMAIN stack'[t] = 1..Len(stack'[t])
  BY <1>3, LenProperties
<1>5. \A i \in 1..Len(stack'[t]) : i + 1 \in 1..Len(stack[t])
  BY <1>1, <1>3
<1>6. \A i \in 1..Len(stack[t]) : i > 1 => i - 1 \in 1..Len(stack'[t]) /\ (i - 1) + 1 = i
  BY <1>1, <1>3
<1> QED
  BY <1>1, <1>2, <1>3, <1>4, <1>5, <1>6 DEF Returned

(* The call on top, if there is one, calls c, which is there already, or   *)
(* for which k is 1 and a call is on top then.                             *)
Called(t, c, k) ==
  /\ stack' \in [Thread -> Seq(Frame)]
  /\ Len(stack'[t]) = Len(stack[t]) + k
  /\ \A u \in Thread : u # t => stack'[u] = stack[u]
  /\ \A i \in DOMAIN stack'[t] : i > k => i - k \in DOMAIN stack[t]
  /\ \A i \in DOMAIN stack[t] :
       /\ i + k \in DOMAIN stack'[t]
       /\ stack'[t][i + k].type = stack[t][i].type /\ stack'[t][i + k].at = stack[t][i].at
       /\ stack'[t][i + k].left = IF i = 1 THEN stack[t][i].left \ {c} ELSE stack[t][i].left
  /\ k = 1 => stack'[t][1] = [type |-> c, at |-> "lock", left |-> Uses[c]]

LEMMA StackCall ==
  ASSUME LifeTypeOK, NEW t \in Thread, NEW c \in Type, Call(t, c)
  PROVE  Called(t, c, IF pInstance[c] THEN 0 ELSE 1)
<1> DEFINE s == stack[t]
           frame == [type |-> c, at |-> "lock", left |-> Uses[c]]
           below == IF s = <<>> THEN <<>> ELSE [s EXCEPT ![1].left = @ \ {c}]
           k == IF pInstance[c] THEN 0 ELSE 1
           g == [s[1] EXCEPT !.left = s[1].left \ {c}]
<1>1. stack' = [stack EXCEPT ![t] = IF pInstance[c] THEN below ELSE <<frame>> \o below]
  BY DEF Call
<1>2. /\ s \in Seq(Frame) /\ Len(s) \in Nat /\ DOMAIN s = 1..Len(s)
      /\ \A i \in 1..Len(s) : s[i] \in Frame
      /\ s # <<>> <=> Len(s) > 0
  BY StackShape
<1>3. frame \in Frame
  BY LifeAssumption DEF Frame
<1>4. /\ below \in Seq(Frame) /\ Len(below) = Len(s)
      /\ \A i \in 1..Len(s) : /\ below[i].type = s[i].type /\ below[i].at = s[i].at
                              /\ below[i].left = IF i = 1 THEN s[i].left \ {c} ELSE s[i].left
  <2>1. CASE s = <<>>
    <3>1. below = <<>> /\ Len(s) = 0
      BY <1>2, <2>1
    <3>2. below \in Seq(Frame) /\ Len(below) = 0
      BY <3>1, EmptySeq
    <3> QED
      BY <3>1, <3>2
  <2>2. CASE s # <<>>
    <3>1. /\ 1 \in 1..Len(s) /\ s[1] \in Frame
      BY <1>2, <2>2
    <3>2. /\ g \in Frame /\ g.type = s[1].type /\ g.at = s[1].at /\ g.left = s[1].left \ {c}
      BY <3>1 DEF Frame
    <3>3. below = [s EXCEPT ![1] = g]
      BY <2>2
    <3> HIDE DEF g, below, s
    <3>4. /\ below \in Seq(Frame) /\ Len(below) = Len(s)
          /\ \A i \in 1..Len(s) : below[i] = IF i = 1 THEN g ELSE s[i]
      BY <1>2, <3>1, <3>2, <3>3, ExceptSeq
    <3> QED
      BY <3>2, <3>4
  <2> QED
    BY <2>1, <2>2
<1>7. stack[t] = s /\ frame = [type |-> c, at |-> "lock", left |-> Uses[c]]
  OBVIOUS
<1> HIDE DEF below, frame, s
<1>5. CASE pInstance[c]
  <2>1. stack' \in [Thread -> Seq(Frame)] /\ stack'[t] = below
        /\ \A u \in Thread : u # t => stack'[u] = stack[u]
    BY <1>1, <1>4, <1>5 DEF LifeTypeOK
  <2>2. DOMAIN below = 1..Len(s)
    BY <1>4, LenProperties
  <2>3. \A i \in 1..Len(s) : i + 0 = i /\ i - 0 = i
    BY <1>2
  <2> DEFINE none == 0
  <2>4. none # 1 /\ Len(below) = Len(s) + none /\ \A i \in DOMAIN below : i - none \in DOMAIN s
    BY <1>2, <1>4, <2>2, <2>3
  <2>5. \A i \in DOMAIN s :
          /\ i + none \in DOMAIN below
          /\ below[i + none].type = s[i].type /\ below[i + none].at = s[i].at
          /\ below[i + none].left = IF i = 1 THEN s[i].left \ {c} ELSE s[i].left
    BY <1>2, <1>4, <2>2, <2>3
  <2>6. Called(t, c, none)
    <3> HIDE DEF none
    <3> QED
      BY <1>7, <2>1, <2>4, <2>5 DEF Called
  <2> QED
    BY <1>5, <2>6
<1>6. CASE ~pInstance[c]
  <2> DEFINE more == <<frame>> \o below
  <2>1. /\ <<frame>> \in Seq(Frame) /\ Len(<<frame>>) = 1 /\ <<frame>>[1] = frame
    BY <1>3
  <2>2. /\ more \in Seq(Frame) /\ Len(more) = 1 + Len(s)
        /\ \A i \in 1..(1 + Len(s)) : more[i] = IF i <= 1 THEN <<frame>>[i] ELSE below[i - 1]
    BY <1>4, <2>1, ConcatProperties
  <2>3. DOMAIN more = 1..(1 + Len(s))
    BY <2>2, LenProperties
  <2>4. stack' = [stack EXCEPT ![t] = more]
    BY <1>1, <1>6
  <2> HIDE DEF more
  <2>5. stack' \in [Thread -> Seq(Frame)] /\ stack'[t] = more
        /\ \A u \in Thread : u # t => stack'[u] = stack[u]
    BY <2>2, <2>4 DEF LifeTypeOK
  <2>6. /\ \A i \in 1..Len(s) : i + 1 \in 1..(1 + Len(s)) /\ ~(i + 1 <= 1) /\ (i + 1) - 1 = i
        /\ \A i \in 1..(1 + Len(s)) : i > 1 => i - 1 \in 1..Len(s)
        /\ 1 \in 1..(1 + Len(s)) /\ Len(s) + 1 = 1 + Len(s)
    BY <1>2
  <2>7. more[1] = frame /\ \A i \in 1..Len(s) : more[i + 1] = below[i]
    BY <2>1, <2>2, <2>6
  <2>9. Len(more) = Len(s) + 1 /\ \A i \in DOMAIN more : i > 1 => i - 1 \in DOMAIN s
    BY <1>2, <2>2, <2>3, <2>6
  <2>10. \A i \in DOMAIN s :
          /\ i + 1 \in DOMAIN more
          /\ more[i + 1].type = s[i].type /\ more[i + 1].at = s[i].at
          /\ more[i + 1].left = IF i = 1 THEN s[i].left \ {c} ELSE s[i].left
    <3>1. \A i \in DOMAIN s : i + 1 \in DOMAIN more /\ more[i + 1] = below[i]
      BY <1>2, <2>3, <2>6, <2>7
    <3>2. \A i \in DOMAIN s :
            /\ below[i].type = s[i].type /\ below[i].at = s[i].at
            /\ below[i].left = IF i = 1 THEN s[i].left \ {c} ELSE s[i].left
      BY <1>2, <1>4
    <3> QED
      BY <3>1, <3>2
  <2>8. Called(t, c, 1)
    BY <1>7, <2>5, <2>7, <2>9, <2>10 DEF Called
  <2> QED
    BY <1>6, <2>8
<1> QED
  BY <1>5, <1>6

LEMMA RunCall ==
  ASSUME LifeInv, ~exiting, NEW t \in Thread, NEW c \in Type, Call(t, c)
  PROVE  LifeInv'
<1> DEFINE k == IF pInstance[c] THEN 0 ELSE 1
<1>1. Called(t, c, k) /\ LifeTypeOK /\ Frames /\ Exclusive /\ Made /\ Ordered
  BY StackCall DEF LifeInv, Running
<1>2. /\ k \in {0, 1} /\ (k = 0 => pInstance[c])
      /\ UNCHANGED <<pInstance, built, live, locked, list, handlers, exiting>>
      /\ fault' \in {"none", "race", "raw", "dead"} /\ (fault' = "dead" => fault = "dead")
      /\ stack[t] # <<>> => stack[t][1].at = "create"
  <2>1. stack[t] # <<>> => stack[t][1].at = "create"
    <3>1. stack[t] # <<>> => 1 \in DOMAIN stack[t] /\ Top(t) = stack[t][1]
      BY <1>1, StackShape
    <3> QED
      BY <1>1, <3>1 DEF Call, At, Frames, FrameSound
  <2> QED
    BY <1>1, <2>1 DEF Call, LifeTypeOK
<1> HIDE DEF k
<1>3. /\ \A u \in Thread : /\ DOMAIN stack[u] = 1..Len(stack[u]) /\ Len(stack[u]) \in Nat
                          /\ DOMAIN stack'[u] = 1..Len(stack'[u]) /\ Len(stack'[u]) \in Nat
      /\ stack' \in [Thread -> Seq(Frame)]
  BY <1>1, StackShape, LenProperties DEF Called
<1>4. LifeTypeOK'
  BY <1>1, <1>2, <1>3 DEF LifeTypeOK
<1>5. ASSUME NEW u \in Thread, NEW i \in DOMAIN stack'[u]
      PROVE  FrameSound(stack[u][i].at, stack[u][i].type)' /\ Nested(u, i)'
  <2>1. CASE u # t
    <3>1. stack'[u] = stack[u] /\ FrameSound(stack[u][i].at, stack[u][i].type) /\ Nested(u, i)
      BY <1>1, <2>1 DEF Called, Frames
    <3> QED
      BY <1>2, <3>1 DEF FrameSound, Nested, Listed
  <2>2. CASE u = t /\ i <= k
    <3>1. i = 1 /\ k = 1
      BY <1>2, <1>3, <2>2
    <3>2. stack'[u][i].at = "lock" /\ stack'[u][i].left = Uses[stack'[u][i].type]
      BY <1>1, <2>2, <3>1 DEF Called
    <3> QED
      BY <3>1, <3>2 DEF FrameSound, Nested, Holding
  <2>3. CASE u = t /\ i > k
    <3> DEFINE j == i - k
    <3>1. /\ j \in DOMAIN stack[t] /\ i = j + k /\ j \in Nat \ {0}
          /\ stack'[t][i].type = stack[t][j].type /\ stack'[t][i].at = stack[t][j].at
          /\ stack'[t][i].left = IF j = 1 THEN stack[t][j].left \ {c} ELSE stack[t][j].left
      <4>1. j \in DOMAIN stack[t] /\ j \in Nat \ {0} /\ i = j + k
        BY <1>1, <1>2, <1>3, <2>3 DEF Called
      <4> HIDE DEF j
      <4> QED
        BY <1>1, <4>1 DEF Called
    <3> HIDE DEF j
    <3>2. FrameSound(stack[t][j].at, stack[t][j].type) /\ Nested(t, j)
      BY <1>1, <3>1 DEF Frames
    <3>3. FrameSound(stack[u][i].at, stack[u][i].type)'
      BY <1>2, <2>3, <3>1, <3>2 DEF FrameSound, Listed
    <3>4. i > 1 => stack'[t][i].at = "create"
      <4>1. CASE j = 1
        <5>1. stack[t] # <<>>
          BY <1>3, <3>1, <4>1, StackShape, <1>1
        <5> QED
          BY <1>2, <3>1, <4>1, <5>1
      <4>2. CASE j # 1
        BY <3>1, <3>2, <4>2 DEF Nested
      <4> QED
        BY <4>1, <4>2
    <3>5. ASSUME stack[t][j].at \in {"lock", "create"}, NEW d \in Uses[stack[t][j].type] \ stack'[t][i].left
          PROVE  pInstance[d] \/ (i > 1 /\ stack'[t][i - 1].type = d)
      <4>1. CASE j # 1
        <5>0. d \in Uses[stack[t][j].type] \ stack[t][j].left
          BY <3>1, <3>5, <4>1
        <5>1. pInstance[d] \/ (j > 1 /\ stack[t][j - 1].type = d)
          BY <3>2, <3>5, <5>0 DEF Nested
        <5>2. /\ j - 1 \in DOMAIN stack[t] /\ i - 1 = (j - 1) + k /\ i > 1
          BY <1>2, <1>3, <3>1, <4>1
        <5>3. stack'[t][i - 1].type = stack[t][j - 1].type
          BY <1>1, <5>2 DEF Called
        <5> QED
          BY <5>1, <5>2, <5>3
      <4>2. CASE j = 1 /\ d # c
        BY <3>1, <3>2, <3>5, <4>2 DEF Nested
      <4>3. CASE j = 1 /\ d = c
        <5>1. k = 1 => i = 2 /\ i - 1 = 1 /\ stack'[t][1].type = c
          BY <1>1, <3>1, <4>3 DEF Called
        <5> QED
          BY <1>2, <4>3, <5>1
      <4> QED
        BY <4>1, <4>2, <4>3
    <3> QED
      BY <1>2, <2>3, <3>1, <3>3, <3>4, <3>5 DEF Nested
  <2> QED
    BY <1>2, <1>3, <2>1, <2>2, <2>3
<1>6. Frames'
  BY <1>5 DEF Frames
<1>7. ASSUME NEW u \in Thread, NEW i \in DOMAIN stack'[u], stack'[u][i].at \in Holding
      PROVE  \E j \in DOMAIN stack[u] :
               /\ j = IF u = t THEN i - k ELSE i
               /\ stack[u][j].at = stack'[u][i].at /\ stack[u][j].type = stack'[u][i].type
  <2>1. CASE u # t
    BY <1>1, <2>1 DEF Called
  <2>2. CASE u = t
    <3>1. i > k
      <4>1. SUFFICES ASSUME i <= k PROVE FALSE
        BY <1>2, <1>3
      <4>2. i = 1 /\ k = 1
        BY <1>2, <1>3, <4>1
      <4>3. stack'[u][i].at = "lock"
        BY <1>1, <2>2, <4>2 DEF Called
      <4> QED
        BY <1>7, <4>3 DEF Holding
    <3> DEFINE j == i - k
    <3>2. j \in DOMAIN stack[t] /\ i = j + k
      BY <1>1, <1>2, <1>3, <2>2, <3>1 DEF Called
    <3> HIDE DEF j
    <3>3. stack'[t][i].type = stack[t][j].type /\ stack'[t][i].at = stack[t][j].at
      BY <1>1, <3>2 DEF Called
    <3>4. j = i - k
      BY DEF j
    <3> QED
      BY <2>2, <3>2, <3>3, <3>4
  <2> QED
    BY <2>1, <2>2
<1>8. Exclusive'
  <2> SUFFICES ASSUME NEW u \in Thread, NEW v \in Thread,
                      NEW i \in DOMAIN stack'[u], NEW j \in DOMAIN stack'[v],
                      stack'[u][i].at \in Holding, stack'[v][j].at \in Holding,
                      stack'[u][i].type = stack'[v][j].type
               PROVE  u = v /\ i = j
    BY DEF Exclusive
  <2>1. PICK m \in DOMAIN stack[u] :
          /\ m = IF u = t THEN i - k ELSE i
          /\ stack[u][m].at = stack'[u][i].at /\ stack[u][m].type = stack'[u][i].type
    BY <1>7
  <2>2. PICK n \in DOMAIN stack[v] :
          /\ n = IF v = t THEN j - k ELSE j
          /\ stack[v][n].at = stack'[v][j].at /\ stack[v][n].type = stack'[v][j].type
    BY <1>7
  <2>3. u = v /\ m = n
    BY <1>1, <2>1, <2>2 DEF Exclusive
  <2> QED
    BY <1>2, <1>3, <2>1, <2>2, <2>3
<1>9. ASSUME NEW u \in Thread, NEW j \in DOMAIN stack[u]
      PROVE  \E i \in DOMAIN stack'[u] :
               stack[u][j].at = stack'[u][i].at /\ stack[u][j].type = stack'[u][i].type
  <2>1. CASE u # t
    BY <1>1, <2>1 DEF Called
  <2>2. CASE u = t
    <3>1. /\ j + k \in DOMAIN stack'[t] /\ stack'[t][j + k].type = stack[t][j].type
          /\ stack'[t][j + k].at = stack[t][j].at
      BY <1>1, <2>2 DEF Called
    <3> QED
      BY <2>2, <3>1
  <2> QED
    BY <2>1, <2>2
<1>10. Made'
  <2>1. /\ live' \subseteq Listed' /\ \A d \in Listed' : pInstance'[d]
        /\ \A d \in Type : pInstance'[d] => \A e \in Uses[d] : pInstance'[e]
    BY <1>1, <1>2 DEF Made, Listed
  <2>2. ASSUME NEW d \in Type, pInstance'[d], d \notin live'
        PROVE  \E u \in Thread : \E i \in DOMAIN stack'[u] :
                 stack'[u][i].type = d /\ stack'[u][i].at \in Holding
    <3>1. PICK u \in Thread :
            \E j \in DOMAIN stack[u] : stack[u][j].type = d /\ stack[u][j].at \in Holding
      BY <1>1, <1>2, <2>2 DEF Made
    <3>2. PICK j \in DOMAIN stack[u] : stack[u][j].type = d /\ stack[u][j].at \in Holding
      BY <3>1
    <3> QED
      BY <1>9, <3>2
  <2> QED
    BY <2>1, <2>2 DEF Made
<1>11. Ordered'
  BY <1>1, <1>2 DEF Ordered
<1>12. ~exiting' /\ fault' # "dead"
  BY <1>2 DEF LifeInv
<1> QED
  BY <1>4, <1>6, <1>8, <1>10, <1>11, <1>12 DEF LifeInv, Running

(* The call on top, which makes c and holds its lock, goes on.             *)
Going(t, c, place) ==
  /\ stack[t] # <<>> /\ stack[t][1].type = c
  /\ place \in Holding /\ Moved(t, place) /\ c \in Type
  /\ stack[t][1].at \in Holding \/ c \notin locked
  /\ place = "create" => stack[t][1].at = "lock"
  /\ live' = live /\ locked \subseteq locked' /\ locked' \subseteq Type
  /\ pInstance' \in [Type -> BOOLEAN]
  /\ \A d \in Type : d # c => pInstance'[d] = pInstance[d]
  /\ pInstance[c] => pInstance'[c]
  /\ pInstance'[c] => pInstance[c] \/ \A e \in Uses[c] : pInstance[e]
  /\ \A d \in Type : d # c => (d \in Listed' <=> d \in Listed)
  /\ Listed \subseteq Listed' /\ (c \in Listed' => pInstance'[c])
  /\ Listed' \subseteq Type
  /\ FrameSound(place, c)'

LEMMA GoingOn ==
  ASSUME LifeTypeOK, Running, NEW t \in Thread, NEW c, NEW place, Going(t, c, place)
  PROVE  Running'
<1>1. /\ \A u \in Thread : /\ DOMAIN stack'[u] = DOMAIN stack[u] /\ DOMAIN stack[u] = 1..Len(stack[u])
                           /\ Len(stack[u]) \in Nat
                           /\ \A i \in DOMAIN stack[u] : stack[u][i] \in Frame /\ stack[u][i].type \in Type
      /\ 1 \in DOMAIN stack[t] /\ stack[t][1].type = c /\ c \in Type
      /\ \A u \in Thread : \A i \in DOMAIN stack[u] :
            /\ stack'[u][i].type = stack[u][i].type
            /\ stack'[u][i].left = stack[u][i].left
            /\ stack'[u][i].at = IF u = t /\ i = 1 THEN place ELSE stack[u][i].at
  <2>1. \A u \in Thread : \A i \in DOMAIN stack[u] : stack[u][i] \in Frame /\ stack[u][i].type \in Type
    BY StackShape DEF Frame
  <2> QED
    BY <2>1, StackShape DEF Going, Moved
<1>2. Frames /\ Exclusive /\ Made
  BY DEF Running
<1>3. ASSUME NEW u \in Thread, NEW i \in DOMAIN stack[u], ~(u = t /\ i = 1),
             stack[u][i].at \in Holding
      PROVE  stack[u][i].type # c
  <2>1. CASE stack[t][1].at \in Holding
    BY <1>1, <1>2, <1>3, <2>1 DEF Exclusive
  <2>2. CASE c \notin locked
    BY <1>2, <1>3, <2>2 DEF Frames, FrameSound
  <2> QED
    BY <2>1, <2>2 DEF Going
<1>4. Exclusive'
  <2> SUFFICES ASSUME NEW u \in Thread, NEW v \in Thread,
                      NEW i \in DOMAIN stack'[u], NEW j \in DOMAIN stack'[v],
                      stack'[u][i].at \in Holding, stack'[v][j].at \in Holding,
                      stack'[u][i].type = stack'[v][j].type
               PROVE  u = v /\ i = j
    BY DEF Exclusive
  <2>1. CASE u = t /\ i = 1
    BY <1>1, <1>3, <2>1
  <2>2. CASE v = t /\ j = 1
    BY <1>1, <1>3, <2>2
  <2>3. CASE ~(u = t /\ i = 1) /\ ~(v = t /\ j = 1)
    <3>1. /\ stack[u][i].at \in Holding /\ stack[v][j].at \in Holding
          /\ stack[u][i].type = stack[v][j].type /\ i \in DOMAIN stack[u] /\ j \in DOMAIN stack[v]
      BY <1>1, <2>3
    <3> QED
      BY <1>2, <3>1 DEF Exclusive
  <2> QED
    BY <2>1, <2>2, <2>3
<1>5. ASSUME NEW u \in Thread, NEW i \in DOMAIN stack'[u]
      PROVE  FrameSound(stack[u][i].at, stack[u][i].type)'
  <2>1. CASE u = t /\ i = 1
    <3>1. stack'[u][i].at = place /\ stack'[u][i].type = c
      BY <1>1, <2>1
    <3> QED
      BY <3>1 DEF Going, FrameSound
  <2>2. CASE ~(u = t /\ i = 1)
    <3> DEFINE a == stack[u][i].at
               d == stack[u][i].type
    <3>1. stack'[u][i].at = a /\ stack'[u][i].type = d /\ d \in Type
      BY <1>1, <2>2
    <3>2. FrameSound(a, d) /\ (a \in Holding => d # c)
      BY <1>1, <1>2, <1>3, <2>2 DEF Frames
    <3> HIDE DEF a, d
    <3>3. a \in Holding => /\ d \in locked' \/ d \notin locked
                           /\ d \in Listed' <=> d \in Listed
                           /\ pInstance'[d] = pInstance[d]
      BY <3>1, <3>2 DEF Going
    <3> QED
      BY <3>1, <3>2, <3>3 DEF FrameSound, Holding
  <2> QED
    BY <2>1, <2>2
<1>6. ASSUME NEW u \in Thread, NEW i \in DOMAIN stack'[u]
      PROVE  Nested(u, i)'
  <2>1. \A d \in Type : pInstance[d] => pInstance'[d]
    BY DEF Going
  <2>2. Nested(u, i) /\ i \in DOMAIN stack[u] /\ i \in Nat \ {0} /\ stack[u][i] \in Frame
    BY <1>1, <1>2 DEF Frames
  <2>3. i > 1 => i - 1 \in DOMAIN stack[u]
    BY <1>1, <2>2
  <2>4. stack'[u][i].at \in {"lock", "create"} => stack[u][i].at \in {"lock", "create"}
    BY <1>1 DEF Going, Holding
  <2>5. ~(u = t /\ i = 1) => stack'[u][i].at = stack[u][i].at
    BY <1>1
  <2>6. Uses[stack[u][i].type] \subseteq Type
    BY <1>1, LifeAssumption
  <2>7. /\ stack'[u][i].type = stack[u][i].type /\ stack'[u][i].left = stack[u][i].left
        /\ i > 1 => stack'[u][i - 1].type = stack[u][i - 1].type
    BY <1>1, <2>2, <2>3
  <2> QED
    BY <2>1, <2>2, <2>4, <2>5, <2>6, <2>7 DEF Nested
<1>7. Made'
  <2>1. /\ live' \subseteq Listed' /\ \A d \in Listed' : pInstance'[d]
    BY <1>2 DEF Made, Going
  <2>2. \A d \in Type : pInstance'[d] => \A e \in Uses[d] : pInstance'[e]
    <3>1. \A d \in Type : Uses[d] \subseteq Type
      BY LifeAssumption
    <3> QED
      BY <1>2, <3>1 DEF Made, Going
  <2>3. ASSUME NEW d \in Type, pInstance'[d], d \notin live'
        PROVE  \E u \in Thread : \E i \in DOMAIN stack'[u] :
                 stack'[u][i].type = d /\ stack'[u][i].at \in Holding
    <3>1. CASE d = c
      BY <1>1, <3>1 DEF Going
    <3>2. CASE d # c
      <4>1. PICK u \in Thread :
              \E j \in DOMAIN stack[u] : stack[u][j].type = d /\ stack[u][j].at \in Holding
        BY <1>2, <2>3, <3>2 DEF Made, Going
      <4>2. PICK j \in DOMAIN stack[u] : stack[u][j].type = d /\ stack[u][j].at \in Holding
        BY <4>1
      <4> QED
        BY <1>1, <3>2, <4>2
    <3> QED
      BY <3>1, <3>2
  <2> QED
    BY <2>1, <2>2, <2>3 DEF Made
<1> QED
  BY <1>4, <1>5, <1>6, <1>7 DEF Running, Frames

(* The call on top returns: c is there, and is no longer locked by it.     *)
Done(t, c) ==
  /\ stack[t] # <<>> /\ stack[t][1].type = c /\ Returned(t) /\ c \in Type
  /\ pInstance[c] /\ UNCHANGED <<pInstance, list>>
  /\ \/ stack[t][1].at = "lock" /\ UNCHANGED <<live, locked>>
     \/ stack[t][1].at = "live" /\ live' = live \cup {c} /\ locked' = locked \ {c}

LEMMA AllDone ==
  ASSUME LifeTypeOK, Running, NEW t \in Thread, NEW c, Done(t, c)
  PROVE  Running'
<1>1. /\ \A u \in Thread : /\ DOMAIN stack'[u] = 1..Len(stack'[u]) /\ Len(stack'[u]) \in Nat
                           /\ DOMAIN stack[u] = 1..Len(stack[u]) /\ Len(stack[u]) \in Nat
                           /\ u # t => stack'[u] = stack[u]
      /\ \A i \in DOMAIN stack'[t] : i + 1 \in DOMAIN stack[t] /\ stack'[t][i] = stack[t][i + 1]
      /\ \A i \in DOMAIN stack[t] : i > 1 => i - 1 \in DOMAIN stack'[t] /\ stack'[t][i - 1] = stack[t][i]
      /\ 1 \in DOMAIN stack[t] /\ stack[t][1].type = c /\ c \in Type
  BY StackShape, LenProperties DEF Done, Returned
<1>2. Frames /\ Exclusive /\ Made
  BY DEF Running
<1>3. ASSUME NEW u \in Thread, NEW i \in DOMAIN stack'[u]
      PROVE  \E j \in DOMAIN stack[u] : /\ stack'[u][i] = stack[u][j] /\ ~(u = t /\ j = 1)
                                        /\ j = IF u = t THEN i + 1 ELSE i
  <2>1. CASE u = t
    BY <1>1, <2>1
  <2>2. CASE u # t
    BY <1>1, <2>2
  <2> QED
    BY <2>1, <2>2
<1>4. Exclusive'
  <2> SUFFICES ASSUME NEW u \in Thread, NEW v \in Thread,
                      NEW i \in DOMAIN stack'[u], NEW j \in DOMAIN stack'[v],
                      stack'[u][i].at \in Holding, stack'[v][j].at \in Holding,
                      stack'[u][i].type = stack'[v][j].type
               PROVE  u = v /\ i = j
    BY DEF Exclusive
  <2>1. PICK m \in DOMAIN stack[u] : stack'[u][i] = stack[u][m] /\ m = IF u = t THEN i + 1 ELSE i
    BY <1>3
  <2>2. PICK n \in DOMAIN stack[v] : stack'[v][j] = stack[v][n] /\ n = IF v = t THEN j + 1 ELSE j
    BY <1>3
  <2>3. u = v /\ m = n
    BY <1>2, <2>1, <2>2 DEF Exclusive
  <2>4. i \in Nat /\ j \in Nat
    BY <1>1
  <2> QED
    BY <2>1, <2>2, <2>3, <2>4
<1>5. ASSUME NEW u \in Thread, NEW i \in DOMAIN stack'[u]
      PROVE  FrameSound(stack[u][i].at, stack[u][i].type)'
  <2>1. PICK j \in DOMAIN stack[u] : stack'[u][i] = stack[u][j] /\ ~(u = t /\ j = 1)
    BY <1>3
  <2>2. FrameSound(stack[u][j].at, stack[u][j].type)
    BY <1>2 DEF Frames
  <2>3. stack[u][j].at \in Holding => locked' = locked \/ stack[u][j].type # c
    BY <1>1, <1>2, <2>1 DEF Exclusive, Done, Holding
  <2>4. pInstance' = pInstance /\ list' = list /\ (locked' = locked \/ locked' = locked \ {c})
    BY DEF Done
  <2> QED
    BY <2>1, <2>2, <2>3, <2>4 DEF FrameSound, Listed
<1>6. ASSUME NEW u \in Thread, NEW i \in DOMAIN stack'[u]
      PROVE  Nested(u, i)'
  <2>1. CASE u # t
    <3>1. Nested(u, i) /\ stack'[u] = stack[u] /\ pInstance' = pInstance
      BY <1>1, <1>2, <2>1 DEF Frames, Done
    <3> QED
      BY <3>1 DEF Nested
  <2>2. CASE u = t
    <3>1. /\ i + 1 \in DOMAIN stack[t] /\ stack'[t][i] = stack[t][i + 1] /\ i \in Nat \ {0}
          /\ i + 1 > 1 /\ (i + 1) - 1 = i
      BY <1>1, <2>2
    <3>2. Nested(t, i + 1)
      BY <1>2, <3>1 DEF Frames
    <3>3. i > 1 => i \in DOMAIN stack[t] /\ stack'[t][i - 1] = stack[t][i]
      BY <1>1, <2>2, <3>1
    <3>4. pInstance' = pInstance /\ pInstance[c]
      BY DEF Done
    <3>5. stack'[t][i].at = "create"
      BY <3>1, <3>2 DEF Nested
    <3>6. ASSUME NEW d \in Uses[stack'[t][i].type] \ stack'[t][i].left
          PROVE  pInstance'[d] \/ (i > 1 /\ stack'[t][i - 1].type = d)
      <4>1. pInstance[d] \/ stack[t][i].type = d
        BY <3>1, <3>2, <3>5, <3>6 DEF Nested
      <4>2. i = 1 \/ i > 1
        BY <3>1
      <4> QED
        BY <1>1, <3>3, <3>4, <4>1, <4>2
    <3> QED
      BY <2>2, <3>5, <3>6 DEF Nested
  <2> QED
    BY <2>1, <2>2
<1>7. Made'
  <2>1. /\ live' \subseteq Listed' /\ \A d \in Listed' : pInstance'[d]
        /\ \A d \in Type : pInstance'[d] => \A e \in Uses[d] : pInstance'[e]
    <3>1. stack[t][1].at = "live" => c \in Listed
      BY <1>1, <1>2 DEF Frames, FrameSound
    <3>2. Listed' = Listed /\ pInstance' = pInstance /\ (live' = live \/ (c \in Listed /\ live' = live \cup {c}))
      BY <3>1 DEF Done, Listed
    <3> QED
      BY <1>2, <3>2 DEF Made
  <2>3. ASSUME NEW d \in Type, pInstance'[d], d \notin live'
        PROVE  \E u \in Thread : \E i \in DOMAIN stack'[u] :
                 stack'[u][i].type = d /\ stack'[u][i].at \in Holding
    <3>1. PICK u \in Thread :
            \E j \in DOMAIN stack[u] : stack[u][j].type = d /\ stack[u][j].at \in Holding
      BY <1>2, <2>3 DEF Made, Done
    <3>2. PICK j \in DOMAIN stack[u] : stack[u][j].type = d /\ stack[u][j].at \in Holding
      BY <3>1
    <3>3. ~(u = t /\ j = 1)
      BY <1>1, <2>3, <3>2 DEF Done, Holding
    <3>4. u = t => j > 1
      BY <1>1, <3>3
    <3>5. u = t => j - 1 \in DOMAIN stack'[u] /\ stack'[u][j - 1] = stack[u][j]
      BY <1>1, <3>4
    <3> QED
      BY <1>1, <3>2, <3>5
  <2> QED
    BY <2>1, <2>3 DEF Made
<1> QED
  BY <1>4, <1>5, <1>6, <1>7 DEF Running, Frames

-----------------------------------------------------------------------------
LEMMA LongevityIsNat == \A d \in Type : Longevity[d] \in Nat
BY LifeAssumption

LEMMA WithSound ==
  ASSUME list \in Seq(Type), NEW c \in Type, NEW k \in 0..Len(list)
  PROVE  /\ With(c, k) \in Seq(Type) /\ Len(With(c, k)) = Len(list) + 1
         /\ \A i \in 1..(Len(list) + 1) :
              With(c, k)[i] = IF i <= k THEN list[i] ELSE IF i = k + 1 THEN c ELSE list[i - 1]
<1> DEFINE n == Len(list)
           a == SubSeq(list, 1, k)
           b == SubSeq(list, k + 1, n)
           m == a \o <<c>>
<1>1. n \in Nat /\ k \in Nat /\ k <= n
  BY LenProperties
<1>2. a \in Seq(Type) /\ Len(a) = k /\ \A i \in 1..k : a[i] = list[i]
  <2>1. /\ a \in Seq(Type)
        /\ Len(a) = IF 1 <= k THEN k - 1 + 1 ELSE 0
        /\ \A i \in 1..(k - 1 + 1) : a[i] = list[1 + i - 1]
    <3>1. 1 \in 1..(n + 1) /\ k \in 0..n
      BY <1>1
    <3> QED
      BY <1>1, <3>1, SubSeqProperties
  <2> QED
    BY <1>1, <2>1
<1>3. b \in Seq(Type) /\ Len(b) = n - k /\ \A i \in 1..(n - k) : b[i] = list[k + i]
  <2>1. /\ b \in Seq(Type)
        /\ Len(b) = IF k + 1 <= n THEN n - (k + 1) + 1 ELSE 0
        /\ \A i \in 1..(n - (k + 1) + 1) : b[i] = list[(k + 1) + i - 1]
    <3>1. k + 1 \in 1..(n + 1) /\ n \in k..n
      BY <1>1
    <3> QED
      BY <1>1, <3>1, SubSeqProperties
  <2> QED
    BY <1>1, <2>1
<1> HIDE DEF a, b
<1>4. <<c>> \in Seq(Type) /\ Len(<<c>>) = 1 /\ <<c>>[1] = c
  OBVIOUS
<1>5. /\ m \in Seq(Type) /\ Len(m) = k + 1
      /\ \A i \in 1..(k + 1) : m[i] = IF i <= k THEN a[i] ELSE <<c>>[i - k]
  BY <1>2, <1>4, ConcatProperties
<1> HIDE DEF m
<1>9. (k + 1) + (n - k) = n + 1
  BY <1>1
<1> HIDE DEF n
<1>6. /\ m \o b \in Seq(Type) /\ Len(m \o b) = n + 1
      /\ \A i \in 1..(n + 1) : (m \o b)[i] = IF i <= k + 1 THEN m[i] ELSE b[i - (k + 1)]
  <2>1. /\ m \o b \in Seq(Type) /\ Len(m \o b) = Len(m) + Len(b)
        /\ \A i \in 1..(Len(m) + Len(b)) : (m \o b)[i] = IF i <= Len(m) THEN m[i] ELSE b[i - Len(m)]
    BY <1>3, <1>5, ConcatProperties
  <2>2. Len(m) = k + 1 /\ Len(m) + Len(b) = n + 1
    BY <1>3, <1>5, <1>9
  <2> QED
    BY <2>1, <2>2
<1>7. With(c, k) = m \o b
  BY DEF With, m, a, b, n
<1>8. ASSUME NEW i \in 1..(n + 1)
      PROVE  (m \o b)[i] = IF i <= k THEN list[i] ELSE IF i = k + 1 THEN c ELSE list[i - 1]
  <2>1. (m \o b)[i] = IF i <= k + 1 THEN m[i] ELSE b[i - (k + 1)]
    BY <1>1, <1>6
  <2>2. CASE i <= k
    <3>1. i \in 1..k /\ i \in 1..(k + 1) /\ i <= k + 1
      BY <1>1, <2>2
    <3>2. (m \o b)[i] = m[i] /\ m[i] = a[i] /\ a[i] = list[i]
      BY <1>2, <1>5, <2>1, <2>2, <3>1
    <3> QED
      BY <2>2, <3>2
  <2>3. CASE i = k + 1
    BY <1>1, <1>4, <1>5, <2>1, <2>3
  <2>4. CASE i > k + 1
    <3>1. i - (k + 1) \in 1..(n - k) /\ k + (i - (k + 1)) = i - 1
      BY <1>1, <2>4
    <3> QED
      BY <1>1, <1>3, <2>1, <2>4, <3>1
  <2>5. i <= k \/ i = k + 1 \/ i > k + 1
    BY <1>1
  <2> QED
    BY <2>2, <2>3, <2>4, <2>5
<1> QED
  BY <1>6, <1>7, <1>8 DEF n

(* The type that SetLongevity puts in keeps the list in its order.         *)
LEMMA InsertSound ==
  ASSUME LifeTypeOK, Ordered, NEW t \in Thread, Insert(t),
         NEW c \in Type, c = Top(t).type, c \notin Listed
  PROVE  list' \in Seq(Type) /\ Ordered' /\ Listed' = Listed \cup {c}
<1>1. PICK k \in 0..Len(list) :
        /\ \A i \in DOMAIN list : Longevity[list[i]] >= Longevity[c] <=> i <= k
        /\ list' = With(c, k)
  BY DEF Insert
<1> DEFINE n == Len(list)
<1>2. /\ list \in Seq(Type) /\ n \in Nat /\ DOMAIN list = 1..n
      /\ \A i \in 1..n : list[i] \in Type
  <2>1. list \in Seq(Type)
    BY DEF LifeTypeOK
  <2> QED
    BY <2>1, LenProperties, ElementOfSeq
<1>3. /\ list' \in Seq(Type) /\ Len(list') = n + 1
      /\ \A i \in 1..(n + 1) :
           list'[i] = IF i <= k THEN list[i] ELSE IF i = k + 1 THEN c ELSE list[i - 1]
  <2>1. /\ With(c, k) \in Seq(Type) /\ Len(With(c, k)) = Len(list) + 1
        /\ \A i \in 1..(Len(list) + 1) :
             With(c, k)[i] = IF i <= k THEN list[i] ELSE IF i = k + 1 THEN c ELSE list[i - 1]
    BY <1>2, WithSound
  <2> QED
    BY <1>1, <2>1
<1>4. DOMAIN list' = 1..(n + 1)
  BY <1>3, LenProperties
<1>5. k \in Nat /\ k <= n
  BY <1>2
<1>6. \A d \in Type : Longevity[d] \in Nat
  BY LongevityIsNat
<1>7. handlers' = Len(list')
  BY <1>3 DEF Ordered, Insert
<1> HIDE DEF n
<1>8. ASSUME NEW i \in 1..(n + 1), NEW j \in 1..(n + 1), i < j
      PROVE  list'[i] # list'[j] /\ Longevity[list'[i]] >= Longevity[list'[j]]
  <2>1. \A x \in 1..n : list[x] # c
    BY <1>2 DEF Listed
  <2>2. \A x, y \in 1..n : x < y => list[x] # list[y] /\ Longevity[list[x]] >= Longevity[list[y]]
    BY <1>2 DEF Ordered
  <2>3. \A x \in 1..n : Longevity[list[x]] \in Nat /\ (Longevity[list[x]] >= Longevity[c] <=> x <= k)
    BY <1>1, <1>2, <1>6
  <2>4. Longevity[c] \in Nat
    BY <1>6
  <2>5. CASE j <= k
    <3>1. i \in 1..n /\ j \in 1..n /\ i <= k
      BY <1>2, <1>5, <1>8, <2>5
    <3> QED
      BY <1>3, <1>8, <2>2, <2>5, <3>1
  <2>6. CASE j = k + 1
    <3>1. i \in 1..n /\ i <= k /\ ~(j <= k)
      BY <1>2, <1>5, <1>8, <2>6
    <3> QED
      BY <1>3, <2>1, <2>3, <2>6, <3>1
  <2>7. CASE j > k + 1
    <3>1. j - 1 \in 1..n /\ ~(j <= k) /\ j # k + 1 /\ ~(j - 1 <= k)
      BY <1>2, <1>5, <1>8, <2>7
    <3>2. list'[j] = list[j - 1]
      BY <1>3, <3>1
    <3>3. CASE i <= k
      <4>1. i \in 1..n /\ i < j - 1
        BY <1>2, <1>5, <2>7, <3>3
      <4> QED
        BY <1>3, <2>2, <3>1, <3>2, <3>3, <4>1
    <3>4. CASE i = k + 1
      <4>1. list'[i] = c
        BY <1>3, <1>5, <3>4
      <4>2. ~(Longevity[list[j - 1]] >= Longevity[c])
        BY <2>3, <3>1
      <4>3. Longevity[c] >= Longevity[list[j - 1]] /\ list[j - 1] # c
        BY <2>1, <2>3, <2>4, <3>1, <4>2
      <4> QED
        BY <3>2, <4>1, <4>3
    <3>5. CASE i > k + 1
      <4>1. i - 1 \in 1..n /\ i - 1 < j - 1 /\ ~(i <= k) /\ i # k + 1
        BY <1>2, <1>5, <1>8, <3>5
      <4> QED
        BY <1>3, <2>2, <3>1, <3>2, <4>1
    <3> QED
      BY <1>2, <1>5, <3>3, <3>4, <3>5
  <2> QED
    BY <1>2, <1>5, <2>5, <2>6, <2>7
<1>9. Ordered'
  <2>1. \A i, j \in 1..(n + 1) : i # j => i < j \/ j < i
    BY <1>2
  <2> QED
    BY <1>4, <1>7, <1>8, <2>1 DEF Ordered
<1>10. ASSUME NEW d \in Listed' PROVE d \in Listed \cup {c}
  <2>1. PICK i \in 1..(n + 1) : d = list'[i]
    BY <1>4, <1>10 DEF Listed
  <2>2. CASE i <= k
    <3>1. i \in 1..n
      BY <1>2, <1>5, <2>2
    <3> QED
      BY <1>2, <1>3, <2>1, <2>2, <3>1 DEF Listed
  <2>3. CASE i = k + 1
    BY <1>3, <1>5, <2>1, <2>3
  <2>4. CASE i > k + 1
    <3>1. i - 1 \in 1..n /\ ~(i <= k) /\ i # k + 1
      BY <1>2, <1>5, <2>4
    <3> QED
      BY <1>2, <1>3, <2>1, <3>1 DEF Listed
  <2> QED
    BY <1>2, <1>5, <2>2, <2>3, <2>4
<1>11. c \in Listed'
  <2>1. k + 1 \in 1..(n + 1) /\ ~(k + 1 <= k)
    BY <1>2, <1>5
  <2>2. list'[k + 1] = c
    BY <1>3, <2>1
  <2> QED
    BY <1>4, <2>1, <2>2 DEF Listed
<1>12. ASSUME NEW d \in Listed PROVE d \in Listed'
  <2>1. PICK x \in 1..n : d = list[x]
    BY <1>2, <1>12 DEF Listed
  <2>2. CASE x <= k
    <3>1. x \in 1..(n + 1) /\ list'[x] = d
      BY <1>2, <1>3, <2>1, <2>2
    <3> QED
      BY <1>4, <3>1 DEF Listed
  <2>3. CASE ~(x <= k)
    <3>1. x + 1 \in 1..(n + 1) /\ ~(x + 1 <= k) /\ x + 1 # k + 1 /\ (x + 1) - 1 = x
      BY <1>2, <1>5, <2>3
    <3>2. list'[x + 1] = d
      BY <1>3, <2>1, <3>1
    <3> QED
      BY <1>4, <3>1, <3>2 DEF Listed
  <2> QED
    BY <2>2, <2>3
<1> QED
  BY <1>3, <1>9, <1>10, <1>11, <1>12

-----------------------------------------------------------------------------
(***************************************************************************)
(* Before main returns.                                                    *)
(***************************************************************************)
LEMMA TopSound ==
  ASSUME LifeInv, ~exiting, NEW t \in Thread, stack[t] # <<>>
  PROVE  /\ LifeTypeOK /\ Ordered /\ Running /\ Top(t) = stack[t][1]
         /\ Top(t).type \in Type /\ FrameSound(Top(t).at, Top(t).type)
         /\ Top(t).at = "create" =>
              \A d \in Uses[Top(t).type] \ Top(t).left : pInstance[d]
<1>1. LifeTypeOK /\ Ordered /\ Running /\ Frames
  BY DEF LifeInv, Running
<1>2. 1 \in DOMAIN stack[t] /\ Top(t) = stack[t][1] /\ Top(t) \in Frame
  BY <1>1, StackShape
<1>3. FrameSound(Top(t).at, Top(t).type) /\ Nested(t, 1)
  BY <1>1, <1>2 DEF Frames
<1>4. \A d \in Uses[Top(t).type] \ Top(t).left : Top(t).at = "create" => pInstance[d]
  BY <1>2, <1>3 DEF Nested
<1> QED
  BY <1>1, <1>2, <1>3, <1>4 DEF Frame

LEMMA RunCheck ==
  ASSUME LifeInv, ~exiting, fault = "none", NEW t \in Thread, Check(t)
  PROVE  LifeInv'
<1>0. PICK c : c = Top(t).type
  OBVIOUS
<1>1. /\ LifeTypeOK /\ Ordered /\ Running /\ Top(t) = stack[t][1]
      /\ c \in Type /\ stack[t] # <<>> /\ stack[t][1].at = "lock" /\ c \notin locked
  BY <1>0, TopSound DEF Check, At
<1>2. /\ live \subseteq Listed /\ \A d \in Listed : pInstance[d]
  BY <1>1 DEF Running, Made
<1>3. /\ \/ pInstance[c] /\ Return(t) /\ locked' = locked
         \/ ~pInstance[c] /\ Goto(t, "create") /\ locked' = locked \cup {c}
      /\ fault' = fault
      /\ UNCHANGED <<pInstance, built, live, list, handlers, exiting>>
  BY <1>0, <1>1, <1>2 DEF Check
<1>4. CASE pInstance[c]
  <2>1. Returned(t)
    BY <1>1, <1>3, <1>4, StackReturn
  <2>2. Done(t, c)
    BY <1>0, <1>1, <1>3, <1>4, <2>1 DEF Done
  <2> QED
    BY <1>1, <1>3, <1>4, <2>1, <2>2, AllDone DEF LifeInv, LifeTypeOK, Ordered, Returned
<1>5. CASE ~pInstance[c]
  <2>1. Moved(t, "create")
    BY <1>1, <1>3, <1>5, StackGoto
  <2>2. Listed' = Listed /\ Listed \subseteq Type
    <3>1. list \in Seq(Type)
      BY <1>1 DEF LifeTypeOK
    <3>2. \A i \in DOMAIN list : list[i] \in Type
      BY <3>1, LenProperties, ElementOfSeq
    <3> QED
      BY <1>3, <3>2 DEF Listed
  <2>3. FrameSound("create", c)'
    BY <1>2, <1>3, <1>5, <2>2 DEF FrameSound, Holding
  <2>4. Going(t, c, "create")
    BY <1>0, <1>1, <1>2, <1>3, <1>5, <2>1, <2>2, <2>3 DEF Going, Holding, LifeTypeOK
  <2>5. Running'
    BY <1>1, <2>4, GoingOn
  <2> QED
    BY <1>1, <1>3, <1>5, <2>1, <2>5 DEF LifeInv, LifeTypeOK, Ordered, Moved
<1> QED
  BY <1>4, <1>5

LEMMA ListedType == LifeTypeOK => Listed \subseteq Type
<1> SUFFICES ASSUME LifeTypeOK PROVE Listed \subseteq Type
  OBVIOUS
<1>1. list \in Seq(Type)
  BY DEF LifeTypeOK
<1>2. \A i \in DOMAIN list : list[i] \in Type
  BY <1>1, LenProperties, ElementOfSeq
<1> QED
  BY <1>2 DEF Listed

LEMMA RunCreate ==
  ASSUME LifeInv, ~exiting, fault = "none", NEW t \in Thread, Create(t)
  PROVE  LifeInv'
<1>0. PICK c : c = Top(t).type
  OBVIOUS
<1>1. /\ LifeTypeOK /\ Ordered /\ Running /\ Top(t) = stack[t][1]
      /\ c \in Type /\ stack[t] # <<>> /\ stack[t][1].at = "create"
      /\ c \in locked /\ c \notin Listed /\ ~pInstance[c]
      /\ \A e \in Uses[c] : pInstance[e]
  BY <1>0, TopSound DEF Create, At, FrameSound, Holding
<1>2. /\ pInstance' = [pInstance EXCEPT ![c] = TRUE]
      /\ \/ built' = built \cup {c} /\ Goto(t, "track")
         \/ built' = built /\ Goto(t, "built")
      /\ UNCHANGED <<live, locked, list, handlers, exiting, fault>>
  BY <1>0 DEF Create
<1>3. PICK place \in {"track", "built"} : Moved(t, place)
  BY <1>1, <1>2, StackGoto
<1>4. /\ pInstance' \in [Type -> BOOLEAN] /\ pInstance'[c]
      /\ \A d \in Type : d # c => pInstance'[d] = pInstance[d]
  BY <1>1, <1>2 DEF LifeTypeOK
<1>5. Listed' = Listed /\ Listed \subseteq Type
  BY <1>1, <1>2, ListedType DEF Listed
<1>6. FrameSound(place, c)'
  BY <1>1, <1>2, <1>4, <1>5 DEF FrameSound, Holding
<1>7. Going(t, c, place)
  BY <1>0, <1>1, <1>2, <1>3, <1>4, <1>5, <1>6 DEF Going, Holding, LifeTypeOK
<1>8. Running'
  BY <1>1, <1>7, GoingOn
<1>9. LifeTypeOK'
  BY <1>1, <1>2, <1>3, <1>4 DEF LifeTypeOK, Moved
<1> QED
  BY <1>1, <1>2, <1>8, <1>9 DEF LifeInv, Ordered

(* The steps that change neither the pointer nor the list.                 *)
LEMMA RunStep ==
  ASSUME LifeInv, ~exiting, fault = "none", NEW t \in Thread, Built(t) \/ Track(t)
  PROVE  LifeInv'
<1>0. PICK c : c = Top(t).type
  OBVIOUS
<1>1. /\ LifeTypeOK /\ Ordered /\ Running /\ Top(t) = stack[t][1]
      /\ c \in Type /\ stack[t] # <<>> /\ stack[t][1].at \in {"built", "track"}
      /\ c \in locked /\ c \notin Listed /\ pInstance[c]
  BY <1>0, TopSound DEF Built, Track, At, FrameSound, Holding
<1>2. PICK place \in {"track", "insert"} :
      /\ Goto(t, place) /\ built' \in {built, built \cup {c}}
      /\ fault' \in {"none", "race"}
      /\ UNCHANGED <<pInstance, live, locked, list, handlers, exiting>>
  BY <1>0 DEF Built, Track
<1>4. Moved(t, place)
  BY <1>1, <1>2, StackGoto
<1>5. Listed' = Listed /\ Listed \subseteq Type
  BY <1>1, <1>2, ListedType DEF Listed
<1>6. FrameSound(place, c)'
  BY <1>1, <1>2, <1>5 DEF FrameSound, Holding
<1>7. Going(t, c, place)
  BY <1>0, <1>1, <1>2, <1>4, <1>5, <1>6 DEF Going, Holding, LifeTypeOK
<1>8. Running'
  BY <1>1, <1>7, GoingOn
<1>9. LifeTypeOK'
  BY <1>1, <1>2, <1>4 DEF LifeTypeOK, Moved
<1> QED
  BY <1>1, <1>2, <1>8, <1>9 DEF LifeInv, Ordered

LEMMA RunInsert ==
  ASSUME LifeInv, ~exiting, fault = "none", NEW t \in Thread, Insert(t)
  PROVE  LifeInv'
<1>0. PICK c : c = Top(t).type
  OBVIOUS
<1>1. /\ LifeTypeOK /\ Ordered /\ Running /\ Top(t) = stack[t][1]
      /\ c \in Type /\ stack[t] # <<>> /\ stack[t][1].at = "insert"
      /\ c \in locked /\ c \notin Listed /\ pInstance[c]
  BY <1>0, TopSound DEF Insert, At, FrameSound, Holding
<1>2. /\ Goto(t, "live") /\ handlers' = handlers + 1
      /\ UNCHANGED <<pInstance, built, live, locked, exiting, fault>>
  BY DEF Insert
<1>3. list' \in Seq(Type) /\ Ordered' /\ Listed' = Listed \cup {c}
  BY <1>0, <1>1, InsertSound
<1>4. Moved(t, "live")
  BY <1>1, <1>2, StackGoto
<1>5. Listed \subseteq Type
  BY <1>1, ListedType
<1>6. FrameSound("live", c)'
  BY <1>1, <1>2, <1>3 DEF FrameSound, Holding
<1>7. Going(t, c, "live")
  BY <1>0, <1>1, <1>2, <1>3, <1>4, <1>5, <1>6 DEF Going, Holding, LifeTypeOK
<1>8. Running'
  BY <1>1, <1>7, GoingOn
<1>9. LifeTypeOK'
  BY <1>1, <1>2, <1>3, <1>4 DEF LifeTypeOK, Moved
<1> QED
  BY <1>2, <1>3, <1>8, <1>9 DEF LifeInv

LEMMA RunLive ==
  ASSUME LifeInv, ~exiting, fault = "none", NEW t \in Thread, Live(t)
  PROVE  LifeInv'
<1>0. PICK c : c = Top(t).type
  OBVIOUS
<1>1. /\ LifeTypeOK /\ Ordered /\ Running /\ Top(t) = stack[t][1]
      /\ c \in Type /\ stack[t] # <<>> /\ stack[t][1].at = "live" /\ pInstance[c]
  BY <1>0, TopSound DEF Live, At, FrameSound, Holding
<1>2. /\ Return(t) /\ live' = live \cup {c} /\ locked' = locked \ {c}
      /\ UNCHANGED <<pInstance, built, list, handlers, exiting, fault>>
  BY <1>0 DEF Live
<1>3. Returned(t)
  BY <1>1, <1>2, StackReturn
<1>4. Done(t, c)
  BY <1>0, <1>1, <1>2, <1>3 DEF Done
<1>5. Running'
  BY <1>1, <1>4, AllDone
<1>6. LifeTypeOK'
  BY <1>1, <1>2, <1>3 DEF LifeTypeOK, Returned
<1> QED
  BY <1>1, <1>2, <1>5, <1>6 DEF LifeInv, Ordered

(* main returns: no call is left, so each instance is live and listed.     *)
LEMMA RunExit ==
  ASSUME LifeInv, ~exiting, fault = "none", Exit
  PROVE  LifeInv'
<1>1. /\ LifeTypeOK /\ Ordered /\ Frames /\ Made
      /\ exiting' = TRUE /\ \A t \in Thread : stack[t] = <<>>
      /\ UNCHANGED <<pInstance, built, live, locked, list, handlers, stack, fault>>
  BY DEF LifeInv, Running, Exit
<1>2. LifeTypeOK' /\ Ordered'
  BY <1>1 DEF LifeTypeOK, Ordered
<1>3. \A t \in Thread : DOMAIN stack[t] = {}
  BY <1>1, StackShape
<1>4. \A d \in Type : pInstance[d] => d \in live /\ d \in Listed
  BY <1>1, <1>3 DEF Made
<1>5. \A d \in live : d \in Type /\ pInstance[d] /\ Uses[d] \subseteq Type
  BY <1>1, LifeAssumption DEF Made, LifeTypeOK
<1>6. \A d \in live : Uses[d] \subseteq live
  BY <1>1, <1>4, <1>5 DEF Made
<1>7. Ending'
  BY <1>1, <1>4, <1>5, <1>6 DEF Ending, Listed, Made
<1> QED
  BY <1>1, <1>2, <1>7 DEF LifeInv

-----------------------------------------------------------------------------
(***************************************************************************)
(* After main has returned.                                                *)
(***************************************************************************)
(* A handler destroys an instance, and its destructor may wait for the     *)
(* instance of another type, which is gone.                                *)
LEMMA TopEnding ==
  ASSUME LifeInv, exiting, NEW t \in Thread, stack[t] # <<>>
  PROVE  /\ LifeTypeOK /\ Ordered /\ Ending /\ Bottom(t) \in Frame
         /\ Len(stack[t]) \in 1..2 /\ DOMAIN stack[t] = 1..Len(stack[t])
         /\ Len(stack[t]) = 1 => Top(t) = Bottom(t) /\ Top(t).at = "destroy"
         /\ Len(stack[t]) = 2 => /\ Top(t) = stack[t][1] /\ Bottom(t) = stack[t][2]
                                 /\ Top(t).at = "lock" /\ Top(t).type \in live
                                 /\ ~pInstance[Top(t).type]
<1>1. LifeTypeOK /\ Ordered /\ Ending
  BY DEF LifeInv
<1>2. /\ Len(stack[t]) \in Nat /\ Len(stack[t]) > 0 /\ Top(t) = stack[t][1]
      /\ DOMAIN stack[t] = 1..Len(stack[t])
      /\ \A i \in DOMAIN stack[t] : stack[t][i] \in Frame
  BY <1>1, StackShape
<1>3. Len(stack[t]) <= 2
  BY <1>1 DEF Ending
<1>4. Len(stack[t]) \in 1..2 /\ Bottom(t) \in Frame
  <2> DEFINE n == Len(stack[t])
  <2>2. n \in Nat /\ n > 0 /\ n <= 2
    BY <1>2, <1>3
  <2> HIDE DEF n
  <2>3. n \in 1..2 /\ n \in 1..n
    BY <2>2
  <2>1. Len(stack[t]) \in 1..2 /\ Len(stack[t]) \in 1..Len(stack[t])
    BY <2>3 DEF n
  <2> QED
    BY <1>2, <2>1 DEF Bottom
<1>5. Len(stack[t]) = 1 => Top(t) = Bottom(t) /\ Top(t).at = "destroy"
  BY <1>1, <1>2 DEF Ending, Bottom
<1>6. Len(stack[t]) = 2 => /\ Top(t) = stack[t][1] /\ Bottom(t) = stack[t][2]
                           /\ Top(t).at = "lock" /\ Top(t).type \in live
                           /\ ~pInstance[Top(t).type]
  BY <1>1, <1>2 DEF Ending, Bottom
<1> QED
  BY <1>1, <1>2, <1>4, <1>5, <1>6

(* Nothing is made any more.                                               *)
LEMMA EndMakes ==
  ASSUME LifeInv, exiting, NEW t \in Thread
  PROVE  ~Create(t) /\ ~Built(t) /\ ~Track(t) /\ ~Insert(t) /\ ~Live(t)
<1> SUFFICES ASSUME stack[t] # <<>>
             PROVE  Top(t).at \in {"destroy", "lock"}
  BY DEF Create, Built, Track, Insert, Live, At
<1> QED
  BY TopEnding

LEMMA EndCheck ==
  ASSUME LifeInv, exiting, fault = "none", NEW t \in Thread, Check(t)
  PROVE  LifeInv'
<1>1. stack[t] # <<>> /\ Top(t).at = "lock"
  BY DEF Check, At
<1>2. /\ LifeTypeOK /\ Ordered /\ Ending
      /\ Top(t).type \in live /\ ~pInstance[Top(t).type]
  BY <1>1, TopEnding
<1>3. /\ fault' = "dead"
      /\ UNCHANGED <<pInstance, built, live, locked, list, handlers, stack, exiting>>
  BY <1>2 DEF Check
<1>4. LifeTypeOK' /\ Ordered'
  BY <1>2, <1>3 DEF LifeTypeOK, Ordered
<1>5. Ending'
  BY <1>2, <1>3 DEF Ending, Bottom, Listed
<1> QED
  BY <1>3, <1>4, <1>5 DEF LifeInv

(* A destructor calls an instance, which is there or was destroyed.        *)
LEMMA EndCall ==
  ASSUME LifeInv, exiting, fault = "none", NEW t \in Thread, NEW c \in Type, Call(t, c)
  PROVE  LifeInv'
<1>1. stack[t] # <<>> /\ Top(t).at \in {"create", "destroy"} /\ c \in Top(t).left
  BY DEF Call, At
<1>2. /\ LifeTypeOK /\ Ordered /\ Ending /\ Bottom(t) \in Frame
      /\ Len(stack[t]) = 1 /\ Top(t) = Bottom(t) /\ DOMAIN stack[t] = 1..1
  BY <1>1, TopEnding
<1>3. PICK k \in {0, 1} : Called(t, c, k) /\ (pInstance[c] <=> k = 0)
  <2>1. Called(t, c, IF pInstance[c] THEN 0 ELSE 1)
    BY <1>2, StackCall
  <2> QED
    BY <2>1
<1>4. /\ UNCHANGED <<pInstance, built, live, locked, list, handlers, exiting>>
      /\ fault' \in {"none", "raw"}
  BY DEF Call
<1>5. LifeTypeOK' /\ Ordered'
  BY <1>2, <1>3, <1>4 DEF LifeTypeOK, Ordered, Called
<1>6. /\ \A u \in Thread : u # t => stack[u] = <<>> /\ stack'[u] = <<>>
      /\ Len(stack'[t]) = 1 + k /\ stack'[t] # <<>> /\ Bottom(t) = stack[t][1]
  <2>1. \A u \in Thread : u # t => stack[u] = <<>>
    BY <1>1, <1>2 DEF Ending
  <2>2. \A u \in Thread : u # t => stack'[u] = stack[u]
    BY <1>3 DEF Called
  <2>3. Len(stack'[t]) = 1 + k
    BY <1>2, <1>3 DEF Called
  <2>4. stack'[t] \in Seq(Frame)
    BY <1>3 DEF Called
  <2>5. stack'[t] # <<>>
    BY <2>3, <2>4, EmptySeq
  <2> QED
    BY <1>2, <2>1, <2>2, <2>3, <2>5 DEF Bottom
<1>7. /\ Bottom(t)'.type = Bottom(t).type /\ Bottom(t)'.at = Bottom(t).at
      /\ Bottom(t)'.left = Bottom(t).left \ {c}
  BY <1>2, <1>3, <1>6 DEF Bottom, Called
<1>8. k = 1 => stack'[t][1].at = "lock" /\ stack'[t][1].type = c /\ ~pInstance[c]
  BY <1>3 DEF Called
<1>9. c \in live
  <2>1. Bottom(t).type \in Type /\ Bottom(t).left \subseteq Uses[Bottom(t).type] /\ pInstance[Bottom(t).type]
    BY <1>1, <1>2 DEF Ending, Frame
  <2> QED
    BY <1>1, <1>2, <2>1 DEF Ending
<1>10. Ending'
  <2>1. Listed' = Listed /\ Len(stack'[t]) <= 2 /\ (Len(stack'[t]) = 2 => k = 1)
    BY <1>3, <1>4, <1>6 DEF Listed
  <2>2. /\ Bottom(t).at = "destroy" /\ Bottom(t).left \subseteq Uses[Bottom(t).type]
        /\ pInstance[Bottom(t).type] /\ Bottom(t).type \notin Listed
        /\ \A d \in Listed : Longevity[Bottom(t).type] <= Longevity[d]
    BY <1>1, <1>2 DEF Ending
  <2>3. \A u \in Thread : stack'[u] # <<>> =>
          /\ Bottom(u)'.at = "destroy" /\ Bottom(u)'.left \subseteq Uses[Bottom(u)'.type]
          /\ pInstance'[Bottom(u)'.type] /\ Bottom(u)'.type \notin Listed'
          /\ \A d \in Listed' : Longevity[Bottom(u)'.type] <= Longevity[d]
          /\ Len(stack'[u]) <= 2
          /\ Len(stack'[u]) = 2 =>
               stack'[u][1].at = "lock" /\ stack'[u][1].type \in live' /\ ~pInstance'[stack'[u][1].type]
    BY <1>4, <1>6, <1>7, <1>8, <1>9, <2>1, <2>2
  <2>4. \A u, v \in Thread : stack'[u] # <<>> /\ stack'[v] # <<>> => u = v
    BY <1>6
  <2>5. \A d \in Type : pInstance'[d] =>
          d \in live' /\ (d \in Listed' \/ \E u \in Thread : stack'[u] # <<>> /\ Bottom(u)'.type = d)
    <3>1. \A d \in Type : pInstance[d] => d \in live /\ (d \in Listed \/ Bottom(t).type = d)
      BY <1>2, <1>6 DEF Ending
    <3> QED
      BY <1>4, <1>6, <1>7, <2>1, <3>1
  <2>6. /\ \A d \in Listed' : pInstance'[d]
        /\ \A d \in live' : Uses[d] \subseteq live'
        /\ \A d \in live', e \in Type : ~pInstance'[d] /\ pInstance'[e] => Longevity[d] <= Longevity[e]
    BY <1>2, <1>4, <2>1 DEF Ending
  <2> QED
    BY <2>3, <2>4, <2>5, <2>6 DEF Ending
<1> QED
  BY <1>4, <1>5, <1>10 DEF LifeInv

(* A handler takes the last type of the list, of the lowest longevity.     *)
LEMMA EndHandler ==
  ASSUME LifeInv, exiting, fault = "none", NEW t \in Thread, atExitFn(t)
  PROVE  LifeInv'
<1> DEFINE n == Len(list)
<1>0. PICK c : c = list[n]
  OBVIOUS
<1>1. /\ LifeTypeOK /\ Ordered /\ Ending
      /\ \A u \in Thread : stack[u] = <<>>
      /\ handlers > 0 /\ list # <<>>
  BY DEF LifeInv, atExitFn
<1>2. PICK frame : frame = [type |-> c, at |-> "destroy", left |-> Uses[c]]
  OBVIOUS
<1>3. /\ handlers' = handlers - 1 /\ list' = SubSeq(list, 1, n - 1)
      /\ stack' = [stack EXCEPT ![t] = <<frame>>]
      /\ UNCHANGED <<pInstance, built, live, locked, exiting, fault>>
  BY <1>0, <1>2 DEF atExitFn
<1>4. /\ list \in Seq(Type) /\ n \in Nat \ {0} /\ DOMAIN list = 1..n /\ handlers = n
      /\ \A i \in 1..n : list[i] \in Type
  <2>1. list \in Seq(Type)
    BY <1>1 DEF LifeTypeOK
  <2>2. n \in Nat /\ DOMAIN list = 1..n /\ n > 0
    BY <1>1, <2>1, LenProperties, EmptySeq
  <2> QED
    BY <1>1, <2>1, <2>2, ElementOfSeq DEF Ordered
<1>5. /\ list' \in Seq(Type) /\ Len(list') = n - 1
      /\ \A i \in 1..(n - 1) : list'[i] = list[i]
  <2>1. /\ SubSeq(list, 1, n - 1) \in Seq(Type)
        /\ Len(SubSeq(list, 1, n - 1)) = IF 1 <= n - 1 THEN (n - 1) - 1 + 1 ELSE 0
        /\ \A i \in 1..((n - 1) - 1 + 1) : SubSeq(list, 1, n - 1)[i] = list[1 + i - 1]
    <3>1. 1 \in 1..(n + 1) /\ n - 1 \in (1 - 1)..n
      BY <1>4
    <3> QED
      BY <1>4, <3>1, SubSeqProperties
  <2> QED
    BY <1>3, <1>4, <2>1
<1> HIDE DEF n
<1>6. DOMAIN list' = 1..(n - 1)
  BY <1>4, <1>5, LenProperties
<1>7. c \in Type /\ c \in Listed
  BY <1>0, <1>4 DEF Listed
<1>8. \A d \in Listed' : d \in Listed /\ d # c /\ Longevity[c] <= Longevity[d]
  <2> SUFFICES ASSUME NEW d \in Listed' PROVE d \in Listed /\ d # c /\ Longevity[c] <= Longevity[d]
    OBVIOUS
  <2>1. PICK i \in 1..(n - 1) : d = list'[i]
    BY <1>6 DEF Listed
  <2>2. i \in 1..n /\ n \in 1..n /\ i < n /\ d = list[i]
    BY <1>4, <1>5, <2>1
  <2>3. list[i] # list[n] /\ Longevity[list[i]] >= Longevity[list[n]]
    BY <1>1, <1>4, <2>2 DEF Ordered
  <2> QED
    BY <1>0, <1>4, <2>2, <2>3, LongevityIsNat DEF Listed
<1>9. \A d \in Listed : d = c \/ d \in Listed'
  <2> SUFFICES ASSUME NEW d \in Listed, d # c PROVE d \in Listed'
    OBVIOUS
  <2>1. PICK i \in 1..n : d = list[i]
    BY <1>4 DEF Listed
  <2>2. i \in 1..(n - 1)
    BY <1>0, <1>4, <2>1
  <2> QED
    BY <1>5, <1>6, <2>1, <2>2 DEF Listed
<1>10. Ordered'
  <2>1. \A i \in 1..(n - 1) : i \in 1..n /\ list'[i] = list[i]
    BY <1>4, <1>5, <1>6
  <2>2. /\ \A i, j \in 1..(n - 1) : i # j => list'[i] # list'[j]
        /\ \A i, j \in 1..(n - 1) : i < j => Longevity[list'[i]] >= Longevity[list'[j]]
    <3>1. /\ \A i, j \in 1..n : i # j => list[i] # list[j]
          /\ \A i, j \in 1..n : i < j => Longevity[list[i]] >= Longevity[list[j]]
      BY <1>1, <1>4 DEF Ordered
    <3> QED
      BY <2>1, <3>1
  <2>3. handlers' = Len(list') /\ DOMAIN list' = 1..(n - 1)
    BY <1>3, <1>4, <1>5, <1>6
  <2> QED
    BY <2>2, <2>3 DEF Ordered
<1>11. /\ frame \in Frame /\ <<frame>> \in Seq(Frame) /\ Len(<<frame>>) = 1
       /\ <<frame>>[1] = frame /\ <<frame>> # <<>>
  <2>1. frame \in Frame
    BY <1>2, <1>7, LifeAssumption DEF Frame
  <2> QED
    BY <2>1
<1>12. /\ stack' \in [Thread -> Seq(Frame)] /\ stack'[t] = <<frame>>
       /\ \A u \in Thread : u # t => stack'[u] = <<>>
  BY <1>1, <1>3, <1>11 DEF LifeTypeOK
<1>13. LifeTypeOK'
  BY <1>1, <1>3, <1>4, <1>5, <1>12 DEF LifeTypeOK
<1>14. /\ Bottom(t)' = frame /\ Len(stack'[t]) = 1 /\ stack'[t] # <<>>
  BY <1>11, <1>12 DEF Bottom
<1>15. frame.type = c /\ frame.at = "destroy" /\ frame.left = Uses[c]
  BY <1>2
<1>16. pInstance[c] /\ \A d \in Type : pInstance[d] => d \in live /\ d \in Listed
  BY <1>1, <1>7 DEF Ending
<1>17. Ending'
  BY <1>1, <1>3, <1>7, <1>8, <1>9, <1>12, <1>14, <1>15, <1>16 DEF Ending
<1> QED
  BY <1>1, <1>3, <1>10, <1>13, <1>17 DEF LifeInv

LEMMA EndDestroy ==
  ASSUME LifeInv, exiting, fault = "none", NEW t \in Thread, DestroySingleton(t)
  PROVE  LifeInv'
<1>0. PICK c : c = Top(t).type
  OBVIOUS
<1>1. stack[t] # <<>> /\ Top(t).at = "destroy"
  BY DEF DestroySingleton, At
<1>2. /\ LifeTypeOK /\ Ordered /\ Ending /\ Len(stack[t]) = 1 /\ Bottom(t).type = c /\ c \in Type
  BY <1>0, <1>1, TopEnding DEF Frame
<1>3. /\ pInstance' = [pInstance EXCEPT ![c] = FALSE] /\ built' = built \ {c}
      /\ UNCHANGED <<live, locked, list, handlers, exiting, fault>>
      /\ Returned(t)
  <2>1. Returned(t)
    BY <1>1, <1>2, StackReturn DEF DestroySingleton
  <2> QED
    BY <1>0, <2>1 DEF DestroySingleton
<1>4. LifeTypeOK' /\ Ordered'
  BY <1>2, <1>3 DEF LifeTypeOK, Ordered, Returned
<1>5. \A u \in Thread : stack'[u] = <<>>
  <2>1. Len(stack'[t]) = 0 /\ stack'[t] \in Seq(Frame)
    BY <1>2, <1>3 DEF Returned
  <2>2. stack'[t] = <<>>
    BY <2>1, EmptySeq
  <2> QED
    BY <1>1, <1>2, <1>3, <2>2 DEF Returned, Ending
<1>6. /\ ~pInstance'[c] /\ \A d \in Type : d # c => pInstance'[d] = pInstance[d]
      /\ Listed' = Listed /\ Listed \subseteq Type /\ c \notin Listed
      /\ \A d \in Listed : Longevity[c] <= Longevity[d]
  <2>1. ~pInstance'[c] /\ \A d \in Type : d # c => pInstance'[d] = pInstance[d]
    BY <1>2, <1>3 DEF LifeTypeOK
  <2>2. Listed' = Listed /\ Listed \subseteq Type
    BY <1>2, <1>3, ListedType DEF Listed
  <2>3. c \notin Listed /\ \A d \in Listed : Longevity[c] <= Longevity[d]
    BY <1>1, <1>2 DEF Ending
  <2> QED
    BY <2>1, <2>2, <2>3
<1>7. \A d \in Type : pInstance'[d] => d \in live /\ d \in Listed
  <2> SUFFICES ASSUME NEW d \in Type, pInstance'[d] PROVE d \in live /\ d \in Listed
    OBVIOUS
  <2>1. d # c /\ pInstance[d]
    BY <1>6
  <2>2. \A u \in Thread : stack[u] # <<>> => Bottom(u).type = c
    BY <1>1, <1>2 DEF Ending
  <2> QED
    BY <1>2, <2>1, <2>2 DEF Ending
<1>8. \A d \in live, e \in Type : ~pInstance'[d] /\ pInstance'[e] => Longevity[d] <= Longevity[e]
  <2> SUFFICES ASSUME NEW d \in live, NEW e \in Type, ~pInstance'[d], pInstance'[e]
               PROVE  Longevity[d] <= Longevity[e]
    OBVIOUS
  <2>1. e \in Listed /\ e # c /\ pInstance[e]
    BY <1>6, <1>7
  <2>2. CASE d = c
    BY <1>6, <2>1, <2>2
  <2>3. CASE d # c
    BY <1>2, <1>6, <2>1, <2>3 DEF Ending, LifeTypeOK
  <2> QED
    BY <2>2, <2>3
<1>9. Ending'
  BY <1>2, <1>3, <1>5, <1>6, <1>7, <1>8 DEF Ending
<1> QED
  BY <1>2, <1>3, <1>4, <1>9 DEF LifeInv

-----------------------------------------------------------------------------
(* A list in the order of longevity, of which a type that makes an         *)
(* instance is no part yet, and what Ending says of the handlers, hold in  *)
(* every state (Instance, SetLongevity and AtExitFn of single.h).          *)
THEOREM LifeInvariant == LifeSpec => []LifeInv
<1>1. LifeInit => LifeInv
  <2> SUFFICES ASSUME LifeInit PROVE LifeInv
    OBVIOUS
  <2>1. /\ <<>> \in Seq(Type) /\ <<>> \in Seq(Frame) /\ Len(<<>>) = 0 /\ DOMAIN <<>> = {}
    OBVIOUS
  <2>2. LifeTypeOK
    BY <2>1 DEF LifeInit, LifeTypeOK
  <2>3. Ordered /\ Listed = {}
    BY <2>1 DEF LifeInit, Ordered, Listed
  <2>4. \A t \in Thread : DOMAIN stack[t] = {}
    BY <2>1 DEF LifeInit
  <2>5. Running
    BY <2>3, <2>4 DEF LifeInit, Running, Frames, Exclusive, Made
  <2> QED
    BY <2>2, <2>3, <2>5 DEF LifeInit, LifeInv
<1>2. LifeInv /\ [LifeNext]_lifeVars => LifeInv'
  <2> SUFFICES ASSUME LifeInv, [LifeNext]_lifeVars PROVE LifeInv'
    OBVIOUS
  <2>1. CASE UNCHANGED lifeVars
    <3>1. Listed' = Listed
      BY <2>1 DEF lifeVars, Listed
    <3>2. LifeTypeOK' /\ Ordered' /\ (fault' = "dead" => exiting')
      BY <2>1 DEF lifeVars, LifeInv, LifeTypeOK, Ordered
    <3>3. Running' = Running
      BY <2>1, <3>1 DEF lifeVars, Running, Frames, FrameSound, Nested, Exclusive, Made
    <3>4. Ending' = Ending
      BY <2>1, <3>1 DEF lifeVars, Ending, Bottom
    <3>5. exiting' = exiting
      BY <2>1 DEF lifeVars
    <3> QED
      BY <3>2, <3>3, <3>4, <3>5 DEF LifeInv
  <2>2. CASE LifeNext /\ ~exiting
    <3>1. fault = "none"
      BY <2>2 DEF LifeNext
    <3>2. CASE \E t \in Thread : \E c \in Type : Call(t, c)
      BY <2>2, <3>2, RunCall
    <3>3. CASE \E t \in Thread : Check(t) \/ Create(t) \/ Built(t) \/ Track(t) \/ Insert(t) \/ Live(t)
      BY <2>2, <3>1, <3>3, RunCheck, RunCreate, RunStep, RunInsert, RunLive
    <3>4. CASE Exit
      BY <2>2, <3>1, <3>4, RunExit
    <3>5. ASSUME NEW t \in Thread PROVE ~atExitFn(t) /\ ~DestroySingleton(t)
      <4>1. ~DestroySingleton(t)
        BY <2>2, TopSound DEF DestroySingleton, At, FrameSound
      <4> QED
        BY <2>2, <4>1 DEF atExitFn
    <3> QED
      BY <2>2, <3>2, <3>3, <3>4, <3>5 DEF LifeNext
  <2>3. CASE LifeNext /\ exiting
    <3>1. fault = "none"
      BY <2>3 DEF LifeNext
    <3>2. CASE \E t \in Thread : \E c \in Type : Call(t, c)
      BY <2>3, <3>1, <3>2, EndCall
    <3>3. CASE \E t \in Thread : Check(t) \/ atExitFn(t) \/ DestroySingleton(t)
      BY <2>3, <3>1, <3>3, EndCheck, EndHandler, EndDestroy
    <3>4. ~Exit
      BY <2>3 DEF Exit
    <3> QED
      BY <2>3, <3>2, <3>3, <3>4, EndMakes DEF LifeNext
  <2>4. exiting \in BOOLEAN
    BY DEF LifeInv, LifeTypeOK
  <2> QED
    BY <2>1, <2>2, <2>3, <2>4
<1> QED
  BY <1>1, <1>2, PTL DEF LifeSpec

(* What single.h promises of longevity: no destructor meets a singleton of *)
(* higher longevity that is gone, each handler finds an instance, and the  *)
(* last one leaves none.                                                   *)
THEOREM LongevityIsKept == LifeSpec => []LongevityKept
<1>1. LifeInv => LongevityKept
  <2> SUFFICES ASSUME LifeInv PROVE LongevityKept
    OBVIOUS
  <2>1. ASSUME NEW t \in Thread, fault = "dead", Len(stack[t]) = 2
        PROVE  Longevity[stack[t][1].type] <= Longevity[stack[t][2].type]
    <3>1. exiting /\ LifeTypeOK
      BY <2>1 DEF LifeInv
    <3>2. stack[t] # <<>>
      <4>1. Len(stack[t]) > 0
        BY <2>1
      <4> QED
        BY <3>1, <4>1, StackShape
    <3>3. /\ Ending /\ Bottom(t) = stack[t][2] /\ Bottom(t).type \in Type
          /\ stack[t][1].type \in live /\ ~pInstance[stack[t][1].type]
      BY <2>1, <3>1, <3>2, TopEnding DEF Frame
    <3> QED
      BY <3>2, <3>3 DEF Ending
  <2>2. Ordered
    BY DEF LifeInv
  <2>3. ASSUME exiting, handlers = 0, \A t \in Thread : stack[t] = <<>>, NEW c \in Type
        PROVE  ~pInstance[c]
    <3>1. list \in Seq(Type) /\ Len(list) = 0
      BY <2>2, <2>3 DEF LifeInv, LifeTypeOK, Ordered
    <3>2. DOMAIN list = {}
      BY <3>1, LenProperties
    <3> QED
      BY <2>3, <3>2 DEF LifeInv, Ending, Listed
  <2> QED
    BY <2>1, <2>2, <2>3 DEF LongevityKept, Ordered
<1> QED
  BY <1>1, LifeInvariant, PTL

-----------------------------------------------------------------------------
(***************************************************************************)
(* TcpClient.  The scans of CHttpRequest find the parts of a URL because   *)
(* Shape says where each of them stands in its text: the host begins       *)
(* behind the slashes, the port and the path end it.  A client owns the    *)
(* descriptor that it names and has not closed (Named) until somebody      *)
(* strays, and the first to stray has closed its own before.               *)
(***************************************************************************)
(* A set of numbers has a least one.                                       *)
LEMMA LeastIs ==
  ASSUME NEW S, S \subseteq Nat, S # {}
  PROVE  \E k \in S : \A n \in S : k <= n
<1> DEFINE less == OpToRel(<, Nat)
<1>1. PICK k \in S : \A n \in S : ~(<<n, k>> \in less)
  BY Zenon, NatLessThanWellFounded, WFMin
<1>2. \A k1, n1 \in Nat : n1 < k1 => <<n1, k1>> \in less
  BY Zenon DEF OpToRel
<1> HIDE DEF less
<1>3. ASSUME NEW n \in S PROVE k <= n
  <2>1. k \in Nat /\ n \in Nat /\ ~(n < k)
    BY <1>1, <1>2
  <2> QED
    BY <2>1
<1> QED
  BY <1>1, <1>3

(* socket() finds the lowest descriptor when one is free.                  *)
LEMMA LowestFree ==
  ASSUME FreeFd # {}
  PROVE  Lowest \in FreeFd
<1>1. FreeFd \subseteq Nat
  BY SocketAssumption DEF FreeFd
<1>2. \E f \in FreeFd : \A g \in FreeFd : f <= g
  BY <1>1, LeastIs
<1> QED
  BY <1>2 DEF Lowest

-----------------------------------------------------------------------------
(***************************************************************************)
(* The parts of a URL.                                                     *)
(***************************************************************************)
LEMMA FirstFound ==
  ASSUME NEW s, NEW S, Len(s) \in Nat, NEW i \in Nat, NEW j \in i..Len(s),
         s[j] \in S, \A n \in i..(j - 1) : s[n] \notin S
  PROVE  FirstIn(s, i, S) = j
<1> DEFINE found == {n \in i..Len(s) : s[n] \in S}
<1>1. j \in found
  OBVIOUS
<1>2. \A n \in found : j <= n
  OBVIOUS
<1>3. \A m \in found : (\A n \in found : m <= n) => m = j
  <2>1. \A m \in found : m <= j /\ j <= m => m = j
    OBVIOUS
  <2> QED
    BY <1>1, <1>2, <2>1
<1>4. (CHOOSE m \in found : \A n \in found : m <= n) = j
  <2> HIDE DEF found
  <2> QED
    BY <1>1, <1>2, <1>3
<1> QED
  BY <1>1, <1>4 DEF FirstIn

LEMMA FirstMissing ==
  ASSUME NEW s, NEW S, Len(s) \in Nat, NEW i \in Nat, \A n \in i..Len(s) : s[n] \notin S
  PROVE  FirstIn(s, i, S) = Len(s) + 1
BY DEF FirstIn

(* The characters that the code and a URL have.                            *)
Char == STRING \cup Digits \cup {":", "/", "h", "t", "p", "s"}

LEMMA CharsAre ==
  /\ STRING \subseteq Char /\ Digits \subseteq Char
  /\ http \in Seq(Char) /\ Len(http) = 4 /\ http[1] = "h" /\ http[2] = "t" /\ http[3] = "t" /\ http[4] = "p"
  /\ https \in Seq(Char) /\ Len(https) = 5 /\ https[5] = "s"
  /\ \A i \in 1..4 : https[i] = http[i]
<1>1. /\ STRING \subseteq Char /\ Digits \subseteq Char
      /\ "h" \in Char /\ "t" \in Char /\ "p" \in Char /\ "s" \in Char
  BY DEF Char
<1> HIDE DEF Char
<1>2. /\ http \in Seq(Char) /\ Len(http) = 4 /\ http[1] = "h" /\ http[2] = "t" /\ http[3] = "t" /\ http[4] = "p"
  BY <1>1 DEF http
<1>3. /\ https \in Seq(Char) /\ Len(https) = 5 /\ https[1] = "h" /\ https[2] = "t" /\ https[3] = "t" /\ https[4] = "p"
      /\ https[5] = "s"
  BY <1>1 DEF https
<1>4. \A i \in 1..4 : i = 1 \/ i = 2 \/ i = 3 \/ i = 4
  OBVIOUS
<1> QED
  BY <1>1, <1>2, <1>3, <1>4

LEMMA PrefixIs ==
  ASSUME NEW s \in Seq(Char), NEW r \in Seq(Char)
  PROVE  IsPrefix(r, s) <=> Len(r) <= Len(s) /\ \A i \in 1..Len(r) : r[i] = s[i]
<1>1. Len(r) \in Nat /\ Len(s) \in Nat
  BY LenProperties
<1>2. SubSeq(r, 1, Len(r)) = r
  BY SubSeqFull
<1>3. ASSUME Len(r) <= Len(s)
      PROVE  SubSeq(s, 1, Len(r)) = r <=> \A i \in 1..Len(r) : r[i] = s[i]
  <2> DEFINE n == Len(r)
             w == SubSeq(s, 1, n)
  <2>1. 1 \in 1..(Len(s) + 1) /\ n \in 0..Len(s) /\ n - 1 + 1 = n
    BY <1>1, <1>3
  <2>2. w \in Seq(Char) /\ Len(w) = n /\ \A i \in 1..n : w[i] = s[i]
    <3>1. /\ w \in Seq(Char) /\ Len(w) = IF 1 <= n THEN n - 1 + 1 ELSE 0
          /\ \A i \in 1..(n - 1 + 1) : w[i] = s[1 + i - 1]
      BY <2>1, SubSeqProperties
    <3> QED
      BY <1>1, <2>1, <3>1
  <2> HIDE DEF w
  <2>3. (\A i \in 1..n : w[i] = r[i]) => w = r
    BY <2>2, SeqEqual
  <2> QED
    BY <2>2, <2>3 DEF w
<1> QED
  BY <1>1, <1>2, <1>3 DEF IsPrefix

(* What stands before the host, and the port with its colon.               *)
SchemePart(u) == IF u.scheme = <<>> THEN <<>> ELSE u.scheme \o <<":", "/", "/">>
PortPart(u) == IF u.port = <<>> THEN <<>> ELSE <<":">> \o u.port

(* The lengths of the first two, three parts of a URL.                     *)
HostAt(u) == Len(SchemePart(u))
PortAt(u) == HostAt(u) + Len(u.host)
PathAt(u) == PortAt(u) + Len(PortPart(u))

(* A string is put together from four.                                     *)
Joined(s, a, b, c, d) ==
  /\ Len(s) = Len(a) + Len(b) + Len(c) + Len(d)
  /\ \A i \in 1..Len(a) : s[i] = a[i]
  /\ \A i \in 1..Len(b) : s[Len(a) + i] = b[i]
  /\ \A i \in 1..Len(c) : s[Len(a) + Len(b) + i] = c[i]
  /\ \A i \in 1..Len(d) : s[Len(a) + Len(b) + Len(c) + i] = d[i]

LEMMA FourParts ==
  ASSUME NEW S, NEW a \in Seq(S), NEW b \in Seq(S), NEW c \in Seq(S), NEW d \in Seq(S),
         NEW s, s = a \o b \o c \o d
  PROVE  s \in Seq(S) /\ Joined(s, a, b, c, d)
<1> DEFINE ab == a \o b
           abc == ab \o c
           l == Len(a)
           m == Len(b)
           n == Len(c)
           o == Len(d)
<1>1. l \in Nat /\ m \in Nat /\ n \in Nat /\ o \in Nat
  BY LenProperties
<1>2. /\ ab \in Seq(S) /\ Len(ab) = l + m
      /\ \A i \in 1..(l + m) : ab[i] = IF i <= l THEN a[i] ELSE b[i - l]
  BY ConcatProperties
<1>9. s = abc \o d
  OBVIOUS
<1> HIDE DEF ab
<1>3. /\ abc \in Seq(S) /\ Len(abc) = Len(ab) + n
      /\ \A i \in 1..(Len(ab) + n) : abc[i] = IF i <= Len(ab) THEN ab[i] ELSE c[i - Len(ab)]
  BY <1>2, ConcatProperties
<1> HIDE DEF abc
<1>4. /\ s \in Seq(S) /\ Len(s) = Len(abc) + o
      /\ \A i \in 1..(Len(abc) + o) : s[i] = IF i <= Len(abc) THEN abc[i] ELSE d[i - Len(abc)]
  BY <1>3, <1>9, ConcatProperties
<1> HIDE DEF l, m, n, o
<1>5. Len(ab) = l + m /\ Len(abc) = l + m + n /\ Len(s) = l + m + n + o
  BY <1>2, <1>3, <1>4
<1>6. ASSUME NEW i \in 1..l PROVE s[i] = a[i]
  <2>1. i \in 1..(l + m) /\ i \in 1..(l + m + n) /\ i \in 1..(l + m + n + o)
        /\ i <= l /\ i <= l + m /\ i <= l + m + n
    BY <1>1
  <2> QED
    BY <1>2, <1>3, <1>4, <1>5, <2>1
<1>7. ASSUME NEW i \in 1..m PROVE s[l + i] = b[i]
  <2>1. l + i \in 1..(l + m) /\ l + i \in 1..(l + m + n) /\ l + i \in 1..(l + m + n + o)
        /\ ~(l + i <= l) /\ l + i <= l + m /\ l + i <= l + m + n /\ (l + i) - l = i
    BY <1>1
  <2> QED
    BY <1>2, <1>3, <1>4, <1>5, <2>1
<1>8. ASSUME NEW i \in 1..n PROVE s[l + m + i] = c[i]
  <2>1. l + m + i \in 1..(l + m + n) /\ l + m + i \in 1..(l + m + n + o)
        /\ ~(l + m + i <= l + m) /\ l + m + i <= l + m + n /\ (l + m + i) - (l + m) = i
    BY <1>1
  <2> QED
    BY <1>3, <1>4, <1>5, <2>1
<1>10. ASSUME NEW i \in 1..o PROVE s[l + m + n + i] = d[i]
  <2>1. l + m + n + i \in 1..(l + m + n + o)
        /\ ~(l + m + n + i <= l + m + n) /\ (l + m + n + i) - (l + m + n) = i
    BY <1>1
  <2> QED
    BY <1>4, <1>5, <2>1
<1> QED
  BY <1>4, <1>5, <1>6, <1>7, <1>8, <1>10 DEF l, m, n, o, Joined

(* Where the parts of a URL are.                                           *)
Shape(u, s) ==
  /\ s \in Seq(Char) /\ HostAt(u) \in Nat /\ Len(u.host) \in Nat \ {0}
  /\ PortAt(u) = HostAt(u) + Len(u.host)
  /\ Len(u.port) \in Nat /\ Len(u.path) \in Nat
  /\ PathAt(u) = PortAt(u) + IF u.port = <<>> THEN 0 ELSE 1 + Len(u.port)
  /\ u.port = <<>> <=> Len(u.port) = 0
  /\ u.path = <<>> <=> Len(u.path) = 0
  /\ Len(s) = PathAt(u) + Len(u.path)
  /\ \A i \in 1..HostAt(u) : s[i] = SchemePart(u)[i]
  /\ \A i \in 1..Len(u.host) :
       s[HostAt(u) + i] = u.host[i] /\ u.host[i] # ":" /\ u.host[i] # "/"
  /\ u.port # <<>> => s[PortAt(u) + 1] = ":"
  /\ \A i \in 1..Len(u.port) : s[PortAt(u) + 1 + i] = u.port[i] /\ u.port[i] \in Digits
  /\ \A i \in 1..Len(u.path) : s[PathAt(u) + i] = u.path[i]
  /\ u.path # <<>> => s[PathAt(u) + 1] = "/"

LEMMA FrontIs ==
  ASSUME NEW u, Written(u)
  PROVE  /\ SchemePart(u) \in Seq(Char)
         /\ u.scheme = <<>> => Len(SchemePart(u)) = 0
         /\ u.scheme # <<>> =>
              /\ Len(SchemePart(u)) = Len(u.scheme) + 3
              /\ \A i \in 1..Len(u.scheme) : SchemePart(u)[i] = u.scheme[i]
              /\ SchemePart(u)[Len(u.scheme) + 1] = ":"
              /\ SchemePart(u)[Len(u.scheme) + 2] = "/" /\ SchemePart(u)[Len(u.scheme) + 3] = "/"
<1>1. CASE u.scheme = <<>>
  BY <1>1 DEF SchemePart
<1>2. CASE u.scheme # <<>>
  <2> DEFINE r == <<":", "/", "/">>
             n == Len(u.scheme)
  <2>1. /\ ":" \in Char /\ "/" \in Char
    BY DEF Char
  <2> HIDE DEF Char
  <2>2. r \in Seq(Char) /\ Len(r) = 3 /\ r[1] = ":" /\ r[2] = "/" /\ r[3] = "/"
    BY <2>1
  <2>3. u.scheme \in Seq(Char) /\ n \in {4, 5}
    BY <1>2, CharsAre DEF Written
  <2>4. SchemePart(u) = u.scheme \o r
    BY <1>2 DEF SchemePart
  <2> HIDE DEF r
  <2>5. /\ SchemePart(u) \in Seq(Char) /\ Len(SchemePart(u)) = n + 3
        /\ \A i \in 1..(n + 3) : SchemePart(u)[i] = IF i <= n THEN u.scheme[i] ELSE r[i - n]
    <3>1. /\ u.scheme \o r \in Seq(Char) /\ Len(u.scheme \o r) = Len(u.scheme) + Len(r)
          /\ \A i \in 1..(Len(u.scheme) + Len(r)) :
               (u.scheme \o r)[i] = IF i <= Len(u.scheme) THEN u.scheme[i] ELSE r[i - Len(u.scheme)]
      BY <2>2, <2>3, ConcatProperties
    <3> QED
      BY <2>2, <2>4, <3>1
  <2> HIDE DEF n
  <2>6. /\ \A i \in 1..n : i \in 1..(n + 3) /\ i <= n
        /\ n + 1 \in 1..(n + 3) /\ n + 2 \in 1..(n + 3) /\ n + 3 \in 1..(n + 3)
        /\ ~(n + 1 <= n) /\ ~(n + 2 <= n) /\ ~(n + 3 <= n)
        /\ (n + 1) - n = 1 /\ (n + 2) - n = 2 /\ (n + 3) - n = 3
    BY <2>3
  <2>7. /\ \A i \in 1..n : SchemePart(u)[i] = u.scheme[i]
        /\ SchemePart(u)[n + 1] = ":" /\ SchemePart(u)[n + 2] = "/" /\ SchemePart(u)[n + 3] = "/"
    BY <2>2, <2>5, <2>6
  <2> QED
    BY <1>2, <2>5, <2>7 DEF n
<1> QED
  BY <1>1, <1>2

LEMMA TextShape ==
  ASSUME NEW u, Written(u)
  PROVE  Shape(u, Text(u))
<1> DEFINE s == Text(u)
<1>1. SchemePart(u) \in Seq(Char)
  BY FrontIs
<1>2. /\ u.host \in Seq(Char) /\ Len(u.host) \in Nat \ {0}
      /\ \A i \in 1..Len(u.host) : u.host[i] # ":" /\ u.host[i] # "/"
  <2>1. u.host \in Seq(STRING \ {":", "/"}) /\ u.host # <<>>
    BY DEF Written
  <2>2. Len(u.host) \in Nat /\ \A i \in 1..Len(u.host) : u.host[i] \in STRING \ {":", "/"}
    BY <2>1, LenProperties, ElementOfSeq
  <2>3. Len(u.host) # 0
    BY <2>1, EmptySeq
  <2>4. STRING \ {":", "/"} \subseteq Char
    BY CharsAre
  <2>5. u.host \in Seq(Char)
    BY <2>1, <2>4, SeqMonotonic
  <2> QED
    BY <2>2, <2>3, <2>5
<1>3. /\ u.port \in Seq(Char) /\ Len(u.port) \in Nat
      /\ \A i \in 1..Len(u.port) : u.port[i] \in Digits
      /\ u.port = <<>> <=> Len(u.port) = 0
  <2>1. u.port \in Seq(Digits) /\ Digits \subseteq Char
    BY CharsAre DEF Written
  <2>2. u.port \in Seq(Char)
    BY <2>1, SeqMonotonic
  <2>3. Len(u.port) \in Nat /\ \A i \in 1..Len(u.port) : u.port[i] \in Digits
    BY <2>1, LenProperties, ElementOfSeq
  <2>4. u.port = <<>> <=> Len(u.port) = 0
    BY <2>1, EmptySeq
  <2> QED
    BY <2>2, <2>3, <2>4
<1>4. /\ u.path \in Seq(Char) /\ Len(u.path) \in Nat
      /\ u.path = <<>> <=> Len(u.path) = 0
      /\ u.path # <<>> => u.path[1] = "/"
  <2>1. u.path \in Seq(Char) /\ (u.path = <<>> \/ u.path[1] = "/")
    BY CharsAre, SeqMonotonic DEF Written
  <2> QED
    BY <2>1, LenProperties, EmptySeq
<1>5. /\ PortPart(u) \in Seq(Char)
      /\ Len(PortPart(u)) = IF u.port = <<>> THEN 0 ELSE 1 + Len(u.port)
      /\ u.port # <<>> => PortPart(u)[1] = ":" /\ \A i \in 1..Len(u.port) : PortPart(u)[1 + i] = u.port[i]
  <2>1. CASE u.port = <<>>
    BY <2>1 DEF PortPart
  <2>2. CASE u.port # <<>>
    <3>1. <<":">> \in Seq(Char) /\ Len(<<":">>) = 1 /\ <<":">>[1] = ":"
      <4>1. ":" \in Char
        BY DEF Char
      <4> HIDE DEF Char
      <4> QED
        BY <4>1
    <3>2. /\ PortPart(u) \in Seq(Char) /\ Len(PortPart(u)) = 1 + Len(u.port)
          /\ \A i \in 1..(1 + Len(u.port)) : PortPart(u)[i] = IF i <= 1 THEN <<":">>[i] ELSE u.port[i - 1]
      BY <1>3, <2>2, <3>1, ConcatProperties DEF PortPart
    <3>3. 1 \in 1..(1 + Len(u.port)) /\ \A i \in 1..Len(u.port) :
            1 + i \in 1..(1 + Len(u.port)) /\ ~(1 + i <= 1) /\ (1 + i) - 1 = i
      BY <1>3
    <3> QED
      BY <2>2, <3>1, <3>2, <3>3
  <2> QED
    BY <2>1, <2>2
<1>6. s = SchemePart(u) \o u.host \o PortPart(u) \o u.path
  BY DEF Text, SchemePart, PortPart
<1> HIDE DEF s
<1>7. /\ s \in Seq(Char)
      /\ Len(s) = Len(SchemePart(u)) + Len(u.host) + Len(PortPart(u)) + Len(u.path)
      /\ \A i \in 1..Len(SchemePart(u)) : s[i] = SchemePart(u)[i]
      /\ \A i \in 1..Len(u.host) : s[Len(SchemePart(u)) + i] = u.host[i]
      /\ \A i \in 1..Len(PortPart(u)) : s[Len(SchemePart(u)) + Len(u.host) + i] = PortPart(u)[i]
      /\ \A i \in 1..Len(u.path) : s[Len(SchemePart(u)) + Len(u.host) + Len(PortPart(u)) + i] = u.path[i]
  <2>1. /\ SchemePart(u) \in Seq(Char) /\ u.host \in Seq(Char)
        /\ PortPart(u) \in Seq(Char) /\ u.path \in Seq(Char)
    BY <1>1, <1>2, <1>4, <1>5
  <2>2. s \in Seq(Char) /\ Joined(s, SchemePart(u), u.host, PortPart(u), u.path)
    BY <1>6, <2>1, FourParts
  <2> QED
    BY <2>2 DEF Joined
<1>8. /\ HostAt(u) = Len(SchemePart(u)) /\ PortAt(u) = Len(SchemePart(u)) + Len(u.host)
      /\ PathAt(u) = Len(SchemePart(u)) + Len(u.host) + Len(PortPart(u)) /\ HostAt(u) \in Nat
  BY <1>1, LenProperties DEF HostAt, PortAt, PathAt
<1>9. u.port # <<>> =>
        /\ s[PortAt(u) + 1] = ":"
        /\ \A i \in 1..Len(u.port) : s[PortAt(u) + 1 + i] = u.port[i]
  <2> SUFFICES ASSUME u.port # <<>>
               PROVE  /\ s[PortAt(u) + 1] = ":"
                      /\ \A i \in 1..Len(u.port) : s[PortAt(u) + 1 + i] = u.port[i]
    OBVIOUS
  <2> DEFINE n == Len(PortPart(u))
             l == Len(u.port)
             m == PortAt(u)
  <2>3. l \in Nat /\ n = 1 + l /\ m \in Nat
    BY <1>2, <1>3, <1>5, <1>8
  <2> HIDE DEF n, l, m
  <2>4. 1 \in 1..n /\ \A i \in 1..l : 1 + i \in 1..n /\ m + 1 + i = m + (1 + i)
    BY <2>3
  <2>1. 1 \in 1..Len(PortPart(u)) /\ \A i \in 1..Len(u.port) :
          1 + i \in 1..Len(PortPart(u)) /\ PortAt(u) + 1 + i = PortAt(u) + (1 + i)
    BY <2>4 DEF n, l, m
  <2>2. \A i \in 1..Len(PortPart(u)) : s[PortAt(u) + i] = PortPart(u)[i]
    BY <1>7, <1>8
  <2> QED
    BY <1>5, <2>1, <2>2
<1>10. u.path # <<>> => 1 \in 1..Len(u.path)
  BY <1>4
<1>11. Len(u.port) = 0 => 1..Len(u.port) = {}
  BY <1>3
<1>12. /\ s \in Seq(Char) /\ HostAt(u) \in Nat /\ Len(u.host) \in Nat \ {0}
       /\ PortAt(u) = HostAt(u) + Len(u.host)
       /\ Len(u.port) \in Nat /\ Len(u.path) \in Nat
       /\ u.port = <<>> <=> Len(u.port) = 0
       /\ u.path = <<>> <=> Len(u.path) = 0
  BY <1>2, <1>3, <1>4, <1>7, <1>8
<1>13. /\ PathAt(u) = PortAt(u) + IF u.port = <<>> THEN 0 ELSE 1 + Len(u.port)
       /\ Len(s) = PathAt(u) + Len(u.path)
  BY <1>5, <1>7, <1>8
<1>14. /\ \A i \in 1..HostAt(u) : s[i] = SchemePart(u)[i]
       /\ \A i \in 1..Len(u.host) :
            s[HostAt(u) + i] = u.host[i] /\ u.host[i] # ":" /\ u.host[i] # "/"
       /\ \A i \in 1..Len(u.path) : s[PathAt(u) + i] = u.path[i]
  BY <1>2, <1>7, <1>8
<1>15. /\ u.port # <<>> => s[PortAt(u) + 1] = ":"
       /\ \A i \in 1..Len(u.port) : s[PortAt(u) + 1 + i] = u.port[i] /\ u.port[i] \in Digits
  BY <1>3, <1>9, <1>11
<1>16. u.path # <<>> => s[PathAt(u) + 1] = "/"
  BY <1>4, <1>10, <1>14
<1> QED
  BY <1>12, <1>13, <1>14, <1>15, <1>16 DEF Shape, s

(* A URL that a scheme or a host that does not look like one begins.       *)
Plain(u) == Written(u) /\ (u.scheme # <<>> \/ ~IsPrefix(http, u.host))

(* The scans skip the scheme and find slashes up to the host.              *)
LEMMA Starts ==
  ASSUME NEW u, Plain(u), NEW s, s = Text(u)
  PROVE  /\ Start(s, 2) = HostAt(u) + 1
         /\ Start(s, 0) \in Nat \ {0} /\ Start(s, 0) <= HostAt(u) + 1
         /\ \A i \in Start(s, 0)..HostAt(u) : s[i] = "/"
         /\ DefaultPort(s) = DefaultPort(u.scheme)
<1> DEFINE n == Len(u.scheme)
           p == HostAt(u)
<1>1. Written(u) /\ Shape(u, s)
  BY TextShape DEF Plain
<1>2. s \in Seq(Char) /\ http \in Seq(Char) /\ https \in Seq(Char) /\ Len(s) \in Nat /\ p \in Nat
  BY <1>1, CharsAre, LenProperties DEF Shape
<1>3. /\ IsPrefix(http, s) <=> 4 <= Len(s) /\ \A i \in 1..4 : http[i] = s[i]
      /\ IsPrefix(https, s) <=> 5 <= Len(s) /\ \A i \in 1..5 : https[i] = s[i]
  <2>1. /\ IsPrefix(http, s) <=> Len(http) <= Len(s) /\ \A i \in 1..Len(http) : http[i] = s[i]
        /\ IsPrefix(https, s) <=> Len(https) <= Len(s) /\ \A i \in 1..Len(https) : https[i] = s[i]
    BY <1>2, PrefixIs
  <2>2. Len(http) = 4 /\ Len(https) = 5
    BY CharsAre
  <2> QED
    BY <2>1, <2>2
<1>4. IsPrefix(https, s) => IsPrefix(http, s)
  <2>1. \A i \in 1..4 : i \in 1..5
    OBVIOUS
  <2> QED
    BY <1>2, <1>3, <2>1, CharsAre
<1>5. CASE u.scheme = <<>>
  <2>1. p = 0
    BY <1>1, <1>5, FrontIs DEF HostAt
  <2>2. ~IsPrefix(http, s)
    <3> SUFFICES ASSUME 4 <= Len(s), \A i \in 1..4 : http[i] = s[i] PROVE FALSE
      BY <1>3
    <3> DEFINE h == Len(u.host)
    <3>4. /\ h \in Nat \ {0} /\ PortAt(u) = 0 + h
          /\ \A i \in 1..h : s[0 + i] = u.host[i]
      BY <1>1, <2>1 DEF Shape
    <3>5. PortAt(u) = h /\ \A i \in 1..h : 0 + i = i
      BY <3>4
    <3>1. /\ h \in Nat \ {0} /\ \A i \in 1..h : s[i] = u.host[i]
      BY <3>4, <3>5
    <3>2. CASE 4 <= h
      <4>1. \A i \in 1..4 : i \in 1..h
        BY <3>1, <3>2
      <4>2. \A i \in 1..4 : http[i] = u.host[i]
        BY <3>1, <4>1
      <4>3. u.host \in Seq(Char)
        <5>1. STRING \ {":", "/"} \subseteq Char
          BY CharsAre
        <5> QED
          BY <1>1, <5>1, SeqMonotonic DEF Written
      <4>4. IsPrefix(http, u.host)
        BY <1>2, <3>2, <4>2, <4>3, CharsAre, PrefixIs
      <4> QED
        BY <1>5, <4>4 DEF Plain
    <3>3. CASE h < 4
      <4>1. s[h + 1] = ":" \/ s[h + 1] = "/"
        <5>1. CASE u.port # <<>>
          BY <1>1, <3>5, <5>1 DEF Shape
        <5>2. CASE u.port = <<>>
          <6>3. PathAt(u) = h + 0 /\ Len(s) = PathAt(u) + Len(u.path) /\ Len(u.path) \in Nat
            BY <1>1, <3>5, <5>2 DEF Shape
          <6>1. Len(s) = h + Len(u.path) /\ Len(u.path) \in Nat /\ PathAt(u) = h
            BY <3>1, <6>3
          <6>2. Len(u.path) # 0
            <7>1. 4 <= h + Len(u.path) /\ h < 4 /\ h \in Nat
              BY <3>1, <3>3, <6>1
            <7> HIDE DEF h
            <7> QED
              BY <6>1, <7>1
          <6> QED
            BY <1>1, <6>1, <6>2 DEF Shape
        <5> QED
          BY <5>1, <5>2
      <4>2. h + 1 = 2 \/ h + 1 = 3 \/ h + 1 = 4
        BY <3>1, <3>3
      <4> HIDE DEF h
      <4>3. s[2] = "t" /\ s[3] = "t" /\ s[4] = "p"
        BY CharsAre
      <4> QED
        BY <4>1, <4>2, <4>3
    <3> QED
      BY <3>1, <3>2, <3>3
  <2>3. ~IsPrefix(https, s)
    BY <1>4, <2>2
  <2>4. ~IsPrefix(https, u.scheme)
    BY <1>5, CharsAre DEF IsPrefix
  <2>5. Start(s, 0) = 1 /\ Start(s, 2) = 1
    BY <2>2, <2>3 DEF Start
  <2> QED
    BY <2>1, <2>3, <2>4, <2>5 DEF DefaultPort
<1>6. CASE u.scheme # <<>>
  <2>1. /\ n \in {4, 5} /\ p = n + 3 /\ Len(s) > 5
        /\ \A i \in 1..n : s[i] = u.scheme[i]
        /\ s[n + 1] = ":" /\ s[n + 2] = "/" /\ s[n + 3] = "/"
    <3>1. n \in {4, 5}
      BY <1>1, <1>6, CharsAre DEF Written
    <3>5. Len(SchemePart(u)) = n + 3
      BY <1>1, <1>6, FrontIs
    <3>6. p = Len(SchemePart(u)) /\ \A i \in 1..p : s[i] = SchemePart(u)[i]
      BY <1>1 DEF Shape, HostAt
    <3>2. p = n + 3 /\ \A i \in 1..p : s[i] = SchemePart(u)[i]
      BY <3>5, <3>6
    <3>3. Len(s) > p
      BY <1>1 DEF Shape
    <3> HIDE DEF n, p
    <3>4. /\ \A i \in 1..n : i \in 1..p
          /\ n + 1 \in 1..p /\ n + 2 \in 1..p /\ n + 3 \in 1..p /\ Len(s) > 5
      BY <1>2, <3>1, <3>2, <3>3
    <3> QED
      BY <1>1, <1>6, <3>1, <3>2, <3>4, FrontIs DEF n
  <2>2. n + 2 \in Nat \ {0} /\ n + 2 <= p + 1 /\ \A i \in (n + 2)..p : i = n + 2 \/ i = n + 3
    <3>4. n \in {4, 5} /\ p = n + 3
      BY <2>1
    <3> HIDE DEF n, p
    <3>1. (n = 4 /\ p = 7) \/ (n = 5 /\ p = 8)
      BY <3>4
    <3>2. CASE n = 4 /\ p = 7
      BY <3>2
    <3>3. CASE n = 5 /\ p = 8
      BY <3>3
    <3> QED
      BY <3>1, <3>2, <3>3
  <2>3. IsPrefix(http, s)
    <3>1. u.scheme \in {http, https}
      BY <1>1, <1>6 DEF Written
    <3>2. \A i \in 1..4 : i \in 1..n /\ u.scheme[i] = http[i]
      <4>1. \A i \in 1..4 : i \in 1..n
        <5>1. n = 4 \/ n = 5
          BY <2>1
        <5> HIDE DEF n
        <5> QED
          BY <5>1
      <4> QED
        BY <3>1, <4>1, CharsAre
    <3>3. \A i \in 1..4 : http[i] = s[i]
      BY <2>1, <3>2
    <3>4. 4 <= Len(s)
      BY <1>2, <2>1
    <3> QED
      BY <1>3, <3>3, <3>4
  <2>4. CASE u.scheme = http
    <3>1. n = 4 /\ s[5] = ":"
      BY <2>1, <2>4, CharsAre
    <3>2. ~IsPrefix(https, s)
      BY <1>3, <3>1, CharsAre
    <3>3. ~IsPrefix(https, u.scheme)
      BY <2>4, CharsAre DEF IsPrefix
    <3>4. Start(s, 0) = n + 2 /\ Start(s, 2) = p + 1
      BY <2>1, <2>3, <3>1, <3>2 DEF Start
    <3> QED
      BY <2>1, <2>2, <3>2, <3>3, <3>4 DEF DefaultPort
  <2>5. CASE u.scheme = https
    <3>1. n = 5
      BY <2>5, CharsAre
    <3>2. IsPrefix(https, s)
      BY <1>2, <1>3, <2>1, <2>5, <3>1
    <3>3. IsPrefix(https, u.scheme)
      BY <1>2, <2>5, <3>1 DEF IsPrefix
    <3>4. Start(s, 0) = n + 2 /\ Start(s, 2) = p + 1
      BY <2>1, <3>1, <3>2 DEF Start
    <3> QED
      BY <2>1, <2>2, <3>2, <3>3, <3>4 DEF DefaultPort
  <2> QED
    BY <1>1, <1>6, <2>4, <2>5 DEF Written
<1> QED
  BY <1>5, <1>6

LEMMA HostIs ==
  ASSUME NEW u, Plain(u), NEW s, s = Text(u)
  PROVE  GetHost(s) = u.host
<1> DEFINE p == HostAt(u)
           h == Len(u.host)
           i == Start(s, 0)
<1>1. Written(u) /\ Shape(u, s)
  BY TextShape DEF Plain
<1>2. /\ p \in Nat /\ h \in Nat \ {0} /\ PortAt(u) = p + h /\ Len(s) \in Nat
      /\ i \in Nat \ {0} /\ i <= p + 1 /\ \A j \in i..p : s[j] = "/"
      /\ \A j \in 1..h : s[p + j] = u.host[j] /\ u.host[j] # ":" /\ u.host[j] # "/"
      /\ s \in Seq(Char) /\ DOMAIN s = 1..Len(s)
  BY <1>1, Starts, LenProperties DEF Shape
<1>3. /\ p + h <= Len(s) /\ (p + h < Len(s) => s[p + h + 1] \in {":", "/"})
  <2> DEFINE r == Len(u.path)
             l == Len(u.port)
  <2>1. /\ r \in Nat /\ l \in Nat /\ (u.path = <<>> <=> r = 0)
        /\ Len(s) = PathAt(u) + r /\ PathAt(u) = (p + h) + IF u.port = <<>> THEN 0 ELSE 1 + l
        /\ u.port # <<>> => s[p + h + 1] = ":"
        /\ u.path # <<>> => s[PathAt(u) + 1] = "/"
    BY <1>1, <1>2 DEF Shape
  <2> HIDE DEF r, l, p, h
  <2>2. CASE u.port # <<>>
    BY <1>2, <2>1, <2>2
  <2>3. CASE u.port = <<>>
    <3>1. PathAt(u) = p + h /\ Len(s) = p + h + r
      BY <1>2, <2>1, <2>3
    <3>2. p + h <= Len(s) /\ (p + h < Len(s) => r # 0)
      BY <1>2, <2>1, <3>1
    <3> QED
      BY <2>1, <3>1, <3>2
  <2> QED
    BY <2>2, <2>3
<1> HIDE DEF p, h, i
<1>4. FirstIn(s, i, Others(s, "/")) = p + 1
  <2>1. p + 1 \in i..Len(s) /\ p + 1 \in 1..Len(s) /\ 1 \in 1..h /\ (p + 1) - 1 = p
    BY <1>2, <1>3
  <2>2. s[p + 1] \in Others(s, "/")
    BY <1>2, <2>1 DEF Others
  <2>3. \A j \in i..p : s[j] \notin Others(s, "/")
    BY <1>2 DEF Others
  <2> QED
    BY <1>2, <2>1, <2>2, <2>3, FirstFound
<1>5. FirstIn(s, (p + 1) + 1, {":", "/"}) = p + h + 1
  <2>1. \A j \in ((p + 1) + 1)..(p + h) : s[j] \notin {":", "/"}
    <3> SUFFICES ASSUME NEW j \in ((p + 1) + 1)..(p + h) PROVE s[j] \notin {":", "/"}
      OBVIOUS
    <3>1. j - p \in 1..h /\ p + (j - p) = j
      BY <1>2
    <3> QED
      BY <1>2, <3>1
  <2>2. CASE p + h < Len(s)
    <3>1. p + h + 1 \in ((p + 1) + 1)..Len(s) /\ (p + h + 1) - 1 = p + h /\ (p + 1) + 1 \in Nat
      BY <1>2, <2>2
    <3> QED
      BY <1>2, <1>3, <2>1, <2>2, <3>1, FirstFound
  <2>3. CASE p + h = Len(s)
    <3>1. (p + 1) + 1 \in Nat
      BY <1>2
    <3>2. \A j \in ((p + 1) + 1)..Len(s) : s[j] \notin {":", "/"}
      BY <2>1, <2>3
    <3>3. FirstIn(s, (p + 1) + 1, {":", "/"}) = Len(s) + 1
      BY <1>2, <3>1, <3>2, FirstMissing
    <3> QED
      BY <2>3, <3>3
  <2>4. p + h \in Nat /\ Len(s) \in Nat /\ p + h <= Len(s)
    BY <1>2, <1>3
  <2>5. p + h < Len(s) \/ p + h = Len(s)
    BY <2>4
  <2> QED
    BY <2>2, <2>3, <2>5
<1>6. SubSeq(s, p + 1, p + h) = u.host
  <2> DEFINE w == SubSeq(s, p + 1, p + h)
  <2>1. p + 1 \in 1..(Len(s) + 1) /\ p + h \in ((p + 1) - 1)..Len(s)
    BY <1>2, <1>3
  <2>2. /\ w \in Seq(Char) /\ Len(w) = IF p + 1 <= p + h THEN (p + h) - (p + 1) + 1 ELSE 0
        /\ \A j \in 1..((p + h) - (p + 1) + 1) : w[j] = s[(p + 1) + j - 1]
    BY <1>2, <2>1, SubSeqProperties
  <2>3. /\ p + 1 <= p + h /\ (p + h) - (p + 1) + 1 = h
        /\ \A j \in 1..h : (p + 1) + j - 1 = p + j
    BY <1>2
  <2>4. Len(w) = h /\ \A j \in 1..h : w[j] = u.host[j]
    BY <1>2, <2>2, <2>3
  <2>5. u.host \in Seq(Char)
    <3>1. STRING \ {":", "/"} \subseteq Char
      BY CharsAre
    <3> QED
      BY <1>1, <3>1, SeqMonotonic DEF Written
  <2> HIDE DEF w
  <2>6. w = u.host
    BY <2>2, <2>4, <2>5, SeqEqual DEF h
  <2> QED
    BY <2>6 DEF w
<1>7. (p + h + 1) - 1 = p + h
  BY <1>2
<1> QED
  BY <1>4, <1>5, <1>6, <1>7 DEF GetHost, i

(* The path begins at the first slash behind the host.                     *)
LEMMA PathFound ==
  ASSUME NEW u, Written(u), NEW s, s = Text(u), NEW i \in Nat, HostAt(u) < i, i <= PathAt(u) + 1
  PROVE  /\ PathAt(u) \in Nat /\ Len(s) \in Nat /\ PathAt(u) <= Len(s)
         /\ u.path # <<>> => FirstIn(s, i, {"/"}) = PathAt(u) + 1 /\ PathAt(u) < Len(s)
         /\ u.path = <<>> => FirstIn(s, i, {"/"}) = Len(s) + 1
<1> DEFINE p == HostAt(u)
           h == Len(u.host)
           l == Len(u.port)
           r == Len(u.path)
           q == PathAt(u)
<1>1. /\ p \in Nat /\ h \in Nat \ {0} /\ l \in Nat /\ r \in Nat
      /\ Len(s) = q + r /\ PortAt(u) = p + h
      /\ q = (p + h) + IF u.port = <<>> THEN 0 ELSE 1 + l
      /\ u.port = <<>> <=> l = 0
      /\ u.path = <<>> <=> r = 0
      /\ \A j \in 1..h : s[p + j] # "/"
      /\ u.port # <<>> => s[p + h + 1] = ":"
      /\ \A j \in 1..l : s[p + h + 1 + j] \in Digits
      /\ u.path # <<>> => s[q + 1] = "/"
  <2>1. Shape(u, s)
    BY TextShape
  <2> QED
    BY <2>1 DEF Shape
<1> HIDE DEF p, h, l, r, q
<1>2. q \in Nat /\ Len(s) \in Nat /\ q <= Len(s) /\ (r # 0 => q < Len(s))
  BY <1>1
<1>3. \A j \in i..q : s[j] \notin {"/"}
  <2> SUFFICES ASSUME NEW j \in i..q PROVE s[j] # "/"
    OBVIOUS
  <2>1. CASE j <= p + h
    <3>1. j - p \in 1..h /\ p + (j - p) = j
      BY <1>1, <1>2, <2>1 DEF p
    <3> QED
      BY <1>1, <3>1
  <2>2. CASE j = p + h + 1
    <3>1. u.port # <<>>
      BY <1>1, <2>2
    <3> QED
      BY <1>1, <2>2, <3>1
  <2>3. CASE j > p + h + 1
    <3>1. j - (p + h + 1) \in 1..l /\ p + h + 1 + (j - (p + h + 1)) = j
      BY <1>1, <2>3
    <3>2. s[j] \in Digits
      BY <1>1, <3>1
    <3> QED
      BY <3>2 DEF Digits
  <2> QED
    BY <1>1, <2>1, <2>2, <2>3
<1>4. CASE u.path # <<>>
  <2>1. q + 1 \in i..Len(s) /\ (q + 1) - 1 = q
    BY <1>1, <1>2, <1>4 DEF q
  <2>3. s[q + 1] \in {"/"}
    BY <1>1, <1>4
  <2>4. \A n \in i..((q + 1) - 1) : s[n] \notin {"/"}
    BY <1>3, <2>1
  <2>2. FirstIn(s, i, {"/"}) = q + 1
    BY <1>2, <2>1, <2>3, <2>4, FirstFound
  <2> QED
    BY <1>1, <1>2, <1>4, <2>2 DEF q
<1>5. CASE u.path = <<>>
  <2>1. q = Len(s)
    BY <1>1, <1>5
  <2> QED
    BY <1>2, <1>3, <1>5, <2>1, FirstMissing DEF q
<1> QED
  BY <1>4, <1>5

LEMMA UriIs ==
  ASSUME NEW u, Plain(u), NEW s, s = Text(u)
  PROVE  GetUri(s) = IF u.path = <<>> THEN <<"/">> ELSE u.path
<1> DEFINE q == PathAt(u)
           r == Len(u.path)
           i == HostAt(u) + 1
<1>1. /\ Written(u) /\ Start(s, 2) = i /\ HostAt(u) \in Nat
      /\ s \in Seq(Char) /\ Len(s) = q + r /\ r \in Nat
      /\ \A j \in 1..r : s[q + j] = u.path[j]
      /\ PortAt(u) = HostAt(u) + Len(u.host) /\ Len(u.host) \in Nat /\ Len(u.port) \in Nat
      /\ q = PortAt(u) + IF u.port = <<>> THEN 0 ELSE 1 + Len(u.port)
      /\ u.path = <<>> <=> r = 0
  BY TextShape, Starts DEF Plain, Shape
<1>2. i \in Nat /\ HostAt(u) < i /\ i <= q + 1
  <2> DEFINE l == Len(u.port)
             h == Len(u.host)
             z == HostAt(u)
             x == IF u.port = <<>> THEN 0 ELSE 1 + l
  <2>1. z \in Nat /\ h \in Nat /\ l \in Nat /\ i = z + 1 /\ q = (z + h) + x
    BY <1>1
  <2>2. x \in Nat
    BY <2>1
  <2> HIDE DEF i, q, z, h, l, x
  <2>3. i \in Nat /\ z < i /\ i <= q + 1
    BY <2>1, <2>2
  <2> QED
    BY <2>3 DEF z
<1>3. /\ q \in Nat /\ Len(s) \in Nat /\ q <= Len(s)
      /\ u.path # <<>> => FirstIn(s, i, {"/"}) = q + 1 /\ q < Len(s)
      /\ u.path = <<>> => FirstIn(s, i, {"/"}) = Len(s) + 1
  BY <1>1, <1>2, PathFound
<1>7. GetUri(s) = IF FirstIn(s, i, {"/"}) <= Len(s) THEN SubSeq(s, FirstIn(s, i, {"/"}), Len(s)) ELSE <<"/">>
  BY <1>1 DEF GetUri
<1> HIDE DEF q, r, i
<1>4. CASE u.path = <<>>
  <2>1. ~(Len(s) + 1 <= Len(s))
    BY <1>3
  <2> QED
    BY <1>3, <1>4, <1>7, <2>1
<1>5. CASE u.path # <<>>
  <2> DEFINE z == Len(s)
             w == SubSeq(s, q + 1, z)
  <2>7. s \in Seq(Char) /\ z = q + r /\ q \in Nat /\ r \in Nat /\ r # 0
    BY <1>1, <1>3, <1>5
  <2>8. q + 1 \in 1..(z + 1) /\ z \in ((q + 1) - 1)..z
    <3> HIDE DEF z
    <3> QED
      BY <2>7
  <2>2. /\ w \in Seq(Char) /\ Len(w) = IF q + 1 <= z THEN z - (q + 1) + 1 ELSE 0
        /\ \A j \in 1..(z - (q + 1) + 1) : w[j] = s[(q + 1) + j - 1]
    BY <2>7, <2>8, SubSeqProperties
  <2>3. /\ q + 1 <= z /\ z - (q + 1) + 1 = r
        /\ \A j \in 1..r : (q + 1) + j - 1 = q + j
    <3> HIDE DEF z
    <3> QED
      BY <2>7
  <2> HIDE DEF w, z
  <2>4. Len(w) = r /\ \A j \in 1..r : w[j] = u.path[j]
    <3>1. \A j \in 1..r : s[q + j] = u.path[j]
      BY <1>1
    <3>2. Len(w) = r /\ \A j \in 1..r : w[j] = s[(q + 1) + j - 1]
      BY <2>2, <2>3
    <3> QED
      BY <2>3, <3>1, <3>2
  <2>5. u.path \in Seq(Char)
    BY <1>1, CharsAre, SeqMonotonic DEF Written
  <2>6. w = u.path
    BY <2>2, <2>4, <2>5, SeqEqual DEF r
  <2> QED
    BY <1>3, <1>5, <1>7, <2>3, <2>6 DEF w, z
<1> QED
  BY <1>4, <1>5

(* The digits that a slash ends.                                           *)
LEMMA DigitsEnd ==
  ASSUME NEW d \in Seq(Digits), NEW w \in Seq(Char), Len(w) = Len(d) + 1,
         \A j \in 1..Len(d) : w[j] = d[j], w[Len(d) + 1] = "/"
  PROVE  atoi(w) = d
<1> DEFINE n == Len(d)
           rest == {w[i] : i \in DOMAIN w} \ Digits
           v == SubSeq(w, 1, n)
<1>1. /\ n \in Nat /\ DOMAIN w = 1..(n + 1) /\ \A j \in 1..n : d[j] \in Digits
      /\ d \in Seq(Char)
  BY CharsAre, SeqMonotonic, LenProperties, ElementOfSeq
<1>2. w[n + 1] \in rest
  <2>1. n + 1 \in DOMAIN w
    BY <1>1
  <2>2. "/" \notin Digits
    BY DEF Digits
  <2> QED
    BY <2>1, <2>2
<1>3. \A j \in 1..n : w[j] \notin rest
  BY <1>1
<1>4. FirstIn(w, 1, rest) = n + 1
  <2> HIDE DEF rest, n
  <2>1. n + 1 \in 1..Len(w) /\ (n + 1) - 1 = n /\ Len(w) \in Nat
    BY <1>1 DEF n
  <2> QED
    BY <1>2, <1>3, <2>1, FirstFound
<1>5. /\ v \in Seq(Char) /\ Len(v) = n /\ \A j \in 1..n : v[j] = d[j]
  <2>1. 1 \in 1..(Len(w) + 1) /\ n \in (1 - 1)..Len(w)
    BY <1>1
  <2>2. /\ v \in Seq(Char) /\ Len(v) = IF 1 <= n THEN n - 1 + 1 ELSE 0
        /\ \A j \in 1..(n - 1 + 1) : v[j] = w[1 + j - 1]
    BY <2>1, SubSeqProperties
  <2>3. n - 1 + 1 = n /\ \A j \in 1..n : 1 + j - 1 = j
    BY <1>1
  <2> HIDE DEF v
  <2> QED
    BY <1>1, <2>2, <2>3
<1>6. v = d
  <2> HIDE DEF v
  <2> QED
    BY <1>1, <1>5, SeqEqual
<1>7. (n + 1) - 1 = n
  BY <1>1
<1> QED
  BY <1>4, <1>6, <1>7 DEF atoi

(* The port is found if a path ends it, and none is found if no colon is   *)
(* in the path.                                                            *)
LEMMA PortIs ==
  ASSUME NEW u, Plain(u), NEW s, s = Text(u),
         u.port # <<>> => u.path # <<>>,
         u.port = <<>> => \A i \in DOMAIN u.path : u.path[i] # ":"
  PROVE  GetPort(s) = IF u.port = <<>> THEN DefaultPort(u.scheme) ELSE u.port
<1> DEFINE p == HostAt(u)
           h == Len(u.host)
           l == Len(u.port)
           r == Len(u.path)
           q == PathAt(u)
           i == Start(s, 0)
<1>1. /\ p \in Nat /\ h \in Nat \ {0} /\ l \in Nat /\ r \in Nat
      /\ s \in Seq(Char) /\ Len(s) = q + r
      /\ q = (p + h) + IF u.port = <<>> THEN 0 ELSE 1 + l
      /\ u.port = <<>> <=> l = 0
      /\ u.path = <<>> <=> r = 0
      /\ \A j \in 1..h : s[p + j] # ":"
      /\ u.port # <<>> => s[p + h + 1] = ":"
      /\ \A j \in 1..l : s[p + h + 1 + j] = u.port[j]
      /\ \A j \in 1..r : s[q + j] = u.path[j]
      /\ u.path # <<>> => s[q + 1] = "/"
  <2>1. Shape(u, s)
    BY TextShape DEF Plain
  <2> QED
    BY <2>1 DEF Shape
<1>2. /\ i \in Nat \ {0} /\ i <= p + 1 /\ \A j \in i..p : s[j] = "/"
      /\ DefaultPort(s) = DefaultPort(u.scheme)
  BY Starts
<1>3. DOMAIN u.path = 1..r
  BY LenProperties DEF Plain, Written
<1>11. GetPort(s) = LET begin == FirstIn(s, i, {":"})
                        end == FirstIn(s, begin + 1, {"/"})
                    IN  IF end <= Len(s) THEN atoi(SubSeq(s, begin + 1, end)) ELSE DefaultPort(s)
  BY DEF GetPort
<1>12. Plain(u) => Written(u) /\ u.port \in Seq(Digits)
  BY DEF Plain, Written
<1> HIDE DEF p, h, l, r, q, i
<1>4. q \in Nat /\ Len(s) \in Nat /\ p + h <= q
  BY <1>1
<1>5. \A j \in i..(p + h) : s[j] \notin {":"}
  <2> SUFFICES ASSUME NEW j \in i..(p + h) PROVE s[j] # ":"
    OBVIOUS
  <2>1. CASE j <= p
    BY <1>2, <2>1, <1>1
  <2>2. CASE j > p
    <3>1. j - p \in 1..h /\ p + (j - p) = j
      BY <1>1, <1>2, <2>2
    <3> QED
      BY <1>1, <3>1
  <2> QED
    BY <1>1, <1>2, <2>1, <2>2
<1>6. CASE u.port # <<>>
  <2> DEFINE b == p + h + 1
             w == SubSeq(s, b + 1, q + 1)
  <2>1. b \in i..Len(s) /\ b - 1 = p + h /\ i \in Nat /\ b + 1 \in Nat /\ p < b + 1 /\ b + 1 <= q + 1
    <3>1. q = p + h + 1 + l /\ Len(s) = q + r
      BY <1>1, <1>6
    <3> QED
      BY <1>1, <1>2, <3>1
  <2>2. FirstIn(s, i, {":"}) = b
    <3>1. s[b] \in {":"} /\ \A n \in i..(b - 1) : s[n] \notin {":"}
      BY <1>1, <1>5, <1>6, <2>1
    <3> HIDE DEF b
    <3> QED
      BY <1>4, <2>1, <3>1, FirstFound
  <2>3. FirstIn(s, b + 1, {"/"}) = q + 1 /\ q < Len(s)
    BY <1>6, <1>12, <2>1, PathFound DEF p, q
  <2>4. w \in Seq(Char) /\ Len(w) = l + 1 /\ \A j \in 1..(l + 1) : w[j] = s[b + j]
    <3>1. b + 1 \in 1..(Len(s) + 1) /\ q + 1 \in ((b + 1) - 1)..Len(s)
      BY <1>1, <1>4, <2>1, <2>3
    <3>2. /\ w \in Seq(Char) /\ Len(w) = IF b + 1 <= q + 1 THEN (q + 1) - (b + 1) + 1 ELSE 0
          /\ \A j \in 1..((q + 1) - (b + 1) + 1) : w[j] = s[(b + 1) + j - 1]
      BY <1>1, <3>1, SubSeqProperties
    <3>3. (q + 1) - (b + 1) + 1 = l + 1 /\ \A j \in 1..(l + 1) : (b + 1) + j - 1 = b + j
      BY <1>1, <1>6
    <3> HIDE DEF w, b
    <3> QED
      BY <2>1, <3>2, <3>3
  <2>5. q + 1 <= Len(s) /\ b + (l + 1) = q + 1
    BY <1>1, <1>4, <1>6, <2>3
  <2>6. atoi(w) = u.port
    <3>1. /\ \A j \in 1..l : j \in 1..(l + 1)
          /\ l + 1 \in 1..(l + 1)
      BY <1>1
    <3>2. \A j \in 1..l : w[j] = u.port[j]
      <4> HIDE DEF w
      <4> QED
        BY <1>1, <2>4, <3>1
    <3>3. w[l + 1] = "/"
      <4> HIDE DEF w, b
      <4> QED
        BY <1>1, <1>6, <2>4, <2>5, <3>1
    <3> HIDE DEF w
    <3>4. u.port \in Seq(Digits) /\ l = Len(u.port)
      BY <1>12 DEF l
    <3> QED
      BY <2>4, <3>2, <3>3, <3>4, DigitsEnd
  <2> QED
    BY <1>6, <1>11, <2>2, <2>3, <2>5, <2>6
<1>7. CASE u.port = <<>>
  <2>1. q = p + h
    BY <1>1, <1>7
  <2>2. \A j \in i..Len(s) : s[j] \notin {":"}
    <3> SUFFICES ASSUME NEW j \in i..Len(s) PROVE s[j] # ":"
      OBVIOUS
    <3>1. CASE j <= p + h
      BY <1>1, <1>2, <1>5, <3>1
    <3>2. CASE j > p + h
      <4>1. j - q \in 1..r /\ q + (j - q) = j
        <5>1. j \in Int /\ j <= q + r /\ j > q /\ q \in Nat /\ r \in Nat
          BY <1>1, <1>2, <1>4, <2>1, <3>2
        <5> QED
          BY <5>1
      <4>2. s[q + (j - q)] = u.path[j - q]
        BY <1>1, <4>1
      <4>3. u.path[j - q] # ":"
        BY <1>3, <1>7, <4>1
      <4> QED
        BY <4>1, <4>2, <4>3
    <3> QED
      BY <1>1, <1>2, <3>1, <3>2
  <2>3. FirstIn(s, i, {":"}) = Len(s) + 1
    BY <1>2, <1>4, <2>2, FirstMissing
  <2>4. (Len(s) + 1) + 1 \in Nat /\ ((Len(s) + 1) + 1)..Len(s) = {} /\ ~(Len(s) + 1 <= Len(s))
    BY <1>4
  <2>5. FirstIn(s, (Len(s) + 1) + 1, {"/"}) = Len(s) + 1
    BY <1>4, <2>4, FirstMissing
  <2> QED
    BY <1>2, <1>7, <1>11, <2>3, <2>4, <2>5
<1> QED
  BY <1>6, <1>7

-----------------------------------------------------------------------------
(***************************************************************************)
(* The invariant.                                                          *)
(***************************************************************************)
(* As long as nobody has strayed, the descriptor that a client names and   *)
(* has not closed itself is its own.                                       *)
Named ==
  strayed = "no" =>
    \A k \in Client : m_socket[k] # Unset /\ k \notin stale => fd[m_socket[k]] = k

(* What a request is sent to was read from its URL.                        *)
Requests ==
  /\ DOMAIN target = Client
  /\ \A k \in Http : url[k] # Unset =>
       target[k] = [host |-> GetHost(Text(url[k])), port |-> GetPort(Text(url[k])),
                    uri |-> GetUri(Text(url[k]))]

SocketInv == SocketTypeOK /\ SocketsOwned /\ Named /\ Requests

(* A client touches the descriptor of another only if it is stale.         *)
LEMMA TouchSound ==
  ASSUME SocketInv, NEW k \in Client, Touch(k)
  PROVE  /\ strayed' \in {"no", "stale"}
         /\ strayed' = "no" => strayed = "no" /\ (m_socket[k] # Unset => fd[m_socket[k]] \in {k, Unset})
<1>1. strayed \in {"no", "stale"}
  BY DEF SocketInv, SocketTypeOK, SocketsOwned
<1>2. strayed = "no" /\ m_socket[k] # Unset /\ k \notin stale => fd[m_socket[k]] = k
  BY DEF SocketInv, Named
<1> QED
  BY <1>1, <1>2 DEF Touch

(* What is asked for stays.                                                *)
LEMMA RequestsKept ==
  ASSUME SocketInv, UNCHANGED <<url, target>>
  PROVE  Requests'
BY DEF SocketInv, Requests

(* A client that only looks at its descriptor changes nothing else.        *)
LEMMA TouchStep ==
  ASSUME SocketInv, NEW k \in Client, Touch(k), at' \in [Client -> {"none", "idle", "send", "recv", "fault"}],
         UNCHANGED <<fd, m_socket, url, target, stale, again>>
  PROVE  SocketInv'
<1>1. SocketTypeOK'
  BY TouchSound DEF SocketInv, SocketTypeOK
<1>2. SocketsOwned'
  BY TouchSound DEF SocketInv, SocketsOwned
<1>3. Named'
  BY TouchSound DEF SocketInv, Named
<1> QED
  BY <1>1, <1>2, <1>3, RequestsKept DEF SocketInv

LEMMA NewStep ==
  ASSUME SocketInv, NEW k \in Client, NewClient(k)
  PROVE  SocketInv'
<1>1. SocketTypeOK'
  BY DEF SocketInv, SocketTypeOK, NewClient
<1>2. SocketsOwned' /\ Named'
  BY DEF SocketInv, SocketsOwned, Named, NewClient
<1> QED
  BY <1>1, <1>2, RequestsKept DEF SocketInv, NewClient

(* Connect gives k a descriptor that nobody has, or none; what it had is   *)
(* either none or makes it one of those that connected again.              *)
LEMMA ConnectStep ==
  ASSUME SocketInv, NEW k \in Client, NEW connected \in BOOLEAN, Connect(k, connected),
         at' \in [Client -> {"none", "idle", "send", "recv", "fault"}], url' \in [Client -> Url \cup {Unset}]
  PROVE  SocketTypeOK' /\ SocketsOwned' /\ Named'
<1>1. SocketTypeOK
  BY DEF SocketInv
<1>2. \A f \in Fd : f # Unset
  BY SocketAssumption
<1>3. \A j \in Client : j # Unset
  BY SocketAssumption
<1>4. strayed' = strayed /\ strayed # "fresh" /\ again \subseteq again'
      /\ ((\E f \in Fd : fd[f] = k) => k \in again') /\ again' \subseteq Client
      /\ (k \notin again' => k \notin again)
  BY <1>1 DEF SocketInv, SocketsOwned, Connect, SocketTypeOK
<1>5. CASE ~connected /\ m_socket' = [m_socket EXCEPT ![k] = Unset] /\ stale' = stale \ {k} /\ UNCHANGED fd
  <2>1. SocketTypeOK'
    BY <1>1, <1>4, <1>5 DEF SocketTypeOK
  <2>2. ASSUME NEW f \in Fd, fd'[f] \in Client \ again' PROVE m_socket'[fd'[f]] = f
    <3>1. fd[f] # k /\ fd[f] \in Client \ again
      BY <1>4, <1>5, <2>2
    <3> QED
      BY <1>1, <1>5, <3>1 DEF SocketInv, SocketsOwned, SocketTypeOK
  <2>3. Named'
    BY <1>1, <1>4, <1>5 DEF SocketInv, Named, SocketTypeOK
  <2> QED
    BY <1>4, <2>1, <2>2, <2>3 DEF SocketsOwned
<1>6. CASE /\ FreeFd # {}
           /\ m_socket' = [m_socket EXCEPT ![k] = Lowest]
           /\ fd' = IF connected THEN [fd EXCEPT ![Lowest] = k] ELSE fd
           /\ stale' = IF connected THEN stale \ {k} ELSE stale \cup {k}
  <2>1. PICK l : l = Lowest
    OBVIOUS
  <2>2. l \in Fd /\ fd[l] = Unset
    BY <1>6, <2>1, LowestFree DEF FreeFd
  <2>3. /\ m_socket' = [m_socket EXCEPT ![k] = l]
        /\ fd' = IF connected THEN [fd EXCEPT ![l] = k] ELSE fd
        /\ stale' = IF connected THEN stale \ {k} ELSE stale \cup {k}
    BY <1>6, <2>1
  <2>4. SocketTypeOK'
    BY <1>1, <1>4, <2>2, <2>3 DEF SocketTypeOK
  <2>5. ASSUME NEW f \in Fd, fd'[f] \in Client \ again' PROVE m_socket'[fd'[f]] = f
    <3>1. CASE f = l /\ connected
      BY <1>1, <2>2, <2>3, <3>1 DEF SocketTypeOK
    <3>2. CASE ~(f = l /\ connected)
      <4>1. fd'[f] = fd[f] /\ fd[f] \in Client \ again
        BY <1>1, <1>4, <2>2, <2>3, <2>5, <3>2 DEF SocketTypeOK
      <4>2. fd[f] # k
        BY <1>4, <2>5, <4>1
      <4> QED
        BY <1>1, <2>3, <4>1, <4>2 DEF SocketInv, SocketsOwned, SocketTypeOK
    <3> QED
      BY <3>1, <3>2
  <2>6. ASSUME strayed' = "no", NEW j \in Client, m_socket'[j] # Unset, j \notin stale'
        PROVE  fd'[m_socket'[j]] = j
    <3>1. CASE j = k
      BY <1>1, <2>2, <2>3, <2>6, <3>1 DEF SocketTypeOK
    <3>2. CASE j # k
      <4>1. m_socket'[j] = m_socket[j] /\ j \notin stale /\ m_socket[j] \in Fd
        BY <1>1, <2>2, <2>3, <2>6, <3>2 DEF SocketTypeOK
      <4>2. fd[m_socket[j]] = j
        BY <1>4, <2>6, <4>1 DEF SocketInv, Named
      <4>3. m_socket[j] # l
        BY <1>3, <2>2, <4>2
      <4> QED
        BY <1>1, <2>3, <4>1, <4>2, <4>3 DEF SocketTypeOK
    <3> QED
      BY <3>1, <3>2
  <2> QED
    BY <1>4, <2>4, <2>5, <2>6 DEF SocketsOwned, Named
<1> QED
  BY <1>5, <1>6 DEF Connect

LEMMA CloseStep ==
  ASSUME SocketInv, NEW k \in Client, Close(k)
  PROVE  SocketInv'
<1>1. SocketTypeOK
  BY DEF SocketInv
<1>2. /\ Touch(k) /\ stale' = stale \cup {k} /\ m_socket[k] # Unset
      /\ fd' = [f \in Fd |-> IF f = m_socket[k] THEN Unset ELSE fd[f]]
      /\ UNCHANGED <<m_socket, at, url, target, again>>
  BY DEF Close, CloseSocket
<1>3. SocketTypeOK'
  BY <1>1, <1>2, TouchSound DEF SocketTypeOK
<1>4. SocketsOwned'
  <2>1. strayed' # "fresh"
    BY <1>2, TouchSound
  <2>2. ASSUME NEW f \in Fd, fd'[f] \in Client \ again' PROVE m_socket'[fd'[f]] = f
    <3>1. fd'[f] = fd[f]
      BY <1>2, <2>2, SocketAssumption
    <3> QED
      BY <1>2, <2>2, <3>1 DEF SocketInv, SocketsOwned
  <2> QED
    BY <2>1, <2>2 DEF SocketsOwned
<1>5. Named'
  <2>1. ASSUME strayed' = "no", NEW j \in Client, m_socket'[j] # Unset, j \notin stale'
        PROVE  fd'[m_socket'[j]] = j
    <3>1. j # k /\ strayed = "no" /\ fd[m_socket[k]] \in {k, Unset} /\ m_socket[j] \in Fd
      BY <1>1, <1>2, <2>1, TouchSound DEF SocketTypeOK
    <3>2. fd[m_socket[j]] = j
      BY <1>2, <2>1, <3>1 DEF SocketInv, Named
    <3>3. j # Unset
      BY SocketAssumption
    <3>4. m_socket[j] # m_socket[k]
      BY <3>1, <3>2, <3>3
    <3> QED
      BY <1>2, <3>1, <3>2, <3>4
  <2> QED
    BY <2>1 DEF Named
<1> QED
  BY <1>2, <1>3, <1>4, <1>5, RequestsKept DEF SocketInv

LEMMA DeleteStep ==
  ASSUME SocketInv, NEW k \in Client, DeleteClient(k)
  PROVE  SocketInv'
<1>1. SocketTypeOK
  BY DEF SocketInv
<1>2. /\ Touch(k) /\ stale' = stale \ {k}
      /\ fd' = [f \in Fd |-> IF f = m_socket[k] THEN Unset ELSE fd[f]]
      /\ m_socket' = [m_socket EXCEPT ![k] = Unset]
      /\ at' = [at EXCEPT ![k] = "none"]
      /\ UNCHANGED <<url, target, again>>
  BY DEF DeleteClient, CloseSocket
<1>3. SocketTypeOK'
  BY <1>1, <1>2, TouchSound DEF SocketTypeOK
<1>4. SocketsOwned'
  <2>1. strayed' # "fresh"
    BY <1>2, TouchSound
  <2>2. ASSUME NEW f \in Fd, fd'[f] \in Client \ again' PROVE m_socket'[fd'[f]] = f
    <3>1. fd'[f] = fd[f] /\ f # m_socket[k]
      BY <1>2, <2>2, SocketAssumption
    <3>2. m_socket[fd[f]] = f
      BY <1>2, <2>2, <3>1 DEF SocketInv, SocketsOwned
    <3>3. fd[f] # k
      BY <3>1, <3>2
    <3> QED
      BY <1>1, <1>2, <2>2, <3>1, <3>2, <3>3 DEF SocketTypeOK
  <2> QED
    BY <2>1, <2>2 DEF SocketsOwned
<1>5. Named'
  <2>1. ASSUME strayed' = "no", NEW j \in Client, m_socket'[j] # Unset, j \notin stale'
        PROVE  fd'[m_socket'[j]] = j
    <3>1. j # k /\ strayed = "no" /\ (m_socket[k] # Unset => fd[m_socket[k]] \in {k, Unset})
          /\ m_socket[j] \in Fd /\ m_socket'[j] = m_socket[j] /\ j \notin stale
      BY <1>1, <1>2, <2>1, TouchSound DEF SocketTypeOK
    <3>2. fd[m_socket[j]] = j
      BY <1>2, <2>1, <3>1 DEF SocketInv, Named
    <3>3. j # Unset /\ m_socket[j] # Unset
      BY <3>1, SocketAssumption
    <3>4. m_socket[j] # m_socket[k]
      BY <3>1, <3>2, <3>3
    <3> QED
      BY <1>2, <3>1, <3>2, <3>4
  <2> QED
    BY <2>1 DEF Named
<1> QED
  BY <1>2, <1>3, <1>4, <1>5, RequestsKept DEF SocketInv

LEMMA RequestStep ==
  ASSUME SocketInv, NEW k \in Client, NEW u \in Url, HttpRequestExec(k, u)
  PROVE  SocketInv'
<1>1. SocketTypeOK /\ Requests
  BY DEF SocketInv
<1>2. PICK connected \in BOOLEAN :
        Connect(k, connected) /\ at' = IF connected THEN [at EXCEPT ![k] = "send"] ELSE at
  BY DEF HttpRequestExec
<1>3. /\ url' = [url EXCEPT ![k] = u]
      /\ target' = [target EXCEPT ![k] =
                     [host |-> GetHost(Text(u)), port |-> GetPort(Text(u)), uri |-> GetUri(Text(u))]]
  BY DEF HttpRequestExec
<1>4. at' \in [Client -> {"none", "idle", "send", "recv", "fault"}] /\ url' \in [Client -> Url \cup {Unset}]
  BY <1>1, <1>2, <1>3 DEF SocketTypeOK
<1>5. SocketTypeOK' /\ SocketsOwned' /\ Named'
  BY <1>2, <1>4, ConnectStep
<1>6. Requests'
  <2>1. DOMAIN target' = Client
    BY <1>1, <1>3 DEF Requests
  <2>2. ASSUME NEW j \in Http, url'[j] # Unset
        PROVE  target'[j] = [host |-> GetHost(Text(url'[j])), port |-> GetPort(Text(url'[j])),
                             uri |-> GetUri(Text(url'[j]))]
    <3>1. j \in Client
      BY SocketAssumption
    <3>2. CASE j = k
      <4>1. url'[j] = u
        BY <1>1, <1>3, <3>2 DEF SocketTypeOK
      <4>2. target'[j] = [host |-> GetHost(Text(u)), port |-> GetPort(Text(u)), uri |-> GetUri(Text(u))]
        BY <1>1, <1>3, <3>2 DEF Requests
      <4> QED
        BY <4>1, <4>2
    <3>3. CASE j # k
      <4>1. url'[j] = url[j] /\ target'[j] = target[j]
        BY <1>1, <1>3, <3>1, <3>3 DEF SocketTypeOK, Requests
      <4> QED
        BY <1>1, <2>2, <4>1 DEF Requests
    <3> QED
      BY <3>2, <3>3
  <2> QED
    BY <2>1, <2>2 DEF Requests
<1> QED
  BY <1>5, <1>6 DEF SocketInv

(* The rest of the program opens what is free and closes what is its own.  *)
LEMMA OtherStep ==
  ASSUME SocketInv, OtherOpens \/ \E f \in Fd : OtherCloses(f)
  PROVE  SocketInv'
<1>1. SocketTypeOK
  BY DEF SocketInv
<1>2. PICK l \in Fd, w \in {Other, Unset} :
        /\ fd[l] \in {Other, Unset}
        /\ fd' = [fd EXCEPT ![l] = w]
        /\ UNCHANGED <<m_socket, at, url, target, stale, again, strayed>>
  <2>1. CASE OtherOpens
    <3>1. Lowest \in Fd /\ fd[Lowest] = Unset
      BY <2>1, LowestFree DEF OtherOpens, FreeFd
    <3> QED
      BY <2>1, <3>1 DEF OtherOpens
  <2>2. CASE \E f \in Fd : OtherCloses(f)
    BY <2>2 DEF OtherCloses
  <2> QED
    BY <2>1, <2>2
<1>3. Other \notin Client /\ Unset \notin Client
  BY SocketAssumption
<1>4. SocketTypeOK'
  BY <1>1, <1>2 DEF SocketTypeOK
<1>5. SocketsOwned'
  BY <1>1, <1>2, <1>3 DEF SocketInv, SocketsOwned, SocketTypeOK
<1>6. Named'
  <2>1. ASSUME strayed' = "no", NEW j \in Client, m_socket'[j] # Unset, j \notin stale'
        PROVE  fd'[m_socket'[j]] = j
    <3>1. fd[m_socket[j]] = j /\ m_socket[j] \in Fd
      BY <1>1, <1>2, <2>1 DEF SocketInv, Named, SocketTypeOK
    <3>2. m_socket[j] # l
      BY <1>2, <1>3, <3>1
    <3> QED
      BY <1>1, <1>2, <3>1, <3>2 DEF SocketTypeOK
  <2> QED
    BY <2>1 DEF Named
<1> QED
  BY <1>2, <1>4, <1>5, <1>6, RequestsKept DEF SocketInv

(* The clients own the descriptors they name, and a request was made for   *)
(* what its URL says.                                                      *)
THEOREM SocketInvariant == SocketSpec => []SocketInv
<1>1. SocketInit => SocketInv
  <2> SUFFICES ASSUME SocketInit PROVE SocketInv
    OBVIOUS
  <2>1. Unset \notin Client /\ Http \subseteq Client
    BY SocketAssumption
  <2> QED
    BY <2>1 DEF SocketInit, SocketInv, SocketTypeOK, SocketsOwned, Named, Requests
<1>2. SocketInv /\ [SocketNext]_socketVars => SocketInv'
  <2> SUFFICES ASSUME SocketInv, [SocketNext]_socketVars PROVE SocketInv'
    OBVIOUS
  <2>1. SocketTypeOK
    BY DEF SocketInv
  <2>2. ASSUME NEW k \in Client, NewClient(k) PROVE SocketInv'
    BY <2>2, NewStep
  <2>3. ASSUME NEW k \in Client, ConnectClient(k) PROVE SocketInv'
    <3>1. PICK connected \in BOOLEAN : Connect(k, connected)
      BY <2>3 DEF ConnectClient
    <3>2. UNCHANGED <<at, url, target>>
      BY <2>3 DEF ConnectClient
    <3>3. SocketTypeOK' /\ SocketsOwned' /\ Named'
      BY <2>1, <3>1, <3>2, ConnectStep DEF SocketTypeOK
    <3> QED
      BY <3>2, <3>3, RequestsKept DEF SocketInv
  <2>4. ASSUME NEW k \in Client, Close(k) PROVE SocketInv'
    BY <2>4, CloseStep
  <2>5. ASSUME NEW k \in Client, Send(k) PROVE SocketInv'
    BY <2>1, <2>5, TouchStep DEF Send, SocketTypeOK
  <2>6. ASSUME NEW k \in Client, DeleteClient(k) PROVE SocketInv'
    BY <2>6, DeleteStep
  <2>7. ASSUME NEW k \in Client, SendRequest(k) PROVE SocketInv'
    <3>1. at' \in [Client -> {"none", "idle", "send", "recv", "fault"}]
      BY <2>1, <2>7 DEF SendRequest, SocketTypeOK
    <3> QED
      BY <2>7, <3>1, TouchStep DEF SendRequest
  <2>8. ASSUME NEW k \in Client, RecvFails(k) PROVE SocketInv'
    <3>1. at' \in [Client -> {"none", "idle", "send", "recv", "fault"}]
      BY <2>1, <2>8 DEF RecvFails, SocketTypeOK
    <3> QED
      BY <2>8, <3>1, TouchStep DEF RecvFails
  <2>9. ASSUME NEW k \in Client, NEW u \in Url, HttpRequestExec(k, u) PROVE SocketInv'
    BY <2>9, RequestStep
  <2>12. ASSUME NEW k \in Client, HostUnknown(k) PROVE SocketInv'
    BY <2>1, <2>12 DEF HostUnknown, SocketInv, SocketTypeOK, SocketsOwned, Named, Requests
  <2>10. CASE OtherOpens \/ \E f \in Fd : OtherCloses(f)
    BY <2>10, OtherStep
  <2>11. CASE UNCHANGED socketVars
    BY <2>11 DEF socketVars, SocketInv, SocketTypeOK, SocketsOwned, Named, Requests
  <2> QED
    BY <2>2, <2>3, <2>4, <2>5, <2>6, <2>7, <2>8, <2>9, <2>10, <2>11, <2>12 DEF SocketNext
<1> QED
  BY <1>1, <1>2, PTL DEF SocketSpec

(* Nobody touches the descriptor of another before it has closed its own,  *)
(* and a request goes to the host, the port and the path that are written  *)
(* in its URL (tcp_client_connect.cpp, http_request.cpp).                  *)
THEOREM RequestsAreRight == SocketSpec => []RequestsReachServer
<1>1. SocketInv => RequestsReachServer
  <2> SUFFICES ASSUME SocketInv PROVE TargetAsWritten
    BY DEF SocketInv, RequestsReachServer
  <2> SUFFICES ASSUME NEW k \in Http, NEW u, u = url[k], u # Unset,
                      u.scheme # <<>> \/ ~IsPrefix(http, u.host)
               PROVE  /\ target[k].host = u.host
                      /\ target[k].uri = IF u.path = <<>> THEN <<"/">> ELSE u.path
                      /\ \/ target[k].port = IF u.port = <<>> THEN DefaultPort(u.scheme) ELSE u.port
                         \/ u.port # <<>> /\ u.path = <<>>
                         \/ u.port = <<>> /\ \E i \in DOMAIN u.path : u.path[i] = ":"
    BY DEF TargetAsWritten
  <2>1. u \in Url
    BY SocketAssumption DEF SocketInv, SocketTypeOK
  <2>2. Plain(u)
    <3>1. Written(u)
      BY <2>1, SocketAssumption
    <3> QED
      BY <3>1 DEF Plain
  <2>3. /\ target[k].host = GetHost(Text(u)) /\ target[k].uri = GetUri(Text(u))
        /\ target[k].port = GetPort(Text(u))
    <3>1. target[k] = [host |-> GetHost(Text(u)), port |-> GetPort(Text(u)), uri |-> GetUri(Text(u))]
      BY DEF SocketInv, Requests
    <3> QED
      BY <3>1
  <2>4. GetHost(Text(u)) = u.host
    BY <2>2, HostIs
  <2>5. GetUri(Text(u)) = IF u.path = <<>> THEN <<"/">> ELSE u.path
    BY <2>2, UriIs
  <2>6. \/ GetPort(Text(u)) = IF u.port = <<>> THEN DefaultPort(u.scheme) ELSE u.port
        \/ u.port # <<>> /\ u.path = <<>>
        \/ u.port = <<>> /\ \E i \in DOMAIN u.path : u.path[i] = ":"
    BY <2>2, PortIs
  <2> QED
    BY <2>3, <2>4, <2>5, <2>6
<1> QED
  BY <1>1, SocketInvariant, PTL

-----------------------------------------------------------------------------
(***************************************************************************)
(* DataManager.  The first class of an identifier is there because a set   *)
(* of positions has a least one (TableSound), a vector that is sorted has  *)
(* each registered module once (VectorSound), and the identifier that it   *)
(* was registered with leads back to it (ModuleFound).                     *)
(***************************************************************************)
(* An entry of the table has its own identifier.                           *)
Numbered(table) ==
  \A i \in Module : table[i] # NoModule => ClassID[table[i]] = i

(* Each identifier of the table that a class declares has a module.        *)
Filled(table) ==
  \A c \in ModuleClass : ClassID[c] < ModuleNum => table[ClassID[c]] # NoModule

(* Without a manager nothing was called; a manager has the table and the   *)
(* vectors that were built from the list.                                  *)
DataInv ==
  /\ DataTypeOK /\ EventsReachModules
  /\ m_modules = NoModule => asked.kind = "none"
  /\ m_modules # NoModule =>
       /\ m_modules \in [Module -> ModuleClass \cup {NoModule}]
       /\ Numbered(m_modules) /\ Filled(m_modules)
       /\ \A e \in Slot : m_moduleEvent[e] \in Sorted(Registered(m_modules, e))

LEMMA Indexes ==
  /\ \A id \in Nat : id % ModuleNum \in Module
  /\ \A id \in Nat : id < ModuleNum => id % ModuleNum = id /\ id \in Module
  /\ \A msg \in Message : msg \in Events => msg % EventNum \in Slot
  /\ EventNum \in Nat \ {0}
<1>1. ModuleNum \in Nat \ {0} /\ EventNum \in Nat \ {0}
  BY DataAssumption DEF EventNum
<1>2. \A id \in Nat, n \in Nat \ {0} : id % n \in 0..(n - 1) /\ (id < n => id % n = id)
  OBVIOUS
<1>3. Message \subseteq Nat
  BY DataAssumption DEF Message
<1>4. \A id \in Nat : id < ModuleNum => id \in Module
  BY <1>1 DEF Module
<1> QED
  BY <1>1, <1>2, <1>3, <1>4 DEF Module, Slot

(* The table has what it should, whatever the order of the list.           *)
LEMMA TableSound ==
  ASSUME s_pFirst \in Seq(ModuleClass), \A c \in ModuleClass : InList(c)
  PROVE  /\ Table \in [Module -> ModuleClass \cup {NoModule}]
         /\ Numbered(Table) /\ Filled(Table)
<1> DEFINE First(i) == CHOOSE k \in Fitting(i) : \A n \in Fitting(i) : k <= n
<1>1. \A k \in DOMAIN s_pFirst : k \in Nat /\ s_pFirst[k] \in ModuleClass
  BY ElementOfSeq, LenProperties
<1>2. ASSUME NEW i \in Module, Fitting(i) # {}
      PROVE  First(i) \in Fitting(i)
  <2>1. Fitting(i) \subseteq Nat
    BY <1>1 DEF Fitting
  <2>2. \E k \in Fitting(i) : \A n \in Fitting(i) : k <= n
    BY <1>2, <2>1, LeastIs
  <2> QED
    BY <2>2
<1>3. ASSUME NEW i \in Module, NEW k \in Fitting(i)
      PROVE  s_pFirst[k] \in ModuleClass /\ ClassID[s_pFirst[k]] = i
  <2>1. k \in DOMAIN s_pFirst /\ ClassID[s_pFirst[k]] < ModuleNum /\ ClassID[s_pFirst[k]] % ModuleNum = i
    BY DEF Fitting
  <2>2. s_pFirst[k] \in ModuleClass /\ ClassID[s_pFirst[k]] \in Nat
    BY <1>1, <2>1, DataAssumption
  <2> QED
    BY <2>1, <2>2, Indexes
<1>4. \A i \in Module : Table[i] = IF Fitting(i) = {} THEN NoModule ELSE s_pFirst[First(i)]
  BY DEF Table
<1> HIDE DEF First
<1>5. Table \in [Module -> ModuleClass \cup {NoModule}]
  <2>1. Table = [i \in Module |-> Table[i]]
    BY DEF Table
  <2>2. \A i \in Module : Table[i] \in ModuleClass \cup {NoModule}
    BY <1>2, <1>3, <1>4
  <2> QED
    BY <2>1, <2>2
<1>6. Numbered(Table)
  BY <1>2, <1>3, <1>4 DEF Numbered
<1>7. Filled(Table)
  <2>1. ASSUME NEW c \in ModuleClass, ClassID[c] < ModuleNum
        PROVE  Table[ClassID[c]] # NoModule
    <3>1. PICK k \in DOMAIN s_pFirst : s_pFirst[k] = c
      BY DEF InList
    <3>2. ClassID[c] \in Nat
      BY DataAssumption
    <3>3. ClassID[c] \in Module /\ ClassID[c] % ModuleNum = ClassID[c]
      BY <2>1, <3>2, Indexes
    <3>4. k \in Fitting(ClassID[c])
      BY <2>1, <3>1, <3>3 DEF Fitting
    <3>5. Table[ClassID[c]] \in ModuleClass
      BY <1>2, <1>3, <1>4, <3>3, <3>4
    <3> QED
      BY <3>5, DataAssumption
  <2> QED
    BY <2>1 DEF Filled
<1> QED
  BY <1>5, <1>6, <1>7

(* What the vector of an event holds.                                      *)
LEMMA VectorSound ==
  ASSUME NEW table \in [Module -> ModuleClass \cup {NoModule}], NEW e \in Slot,
         NEW v \in Sorted(Registered(table, e))
  PROVE  /\ v \in Seq(ModuleClass) /\ DOMAIN v \subseteq Nat
         /\ \A i \in DOMAIN v : v[i] \in Registered(table, e)
<1>1. Registered(table, e) \subseteq ModuleClass
  BY DEF Registered
<1>2. Cardinality(Registered(table, e)) \in Nat
  BY <1>1, DataAssumption, FS_Subset, FS_CardinalityType
<1>3. v \in [1..Cardinality(Registered(table, e)) -> Registered(table, e)]
  BY DEF Sorted
<1> HIDE DEF Registered
<1>4. v \in Seq(Registered(table, e))
  BY <1>2, <1>3, SeqDef
<1> QED
  BY <1>1, <1>2, <1>3, <1>4, SeqMonotonic

(* A module that has registered is found by its identifier.                *)
LEMMA ModuleFound ==
  ASSUME DataInv, m_modules # NoModule, NEW e, NEW c \in Registered(m_modules, e)
  PROVE  /\ c \in ModuleClass /\ GetModuleByID(ClassID[c]) = c
         /\ \E i \in Module : m_modules[i] = c /\ ClassID[c] = i
<1>1. PICK i \in Module : m_modules[i] = c
  BY DEF Registered
<1>2. c \in ModuleClass /\ c # NoModule
  BY DataAssumption DEF Registered
<1>3. ClassID[c] = i
  BY <1>1, <1>2 DEF DataInv, Numbered
<1>4. i \in Nat /\ i < ModuleNum
  BY DataAssumption DEF Module
<1>5. i % ModuleNum = i
  BY <1>4, Indexes
<1> QED
  BY <1>1, <1>2, <1>3, <1>5 DEF GetModuleByID

LEMMA ListStep ==
  ASSUME DataInv, NEW c \in ModuleClass, initRunTimeClass(c)
  PROVE  DataInv'
<1>1. <<c>> \in Seq(ModuleClass)
  OBVIOUS
<1>2. s_pFirst' \in Seq(ModuleClass)
  BY <1>1, ConcatProperties DEF initRunTimeClass, DataInv, DataTypeOK
<1>3. UNCHANGED <<m_modules, m_moduleEvent, asked, heard>>
  BY DEF initRunTimeClass
<1> QED
  BY <1>2, <1>3 DEF DataInv, DataTypeOK, EventsReachModules

LEMMA ConstructStep ==
  ASSUME DataInv, Construct
  PROVE  DataInv'
<1>1. /\ s_pFirst \in Seq(ModuleClass) /\ \A c \in ModuleClass : InList(c)
      /\ asked.kind = "none" /\ m_modules' = Table
      /\ UNCHANGED <<s_pFirst, asked, heard>>
  BY DEF DataInv, DataTypeOK, Construct
<1>2. PICK t : t = Table
  OBVIOUS
<1>3. /\ t \in [Module -> ModuleClass \cup {NoModule}]
      /\ Numbered(t) /\ Filled(t)
  BY <1>1, <1>2, TableSound
<1>4. /\ m_modules' = t
      /\ m_moduleEvent' \in [Slot -> UNION {Sorted(Registered(t, e)) : e \in Slot}]
      /\ \A e \in Slot : m_moduleEvent'[e] \in Sorted(Registered(t, e))
  BY <1>1, <1>2 DEF Construct
<1>5. m_moduleEvent' \in [Slot -> Seq(ModuleClass)]
  BY <1>3, <1>4, VectorSound
<1>6. DataTypeOK'
  BY <1>1, <1>3, <1>4, <1>5 DEF DataInv, DataTypeOK
<1>7. EventsReachModules'
  <2>1. ASSUME NEW c \in ModuleClass, ClassID[c] < ModuleNum
        PROVE  \E d \in {t[i] : i \in Module} \ {NoModule} : ClassID[d] = ClassID[c]
    <3>1. ClassID[c] \in Module
      BY <2>1, Indexes, DataAssumption
    <3>2. t[ClassID[c]] # NoModule
      BY <1>3, <2>1 DEF Filled
    <3>3. ClassID[t[ClassID[c]]] = ClassID[c]
      BY <1>3, <3>1, <3>2 DEF Numbered
    <3> QED
      BY <3>1, <3>2, <3>3
  <2> QED
    BY <1>1, <1>3, <1>4, <2>1 DEF EventsReachModules, Numbered
<1> QED
  BY <1>1, <1>3, <1>4, <1>6, <1>7 DEF DataInv

LEMMA MessageStep ==
  ASSUME DataInv, NEW c \in ModuleClass, NEW msg \in Message, dispatchMessage(ClassID[c], msg)
  PROVE  DataInv'
<1> DEFINE id == ClassID[c]
<1>1. /\ m_modules # NoModule
      /\ asked' = [kind |-> "message", id |-> id, msg |-> msg]
      /\ heard' = [i \in {j \in {1} : Hears(GetModuleByID(id), msg)} |-> GetModuleByID(id)]
      /\ UNCHANGED <<s_pFirst, m_modules, m_moduleEvent>>
  BY DEF dispatchMessage
<1>2. id \in Nat /\ id % ModuleNum \in Module
  BY DataAssumption, Indexes
<1> HIDE DEF id
<1>3. GetModuleByID(id) \in ModuleClass \cup {NoModule}
  BY <1>1, <1>2 DEF DataInv, GetModuleByID
<1>4. /\ DOMAIN heard' = {} \/ DOMAIN heard' = {1}
      /\ 1 \in DOMAIN heard' => heard'[1] = GetModuleByID(id) /\ GetModuleByID(id) \in ModuleClass
  BY <1>1, <1>3 DEF Hears
<1>5. DataTypeOK'
  BY <1>1, <1>2, <1>4 DEF DataInv, DataTypeOK
<1>6. heard' # <<>> => 1 \in DOMAIN heard'
  BY <1>1
<1>7. heard' # <<>> => id = ClassID[heard'[1]] \/ id >= ModuleNum
  <2> SUFFICES ASSUME heard' # <<>>, id < ModuleNum PROVE id = ClassID[heard'[1]]
    BY <1>2, DataAssumption
  <2>1. id % ModuleNum = id /\ id \in Module
    BY <1>2, Indexes
  <2>2. heard'[1] = m_modules[id] /\ m_modules[id] # NoModule
    BY <1>4, <1>6, <2>1, DataAssumption DEF GetModuleByID
  <2> QED
    BY <1>1, <2>1, <2>2 DEF DataInv, Numbered
<1>8. EventsReachModules'
  BY <1>1, <1>7 DEF DataInv, EventsReachModules
<1> QED
  BY <1>1, <1>5, <1>8 DEF DataInv

LEMMA EventStep ==
  ASSUME DataInv, NEW msg \in Message, allModuleExcEvent(msg)
  PROVE  DataInv'
<1> DEFINE e == msg % EventNum
           hearing(v) == {i \in DOMAIN v : msg \in Events /\ msg \in MessageMap[v[i]]}
<1>1. PICK v : v = m_moduleEvent[e]
  OBVIOUS
<1>2. /\ m_modules # NoModule
      /\ asked' = [kind |-> "event", id |-> 0, msg |-> msg]
      /\ heard' = [i \in {j \in DOMAIN v : msg \in Events /\ Hears(GetModuleByID(ClassID[v[j]]), msg)} |->
                     GetModuleByID(ClassID[v[i]])]
      /\ UNCHANGED <<s_pFirst, m_modules, m_moduleEvent>>
  BY <1>1 DEF allModuleExcEvent
<1>3. CASE msg \notin Events
  <2>1. DOMAIN heard' = {}
    BY <1>2, <1>3
  <2>2. DataTypeOK'
    BY <1>2, <2>1 DEF DataInv, DataTypeOK
  <2>3. EventsReachModules'
    BY <1>2, <1>3 DEF DataInv, EventsReachModules
  <2> QED
    BY <1>2, <2>2, <2>3 DEF DataInv
<1>4. CASE msg \in Events
  <2>1. e \in Slot
    BY <1>4, Indexes
  <2> HIDE DEF e
  <2>2. v \in Sorted(Registered(m_modules, e)) /\ m_modules \in [Module -> ModuleClass \cup {NoModule}]
    BY <1>1, <1>2, <2>1 DEF DataInv
  <2>3. /\ DOMAIN v \subseteq Nat /\ \A i \in DOMAIN v : v[i] \in Registered(m_modules, e)
        /\ {v[i] : i \in DOMAIN v} = Registered(m_modules, e)
        /\ \A i, j \in DOMAIN v : i < j => v[i] # v[j] /\ ~Earlier(v[j], v[i])
    BY <2>1, <2>2, VectorSound DEF Sorted
  <2>4. \A i \in DOMAIN v : v[i] \in ModuleClass /\ v[i] # NoModule /\ GetModuleByID(ClassID[v[i]]) = v[i]
    BY <1>2, <2>3, ModuleFound, DataAssumption
  <2>5. heard' = [i \in hearing(v) |-> v[i]]
    BY <1>2, <1>4, <2>4 DEF Hears
  <2>6. DataTypeOK'
    <3>1. DOMAIN heard' \subseteq Nat /\ \A i \in DOMAIN heard' : heard'[i] \in ModuleClass
      BY <2>3, <2>4, <2>5
    <3> QED
      BY <1>2, <3>1 DEF DataInv, DataTypeOK
  <2>7. {heard'[i] : i \in DOMAIN heard'}
          = {c \in {m_modules[i] : i \in Module} \ {NoModule} : msg \in MessageMap[c]}
    <3>1. ASSUME NEW i \in DOMAIN heard'
          PROVE  heard'[i] \in {c \in {m_modules[k] : k \in Module} \ {NoModule} : msg \in MessageMap[c]}
      <4>1. i \in DOMAIN v /\ heard'[i] = v[i] /\ msg \in MessageMap[v[i]]
        BY <2>5
      <4>2. \E k \in Module : m_modules[k] = v[i]
        BY <2>3, <4>1 DEF Registered
      <4> QED
        BY <2>4, <4>1, <4>2
    <3>2. ASSUME NEW k \in Module, m_modules[k] # NoModule, msg \in MessageMap[m_modules[k]]
          PROVE  \E i \in DOMAIN heard' : heard'[i] = m_modules[k]
      <4>1. m_modules[k] \in Registered(m_modules, e)
        BY <1>4, <2>2, <3>2 DEF Registered, e
      <4>2. PICK i \in DOMAIN v : v[i] = m_modules[k]
        BY <2>3, <4>1
      <4> QED
        BY <1>4, <2>5, <3>2, <4>2
    <3> QED
      BY <3>1, <3>2
  <2>8. ASSUME NEW i \in DOMAIN heard', NEW j \in DOMAIN heard', i < j
        PROVE  \/ Priority[heard'[i]] < Priority[heard'[j]]
               \/ /\ Priority[heard'[i]] = Priority[heard'[j]]
                  /\ ClassID[heard'[i]] < ClassID[heard'[j]]
    <3>1. /\ i \in DOMAIN v /\ j \in DOMAIN v /\ heard'[i] = v[i] /\ heard'[j] = v[j]
          /\ v[i] # v[j] /\ ~Earlier(v[j], v[i])
      BY <2>3, <2>5, <2>8
    <3>2. /\ v[i] \in ModuleClass /\ v[j] \in ModuleClass
          /\ v[i] \in Registered(m_modules, e) /\ v[j] \in Registered(m_modules, e)
      BY <2>3, <2>4, <3>1
    <3>3. ClassID[v[i]] # ClassID[v[j]]
      BY <2>4, <3>1
    <3>4. /\ Priority[v[i]] \in Nat /\ Priority[v[j]] \in Nat
          /\ ClassID[v[i]] \in Nat /\ ClassID[v[j]] \in Nat
      BY <3>2, DataAssumption
    <3> QED
      BY <3>1, <3>3, <3>4 DEF Earlier
  <2>9. EventsReachModules'
    <3>1. /\ m_modules' = m_modules /\ asked'.kind = "event" /\ asked'.msg = msg
      BY <1>2
    <3>2. /\ \A c \in ModuleClass : ClassID[c] < ModuleNum =>
               \E d \in {m_modules[i] : i \in Module} \ {NoModule} : ClassID[d] = ClassID[c]
          /\ \A i \in Module : m_modules[i] # NoModule => ClassID[m_modules[i]] = i
      BY <1>2 DEF DataInv, EventsReachModules
    <3> QED
      BY <2>7, <2>8, <3>1, <3>2 DEF EventsReachModules
  <2> QED
    BY <1>2, <2>6, <2>9 DEF DataInv
<1> QED
  BY <1>3, <1>4

(* The table and the vectors of a manager are those of its list, and what  *)
(* it has called last is whom they name.                                   *)
THEOREM DataInvariant == DataSpec => []DataInv
<1>1. DataInit => DataInv
  <2> SUFFICES ASSUME DataInit PROVE DataInv
    OBVIOUS
  <2>1. 0 \in Message
    BY DataAssumption DEF Message
  <2>2. <<>> \in Seq(ModuleClass) /\ DOMAIN <<>> = {}
    BY EmptySeq
  <2>3. DataTypeOK
    BY <2>1, <2>2 DEF DataInit, DataTypeOK, NoCall
  <2> QED
    BY <2>3 DEF DataInit, DataInv, EventsReachModules, NoCall
<1>2. DataInv /\ [DataNext]_dataVars => DataInv'
  <2> SUFFICES ASSUME DataInv, [DataNext]_dataVars PROVE DataInv'
    OBVIOUS
  <2>1. ASSUME NEW c \in ModuleClass, initRunTimeClass(c) PROVE DataInv'
    BY <2>1, ListStep
  <2>2. CASE Construct
    BY <2>2, ConstructStep
  <2>3. CASE DestroyManager
    <3>1. 0 \in Message
      BY DataAssumption DEF Message
    <3>2. <<>> \in Seq(ModuleClass) /\ DOMAIN <<>> = {}
      BY EmptySeq
    <3>3. DataTypeOK'
      BY <2>3, <3>1, <3>2 DEF DestroyManager, DataInv, DataTypeOK, NoCall
    <3> QED
      BY <2>3, <3>3 DEF DestroyManager, DataInv, EventsReachModules, NoCall
  <2>4. ASSUME NEW msg \in Message, allModuleExcEvent(msg) PROVE DataInv'
    BY <2>4, EventStep
  <2>5. ASSUME NEW msg \in Message, NEW c \in ModuleClass, dispatchMessage(ClassID[c], msg)
        PROVE  DataInv'
    BY <2>5, MessageStep
  <2>6. CASE UNCHANGED dataVars
    <3>1. UNCHANGED <<s_pFirst, m_modules, m_moduleEvent, asked, heard>>
      BY <2>6 DEF dataVars
    <3>2. DataTypeOK'
      BY <3>1 DEF DataInv, DataTypeOK
    <3>3. EventsReachModules'
      BY <3>1 DEF DataInv, EventsReachModules
    <3> QED
      BY <3>1, <3>2, <3>3 DEF DataInv
  <2> QED
    BY <2>1, <2>2, <2>3, <2>4, <2>5, <2>6 DEF DataNext
<1> QED
  BY <1>1, <1>2, PTL DEF DataSpec

(* In whatever order the linker put the classes, an event is handled once  *)
(* by each module that has a function for it, in the order of the          *)
(* priorities, and a message by the module it is for or by none            *)
(* (dynamic_create.h).                                                     *)
THEOREM EventsAreHandled == DataSpec => []EventsReachModules
<1>1. DataInv => EventsReachModules
  BY DEF DataInv
<1> QED
  BY <1>1, DataInvariant, PTL

-----------------------------------------------------------------------------
(***************************************************************************)
(* SharedPtr.  PtrSound is the invariant of the counts: a step changes one *)
(* pointer, and PtrRecounted says what that does to the number of owners   *)
(* and watchers of a block.  Deletion is the invariant of the objects: who *)
(* is about to delete one is alone with it, and one that is there has such *)
(* an owner or will have one.                                              *)
(***************************************************************************)
(* The pointers know their blocks, and what is assigned from stays.        *)
PtrPlaced ==
  \A p \in Ptr :
    /\ ptr[p].at \in {"shared", "weak", "delete", "sub", "free"} => ptr[p].of # None
    /\ ptr[p].at = "add" => ptr[p].from # None
    /\ ptr[p].from # None => ptr[ptr[p].from].at = "shared"

(* The two halves of CountsExact. *)
Tallied ==
  \A b \in SpCount :
    /\ uses[b] = Cardinality(Owners(b))
    /\ weaks[b] = Cardinality(Watchers(b)) + (IF object[b] = "self" THEN 1 ELSE 0)

Freed ==
  \A b \in SpCount :
    /\ block[b] = "live" <=>
         \/ uses[b] + weaks[b] > 0
         \/ \E p \in Ptr : ptr[p].at = "free" /\ ptr[p].of = b
    /\ \A p, q \in Ptr :
         ptr[p].at = "free" /\ ptr[q].at = "free" /\ ptr[p].of = b /\ ptr[q].of = b
           => p = q /\ uses[b] + weaks[b] = 0

PtrSound == TypeOK /\ PtrPlaced /\ Tallied /\ Freed

Owns(r, b) == r.of = b /\ r.at \in {"shared", "delete", "sub"}
Watches(r, b) == r.of = b /\ r.at = "weak"
-----------------------------------------------------------------------------
(* The owners and watchers of a block are finitely many. *)
LEMMA PtrFinite ==
  ASSUME NEW b \in SpCount
  PROVE  /\ IsFiniteSet(Owners(b)) /\ Cardinality(Owners(b)) \in Nat
         /\ IsFiniteSet(Watchers(b)) /\ Cardinality(Watchers(b)) \in Nat
<1>1. IsFiniteSet(Ptr)
  BY PointerAssumption
<1>2. Owners(b) \in SUBSET Ptr /\ Watchers(b) \in SUBSET Ptr
  BY DEF Owners, Watchers
<1>3. IsFiniteSet(Owners(b)) /\ IsFiniteSet(Watchers(b))
  BY <1>1, <1>2, FS_Subset
<1> QED
  BY <1>3, FS_CardinalityType

(* An owner counts, and when it counts alone there is no other. *)
LEMMA Alone ==
  ASSUME NEW b \in SpCount, NEW p \in Owners(b)
  PROVE  /\ Cardinality(Owners(b)) >= 1
         /\ Cardinality(Owners(b)) = 1 => Owners(b) = {p}
<1>1. IsFiniteSet(Owners(b)) /\ Cardinality(Owners(b)) \in Nat
  BY PtrFinite
<1>2. Cardinality(Owners(b)) # 0
  BY <1>1, FS_EmptySet
<1>3. Cardinality(Owners(b)) = 1 => Owners(b) = {p}
  BY <1>1, FS_Singleton
<1> QED
  BY <1>1, <1>2, <1>3

(* So does a watcher. *)
LEMMA Watched ==
  ASSUME NEW b \in SpCount, NEW p \in Watchers(b)
  PROVE  Cardinality(Watchers(b)) >= 1
BY PtrFinite, FS_EmptySet

(* What a step of one pointer does to the counts of a block. *)
LEMMA PtrRecounted ==
  ASSUME TypeOK, NEW p \in Ptr, NEW r, ptr' = [ptr EXCEPT ![p] = r],
         NEW b \in SpCount
  PROVE  /\ Cardinality(Owners(b)') =
              Cardinality(Owners(b)) + One(Owns(r, b)) - One(Owns(ptr[p], b))
         /\ Cardinality(Watchers(b)') =
              Cardinality(Watchers(b)) + One(Watches(r, b)) - One(Watches(ptr[p], b))
<1>1. /\ p \in Owners(b) <=> Owns(ptr[p], b)
      /\ p \in Watchers(b) <=> Watches(ptr[p], b)
  BY DEF Owners, Watchers, Owns, Watches
<1>2. Owners(b)' = IF Owns(r, b) THEN Owners(b) \cup {p} ELSE Owners(b) \ {p}
  BY DEF Owners, Owns, TypeOK
<1>3. Watchers(b)' = IF Watches(r, b) THEN Watchers(b) \cup {p} ELSE Watchers(b) \ {p}
  BY DEF Watchers, Watches, TypeOK
<1>4. /\ IsFiniteSet(Owners(b)) /\ Cardinality(Owners(b)) \in Nat
      /\ IsFiniteSet(Watchers(b)) /\ Cardinality(Watchers(b)) \in Nat
  BY PtrFinite
<1>5. /\ Cardinality(Owners(b) \cup {p}) =
           IF p \in Owners(b) THEN Cardinality(Owners(b)) ELSE Cardinality(Owners(b)) + 1
      /\ Cardinality(Owners(b) \ {p}) =
           IF p \in Owners(b) THEN Cardinality(Owners(b)) - 1 ELSE Cardinality(Owners(b))
  BY <1>4, FS_AddElement, FS_RemoveElement
<1>6. /\ Cardinality(Watchers(b) \cup {p}) =
           IF p \in Watchers(b) THEN Cardinality(Watchers(b))
                                ELSE Cardinality(Watchers(b)) + 1
      /\ Cardinality(Watchers(b) \ {p}) =
           IF p \in Watchers(b) THEN Cardinality(Watchers(b)) - 1
                                ELSE Cardinality(Watchers(b))
  BY <1>4, FS_AddElement, FS_RemoveElement
<1>7. Cardinality(Owners(b)') =
        Cardinality(Owners(b)) + One(Owns(r, b)) - One(Owns(ptr[p], b))
  BY <1>1, <1>2, <1>4, <1>5 DEF One
<1>8. Cardinality(Watchers(b)') =
        Cardinality(Watchers(b)) + One(Watches(r, b)) - One(Watches(ptr[p], b))
  BY <1>1, <1>3, <1>4, <1>6 DEF One
<1> QED
  BY <1>7, <1>8

-----------------------------------------------------------------------------
(* What PtrSound says of a block that a pointer is at. *)
LEMMA InMemory ==
  ASSUME PtrSound, NEW p \in Ptr
  PROVE  /\ ptr[p].at \in {"shared", "delete", "sub"} =>
              ptr[p].of \in SpCount /\ uses[ptr[p].of] >= 1
         /\ ptr[p].at = "weak" => ptr[p].of \in SpCount /\ weaks[ptr[p].of] >= 1
         /\ ptr[p].at \in {"shared", "delete", "sub", "weak", "free"} =>
              ptr[p].of \in SpCount /\ block[ptr[p].of] = "live"
         /\ ptr[p].at = "free" => uses[ptr[p].of] + weaks[ptr[p].of] = 0
<1> DEFINE b == ptr[p].of
<1>1. ptr[p].at \in {"shared", "delete", "sub", "weak", "free"} => b \in SpCount
  BY DEF PtrSound, TypeOK, PtrPlaced
<1>2. CASE ptr[p].at \in {"shared", "delete", "sub"}
  <2>1. b \in SpCount /\ p \in Owners(b)
    BY <1>1, <1>2 DEF Owners
  <2>2. uses[b] >= 1
    BY <2>1, Alone DEF PtrSound, Tallied
  <2> QED
    BY <1>2, <2>1, <2>2 DEF PtrSound, Freed, TypeOK
<1>3. CASE ptr[p].at = "weak"
  <2>1. b \in SpCount /\ p \in Watchers(b)
    BY <1>1, <1>3 DEF Watchers
  <2>2. Cardinality(Watchers(b)) >= 1 /\ Cardinality(Watchers(b)) \in Nat
    BY <2>1, Watched, PtrFinite
  <2>3. weaks[b] >= 1
    BY <2>1, <2>2 DEF PtrSound, Tallied
  <2> QED
    BY <1>3, <2>1, <2>3 DEF PtrSound, Freed, TypeOK
<1>4. CASE ptr[p].at = "free"
  BY <1>1, <1>4 DEF PtrSound, Freed, TypeOK
<1> QED
  BY <1>1, <1>2, <1>3, <1>4

(* A block that is not in use has neither counts nor pointers. *)
LEMMA UnusedBlock ==
  ASSUME PtrSound, NEW b \in SpCount, block[b] = "unused"
  PROVE  /\ uses[b] = 0 /\ weaks[b] = 0 /\ object[b] # "self"
         /\ \A p \in Ptr : ~Owns(ptr[p], b) /\ ~Watches(ptr[p], b)
                            /\ ~(ptr[p].at = "free" /\ ptr[p].of = b)
<1>1. uses[b] \in Nat /\ weaks[b] \in Nat /\ uses[b] + weaks[b] <= 0
  BY DEF PtrSound, Freed, TypeOK
<1>2. uses[b] = 0 /\ weaks[b] = 0
  BY <1>1
<1>3. object[b] # "self"
  BY <1>2, PtrFinite DEF PtrSound, Tallied
<1> QED
  BY <1>2, <1>3, InMemory DEF Owns, Watches

(* A pointer may become r: what it is assigned from is settled, and what   *)
(* is assigned from it does not see it change.                             *)
MayBecome(p, r) ==
  /\ r \in [at : {"none", "shared", "weak", "delete", "sub", "free", "add"},
            of : SpCount \cup {None}, from : Ptr \cup {None}]
  /\ r.at \in {"shared", "weak", "delete", "sub", "free"} => r.of \in SpCount
  /\ r.at = "add" => r.from # None
  /\ r.from # None => r.from # p /\ ptr[r.from].at = "shared"
  /\ ptr[p].at = "shared" => Free(p)

LEMMA PtrMoved ==
  ASSUME PtrSound, NEW p \in Ptr, NEW r, MayBecome(p, r), ptr' = [ptr EXCEPT ![p] = r]
  PROVE  /\ ptr' \in [Ptr -> [at : {"none", "shared", "weak", "delete", "sub", "free", "add"},
                              of : SpCount \cup {None}, from : Ptr \cup {None}]]
         /\ PtrPlaced'
<1>1. ptr' \in [Ptr -> [at : {"none", "shared", "weak", "delete", "sub", "free", "add"},
                        of : SpCount \cup {None}, from : Ptr \cup {None}]]
  BY DEF PtrSound, TypeOK, MayBecome
<1>2. ASSUME NEW q \in Ptr
      PROVE  /\ ptr'[q].at \in {"shared", "weak", "delete", "sub", "free"} =>
                  ptr'[q].of # None
             /\ ptr'[q].at = "add" => ptr'[q].from # None
             /\ ptr'[q].from # None => ptr'[ptr'[q].from].at = "shared"
  <2>1. CASE q = p
    <3>1. ptr'[q] = r
      BY <2>1 DEF PtrSound, TypeOK
    <3>2. r.from # None => r.from \in Ptr /\ ptr'[r.from] = ptr[r.from]
      BY DEF MayBecome, PtrSound, TypeOK
    <3> QED
      BY <3>1, <3>2, PointerAssumption DEF MayBecome
  <2>2. CASE q # p
    <3>1. ptr'[q] = ptr[q]
      BY <2>2 DEF PtrSound, TypeOK
    <3>2. ptr[q].from # None => /\ ptr[q].from \in Ptr
                                /\ ptr[ptr[q].from].at = "shared"
                                /\ ptr[q].from # p
      BY DEF PtrSound, TypeOK, PtrPlaced, MayBecome, Free
    <3>3. ptr[q].from # None => ptr'[ptr[q].from] = ptr[ptr[q].from]
      BY <3>2 DEF PtrSound, TypeOK
    <3> QED
      BY <3>1, <3>2, <3>3 DEF PtrSound, PtrPlaced
  <2> QED
    BY <2>1, <2>2
<1> QED
  BY <1>1, <1>2 DEF PtrPlaced

(* A step that changes the counts as it changes the pointer keeps them     *)
(* exact.  self is what it does to the weak pointer of the object itself.  *)
LEMMA PtrCounted ==
  ASSUME PtrSound, NEW p \in Ptr, NEW r, ptr' = [ptr EXCEPT ![p] = r],
         \A c \in SpCount :
           /\ uses'[c] = uses[c] + One(Owns(r, c)) - One(Owns(ptr[p], c))
           /\ weaks'[c] = weaks[c] + One(Watches(r, c)) - One(Watches(ptr[p], c))
                            + One(object'[c] = "self") - One(object[c] = "self")
  PROVE  Tallied'
<1> SUFFICES ASSUME NEW c \in SpCount
             PROVE  /\ uses'[c] = Cardinality(Owners(c)')
                    /\ weaks'[c] = Cardinality(Watchers(c)')
                                     + (IF object'[c] = "self" THEN 1 ELSE 0)
  BY DEF Tallied
<1>1. /\ Cardinality(Owners(c)') =
           Cardinality(Owners(c)) + One(Owns(r, c)) - One(Owns(ptr[p], c))
      /\ Cardinality(Watchers(c)') =
           Cardinality(Watchers(c)) + One(Watches(r, c)) - One(Watches(ptr[p], c))
  BY PtrRecounted DEF PtrSound
<1>2. /\ uses[c] = Cardinality(Owners(c))
      /\ weaks[c] = Cardinality(Watchers(c)) + One(object[c] = "self")
      /\ Cardinality(Owners(c)) \in Nat /\ Cardinality(Watchers(c)) \in Nat
  BY PtrFinite DEF PtrSound, Tallied, One
<1>3. /\ One(Owns(r, c)) \in Nat /\ One(Owns(ptr[p], c)) \in Nat
      /\ One(Watches(r, c)) \in Nat /\ One(Watches(ptr[p], c)) \in Nat
      /\ One(object[c] = "self") \in Nat /\ One(object'[c] = "self") \in Nat
  BY DEF One
<1>4. weaks'[c] = Cardinality(Watchers(c)') + One(object'[c] = "self")
  BY <1>1, <1>2, <1>3
<1> QED
  BY <1>1, <1>2, <1>4 DEF One

(* A step that leaves the blocks as they are, and those that were in use    *)
(* in use.                                                                 *)
LEMMA FreedKept ==
  ASSUME PtrSound, TypeOK', NEW p \in Ptr, NEW r, ptr' = [ptr EXCEPT ![p] = r],
         ptr[p].at # "free", r.at # "free", block' = block,
         \A c \in SpCount : uses'[c] + weaks'[c] > 0 <=> uses[c] + weaks[c] > 0
  PROVE  Freed'
<1> SUFFICES ASSUME NEW c \in SpCount
             PROVE  /\ block'[c] = "live" <=>
                         \/ uses'[c] + weaks'[c] > 0
                         \/ \E q \in Ptr : ptr'[q].at = "free" /\ ptr'[q].of = c
                    /\ \A q, s \in Ptr :
                         ptr'[q].at = "free" /\ ptr'[s].at = "free"
                           /\ ptr'[q].of = c /\ ptr'[s].of = c
                         => q = s /\ uses'[c] + weaks'[c] = 0
  BY DEF Freed
<1>1. \A q \in Ptr : ptr'[q].at = "free" /\ ptr'[q].of = c
                       <=> ptr[q].at = "free" /\ ptr[q].of = c
  BY DEF PtrSound, TypeOK
<1>2. uses[c] \in Nat /\ weaks[c] \in Nat /\ uses'[c] \in Nat /\ weaks'[c] \in Nat
  BY DEF PtrSound, TypeOK
<1>3. /\ uses'[c] + weaks'[c] > 0 <=> uses[c] + weaks[c] > 0
      /\ uses'[c] + weaks'[c] = 0 <=> uses[c] + weaks[c] = 0
  BY <1>2
<1>4. block'[c] = "live" <=>
        \/ uses'[c] + weaks'[c] > 0
        \/ \E q \in Ptr : ptr'[q].at = "free" /\ ptr'[q].of = c
  BY <1>1, <1>3 DEF PtrSound, Freed
<1>5. \A q, s \in Ptr :
        ptr'[q].at = "free" /\ ptr'[s].at = "free" /\ ptr'[q].of = c /\ ptr'[s].of = c
          => q = s /\ uses'[c] + weaks'[c] = 0
  BY <1>1, <1>3 DEF PtrSound, Freed
<1> QED
  BY <1>4, <1>5

-----------------------------------------------------------------------------
(***************************************************************************)
(* Each step keeps PtrSound.                                                  *)
(***************************************************************************)
LEMMA SoundNewWeak ==
  ASSUME PtrSound, NEW p \in Ptr, NEW b \in SpCount, NewWeak(p, b)
  PROVE  PtrSound'
<1> DEFINE r == [at |-> "weak", of |-> b, from |-> None]
<1>1. ptr' = [ptr EXCEPT ![p] = r] /\ ptr[p] = Nothing
  BY DEF NewWeak, Points
<1>2. /\ block[b] = "unused" /\ uses[b] = 0 /\ weaks[b] = 0
      /\ \A q \in Ptr : ~(ptr[q].at = "free" /\ ptr[q].of = b)
  BY UnusedBlock DEF NewWeak
<1>3. MayBecome(p, r)
  BY <1>1 DEF MayBecome, Nothing
<1>4. TypeOK' /\ PtrPlaced'
  BY <1>1, <1>3, PtrMoved DEF NewWeak, PtrSound, TypeOK
<1>5. \A c \in SpCount : /\ Watches(r, c) <=> c = b
                         /\ ~Watches(ptr[p], c) /\ ~Owns(r, c) /\ ~Owns(ptr[p], c)
  BY <1>1 DEF Owns, Watches, Nothing
<1>6. \A c \in SpCount :
        /\ uses'[c] = uses[c] + One(Owns(r, c)) - One(Owns(ptr[p], c))
        /\ weaks'[c] = weaks[c] + One(Watches(r, c)) - One(Watches(ptr[p], c))
                         + One(object'[c] = "self") - One(object[c] = "self")
  BY <1>2, <1>5 DEF NewWeak, One, PtrSound, TypeOK
<1>7. Tallied'
  BY <1>1, <1>6, PtrCounted
<1>8. Freed'
  BY <1>1, <1>2 DEF NewWeak, Nothing, PtrSound, TypeOK, Freed
<1> QED
  BY <1>4, <1>7, <1>8 DEF PtrSound

LEMMA SoundNewShared ==
  ASSUME PtrSound, NEW p \in Ptr, NEW b \in SpCount,
         NEW what \in {"null", "plain", "self"}, NewShared(p, b, what)
  PROVE  PtrSound'
<1> DEFINE r == [at |-> "shared", of |-> b, from |-> None]
<1>1. ptr' = [ptr EXCEPT ![p] = r] /\ ptr[p] = Nothing
  BY DEF NewShared, Points
<1>2. /\ block[b] = "unused" /\ uses[b] = 0 /\ weaks[b] = 0 /\ object[b] # "self"
      /\ \A q \in Ptr : ~(ptr[q].at = "free" /\ ptr[q].of = b)
  BY UnusedBlock DEF NewShared
<1>3. MayBecome(p, r)
  BY <1>1 DEF MayBecome, Nothing
<1>4. TypeOK' /\ PtrPlaced'
  <2>1. (IF what = "self" THEN 1 ELSE 0) \in Nat
    OBVIOUS
  <2> QED
    BY <1>1, <1>3, <2>1, PtrMoved DEF NewShared, PtrSound, TypeOK
<1>5. \A c \in SpCount : /\ Owns(r, c) <=> c = b
                         /\ ~Owns(ptr[p], c) /\ ~Watches(r, c) /\ ~Watches(ptr[p], c)
  BY <1>1 DEF Owns, Watches, Nothing
<1>6. \A c \in SpCount :
        /\ uses'[c] = uses[c] + One(Owns(r, c)) - One(Owns(ptr[p], c))
        /\ weaks'[c] = weaks[c] + One(Watches(r, c)) - One(Watches(ptr[p], c))
                         + One(object'[c] = "self") - One(object[c] = "self")
  BY <1>2, <1>5 DEF NewShared, One, PtrSound, TypeOK
<1>7. Tallied'
  BY <1>1, <1>6, PtrCounted
<1>8. Freed'
  BY <1>1, <1>2 DEF NewShared, Nothing, PtrSound, TypeOK, Freed
<1> QED
  BY <1>4, <1>7, <1>8 DEF PtrSound

(* A reference is added to a block that some pointer keeps in memory. *)
AddShared(p, q) ==
  /\ ptr[p].at \in {"none", "add"} /\ ptr[q].at \in {"shared", "weak"}
  /\ Points(p, "shared", ptr[q].of)
  /\ uses' = [uses EXCEPT ![ptr[q].of] = @ + 1]
  /\ UNCHANGED <<weaks, block, object, raced>> /\ promoted' \subseteq SpCount

LEMMA SoundAddShared ==
  ASSUME PtrSound, NEW p \in Ptr, NEW q \in Ptr, AddShared(p, q)
  PROVE  PtrSound'
<1> DEFINE b == ptr[q].of
           r == [at |-> "shared", of |-> b, from |-> None]
<1>1. ptr' = [ptr EXCEPT ![p] = r]
  BY DEF AddShared, Points
<1>2. /\ ptr[p].at \in {"none", "add"} /\ ptr[q].at \in {"shared", "weak"}
      /\ uses' = [uses EXCEPT ![b] = @ + 1]
      /\ UNCHANGED <<weaks, block, object, raced>> /\ promoted' \subseteq SpCount
  BY DEF AddShared
<1>3. /\ b \in SpCount /\ block[b] = "live" /\ uses[b] + weaks[b] > 0
      /\ uses[b] \in Nat /\ weaks[b] \in Nat
  BY <1>2, InMemory DEF PtrSound, TypeOK
<1> HIDE DEF b
<1>4. MayBecome(p, r)
  BY <1>3, <1>2 DEF MayBecome
<1>5. TypeOK' /\ PtrPlaced'
  <2>1. uses' \in [SpCount -> Nat]
    BY <1>3, <1>2 DEF PtrSound, TypeOK
  <2> QED
    BY <1>1, <1>4, <1>2, <2>1, PtrMoved DEF PtrSound, TypeOK
<1>6. \A c \in SpCount : /\ Owns(r, c) <=> c = b
                         /\ ~Owns(ptr[p], c) /\ ~Watches(r, c) /\ ~Watches(ptr[p], c)
  BY <1>2 DEF Owns, Watches
<1>7. \A c \in SpCount :
        /\ uses'[c] = uses[c] + One(Owns(r, c)) - One(Owns(ptr[p], c))
        /\ weaks'[c] = weaks[c] + One(Watches(r, c)) - One(Watches(ptr[p], c))
                         + One(object'[c] = "self") - One(object[c] = "self")
  BY <1>3, <1>6, <1>2 DEF One, PtrSound, TypeOK
<1>8. ptr[p].at # "free" /\ r.at # "free"
  BY <1>2
<1> HIDE DEF r
<1>9. Tallied'
  BY <1>1, <1>7, PtrCounted
<1>10. Freed'
  <2>1. \A c \in SpCount : uses'[c] + weaks'[c] > 0 <=> uses[c] + weaks[c] > 0
    BY <1>3, <1>2 DEF PtrSound, TypeOK
  <2> QED
    BY <1>8, <1>1, <1>5, <1>2, <2>1, FreedKept
<1> QED
  BY <1>5, <1>9, <1>10 DEF PtrSound

LEMMA SoundAddWeak ==
  ASSUME PtrSound, NEW p \in Ptr, NEW q \in Ptr, CopyWeak(p, q)
  PROVE  PtrSound'
<1> DEFINE b == ptr[q].of
           r == [at |-> "weak", of |-> b, from |-> None]
<1>1. ptr' = [ptr EXCEPT ![p] = r]
  BY DEF CopyWeak, Points
<1>2. /\ ptr[p] = Nothing /\ ptr[q].at \in {"shared", "weak"}
      /\ weaks' = [weaks EXCEPT ![b] = @ + 1]
      /\ UNCHANGED <<uses, block, object, promoted, raced>>
  BY DEF CopyWeak, Shared, Weak
<1>3. /\ b \in SpCount /\ block[b] = "live" /\ uses[b] + weaks[b] > 0
      /\ uses[b] \in Nat /\ weaks[b] \in Nat
  BY <1>2, InMemory DEF PtrSound, TypeOK
<1> HIDE DEF b
<1>4. MayBecome(p, r)
  BY <1>3, <1>2 DEF MayBecome, Nothing
<1>5. TypeOK' /\ PtrPlaced'
  <2>1. weaks' \in [SpCount -> Nat]
    BY <1>3, <1>2 DEF PtrSound, TypeOK
  <2> QED
    BY <1>1, <1>4, <1>2, <2>1, PtrMoved DEF PtrSound, TypeOK
<1>6. \A c \in SpCount : /\ Watches(r, c) <=> c = b
                         /\ ~Watches(ptr[p], c) /\ ~Owns(r, c) /\ ~Owns(ptr[p], c)
  BY <1>2 DEF Owns, Watches, Nothing
<1>7. \A c \in SpCount :
        /\ uses'[c] = uses[c] + One(Owns(r, c)) - One(Owns(ptr[p], c))
        /\ weaks'[c] = weaks[c] + One(Watches(r, c)) - One(Watches(ptr[p], c))
                         + One(object'[c] = "self") - One(object[c] = "self")
  BY <1>3, <1>6, <1>2 DEF One, PtrSound, TypeOK
<1>8. ptr[p].at # "free" /\ r.at # "free"
  BY <1>2 DEF Nothing
<1> HIDE DEF r
<1>9. Tallied'
  BY <1>1, <1>7, PtrCounted
<1>10. Freed'
  <2>1. \A c \in SpCount : uses'[c] + weaks'[c] > 0 <=> uses[c] + weaks[c] > 0
    BY <1>3, <1>2 DEF PtrSound, TypeOK
  <2> QED
    BY <1>8, <1>1, <1>5, <1>2, <2>1, FreedKept
<1> QED
  BY <1>5, <1>9, <1>10 DEF PtrSound

LEMMA SoundLetGo ==
  ASSUME PtrSound, NEW p \in Ptr, NEW q \in Ptr \cup {None}, Shared(p), Free(p),
         q # None => q # p /\ ptr[q].at = "shared", LetGo(p, q)
  PROVE  PtrSound'
<1> DEFINE b == ptr[p].of
           place == IF uses[b] = 1 THEN "delete" ELSE "sub"
           r == [at |-> place, of |-> b, from |-> q]
<1>1. ptr' = [ptr EXCEPT ![p] = r] /\ place \in {"delete", "sub"}
  BY DEF LetGo
<1>2. b \in SpCount
  BY InMemory DEF Shared
<1> HIDE DEF place
<1>3. MayBecome(p, r)
  BY <1>1, <1>2 DEF MayBecome
<1>4. TypeOK' /\ PtrPlaced'
  BY <1>1, <1>2, <1>3, PtrMoved DEF LetGo, countVars, PtrSound, TypeOK
<1>5. \A c \in SpCount : /\ Owns(r, c) <=> Owns(ptr[p], c)
                         /\ ~Watches(r, c) /\ ~Watches(ptr[p], c)
  BY <1>1 DEF Owns, Watches, Shared
<1>6. \A c \in SpCount :
        /\ uses'[c] = uses[c] + One(Owns(r, c)) - One(Owns(ptr[p], c))
        /\ weaks'[c] = weaks[c] + One(Watches(r, c)) - One(Watches(ptr[p], c))
                         + One(object'[c] = "self") - One(object[c] = "self")
  BY <1>5 DEF LetGo, countVars, One, PtrSound, TypeOK
<1>7. ptr[p].at # "free" /\ r.at # "free"
  BY <1>1 DEF Shared
<1> HIDE DEF r
<1>8. Tallied'
  BY <1>1, <1>6, PtrCounted
<1>9. Freed'
  BY <1>7, <1>1, <1>4, FreedKept DEF LetGo, countVars
<1> QED
  BY <1>4, <1>8, <1>9 DEF PtrSound

LEMMA SoundDelete ==
  ASSUME PtrSound, NEW p \in Ptr, Delete(p)
  PROVE  PtrSound'
<1> DEFINE b == ptr[p].of
           r == [ptr[p] EXCEPT !.at = "sub"]
<1>1. ptr' = [ptr EXCEPT ![p] = r] /\ r = [at |-> "sub", of |-> b, from |-> ptr[p].from]
  BY DEF Delete, PtrSound, TypeOK
<1>2. /\ ptr[p].at = "delete" /\ object[b] # "deleted"
      /\ object' = [object EXCEPT ![b] = IF @ = "null" THEN @ ELSE "deleted"]
      /\ weaks' = [weaks EXCEPT ![b] = IF object[b] = "self" THEN @ - 1 ELSE @]
      /\ UNCHANGED <<uses, block, promoted, raced>>
  BY DEF Delete
<1>3. /\ b \in SpCount /\ uses[b] \in Nat /\ uses[b] >= 1 /\ weaks[b] \in Nat
      /\ object[b] = "self" => weaks[b] >= 1
  BY <1>2, InMemory, PtrFinite DEF PtrSound, TypeOK, Tallied
<1> HIDE DEF b
<1>4. MayBecome(p, r)
  BY <1>1, <1>2, <1>3 DEF MayBecome, PtrSound, TypeOK, PtrPlaced
<1>5. \A c \in SpCount : /\ Owns(r, c) <=> Owns(ptr[p], c)
                         /\ ~Watches(r, c) /\ ~Watches(ptr[p], c)
  BY <1>1, <1>2 DEF b, Owns, Watches
<1>6. ptr[p].at # "free" /\ r.at # "free"
  BY <1>1, <1>2
<1>7. ptr' = [ptr EXCEPT ![p] = r]
  BY <1>1
<1> HIDE DEF r
<1>8. TypeOK' /\ PtrPlaced'
  <2>1. /\ weaks' \in [SpCount -> Nat]
        /\ object' \in [SpCount -> {"null", "plain", "self", "deleted"}]
    BY <1>2, <1>3 DEF PtrSound, TypeOK
  <2> QED
    BY <1>2, <1>4, <1>7, <2>1, PtrMoved DEF PtrSound, TypeOK
<1>9. \A c \in SpCount :
        /\ uses'[c] = uses[c] + One(Owns(r, c)) - One(Owns(ptr[p], c))
        /\ weaks'[c] = weaks[c] + One(Watches(r, c)) - One(Watches(ptr[p], c))
                         + One(object'[c] = "self") - One(object[c] = "self")
  BY <1>2, <1>3, <1>5 DEF One, PtrSound, TypeOK
<1>10. Tallied'
  BY <1>7, <1>9, PtrCounted
<1>11. Freed'
  <2>1. \A c \in SpCount : uses'[c] + weaks'[c] > 0 <=> uses[c] + weaks[c] > 0
    BY <1>2, <1>3 DEF PtrSound, TypeOK
  <2> QED
    BY <1>2, <1>6, <1>7, <1>8, <2>1, FreedKept
<1> QED
  BY <1>8, <1>10, <1>11 DEF PtrSound

(* A reference of either kind is given up. *)
GiveUp(p) ==
  LET b == ptr[p].of IN
  /\ ptr[p].at \in {"sub", "weak"}
  /\ uses' = [uses EXCEPT ![b] = @ - One(ptr[p].at = "sub")]
  /\ weaks' = [weaks EXCEPT ![b] = @ - One(ptr[p].at = "weak")]
  /\ GivenUp(p, b, uses[b] + weaks[b] = 1)
  /\ UNCHANGED <<block, object, promoted, raced>>

LEMMA SoundGiveUp ==
  ASSUME PtrSound, NEW p \in Ptr, GiveUp(p)
  PROVE  PtrSound'
<1> DEFINE b == ptr[p].of
           last == uses[b] + weaks[b] = 1
           r == CASE last -> [at |-> "free", of |-> b, from |-> ptr[p].from]
                  [] ~last /\ ptr[p].from = None -> Nothing
                  [] OTHER -> [at |-> "add", of |-> None, from |-> ptr[p].from]
<1>1. ptr' = [ptr EXCEPT ![p] = r]
  BY DEF GiveUp, GivenUp
<1>2. /\ ptr[p].at \in {"sub", "weak"}
      /\ uses' = [uses EXCEPT ![b] = @ - One(ptr[p].at = "sub")]
      /\ weaks' = [weaks EXCEPT ![b] = @ - One(ptr[p].at = "weak")]
      /\ UNCHANGED <<block, object, promoted, raced>>
  BY DEF GiveUp
<1>3. /\ b \in SpCount /\ uses[b] \in Nat /\ weaks[b] \in Nat /\ block[b] = "live"
      /\ uses[b] >= One(ptr[p].at = "sub") /\ weaks[b] >= One(ptr[p].at = "weak")
      /\ uses[b] + weaks[b] >= 1
  BY <1>2, InMemory DEF PtrSound, TypeOK, One
<1>4. /\ last => r = [at |-> "free", of |-> b, from |-> ptr[p].from]
      /\ ~last => \/ ptr[p].from = None /\ r = Nothing
                  \/ /\ ptr[p].from # None
                     /\ r = [at |-> "add", of |-> None, from |-> ptr[p].from]
  OBVIOUS
<1> HIDE DEF r
<1>5. MayBecome(p, r)
  <2>1. ptr[p].from \in Ptr \cup {None}
    BY DEF PtrSound, TypeOK
  <2>2. ptr[p].from # None => ptr[p].from # p /\ ptr[ptr[p].from].at = "shared"
    BY <1>2 DEF PtrSound, PtrPlaced
  <2> QED
    BY <1>2, <1>3, <1>4, <2>1, <2>2 DEF MayBecome, Nothing
<1>6. TypeOK' /\ PtrPlaced'
  <2>1. uses' \in [SpCount -> Nat] /\ weaks' \in [SpCount -> Nat]
    BY <1>2, <1>3 DEF One, PtrSound, TypeOK
  <2> QED
    BY <1>1, <1>2, <1>5, <2>1, PtrMoved DEF PtrSound, TypeOK
<1>7. \A c \in SpCount : /\ Owns(ptr[p], c) <=> c = b /\ ptr[p].at = "sub"
                         /\ Watches(ptr[p], c) <=> c = b /\ ptr[p].at = "weak"
                         /\ ~Owns(r, c) /\ ~Watches(r, c)
  BY <1>2, <1>4 DEF Owns, Watches, Nothing
<1>8. \A c \in SpCount :
        /\ uses'[c] = uses[c] + One(Owns(r, c)) - One(Owns(ptr[p], c))
        /\ weaks'[c] = weaks[c] + One(Watches(r, c)) - One(Watches(ptr[p], c))
                         + One(object'[c] = "self") - One(object[c] = "self")
  BY <1>2, <1>3, <1>7 DEF One, PtrSound, TypeOK
<1>9. Tallied'
  BY <1>1, <1>8, PtrCounted
<1>10. /\ uses'[b] + weaks'[b] = uses[b] + weaks[b] - 1
       /\ \A c \in SpCount \ {b} : uses'[c] = uses[c] /\ weaks'[c] = weaks[c]
  BY <1>2, <1>3 DEF One, PtrSound, TypeOK
<1>11. CASE ~last
  <2>1. ptr[p].at # "free" /\ r.at # "free"
    BY <1>2, <1>4, <1>11 DEF Nothing
  <2>2. \A c \in SpCount : uses'[c] + weaks'[c] > 0 <=> uses[c] + weaks[c] > 0
    BY <1>3, <1>10, <1>11
  <2>3. Freed'
    BY <1>1, <1>2, <1>6, <2>1, <2>2, FreedKept
  <2> QED
    BY <1>6, <1>9, <2>3 DEF PtrSound
<1>12. CASE last
  <2>1. r.at = "free" /\ r.of = b /\ uses'[b] + weaks'[b] = 0
    BY <1>3, <1>4, <1>10, <1>12
  <2>2. \A q \in Ptr : ~(ptr[q].at = "free" /\ ptr[q].of = b)
    BY <1>3, <1>12 DEF PtrSound, Freed
  <2>3. \A q \in Ptr : IF q = p THEN ptr'[q] = r ELSE ptr'[q] = ptr[q]
    BY <1>1 DEF PtrSound, TypeOK
  <2>4. ASSUME NEW c \in SpCount, c # b
        PROVE  \A q \in Ptr : ptr'[q].at = "free" /\ ptr'[q].of = c
                                <=> ptr[q].at = "free" /\ ptr[q].of = c
    BY <1>2, <2>1, <2>3, <2>4
  <2>5. Freed'
    <3>1. ASSUME NEW c \in SpCount, c # b
          PROVE  /\ block'[c] = "live" <=>
                      \/ uses'[c] + weaks'[c] > 0
                      \/ \E q \in Ptr : ptr'[q].at = "free" /\ ptr'[q].of = c
                 /\ \A q, s \in Ptr :
                      ptr'[q].at = "free" /\ ptr'[s].at = "free"
                        /\ ptr'[q].of = c /\ ptr'[s].of = c
                      => q = s /\ uses'[c] + weaks'[c] = 0
      BY <1>2, <1>10, <2>4, <3>1 DEF PtrSound, Freed
    <3>2. block'[b] = "live" /\ \E q \in Ptr : ptr'[q].at = "free" /\ ptr'[q].of = b
      BY <1>2, <1>3, <2>1, <2>3
    <3>3. \A q \in Ptr : ptr'[q].at = "free" /\ ptr'[q].of = b => q = p
      BY <2>2, <2>3
    <3> HIDE DEF b
    <3> QED
      BY <2>1, <3>1, <3>2, <3>3 DEF Freed
  <2> QED
    BY <1>6, <1>9, <2>5 DEF PtrSound
<1> QED
  BY <1>11, <1>12

LEMMA SoundFreeBlock ==
  ASSUME PtrSound, NEW p \in Ptr, FreeBlock(p)
  PROVE  PtrSound'
<1> DEFINE b == ptr[p].of
           r == IF ptr[p].from = None THEN Nothing
                  ELSE [at |-> "add", of |-> None, from |-> ptr[p].from]
<1>1. ptr' = [ptr EXCEPT ![p] = r]
  BY DEF FreeBlock, GivenUp
<1>2. /\ ptr[p].at = "free" /\ block' = [block EXCEPT ![b] = "freed"]
      /\ UNCHANGED <<uses, weaks, object, promoted, raced>>
  BY DEF FreeBlock
<1>3. /\ b \in SpCount /\ uses[b] \in Nat /\ weaks[b] \in Nat /\ uses[b] + weaks[b] = 0
      /\ \A q \in Ptr : ptr[q].at = "free" /\ ptr[q].of = b => q = p
  BY <1>2, InMemory DEF PtrSound, TypeOK, Freed
<1>4. \/ ptr[p].from = None /\ r = Nothing
      \/ ptr[p].from # None /\ r = [at |-> "add", of |-> None, from |-> ptr[p].from]
  OBVIOUS
<1> HIDE DEF r
<1>5. MayBecome(p, r)
  <2>1. ptr[p].from \in Ptr \cup {None}
    BY DEF PtrSound, TypeOK
  <2>2. ptr[p].from # None => ptr[p].from # p /\ ptr[ptr[p].from].at = "shared"
    BY <1>2 DEF PtrSound, PtrPlaced
  <2> QED
    BY <1>2, <1>4, <2>1, <2>2 DEF MayBecome, Nothing
<1>6. TypeOK' /\ PtrPlaced'
  BY <1>1, <1>2, <1>3, <1>5, PtrMoved DEF PtrSound, TypeOK
<1>7. \A c \in SpCount : /\ ~Owns(ptr[p], c) /\ ~Watches(ptr[p], c)
                         /\ ~Owns(r, c) /\ ~Watches(r, c)
  BY <1>2, <1>4 DEF Owns, Watches, Nothing
<1>8. \A c \in SpCount :
        /\ uses'[c] = uses[c] + One(Owns(r, c)) - One(Owns(ptr[p], c))
        /\ weaks'[c] = weaks[c] + One(Watches(r, c)) - One(Watches(ptr[p], c))
                         + One(object'[c] = "self") - One(object[c] = "self")
  BY <1>2, <1>7 DEF One, PtrSound, TypeOK
<1>9. Tallied'
  BY <1>1, <1>8, PtrCounted
<1>10. Freed'
  <2>1. r.at # "free"
    BY <1>4 DEF Nothing
  <2>2. \A q \in Ptr : IF q = p THEN ptr'[q] = r ELSE ptr'[q] = ptr[q]
    BY <1>1 DEF PtrSound, TypeOK
  <2>3. \A c \in SpCount \ {b} :
          /\ block'[c] = block[c]
          /\ \A q \in Ptr : ptr'[q].at = "free" /\ ptr'[q].of = c
                              <=> ptr[q].at = "free" /\ ptr[q].of = c
    BY <1>2, <2>1, <2>2 DEF PtrSound, TypeOK
  <2>4. /\ block'[b] = "freed" /\ ~(uses[b] + weaks[b] > 0)
        /\ \A q \in Ptr : ~(ptr'[q].at = "free" /\ ptr'[q].of = b)
    BY <1>2, <1>3, <2>1, <2>2 DEF PtrSound, TypeOK
  <2> HIDE DEF b
  <2> QED
    BY <1>2, <1>3, <2>3, <2>4 DEF PtrSound, Freed
<1> QED
  BY <1>6, <1>9, <1>10 DEF PtrSound

(* The steps are those, whatever their guards add. *)
LEMMA SoundCopy ==
  ASSUME PtrSound, NEW p \in Ptr, NEW q \in Ptr, Copy(p, q)
  PROVE  PtrSound'
<1>1. CASE CopyShared(p, q)
  <2>1. AddShared(p, q)
    BY <1>1 DEF CopyShared, AddShared, Nothing, Shared, PtrSound, TypeOK
  <2> QED
    BY <2>1, SoundAddShared
<1>2. CASE CopyWeak(p, q)
  BY <1>2, SoundAddWeak
<1>3. CASE Lock(p, q)
  <2>1. ptr[q].of \in SpCount
    BY <1>3, InMemory DEF Lock, Weak
  <2>2. promoted' \subseteq SpCount
    BY <1>3, <2>1 DEF Lock, PtrSound, TypeOK
  <2>3. AddShared(p, q)
    BY <1>3, <2>2 DEF Lock, AddShared, Nothing, Weak
  <2> QED
    BY <2>3, SoundAddShared
<1> QED
  BY <1>1, <1>2, <1>3 DEF Copy

LEMMA SoundEnd ==
  ASSUME PtrSound, NEW p \in Ptr, End(p)
  PROVE  PtrSound'
<1>1. CASE Destroy(p)
  BY <1>1, SoundLetGo DEF Destroy
<1>2. CASE Delete(p)
  BY <1>2, SoundDelete
<1>3. CASE Sub(p)
  <2> DEFINE b == ptr[p].of
  <2>1. /\ b \in SpCount /\ uses[b] \in Nat /\ weaks[b] \in Nat
        /\ uses[b] >= 1 /\ ptr[p].at = "sub"
    BY <1>3, InMemory DEF Sub, PtrSound, TypeOK
  <2>2. (uses[b] = 1 /\ weaks[b] = 0) = (uses[b] + weaks[b] = 1)
    BY <2>1
  <2>3. weaks' = [weaks EXCEPT ![b] = @ - One(ptr[p].at = "weak")]
    BY <1>3, <2>1 DEF Sub, One, PtrSound, TypeOK
  <2>4. uses' = [uses EXCEPT ![b] = @ - One(ptr[p].at = "sub")]
    BY <1>3, <2>1 DEF Sub, One
  <2>5. GivenUp(p, b, uses[b] + weaks[b] = 1)
    BY <1>3, <2>2 DEF Sub, GivenUp
  <2>6. GiveUp(p)
    BY <1>3, <2>1, <2>3, <2>4, <2>5 DEF GiveUp, Sub
  <2> QED
    BY <2>6, SoundGiveUp
<1>4. CASE DestroyWeak(p)
  <2> DEFINE b == ptr[p].of
  <2>1. /\ b \in SpCount /\ uses[b] \in Nat /\ weaks[b] \in Nat
        /\ weaks[b] >= 1 /\ ptr[p].at = "weak"
    BY <1>4, InMemory DEF DestroyWeak, Weak, PtrSound, TypeOK
  <2>2. (weaks[b] = 1 /\ uses[b] = 0) = (uses[b] + weaks[b] = 1)
    BY <2>1
  <2>3. weaks' = [weaks EXCEPT ![b] = @ - One(ptr[p].at = "weak")]
    BY <1>4, <2>1 DEF DestroyWeak, One
  <2>4. uses' = [uses EXCEPT ![b] = @ - One(ptr[p].at = "sub")]
    BY <1>4, <2>1 DEF DestroyWeak, One, PtrSound, TypeOK
  <2>5. GivenUp(p, b, uses[b] + weaks[b] = 1)
    BY <1>4, <2>2 DEF DestroyWeak, GivenUp
  <2>6. GiveUp(p)
    BY <1>4, <2>1, <2>3, <2>4, <2>5 DEF GiveUp, DestroyWeak
  <2> QED
    BY <2>6, SoundGiveUp
<1>5. CASE FreeBlock(p)
  BY <1>5, SoundFreeBlock
<1>6. CASE AssignAdd(p)
  <2> DEFINE q == ptr[p].from
  <2>1. q \in Ptr /\ ptr[q].at = "shared"
    BY <1>6 DEF AssignAdd, PtrSound, TypeOK, PtrPlaced
  <2>2. AddShared(p, q)
    BY <1>6, <2>1 DEF AssignAdd, AddShared, PtrSound, TypeOK
  <2> QED
    BY <2>1, <2>2, SoundAddShared
<1> QED
  BY <1>1, <1>2, <1>3, <1>4, <1>5, <1>6 DEF End

LEMMA SoundInit == Init => PtrSound
<1> SUFFICES ASSUME Init PROVE PtrSound
  OBVIOUS
<1>1. \A b \in SpCount : Owners(b) = {} /\ Watchers(b) = {}
  BY PointerAssumption DEF Init, Nothing, Owners, Watchers
<1>2. Tallied
  BY <1>1, FS_EmptySet DEF Init, Tallied
<1>3. Freed
  BY DEF Init, Nothing, Freed
<1>4. TypeOK /\ PtrPlaced
  BY DEF Init, Nothing, TypeOK, PtrPlaced
<1> QED
  BY <1>2, <1>3, <1>4 DEF PtrSound

LEMMA SoundNext == PtrSound /\ [Next]_vars => PtrSound'
<1> SUFFICES ASSUME PtrSound, [Next]_vars PROVE PtrSound'
  OBVIOUS
<1>1. ASSUME NEW p \in Ptr, New(p) PROVE PtrSound'
  BY <1>1, SoundNewWeak, SoundNewShared DEF New
<1>2. ASSUME NEW p \in Ptr, NEW q \in Ptr, Assign(p, q) PROVE PtrSound'
  BY <1>2, SoundLetGo DEF Assign, Shared
<1>3. CASE UNCHANGED vars
  <2>1. \A b \in SpCount : Owners(b)' = Owners(b) /\ Watchers(b)' = Watchers(b)
    BY <1>3 DEF vars, Owners, Watchers
  <2>2. Tallied'
    BY <1>3, <2>1 DEF vars, countVars, PtrSound, Tallied
  <2>3. Freed' /\ TypeOK' /\ PtrPlaced'
    BY <1>3 DEF vars, countVars, PtrSound, Freed, TypeOK, PtrPlaced
  <2> QED
    BY <2>2, <2>3 DEF PtrSound
<1> QED
  BY <1>1, <1>2, <1>3, SoundCopy, SoundEnd DEF Next

(* Every reachable state is sound. *)
THEOREM AlwaysSound == Spec => []PtrSound
BY SoundInit, SoundNext, PTL DEF Spec

(* The type invariant of sp_count and its pointers, however many threads   *)
(* hold one: no count falls below zero (sp_count::sub, sub_weak).          *)
THEOREM TypeCorrect == Spec => []TypeOK
<1>1. PtrSound => TypeOK
  BY DEF PtrSound
<1> QED
  BY <1>1, AlwaysSound, PTL

(* The counts of an sp_count are the shared_ptrs and weak_ptrs there are,  *)
(* and its memory is freed once, by the last of either kind, whatever the  *)
(* order in which the threads take the mutex (sub and sub_weak).           *)
THEOREM Counts == Spec => []CountsExact
<1>1. PtrSound => CountsExact
  BY DEF PtrSound, Tallied, Freed, CountsExact
<1> QED
  BY <1>1, AlwaysSound, PTL

-----------------------------------------------------------------------------
(***************************************************************************)
(* The objects.  Unless the block was locked at the wrong moment, a        *)
(* pointer that is about to delete an object is alone with it, and those   *)
(* that are left with a deleted one only give it up.  Unless two owners    *)
(* went at once, an object that is there has an owner that will delete it. *)
(***************************************************************************)
DeletesAlone ==
  \A b \in SpCount : b \notin promoted =>
    \A p, q \in Ptr : ptr[p].of = b /\ ptr[p].at = "delete" /\ Owns(ptr[q], b) => q = p

OnlyGivenUp ==
  \A b \in SpCount : object[b] = "deleted" /\ b \notin promoted =>
    \A p \in Ptr : Owns(ptr[p], b) => ptr[p].at = "sub"

WillBeDeleted ==
  \A b \in SpCount :
    /\ block[b] = "unused" => object[b] = "null"
    /\ object[b] \in {"plain", "self"} /\ b \notin raced =>
         \E p \in Ptr : ptr[p].of = b /\ ptr[p].at \in {"shared", "delete"}

Deletion == DeletesAlone /\ OnlyGivenUp /\ WillBeDeleted

(* What the other pointers are is not changed. *)
LEMMA OnePointer ==
  ASSUME PtrSound, NEW p \in Ptr, NEW r, ptr' = [ptr EXCEPT ![p] = r]
  PROVE  ptr'[p] = r /\ \A q \in Ptr : q # p => ptr'[q] = ptr[q]
BY DEF PtrSound, TypeOK

(* A pointer that settles on a block which another owns, or that is given  *)
(* no owner at all, changes nothing for the object.                        *)
LEMMA DeletionKept ==
  ASSUME PtrSound, Deletion, NEW p \in Ptr, NEW r, ptr' = [ptr EXCEPT ![p] = r],
         ptr[p].at \notin {"shared", "delete"}, r.at \notin {"delete", "sub"},
         r.at = "shared" => \/ r.of \in promoted'
                            \/ \E q \in Ptr : ptr[q].at = "shared" /\ ptr[q].of = r.of,
         \A b \in SpCount : block'[b] = "unused" => block[b] = "unused",
         object' = object, promoted \subseteq promoted', raced' = raced
  PROVE  Deletion'
<1>1. ptr'[p] = r /\ \A q \in Ptr : q # p => ptr'[q] = ptr[q]
  BY OnePointer
<1>2. DeletesAlone'
  <2> SUFFICES ASSUME NEW b \in SpCount, b \notin promoted', NEW q \in Ptr, NEW s \in Ptr,
                      ptr'[q].of = b, ptr'[q].at = "delete", Owns(ptr'[s], b)
               PROVE  s = q
    BY DEF DeletesAlone, Owns
  <2>1. q # p /\ ptr'[q] = ptr[q] /\ b \notin promoted
    BY <1>1
  <2>2. CASE s # p
    BY <1>1, <2>1, <2>2 DEF Deletion, DeletesAlone
  <2>3. CASE s = p
    <3>1. PICK t \in Ptr : ptr[t].at = "shared" /\ ptr[t].of = b
      BY <1>1, <2>3 DEF Owns
    <3> QED
      BY <2>1, <3>1 DEF Deletion, DeletesAlone, Owns
  <2> QED
    BY <2>2, <2>3
<1>3. OnlyGivenUp'
  <2> SUFFICES ASSUME NEW b \in SpCount, object[b] = "deleted", b \notin promoted',
                      NEW s \in Ptr, Owns(ptr'[s], b)
               PROVE  ptr'[s].at = "sub"
    BY DEF OnlyGivenUp, Owns
  <2>1. b \notin promoted
    OBVIOUS
  <2>2. CASE s # p
    BY <1>1, <2>1, <2>2 DEF Deletion, OnlyGivenUp
  <2>3. CASE s = p
    <3>1. PICK t \in Ptr : ptr[t].at = "shared" /\ ptr[t].of = b
      BY <1>1, <2>3 DEF Owns
    <3> QED
      BY <2>1, <3>1 DEF Deletion, OnlyGivenUp, Owns
  <2> QED
    BY <2>2, <2>3
<1>4. WillBeDeleted'
  BY <1>1 DEF Deletion, WillBeDeleted
<1> QED
  BY <1>2, <1>3, <1>4 DEF Deletion

LEMMA DeletionNew ==
  ASSUME PtrSound, Deletion, NEW p \in Ptr, New(p)
  PROVE  Deletion'
<1>1. ASSUME NEW b \in SpCount, NewWeak(p, b)
      PROVE  Deletion'
  <2> DEFINE r == [at |-> "weak", of |-> b, from |-> None]
  <2>1. ptr' = [ptr EXCEPT ![p] = r] /\ ptr[p].at = "none"
    BY <1>1 DEF NewWeak, Points, Nothing
  <2>2. \A c \in SpCount : block'[c] = "unused" => block[c] = "unused"
    BY <1>1 DEF NewWeak, PtrSound, TypeOK
  <2> QED
    BY <1>1, <2>1, <2>2, DeletionKept DEF NewWeak
<1>2. ASSUME NEW b \in SpCount, NEW what \in {"null", "plain", "self"},
             NewShared(p, b, what)
      PROVE  Deletion'
  <2> DEFINE r == [at |-> "shared", of |-> b, from |-> None]
  <2>1. ptr' = [ptr EXCEPT ![p] = r] /\ ptr[p].at = "none" /\ block[b] = "unused"
    BY <1>2 DEF NewShared, Points, Nothing
  <2>2. ptr'[p] = r /\ \A q \in Ptr : q # p => ptr'[q] = ptr[q]
    BY <2>1, OnePointer
  <2>3. \A q \in Ptr : ~Owns(ptr[q], b)
    BY <2>1, UnusedBlock
  <2>4. \A c \in SpCount \ {b} : object'[c] = object[c] /\ block'[c] = block[c]
    BY <1>2 DEF NewShared, PtrSound, TypeOK
  <2>5. object'[b] = what /\ block'[b] = "live" /\ promoted' = promoted /\ raced' = raced
    BY <1>2 DEF NewShared, PtrSound, TypeOK
  <2>6. DeletesAlone'
    BY <2>2, <2>3, <2>5 DEF Deletion, DeletesAlone, Owns
  <2>7. OnlyGivenUp'
    BY <2>2, <2>4, <2>5 DEF Deletion, OnlyGivenUp, Owns
  <2>8. WillBeDeleted'
    <3>1. ASSUME NEW c \in SpCount, c # b, object'[c] \in {"plain", "self"}, c \notin raced'
          PROVE  \E q \in Ptr : ptr'[q].of = c /\ ptr'[q].at \in {"shared", "delete"}
      <4>1. PICK q \in Ptr : ptr[q].of = c /\ ptr[q].at \in {"shared", "delete"}
        BY <2>4, <2>5, <3>1 DEF Deletion, WillBeDeleted
      <4> QED
        BY <2>1, <2>2, <4>1
    <3> QED
      BY <2>2, <2>4, <2>5, <3>1 DEF Deletion, WillBeDeleted
  <2> QED
    BY <2>6, <2>7, <2>8 DEF Deletion
<1> QED
  BY <1>1, <1>2 DEF New

LEMMA DeletionCopy ==
  ASSUME PtrSound, Deletion, NEW p \in Ptr, NEW q \in Ptr, Copy(p, q)
  PROVE  Deletion'
<1>1. CASE CopyShared(p, q)
  <2> DEFINE r == [at |-> "shared", of |-> ptr[q].of, from |-> None]
  <2>1. /\ ptr' = [ptr EXCEPT ![p] = r] /\ ptr[p].at = "none" /\ ptr[q].at = "shared"
        /\ UNCHANGED <<block, object, promoted, raced>>
    BY <1>1 DEF CopyShared, Points, Nothing, Shared
  <2> QED
    BY <2>1, DeletionKept
<1>2. CASE CopyWeak(p, q)
  <2> DEFINE r == [at |-> "weak", of |-> ptr[q].of, from |-> None]
  <2>1. /\ ptr' = [ptr EXCEPT ![p] = r] /\ ptr[p].at = "none"
        /\ UNCHANGED <<block, object, promoted, raced>>
    BY <1>2 DEF CopyWeak, Points, Nothing
  <2> QED
    BY <2>1, DeletionKept
<1>3. CASE Lock(p, q)
  <2> DEFINE r == [at |-> "shared", of |-> ptr[q].of, from |-> None]
  <2>1. /\ ptr' = [ptr EXCEPT ![p] = r] /\ ptr[p].at = "none"
        /\ UNCHANGED <<block, object, raced>>
    BY <1>3 DEF Lock, Points, Nothing
  <2>2. /\ promoted \subseteq promoted'
        /\ \/ r.of \in promoted'
           \/ \E s \in Ptr : ptr[s].at = "shared" /\ ptr[s].of = r.of
    BY <1>3 DEF Lock, Shared
  <2> QED
    BY <2>1, <2>2, DeletionKept
<1> QED
  BY <1>1, <1>2, <1>3 DEF Copy

(* unique() is true of one owner, which is then alone, and false of two. *)
LEMMA DeletionLetGo ==
  ASSUME PtrSound, Deletion, NEW p \in Ptr, NEW q \in Ptr \cup {None}, Shared(p), LetGo(p, q)
  PROVE  Deletion'
<1> DEFINE b == ptr[p].of
           place == IF uses[b] = 1 THEN "delete" ELSE "sub"
           r == [at |-> place, of |-> b, from |-> q]
<1>1. ptr' = [ptr EXCEPT ![p] = r] /\ place \in {"delete", "sub"}
  BY DEF LetGo
<1>2. ptr'[p] = r /\ \A s \in Ptr : s # p => ptr'[s] = ptr[s]
  BY <1>1 DEF PtrSound, TypeOK
<1>3. b \in SpCount /\ ptr[p].at = "shared" /\ p \in Owners(b)
  BY InMemory DEF Shared, Owners
<1>4. uses[b] = 1 => Owners(b) = {p}
  BY <1>3, Alone DEF PtrSound, Tallied
<1>5. uses[b] # 1 => \E s \in Ptr : s # p /\ Owns(ptr[s], b)
  <2>1. Owners(b) = {p} => uses[b] = 1
    BY <1>3, FS_Singleton DEF PtrSound, Tallied
  <2> QED
    BY <1>3, <2>1 DEF Owners, Owns
<1>6. /\ uses[b] = 1 => place = "delete"
      /\ uses[b] # 1 => place = "sub"
      /\ UNCHANGED <<block, object, promoted>> /\ raced \subseteq raced'
      /\ (\E s \in Ptr : ptr[s].at = "sub" /\ ptr[s].of = b) => b \in raced'
  BY DEF LetGo, countVars
<1> HIDE DEF place, b
<1>7. \A s \in Ptr, c \in SpCount : Owns(ptr'[s], c) <=> Owns(ptr[s], c)
  BY <1>1, <1>2, <1>3 DEF b, Owns
<1>8. DeletesAlone'
  <2> SUFFICES ASSUME NEW c \in SpCount, c \notin promoted', NEW s \in Ptr, NEW t \in Ptr,
                      ptr'[s].of = c, ptr'[s].at = "delete", Owns(ptr'[t], c)
               PROVE  t = s
    BY DEF DeletesAlone, Owns
  <2>1. CASE s # p
    BY <1>2, <1>6, <1>7, <2>1 DEF Deletion, DeletesAlone
  <2>2. CASE s = p
    <3>1. c = b /\ uses[b] = 1
      BY <1>2, <1>6, <2>2
    <3>2. t \in Owners(b)
      BY <1>7, <3>1 DEF Owners, Owns
    <3> QED
      BY <1>4, <2>2, <3>1, <3>2
  <2> QED
    BY <2>1, <2>2
<1>9. OnlyGivenUp'
  <2> SUFFICES ASSUME NEW c \in SpCount, object[c] = "deleted", c \notin promoted,
                      NEW s \in Ptr, Owns(ptr'[s], c)
               PROVE  ptr'[s].at = "sub"
    BY <1>6 DEF OnlyGivenUp, Owns
  <2>1. Owns(ptr[s], c) /\ ptr[s].at = "sub"
    BY <1>7 DEF Deletion, OnlyGivenUp
  <2> QED
    BY <1>2, <1>3, <2>1
<1>10. WillBeDeleted'
  <2>1. ASSUME NEW c \in SpCount, object[c] \in {"plain", "self"}, c \notin raced'
        PROVE  \E s \in Ptr : ptr'[s].of = c /\ ptr'[s].at \in {"shared", "delete"}
    <3>1. PICK s \in Ptr : ptr[s].of = c /\ ptr[s].at \in {"shared", "delete"}
      BY <1>6, <2>1 DEF Deletion, WillBeDeleted
    <3>2. CASE s # p
      BY <1>2, <3>1, <3>2
    <3>3. CASE s = p /\ uses[b] = 1
      BY <1>2, <1>6, <3>1, <3>3 DEF b
    <3>4. CASE s = p /\ uses[b] # 1
      <4>1. PICK t \in Ptr : t # p /\ Owns(ptr[t], b)
        BY <1>5, <3>4
      <4>2. ptr[t].at # "sub" /\ c = b
        BY <1>6, <2>1, <3>1, <3>4, <4>1 DEF b, Owns
      <4> QED
        BY <1>2, <4>1, <4>2 DEF Owns
    <3> QED
      BY <3>2, <3>3, <3>4
  <2> QED
    BY <1>6, <2>1 DEF Deletion, WillBeDeleted
<1> QED
  BY <1>8, <1>9, <1>10 DEF Deletion

LEMMA DeletionDelete ==
  ASSUME PtrSound, Deletion, NEW p \in Ptr, Delete(p)
  PROVE  Deletion'
<1> DEFINE b == ptr[p].of
           r == [ptr[p] EXCEPT !.at = "sub"]
<1>1. /\ ptr' = [ptr EXCEPT ![p] = r] /\ ptr[p].at = "delete"
      /\ r = [at |-> "sub", of |-> b, from |-> ptr[p].from]
  BY DEF Delete, PtrSound, TypeOK
<1>2. ptr'[p] = r /\ \A s \in Ptr : s # p => ptr'[s] = ptr[s]
  BY <1>1, OnePointer
<1>3. b \in SpCount /\ block[b] = "live"
  BY <1>1, InMemory
<1>4. /\ object'[b] \in {"null", "deleted"} /\ (object'[b] = "null" => object[b] = "null")
      /\ \A c \in SpCount \ {b} : object'[c] = object[c]
      /\ UNCHANGED <<block, promoted, raced>>
  BY <1>3 DEF Delete, PtrSound, TypeOK
<1>5. \A s \in Ptr, c \in SpCount : Owns(ptr'[s], c) <=> Owns(ptr[s], c)
  BY <1>1, <1>2 DEF Owns
<1>6. DeletesAlone'
  BY <1>1, <1>2, <1>4, <1>5 DEF Deletion, DeletesAlone
<1>7. OnlyGivenUp'
  <2> SUFFICES ASSUME NEW c \in SpCount, object'[c] = "deleted", c \notin promoted,
                      NEW s \in Ptr, Owns(ptr'[s], c)
               PROVE  ptr'[s].at = "sub"
    BY <1>4 DEF OnlyGivenUp, Owns
  <2>1. CASE c = b
    <3>1. s = p
      BY <1>1, <1>5, <2>1 DEF Deletion, DeletesAlone
    <3> QED
      BY <1>1, <1>2, <3>1
  <2>2. CASE c # b
    BY <1>1, <1>2, <1>4, <1>5, <2>2 DEF Deletion, OnlyGivenUp, Owns
  <2> QED
    BY <2>1, <2>2
<1>8. WillBeDeleted'
  <2>1. ASSUME NEW c \in SpCount, object'[c] \in {"plain", "self"}, c \notin raced
        PROVE  \E s \in Ptr : ptr'[s].of = c /\ ptr'[s].at \in {"shared", "delete"}
    <3>1. c # b
      BY <1>4, <2>1
    <3>2. PICK s \in Ptr : ptr[s].of = c /\ ptr[s].at \in {"shared", "delete"}
      BY <1>4, <2>1, <3>1 DEF Deletion, WillBeDeleted
    <3> QED
      BY <1>2, <3>1, <3>2
  <2> QED
    BY <1>3, <1>4, <2>1 DEF Deletion, WillBeDeleted
<1> QED
  BY <1>6, <1>7, <1>8 DEF Deletion

LEMMA DeletionEnd ==
  ASSUME PtrSound, Deletion, NEW p \in Ptr, End(p)
  PROVE  Deletion'
<1>1. CASE Destroy(p)
  BY <1>1, DeletionLetGo DEF Destroy
<1>2. CASE Delete(p)
  BY <1>2, DeletionDelete
<1>3. ASSUME NEW b, NEW last, GivenUp(p, b, last), ptr[p].at \in {"sub", "weak", "free"},
             \A c \in SpCount : block'[c] = "unused" => block[c] = "unused",
             UNCHANGED <<object, promoted, raced>>
      PROVE  Deletion'
  <2> DEFINE r == CASE last -> [at |-> "free", of |-> b, from |-> ptr[p].from]
                    [] ~last /\ ptr[p].from = None -> Nothing
                    [] OTHER -> [at |-> "add", of |-> None, from |-> ptr[p].from]
  <2>1. ptr' = [ptr EXCEPT ![p] = r]
    BY <1>3 DEF GivenUp
  <2>2. r.at \in {"free", "none", "add"}
    BY DEF Nothing
  <2> HIDE DEF r
  <2> QED
    BY <1>3, <2>1, <2>2, DeletionKept
<1>4. CASE Sub(p)
  BY <1>3, <1>4 DEF Sub
<1>5. CASE DestroyWeak(p)
  BY <1>3, <1>5 DEF DestroyWeak, Weak
<1>6. CASE FreeBlock(p)
  <2>1. \A c \in SpCount : block'[c] = "unused" => block[c] = "unused"
    BY <1>6 DEF FreeBlock, PtrSound, TypeOK
  <2> QED
    BY <1>3, <1>6, <2>1 DEF FreeBlock
<1>7. CASE AssignAdd(p)
  <2> DEFINE q == ptr[p].from
             r == [at |-> "shared", of |-> ptr[q].of, from |-> None]
  <2>1. /\ ptr' = [ptr EXCEPT ![p] = r] /\ ptr[p].at = "add"
        /\ UNCHANGED <<block, object, promoted, raced>>
    BY <1>7 DEF AssignAdd, Points
  <2>2. q \in Ptr /\ ptr[q].at = "shared"
    BY <2>1 DEF PtrSound, TypeOK, PtrPlaced
  <2> QED
    BY <2>1, <2>2, DeletionKept
<1> QED
  BY <1>1, <1>2, <1>4, <1>5, <1>6, <1>7 DEF End

LEMMA DeletionNext == PtrSound /\ Deletion /\ [Next]_vars => Deletion'
<1> SUFFICES ASSUME PtrSound, Deletion, [Next]_vars PROVE Deletion'
  OBVIOUS
<1>1. ASSUME NEW p \in Ptr, NEW q \in Ptr, Assign(p, q) PROVE Deletion'
  BY <1>1, DeletionLetGo DEF Assign
<1>2. CASE UNCHANGED vars
  BY <1>2 DEF vars, countVars, Deletion, DeletesAlone, OnlyGivenUp, WillBeDeleted, Owns
<1> QED
  BY <1>1, <1>2, DeletionNew, DeletionCopy, DeletionEnd DEF Next

(* An object goes with its last owner, for any number of owners in any     *)
(* order, as long as no lock() of a weak_ptr meets the last of them        *)
(* (shared_ptr.h:72) and no two of them ask unique() at once (line 77).    *)
THEOREM ObjectsGoWithOwners == Spec => []DeletedWithLastOwner
<1>1. Init => Deletion
  BY DEF Init, Nothing, Deletion, DeletesAlone, OnlyGivenUp, WillBeDeleted, Owns
<1>2. Deletion => DeletedWithLastOwner
  BY DEF Deletion, OnlyGivenUp, WillBeDeleted, DeletedWithLastOwner, Owners, Owns
<1> QED
  BY <1>1, <1>2, AlwaysSound, DeletionNext, PTL DEF Spec

-----------------------------------------------------------------------------
(***************************************************************************)
(* SmallObj.  First a chunk by itself: what its list is when S are the     *)
(* blocks that callers have.  Then an allocator, as a record: a vector of  *)
(* such chunks, and the positions in it.  Last the pools, whose chunks     *)
(* share no memory.                                                        *)
(***************************************************************************)
OneToOne(order) == \A j, k \in DOMAIN order : order[j] = order[k] => j = k

ChunkSound(c, S) ==
  /\ c \in Chunk /\ S \subseteq Block
  /\ c.avail + Cardinality(S) = NumBlocks
  /\ \E order \in [1..c.avail -> Block] :
       /\ FreeList(c, order) /\ OneToOne(order)
       /\ {order[k] : k \in 1..c.avail} = Block \ S

LEMMA BlocksFinite ==
  ASSUME NEW S, S \subseteq Block
  PROVE  IsFiniteSet(S) /\ Cardinality(S) \in Nat
<1>1. IsFiniteSet(Block)
  BY MemoryAssumption, FS_Interval DEF Block
<1>2. IsFiniteSet(S)
  BY <1>1, FS_Subset
<1> QED
  BY <1>2, FS_CardinalityType

(* A chunk is whole when no caller has a block of it. *)
LEMMA ChunkWhole ==
  ASSUME NEW c, NEW S, ChunkSound(c, S)
  PROVE  c.avail = NumBlocks <=> S = {}
<1>1. IsFiniteSet(S) /\ Cardinality(S) \in Nat
  BY BlocksFinite DEF ChunkSound
<1>2. c.avail = NumBlocks <=> Cardinality(S) = 0
  BY <1>1, MemoryAssumption DEF ChunkSound, Chunk
<1> QED
  BY <1>1, <1>2, FS_EmptySet

LEMMA ChunkNew ==
  ASSUME NEW page \in Page
  PROVE  ChunkSound(NewChunk(page), {})
<1> DEFINE c == NewChunk(page)
           order == [k \in 1..NumBlocks |-> k - 1]
<1>1. c \in Chunk
  BY MemoryAssumption DEF NewChunk, Chunk, Block
<1>2. c.avail = NumBlocks /\ c.first = 0 /\ c.next = [b \in Block |-> b + 1]
  BY DEF NewChunk
<1>3. order \in [1..c.avail -> Block] /\ OneToOne(order)
  BY <1>2, MemoryAssumption DEF Block, OneToOne
<1>4. FreeList(c, order)
  BY <1>2, MemoryAssumption DEF FreeList, Block
<1>5. {order[k] : k \in 1..c.avail} = Block \ {}
  <2>1. ASSUME NEW b \in Block
        PROVE  \E k \in 1..NumBlocks : order[k] = b
    <3>1. b + 1 \in 1..NumBlocks /\ order[b + 1] = b
      BY MemoryAssumption DEF Block
    <3> QED
      BY <3>1
  <2> QED
    BY <1>2, <1>3, <2>1
<1>6. c.avail + Cardinality({}) = NumBlocks
  BY <1>2, FS_EmptySet, MemoryAssumption
<1> QED
  BY <1>1, <1>3, <1>4, <1>5, <1>6 DEF ChunkSound

(* The block at the front of the list is given to a caller. *)
LEMMA ChunkGives ==
  ASSUME NEW c, NEW S, ChunkSound(c, S), c.avail # 0
  PROVE  /\ c.first \in Block \ S
         /\ ChunkSound(ChunkAllocate(c), S \cup {c.first})
         /\ ChunkAllocate(c).page = c.page
         /\ ChunkAllocate(c).avail = c.avail - 1
<1> DEFINE d == ChunkAllocate(c)
           b == c.first
<1>1. c \in Chunk /\ S \subseteq Block /\ c.avail \in Nat /\ c.avail >= 1
  BY MemoryAssumption DEF ChunkSound, Chunk
<1>2. PICK order \in [1..c.avail -> Block] :
        /\ FreeList(c, order) /\ OneToOne(order)
        /\ {order[k] : k \in 1..c.avail} = Block \ S
  BY DEF ChunkSound
<1>3. order[1] = b /\ b \in Block \ S
  BY <1>1, <1>2 DEF FreeList
<1>4. /\ d = [c EXCEPT !.first = c.next[b], !.avail = c.avail - 1]
      /\ d.avail = c.avail - 1 /\ d.first = c.next[b] /\ d.next = c.next
      /\ d.page = c.page
  BY <1>1 DEF ChunkAllocate, Chunk
<1>5. d \in Chunk
  <2>1. c.avail - 1 \in 0..NumBlocks /\ c.next[b] \in 0..NumBlocks
    BY <1>1, <1>3, MemoryAssumption DEF Chunk
  <2> QED
    BY <1>1, <1>4, <2>1 DEF Chunk
<1>6. d.avail + Cardinality(S \cup {b}) = NumBlocks
  <2>1. IsFiniteSet(S) /\ Cardinality(S) \in Nat
    BY BlocksFinite DEF ChunkSound
  <2>2. Cardinality(S \cup {b}) = Cardinality(S) + 1
    BY <1>3, <2>1, FS_AddElement
  <2> QED
    BY <1>1, <1>4, <2>1, <2>2 DEF ChunkSound
<1> DEFINE rest == [k \in 1..(c.avail - 1) |-> order[k + 1]]
<1>7. rest \in [1..d.avail -> Block]
  BY <1>1, <1>4
<1>8. FreeList(d, rest)
  <2>1. d.avail > 0 => rest[1] = order[2] /\ order[2] = c.next[order[1]]
    BY <1>1, <1>2, <1>4 DEF FreeList
  <2>2. ASSUME NEW k \in 1..(d.avail - 1)
        PROVE  rest[k + 1] = d.next[rest[k]]
    <3>1. k + 1 \in 1..(c.avail - 1) /\ k \in 1..(c.avail - 1)
      BY <1>1, <1>4
    <3>2. order[k + 1 + 1] = c.next[order[k + 1]]
      BY <1>2, <3>1 DEF FreeList
    <3> QED
      BY <1>4, <3>1, <3>2
  <2> QED
    BY <1>3, <1>4, <2>1, <2>2 DEF FreeList
<1>9. OneToOne(rest)
  BY <1>1, <1>2 DEF OneToOne
<1>10. {rest[k] : k \in 1..d.avail} = Block \ (S \cup {b})
  <2>1. ASSUME NEW k \in 1..d.avail
        PROVE  rest[k] \in Block \ (S \cup {b})
    <3>1. k + 1 \in 1..c.avail /\ k + 1 # 1 /\ 1 \in 1..c.avail
      BY <1>1, <1>4
    <3>2. order[k + 1] \in Block \ S /\ order[k + 1] # order[1]
      BY <1>2, <3>1 DEF OneToOne
    <3> QED
      BY <1>3, <1>4, <3>2
  <2>2. ASSUME NEW a \in Block \ (S \cup {b})
        PROVE  \E k \in 1..d.avail : rest[k] = a
    <3>1. PICK k \in 1..c.avail : order[k] = a
      BY <1>2, <2>2
    <3>2. k # 1
      BY <1>3, <2>2, <3>1
    <3>3. k - 1 \in 1..d.avail /\ rest[k - 1] = a
      BY <1>1, <1>4, <3>1, <3>2
    <3> QED
      BY <3>3
  <2> HIDE DEF rest
  <2> QED
    BY <2>1, <2>2
<1>11. S \cup {b} \subseteq Block
  BY <1>1, <1>3
<1> QED
  BY <1>3, <1>4, <1>5, <1>6, <1>7, <1>8, <1>9, <1>10, <1>11 DEF ChunkSound

(* A block that a caller had is put in front of the list. *)
LEMMA ChunkTakes ==
  ASSUME NEW c, NEW S, ChunkSound(c, S), NEW b \in S
  PROVE  /\ c.avail # NumBlocks
         /\ ChunkSound(ChunkDeallocate(c, b), S \ {b})
         /\ ChunkDeallocate(c, b).page = c.page
<1> DEFINE d == ChunkDeallocate(c, b)
<1>1. c \in Chunk /\ S \subseteq Block /\ c.avail \in Nat /\ b \in Block
  BY MemoryAssumption DEF ChunkSound, Chunk
<1>2. c.avail # NumBlocks
  BY ChunkWhole
<1>3. PICK order \in [1..c.avail -> Block] :
        /\ FreeList(c, order) /\ OneToOne(order)
        /\ {order[k] : k \in 1..c.avail} = Block \ S
  BY DEF ChunkSound
<1>4. /\ d = [c EXCEPT !.next = [c.next EXCEPT ![b] = c.first], !.first = b,
                        !.avail = c.avail + 1]
      /\ d.avail = c.avail + 1 /\ d.first = b /\ d.page = c.page
      /\ d.next = [c.next EXCEPT ![b] = c.first]
  BY <1>1 DEF ChunkDeallocate, Chunk
<1>13. d \in Chunk
  <2>1. c.avail + 1 \in 0..NumBlocks /\ b \in 0..NumBlocks /\ c.first \in 0..NumBlocks
    BY <1>1, <1>2, MemoryAssumption DEF Chunk, Block
  <2>2. [c.next EXCEPT ![b] = c.first] \in [Block -> 0..NumBlocks]
    BY <1>1, <2>1 DEF Chunk
  <2> QED
    BY <1>1, <1>4, <2>1, <2>2 DEF Chunk
<1>5. d.avail + Cardinality(S \ {b}) = NumBlocks
  <2>1. IsFiniteSet(S) /\ Cardinality(S) \in Nat
    BY BlocksFinite DEF ChunkSound
  <2>2. Cardinality(S \ {b}) = Cardinality(S) - 1
    BY <2>1, FS_RemoveElement
  <2> QED
    BY <1>1, <1>4, <2>1, <2>2 DEF ChunkSound
<1> DEFINE more == [k \in 1..(c.avail + 1) |-> IF k = 1 THEN b ELSE order[k - 1]]
<1>6. /\ more[1] = b
      /\ \A k \in 1..c.avail : k + 1 \in 1..(c.avail + 1) /\ more[k + 1] = order[k]
      /\ \A k \in 1..(c.avail + 1) : k = 1 \/ (k - 1 \in 1..c.avail /\ more[k] = order[k - 1])
  BY <1>1
<1>7. \A k \in 1..c.avail : order[k] \in Block \ S /\ order[k] # b
  BY <1>3
<1>8. more \in [1..d.avail -> Block]
  BY <1>1, <1>4, <1>6, <1>7
<1>9. FreeList(d, more)
  <2>1. ASSUME NEW k \in 1..(d.avail - 1)
        PROVE  more[k + 1] = d.next[more[k]]
    <3>1. k \in 1..c.avail /\ more[k + 1] = order[k]
      BY <1>1, <1>4, <1>6
    <3>2. CASE k = 1
      <4>1. order[1] = c.first
        BY <1>1, <1>3, <3>1, <3>2 DEF FreeList
      <4>2. d.next[b] = c.first
        BY <1>1, <1>4 DEF Chunk
      <4> QED
        BY <1>6, <3>1, <3>2, <4>1, <4>2
    <3>3. CASE k # 1
      <4>1. k - 1 \in 1..(c.avail - 1) /\ more[k] = order[k - 1] /\ k - 1 \in 1..c.avail
        BY <1>1, <1>6, <3>1, <3>3
      <4>2. order[k] = c.next[order[k - 1]]
        <5>1. order[k - 1 + 1] = c.next[order[k - 1]] /\ k - 1 + 1 = k
          BY <1>1, <1>3, <3>1, <4>1 DEF FreeList
        <5> QED
          BY <5>1
      <4>3. d.next[order[k - 1]] = c.next[order[k - 1]]
        BY <1>1, <1>4, <1>7, <4>1 DEF Chunk
      <4>4. more[k + 1] = order[k] /\ more[k] = order[k - 1]
        BY <3>1, <4>1
      <4> HIDE DEF more, d
      <4> QED
        BY <4>2, <4>3, <4>4
    <3> QED
      BY <3>2, <3>3
  <2> QED
    BY <1>4, <1>6, <2>1 DEF FreeList
<1>10. OneToOne(more)
  <2> SUFFICES ASSUME NEW j \in 1..(c.avail + 1), NEW k \in 1..(c.avail + 1),
                      more[j] = more[k]
               PROVE  j = k
    BY DEF OneToOne
  <2>1. j = 1 <=> k = 1
    BY <1>6, <1>7
  <2>2. j # 1 /\ k # 1 => j - 1 = k - 1
    BY <1>3, <1>6 DEF OneToOne
  <2> QED
    BY <1>1, <2>1, <2>2
<1>11. {more[k] : k \in 1..d.avail} = Block \ (S \ {b})
  <2>1. ASSUME NEW k \in 1..d.avail
        PROVE  more[k] \in Block \ (S \ {b})
    BY <1>1, <1>4, <1>6, <1>7
  <2>2. ASSUME NEW a \in Block \ (S \ {b})
        PROVE  \E k \in 1..d.avail : more[k] = a
    <3>1. CASE a = b
      <4>1. 1 \in 1..d.avail
        BY <1>1, <1>4
      <4> QED
        BY <1>6, <3>1, <4>1
    <3>2. CASE a # b
      <4>1. PICK k \in 1..c.avail : order[k] = a
        BY <1>3, <2>2, <3>2
      <4> QED
        BY <1>4, <1>6, <4>1
    <3> QED
      BY <3>1, <3>2
  <2> HIDE DEF more
  <2> QED
    BY <2>1, <2>2
<1>12. S \ {b} \subseteq Block
  BY <1>1
<1> QED
  BY <1>2, <1>4, <1>13, <1>5, <1>8, <1>9, <1>10, <1>11, <1>12 DEF ChunkSound

-----------------------------------------------------------------------------
(***************************************************************************)
(* An allocator f for blocks of n bytes, when callers have the blocks G.   *)
(***************************************************************************)
Held(G, n, page) == {x.block : x \in {y \in G : y.size = n /\ y.page = page}}

Whole(f) == {i \in DOMAIN f.chunks : f.chunks[i].avail = NumBlocks}

AllocSound(n, f, G) ==
  /\ f \in Allocator
  /\ \A i \in DOMAIN f.chunks : ChunkSound(f.chunks[i], Held(G, n, f.chunks[i].page))
  /\ \A i, j \in DOMAIN f.chunks : f.chunks[i].page = f.chunks[j].page => i = j
  /\ \A x \in G : x.size = n => x.page \in Pages(f)

Pointed(f) ==
  /\ Whole(f) = IF f.empty = 0 THEN {} ELSE {f.empty}
  /\ f.chunks # <<>> /\ ~f.moved => {f.alloc, f.dealloc} \subseteq DOMAIN f.chunks
  /\ f.moved => f.empty = 0 /\ WithRoom(f) \cap {f.alloc} = {}
  /\ f.chunks = <<>> => f.alloc = 0

(* The inductive invariant: besides what AllocatorSound says, an allocator *)
(* without chunks points to none.                                          *)
MemoryInv ==
  /\ MemoryTypeOK
  /\ \A n \in BlockSize : AllocSound(n, pool[n], given) /\ Pointed(pool[n])
  /\ \A m, n \in BlockSize : m # n => Pages(pool[m]) \cap Pages(pool[n]) = {}

LEMMA Shapes ==
  ASSUME NEW f, f \in Allocator
  PROVE  /\ f.chunks \in Seq(Chunk) /\ Len(f.chunks) \in Nat
         /\ DOMAIN f.chunks = 1..Len(f.chunks)
         /\ \A i \in DOMAIN f.chunks : f.chunks[i] \in Chunk /\ i \in Nat \ {0}
         /\ f.chunks = <<>> <=> Len(f.chunks) = 0
<1>1. f.chunks \in Seq(Chunk)
  BY DEF Allocator
<1> QED
  BY <1>1, EmptySeq, LenProperties, ElementOfSeq

(* One pool and its blocks change; the others have what they had.          *)
LEMMA PoolStep ==
  ASSUME MemoryInv, NEW n \in BlockSize, NEW f, NEW G,
         pool' = [pool EXCEPT ![n] = f], given' = G, dangled' \in BOOLEAN,
         G \subseteq [size : BlockSize, page : Page, block : Block],
         \A x : x.size # n => (x \in G <=> x \in given),
         AllocSound(n, f, G), Pointed(f),
         Pages(f) \subseteq Pages(pool[n]) \cup FreePages
  PROVE  MemoryInv'
<1>1. /\ pool \in [BlockSize -> Allocator] /\ f \in Allocator
      /\ pool' \in [BlockSize -> Allocator] /\ pool'[n] = f
      /\ \A m \in BlockSize \ {n} : pool'[m] = pool[m]
  BY DEF MemoryInv, MemoryTypeOK, AllocSound
<1>2. MemoryTypeOK'
  BY <1>1 DEF MemoryTypeOK
<1>3. ASSUME NEW m \in BlockSize
      PROVE  AllocSound(m, pool'[m], G) /\ Pointed(pool'[m])
  <2>1. CASE m = n
    BY <1>1, <2>1
  <2>2. CASE m # n
    <3>1. AllocSound(m, pool[m], given) /\ Pointed(pool[m]) /\ pool'[m] = pool[m]
      BY <1>1, <2>2 DEF MemoryInv
    <3>2. ASSUME NEW page
          PROVE  Held(G, m, page) = Held(given, m, page)
      BY <2>2 DEF Held
    <3>3. \A x \in G : x.size = m => x \in given
      BY <2>2
    <3> QED
      BY <3>1, <3>2, <3>3 DEF AllocSound
  <2> QED
    BY <2>1, <2>2
<1>4. ASSUME NEW k \in BlockSize, NEW m \in BlockSize, k # m
      PROVE  Pages(pool'[k]) \cap Pages(pool'[m]) = {}
  <2>1. \A j \in BlockSize \ {n} : Pages(f) \cap Pages(pool[j]) = {}
    BY DEF MemoryInv, FreePages
  <2>2. Pages(pool[k]) \cap Pages(pool[m]) = {}
    BY <1>4 DEF MemoryInv
  <2> QED
    BY <1>1, <1>4, <2>1, <2>2
<1> QED
  <2>1. \A m \in BlockSize : AllocSound(m, pool'[m], given') /\ Pointed(pool'[m])
    BY <1>3
  <2>2. \A k, m \in BlockSize : k # m => Pages(pool'[k]) \cap Pages(pool'[m]) = {}
    BY <1>4
  <2> QED
    BY <1>2, <2>1, <2>2 DEF MemoryInv

(* A block that comes back is one less, and only, in its chunk.            *)
LEMMA HeldLess ==
  ASSUME given \subseteq [size : BlockSize, page : Page, block : Block], NEW x \in given
  PROVE  /\ x.block \in Held(given, x.size, x.page)
         /\ Held(given \ {x}, x.size, x.page) = Held(given, x.size, x.page) \ {x.block}
         /\ \A page : page # x.page => Held(given \ {x}, x.size, page) = Held(given, x.size, page)
<1>1. ASSUME NEW y \in given, y.size = x.size, y.page = x.page, y.block = x.block
      PROVE  y = x
  BY <1>1
<1>2. \A y \in given \ {x} : y \in given /\ y # x
  OBVIOUS
<1> QED
  BY <1>1, <1>2 DEF Held

(* One chunk changes, and with it which of its blocks callers have.        *)
ChunkChanged(n, f, G, i, g, H) ==
  /\ AllocSound(n, f, G) /\ i \in DOMAIN f.chunks
  /\ g \in Allocator /\ DOMAIN g.chunks = DOMAIN f.chunks
  /\ g.chunks[i].page = f.chunks[i].page
  /\ \A j \in DOMAIN f.chunks : j # i => g.chunks[j] = f.chunks[j]
  /\ ChunkSound(g.chunks[i], Held(H, n, f.chunks[i].page))
  /\ \A page : page # f.chunks[i].page => Held(H, n, page) = Held(G, n, page)
  /\ \A x \in H : x.size = n => x.page \in Pages(f)

LEMMA OneChunk ==
  ASSUME NEW n, NEW f, NEW G, NEW i, NEW g, NEW H, ChunkChanged(n, f, G, i, g, H)
  PROVE  AllocSound(n, g, H) /\ Pages(g) = Pages(f)
<1>1. /\ DOMAIN g.chunks = DOMAIN f.chunks /\ i \in DOMAIN f.chunks
      /\ \A j \in DOMAIN f.chunks : j # i => g.chunks[j] = f.chunks[j]
  BY DEF ChunkChanged
<1>2. \A j \in DOMAIN f.chunks : g.chunks[j].page = f.chunks[j].page
  BY DEF ChunkChanged
<1>3. Pages(g) = Pages(f)
  BY <1>1, <1>2 DEF Pages
<1>4. \A j, k \in DOMAIN f.chunks : f.chunks[j].page = f.chunks[k].page => j = k
  BY DEF ChunkChanged, AllocSound
<1>5. ASSUME NEW j \in DOMAIN f.chunks
      PROVE  ChunkSound(g.chunks[j], Held(H, n, g.chunks[j].page))
  <2>1. CASE j = i
    BY <2>1 DEF ChunkChanged
  <2>2. CASE j # i
    <3>1. f.chunks[j].page # f.chunks[i].page
      BY <1>1, <1>4, <2>2
    <3>2. ChunkSound(f.chunks[j], Held(G, n, f.chunks[j].page))
      BY DEF ChunkChanged, AllocSound
    <3>3. Held(H, n, f.chunks[j].page) = Held(G, n, f.chunks[j].page)
      BY <3>1 DEF ChunkChanged
    <3> QED
      BY <1>1, <2>2, <3>2, <3>3
  <2> QED
    BY <2>1, <2>2
<1>6. g \in Allocator /\ \A x \in H : x.size = n => x.page \in Pages(f)
  BY DEF ChunkChanged
<1>7. AllocSound(n, g, H)
  BY <1>1, <1>2, <1>3, <1>4, <1>5, <1>6 DEF AllocSound
<1> QED
  BY <1>3, <1>7

(* An allocator that has settled which chunk to take a block from.         *)
Ready(n, f) ==
  /\ AllocSound(n, f, given) /\ ~f.moved
  /\ {f.alloc, f.dealloc} \subseteq DOMAIN f.chunks
  /\ f.chunks[f.alloc].avail # 0
  /\ Whole(f) \ {f.alloc} = IF f.empty = 0 THEN {} ELSE {f.empty}
  /\ Pages(f) \subseteq Pages(pool[n]) \cup FreePages

LEMMA GiveStep ==
  ASSUME MemoryInv, NEW n \in BlockSize, NEW f, Ready(n, f), Give(n, f),
         UNCHANGED dangled
  PROVE  MemoryInv'
<1> DEFINE c == f.chunks[f.alloc]
           x == [size |-> n, page |-> c.page, block |-> c.first]
           d == ChunkAllocate(c)
           g == [f EXCEPT !.chunks[f.alloc] = d]
           H == given \cup {x}
<1>1. pool' = [pool EXCEPT ![n] = g] /\ given' = H
  BY DEF Give
<1>2. /\ AllocSound(n, f, given) /\ f \in Allocator /\ f.alloc \in DOMAIN f.chunks
      /\ c \in Chunk /\ ChunkSound(c, Held(given, n, c.page)) /\ c.avail # 0
  BY Shapes DEF Ready, AllocSound
<1>3. /\ c.first \in Block \ Held(given, n, c.page)
      /\ ChunkSound(d, Held(given, n, c.page) \cup {c.first})
      /\ d.page = c.page /\ d.avail = c.avail - 1
  BY <1>2, ChunkGives
<1>4. x.size = n /\ x.page = c.page /\ x.block = c.first /\ H = given \cup {x}
  OBVIOUS
<1>5. d \in Chunk
  <2> HIDE DEF d
  <2> QED
    BY <1>3 DEF ChunkSound
<1>6. /\ g \in Allocator /\ g.chunks = [f.chunks EXCEPT ![f.alloc] = d]
      /\ g.alloc = f.alloc /\ g.dealloc = f.dealloc /\ g.empty = f.empty
      /\ g.moved = f.moved
  <2>1. [f.chunks EXCEPT ![f.alloc] = d] \in Seq(Chunk)
    BY <1>2, <1>5, Shapes, ExceptSeq
  <2> QED
    BY <1>2, <2>1 DEF Allocator
<1>7. /\ DOMAIN g.chunks = DOMAIN f.chunks /\ g.chunks[f.alloc] = d
      /\ \A j \in DOMAIN f.chunks : j # f.alloc => g.chunks[j] = f.chunks[j]
  BY <1>2, <1>6, Shapes
<1>8. g \in Allocator
  BY <1>6
<1> HIDE DEF c, x, d, g, H
<1>9. /\ Held(H, n, c.page) = Held(given, n, c.page) \cup {c.first}
      /\ \A page : page # c.page => Held(H, n, page) = Held(given, n, page)
  BY <1>4 DEF Held
<1>10. ChunkSound(d, Held(H, n, c.page)) /\ d.page = c.page
  BY <1>3, <1>9
<1>11. \A y \in H : y.size = n => y.page \in Pages(f)
  BY <1>2, <1>4 DEF AllocSound, Pages, c
<1>12. ChunkChanged(n, f, given, f.alloc, g, H)
  BY <1>2, <1>7, <1>8, <1>9, <1>10, <1>11 DEF ChunkChanged, c
<1>13. AllocSound(n, g, H) /\ Pages(g) = Pages(f)
  BY <1>12, OneChunk
<1>14. Pointed(g)
  <2>1. d.avail # NumBlocks
    BY <1>2, <1>3, MemoryAssumption DEF Chunk
  <2>2. Whole(g) = Whole(f) \ {f.alloc}
    BY <1>7, <2>1 DEF Whole
  <2>3. g.chunks # <<>>
    BY <1>2, <1>7, EmptySeq
  <2> QED
    BY <1>6, <1>7, <2>2, <2>3 DEF Ready, Pointed
<1>15. H \subseteq [size : BlockSize, page : Page, block : Block]
  BY <1>2, <1>3, <1>4 DEF MemoryInv, MemoryTypeOK, Chunk, x
<1>16. \A y : y.size # n => (y \in H <=> y \in given)
  BY <1>4
<1>17. dangled' \in BOOLEAN /\ Pages(g) \subseteq Pages(pool[n]) \cup FreePages
  BY <1>13 DEF Ready, MemoryInv, MemoryTypeOK
<1> QED
  BY <1>1, <1>13, <1>14, <1>15, <1>16, <1>17, PoolStep

(* The chunks stay, and only what points to them changes.                  *)
LEMMA SameChunks ==
  ASSUME NEW n, NEW f, NEW G, AllocSound(n, f, G), NEW g, g \in Allocator,
         g.chunks = f.chunks
  PROVE  AllocSound(n, g, G) /\ Whole(g) = Whole(f) /\ Pages(g) = Pages(f)
  BY DEF AllocSound, Whole, Pages

LEMMA Minimum ==
  ASSUME NEW T, T \subseteq Nat, T # {}
  PROVE  \E i \in T : \A j \in T : i <= j
<1>1. PICK i \in T : \A j \in T : ~ (<<j, i>> \in OpToRel(<, Nat))
  BY NatLessThanWellFounded, WFMin
<1>2. ASSUME NEW j \in T
      PROVE  i <= j
  <2>1. ~ (<<j, i>> \in OpToRel(<, Nat)) /\ <<j, i>> \in Nat \X Nat
    BY <1>1
  <2>2. ~ (j < i)
    BY <2>1 DEF OpToRel
  <2> QED
    BY <2>2
<1> QED
  BY <1>2

(* What is known of an allocator before a call. *)
LEMMA Before ==
  ASSUME MemoryInv, NEW n \in BlockSize, ~pool[n].moved
  PROVE  /\ pool[n] \in Allocator /\ AllocSound(n, pool[n], given) /\ Pointed(pool[n])
         /\ pool[n].chunks # <<>> <=> DOMAIN pool[n].chunks # {}
         /\ pool[n].chunks # <<>> =>
              pool[n].alloc \in DOMAIN pool[n].chunks /\ pool[n].dealloc \in DOMAIN pool[n].chunks
         /\ pool[n].chunks = <<>> => pool[n].alloc = 0
         /\ Whole(pool[n]) = IF pool[n].empty = 0 THEN {} ELSE {pool[n].empty}
         /\ 0 \notin DOMAIN pool[n].chunks
<1>1. pool[n] \in Allocator /\ AllocSound(n, pool[n], given) /\ Pointed(pool[n])
  BY DEF MemoryInv, AllocSound
<1>2. pool[n].chunks # <<>> <=> DOMAIN pool[n].chunks # {}
  BY <1>1, Shapes
<1>3. 0 \notin DOMAIN pool[n].chunks
  BY <1>1, Shapes
<1> QED
  BY <1>1, <1>2, <1>3 DEF Pointed

LEMMA ReadyFromAlloc ==
  ASSUME MemoryInv, NEW n \in BlockSize, ~pool[n].moved, Usable(pool[n])
  PROVE  Ready(n, FromAlloc(pool[n]))
<1> DEFINE f == pool[n]
           g == FromAlloc(f)
<1>1. /\ f \in Allocator /\ AllocSound(n, f, given)
      /\ Whole(f) = IF f.empty = 0 THEN {} ELSE {f.empty}
      /\ f.alloc \in DOMAIN f.chunks /\ f.dealloc \in DOMAIN f.chunks
      /\ f.chunks[f.alloc].avail # 0 /\ ~f.moved
  BY Before DEF Usable
<1>2. /\ g \in Allocator /\ g.chunks = f.chunks /\ g.alloc = f.alloc
      /\ g.dealloc = f.dealloc /\ g.moved = f.moved
      /\ g.empty = IF f.empty = f.alloc THEN 0 ELSE f.empty
  BY <1>1 DEF FromAlloc, Allocator
<1> HIDE DEF f, g
<1>3. AllocSound(n, g, given) /\ Whole(g) = Whole(f) /\ Pages(g) = Pages(f)
  BY <1>1, <1>2, SameChunks
<1>4. Ready(n, g)
  BY <1>1, <1>2, <1>3, Before DEF Ready, f
<1> QED
  BY <1>4 DEF f, g

LEMMA ReadyFromEmpty ==
  ASSUME MemoryInv, NEW n \in BlockSize, ~pool[n].moved, pool[n].empty # 0
  PROVE  Ready(n, FromEmpty(pool[n]))
<1> DEFINE f == pool[n]
           g == FromEmpty(f)
<1>1. /\ f \in Allocator /\ AllocSound(n, f, given) /\ Whole(f) = {f.empty} /\ ~f.moved
  BY Before
<1>2. f.empty \in DOMAIN f.chunks /\ f.chunks[f.empty].avail = NumBlocks
  BY <1>1 DEF Whole
<1>3. f.dealloc \in DOMAIN f.chunks
  BY <1>2, Before
<1>4. /\ g \in Allocator /\ g.chunks = f.chunks /\ g.alloc = f.empty
      /\ g.dealloc = f.dealloc /\ g.moved = f.moved /\ g.empty = 0
  BY <1>1 DEF FromEmpty, Allocator
<1> HIDE DEF f, g
<1>5. AllocSound(n, g, given) /\ Whole(g) = Whole(f) /\ Pages(g) = Pages(f)
  BY <1>1, <1>4, SameChunks
<1>6. Ready(n, g)
  BY <1>1, <1>2, <1>3, <1>4, <1>5, MemoryAssumption DEF Ready, f
<1> QED
  BY <1>6 DEF f, g

LEMMA ReadyFromRoom ==
  ASSUME MemoryInv, NEW n \in BlockSize, ~pool[n].moved, pool[n].empty = 0,
         WithRoom(pool[n]) # {}
  PROVE  Ready(n, FromRoom(pool[n]))
<1> DEFINE f == pool[n]
           g == FromRoom(f)
           i == CHOOSE i \in WithRoom(f) : \A j \in WithRoom(f) : i <= j
<1>1. /\ f \in Allocator /\ AllocSound(n, f, given) /\ Whole(f) = {} /\ ~f.moved
  BY Before
<1>2. WithRoom(f) \subseteq DOMAIN f.chunks /\ WithRoom(f) \subseteq Nat
  BY <1>1, Shapes DEF WithRoom
<1>3. i \in WithRoom(f)
  BY <1>2, Minimum
<1>4. i \in DOMAIN f.chunks /\ i \in Nat /\ f.chunks[i].avail # 0
  BY <1>2, <1>3 DEF WithRoom
<1>5. f.dealloc \in DOMAIN f.chunks
  BY <1>4, Before
<1>6. g = [f EXCEPT !.alloc = i]
  BY DEF FromRoom
<1> HIDE DEF i, g
<1>7. /\ g \in Allocator /\ g.chunks = f.chunks /\ g.alloc = i
      /\ g.dealloc = f.dealloc /\ g.moved = f.moved /\ g.empty = 0
  BY <1>1, <1>4, <1>6 DEF Allocator
<1> HIDE DEF f
<1>8. AllocSound(n, g, given) /\ Whole(g) = Whole(f) /\ Pages(g) = Pages(f)
  BY <1>1, <1>7, SameChunks
<1>9. Ready(n, g)
  BY <1>1, <1>4, <1>5, <1>7, <1>8 DEF Ready, f
<1> QED
  BY <1>9 DEF f, g

(* A chunk whose memory no pool has is put behind the others.              *)
LEMMA MoreChunks ==
  ASSUME NEW n, NEW f, NEW G, AllocSound(n, f, G), NEW d \in Chunk, ChunkSound(d, {}),
         d.page \notin Pages(f), NEW g, g \in Allocator, g.chunks = Append(f.chunks, d)
  PROVE  /\ AllocSound(n, g, G) /\ DOMAIN g.chunks = 1..(Len(f.chunks) + 1)
         /\ g.chunks[Len(f.chunks) + 1] = d
         /\ \A i \in 1..Len(f.chunks) : g.chunks[i] = f.chunks[i]
         /\ Pages(g) = Pages(f) \cup {d.page}
<1> DEFINE last == Len(f.chunks) + 1
<1>1. /\ f.chunks \in Seq(Chunk) /\ Len(f.chunks) \in Nat
      /\ DOMAIN f.chunks = 1..Len(f.chunks)
  BY Shapes DEF AllocSound
<1>2. /\ Len(g.chunks) = last /\ g.chunks \in Seq(Chunk) /\ g.chunks[last] = d
      /\ \A i \in 1..Len(f.chunks) : g.chunks[i] = f.chunks[i]
  BY <1>1, AppendProperties
<1>3. DOMAIN g.chunks = 1..last
  BY <1>2, LenProperties
<1>4. \A i \in 1..last : i = last \/ i \in 1..Len(f.chunks)
  BY <1>1
<1>5. last \in 1..last /\ \A i \in 1..Len(f.chunks) : i \in 1..last /\ i # last
  BY <1>1
<1> HIDE DEF last
<1>6. Pages(g) = Pages(f) \cup {d.page}
  BY <1>1, <1>2, <1>3, <1>4, <1>5 DEF Pages
<1>7. Held(G, n, d.page) = {}
  BY DEF AllocSound, Held
<1>8. ASSUME NEW i \in 1..last
      PROVE  ChunkSound(g.chunks[i], Held(G, n, g.chunks[i].page))
  <2>1. CASE i = last
    BY <1>2, <1>7, <2>1
  <2>2. CASE i # last
    BY <1>1, <1>2, <1>4, <2>2 DEF AllocSound
  <2> QED
    BY <2>1, <2>2
<1>9. ASSUME NEW i \in 1..last, NEW j \in 1..last, g.chunks[i].page = g.chunks[j].page
      PROVE  i = j
  <2>1. \A k \in 1..Len(f.chunks) : f.chunks[k].page # d.page
    BY <1>1 DEF Pages
  <2>2. \A k, m \in 1..Len(f.chunks) : f.chunks[k].page = f.chunks[m].page => k = m
    BY <1>1 DEF AllocSound
  <2> QED
    BY <1>2, <1>4, <1>9, <2>1, <2>2
<1>10. \A x \in G : x.size = n => x.page \in Pages(g)
  BY <1>6 DEF AllocSound
<1>11. AllocSound(n, g, G)
  BY <1>3, <1>8, <1>9, <1>10 DEF AllocSound
<1> QED
  BY <1>2, <1>3, <1>6, <1>11 DEF last

LEMMA ReadyMakeNewChunk ==
  ASSUME MemoryInv, NEW n \in BlockSize, ~pool[n].moved, pool[n].empty = 0,
         WithRoom(pool[n]) = {}, NEW page \in FreePages
  PROVE  Ready(n, MakeNewChunk(pool[n], page))
<1> DEFINE f == pool[n]
           d == NewChunk(page)
           g == MakeNewChunk(f, page)
           last == Len(f.chunks) + 1
<1>1. /\ f \in Allocator /\ AllocSound(n, f, given) /\ Whole(f) = {} /\ ~f.moved
      /\ f.chunks \in Seq(Chunk) /\ Len(f.chunks) \in Nat
      /\ DOMAIN f.chunks = 1..Len(f.chunks)
  BY Before, Shapes
<1>2. page \in Page /\ page \notin Pages(f)
  BY DEF FreePages
<1>3. ChunkSound(d, {}) /\ d \in Chunk
  BY <1>2, ChunkNew DEF ChunkSound
<1>4. d.page = page /\ d.avail = NumBlocks
  BY DEF NewChunk
<1>5. Append(f.chunks, d) \in Seq(Chunk)
  BY <1>1, <1>3, AppendProperties
<1> HIDE DEF d
<1>6. /\ g \in Allocator /\ g.chunks = Append(f.chunks, d) /\ g.alloc = last
      /\ g.dealloc = 1 /\ g.moved = f.moved /\ g.empty = 0
  <2>1. Reserve(f) \in Nat /\ f.capacity \in Nat
    BY <1>1, MemoryAssumption DEF Reserve, Allocator
  <2>2. (IF Full(f) THEN Reserve(f) ELSE f.capacity) \in Nat /\ last \in Nat
    BY <1>1, <2>1
  <2> QED
    BY <1>1, <1>5, <2>2 DEF MakeNewChunk, Allocator, d
<1>7. 1 \in 1..last /\ last \in 1..last /\ \A i \in 1..last : i = last \/ i \in DOMAIN f.chunks
  BY <1>1
<1> HIDE DEF g, f
<1>8. /\ AllocSound(n, g, given) /\ DOMAIN g.chunks = 1..last /\ g.chunks[last] = d
      /\ \A i \in 1..Len(f.chunks) : g.chunks[i] = f.chunks[i]
      /\ Pages(g) = Pages(f) \cup {page}
  BY <1>1, <1>2, <1>3, <1>4, <1>6, MoreChunks
<1> HIDE DEF last
<1>9. Whole(g) \ {last} = {}
  BY <1>1, <1>7, <1>8 DEF Whole
<1>10. Pages(g) \subseteq Pages(pool[n]) \cup FreePages
  BY <1>8 DEF f
<1>11. Ready(n, g)
  BY <1>1, <1>4, <1>6, <1>7, <1>8, <1>9, <1>10, MemoryAssumption DEF Ready
<1> QED
  BY <1>11 DEF f, g

LEMMA InvAllocate ==
  ASSUME MemoryInv, NEW bytes \in 0..MaxObjectSize, Allocate(bytes)
  PROVE  MemoryInv'
<1> DEFINE n == PoolOf(bytes)
<1>1. n \in BlockSize
  BY MemoryAssumption DEF PoolOf, BlockSize
<1> HIDE DEF n
<1> USE <1>1
<1>2. ~pool[n].moved /\ UNCHANGED dangled
  BY DEF Allocate, n
<1>3. CASE Usable(pool[n]) /\ Give(n, FromAlloc(pool[n]))
  BY <1>2, <1>3, ReadyFromAlloc, GiveStep
<1>4. CASE pool[n].empty # 0 /\ Give(n, FromEmpty(pool[n]))
  BY <1>2, <1>4, ReadyFromEmpty, GiveStep
<1>5. CASE pool[n].empty = 0 /\ WithRoom(pool[n]) # {} /\ Give(n, FromRoom(pool[n]))
  BY <1>2, <1>5, ReadyFromRoom, GiveStep
<1>6. CASE /\ pool[n].empty = 0 /\ WithRoom(pool[n]) = {} /\ FreePages # {}
           /\ Give(n, MakeNewChunk(pool[n], CHOOSE page \in FreePages : TRUE))
  <2> DEFINE p == CHOOSE page \in FreePages : TRUE
  <2>1. p \in FreePages
    BY <1>6
  <2> HIDE DEF p
  <2>2. Give(n, MakeNewChunk(pool[n], p))
    BY <1>6 DEF p
  <2>3. Ready(n, MakeNewChunk(pool[n], p))
    BY <1>2, <1>6, <2>1, ReadyMakeNewChunk
  <2> QED
    BY <1>2, <2>2, <2>3, GiveStep
<1> QED
  BY <1>2, <1>3, <1>4, <1>5, <1>6 DEF Allocate, n

(* NULL is returned.                                                       *)
LEMMA InvAllocateFails ==
  ASSUME MemoryInv, NEW bytes \in 0..MaxObjectSize, AllocateFails(bytes)
  PROVE  MemoryInv'
<1> DEFINE n == PoolOf(bytes)
           f == pool[n]
           g == NoNewChunk(f)
<1>1. n \in BlockSize
  BY MemoryAssumption DEF PoolOf, BlockSize
<1> HIDE DEF n
<1>2. /\ ~f.moved /\ ~Usable(f) /\ f.empty = 0 /\ WithRoom(f) = {}
      /\ pool' \in {pool, [pool EXCEPT ![n] = g]} /\ UNCHANGED <<given, dangled>>
  BY DEF AllocateFails, n
<1>3. /\ f \in Allocator /\ AllocSound(n, f, given) /\ Pointed(f)
      /\ given \subseteq [size : BlockSize, page : Page, block : Block]
      /\ dangled' \in BOOLEAN
  BY <1>1, <1>2, Before DEF MemoryInv, MemoryTypeOK
<1>4. /\ g \in Allocator /\ g.chunks = f.chunks /\ g.alloc = f.alloc
      /\ g.dealloc = f.dealloc /\ g.empty = f.empty
      /\ g.moved = (Full(f) /\ f.chunks # <<>>)
  <2>1. Reserve(f) \in Nat /\ f.capacity \in Nat
    BY <1>3, MemoryAssumption DEF Reserve, Allocator
  <2>2. (IF Full(f) THEN Reserve(f) ELSE f.capacity) \in Nat
    BY <2>1
  <2>3. (Full(f) /\ f.chunks # <<>>) \in BOOLEAN
    OBVIOUS
  <2> QED
    BY <1>3, <2>2, <2>3 DEF NoNewChunk, Allocator
<1> HIDE DEF f, g
<1>5. AllocSound(n, g, given) /\ Whole(g) = Whole(f) /\ Pages(g) = Pages(f)
  BY <1>3, <1>4, SameChunks
<1>6. WithRoom(g) = {}
  BY <1>2, <1>4 DEF WithRoom
<1>7. Pointed(g)
  BY <1>2, <1>3, <1>4, <1>5, <1>6 DEF Pointed
<1>8. CASE pool' = [pool EXCEPT ![n] = g]
  <2>1. Pages(g) \subseteq Pages(pool[n]) \cup FreePages
    BY <1>5 DEF f
  <2> QED
    BY <1>1, <1>2, <1>3, <1>5, <1>7, <1>8, <2>1, PoolStep
<1>9. CASE pool' = pool
  <2>1. AllocSound(n, f, given) /\ Pointed(f) /\ pool' = [pool EXCEPT ![n] = f]
    BY <1>1, <1>3, <1>9 DEF f, MemoryInv, MemoryTypeOK
  <2>2. Pages(f) \subseteq Pages(pool[n]) \cup FreePages
    BY DEF f
  <2> QED
    BY <1>1, <1>2, <1>3, <2>1, <2>2, PoolStep
<1> QED
  BY <1>2, <1>8, <1>9

(* An allocator that has got a block back, in the chunk dealloc.           *)
BlockReturned(n, f, G) ==
  /\ AllocSound(n, f, G) /\ ~f.moved
  /\ {f.alloc, f.dealloc} \subseteq DOMAIN f.chunks /\ f.empty # f.dealloc
  /\ Whole(f) \ {f.dealloc} = IF f.empty = 0 THEN {} ELSE {f.empty}

LEMMA ReturnedGiveBack ==
  ASSUME MemoryInv, NEW x \in given, ~pool[x.size].moved
  PROVE  /\ BlockReturned(x.size, GiveBack(pool[x.size], x), given \ {x})
         /\ Pages(GiveBack(pool[x.size], x)) = Pages(pool[x.size])
<1> DEFINE n == x.size
           f == pool[n]
           i == VicinityFind(f, x)
           c == f.chunks[i]
           d == ChunkDeallocate(c, x.block)
           g == GiveBack(f, x)
           H == given \ {x}
<1>1. /\ given \subseteq [size : BlockSize, page : Page, block : Block]
      /\ n \in BlockSize /\ x.page \in Page /\ x.block \in Block
  BY DEF MemoryInv, MemoryTypeOK
<1>2. /\ f \in Allocator /\ AllocSound(n, f, given) /\ ~f.moved
      /\ f.chunks \in Seq(Chunk) /\ DOMAIN f.chunks = 1..Len(f.chunks)
      /\ Whole(f) = IF f.empty = 0 THEN {} ELSE {f.empty}
  BY <1>1, Before, Shapes
<1>3. i \in DOMAIN f.chunks /\ c.page = x.page
  <2>1. \E j \in DOMAIN f.chunks : f.chunks[j].page = x.page
    BY <1>2 DEF AllocSound, Pages
  <2> QED
    BY <2>1 DEF VicinityFind
<1>4. {f.alloc, f.dealloc} \subseteq DOMAIN f.chunks /\ i \in Nat \ {0}
  BY <1>1, <1>2, <1>3, Before, Shapes
<1>5. g = [f EXCEPT !.chunks = [f.chunks EXCEPT ![i] = d], !.dealloc = i]
  BY <1>3 DEF GiveBack
<1>6. H = given \ {x} /\ H \subseteq given
  OBVIOUS
<1> HIDE DEF c, d, g, H, i, f, n
<1>7. /\ x.block \in Held(given, n, x.page)
      /\ Held(H, n, x.page) = Held(given, n, x.page) \ {x.block}
      /\ \A page : page # x.page => Held(H, n, page) = Held(given, n, page)
  <2>1. /\ x.block \in Held(given, x.size, x.page)
        /\ Held(H, x.size, x.page) = Held(given, x.size, x.page) \ {x.block}
        /\ \A page : page # x.page => Held(H, x.size, page) = Held(given, x.size, page)
    BY <1>1, <1>6, HeldLess
  <2> QED
    BY <2>1 DEF n
<1>8. ChunkSound(c, Held(given, n, x.page))
  BY <1>2, <1>3 DEF AllocSound, c
<1>9. /\ c.avail # NumBlocks /\ d.page = x.page
      /\ ChunkSound(d, Held(H, n, x.page)) /\ d \in Chunk
  <2>1. /\ c.avail # NumBlocks /\ d.page = x.page
        /\ ChunkSound(d, Held(H, n, x.page))
    BY <1>3, <1>7, <1>8, ChunkTakes DEF d
  <2> QED
    BY <2>1 DEF ChunkSound
<1>10. /\ g \in Allocator /\ g.chunks = [f.chunks EXCEPT ![i] = d]
       /\ g.alloc = f.alloc /\ g.dealloc = i /\ g.empty = f.empty /\ g.moved = f.moved
  <2>1. [f.chunks EXCEPT ![i] = d] \in Seq(Chunk)
    BY <1>2, <1>3, <1>9, ExceptSeq
  <2> QED
    BY <1>2, <1>4, <1>5, <2>1 DEF Allocator
<1>11. /\ DOMAIN g.chunks = DOMAIN f.chunks /\ g.chunks[i] = d
       /\ \A j \in DOMAIN f.chunks : j # i => g.chunks[j] = f.chunks[j]
  BY <1>2, <1>3, <1>10
<1>12. \A y \in H : y.size = n => y.page \in Pages(f)
  BY <1>2, <1>6 DEF AllocSound
<1>13. ChunkChanged(n, f, given, i, g, H)
  BY <1>2, <1>3, <1>7, <1>9, <1>10, <1>11, <1>12 DEF ChunkChanged, c
<1>14. AllocSound(n, g, H) /\ Pages(g) = Pages(f)
  BY <1>13, OneChunk
<1>15. i \notin Whole(f)
  BY <1>3, <1>9 DEF Whole, c
<1>16. Whole(g) \ {i} = Whole(f)
  BY <1>11, <1>15 DEF Whole
<1>17. f.empty # i
  BY <1>2, <1>4, <1>15
<1>18. BlockReturned(n, g, H)
  BY <1>2, <1>3, <1>4, <1>10, <1>11, <1>14, <1>16, <1>17 DEF BlockReturned
<1> QED
  BY <1>14, <1>18 DEF n, f, g, H

(* One whole chunk goes, and the others may change places.                 *)
Fewer(n, f, G, g, src, gone) ==
  /\ AllocSound(n, f, G) /\ g \in Allocator
  /\ src \in [DOMAIN g.chunks -> DOMAIN f.chunks] /\ OneToOne(src)
  /\ \A j \in DOMAIN g.chunks : g.chunks[j] = f.chunks[src[j]]
  /\ gone \in Whole(f)
  /\ \A i \in DOMAIN f.chunks \ {gone} : \E j \in DOMAIN g.chunks : src[j] = i

LEMMA FewerChunks ==
  ASSUME NEW n, NEW f, NEW G, NEW g, NEW src, NEW gone, Fewer(n, f, G, g, src, gone)
  PROVE  AllocSound(n, g, G) /\ Pages(g) \subseteq Pages(f)
<1>1. /\ src \in [DOMAIN g.chunks -> DOMAIN f.chunks]
      /\ \A j \in DOMAIN g.chunks : g.chunks[j] = f.chunks[src[j]]
  BY DEF Fewer
<1>2. \A j \in DOMAIN g.chunks :
         ChunkSound(g.chunks[j], Held(G, n, g.chunks[j].page))
  BY <1>1 DEF Fewer, AllocSound
<1>3. \A j, k \in DOMAIN g.chunks : g.chunks[j].page = g.chunks[k].page => j = k
  BY <1>1 DEF Fewer, AllocSound, OneToOne
<1>4. Pages(g) \subseteq Pages(f)
  BY <1>1 DEF Pages
<1>5. ASSUME NEW x \in G, x.size = n
      PROVE  x.page \in Pages(g)
  <2>1. PICK i \in DOMAIN f.chunks : f.chunks[i].page = x.page
    BY <1>5 DEF Fewer, AllocSound, Pages
  <2>2. x.block \in Held(G, n, x.page)
    BY <1>5 DEF Held
  <2>3. i # gone
    <3>1. SUFFICES ASSUME i = gone PROVE FALSE
      OBVIOUS
    <3>2. f.chunks[i].avail = NumBlocks
      BY <3>1 DEF Fewer, Whole
    <3>3. ChunkSound(f.chunks[i], Held(G, n, x.page))
      BY <2>1 DEF Fewer, AllocSound
    <3>4. Held(G, n, x.page) = {}
      BY <3>2, <3>3, ChunkWhole
    <3> QED
      BY <2>2, <3>4
  <2>4. PICK j \in DOMAIN g.chunks : src[j] = i
    BY <2>3 DEF Fewer
  <2> QED
    BY <1>1, <2>1, <2>4 DEF Pages
<1>6. g \in Allocator
  BY DEF Fewer
<1>7. AllocSound(n, g, G)
  BY <1>2, <1>3, <1>5, <1>6 DEF AllocSound
<1> QED
  BY <1>4, <1>7

(* Two chunks are whole: the one that goes is at the end of the vector, or *)
(* is replaced by the chunk that is there.                                 *)
LEMMA DropEmptySound ==
  ASSUME NEW n, NEW f, NEW G, BlockReturned(n, f, G),
         f.chunks[f.dealloc].avail = NumBlocks, f.empty # 0
  PROVE  /\ AllocSound(n, DropEmpty(f), G) /\ Pointed(DropEmpty(f))
         /\ Pages(DropEmpty(f)) \subseteq Pages(f)
<1> DEFINE last == Len(f.chunks)
           kept == IF last = f.dealloc THEN f.empty ELSE f.dealloc
           atEnd == last \in {f.dealloc, f.empty}
           gone == IF atEnd THEN last ELSE f.empty
           swapped == IF atEnd THEN f.chunks ELSE [f.chunks EXCEPT ![f.empty] = f.chunks[last]]
           g == DropEmpty(f)
           src == [j \in 1..(last - 1) |-> IF ~atEnd /\ j = f.empty THEN last ELSE j]
           alloc == IF f.alloc = last \/ swapped[f.alloc].avail = 0 THEN kept ELSE f.alloc
<1>1. /\ AllocSound(n, f, G) /\ f \in Allocator /\ ~f.moved
      /\ f.chunks \in Seq(Chunk) /\ last \in Nat /\ DOMAIN f.chunks = 1..last
      /\ f.alloc \in 1..last /\ f.dealloc \in 1..last
  BY Shapes DEF BlockReturned, AllocSound
<1>2. Whole(f) = {f.empty, f.dealloc} /\ f.empty # f.dealloc /\ f.empty \in 1..last
  <2>1. f.dealloc \in Whole(f)
    BY <1>1 DEF Whole
  <2>2. Whole(f) \ {f.dealloc} = {f.empty} /\ f.empty # f.dealloc
    BY DEF BlockReturned
  <2> QED
    BY <1>1, <2>1, <2>2 DEF Whole
<1>3. /\ kept \in 1..(last - 1) /\ kept \in Nat \ {0} /\ last - 1 \in Nat
      /\ gone \in Whole(f)
  BY <1>1, <1>2
<1>4. /\ swapped \in Seq(Chunk) /\ Len(swapped) = last
      /\ \A j \in 1..(last - 1) : swapped[j] = f.chunks[src[j]]
  <2>1. CASE atEnd
    BY <1>1, <2>1
  <2>2. CASE ~atEnd
    <3> DEFINE s == [f.chunks EXCEPT ![f.empty] = f.chunks[last]]
    <3>1. f.chunks[last] \in Chunk
      BY <1>1, <1>2, ElementOfSeq
    <3>2. /\ s \in Seq(Chunk) /\ Len(s) = last
          /\ \A j \in 1..last : s[j] = IF j = f.empty THEN f.chunks[last] ELSE f.chunks[j]
      BY <1>1, <1>2, <3>1, ExceptSeq
    <3> HIDE DEF s
    <3>3. swapped = s
      BY <2>2 DEF s
    <3>4. \A j \in 1..(last - 1) : j \in 1..last /\ src[j] = IF j = f.empty THEN last ELSE j
      BY <1>1, <2>2
    <3> QED
      BY <3>2, <3>3, <3>4
  <2> QED
    BY <2>1, <2>2
<1>5. /\ src \in [1..(last - 1) -> 1..last] /\ OneToOne(src)
      /\ \A i \in 1..last \ {gone} : \E j \in 1..(last - 1) : src[j] = i
      /\ \A j \in 1..(last - 1) : src[j] \in Whole(f) <=> j = kept
  <2>1. CASE atEnd
    <3>1. /\ gone = last /\ kept \in Whole(f) /\ Whole(f) = {kept, last}
          /\ src = [j \in 1..(last - 1) |-> j]
      BY <1>1, <1>2, <2>1
    <3> HIDE DEF src, gone, kept, atEnd, last
    <3>2. src \in [1..(last - 1) -> 1..last] /\ OneToOne(src)
      BY <1>1, <3>1 DEF OneToOne
    <3>3. ASSUME NEW i \in 1..last, i # gone
          PROVE  \E j \in 1..(last - 1) : src[j] = i
      <4>1. i \in 1..(last - 1)
        BY <1>1, <3>1, <3>3
      <4> QED
        BY <3>1, <4>1
    <3>4. ASSUME NEW j \in 1..(last - 1)
          PROVE  src[j] \in Whole(f) <=> j = kept
      BY <1>1, <3>1
    <3> QED
      BY <3>2, <3>3, <3>4
  <2>2. CASE ~atEnd
    <3>1. /\ gone = f.empty /\ kept = f.dealloc /\ f.empty \in 1..(last - 1)
          /\ src = [j \in 1..(last - 1) |-> IF j = f.empty THEN last ELSE j]
          /\ last \notin Whole(f)
      BY <1>1, <1>2, <2>2
    <3> HIDE DEF src, gone, kept, atEnd
    <3>2. src \in [1..(last - 1) -> 1..last] /\ OneToOne(src)
      BY <1>1, <3>1 DEF OneToOne
    <3>3. ASSUME NEW i \in 1..last, i # gone
          PROVE  \E j \in 1..(last - 1) : src[j] = i
      <4>1. CASE i = last
        BY <3>1, <4>1
      <4>2. CASE i # last
        <5>1. i \in 1..(last - 1) /\ i # f.empty
          BY <1>1, <3>1, <3>3, <4>2
        <5> QED
          BY <3>1, <5>1
      <4> QED
        BY <4>1, <4>2
    <3>4. ASSUME NEW j \in 1..(last - 1)
          PROVE  src[j] \in Whole(f) <=> j = kept
      BY <1>2, <3>1
    <3> QED
      BY <3>2, <3>3, <3>4
  <2> QED
    BY <2>1, <2>2
<1>6. /\ SubSeq(swapped, 1, last - 1) \in Seq(Chunk)
      /\ Len(SubSeq(swapped, 1, last - 1)) = last - 1
      /\ \A j \in 1..(last - 1) : SubSeq(swapped, 1, last - 1)[j] = swapped[j]
  <2>1. \A j \in 1..(last - 1) : swapped[j] \in Chunk
    BY <1>1, <1>4, ElementOfSeq
  <2> HIDE DEF swapped
  <2>2. 1 <= last - 1 /\ last - 1 \in Int /\ 1 \in Int
    BY <1>1, <1>3
  <2> HIDE DEF last, kept
  <2>3. /\ SubSeq(swapped, 1, last - 1) \in Seq(Chunk)
        /\ Len(SubSeq(swapped, 1, last - 1)) = last - 1 - 1 + 1
        /\ \A j \in 1..(last - 1 - 1 + 1) : SubSeq(swapped, 1, last - 1)[j] = swapped[1 + j - 1]
    BY <2>1, <2>2, SubSeqProperties
  <2> QED
    BY <1>1, <2>3
<1>7. alloc \in 1..(last - 1)
  BY <1>1, <1>3
<1>8. g = [f EXCEPT !.chunks = SubSeq(swapped, 1, last - 1), !.dealloc = kept,
                    !.empty = kept, !.alloc = alloc]
  BY DEF DropEmpty
<1> HIDE DEF last, kept, atEnd, gone, swapped, g, src, alloc
<1>9. /\ g \in Allocator /\ g.chunks = SubSeq(swapped, 1, last - 1) /\ g.alloc = alloc
      /\ g.dealloc = kept /\ g.empty = kept /\ g.moved = f.moved
  <2>1. alloc \in Nat
    BY <1>1, <1>7
  <2> QED
    BY <1>1, <1>3, <1>6, <1>8, <2>1 DEF Allocator
<1>10. /\ DOMAIN g.chunks = 1..(last - 1)
       /\ \A j \in 1..(last - 1) : g.chunks[j] = f.chunks[src[j]]
  <2>1. DOMAIN g.chunks = 1..(last - 1)
    BY <1>6, <1>9, LenProperties
  <2> QED
    BY <1>4, <1>6, <1>9, <2>1
<1>11. Fewer(n, f, G, g, src, gone)
  BY <1>1, <1>3, <1>5, <1>9, <1>10 DEF Fewer
<1>12. AllocSound(n, g, G) /\ Pages(g) \subseteq Pages(f)
  BY <1>11, FewerChunks
<1>13. Whole(g) = {kept}
  <2>1. \A j \in 1..(last - 1) : j \in Whole(g) <=> src[j] \in Whole(f)
    BY <1>1, <1>5, <1>10 DEF Whole
  <2>2. Whole(g) \subseteq 1..(last - 1)
    BY <1>10 DEF Whole
  <2> QED
    BY <1>3, <1>5, <2>1, <2>2
<1>14. Pointed(g)
  <2>1. g.chunks # <<>>
    BY <1>3, <1>10
  <2> QED
    BY <1>1, <1>3, <1>7, <1>9, <1>10, <1>13, <2>1 DEF Pointed
<1> QED
  BY <1>12, <1>14 DEF g

(* The block is the first one to come back to a whole chunk, or not.       *)
LEMMA KeepEmptySound ==
  ASSUME NEW n, NEW f, NEW G, BlockReturned(n, f, G),
         f.chunks[f.dealloc].avail = NumBlocks, f.empty = 0,
         NEW g, g = [f EXCEPT !.empty = f.dealloc]
  PROVE  AllocSound(n, g, G) /\ Pointed(g) /\ Pages(g) = Pages(f)
<1>1. /\ AllocSound(n, f, G) /\ f \in Allocator /\ ~f.moved /\ Whole(f) \ {f.dealloc} = {}
      /\ f.alloc \in DOMAIN f.chunks /\ f.dealloc \in DOMAIN f.chunks
      /\ f.dealloc \in Nat \ {0} /\ f.chunks # <<>>
  BY Shapes DEF BlockReturned, AllocSound
<1>2. /\ g \in Allocator /\ g.chunks = f.chunks /\ g.alloc = f.alloc
      /\ g.dealloc = f.dealloc /\ g.empty = f.dealloc /\ g.moved = f.moved
  BY <1>1 DEF Allocator
<1>3. AllocSound(n, g, G) /\ Whole(g) = Whole(f) /\ Pages(g) = Pages(f)
  BY <1>1, <1>2, SameChunks
<1>4. Whole(g) = {f.dealloc}
  BY <1>1, <1>3 DEF Whole
<1> QED
  BY <1>1, <1>2, <1>3, <1>4 DEF Pointed

LEMMA OtherSound ==
  ASSUME NEW n, NEW f, NEW G, BlockReturned(n, f, G),
         f.chunks[f.dealloc].avail # NumBlocks
  PROVE  AllocSound(n, f, G) /\ Pointed(f)
<1>1. /\ AllocSound(n, f, G) /\ ~f.moved /\ f.chunks # <<>>
      /\ Whole(f) = IF f.empty = 0 THEN {} ELSE {f.empty}
  <2>1. f.chunks # <<>>
    BY Shapes DEF BlockReturned, AllocSound
  <2>2. Whole(f) \ {f.dealloc} = Whole(f)
    BY DEF Whole
  <2> QED
    BY <2>1, <2>2 DEF BlockReturned
<1> QED
  BY <1>1 DEF BlockReturned, Pointed

LEMMA InvDeallocate ==
  ASSUME MemoryInv, NEW x \in given, Deallocate(x)
  PROVE  MemoryInv'
<1> DEFINE n == x.size
           f == GiveBack(pool[n], x)
           H == given \ {x}
           g == CASE f.chunks[f.dealloc].avail = NumBlocks /\ f.empty # 0 -> DropEmpty(f)
                  [] f.chunks[f.dealloc].avail = NumBlocks /\ f.empty = 0 ->
                       [f EXCEPT !.empty = f.dealloc]
                  [] OTHER -> f
<1>1. /\ n \in BlockSize /\ ~pool[n].moved /\ dangled' \in BOOLEAN
      /\ given \subseteq [size : BlockSize, page : Page, block : Block]
  BY DEF MemoryInv, MemoryTypeOK, Deallocate
<1>2. pool' = [pool EXCEPT ![n] = g] /\ given' = H
  BY DEF Deallocate
<1>3. BlockReturned(n, f, H) /\ Pages(f) = Pages(pool[n])
  BY <1>1, ReturnedGiveBack
<1>4. /\ H \subseteq [size : BlockSize, page : Page, block : Block]
      /\ \A y : y.size # n => (y \in H <=> y \in given)
  BY <1>1
<1>5. AllocSound(n, g, H) /\ Pointed(g) /\ Pages(g) \subseteq Pages(f)
  <2> HIDE DEF f, H, n
  <2>1. CASE f.chunks[f.dealloc].avail = NumBlocks /\ f.empty # 0
    <3>1. g = DropEmpty(f)
      BY <2>1
    <3> HIDE DEF g
    <3> QED
      BY <1>3, <2>1, <3>1, DropEmptySound
  <2>2. CASE f.chunks[f.dealloc].avail = NumBlocks /\ f.empty = 0
    <3>1. g = [f EXCEPT !.empty = f.dealloc]
      BY <2>2
    <3> HIDE DEF g
    <3> QED
      BY <1>3, <2>2, <3>1, KeepEmptySound
  <2>3. CASE f.chunks[f.dealloc].avail # NumBlocks
    <3>1. g = f
      BY <2>3
    <3> HIDE DEF g
    <3> QED
      BY <1>3, <2>3, <3>1, OtherSound
  <2> QED
    BY <2>1, <2>2, <2>3
<1>6. Pages(g) \subseteq Pages(pool[n]) \cup FreePages
  BY <1>3, <1>5
<1> HIDE DEF f, g, H, n
<1> QED
  BY <1>1, <1>2, <1>4, <1>5, <1>6, PoolStep

LEMMA MemoryInvInit == MemoryInit => MemoryInv
<1> SUFFICES ASSUME MemoryInit PROVE MemoryInv
  OBVIOUS
<1>1. ASSUME NEW n \in BlockSize
      PROVE  /\ pool[n] \in Allocator /\ pool[n].chunks = <<>> /\ pool[n].alloc = 0
             /\ pool[n].empty = 0 /\ pool[n].moved = FALSE
  BY EmptySeq DEF MemoryInit, Allocator
<1>2. ASSUME NEW n \in BlockSize
      PROVE  DOMAIN pool[n].chunks = {}
  <2>1. DOMAIN pool[n].chunks = 1..0
    BY <1>1, Shapes
  <2> QED
    BY <2>1
<1>3. MemoryTypeOK
  <2>1. given = {} /\ dangled = FALSE /\ pool \in [BlockSize -> Allocator]
    BY <1>1 DEF MemoryInit
  <2> QED
    BY <2>1 DEF MemoryTypeOK
<1>4. ASSUME NEW n \in BlockSize
      PROVE  AllocSound(n, pool[n], given) /\ Pointed(pool[n]) /\ Pages(pool[n]) = {}
  <2>1. given = {}
    BY DEF MemoryInit
  <2>2. Whole(pool[n]) = {} /\ Pages(pool[n]) = {} /\ WithRoom(pool[n]) = {}
    BY <1>2 DEF Whole, Pages, WithRoom
  <2> QED
    BY <1>1, <1>2, <2>1, <2>2 DEF AllocSound, Pointed
<1> QED
  BY <1>3, <1>4 DEF MemoryInv

LEMMA MemoryInvStutter ==
  ASSUME MemoryInv, UNCHANGED <<pool, given>>, dangled' \in BOOLEAN
  PROVE  MemoryInv'
<1>1. pool' = pool /\ given' = given
  OBVIOUS
<1>2. MemoryTypeOK'
  BY <1>1 DEF MemoryInv, MemoryTypeOK
<1>3. /\ \A n \in BlockSize : AllocSound(n, pool'[n], given') /\ Pointed(pool'[n])
      /\ \A m, n \in BlockSize : m # n => Pages(pool'[m]) \cap Pages(pool'[n]) = {}
  BY <1>1 DEF MemoryInv
<1> QED
  BY <1>2, <1>3 DEF MemoryInv

(* In every state the chunks of each pool partition their blocks between   *)
(* callers and lists, the emptyChunk_ is the one whole chunk, no two pools *)
(* have the same memory, and each pointer points into the vector, whatever *)
(* Allocate and Deallocate are called with and wherever memory runs out.   *)
THEOREM MemoryInvariant == MemorySpec => []MemoryInv
<1>1. MemoryInit => MemoryInv
  BY MemoryInvInit
<1>2. MemoryInv /\ [MemoryNext]_memoryVars => MemoryInv'
  <2> SUFFICES ASSUME MemoryInv, [MemoryNext]_memoryVars PROVE MemoryInv'
    OBVIOUS
  <2>1. ASSUME NEW bytes \in 0..MaxObjectSize, Allocate(bytes)
        PROVE  MemoryInv'
    BY <2>1, InvAllocate
  <2>2. ASSUME NEW bytes \in 0..MaxObjectSize, AllocateFails(bytes)
        PROVE  MemoryInv'
    BY <2>2, InvAllocateFails
  <2>3. ASSUME NEW x \in given, Deallocate(x)
        PROVE  MemoryInv'
    BY <2>3, InvDeallocate
  <2>4. ASSUME NEW n \in BlockSize, UseMoved(n)
        PROVE  MemoryInv'
    BY <2>4, MemoryInvStutter DEF UseMoved
  <2>5. ASSUME UNCHANGED memoryVars
        PROVE  MemoryInv'
    BY <2>5, MemoryInvStutter DEF memoryVars, MemoryInv, MemoryTypeOK
  <2> QED
    BY <2>1, <2>2, <2>3, <2>4, <2>5 DEF MemoryNext
<1> QED
  BY <1>1, <1>2, PTL DEF MemorySpec

(* No block of SmallObjAllocator is with two callers or lost, no chunk is  *)
(* released while a caller has a block of it, and what Allocate and        *)
(* Deallocate assert of the pointers they remember is so.                  *)
THEOREM AllocatorIsSound == MemorySpec => []AllocatorSound
<1>1. MemoryInv => AllocatorSound
  <2> SUFFICES ASSUME MemoryInv PROVE AllocatorSound
    OBVIOUS
  <2>1. ASSUME NEW n \in BlockSize, NEW i \in DOMAIN pool[n].chunks
        PROVE  LET c == pool[n].chunks[i]
               IN  /\ \E order \in [1..c.avail -> Block] :
                        /\ FreeList(c, order)
                        /\ {order[k] : k \in 1..c.avail} = Block \ Mine(n, c.page)
                   /\ c.avail + Cardinality(Mine(n, c.page)) = NumBlocks
                   /\ \A m \in BlockSize : \A j \in DOMAIN pool[m].chunks :
                        pool[m].chunks[j].page = c.page => m = n /\ j = i
    <3> DEFINE c == pool[n].chunks[i]
    <3>1. AllocSound(n, pool[n], given)
      BY DEF MemoryInv
    <3>2. Mine(n, c.page) = Held(given, n, c.page)
      BY DEF Mine, Held
    <3>3. ChunkSound(c, Mine(n, c.page))
      BY <3>1, <3>2 DEF AllocSound
    <3>4. ASSUME NEW m \in BlockSize, NEW j \in DOMAIN pool[m].chunks,
                 pool[m].chunks[j].page = c.page
          PROVE  m = n /\ j = i
      <4>1. m = n
        <5>1. c.page \in Pages(pool[m]) \cap Pages(pool[n])
          BY <3>4 DEF Pages
        <5> QED
          BY <5>1 DEF MemoryInv
      <4> QED
        BY <3>1, <3>4, <4>1 DEF AllocSound
    <3> HIDE DEF c
    <3>5. /\ \E order \in [1..c.avail -> Block] :
                FreeList(c, order) /\ {order[k] : k \in 1..c.avail} = Block \ Mine(n, c.page)
          /\ c.avail + Cardinality(Mine(n, c.page)) = NumBlocks
      BY <3>3 DEF ChunkSound
    <3> QED
      BY <3>4, <3>5 DEF c
  <2>2. ASSUME NEW x \in given
        PROVE  x.page \in Pages(pool[x.size])
    BY DEF MemoryInv, MemoryTypeOK, AllocSound
  <2>3. BlocksSound
    BY <2>1, <2>2 DEF BlocksSound
  <2>4. PointersSound
    BY DEF PointersSound, MemoryInv, Pointed, Whole
  <2> QED
    BY <2>3, <2>4 DEF AllocatorSound
<1> QED
  BY <1>1, MemoryInvariant, PTL
=============================================================================
