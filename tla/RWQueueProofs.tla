---------------------------- MODULE RWQueueProofs ----------------------------
(***************************************************************************)
(* Theorems on RWQueue, for any values, any memory and any number of       *)
(* pushes.                                                                 *)
(*                                                                         *)
(* ListInv ties the pointers to chain, the list as it would be drawn, and  *)
(* says who owns which node: the list, or the push that allocated it.      *)
(* CountInv says how far the size is from the length of the list, by the   *)
(* places of the push in the mutex and of the reader.                      *)
(***************************************************************************)
EXTENDS RWQueue, SequenceTheorems, FiniteSetTheorems, TLAPS

Inside == {"link", "value", "tail", "count", "unlock"}

(* OneIf push at a time is under the mutex, and none once the reader clears. *)
OnePush ==
  \A i \in Item : /\ pc[i] \in Inside <=> mutex = i
                  /\ rd \in {"clear", "clearUnlink", "gone"} => pc[i] = "out"

(* The links follow chain, which has no node twice and ends in m_pTail.    *)
Linked ==
  /\ First = chain[1] /\ tail = chain[Len(chain)]
  /\ \A k \in 1..Len(chain) : chain[k] # Head0
  /\ \A k \in 1..(Len(chain) - 1) : next[chain[k]] = chain[k + 1]
  /\ \A j, k \in 1..Len(chain) : chain[j] = chain[k] => j = k

(* A push that writes has a node of its own, which it links behind the     *)
(* tail before it writes its value there.                                  *)
Private ==
  \A i \in Item :
    /\ pc[i] \in Writing <=> fresh[i] # NoNode
    /\ fresh[i] # Head0 /\ \A k \in 1..Len(chain) : fresh[i] # chain[k]
    /\ \A j \in Item : fresh[i] = fresh[j] /\ fresh[i] # NoNode => i = j
    /\ pc[i] \in {"value", "tail"} => next[tail] = fresh[i]
    /\ pc[i] = "tail" => value[tail] = i

ListInv == QueueTypeOK /\ OnePush /\ Linked /\ Private /\ NothingLeaked

(* What size() does not count: the push that was seen and not counted, and *)
(* the value whose node is still to be unlinked.                           *)
OneIf(condition) == IF condition THEN 1 ELSE 0
Uncounted == OneIf(PushCounting) + OneIf(rd \in {"unlink", "clearUnlink"})

(* The size is behind the list by what is not counted; one below zero is   *)
(* SizeLimit - 1.  The reader has no more to pop than there is.              *)
CountInv ==
  /\ LET exact == Len(chain) - 1 - Uncounted
     IN  size = IF exact >= 0 THEN exact ELSE exact + SizeLimit
  /\ rd \in {"take", "clearUnlink"} => Len(chain) > 1
  /\ rd \in {"front", "pop", "unlink"} => left <= Len(chain) - 1
  /\ rd \in {"pop", "unlink"} => left >= 1

QueueInv == ListInv /\ CountInv

-----------------------------------------------------------------------------
(* Arithmetic of m_nSize. *)
LEMMA Modular ==
  /\ SizeLimit \in Nat /\ SizeLimit > 0
  /\ \A n \in 0..(SizeLimit - 1) :
       /\ n % SizeLimit = n
       /\ (n + 1) % SizeLimit = IF n = SizeLimit - 1 THEN 0 ELSE n + 1
       /\ (n - 1) % SizeLimit = IF n = 0 THEN SizeLimit - 1 ELSE n - 1
<1>1. SizeLimit \in Nat /\ SizeLimit > 0
  BY SizeAssumption, FS_CardinalityType
<1>2. \A n \in 0..(SizeLimit - 1) : n % SizeLimit = n
  BY <1>1
<1>3. \A n \in 0..(SizeLimit - 1) : (n + 1) % SizeLimit = IF n = SizeLimit - 1 THEN 0 ELSE n + 1
  BY <1>1
<1>4. \A n \in 0..(SizeLimit - 1) : (n - 1) % SizeLimit = IF n = 0 THEN SizeLimit - 1 ELSE n - 1
  BY <1>1
<1> QED
  BY <1>1, <1>2, <1>3, <1>4

(* The list fits into the memory, so its length is a size_t. *)
LEMMA Bounded ==
  ASSUME QueueTypeOK, Linked
  PROVE  Len(chain) \in Nat /\ Len(chain) >= 1 /\ Len(chain) < SizeLimit
<1>1. chain \in Seq(Node) /\ chain # <<>>
  BY DEF QueueTypeOK
<1>2. Len(chain) \in Nat /\ Len(chain) >= 1 /\ chain \in [1..Len(chain) -> Node]
  BY <1>1, LenProperties, EmptySeq
<1>3. chain \in Injection(1..Len(chain), Node)
  BY <1>2 DEF Linked, Injection, IsInjective
<1>4. Cardinality(1..Len(chain)) <= Cardinality(Node)
  BY <1>3, SizeAssumption, FS_Injection
<1>5. Cardinality(1..Len(chain)) = Len(chain)
  BY <1>2, FS_Interval
<1>6. Cardinality(Node) \in Nat
  BY SizeAssumption, FS_CardinalityType
<1> QED
  BY <1>2, <1>4, <1>5, <1>6, SizeAssumption

(* The nodes of the list are in memory, and so are those being linked. *)
LEMMA Resident ==
  ASSUME ListInv, rd # "gone"
  PROVE  /\ Head0 \in allocated
         /\ \A k \in 1..Len(chain) : chain[k] \in allocated
         /\ \A i \in Item : fresh[i] # NoNode => fresh[i] \in allocated
BY DEF ListInv, NothingLeaked

-----------------------------------------------------------------------------
(***************************************************************************)
(* The list.  These steps leave the nodes as they are.                     *)
(***************************************************************************)
LEMMA ListUntouched ==
  ASSUME ListInv, QueueTypeOK', OnePush',
         UNCHANGED <<next, allocated, tail, fresh, chain>>,
         \A i \in Item : /\ pc'[i] \in Writing <=> pc[i] \in Writing
                         /\ pc'[i] \in {"value", "tail"} => pc[i] \in {"value", "tail"}
                         /\ pc'[i] = "tail" => value'[tail] = i,
         rd' = "gone" <=> rd = "gone"
  PROVE  ListInv'
<1>1. Linked'
  BY DEF ListInv, Linked, First
<1>2. Private'
  BY DEF ListInv, Private
<1>3. NothingLeaked'
  BY DEF ListInv, NothingLeaked
<1> QED
  BY <1>1, <1>2, <1>3 DEF ListInv

(* lock, the write of the value, the count and unlock. *)
LEMMA ListWriter ==
  ASSUME ListInv, NEW i \in Item, LockQueue(i) \/ Write(i) \/ Count(i) \/ Unlock(i)
  PROVE  ListInv'
<1>1. CASE LockQueue(i)
  <2>1. QueueTypeOK'
    BY <1>1 DEF ListInv, LockQueue, QueueTypeOK, PushAt, heapVars, readerVars, Writing
  <2>2. OnePush'
    BY <1>1, NodeAssumption DEF ListInv, LockQueue, QueueTypeOK, PushAt, readerVars, OnePush, Inside
  <2> QED
    BY <1>1, <2>1, <2>2, ListUntouched
    DEF ListInv, LockQueue, QueueTypeOK, PushAt, heapVars, readerVars, Writing, Private
<1>2. CASE Write(i)
  <2>1. QueueTypeOK'
    BY <1>2 DEF ListInv, Write, QueueTypeOK, PushAt, readerVars, Writing
  <2>2. OnePush'
    BY <1>2, NodeAssumption DEF ListInv, Write, QueueTypeOK, PushAt, readerVars, OnePush, Inside
  <2>3. \A j \in Item : pc'[j] = "tail" => j = i
    BY <1>2, NodeAssumption DEF ListInv, Write, QueueTypeOK, PushAt, OnePush, Inside
  <2>4. value'[tail] = i
    BY <1>2 DEF ListInv, Write, QueueTypeOK
  <2> QED
    BY <1>2, <2>1, <2>2, <2>3, <2>4, ListUntouched
    DEF ListInv, Write, QueueTypeOK, PushAt, readerVars, Writing
<1>3. CASE Count(i)
  <2>1. size' \in 0..(SizeLimit - 1)
    BY <1>3, Modular DEF ListInv, Count, QueueTypeOK
  <2>2. QueueTypeOK'
    BY <1>3, <2>1 DEF ListInv, Count, QueueTypeOK, PushAt, heapVars, readerVars, Writing
  <2>3. OnePush'
    BY <1>3, NodeAssumption DEF ListInv, Count, QueueTypeOK, PushAt, readerVars, OnePush, Inside
  <2> QED
    BY <1>3, <2>2, <2>3, ListUntouched
    DEF ListInv, Count, QueueTypeOK, PushAt, heapVars, readerVars, Writing, Private
<1>4. CASE Unlock(i)
  <2>1. QueueTypeOK'
    BY <1>4 DEF ListInv, Unlock, QueueTypeOK, PushAt, heapVars, readerVars, Writing
  <2>2. OnePush'
    BY <1>4, NodeAssumption DEF ListInv, Unlock, QueueTypeOK, PushAt, readerVars, OnePush, Inside
  <2> QED
    BY <1>4, <2>1, <2>2, ListUntouched
    DEF ListInv, Unlock, QueueTypeOK, PushAt, heapVars, readerVars, Writing, Private
<1> QED
  BY <1>1, <1>2, <1>3, <1>4

(* What the reader does between unlinking one node and the next. *)
LEMMA ListReader ==
  ASSUME ListInv, Empty \/ Take \/ ReadFront \/ ReadDone \/ Uncount \/ DestroyQueue
  PROVE  ListInv'
<1>1. /\ UNCHANGED <<heapVars, tail, writerVars, batched, chain>>
      /\ rd' = "gone" <=> rd = "gone"
  BY DEF Empty, Take, ReadFront, ReadDone, Uncount, DestroyQueue
<1>2. size' \in 0..(SizeLimit - 1)
  BY Modular DEF ListInv, QueueTypeOK, Empty, Take, ReadFront, ReadDone, Uncount, DestroyQueue
<1>3. /\ left' \in Nat
      /\ rd' \in {"out", "take", "front", "pop", "unlink", "clear", "clearUnlink", "gone"}
  BY Modular DEF ListInv, QueueTypeOK, Empty, Take, ReadFront, ReadDone, Uncount, DestroyQueue
<1>4. QueueTypeOK'
  BY <1>1, <1>2, <1>3 DEF ListInv, QueueTypeOK, heapVars, writerVars
<1>5. OnePush'
  <2>1. rd' \in {"clear", "clearUnlink", "gone"} =>
          \/ rd \in {"clear", "clearUnlink", "gone"}
          \/ \A i \in Item : pc[i] = "out"
    BY DEF Empty, Take, ReadFront, ReadDone, Uncount, DestroyQueue
  <2> QED
    BY <1>1, <2>1 DEF ListInv, OnePush, writerVars
<1> QED
  BY <1>1, <1>4, <1>5, ListUntouched DEF ListInv, Private, heapVars, writerVars

(* These steps do: a node is allocated, linked, made the tail, unlinked,   *)
(* and the last two are deleted.                                           *)
LEMMA ListNew ==
  ASSUME ListInv, NEW i \in Item, NEW n \in Node, NewNode(i, n)
  PROVE  ListInv'
<1>1. /\ rd \notin {"clear", "clearUnlink", "gone"} /\ pc[i] = "out"
      /\ n \notin allocated /\ allocated' = allocated \cup {n}
      /\ next' = [next EXCEPT ![n] = NoNode] /\ value' = [value EXCEPT ![n] = NoNode]
      /\ fresh' = [fresh EXCEPT ![i] = n] /\ pc' = [pc EXCEPT ![i] = "lock"]
      /\ UNCHANGED <<tail, size, mutex, batched, rd, left, chain>>
  BY DEF NewNode, PushAt, readerVars
<1>2. /\ n # Head0 /\ \A k \in 1..Len(chain) : chain[k] # n
      /\ \A j \in Item : fresh[j] # n
  BY <1>1, Resident, NodeAssumption
<1>3. Len(chain) \in Nat /\ Len(chain) >= 1 /\ chain \in Seq(Node)
  BY Bounded DEF ListInv, QueueTypeOK
<1>4. tail # n /\ \A k \in 1..Len(chain) : chain[k] \in Node
  BY <1>2, <1>3 DEF ListInv, Linked
<1>5. QueueTypeOK'
  BY <1>1 DEF ListInv, QueueTypeOK, Writing
<1>6. OnePush'
  BY <1>1, NodeAssumption DEF ListInv, QueueTypeOK, OnePush, Inside
<1>7. Linked'
  BY <1>1, <1>2, <1>3, <1>4, NodeAssumption DEF ListInv, QueueTypeOK, Linked, First
<1>8. Private'
  BY <1>1, <1>2, <1>4, NodeAssumption DEF ListInv, QueueTypeOK, Private, Writing
<1>9. NothingLeaked'
  <2>1. {fresh'[j] : j \in Item} \ {NoNode} = ({fresh[j] : j \in Item} \ {NoNode}) \cup {n}
    BY <1>1, NodeAssumption DEF ListInv, QueueTypeOK, Private, Writing
  <2> QED
    BY <1>1, <2>1 DEF ListInv, NothingLeaked
<1> QED
  BY <1>5, <1>6, <1>7, <1>8, <1>9 DEF ListInv

LEMMA ListLink ==
  ASSUME ListInv, NEW i \in Item, Link(i)
  PROVE  ListInv'
<1>1. /\ pc[i] = "link" /\ next' = [next EXCEPT ![tail] = fresh[i]]
      /\ pc' = [pc EXCEPT ![i] = "value"]
      /\ UNCHANGED <<value, allocated, tail, size, fresh, mutex, batched, rd, left, chain>>
  BY DEF Link, PushAt, readerVars
<1>2. Len(chain) \in Nat /\ Len(chain) >= 1
  BY Bounded DEF ListInv
<1>3. /\ tail # Head0 /\ \A k \in 1..(Len(chain) - 1) : chain[k] # tail
      /\ \A k \in 1..Len(chain) : chain[k] \in Node
  BY <1>2 DEF ListInv, QueueTypeOK, Linked
<1>4. QueueTypeOK'
  BY <1>1 DEF ListInv, QueueTypeOK, Writing
<1>5. OnePush'
  BY <1>1, NodeAssumption DEF ListInv, QueueTypeOK, OnePush, Inside
<1>6. Linked'
  BY <1>1, <1>2, <1>3, NodeAssumption DEF ListInv, QueueTypeOK, Linked, First
<1>7. Private'
  <2>1. \A j \in Item : pc'[j] \in {"value", "tail"} => j = i /\ pc'[j] = "value"
    BY <1>1 DEF ListInv, QueueTypeOK, OnePush, Inside
  <2>2. next'[tail] = fresh[i]
    BY <1>1 DEF ListInv, QueueTypeOK
  <2> QED
    BY <1>1, <2>1, <2>2 DEF ListInv, QueueTypeOK, Private, Writing
<1>8. NothingLeaked'
  BY <1>1 DEF ListInv, NothingLeaked
<1> QED
  BY <1>4, <1>5, <1>6, <1>7, <1>8 DEF ListInv

LEMMA ListAdvance ==
  ASSUME ListInv, NEW i \in Item, Advance(i)
  PROVE  ListInv'
<1>1. /\ pc[i] = "tail" /\ tail' = fresh[i] /\ chain' = Append(chain, fresh[i])
      /\ fresh' = [fresh EXCEPT ![i] = NoNode] /\ pc' = [pc EXCEPT ![i] = "count"]
      /\ UNCHANGED <<next, value, allocated, size, mutex, batched, rd, left>>
  BY DEF Advance, PushAt, heapVars, readerVars
<1>2. Len(chain) \in Nat /\ Len(chain) >= 1 /\ chain \in Seq(Node)
  BY Bounded DEF ListInv, QueueTypeOK
<1>3. /\ fresh[i] \in Node /\ fresh[i] # Head0 /\ fresh[i] # NoNode
      /\ \A k \in 1..Len(chain) : fresh[i] # chain[k]
      /\ next[tail] = fresh[i]
      /\ \A j \in Item : j # i => fresh[j] # fresh[i]
  BY <1>1 DEF ListInv, QueueTypeOK, Private, Writing
<1>4. /\ chain' \in Seq(Node) /\ chain' # <<>> /\ Len(chain') = Len(chain) + 1
      /\ \A k \in 1..Len(chain) : chain'[k] = chain[k]
      /\ chain'[Len(chain) + 1] = fresh[i]
  BY <1>1, <1>2, <1>3, AppendProperties
<1>5. QueueTypeOK'
  BY <1>1, <1>3, <1>4 DEF ListInv, QueueTypeOK, Writing
<1>6. OnePush'
  BY <1>1, NodeAssumption DEF ListInv, QueueTypeOK, OnePush, Inside
<1>7. Linked'
  <2>1. First' = chain'[1] /\ tail' = chain'[Len(chain')]
    BY <1>1, <1>2, <1>4 DEF ListInv, Linked, First
  <2>2. \A k \in 1..Len(chain') : chain'[k] # Head0
    BY <1>2, <1>3, <1>4 DEF ListInv, Linked
  <2>3. ASSUME NEW k \in 1..(Len(chain') - 1)
        PROVE  next'[chain'[k]] = chain'[k + 1]
    <3>1. CASE k = Len(chain)
      BY <1>1, <1>2, <1>3, <1>4, <3>1 DEF ListInv, Linked
    <3>2. CASE k # Len(chain)
      BY <1>1, <1>2, <1>4, <3>2 DEF ListInv, Linked
    <3> QED
      BY <3>1, <3>2
  <2>4. ASSUME NEW j \in 1..Len(chain'), NEW k \in 1..Len(chain'), chain'[j] = chain'[k]
        PROVE  j = k
    BY <1>2, <1>3, <1>4, <2>4 DEF ListInv, Linked
  <2> QED
    BY <2>1, <2>2, <2>3, <2>4 DEF Linked
<1>8. Private'
  <2>1. \A j \in Item : pc'[j] \notin {"value", "tail"}
    BY <1>1 DEF ListInv, QueueTypeOK, OnePush, Inside
  <2>2. \A j \in Item, k \in 1..Len(chain') : fresh'[j] # chain'[k]
    BY <1>1, <1>2, <1>3, <1>4, NodeAssumption DEF ListInv, QueueTypeOK, Private
  <2> QED
    BY <1>1, <2>1, <2>2, NodeAssumption DEF ListInv, QueueTypeOK, Private, Writing
<1>9. NothingLeaked'
  <2>1. rd # "gone"
    BY <1>1 DEF ListInv, OnePush
  <2>2. {chain'[k] : k \in 1..Len(chain')} = {chain[k] : k \in 1..Len(chain)} \cup {fresh[i]}
    BY <1>2, <1>4
  <2>3. {fresh'[j] : j \in Item} \ {NoNode} = ({fresh[j] : j \in Item} \ {NoNode}) \ {fresh[i]}
    BY <1>1, <1>3 DEF ListInv, QueueTypeOK
  <2>4. fresh[i] \in {fresh[j] : j \in Item} \ {NoNode}
    BY <1>3
  <2> QED
    BY <1>1, <2>1, <2>2, <2>3, <2>4 DEF ListInv, NothingLeaked
<1> QED
  BY <1>5, <1>6, <1>7, <1>8, <1>9 DEF ListInv

LEMMA ListUnlink ==
  ASSUME QueueInv, Unlink
  PROVE  ListInv'
<1>1. /\ rd \in {"unlink", "clearUnlink"} /\ next' = [next EXCEPT ![Head0] = next[First]]
      /\ allocated' = allocated \ {First} /\ chain' = Tail(chain)
      /\ rd' = IF rd = "unlink" THEN "front" ELSE "clear"
      /\ left' = IF rd = "unlink" THEN left - 1 ELSE left
      /\ UNCHANGED <<value, tail, size, pc, fresh, mutex, batched>>
  BY DEF Unlink, writerVars
<1>2. Len(chain) \in Nat /\ Len(chain) > 1 /\ chain \in Seq(Node) /\ chain # <<>>
  BY <1>1, Bounded DEF QueueInv, ListInv, CountInv, QueueTypeOK
<1>3. /\ chain' \in Seq(Node) /\ Len(chain') = Len(chain) - 1
      /\ \A k \in 1..Len(chain') : chain'[k] = chain[k + 1]
  BY <1>1, <1>2, HeadTailProperties
<1>4. /\ First = chain[1] /\ next[First] = chain[2] /\ tail = chain[Len(chain)]
      /\ \A k \in 1..Len(chain) : chain[k] \in Node /\ chain[k] # Head0
      /\ \A k \in 1..(Len(chain) - 1) : next[chain[k]] = chain[k + 1]
      /\ \A j, k \in 1..Len(chain) : chain[j] = chain[k] => j = k
  BY <1>2 DEF QueueInv, ListInv, Linked
<1>5. QueueTypeOK'
  <2>1. left' \in Nat
    BY <1>1 DEF QueueInv, ListInv, CountInv, QueueTypeOK
  <2>2. next[First] \in Node
    BY <1>2, <1>4
  <2>3. next' \in [Node -> Node \cup {NoNode}]
    BY <1>1, <2>2 DEF QueueInv, ListInv, QueueTypeOK
  <2>4. Len(chain') # 0
    BY <1>2, <1>3
  <2>5. chain' # <<>>
    BY <2>4, EmptySeq
  <2> QED
    BY <1>1, <1>3, <2>1, <2>3, <2>5 DEF QueueInv, ListInv, QueueTypeOK
<1>6. OnePush'
  BY <1>1 DEF QueueInv, ListInv, OnePush
<1>7. Linked'
  <2>1. First' = chain[2] /\ \A k \in 1..Len(chain) : next'[chain[k]] = next[chain[k]]
    BY <1>1, <1>4, NodeAssumption DEF QueueInv, ListInv, QueueTypeOK, First
  <2>2. First' = chain'[1] /\ tail' = chain'[Len(chain')]
    BY <1>1, <1>2, <1>3, <1>4, <2>1
  <2>3. \A k \in 1..Len(chain') : chain'[k] # Head0
    BY <1>2, <1>3, <1>4
  <2>4. \A k \in 1..(Len(chain') - 1) : next'[chain'[k]] = chain'[k + 1]
    BY <1>2, <1>3, <1>4, <2>1
  <2>5. \A j, k \in 1..Len(chain') : chain'[j] = chain'[k] => j = k
    <3> SUFFICES ASSUME NEW j \in 1..Len(chain'), NEW k \in 1..Len(chain'),
                        chain'[j] = chain'[k]
                 PROVE  j = k
      OBVIOUS
    <3>1. j + 1 \in 1..Len(chain) /\ k + 1 \in 1..Len(chain)
      BY <1>2, <1>3
    <3>2. chain[j + 1] = chain[k + 1]
      BY <1>3
    <3>3. j + 1 = k + 1
      BY <1>4, <3>1, <3>2
    <3> QED
      BY <1>2, <1>3, <3>3
  <2> QED
    BY <2>2, <2>3, <2>4, <2>5 DEF Linked
<1>8. Private'
  <2>1. tail # Head0 /\ next'[tail] = next[tail]
    BY <1>1, <1>2, <1>4 DEF QueueInv, ListInv, QueueTypeOK
  <2>2. \A j \in Item, k \in 1..Len(chain') : fresh'[j] # chain'[k]
    BY <1>1, <1>2, <1>3 DEF QueueInv, ListInv, Private
  <2> QED
    BY <1>1, <2>1, <2>2 DEF QueueInv, ListInv, Private
<1>9. NothingLeaked'
  <2>1. {chain'[k] : k \in 1..Len(chain')} = {chain[k] : k \in 1..Len(chain)} \ {First}
    <3>1. ASSUME NEW k \in 1..Len(chain), chain[k] # First
          PROVE  chain[k] \in {chain'[j] : j \in 1..Len(chain')}
      <4>1. k - 1 \in 1..Len(chain') /\ chain'[k - 1] = chain[k]
        BY <1>2, <1>3, <1>4, <3>1
      <4> QED
        BY <4>1
    <3>2. ASSUME NEW k \in 1..Len(chain')
          PROVE  chain'[k] \in {chain[j] : j \in 1..Len(chain)} /\ chain'[k] # First
      <4>1. k + 1 \in 1..Len(chain) /\ k + 1 # 1 /\ chain'[k] = chain[k + 1]
        BY <1>2, <1>3
      <4> QED
        BY <1>2, <1>4, <4>1
    <3> QED
      BY <3>1, <3>2
  <2>2. First # Head0 /\ \A j \in Item : fresh[j] # First
    BY <1>2, <1>4 DEF QueueInv, ListInv, Private
  <2>3. allocated = {Head0} \cup {chain[k] : k \in 1..Len(chain)}
                            \cup ({fresh[i] : i \in Item} \ {NoNode})
    BY <1>1 DEF QueueInv, ListInv, NothingLeaked
  <2>4. allocated' = {Head0} \cup {chain'[k] : k \in 1..Len(chain')}
                             \cup ({fresh'[i] : i \in Item} \ {NoNode})
    BY <1>1, <2>1, <2>2, <2>3
  <2>5. rd' # "gone"
    BY <1>1
  <2> QED
    BY <2>4, <2>5 DEF NothingLeaked
<1> QED
  BY <1>5, <1>6, <1>7, <1>8, <1>9 DEF ListInv

LEMMA ListFree ==
  ASSUME ListInv, FreeEnds
  PROVE  ListInv'
<1>1. /\ rd = "clear" /\ First = tail /\ allocated' = allocated \ {Head0, tail}
      /\ rd' = "gone"
      /\ UNCHANGED <<next, value, tail, size, pc, fresh, mutex, batched, left, chain>>
  BY DEF FreeEnds, writerVars
<1>2. Len(chain) \in Nat /\ Len(chain) >= 1
  BY Bounded DEF ListInv
<1>3. Len(chain) = 1 /\ chain[1] = tail
  <2>1. chain[1] = chain[Len(chain)] /\ 1 \in 1..Len(chain) /\ Len(chain) \in 1..Len(chain)
    BY <1>1, <1>2 DEF ListInv, Linked
  <2>2. 1 = Len(chain)
    BY <2>1 DEF ListInv, Linked
  <2> QED
    BY <1>1, <2>1, <2>2 DEF ListInv, Linked
<1>4. \A i \in Item : fresh[i] = NoNode
  BY <1>1 DEF ListInv, OnePush, Private, Writing
<1>5. allocated' = {}
  BY <1>1, <1>3, <1>4 DEF ListInv, NothingLeaked
<1>6. QueueTypeOK'
  BY <1>1, <1>5 DEF ListInv, QueueTypeOK
<1>7. OnePush'
  BY <1>1 DEF ListInv, OnePush
<1>8. Linked'
  BY <1>1 DEF ListInv, Linked, First
<1>9. Private'
  BY <1>1 DEF ListInv, Private
<1> QED
  BY <1>1, <1>5, <1>6, <1>7, <1>8, <1>9 DEF ListInv, NothingLeaked

-----------------------------------------------------------------------------
(***************************************************************************)
(* The size.                                                               *)
(***************************************************************************)
(* Only the push under the mutex can be the one that is not counted. *)
LEMMA CountingStep ==
  ASSUME ListInv, NEW i \in Item, NEW place, pc' = [pc EXCEPT ![i] = place]
  PROVE  /\ place = "count" => PushCounting'
         /\ place # "count" /\ pc[i] # "count" => (PushCounting' <=> PushCounting)
         /\ mutex = i /\ pc[i] # "count" => ~PushCounting
BY DEF ListInv, QueueTypeOK, OnePush, Inside, PushCounting

(* A step that leaves the size, the list and what is counted as they are.  *)
LEMMA CountUntouched ==
  ASSUME CountInv, UNCHANGED <<size, chain>>, PushCounting' <=> PushCounting,
         rd' \in {"unlink", "clearUnlink"} <=> rd \in {"unlink", "clearUnlink"}
  PROVE  LET exact == Len(chain') - 1 - Uncounted'
         IN  size' = IF exact >= 0 THEN exact ELSE exact + SizeLimit
BY DEF CountInv, Uncounted, OneIf

LEMMA CountWriter ==
  ASSUME QueueInv, NEW i \in Item,
         \/ \E n \in Node : NewNode(i, n)
         \/ LockQueue(i) \/ Link(i) \/ Write(i) \/ Advance(i) \/ Count(i) \/ Unlock(i)
  PROVE  CountInv'
<1>1. /\ Len(chain) \in Nat /\ Len(chain) >= 1 /\ Len(chain) < SizeLimit
      /\ chain \in Seq(Node) /\ SizeLimit \in Nat
  BY Bounded, Modular DEF QueueInv, ListInv, QueueTypeOK
<1>2. UNCHANGED <<rd, left>>
  BY DEF NewNode, LockQueue, Link, Write, Advance, Count, Unlock, readerVars
<1>3. CASE (\E n \in Node : NewNode(i, n)) \/ LockQueue(i) \/ Link(i) \/ Write(i) \/ Unlock(i)
  <2>1. PICK place : pc' = [pc EXCEPT ![i] = place] /\ place # "count"
    BY <1>3 DEF NewNode, LockQueue, Link, Write, Unlock, PushAt
  <2>2. pc[i] # "count" /\ UNCHANGED <<size, chain>>
    BY <1>3 DEF NewNode, LockQueue, Link, Write, Unlock
  <2>3. PushCounting' <=> PushCounting
    BY <2>1, <2>2, CountingStep DEF QueueInv
  <2> QED
    BY <1>2, <2>2, <2>3, CountUntouched DEF QueueInv, CountInv
<1>4. CASE Advance(i)
  <2>1. /\ pc[i] = "tail" /\ mutex = i /\ chain' = Append(chain, fresh[i])
        /\ pc' = [pc EXCEPT ![i] = "count"] /\ size' = size
    BY <1>4 DEF Advance, PushAt, QueueInv, ListInv, OnePush, Inside
  <2>2. PushCounting' /\ ~PushCounting
    BY <2>1, CountingStep DEF QueueInv
  <2>3. fresh[i] \in Node
    BY <2>1 DEF QueueInv, ListInv, QueueTypeOK, Private, Writing
  <2>4. Len(chain') = Len(chain) + 1
    BY <1>1, <2>1, <2>3, AppendProperties
  <2>5. Uncounted' = Uncounted + 1 /\ Uncounted \in 0..1
    BY <1>2, <2>2 DEF Uncounted, OneIf
  <2> QED
    BY <1>1, <1>2, <2>1, <2>4, <2>5 DEF QueueInv, ListInv, QueueTypeOK, CountInv
<1>5. CASE Count(i)
  <2>1. /\ pc[i] = "count" /\ mutex = i /\ chain' = chain
        /\ pc' = [pc EXCEPT ![i] = "unlock"]
    BY <1>5 DEF Count, PushAt, QueueInv, ListInv, OnePush, Inside
  <2>2. PushCounting /\ ~PushCounting'
    <3>1. PushCounting
      BY <2>1 DEF PushCounting
    <3>2. ~PushCounting'
      BY <2>1 DEF QueueInv, ListInv, QueueTypeOK, OnePush, Inside, PushCounting
    <3> QED
      BY <3>1, <3>2
  <2>3. Uncounted' = Uncounted - 1 /\ Uncounted \in 1..2
    BY <1>2, <2>2 DEF Uncounted, OneIf
  <2>4. size' = IF size = SizeLimit - 1 THEN 0 ELSE size + 1
    BY <1>5, Modular DEF Count, QueueInv, ListInv, QueueTypeOK
  <2> QED
    BY <1>1, <1>2, <2>1, <2>3, <2>4 DEF QueueInv, CountInv
<1> QED
  BY <1>3, <1>4, <1>5

LEMMA CountReader ==
  ASSUME QueueInv,
         Empty \/ Take \/ ReadFront \/ ReadDone \/ Uncount \/ Unlink \/ DestroyQueue \/ FreeEnds
  PROVE  CountInv'
<1>1. /\ Len(chain) \in Nat /\ Len(chain) >= 1 /\ Len(chain) < SizeLimit
      /\ chain \in Seq(Node) /\ SizeLimit \in Nat
  BY Bounded, Modular DEF QueueInv, ListInv, QueueTypeOK
<1>2. PushCounting' <=> PushCounting
  BY DEF Empty, Take, ReadFront, ReadDone, Uncount, Unlink, DestroyQueue, FreeEnds, writerVars, PushCounting
<1>3. First # tail => Len(chain) > 1
  BY <1>1 DEF QueueInv, ListInv, Linked
<1>4. CASE Empty \/ ReadFront \/ ReadDone \/ DestroyQueue \/ FreeEnds
  <2>1. /\ UNCHANGED <<size, chain, left>>
        /\ rd' \in {"unlink", "clearUnlink"} <=> rd \in {"unlink", "clearUnlink"}
        /\ rd' = "take" => First # tail
        /\ rd' = "pop" => rd = "front" /\ left > 0
        /\ rd' \notin {"clearUnlink", "front", "unlink"}
    BY <1>4 DEF Empty, ReadFront, ReadDone, DestroyQueue, FreeEnds
  <2> QED
    BY <1>2, <1>3, <2>1, CountUntouched DEF QueueInv, ListInv, QueueTypeOK, CountInv
<1>5. CASE Take
  <2>1. /\ rd = "take" /\ rd' = "front" /\ UNCHANGED <<size, chain>>
        /\ left' = IF batched THEN size ELSE 1
    BY <1>5 DEF Take
  <2>2. left' <= Len(chain) - 1
    BY <1>1, <2>1 DEF QueueInv, CountInv, Uncounted, OneIf
  <2> QED
    BY <1>2, <2>1, <2>2, CountUntouched DEF QueueInv, CountInv
<1>6. CASE Uncount
  <2>1. /\ rd \in {"pop", "clear"} /\ (rd = "clear" => First # tail)
        /\ rd' = IF rd = "pop" THEN "unlink" ELSE "clearUnlink"
        /\ UNCHANGED <<chain, left>>
    BY <1>6 DEF Uncount
  <2>2. size' = IF size = 0 THEN SizeLimit - 1 ELSE size - 1
    BY <1>6, Modular DEF Uncount, QueueInv, ListInv, QueueTypeOK
  <2>3. Uncounted' = Uncounted + 1 /\ Uncounted \in 0..1
    BY <1>2, <2>1 DEF Uncounted, OneIf
  <2>4. Len(chain) > 1
    BY <1>1, <1>3, <2>1 DEF QueueInv, ListInv, QueueTypeOK, CountInv
  <2> QED
    BY <1>1, <2>1, <2>2, <2>3, <2>4 DEF QueueInv, ListInv, QueueTypeOK, CountInv
<1>7. CASE Unlink
  <2>1. /\ rd \in {"unlink", "clearUnlink"} /\ chain' = Tail(chain) /\ size' = size
        /\ rd' = IF rd = "unlink" THEN "front" ELSE "clear"
        /\ left' = IF rd = "unlink" THEN left - 1 ELSE left
    BY <1>7 DEF Unlink
  <2>2. Len(chain) > 1 /\ chain # <<>>
    BY <1>1, <2>1 DEF QueueInv, ListInv, QueueTypeOK, CountInv
  <2>3. Len(chain') = Len(chain) - 1
    BY <1>1, <2>1, <2>2, HeadTailProperties
  <2>4. Uncounted' = Uncounted - 1 /\ Uncounted \in 1..2
    BY <1>2, <2>1 DEF Uncounted, OneIf
  <2>5. Len(chain') - 1 - Uncounted' = Len(chain) - 1 - Uncounted
    BY <1>1, <2>3, <2>4
  <2>6. left \in Nat /\ (rd = "unlink" => left <= Len(chain) - 1)
    BY <2>1 DEF QueueInv, ListInv, QueueTypeOK, CountInv
  <2> QED
    BY <1>1, <2>1, <2>3, <2>5, <2>6 DEF QueueInv, CountInv
<1> QED
  BY <1>4, <1>5, <1>6, <1>7

-----------------------------------------------------------------------------
(***************************************************************************)
(* The invariant.                                                          *)
(***************************************************************************)
LEMMA QueueBegins == QueueInit => QueueInv
<1> SUFFICES ASSUME QueueInit PROVE QueueInv
  OBVIOUS
<1>1. Len(chain) = 1 /\ chain[1] = Tail0 /\ chain \in Seq(Node) \ {<<>>}
  BY NodeAssumption DEF QueueInit
<1>2. ~PushCounting /\ Uncounted = 0
  BY DEF QueueInit, PushCounting, Uncounted, OneIf
<1>3. QueueTypeOK
  BY <1>1, NodeAssumption, Modular DEF QueueInit, QueueTypeOK, Writing
<1>4. OnePush
  BY NodeAssumption DEF QueueInit, OnePush, Inside
<1>5. Linked
  BY <1>1, NodeAssumption DEF QueueInit, Linked, First
<1>6. Private
  BY <1>1, NodeAssumption DEF QueueInit, Private, Writing
<1>7. NothingLeaked
  BY <1>1 DEF QueueInit, NothingLeaked
<1>8. CountInv
  BY <1>1, <1>2 DEF QueueInit, CountInv
<1> QED
  BY <1>3, <1>4, <1>5, <1>6, <1>7, <1>8 DEF QueueInv, ListInv

LEMMA QueueStep == QueueInv /\ [QueueNext]_queueVars => QueueInv'
<1> SUFFICES ASSUME QueueInv, [QueueNext]_queueVars PROVE QueueInv'
  OBVIOUS
<1>1. ASSUME NEW i \in Item,
             \/ \E n \in Node : NewNode(i, n)
             \/ LockQueue(i) \/ Link(i) \/ Write(i) \/ Advance(i) \/ Count(i) \/ Unlock(i)
      PROVE  QueueInv'
  BY <1>1, ListNew, ListWriter, ListLink, ListAdvance, CountWriter DEF QueueInv
<1>2. CASE Empty \/ Take \/ ReadFront \/ ReadDone \/ Uncount \/ Unlink \/ DestroyQueue \/ FreeEnds
  BY <1>2, ListReader, ListUnlink, ListFree, CountReader DEF QueueInv
<1>3. CASE UNCHANGED queueVars
  <2>1. QueueTypeOK' /\ OnePush'
    BY <1>3 DEF queueVars, heapVars, writerVars, readerVars, QueueInv, ListInv, QueueTypeOK, OnePush
  <2>2. PushCounting' <=> PushCounting
    BY <1>3 DEF queueVars, writerVars, PushCounting
  <2>3. ListInv'
    BY <1>3, <2>1, ListUntouched
    DEF queueVars, heapVars, writerVars, readerVars, QueueInv, ListInv, Private
  <2> QED
    BY <1>3, <2>2, <2>3, CountUntouched DEF queueVars, readerVars, QueueInv, CountInv
<1> QED
  BY <1>1, <1>2, <1>3 DEF QueueNext

(* The invariant holds in every behaviour of the queue. *)
THEOREM QueueInvariant == QueueSpec => []QueueInv
BY QueueBegins, QueueStep, PTL DEF QueueSpec

(* The state of the list, of its writers and of its reader is of the types *)
(* that rwqueue.h gives it.                                                *)
THEOREM QueueIsTyped == QueueSpec => []QueueTypeOK
<1>1. QueueInv => QueueTypeOK
  BY DEF QueueInv, ListInv
<1> QED
  BY <1>1, QueueInvariant, PTL

(* No thread follows a pointer to a deleted node, and no node is left.     *)
THEOREM NodesAreOwned == QueueSpec => []NodesOwned
<1>1. QueueInv => NodesOwned
  <2> SUFFICES ASSUME QueueInv PROVE NodesAlive
    BY DEF QueueInv, ListInv, NodesOwned
  <2> SUFFICES ASSUME rd # "gone" PROVE NodesAlive
    BY DEF NodesAlive
  <2>1. Len(chain) \in Nat /\ Len(chain) >= 1
    BY Bounded DEF QueueInv, ListInv
  <2>2. {Head0, tail, First} \subseteq allocated
    BY <2>1, Resident DEF QueueInv, ListInv, Linked
  <2>3. \A i \in Item : pc[i] \in Writing => fresh[i] \in allocated
    BY Resident DEF QueueInv, ListInv, Private
  <2>4. rd \in {"pop", "unlink", "clearUnlink"} => Len(chain) > 1
    BY <2>1 DEF QueueInv, ListInv, QueueTypeOK, CountInv
  <2>5. Len(chain) > 1 => next[First] = chain[2] /\ First # tail
    BY <2>1 DEF QueueInv, ListInv, Linked
  <2> QED
    BY <2>1, <2>2, <2>3, <2>4, <2>5, Resident DEF QueueInv, NodesAlive
<1> QED
  BY <1>1, QueueInvariant, PTL

(* m_nSize is the number of values whenever no push and no pop is at work. *)
THEOREM SizeIsRestored == QueueSpec => []SizeRecovers
<1>1. QueueInv => SizeRecovers
  <2> SUFFICES ASSUME QueueInv, ~PushCounting, rd \notin {"unlink", "clearUnlink"}
               PROVE  size = Len(chain) - 1
    BY DEF SizeRecovers
  <2>1. Len(chain) \in Nat /\ Len(chain) >= 1
    BY Bounded DEF QueueInv, ListInv
  <2> QED
    BY <2>1 DEF QueueInv, CountInv, Uncounted, OneIf
<1> QED
  BY <1>1, QueueInvariant, PTL

-----------------------------------------------------------------------------
(***************************************************************************)
(* The queue of values.                                                    *)
(***************************************************************************)
LEMMA ItemsOfChain ==
  ASSUME QueueInv
  PROVE  /\ Len(chain) \in Nat /\ Len(chain) >= 1 /\ chain \in Seq(Node)
         /\ Items \in Seq(Item \cup {NoNode}) /\ Len(Items) = Len(chain) - 1
         /\ \A k \in 1..(Len(chain) - 1) : Items[k] = value[chain[k]]
         /\ First = tail <=> Len(chain) = 1
         /\ First = tail <=> Items = <<>>
         /\ First # tail => Head(Items) = value[First]
<1>1. Len(chain) \in Nat /\ Len(chain) >= 1 /\ chain \in Seq(Node)
  BY Bounded DEF QueueInv, ListInv, QueueTypeOK
<1>2. \A k \in 1..(Len(chain) - 1) : value[chain[k]] \in Item \cup {NoNode}
  BY <1>1 DEF QueueInv, ListInv, QueueTypeOK
<1>3. Items \in [1..(Len(chain) - 1) -> Item \cup {NoNode}]
  BY <1>2 DEF Items
<1>4. Items \in Seq(Item \cup {NoNode}) /\ Len(Items) = Len(chain) - 1
  BY <1>1, <1>3
<1>5. First = tail <=> Len(chain) = 1
  <2>1. 1 \in 1..Len(chain) /\ Len(chain) \in 1..Len(chain)
    BY <1>1
  <2>2. chain[1] = chain[Len(chain)] => 1 = Len(chain)
    BY <2>1 DEF QueueInv, ListInv, Linked
  <2> QED
    BY <2>2 DEF QueueInv, ListInv, Linked
<1>6. Items = <<>> <=> Len(Items) = 0
  BY <1>4, EmptySeq
<1>7. First # tail => Head(Items) = value[First]
  BY <1>1, <1>4, <1>5 DEF Items, QueueInv, ListInv, Linked
<1> QED
  BY <1>1, <1>4, <1>5, <1>6, <1>7 DEF Items

LEMMA ItemsUntouched ==
  ASSUME chain' = chain,
         \A k \in 1..(Len(chain) - 1) : value'[chain[k]] = value[chain[k]]
  PROVE  Items' = Items
BY DEF Items

(* Every step of a push is one of the abstract queue, or none. *)
LEMMA WriterSimulation ==
  ASSUME QueueInv, NEW i \in Item,
         \/ \E n \in Node : NewNode(i, n)
         \/ LockQueue(i) \/ Link(i) \/ Write(i) \/ Advance(i) \/ Count(i) \/ Unlock(i)
  PROVE  [Queue!Next]_(Queue!vars)
<1>1. told' = told
  BY DEF NewNode, LockQueue, Link, Write, Advance, Count, Unlock, readerVars
<1>2. ASSUME Items' = Items, PushCounting' = PushCounting
      PROVE  [Queue!Next]_(Queue!vars)
  BY <1>1, <1>2 DEF Queue!vars
<1>3. ASSUME NEW n \in Node, NewNode(i, n)
      PROVE  Items' = Items /\ PushCounting' = PushCounting
  <2>1. /\ n \notin allocated /\ value' = [value EXCEPT ![n] = NoNode] /\ chain' = chain
        /\ pc[i] = "out" /\ pc' = [pc EXCEPT ![i] = "lock"] /\ rd # "gone"
    BY <1>3 DEF NewNode, PushAt
  <2>2. \A k \in 1..(Len(chain) - 1) : value'[chain[k]] = value[chain[k]]
    BY <2>1, Resident, ItemsOfChain DEF QueueInv, ListInv, QueueTypeOK
  <2>3. PushCounting' = PushCounting
    BY <2>1 DEF PushCounting, QueueInv, ListInv, QueueTypeOK
  <2> QED
    BY <2>1, <2>2, <2>3, ItemsUntouched
<1>4. ASSUME LockQueue(i) \/ Link(i) \/ Unlock(i)
      PROVE  Items' = Items /\ PushCounting' = PushCounting
  <2>1. UNCHANGED <<value, chain>>
    BY <1>4 DEF LockQueue, Link, Unlock, heapVars
  <2>2. PushCounting' = PushCounting
    BY <1>4 DEF LockQueue, Link, Unlock, PushAt, PushCounting, QueueInv, ListInv, QueueTypeOK
  <2> QED
    BY <2>1, <2>2, ItemsUntouched
<1>5. ASSUME Write(i)
      PROVE  Items' = Items /\ PushCounting' = PushCounting
  <2>1. /\ value' = [value EXCEPT ![tail] = i] /\ chain' = chain
        /\ pc[i] = "value" /\ pc' = [pc EXCEPT ![i] = "tail"]
    BY <1>5 DEF Write, PushAt
  <2>2. \A k \in 1..(Len(chain) - 1) : chain[k] # tail
    BY ItemsOfChain DEF QueueInv, ListInv, Linked
  <2>3. \A k \in 1..(Len(chain) - 1) : value'[chain[k]] = value[chain[k]]
    BY <2>1, <2>2, ItemsOfChain DEF QueueInv, ListInv, QueueTypeOK
  <2>4. PushCounting' = PushCounting
    BY <2>1 DEF PushCounting, QueueInv, ListInv, QueueTypeOK
  <2> QED
    BY <2>1, <2>3, <2>4, ItemsUntouched
<1>6. CASE Advance(i)
  <2>1. /\ pc[i] = "tail" /\ mutex = i /\ chain' = Append(chain, fresh[i])
        /\ value' = value /\ pc' = [pc EXCEPT ![i] = "count"]
    BY <1>6 DEF Advance, PushAt, heapVars, QueueInv, ListInv, OnePush, Inside
  <2>2. PushCounting' = TRUE /\ ~PushCounting
    BY <2>1 DEF QueueInv, ListInv, QueueTypeOK, OnePush, Inside, PushCounting
  <2>3. fresh[i] \in Node
    BY <2>1 DEF QueueInv, ListInv, QueueTypeOK, Private, Writing
  <2>4. /\ Len(chain') = Len(chain) + 1
        /\ \A k \in 1..Len(chain) : chain'[k] = chain[k]
    BY <2>1, <2>3, ItemsOfChain, AppendProperties
  <2>5. Items' = [k \in 1..Len(chain) |-> value[chain[k]]]
    BY <2>1, <2>4, ItemsOfChain DEF Items
  <2>6. value[chain[Len(chain)]] = i
    BY <2>1 DEF QueueInv, ListInv, Linked, Private
  <2>7. Items' = Append(Items, i)
    <3>1. /\ Append(Items, i) \in Seq(Item \cup {NoNode})
          /\ Len(Append(Items, i)) = Len(chain)
          /\ \A k \in 1..(Len(chain) - 1) : Append(Items, i)[k] = value[chain[k]]
          /\ Append(Items, i)[Len(chain)] = i
      BY ItemsOfChain, AppendProperties
    <3>2. \A k \in 1..Len(chain) : Append(Items, i)[k] = value[chain[k]]
      BY <2>6, <3>1, ItemsOfChain
    <3>3. Append(Items, i) = [k \in 1..Len(chain) |-> Append(Items, i)[k]]
      BY <3>1, LenProperties
    <3> QED
      BY <2>5, <3>2, <3>3
  <2> QED
    BY <1>1, <2>2, <2>7 DEF Queue!Next, Queue!Append1
<1>7. CASE Count(i)
  <2>1. /\ pc[i] = "count" /\ mutex = i /\ UNCHANGED <<value, chain>>
        /\ pc' = [pc EXCEPT ![i] = "unlock"]
    BY <1>7 DEF Count, PushAt, heapVars, QueueInv, ListInv, OnePush, Inside
  <2>2. PushCounting' = FALSE /\ PushCounting
    BY <2>1 DEF QueueInv, ListInv, QueueTypeOK, OnePush, Inside, PushCounting
  <2>3. Items' = Items
    BY <2>1, ItemsUntouched
  <2> QED
    BY <1>1, <2>2, <2>3 DEF Queue!Next, Queue!Count1
<1> QED
  BY <1>2, <1>3, <1>4, <1>5, <1>6, <1>7

(* And so is every step of the reader. *)
LEMMA ReaderSimulation ==
  ASSUME QueueInv,
         Empty \/ Take \/ ReadFront \/ ReadDone \/ Uncount \/ Unlink \/ DestroyQueue \/ FreeEnds
  PROVE  [Queue!Next]_(Queue!vars)
<1>1. PushCounting' = PushCounting
  BY DEF Empty, Take, ReadFront, ReadDone, Uncount, Unlink, DestroyQueue, FreeEnds, writerVars, PushCounting
<1>2. UNCHANGED <<chain, value>> => Items' = Items
  BY ItemsUntouched
<1>3. CASE Empty
  <2>1. told' = <<"empty", Items = <<>> >> /\ Items' = Items
    BY <1>2, <1>3, ItemsOfChain DEF Empty, heapVars
  <2> QED
    BY <1>1, <2>1 DEF Queue!Next, Queue!Empty
<1>4. CASE Take
  <2>1. rd = "take" /\ told' = IF batched THEN <<"size", size>> ELSE told
    BY <1>4 DEF Take
  <2>2. size = Len(Items) - (IF PushCounting THEN 1 ELSE 0)
    BY <2>1, ItemsOfChain DEF QueueInv, CountInv, Uncounted, OneIf
  <2>3. size % SizeLimit = size
    BY Modular DEF QueueInv, ListInv, QueueTypeOK
  <2>4. Items' = Items
    BY <1>2, <1>4 DEF Take, heapVars
  <2> QED
    BY <1>1, <2>1, <2>2, <2>3, <2>4 DEF Queue!Next, Queue!ReadSize, Queue!vars
<1>5. CASE ReadFront
  <2>1. told' = <<"front", value[First]>> /\ rd = "front" /\ left > 0 /\ Items' = Items
    BY <1>2, <1>5 DEF ReadFront, heapVars
  <2>2. Len(chain) > 1
    BY <2>1, ItemsOfChain DEF QueueInv, ListInv, QueueTypeOK, CountInv
  <2>3. Items # <<>> /\ Head(Items) = value[First]
    BY <2>2, ItemsOfChain
  <2> QED
    BY <1>1, <2>1, <2>3 DEF Queue!Next, Queue!Front
<1>6. CASE Unlink
  <2>1. /\ rd \in {"unlink", "clearUnlink"} /\ chain' = Tail(chain)
        /\ UNCHANGED <<value, told>>
    BY <1>6 DEF Unlink
  <2>2. Len(chain) > 1 /\ chain # <<>>
    BY <2>1, ItemsOfChain DEF QueueInv, ListInv, QueueTypeOK, CountInv
  <2>3. Len(chain') = Len(chain) - 1 /\ \A k \in 1..Len(chain') : chain'[k] = chain[k + 1]
    BY <2>1, <2>2, ItemsOfChain, HeadTailProperties
  <2>4. Items' = [k \in 1..(Len(chain) - 2) |-> value[chain[k + 1]]]
    BY <2>1, <2>2, <2>3, ItemsOfChain DEF Items
  <2>5. Items # <<>>
    BY <2>2, ItemsOfChain
  <2>6. Items' = Tail(Items)
    <3>1. /\ Tail(Items) \in Seq(Item \cup {NoNode}) /\ Len(Tail(Items)) = Len(chain) - 2
          /\ \A k \in 1..Len(Tail(Items)) : Tail(Items)[k] = Items[k + 1]
      BY <2>2, <2>5, ItemsOfChain, HeadTailProperties
    <3>2. \A k \in 1..(Len(chain) - 2) : Tail(Items)[k] = value[chain[k + 1]]
      BY <2>2, <3>1, ItemsOfChain
    <3>3. Tail(Items) = [k \in 1..(Len(chain) - 2) |-> Tail(Items)[k]]
      BY <3>1, LenProperties
    <3> QED
      BY <2>4, <3>2, <3>3
  <2> QED
    BY <1>1, <2>1, <2>5, <2>6 DEF Queue!Next, Queue!Pop
<1>7. CASE ReadDone \/ Uncount \/ DestroyQueue \/ FreeEnds
  <2>1. UNCHANGED <<chain, value, told>>
    BY <1>7 DEF ReadDone, Uncount, DestroyQueue, FreeEnds, heapVars
  <2>2. Items' = Items
    BY <1>2, <2>1
  <2> QED
    BY <1>1, <2>1, <2>2 DEF Queue!vars
<1> QED
  BY <1>3, <1>4, <1>5, <1>6, <1>7

(* RWQueue implements TaskQueue: the reader is told what was pushed, in    *)
(* the order of the pushes, each value once and written before it is read. *)
THEOREM Implementation == QueueSpec => ImplementsQueue
<1>1. QueueInit => Queue!Init
  BY NodeAssumption DEF QueueInit, Queue!Init, Items, PushCounting
<1>2. QueueInv /\ [QueueNext]_queueVars => [Queue!Next]_(Queue!vars)
  <2> SUFFICES ASSUME QueueInv, [QueueNext]_queueVars PROVE [Queue!Next]_(Queue!vars)
    OBVIOUS
  <2>1. CASE UNCHANGED queueVars
    BY <2>1 DEF queueVars, heapVars, writerVars, readerVars, Queue!vars, Items, PushCounting
  <2> QED
    BY <2>1, WriterSimulation, ReaderSimulation DEF QueueNext
<1> QED
  BY <1>1, <1>2, QueueInvariant, PTL DEF QueueSpec, ImplementsQueue, Queue!Spec
=============================================================================
