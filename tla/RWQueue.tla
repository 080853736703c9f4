------------------------------ MODULE RWQueue ------------------------------
(***************************************************************************)
(* RWQueue (include/utility/rwqueue.h): a linked list that one thread      *)
(* reads, with no lock, while many threads write to it under a mutex.      *)
(*                                                                         *)
(* m_pHead is a node before the first value, and m_pTail a node after the  *)
(* last one: a push writes its value into the node m_pTail points to and   *)
(* then makes a fresh node the tail.  A memory access is a step, in the    *)
(* order of the source; the accesses to m_pTail and m_nSize are taken to   *)
(* be whole and in order, as they are on the processors the project is     *)
(* built for.                                                              *)
(*                                                                         *)
(* The reader is the processor thread.  InternalDealTask pops the size()   *)
(* it read (batched), InternalDealSysTask one value whatever the size.  A  *)
(* push is identified with the value it carries, and its caller makes it   *)
(* again and again.  The nodes of the heap are the bound: a push waits for *)
(* one to be free.                                                         *)
(***************************************************************************)
EXTENDS Integers, Sequences, FiniteSets

CONSTANTS
  Item,     \* the pushes, and the values they carry
  Node,     \* the nodes the heap has room for
  Head0,    \* the node that m_pHead points to for ever
  Tail0,    \* the node that m_pTail points to at first
  NoNode,     \* no node, no push, and the value of memory nobody wrote to
  SizeLimit   \* size_t counts modulo this

ASSUME NodeAssumption ==
  /\ Head0 \in Node /\ Tail0 \in Node /\ Head0 # Tail0
  /\ NoNode \notin Node /\ NoNode \notin Item

ASSUME SizeAssumption ==
  /\ SizeLimit \in Nat /\ IsFiniteSet(Node) /\ Cardinality(Node) < SizeLimit

VARIABLES
  batched,   \* the reader pops as many as size() says, else one
  next,      \* pNext of each node
  value,     \* value of each node
  allocated, \* the nodes that were allocated and not deleted
  tail,      \* m_pTail
  size,      \* m_nSize
  mutex,     \* the push that holds m_mutex
  pc,        \* where each push is
  fresh,     \* pNode of each push
  rd,        \* where the reader is
  left,      \* the values the reader still has to pop
  told,      \* the reader's last question and its answer
  chain      \* history: the nodes from m_pHead->pNext to m_pTail

heapVars == <<next, value, allocated>>
writerVars == <<pc, fresh, mutex>>
readerVars == <<batched, rd, left, told>>
queueVars == <<heapVars, tail, size, writerVars, readerVars, chain>>

First == next[Head0]

QueueInit ==
  /\ batched \in BOOLEAN
  /\ next = [n \in Node |-> IF n = Head0 THEN Tail0 ELSE NoNode]
  /\ value = [n \in Node |-> NoNode]
  /\ allocated = {Head0, Tail0}
  /\ tail = Tail0
  /\ size = 0
  /\ mutex = NoNode
  /\ pc = [i \in Item |-> "out"]
  /\ fresh = [i \in Item |-> NoNode]
  /\ rd = "out"
  /\ left = 0
  /\ told = <<"nothing">>
  /\ chain = <<Tail0>>

-----------------------------------------------------------------------------
(***************************************************************************)
(* push.                                                                   *)
(***************************************************************************)
PushAt(i, place) == pc' = [pc EXCEPT ![i] = place]

(* What was in the memory of a new node is not known: nobody may read it.  *)
NewNode(i, n) ==
  /\ pc[i] = "out"
  /\ rd \notin {"clear", "clearUnlink", "gone"}
  /\ n \notin allocated
  /\ allocated' = allocated \cup {n}
  /\ next' = [next EXCEPT ![n] = NoNode]
  /\ value' = [value EXCEPT ![n] = NoNode]
  /\ fresh' = [fresh EXCEPT ![i] = n]
  /\ PushAt(i, "lock")
  /\ UNCHANGED <<tail, size, mutex, readerVars, chain>>

LockQueue(i) ==
  /\ pc[i] = "lock"
  /\ mutex = NoNode
  /\ mutex' = i
  /\ PushAt(i, "link")
  /\ UNCHANGED <<heapVars, tail, size, fresh, readerVars, chain>>

Link(i) ==
  /\ pc[i] = "link"
  /\ next' = [next EXCEPT ![tail] = fresh[i]]
  /\ PushAt(i, "value")
  /\ UNCHANGED <<value, allocated, tail, size, fresh, mutex, readerVars, chain>>

(* Mistake: the value is written into the new node. *)
Write_Fresh(i) ==
  /\ pc[i] = "value"
  /\ value' = [value EXCEPT ![fresh[i]] = i]
  /\ PushAt(i, "tail")
  /\ UNCHANGED <<next, allocated, tail, size, fresh, mutex, readerVars, chain>>

Write(i) ==
  /\ pc[i] = "value"
  /\ value' = [value EXCEPT ![tail] = i]
  /\ PushAt(i, "tail")
  /\ UNCHANGED <<next, allocated, tail, size, fresh, mutex, readerVars, chain>>

(* The value is in the queue from here on. *)
Advance(i) ==
  /\ pc[i] = "tail"
  /\ tail' = fresh[i]
  /\ chain' = Append(chain, fresh[i])
  /\ fresh' = [fresh EXCEPT ![i] = NoNode]
  /\ PushAt(i, "count")
  /\ UNCHANGED <<heapVars, size, mutex, readerVars>>

Count(i) ==
  /\ pc[i] = "count"
  /\ size' = (size + 1) % SizeLimit
  /\ PushAt(i, "unlock")
  /\ UNCHANGED <<heapVars, tail, fresh, mutex, readerVars, chain>>

Unlock(i) ==
  /\ pc[i] = "unlock"
  /\ mutex' = NoNode
  /\ PushAt(i, "out")
  /\ UNCHANGED <<heapVars, tail, size, fresh, readerVars, chain>>

-----------------------------------------------------------------------------
(***************************************************************************)
(* The reader.                                                             *)
(***************************************************************************)

(* Mistake: empty() looks for the end of the list. *)
Empty_AtNull ==
  /\ rd = "out"
  /\ told' = <<"empty", next[First] = NoNode>>
  /\ rd' = IF next[First] = NoNode THEN "out" ELSE "take"
  /\ UNCHANGED <<heapVars, tail, size, writerVars, batched, left, chain>>

(* empty(), before a queue is taken. *)
Empty ==
  /\ rd = "out"
  /\ told' = <<"empty", First = tail>>
  /\ rd' = IF First = tail THEN "out" ELSE "take"
  /\ UNCHANGED <<heapVars, tail, size, writerVars, batched, left, chain>>

(* size(), and the bound of the loop around front() and pop(). *)
Take ==
  /\ rd = "take"
  /\ told' = IF batched THEN <<"size", size>> ELSE told
  /\ left' = IF batched THEN size ELSE 1
  /\ rd' = "front"
  /\ UNCHANGED <<heapVars, tail, size, writerVars, batched, chain>>

ReadFront ==
  /\ rd = "front"
  /\ left > 0
  /\ told' = <<"front", value[First]>>
  /\ rd' = "pop"
  /\ UNCHANGED <<heapVars, tail, size, writerVars, batched, left, chain>>

ReadDone ==
  /\ rd = "front"
  /\ left = 0
  /\ rd' = "out"
  /\ UNCHANGED <<heapVars, tail, size, writerVars, batched, left, told, chain>>

(* Mistake: pop() does not count. *)
Uncount_Not ==
  /\ rd \in {"pop", "clear"}
  /\ rd = "clear" => First # tail
  /\ rd' = IF rd = "pop" THEN "unlink" ELSE "clearUnlink"
  /\ UNCHANGED <<heapVars, tail, size, writerVars, batched, left, told, chain>>

(* pop() counts, before it touches the list; clear() pops while there is   *)
(* something to pop.                                                       *)
Uncount ==
  /\ rd \in {"pop", "clear"}
  /\ rd = "clear" => First # tail
  /\ size' = (size - 1) % SizeLimit
  /\ rd' = IF rd = "pop" THEN "unlink" ELSE "clearUnlink"
  /\ UNCHANGED <<heapVars, tail, writerVars, batched, left, told, chain>>

(* The rest of pop(): m_pHead->pNext is the reader's own.                  *)
Unlink ==
  /\ rd \in {"unlink", "clearUnlink"}
  /\ next' = [next EXCEPT ![Head0] = next[First]]
  /\ allocated' = allocated \ {First}
  /\ chain' = Tail(chain)
  /\ IF rd = "unlink"
       THEN left' = left - 1 /\ rd' = "front"
       ELSE rd' = "clear" /\ UNCHANGED left
  /\ UNCHANGED <<value, tail, size, writerVars, batched, told>>

(* The queue is destroyed once the reader ended and no push is going on.   *)
DestroyQueue ==
  /\ rd = "out"
  /\ \A i \in Item : pc[i] = "out"
  /\ rd' = "clear"
  /\ UNCHANGED <<heapVars, tail, size, writerVars, batched, left, told, chain>>

(* Mistake: the destructor forgets the values that nobody read. *)
FreeEnds_First ==
  /\ rd = "clear"
  /\ allocated' = allocated \ {Head0, tail}
  /\ rd' = "gone"
  /\ UNCHANGED <<next, value, tail, size, writerVars, batched, left, told, chain>>

FreeEnds ==
  /\ rd = "clear"
  /\ First = tail
  /\ allocated' = allocated \ {Head0, tail}
  /\ rd' = "gone"
  /\ UNCHANGED <<next, value, tail, size, writerVars, batched, left, told, chain>>

-----------------------------------------------------------------------------
QueueNext ==
  \/ \E i \in Item :
       \/ \E n \in Node : NewNode(i, n)
       \/ LockQueue(i) \/ Link(i) \/ Write(i) \/ Advance(i) \/ Count(i) \/ Unlock(i)
  \/ Empty \/ Take \/ ReadFront \/ ReadDone \/ Uncount \/ Unlink
  \/ DestroyQueue \/ FreeEnds

QueueSpec == QueueInit /\ [][QueueNext]_queueVars

-----------------------------------------------------------------------------
(***************************************************************************)
(* What must hold.                                                         *)
(***************************************************************************)
Writing == {"lock", "link", "value", "tail"}

(* The type invariant. *)
QueueTypeOK ==
  /\ batched \in BOOLEAN
  /\ next \in [Node -> Node \cup {NoNode}]
  /\ value \in [Node -> Item \cup {NoNode}]
  /\ allocated \subseteq Node
  /\ tail \in Node
  /\ size \in 0..(SizeLimit - 1)
  /\ mutex \in Item \cup {NoNode}
  /\ pc \in [Item -> Writing \cup {"out", "count", "unlock"}]
  /\ fresh \in [Item -> Node \cup {NoNode}]
  /\ rd \in {"out", "take", "front", "pop", "unlink", "clear", "clearUnlink",
             "gone"}
  /\ left \in Nat
  /\ chain \in Seq(Node) \ {<<>>}

(* A push has been seen by the reader and not been counted. *)
PushCounting == \E i \in Item : pc[i] = "count"

Items == [k \in 1..(Len(chain) - 1) |-> value[chain[k]]]

(* No thread follows a pointer to a node that was deleted: the tail the    *)
(* writers share, the new node of each push and the nodes the reader walks *)
(* are allocated, and the reader never deletes the tail under a push.      *)
NodesAlive ==
  rd # "gone" =>
    /\ {Head0, tail, First} \subseteq allocated
    /\ \A i \in Item : pc[i] \in Writing => fresh[i] \in allocated
    /\ rd \in {"pop", "unlink", "clearUnlink"} =>
         First # tail /\ next[First] \in allocated

(* Every node in memory is in the list, or is the new node of one push;    *)
(* the destructor leaves none behind.                                      *)
NothingLeaked ==
  /\ rd = "gone" => allocated = {}
  /\ rd # "gone" =>
       allocated = {Head0} \cup {chain[k] : k \in 1..Len(chain)}
                           \cup ({fresh[i] : i \in Item} \ {NoNode})

(* The nodes of the list live as long as a thread needs them, and no       *)
(* longer.                                                                 *)
NodesOwned == NodesAlive /\ NothingLeaked

(* m_nSize recovers: it may run below zero and wrap when a value is popped *)
(* that was not counted yet, but it is right again as soon as no push and  *)
(* no pop is under way.                                                    *)
SizeRecovers ==
  ~PushCounting /\ rd \notin {"unlink", "clearUnlink"} => size = Len(chain) - 1

Queue ==
  INSTANCE TaskQueue
    WITH Value <- Item, Modulus <- SizeLimit, items <- Items, counting <- PushCounting

(* The reader is told what TaskQueue says: what was pushed, in the order   *)
(* of the pushes, each value once, written before it is read; and size()   *)
(* is the number of values less the one that is being pushed.              *)
ImplementsQueue == Queue!Spec
=============================================================================
