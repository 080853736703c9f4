------------------------------- MODULE SmallObj -------------------------------
(***************************************************************************)
(* SmallObjAllocator (src/SmallObj.cpp): a FixedAllocator for each size,   *)
(* which cuts its chunks of memory into blocks.  The first byte of a free  *)
(* block is the index of the next one.  Every call is under the lock of    *)
(* SmallObject, so a call is one step.  A request above the limit goes to  *)
(* operator new and is left out.                                           *)
(*                                                                         *)
(* allocChunk_, deallocChunk_ and emptyChunk_ point into the vector of     *)
(* chunks: they are positions in it, 0 for NULL.                           *)
(***************************************************************************)
EXTENDS Naturals, Sequences, FiniteSets

CONSTANTS
  Page,          \* the memory that operator new has for chunks
  NumBlocks,     \* numBlocks_, 8..255 in the code
  FirstSize,     \* half of the first capacity, 4 in the code
  MaxObjectSize  \* maxSmallObjectSize_

ASSUME MemoryAssumption ==
  /\ NumBlocks \in Nat \ {0} /\ FirstSize \in Nat \ {0}
  /\ MaxObjectSize \in Nat \ {0}

VARIABLES
  pool,   \* pool_, by block size
  given,  \* the blocks that callers have
  dangled   \* a pointer into the vector of chunks was used after it had moved

memoryVars == <<pool, given, dangled>>

Block == 0..(NumBlocks - 1)
BlockSize == 1..MaxObjectSize

MemoryInit ==
  /\ pool = [n \in BlockSize |->
               [chunks |-> <<>>, capacity |-> 0, alloc |-> 0, dealloc |-> 0,
                empty |-> 0, moved |-> FALSE]]
  /\ given = {}
  /\ dangled = FALSE

(* Where a request for n bytes goes. *)
PoolOf(n) == IF n = 0 THEN 1 ELSE n

Pages(f) == {f.chunks[i].page : i \in DOMAIN f.chunks}
FreePages == Page \ UNION {Pages(pool[n]) : n \in BlockSize}

-----------------------------------------------------------------------------
(***************************************************************************)
(* Chunk.                                                                  *)
(***************************************************************************)
NewChunk(page) ==
  [page |-> page, first |-> 0, avail |-> NumBlocks, next |-> [b \in Block |-> b + 1]]

ChunkAllocate(c) == [c EXCEPT !.first = c.next[c.first], !.avail = @ - 1]

(* Mistake: the block is put in front of the list that it is not linked to. *)
ChunkDeallocate_Unlinked(c, b) == [c EXCEPT !.first = b, !.avail = @ + 1]

ChunkDeallocate(c, b) ==
  [c EXCEPT !.next[b] = c.first, !.first = b, !.avail = @ + 1]

-----------------------------------------------------------------------------
(***************************************************************************)
(* FixedAllocator::Allocate.  f is the allocator, and each operator gives  *)
(* the allocator after it has settled which chunk to take a block from.    *)
(***************************************************************************)
Usable(f) == f.alloc # 0 /\ f.chunks[f.alloc].avail # 0

FromAlloc(f) == [f EXCEPT !.empty = IF @ = f.alloc THEN 0 ELSE @]

FromEmpty(f) == [f EXCEPT !.alloc = f.empty, !.empty = 0]

WithRoom(f) == {i \in DOMAIN f.chunks : f.chunks[i].avail # 0}

FromRoom(f) ==
  [f EXCEPT !.alloc = CHOOSE i \in WithRoom(f) : \A j \in WithRoom(f) : i <= j]

(* MakeNewChunk: reserve moves the vector, then comes the memory. *)
Full(f) == f.capacity = Len(f.chunks)
Reserve(f) == IF f.capacity = 0 THEN 2 * FirstSize ELSE 2 * f.capacity

MakeNewChunk(f, page) ==
  [f EXCEPT !.chunks = Append(@, NewChunk(page)),
            !.capacity = IF Full(f) THEN Reserve(f) ELSE @,
            !.alloc = Len(f.chunks) + 1,
            !.dealloc = 1]

(* There is no memory for the chunk: allocChunk_ and deallocChunk_ are     *)
(* left pointing to where the vector was.                                  *)
NoNewChunk(f) ==
  [f EXCEPT !.capacity = IF Full(f) THEN Reserve(f) ELSE @,
            !.moved = Full(f) /\ f.chunks # <<>>]

Give(n, f) ==
  LET c == f.chunks[f.alloc] IN
  /\ pool' = [pool EXCEPT ![n] = [f EXCEPT !.chunks[f.alloc] = ChunkAllocate(c)]]
  /\ given' = given \cup {[size |-> n, page |-> c.page, block |-> c.first]}

(* Which memory a new chunk gets does not matter. *)
Allocate(bytes) ==
  LET n == PoolOf(bytes)
      f == pool[n]
      none == ~Usable(f) /\ f.empty = 0 /\ WithRoom(f) = {}
  IN  /\ ~f.moved
      /\ \/ Usable(f) /\ Give(n, FromAlloc(f))
         \/ ~Usable(f) /\ f.empty # 0 /\ Give(n, FromEmpty(f))
         \/ ~Usable(f) /\ f.empty = 0 /\ ~none /\ Give(n, FromRoom(f))
         \/ /\ none /\ FreePages # {}
            /\ Give(n, MakeNewChunk(f, CHOOSE page \in FreePages : TRUE))
      /\ UNCHANGED dangled

(* NULL is returned: there is no memory for the vector, or for the chunk. *)
AllocateFails(bytes) ==
  LET n == PoolOf(bytes)
      f == pool[n]
  IN  /\ ~f.moved /\ ~Usable(f) /\ f.empty = 0 /\ WithRoom(f) = {}
      /\ pool' \in {pool, [pool EXCEPT ![n] = NoNewChunk(f)]}
      /\ UNCHANGED <<given, dangled>>

-----------------------------------------------------------------------------
(***************************************************************************)
(* FixedAllocator::Deallocate.  The search from deallocChunk_ in both      *)
(* directions, or HasBlock, finds the chunk whose memory the block is in.  *)
(***************************************************************************)
VicinityFind(f, x) == CHOOSE i \in DOMAIN f.chunks : f.chunks[i].page = x.page

GiveBack(f, x) ==
  LET i == VicinityFind(f, x)
  IN  [f EXCEPT !.chunks[i] = ChunkDeallocate(@, x.block), !.dealloc = i]

(* Mistake: allocChunk_ may stay where the last chunk was. *)
DropEmpty_StaleAlloc(f) ==
  LET last == Len(f.chunks)
      kept == IF last = f.dealloc THEN f.empty ELSE f.dealloc
      swapped == IF last \in {f.dealloc, f.empty} THEN f.chunks
                   ELSE [f.chunks EXCEPT ![f.empty] = f.chunks[last]]
  IN  [f EXCEPT !.chunks = SubSeq(swapped, 1, last - 1),
                !.dealloc = kept, !.empty = kept]

(* Two chunks are empty: one goes to the end of the vector and is          *)
(* released, the other becomes emptyChunk_.                                *)
DropEmpty(f) ==
  LET last == Len(f.chunks)
      kept == IF last = f.dealloc THEN f.empty ELSE f.dealloc
      swapped == IF last \in {f.dealloc, f.empty} THEN f.chunks
                   ELSE [f.chunks EXCEPT ![f.empty] = f.chunks[last]]
      stale == f.alloc = last \/ swapped[f.alloc].avail = 0
  IN  [f EXCEPT !.chunks = SubSeq(swapped, 1, last - 1),
                !.dealloc = kept, !.empty = kept,
                !.alloc = IF stale THEN kept ELSE @]

Deallocate(x) ==
  LET f == GiveBack(pool[x.size], x)
      isEmpty == f.chunks[f.dealloc].avail = NumBlocks
  IN  /\ x \in given /\ ~pool[x.size].moved
      /\ pool' = [pool EXCEPT ![x.size] =
                    CASE isEmpty /\ f.empty # 0 -> DropEmpty(f)
                      [] isEmpty /\ f.empty = 0 -> [f EXCEPT !.empty = f.dealloc]
                      [] OTHER -> f]
      /\ given' = given \ {x}
      /\ UNCHANGED dangled

(* The next call goes through a pointer into the vector that was. *)
UseMoved(n) ==
  /\ pool[n].moved
  /\ dangled' = TRUE
  /\ UNCHANGED <<pool, given>>

-----------------------------------------------------------------------------
MemoryNext ==
  /\ ~dangled
  /\ \/ \E bytes \in 0..MaxObjectSize : Allocate(bytes) \/ AllocateFails(bytes)
     \/ \E x \in given : Deallocate(x)
     \/ \E n \in BlockSize : UseMoved(n)

MemorySpec == MemoryInit /\ [][MemoryNext]_memoryVars

-----------------------------------------------------------------------------
(***************************************************************************)
(* What must hold.                                                         *)
(***************************************************************************)
Chunk == [page : Page, first : 0..NumBlocks, avail : 0..NumBlocks,
          next : [Block -> 0..NumBlocks]]

Allocator == [chunks : Seq(Chunk), capacity : Nat, moved : BOOLEAN,
              alloc : Nat, dealloc : Nat, empty : Nat]

(* The type invariant: indices stay in the byte that holds them. *)
MemoryTypeOK ==
  /\ pool \in [BlockSize -> Allocator]
  /\ given \subseteq [size : BlockSize, page : Page, block : Block]
  /\ dangled \in BOOLEAN

(* order is the list of the free blocks of a chunk, as they are linked.    *)
FreeList(c, order) ==
  /\ c.avail > 0 => order[1] = c.first
  /\ \A k \in 1..(c.avail - 1) : order[k + 1] = c.next[order[k]]

(* The blocks of a chunk that callers have. *)
Mine(n, page) == {x.block : x \in {y \in given : y.size = n /\ y.page = page}}

(* Each block of a chunk is either with one caller or once on the list of  *)
(* its chunk, so none is given twice and none is lost; and the chunk of a  *)
(* given block is kept, however the chunks are swapped and released.       *)
BlocksSound ==
  /\ \A n \in BlockSize : \A i \in DOMAIN pool[n].chunks :
       LET c == pool[n].chunks[i]
       IN  /\ \E order \in [1..c.avail -> Block] :
                FreeList(c, order) /\ {order[k] : k \in 1..c.avail} = Block \ Mine(n, c.page)
           /\ c.avail + Cardinality(Mine(n, c.page)) = NumBlocks
           /\ \A m \in BlockSize : \A j \in DOMAIN pool[m].chunks :
                pool[m].chunks[j].page = c.page => m = n /\ j = i
  /\ \A x \in given : x.page \in Pages(pool[x.size])

(* The asserts of Allocate and Deallocate: emptyChunk_ is the one chunk    *)
(* without a given block, if there is one, and the others point into the   *)
(* vector, except after a chunk could not be had in a vector that moved.   *)
PointersSound ==
  \A n \in BlockSize :
    LET f == pool[n]
        whole == {i \in DOMAIN f.chunks : f.chunks[i].avail = NumBlocks}
    IN  /\ whole = IF f.empty = 0 THEN {} ELSE {f.empty}
        /\ f.chunks # <<>> /\ ~f.moved =>
             {f.alloc, f.dealloc} \subseteq DOMAIN f.chunks
        /\ f.moved => f.empty = 0 /\ WithRoom(f) \cap {f.alloc} = {}

(* The asserts of Deallocate (lines 196-200): allocChunk_ and deallocChunk_*)
(* point into the vector of chunks when a call uses them.  They fail after *)
(* the vector moved and there was no memory for the chunk.                 *)
PointIntoChunks == ~dangled

(* The allocator is sound: no block is given twice or lost, and the        *)
(* pointers that the next call goes by are what it takes them for.         *)
AllocatorSound == BlocksSound /\ PointersSound
=============================================================================
