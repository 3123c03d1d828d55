----------------------------- MODULE MemoryPool -----------------------------
(***************************************************************************)
(* mempool/fixedsizepool.cpp, MemoryPool<T>: chunks of one size, carved    *)
(* out of blocks and kept on an intrusive free list.  The link of a chunk  *)
(* lies in the bytes of the object that will live there, so it is lost     *)
(* when the chunk is handed out.                                           *)
(*                                                                         *)
(* T's constructor and destructor may use the pool themselves (a node that *)
(* makes or destroys its children), and the constructor may throw: calls   *)
(* that wait for one of them form a stack.                                 *)
(***************************************************************************)
EXTENDS Naturals, Sequences, FiniteSets

CONSTANTS
  Blocks,      \* addresses aligned_alloc can return, each at most once
  BLOCK_SIZE,  \* chunks in a block
  NULL,        \* the null pointer
  Junk,        \* a link overwritten by the object
  MaxDepth     \* bound: nested calls of T's constructor and destructor

ASSUME ChunkAssumption ==
  /\ BLOCK_SIZE \in Nat \ {0}
  /\ NULL \notin Blocks \X (1..BLOCK_SIZE)
  /\ Junk \notin Blocks \X (1..BLOCK_SIZE)
  /\ NULL # Junk

Chunks == Blocks \X (1..BLOCK_SIZE)

VARIABLES
  free_list_,       \* head of the list
  next,             \* the link in each chunk's memory
  blocks_,          \* std::vector<void*>
  allocated_count_,
  calls,            \* stack of <<"ctor" or "dtor", chunk>> that run T's code
  objects,          \* chunks with a constructed object the client holds
  bytes,            \* chunks the client got from allocate() itself
  lost,             \* history: chunks whose constructor threw
  wasted,           \* history: blocks blocks_.push_back failed to record
  released,         \* blocks the pool's destructor freed; it is gone then
  peak              \* history: the most chunks ever handed out at once

vars == <<free_list_, next, blocks_, allocated_count_, calls,
          objects, bytes, lost, wasted, released, peak>>

Pending == {calls[i][2] : i \in DOMAIN calls}
Out == objects \cup bytes \cup lost \cup Pending
\* How many owners c has: the calls under way and the sets it is in.
Holders(c) == Cardinality({i \in DOMAIN calls : calls[i][2] = c})
              + Cardinality({i \in 1..3 : c \in <<objects, bytes, lost>>[i]})
Recorded == {blocks_[i] : i \in DOMAIN blocks_}

Init ==
  /\ free_list_ = NULL
  /\ next = [c \in Chunks |-> Junk]
  /\ blocks_ = <<>>
  /\ allocated_count_ = 0
  /\ calls = <<>>
  /\ objects = {} /\ bytes = {} /\ lost = {} /\ wasted = {} /\ released = {}
  /\ peak = 0

Mutant_Carve(b) ==
  [c \in Chunks |-> IF c[1] # b THEN next[c]
                    ELSE IF c[2] = 1 THEN c ELSE <<b, c[2] - 1>>]

\* The links allocate_block writes: each chunk of b is pushed in front of
\* the one before it, the first in front of what the list held: nothing.
Carve(b) ==
  [c \in Chunks |-> IF c[1] # b THEN next[c]
                    ELSE IF c[2] = 1 THEN free_list_ ELSE <<b, c[2] - 1>>]

\* Pop c, the head of a list with the given links; the caller uses it.
Pop(c, links) ==
  /\ free_list_' = links[c]
  /\ next' = [links EXCEPT ![c] = Junk]
  /\ allocated_count_' = allocated_count_ + 1
  /\ peak' = IF peak > allocated_count_ THEN peak ELSE allocated_count_ + 1

Mutant_allocate(c) ==
  \/ free_list_ = c /\ Pop(c, next) /\ UNCHANGED blocks_
  \/ \E b \in Blocks \ (Recorded \cup wasted) :
       /\ c = <<b, BLOCK_SIZE>>
       /\ blocks_' = Append(blocks_, b)
       /\ Pop(c, Carve(b))

\* allocate() returns c: the head, of a new block if the list is empty.
allocate(c) ==
  \/ free_list_ = c /\ Pop(c, next) /\ UNCHANGED blocks_
  \/ /\ free_list_ = NULL
     /\ \E b \in Blocks \ (Recorded \cup wasted) :
          /\ c = <<b, BLOCK_SIZE>>
          /\ blocks_' = Append(blocks_, b)
          /\ Pop(c, Carve(b))

Mutant_push(c) ==
  /\ free_list_' = c
  /\ next' = [next EXCEPT ![c] = free_list_]
  /\ UNCHANGED allocated_count_

\* deallocate(): put c in front of the list.
push(c) ==
  /\ free_list_' = c
  /\ next' = [next EXCEPT ![c] = free_list_]
  /\ allocated_count_' = allocated_count_ - 1

-----------------------------------------------------------------------------
\* construct() up to T's constructor.
Construct(c) ==
  /\ Len(calls) < MaxDepth
  /\ allocate(c)
  /\ calls' = Append(calls, <<"ctor", c>>)
  /\ UNCHANGED <<objects, bytes, lost, wasted>>

Allocate(c) ==
  /\ allocate(c)
  /\ bytes' = bytes \cup {c}
  /\ UNCHANGED <<calls, objects, lost, wasted>>

\* aligned_alloc returned a block and blocks_.push_back threw: neither the
\* list nor blocks_ knows it.  When aligned_alloc itself fails nothing
\* changes at all.
BlockUnrecorded(b) ==
  /\ free_list_ = NULL
  /\ b \notin Recorded \cup wasted
  /\ wasted' = wasted \cup {b}
  /\ UNCHANGED <<free_list_, next, blocks_, allocated_count_, calls,
                 objects, bytes, lost, peak>>

Top(kind, c) == calls # <<>> /\ calls[Len(calls)] = <<kind, c>>
Return == calls' = SubSeq(calls, 1, Len(calls) - 1)

Constructed(c) ==
  /\ Top("ctor", c) /\ Return
  /\ objects' = objects \cup {c}
  /\ UNCHANGED <<free_list_, next, blocks_, allocated_count_, bytes, lost, wasted, peak>>

\* The constructor threw: nobody puts the chunk back.
ConstructThrows(c) ==
  /\ Top("ctor", c) /\ Return
  /\ lost' = lost \cup {c}
  /\ UNCHANGED <<free_list_, next, blocks_, allocated_count_, objects, bytes, wasted, peak>>

\* destroy() of an object, up to the end of its destructor.
Destroy(c) ==
  /\ Len(calls) < MaxDepth
  /\ c \in objects
  /\ objects' = objects \ {c}
  /\ calls' = Append(calls, <<"dtor", c>>)
  /\ UNCHANGED <<free_list_, next, blocks_, allocated_count_, bytes, lost, wasted, peak>>

\* T's destructor returned; the chunk goes back.
Destroyed(c) ==
  /\ Top("dtor", c) /\ Return
  /\ push(c)
  /\ UNCHANGED <<blocks_, objects, bytes, lost, wasted, peak>>

Deallocate(c) ==
  /\ c \in bytes
  /\ push(c)
  /\ bytes' = bytes \ {c}
  /\ UNCHANGED <<blocks_, calls, objects, lost, wasted, peak>>

\* ~MemoryPool frees the recorded blocks, whatever still lives in them.
Release ==
  /\ calls = <<>>
  /\ blocks_ # <<>>
  /\ released' = Recorded
  /\ UNCHANGED <<free_list_, next, blocks_, allocated_count_, calls,
                 objects, bytes, lost, wasted, peak>>

Use ==
  \/ \E c \in Chunks : \/ Construct(c) \/ Constructed(c) \/ ConstructThrows(c)
                       \/ Destroy(c) \/ Destroyed(c)
                       \/ Allocate(c) \/ Deallocate(c)
  \/ \E b \in Blocks : BlockUnrecorded(b)

Next == released = {} /\ ((Use /\ UNCHANGED released) \/ Release)

Spec == Init /\ [][Next]_vars

-----------------------------------------------------------------------------
TypeOK ==
  /\ free_list_ \in Chunks \cup {NULL}
  /\ next \in [Chunks -> Chunks \cup {NULL, Junk}]
  /\ blocks_ \in Seq(Blocks)
  /\ allocated_count_ \in Nat
  /\ calls \in Seq({"ctor", "dtor"} \X Chunks)
  /\ objects \subseteq Chunks /\ bytes \subseteq Chunks /\ lost \subseteq Chunks
  /\ wasted \subseteq Blocks /\ released \subseteq Blocks
  /\ peak \in Nat

\* The chunks of the recorded blocks that nobody has.
Free == (Recorded \X (1..BLOCK_SIZE)) \ Out

\* S holds the head of the list, and with a chunk the one its link names.
Closed(S) ==
  /\ free_list_ \in S \cup {NULL}
  /\ \A c \in S : next[c] \in S \cup {NULL}

\* The state keeps its types.  Whatever the order of nested calls, the list
\* holds exactly the free chunks, that is, they are the least set closed under
\* its links, and it ends: there is no cycle among them (fixedsizepool.cpp:48-49,
\* :74-75 and :104-111, the link being overwritten in between).
FreeListExact ==
  /\ TypeOK
  /\ Closed(Free)
  /\ \A S \in SUBSET Free : Closed(S) => S = Free
  /\ \A S \in (SUBSET Free) \ {{}} : \E c \in S : next[c] \notin S

\* allocated_count() counts the chunks that are out, those under
\* construction or destruction and those a throwing constructor lost
\* included (fixedsizepool.cpp:50, :76).
CountExact == allocated_count_ = Cardinality(Out)

\* The pool takes no more blocks than the largest demand it ever met calls
\* for: what was freed is used again first (fixedsizepool.cpp:42).  A block
\* that push_back fails to note is in no list and is not counted (:102).
Footprint == BLOCK_SIZE * Len(blocks_) < peak + BLOCK_SIZE

\* Every chunk handed out was free, and is given back once: construct and
\* destroy nested in any way implement the abstract allocator.
Allocator == INSTANCE ChunkAllocator WITH
               holders <- [c \in Chunks |-> Holders(c)]

ImplementsAllocator == Allocator!Spec
=============================================================================
