------------------------- MODULE MemoryPool_proofs -------------------------
(* What holds of MemoryPool for blocks of any size and any number of blocks   *)
(* and calls.                                                                 *)
EXTENDS MemoryPool, FiniteSetTheorems, WellFoundedInduction, TLAPS

Distinct == \A i, j \in DOMAIN calls : calls[i][2] = calls[j][2] => i = j

\* A chunk that is out has one owner and lies in a recorded block.
Owned ==
  /\ Out \subseteq Recorded \X (1..BLOCK_SIZE)
  /\ objects \cap bytes = {} /\ objects \cap lost = {} /\ bytes \cap lost = {}
  /\ Pending \cap (objects \cup bytes \cup lost) = {}
  /\ Distinct

\* The list, as FreeListExact has it; and no two links, the head among them,
\* name the same chunk.
Listed ==
  /\ Closed(Free)
  /\ \A S \in SUBSET Free : Closed(S) => S = Free
  /\ \A S \in (SUBSET Free) \ {{}} : \E c \in S : next[c] \notin S
  /\ \A d \in Free : next[d] # free_list_ \/ next[d] = NULL
  /\ \A d, e \in Free : next[d] = next[e] /\ next[d] # NULL => d = e

\* Every chunk of a recorded block is out or free.
Counted ==
  /\ IsFiniteSet(Out) /\ IsFiniteSet(Free)
  /\ allocated_count_ = Cardinality(Out)
  /\ BLOCK_SIZE * Len(blocks_) = Cardinality(Out) + Cardinality(Free)
  /\ allocated_count_ <= peak

IInv == TypeOK /\ Owned /\ Listed /\ Counted /\ Footprint

USE ChunkAssumption

-----------------------------------------------------------------------------
\* Induction is by a least counterexample.
LEMMA LeastElement ==
  ASSUME NEW T \in SUBSET Nat, T # {} PROVE \E x \in T : \A y \in T : x <= y
<1>1. PICK x \in T : \A y \in T : ~ (<<y, x>> \in OpToRel(<, Nat))
  BY WFMin, NatLessThanWellFounded
<1>2. \A y \in T : ~ (y < x)
  BY <1>1 DEF OpToRel
<1> QED
  BY <1>2

\* What blocks_ holds came from aligned_alloc (fixedsizepool.cpp:95-102), and no
\* chunk is null.
LEMMA Addresses ==
  ASSUME TypeOK
  PROVE  Recorded \subseteq Blocks /\ Free \subseteq Chunks /\ NULL \notin Chunks
<1>1. Recorded \subseteq Blocks
  BY DEF TypeOK, Recorded
<1> QED
  BY <1>1 DEF Free, Chunks

\* A call that begins T's constructor or destructor (fixedsizepool.cpp:36, :60).
LEMMA CallsGrow ==
  ASSUME TypeOK, Distinct, NEW c \in Chunks \ Pending, NEW kind,
         calls' = Append(calls, <<kind, c>>)
  PROVE  Pending' = Pending \cup {c} /\ Distinct'
<1>1. /\ DOMAIN calls = 1..Len(calls) /\ Len(calls) \in Nat
      /\ DOMAIN calls' = 1..(Len(calls) + 1)
      /\ \A i \in DOMAIN calls : calls'[i] = calls[i]
      /\ calls'[Len(calls) + 1] = <<kind, c>>
  BY DEF TypeOK
<1>2. Pending' = Pending \cup {c}
  BY <1>1 DEF Pending
<1>3. \A i \in DOMAIN calls : calls[i][2] # c
  BY DEF Pending
<1>4. Distinct'
  BY <1>1, <1>3 DEF Distinct
<1> QED
  BY <1>2, <1>4

\* A call whose constructor or destructor is over (fixedsizepool.cpp:37, :60).
LEMMA CallsShrink ==
  ASSUME TypeOK, Distinct, NEW c \in Chunks, NEW kind, Top(kind, c), Return
  PROVE  c \in Pending /\ Pending' = Pending \ {c} /\ Distinct'
<1>1. /\ DOMAIN calls = 1..Len(calls) /\ Len(calls) \in Nat \ {0}
      /\ calls[Len(calls)] = <<kind, c>>
      /\ DOMAIN calls' = 1..(Len(calls) - 1)
      /\ \A i \in DOMAIN calls' : calls'[i] = calls[i]
  BY DEF TypeOK, Top, Return
<1>2. Distinct'
  BY <1>1 DEF Distinct
<1>3. c \in Pending
  BY <1>1 DEF Pending
<1>4. \A i \in DOMAIN calls : calls[i][2] = c <=> i = Len(calls)
  BY <1>1 DEF Distinct
<1>5. ASSUME NEW i \in DOMAIN calls' PROVE i \in DOMAIN calls /\ calls[i][2] # c
  BY <1>1, <1>4
<1>6. ASSUME NEW i \in DOMAIN calls, calls[i][2] # c PROVE i \in DOMAIN calls'
  BY <1>1, <1>6
<1>7. Pending' = Pending \ {c}
  BY <1>1, <1>5, <1>6 DEF Pending
<1> QED
  BY <1>2, <1>3, <1>7

\* The chunk allocate returns is the head of the list or of a block that was
\* not there, and the second only when nothing is free (fixedsizepool.cpp:41-54).
LEMMA AllocateGives ==
  ASSUME TypeOK, Owned, Listed, NEW c \in Chunks, allocate(c)
  PROVE  \/ /\ c \in Free /\ free_list_ = c
            /\ Pop(c, next) /\ blocks_' = blocks_ /\ Recorded' = Recorded
         \/ /\ Free = {} /\ free_list_ = NULL
            /\ \E b \in Blocks \ Recorded :
                 /\ c = <<b, BLOCK_SIZE>> /\ Pop(c, Carve(b))
                 /\ blocks_' = Append(blocks_, b) /\ Recorded' = Recorded \cup {b}
<1>1. CASE free_list_ = c /\ Pop(c, next) /\ UNCHANGED blocks_
  <2>1. c # NULL
    BY DEF Chunks
  <2> QED
    BY <1>1, <2>1 DEF Listed, Closed, Recorded
<1>2. ASSUME free_list_ = NULL, NEW b \in Blocks \ (Recorded \cup wasted),
             c = <<b, BLOCK_SIZE>>, blocks_' = Append(blocks_, b), Pop(c, Carve(b))
      PROVE  /\ Free = {}
             /\ Recorded' = Recorded \cup {b}
  <2>1. Closed({})
    BY <1>2 DEF Closed
  <2>2. Free = {}
    BY <2>1 DEF Listed
  <2>3. Recorded' = Recorded \cup {b}
    <3>1. /\ DOMAIN blocks_' = DOMAIN blocks_ \cup {Len(blocks_) + 1}
          /\ \A i \in DOMAIN blocks_ : blocks_'[i] = blocks_[i]
          /\ blocks_'[Len(blocks_) + 1] = b
      BY <1>2 DEF TypeOK
    <3> QED
      BY <3>1 DEF Recorded
  <2> QED
    BY <2>2, <2>3
<1> QED
  BY <1>1, <1>2 DEF allocate

-----------------------------------------------------------------------------
\* A chunk that comes off an existing list: the rest is a list
\* (fixedsizepool.cpp:48-50).
LEMMA PopKeeps ==
  ASSUME TypeOK, Owned, Listed, NEW c \in Free, free_list_ = c, Pop(c, next),
         Recorded' = Recorded, Out' = Out \cup {c}
  PROVE  Listed' /\ Free' = Free \ {c}
<1>1. Free' = Free \ {c} /\ Free \subseteq Chunks /\ c # NULL
  <2>1. Free' = Free \ {c}
    BY DEF Free
  <2> QED
    BY <2>1, Addresses
<1>2. /\ free_list_' = next[c] /\ next[c] \in (Free \ {c}) \cup {NULL}
      /\ \A d \in Free \ {c} : next'[d] = next[d] /\ next[d] \in (Free \ {c}) \cup {NULL}
  BY <1>1 DEF Pop, Listed, Closed, TypeOK
<1>3. Closed(Free)'
  BY <1>1, <1>2 DEF Closed
<1>4. ASSUME NEW S \in SUBSET (Free \ {c}), free_list_' \in S \cup {NULL},
             \A d \in S : next'[d] \in S \cup {NULL}
      PROVE  S = Free \ {c}
  <2>1. Closed(S \cup {c})
    BY <1>2, <1>4 DEF Closed
  <2>2. S \cup {c} = Free
    BY <2>1 DEF Listed
  <2> QED
    BY <2>2
<1>5. \A S \in (SUBSET (Free \ {c})) \ {{}} : \E d \in S : next'[d] \notin S
  BY <1>2 DEF Listed
<1>6. /\ \A d \in Free \ {c} : next'[d] # free_list_' \/ next'[d] = NULL
      /\ \A d, e \in Free \ {c} : next'[d] = next'[e] /\ next'[d] # NULL => d = e
  BY <1>1, <1>2 DEF Listed
<1> QED
  BY <1>1, <1>3, <1>4, <1>5, <1>6 DEF Listed, Closed

\* The first chunk of a new block: the others are a list, the last on top
\* (fixedsizepool.cpp:104-111).
LEMMA CarveKeeps ==
  ASSUME TypeOK, Owned, Free = {}, free_list_ = NULL, NEW b \in Blocks \ Recorded,
         Pop(<<b, BLOCK_SIZE>>, Carve(b)), Recorded' = Recorded \cup {b},
         Out' = Out \cup {<<b, BLOCK_SIZE>>}
  PROVE  Listed' /\ Free' = {b} \X (1..(BLOCK_SIZE - 1))
<1> DEFINE N == BLOCK_SIZE - 1
<1> DEFINE F == {b} \X (1..N)
<1>0. N \in Nat /\ BLOCK_SIZE = N + 1
  OBVIOUS
<1>1. Free' = F
  <2>1. ASSUME NEW k \in 1..BLOCK_SIZE PROVE <<b, k>> \notin Out
    BY DEF Owned
  <2>2. \A c \in Recorded \X (1..BLOCK_SIZE) : c \in Out
    BY DEF Free
  <2>3. ASSUME NEW c \in (Recorded \cup {b}) \X (1..BLOCK_SIZE),
               c \notin Out, c # <<b, BLOCK_SIZE>>
        PROVE  c \in F
    BY <2>2, <2>3, <1>0
  <2>4. ASSUME NEW c \in F
        PROVE  c \in (Recorded \cup {b}) \X (1..BLOCK_SIZE) /\ c \notin Out /\ c # <<b, BLOCK_SIZE>>
    BY <2>1, <1>0
  <2> HIDE DEF F
  <2> QED
    BY <2>3, <2>4 DEF Free
<1>2. \A k \in 1..N :
        /\ <<b, k>> \in F /\ <<b, k>> # NULL
        /\ next'[<<b, k>>] = IF k = 1 THEN NULL ELSE <<b, k - 1>>
  BY <1>0 DEF Pop, Carve, Chunks
<1>3. free_list_' = IF N = 0 THEN NULL ELSE <<b, N>>
  BY <1>0 DEF Pop, Carve, Chunks
<1>4. \A c \in F : c = <<b, c[2]>> /\ c[2] \in 1..N
  OBVIOUS
<1> HIDE DEF F, N
<1>5. Closed(Free)'
  <2>1. ASSUME NEW c \in F PROVE next'[c] \in F \cup {NULL}
    <3>1. c = <<b, c[2]>> /\ c[2] \in 1..N
      BY <1>4
    <3>2. CASE c[2] = 1
      <4>1. next'[<<b, c[2]>>] = NULL
        BY <1>2, <3>1, <3>2
      <4> QED
        BY <3>1, <4>1
    <3>3. CASE c[2] # 1
      <4>1. c[2] - 1 \in 1..N
        BY <1>0, <3>1, <3>3
      <4>2. next'[<<b, c[2]>>] = <<b, c[2] - 1>>
        BY <1>2, <3>1, <3>3
      <4>3. <<b, c[2] - 1>> \in F
        BY <1>2, <4>1
      <4> QED
        BY <3>1, <4>2, <4>3
    <3> QED
      BY <3>2, <3>3
  <2>2. free_list_' \in F \cup {NULL}
    <3>1. CASE N = 0
      BY <1>3, <3>1
    <3>2. CASE N # 0
      <4>1. N \in 1..N
        BY <1>0, <3>2
      <4>2. <<b, N>> \in F
        BY <1>2, <4>1
      <4> QED
        BY <1>3, <3>2, <4>2
    <3> QED
      BY <3>1, <3>2
  <2> QED
    BY <1>1, <2>1, <2>2 DEF Closed
<1>6. ASSUME NEW S \in SUBSET F, free_list_' \in S \cup {NULL},
             \A c \in S : next'[c] \in S \cup {NULL}
      PROVE  S = F
  <2> SUFFICES ASSUME F \ S # {} PROVE FALSE
    OBVIOUS
  <2> DEFINE T == {N - c[2] : c \in F \ S}
  <2>1. T \in SUBSET Nat /\ T # {}
    BY <1>0, <1>4
  <2>2. PICK m \in T : \A n \in T : m <= n
    BY <2>1, LeastElement
  <2>3. PICK c \in F \ S : m = N - c[2]
    OBVIOUS
  <2>4. c[2] \in 1..N /\ c = <<b, c[2]>> /\ m \in Nat
    BY <1>4, <2>1
  <2>5. c[2] # N
    BY <1>0, <1>2, <1>3, <1>6, <2>3, <2>4
  <2>6. c[2] + 1 \in 1..N
    BY <1>0, <2>4, <2>5
  <2>7. <<b, c[2] + 1>> \in S
    <3>1. <<b, c[2] + 1>> \in F
      BY <1>2, <2>6
    <3>2. CASE <<b, c[2] + 1>> \notin S
      <4>1. N - <<b, c[2] + 1>>[2] \in T
        BY <3>1, <3>2
      <4>2. N - (c[2] + 1) \in T
        BY <4>1
      <4>3. m <= N - (c[2] + 1)
        BY <4>2, <2>2
      <4> QED
        BY <4>3, <2>3, <2>4, <1>0
    <3> QED
      BY <3>2
  <2>8. next'[<<b, c[2] + 1>>] = c
    <3>1. c[2] + 1 # 1 /\ (c[2] + 1) - 1 = c[2]
      BY <1>0, <2>4
    <3>2. next'[<<b, c[2] + 1>>] = <<b, (c[2] + 1) - 1>>
      BY <1>2, <2>6, <3>1
    <3> QED
      BY <2>4, <3>1, <3>2
  <2> QED
    BY <1>6, <2>7, <2>8, <2>3, <1>2, <2>4
<1>7. ASSUME NEW S \in (SUBSET F) \ {{}} PROVE \E c \in S : next'[c] \notin S
  <2> DEFINE T == {c[2] : c \in S}
  <2>1. T \in SUBSET Nat /\ T # {}
    BY <1>0, <1>4
  <2>2. PICK m \in T : \A n \in T : m <= n
    BY <2>1, LeastElement
  <2>3. PICK c \in S : m = c[2]
    OBVIOUS
  <2>4. c[2] \in 1..N /\ c = <<b, c[2]>>
    BY <1>4
  <2>5. CASE c[2] = 1
    <3>1. next'[c] = NULL /\ NULL \notin S
      BY <1>2, <1>4, <2>4, <2>5
    <3> QED
      BY <3>1
  <2>6. CASE c[2] # 1
    <3>1. next'[c] = <<b, c[2] - 1>>
      BY <1>2, <2>4, <2>6
    <3>2. ASSUME <<b, c[2] - 1>> \in S PROVE FALSE
      <4>1. <<b, c[2] - 1>>[2] \in T
        BY <3>2
      <4>2. c[2] - 1 \in T
        BY <4>1
      <4> QED
        BY <4>2, <2>2, <2>3, <2>4, <1>0
    <3> QED
      BY <3>1, <3>2
  <2> QED
    BY <2>5, <2>6
<1>8. /\ \A d \in F : next'[d] # free_list_' \/ next'[d] = NULL
      /\ \A d, e \in F : next'[d] = next'[e] /\ next'[d] # NULL => d = e
  <2> DEFINE At(k) == IF k = 1 THEN NULL ELSE <<b, k - 1>>
  <2>1. \A d \in F : d = <<b, d[2]>> /\ d[2] \in 1..N /\ next'[d] = At(d[2])
    BY <1>2, <1>4
  <2>2. ASSUME NEW k \in 1..N PROVE At(k) # <<b, N>> \/ At(k) = NULL
    <3>1. k - 1 # N
      BY <1>0
    <3>2. CASE k = 1
      BY <3>2
    <3>3. CASE k # 1
      <4>1. At(k) = <<b, k - 1>>
        BY <3>3
      <4> QED
        BY <3>1, <4>1
    <3> QED
      BY <3>2, <3>3
  <2>3. ASSUME NEW j \in 1..N, NEW k \in 1..N, At(j) = At(k), At(j) # NULL PROVE j = k
    <3>1. j # 1 /\ k # 1
      BY <2>3
    <3>2. <<b, j - 1>> = <<b, k - 1>>
      BY <2>3, <3>1
    <3>3. j - 1 = k - 1
      BY <3>2
    <3> QED
      BY <1>0, <3>3
  <2> HIDE DEF At
  <2>4. ASSUME NEW d \in F PROVE next'[d] # free_list_' \/ next'[d] = NULL
    <3>1. next'[d] # <<b, N>> \/ next'[d] = NULL
      BY <2>1, <2>2
    <3> QED
      BY <1>3, <3>1
  <2>5. ASSUME NEW d \in F, NEW e \in F, next'[d] = next'[e], next'[d] # NULL PROVE d = e
    <3>1. d[2] = e[2]
      BY <2>1, <2>3, <2>5
    <3> QED
      BY <2>1, <3>1
  <2> QED
    BY <2>4, <2>5
<1> QED
  BY <1>1, <1>5, <1>6, <1>7, <1>8 DEF Listed, Closed, F, N

\* A chunk that is put in front of the list (fixedsizepool.cpp:74-75).
LEMMA PushKeeps ==
  ASSUME TypeOK, Owned, Listed, NEW c \in Out, push(c),
         Recorded' = Recorded, Out' = Out \ {c}
  PROVE  Listed' /\ Free' = Free \cup {c}
<1>1. /\ Free' = Free \cup {c} /\ Free \subseteq Chunks /\ c \in Chunks
      /\ c \notin Free /\ c # NULL
  <2>1. Free' = Free \cup {c} /\ c \notin Free
    BY DEF Free, Owned
  <2>2. c \in Chunks
    BY Addresses DEF Owned, Chunks
  <2> QED
    BY <2>1, <2>2, Addresses
<1>2. /\ free_list_' = c /\ next'[c] = free_list_
      /\ free_list_ \in Free \cup {NULL}
      /\ \A d \in Free : next'[d] = next[d] /\ next[d] \in Free \cup {NULL}
  BY <1>1 DEF push, Listed, Closed, TypeOK
<1>3. Closed(Free)'
  BY <1>1, <1>2 DEF Closed
<1>4. ASSUME NEW S \in SUBSET (Free \cup {c}), free_list_' \in S \cup {NULL},
             \A d \in S : next'[d] \in S \cup {NULL}
      PROVE  S = Free \cup {c}
  <2>1. c \in S
    BY <1>1, <1>2, <1>4
  <2>2. S \ {c} \in SUBSET Free
    OBVIOUS
  <2>3. Closed(S \ {c})
    BY <1>1, <1>2, <1>4, <2>1 DEF Closed
  <2>4. S \ {c} = Free
    BY <2>2, <2>3 DEF Listed
  <2> QED
    BY <2>1, <2>4
<1>5. ASSUME NEW S \in (SUBSET (Free \cup {c})) \ {{}} PROVE \E d \in S : next'[d] \notin S
  <2>1. CASE S = {c}
    BY <1>1, <1>2, <2>1
  <2>2. CASE S # {c}
    <3>1. S \ {c} \in (SUBSET Free) \ {{}}
      BY <2>2
    <3>2. PICK d \in S \ {c} : next[d] \notin S \ {c}
      BY <3>1 DEF Listed
    <3> QED
      BY <1>1, <1>2, <3>2
  <2> QED
    BY <2>1, <2>2
<1>6. /\ \A d \in Free \cup {c} : next'[d] # free_list_' \/ next'[d] = NULL
      /\ \A d, e \in Free \cup {c} : next'[d] = next'[e] /\ next'[d] # NULL => d = e
  BY <1>1, <1>2 DEF Listed
<1> QED
  BY <1>1, <1>3, <1>4, <1>5, <1>6 DEF Listed, Closed

-----------------------------------------------------------------------------
\* What a step of the client or of T does to the chunks that are out, and that
\* each keeps one owner (fixedsizepool.cpp:33-77).
LEMMA StepOwned ==
  ASSUME TypeOK, Owned, Listed, Use
  PROVE  /\ Owned'
         /\ \/ \E c \in Chunks \ Out : allocate(c) /\ Out' = Out \cup {c}
            \/ \E c \in Out : /\ push(c) /\ Out' = Out \ {c}
                              /\ UNCHANGED <<blocks_, peak>>
            \/ /\ Out' = Out
               /\ UNCHANGED <<free_list_, next, blocks_, allocated_count_, peak>>
<1>1. ASSUME NEW c \in Chunks, allocate(c)
      PROVE  c \notin Out /\ Recorded \subseteq Recorded' /\ c \in Recorded' \X (1..BLOCK_SIZE)
  <2>1. CASE c \in Free /\ Recorded' = Recorded
    BY <2>1 DEF Free
  <2>2. ASSUME NEW b \in Blocks \ Recorded, c = <<b, BLOCK_SIZE>>, Recorded' = Recorded \cup {b}
        PROVE  c \notin Out /\ Recorded \subseteq Recorded' /\ c \in Recorded' \X (1..BLOCK_SIZE)
    <3>1. BLOCK_SIZE \in 1..BLOCK_SIZE
      OBVIOUS
    <3>2. c \notin Out
      BY <2>2 DEF Owned
    <3> QED
      BY <2>2, <3>1, <3>2
  <2> QED
    BY <1>1, <2>1, <2>2, AllocateGives
<1>2. ASSUME NEW c \in Chunks, Construct(c)
      PROVE  Owned' /\ c \in Chunks \ Out /\ allocate(c) /\ Out' = Out \cup {c}
  <2>1. allocate(c) /\ UNCHANGED <<objects, bytes, lost>>
    BY <1>2 DEF Construct
  <2>2. c \notin Out /\ Recorded \subseteq Recorded' /\ c \in Recorded' \X (1..BLOCK_SIZE)
    BY <1>1, <2>1
  <2>3. Pending' = Pending \cup {c} /\ Distinct'
    BY <1>2, <2>2, CallsGrow DEF Construct, Out, Owned
  <2> QED
    BY <2>1, <2>2, <2>3 DEF Owned, Out
<1>3. ASSUME NEW c \in Chunks, Allocate(c)
      PROVE  Owned' /\ c \in Chunks \ Out /\ allocate(c) /\ Out' = Out \cup {c}
  <2>1. allocate(c) /\ bytes' = bytes \cup {c} /\ UNCHANGED <<calls, objects, lost>>
    BY <1>3 DEF Allocate
  <2>2. c \notin Out /\ Recorded \subseteq Recorded' /\ c \in Recorded' \X (1..BLOCK_SIZE)
    BY <1>1, <2>1
  <2>3. Pending' = Pending /\ Distinct'
    BY <2>1 DEF Pending, Distinct, Owned
  <2> QED
    BY <2>1, <2>2, <2>3 DEF Owned, Out
<1>4. ASSUME NEW c \in Chunks, Destroyed(c)
      PROVE  Owned' /\ c \in Out /\ push(c) /\ Out' = Out \ {c} /\ UNCHANGED <<blocks_, peak>>
  <2>1. push(c) /\ UNCHANGED <<blocks_, objects, bytes, lost, peak>>
    BY <1>4 DEF Destroyed
  <2>2. c \in Pending /\ Pending' = Pending \ {c} /\ Distinct'
    BY <1>4, CallsShrink DEF Destroyed, Owned
  <2>3. Recorded' = Recorded
    BY <2>1 DEF Recorded
  <2> QED
    BY <2>1, <2>2, <2>3 DEF Owned, Out
<1>5. ASSUME NEW c \in Chunks, Deallocate(c)
      PROVE  Owned' /\ c \in Out /\ push(c) /\ Out' = Out \ {c} /\ UNCHANGED <<blocks_, peak>>
  <2>1. /\ c \in bytes /\ push(c) /\ bytes' = bytes \ {c}
        /\ UNCHANGED <<blocks_, calls, objects, lost, peak>>
    BY <1>5 DEF Deallocate
  <2>2. Pending' = Pending /\ Distinct'
    BY <2>1 DEF Pending, Distinct, Owned
  <2>3. Recorded' = Recorded
    BY <2>1 DEF Recorded
  <2> QED
    BY <2>1, <2>2, <2>3 DEF Owned, Out
<1>6. ASSUME NEW c \in Chunks, Constructed(c) \/ ConstructThrows(c) \/ Destroy(c)
      PROVE  /\ Owned' /\ Out' = Out
             /\ UNCHANGED <<free_list_, next, blocks_, allocated_count_, peak>>
  <2>1. UNCHANGED <<free_list_, next, blocks_, allocated_count_, peak, bytes>> /\ Recorded' = Recorded
    BY <1>6 DEF Constructed, ConstructThrows, Destroy, Recorded
  <2>2. CASE Constructed(c) \/ ConstructThrows(c)
    <3>1. c \in Pending /\ Pending' = Pending \ {c} /\ Distinct'
      BY <2>2, CallsShrink DEF Constructed, ConstructThrows, Owned
    <3> QED
      BY <2>1, <2>2, <3>1 DEF Constructed, ConstructThrows, Owned, Out
  <2>3. CASE Destroy(c)
    <3>1. c \in objects /\ objects' = objects \ {c} /\ lost' = lost
      BY <2>3 DEF Destroy
    <3>2. Pending' = Pending \cup {c} /\ Distinct'
      BY <2>3, <3>1, CallsGrow DEF Destroy, Owned
    <3> QED
      BY <2>1, <3>1, <3>2 DEF Owned, Out
  <2> QED
    BY <1>6, <2>2, <2>3
<1>7. ASSUME NEW b \in Blocks, BlockUnrecorded(b)
      PROVE  /\ Owned' /\ Out' = Out
             /\ UNCHANGED <<free_list_, next, blocks_, allocated_count_, peak>>
  BY <1>7 DEF BlockUnrecorded, Owned, Out, Pending, Distinct, Recorded
<1> QED
  BY <1>2, <1>3, <1>4, <1>5, <1>6, <1>7 DEF Use

\* The chunks of one block (fixedsizepool.cpp:104).
LEMMA Row ==
  ASSUME NEW b, NEW n \in Nat
  PROVE  IsFiniteSet({b} \X (1..n)) /\ Cardinality({b} \X (1..n)) = n
<1>1. IsFiniteSet({b}) /\ Cardinality({b}) = 1
  BY FS_Singleton
<1>2. IsFiniteSet(1..n) /\ Cardinality(1..n) = n
  BY FS_Interval
<1> QED
  BY <1>1, <1>2, FS_Product

\* What a step does to the list and to the counters (fixedsizepool.cpp:41-77).
LEMMA StepPool ==
  ASSUME IInv, Use
  PROVE  /\ Listed' /\ Counted' /\ Footprint'
         /\ free_list_' \in Chunks \cup {NULL}
         /\ next' \in [Chunks -> Chunks \cup {NULL, Junk}]
         /\ blocks_' \in Seq(Blocks)
         /\ allocated_count_' \in Nat /\ peak' \in Nat
<1> DEFINE Goal == /\ Listed' /\ Counted' /\ Footprint'
                   /\ free_list_' \in Chunks \cup {NULL}
                   /\ next' \in [Chunks -> Chunks \cup {NULL, Junk}]
                   /\ blocks_' \in Seq(Blocks)
                   /\ allocated_count_' \in Nat /\ peak' \in Nat
<1>1. TypeOK /\ Owned /\ Listed /\ Counted /\ Footprint
  BY DEF IInv
<1>2. /\ Cardinality(Out) \in Nat /\ Cardinality(Free) \in Nat /\ Len(blocks_) \in Nat
      /\ BLOCK_SIZE \in Nat
      /\ allocated_count_ \in Nat /\ peak \in Nat
  BY <1>1, FS_CardinalityType DEF Counted, TypeOK
<1>3. ASSUME Listed', Free' \subseteq Chunks PROVE free_list_' \in Chunks \cup {NULL}
  BY <1>3 DEF Listed, Closed
<1>4. ASSUME NEW c \in Chunks \ Out, Out' = Out \cup {c}
      PROVE  IsFiniteSet(Out') /\ Cardinality(Out') = Cardinality(Out) + 1
  BY <1>1, <1>4, FS_AddElement DEF Counted
<1>5. ASSUME NEW c \in Chunks \ Out, Out' = Out \cup {c}, c \in Free, free_list_ = c,
             Pop(c, next), blocks_' = blocks_, Recorded' = Recorded
      PROVE  Goal
  <2>1. Listed' /\ Free' = Free \ {c}
    BY <1>1, <1>5, PopKeeps
  <2>2. IsFiniteSet(Free') /\ Cardinality(Free') = Cardinality(Free) - 1
    BY <1>1, <1>5, <2>1, FS_RemoveElement DEF Counted
  <2>3. IsFiniteSet(Out') /\ Cardinality(Out') = Cardinality(Out) + 1
    BY <1>4, <1>5
  <2>4. /\ allocated_count_' = allocated_count_ + 1
        /\ peak' \in Nat /\ peak' >= peak /\ peak' >= allocated_count_ + 1
    BY <1>2, <1>5 DEF Pop
  <2>5. Counted'
    <3>1. BLOCK_SIZE * Len(blocks_') = BLOCK_SIZE * Len(blocks_)
      BY <1>5
    <3>2. BLOCK_SIZE * Len(blocks_) = Cardinality(Out) + Cardinality(Free)
      BY <1>1 DEF Counted
    <3>3. BLOCK_SIZE * Len(blocks_') = Cardinality(Out') + Cardinality(Free')
      BY <1>2, <2>2, <2>3, <3>1, <3>2
    <3>4. allocated_count_' = Cardinality(Out') /\ allocated_count_' <= peak'
      BY <1>1, <1>2, <2>3, <2>4 DEF Counted
    <3> QED
      BY <2>2, <2>3, <3>3, <3>4 DEF Counted
  <2>6. Footprint'
    BY <1>1, <1>2, <1>5, <2>4 DEF Footprint
  <2>7. next' \in [Chunks -> Chunks \cup {NULL, Junk}]
    BY <1>1, <1>5 DEF Pop, TypeOK
  <2>8. free_list_' \in Chunks \cup {NULL}
    BY <1>1, <1>3, <2>1, Addresses
  <2> QED
    BY <1>1, <1>2, <1>5, <2>1, <2>4, <2>5, <2>6, <2>7, <2>8 DEF TypeOK
<1>6. ASSUME NEW c \in Chunks \ Out, Out' = Out \cup {c}, Free = {}, free_list_ = NULL,
             NEW b \in Blocks \ Recorded, c = <<b, BLOCK_SIZE>>, Pop(c, Carve(b)),
             blocks_' = Append(blocks_, b), Recorded' = Recorded \cup {b}
      PROVE  Goal
  <2>1. Listed' /\ Free' = {b} \X (1..(BLOCK_SIZE - 1))
    BY <1>1, <1>6, CarveKeeps
  <2>2. IsFiniteSet(Free') /\ Cardinality(Free') = BLOCK_SIZE - 1
    <3>1. BLOCK_SIZE - 1 \in Nat
      OBVIOUS
    <3> QED
      BY <2>1, <3>1, Row
  <2>3. IsFiniteSet(Out') /\ Cardinality(Out') = Cardinality(Out) + 1
    BY <1>4, <1>6
  <2>4. /\ allocated_count_' = allocated_count_ + 1
        /\ peak' \in Nat /\ peak' >= peak /\ peak' >= allocated_count_ + 1
    BY <1>2, <1>6 DEF Pop
  <2>5. /\ blocks_' \in Seq(Blocks) /\ Len(blocks_') = Len(blocks_) + 1
    BY <1>1, <1>6 DEF TypeOK
  <2>6. BLOCK_SIZE * Len(blocks_') = BLOCK_SIZE * Len(blocks_) + BLOCK_SIZE
    BY <1>2, <2>5
  <2>7. BLOCK_SIZE * Len(blocks_) = Cardinality(Out)
    BY <1>1, <1>2, <1>6, FS_EmptySet DEF Counted
  <2>8. Counted'
    BY <1>1, <1>2, <2>2, <2>3, <2>4, <2>6, <2>7 DEF Counted
  <2>9. Footprint'
    BY <1>1, <1>2, <2>4, <2>6, <2>7 DEF Footprint, Counted
  <2>10. next' \in [Chunks -> Chunks \cup {NULL, Junk}]
    <3>1. Carve(b) \in [Chunks -> Chunks \cup {NULL, Junk}]
      <4>1. ASSUME NEW d \in Chunks, d[1] = b, d[2] # 1 PROVE <<b, d[2] - 1>> \in Chunks
        BY <4>1 DEF Chunks
      <4> QED
        BY <1>1, <1>6, <4>1 DEF Carve, TypeOK
    <3> QED
      BY <1>6, <3>1 DEF Pop
  <2>11. free_list_' \in Chunks \cup {NULL}
    <3>1. Free' \subseteq Chunks
      BY <2>1 DEF Chunks
    <3> QED
      BY <1>3, <2>1, <3>1
  <2> QED
    BY <1>2, <2>1, <2>4, <2>5, <2>8, <2>9, <2>10, <2>11
<1>7. ASSUME NEW c \in Out, push(c), Out' = Out \ {c}, UNCHANGED <<blocks_, peak>>
      PROVE  Goal
  <2>1. Recorded' = Recorded /\ c \in Chunks
    BY <1>1, <1>7, Addresses DEF Recorded, Owned, Chunks
  <2>2. Listed' /\ Free' = Free \cup {c}
    BY <1>1, <1>7, <2>1, PushKeeps
  <2>3. c \notin Free
    BY DEF Free
  <2>4. IsFiniteSet(Free') /\ Cardinality(Free') = Cardinality(Free) + 1
    BY <1>1, <2>2, <2>3, FS_AddElement DEF Counted
  <2>5. /\ IsFiniteSet(Out') /\ Cardinality(Out') = Cardinality(Out) - 1
        /\ Cardinality(Out') \in Nat
    BY <1>1, <1>7, FS_RemoveElement, FS_CardinalityType DEF Counted
  <2>6. allocated_count_' = allocated_count_ - 1 /\ allocated_count_' \in Nat
    BY <1>1, <1>2, <1>7, <2>5 DEF push, Counted
  <2>7. Counted'
    <3>1. BLOCK_SIZE * Len(blocks_') = BLOCK_SIZE * Len(blocks_)
      BY <1>7
    <3>2. BLOCK_SIZE * Len(blocks_) = Cardinality(Out) + Cardinality(Free)
      BY <1>1 DEF Counted
    <3>3. BLOCK_SIZE * Len(blocks_') = Cardinality(Out') + Cardinality(Free')
      BY <1>2, <2>4, <2>5, <3>1, <3>2
    <3>4. allocated_count_' = Cardinality(Out') /\ allocated_count_' <= peak'
      BY <1>1, <1>2, <1>7, <2>5, <2>6 DEF Counted
    <3> QED
      BY <2>4, <2>5, <3>3, <3>4 DEF Counted
  <2>8. Footprint'
    BY <1>1, <1>7 DEF Footprint
  <2>9. /\ next' \in [Chunks -> Chunks \cup {NULL, Junk}]
        /\ free_list_' \in Chunks \cup {NULL}
    BY <1>1, <1>7, <2>1 DEF push, TypeOK
  <2> QED
    BY <1>1, <1>2, <1>7, <2>2, <2>6, <2>7, <2>8, <2>9 DEF TypeOK
<1>8. ASSUME Out' = Out, UNCHANGED <<free_list_, next, blocks_, allocated_count_, peak>>
      PROVE  Goal
  <2>1. Free' = Free
    BY <1>8 DEF Free, Recorded
  <2> QED
    BY <1>1, <1>2, <1>8, <2>1 DEF Listed, Closed, Counted, Footprint, TypeOK
<1> HIDE DEF Goal
<1>9. ASSUME NEW c \in Chunks \ Out, allocate(c), Out' = Out \cup {c} PROVE Goal
  BY <1>1, <1>5, <1>6, <1>9, AllocateGives
<1>10. Goal
  BY <1>1, <1>7, <1>8, <1>9, StepOwned
<1> QED
  BY <1>10 DEF Goal

-----------------------------------------------------------------------------
\* What a step does to the client's side of the state (fixedsizepool.cpp:33-77).
LEMMA StepClient ==
  ASSUME TypeOK, Use
  PROVE  /\ calls' \in Seq({"ctor", "dtor"} \X Chunks)
         /\ objects' \subseteq Chunks /\ bytes' \subseteq Chunks
         /\ lost' \subseteq Chunks /\ wasted' \subseteq Blocks
<1> DEFINE Goal == /\ calls' \in Seq({"ctor", "dtor"} \X Chunks)
                   /\ objects' \subseteq Chunks /\ bytes' \subseteq Chunks
                   /\ lost' \subseteq Chunks /\ wasted' \subseteq Blocks
<1>1. ASSUME NEW c \in Chunks, Construct(c) PROVE Goal
  BY <1>1 DEF Construct, TypeOK
<1>2. ASSUME NEW c \in Chunks, Allocate(c) \/ Deallocate(c) PROVE Goal
  BY <1>2 DEF Allocate, Deallocate, TypeOK
<1>3. ASSUME NEW c \in Chunks, Destroy(c) PROVE Goal
  BY <1>3 DEF Destroy, TypeOK
<1>4. ASSUME calls # <<>>, Return PROVE calls' \in Seq({"ctor", "dtor"} \X Chunks)
  BY <1>4 DEF Return, TypeOK
<1>5. ASSUME NEW c \in Chunks, Constructed(c) \/ ConstructThrows(c) \/ Destroyed(c) PROVE Goal
  BY <1>4, <1>5 DEF Constructed, ConstructThrows, Destroyed, Top, TypeOK
<1>6. ASSUME NEW b \in Blocks, BlockUnrecorded(b) PROVE Goal
  BY <1>6 DEF BlockUnrecorded, TypeOK
<1> HIDE DEF Goal
<1>7. Goal
  BY <1>1, <1>2, <1>3, <1>5, <1>6 DEF Use
<1> QED
  BY <1>7 DEF Goal

\* The pool before its first call (fixedsizepool.cpp:121-128).
LEMMA InitPool == ASSUME Init PROVE IInv
<1>1. /\ Recorded = {} /\ Pending = {} /\ Out = {} /\ Free = {}
      /\ DOMAIN calls = {} /\ Len(blocks_) = 0
  BY DEF Init, Recorded, Pending, Out, Free
<1>2. TypeOK
  BY DEF Init, TypeOK
<1>3. Owned
  BY <1>1 DEF Init, Owned, Distinct
<1>4. Listed
  BY <1>1 DEF Init, Listed, Closed
<1>5. Counted /\ Footprint
  BY <1>1, FS_EmptySet DEF Init, Counted, Footprint
<1> QED
  BY <1>2, <1>3, <1>4, <1>5 DEF IInv

\* Every step keeps it; the destructor only ends the pool
\* (fixedsizepool.cpp:21-26).
LEMMA StepKeeps == ASSUME IInv, [Next]_vars PROVE IInv'
<1>1. CASE Use /\ UNCHANGED released
  <2>1. TypeOK /\ Owned /\ Listed
    BY DEF IInv
  <2>2. Owned'
    BY <1>1, <2>1, StepOwned
  <2>3. /\ Listed' /\ Counted' /\ Footprint'
        /\ free_list_' \in Chunks \cup {NULL}
        /\ next' \in [Chunks -> Chunks \cup {NULL, Junk}]
        /\ blocks_' \in Seq(Blocks)
        /\ allocated_count_' \in Nat /\ peak' \in Nat
    BY <1>1, StepPool
  <2>4. TypeOK'
    BY <1>1, <2>1, <2>3, StepClient DEF TypeOK
  <2> QED
    BY <2>2, <2>3, <2>4 DEF IInv
<1>2. ASSUME UNCHANGED <<free_list_, next, blocks_, allocated_count_, calls,
                         objects, bytes, lost, wasted, peak>>,
             released' \subseteq Blocks
      PROVE  IInv'
  <2>1. Recorded' = Recorded /\ Pending' = Pending
    BY <1>2 DEF Recorded, Pending
  <2>2. Out' = Out
    BY <1>2, <2>1 DEF Out
  <2>3. Free' = Free
    BY <2>1, <2>2 DEF Free
  <2>4. TypeOK'
    BY <1>2 DEF IInv, TypeOK
  <2>5. Owned'
    BY <1>2, <2>1, <2>2 DEF IInv, Owned, Distinct
  <2>6. Listed'
    BY <1>2, <2>3 DEF IInv, Listed, Closed
  <2>7. Counted' /\ Footprint'
    BY <1>2, <2>2, <2>3 DEF IInv, Counted, Footprint
  <2> QED
    BY <2>4, <2>5, <2>6, <2>7 DEF IInv
<1>3. CASE Release
  <2>1. released' \subseteq Blocks
    BY <1>3, Addresses DEF Release, IInv
  <2> QED
    BY <1>2, <1>3, <2>1 DEF Release
<1>4. CASE UNCHANGED vars
  BY <1>2, <1>4 DEF vars, IInv, TypeOK
<1> QED
  BY <1>1, <1>3, <1>4 DEF Next

\* The inductive invariant: types, owners, list, counters and footprint hold of
\* MemoryPool whatever the client and T's code call.
THEOREM PoolInvariance == Spec => []IInv
<1>1. Init => IInv
  BY InitPool
<1>2. IInv /\ [Next]_vars => IInv'
  BY StepKeeps
<1> QED
  BY <1>1, <1>2, PTL DEF Spec

\* The free list holds exactly the free chunks and ends
\* (fixedsizepool.cpp:48-49, :74-75, :104-111).
THEOREM ListIsExact == Spec => []FreeListExact
<1>1. IInv => FreeListExact
  BY DEF IInv, Listed, FreeListExact
<1> QED
  BY <1>1, PoolInvariance, PTL

\* allocated_count() is the number of chunks that are out
\* (fixedsizepool.cpp:50, :76).
THEOREM CountIsExact == Spec => []CountExact
<1>1. IInv => CountExact
  BY DEF IInv, Counted, CountExact
<1> QED
  BY <1>1, PoolInvariance, PTL

\* No block is taken while a chunk is free (fixedsizepool.cpp:42).
THEOREM BlocksAreNeeded == Spec => []Footprint
<1>1. IInv => Footprint
  BY DEF IInv
<1> QED
  BY <1>1, PoolInvariance, PTL

-----------------------------------------------------------------------------
\* A chunk that is out has one holder, any other has none.
LEMMA OneHolder ==
  ASSUME TypeOK, Owned, NEW c \in Chunks
  PROVE  Holders(c) = IF c \in Out THEN 1 ELSE 0
<1> DEFINE P == {i \in DOMAIN calls : calls[i][2] = c}
           Q == {i \in 1..3 : c \in <<objects, bytes, lost>>[i]}
<1>1. Cardinality(P) = IF c \in Pending THEN 1 ELSE 0
  <2>1. CASE c \in Pending
    <3>1. PICK i \in DOMAIN calls : calls[i][2] = c
      BY <2>1 DEF Pending
    <3>2. P = {i}
      BY <3>1 DEF Owned, Distinct
    <3> QED
      BY <2>1, <3>2, FS_Singleton
  <2>2. CASE c \notin Pending
    <3>1. P = {}
      BY <2>2 DEF Pending
    <3> QED
      BY <2>2, <3>1, FS_EmptySet
  <2> QED
    BY <2>1, <2>2
<1>2. Cardinality(Q) = IF c \in objects \cup bytes \cup lost THEN 1 ELSE 0
  <2>1. \A i \in Q : i \in {1, 2, 3}
    OBVIOUS
  <2>2. (1 \in Q <=> c \in objects) /\ (2 \in Q <=> c \in bytes) /\ (3 \in Q <=> c \in lost)
    OBVIOUS
  <2> HIDE DEF Q
  <2>3. CASE c \in objects
    <3>1. Q = {1}
      BY <2>1, <2>2, <2>3 DEF Owned
    <3> QED
      BY <2>3, <3>1, FS_Singleton
  <2>4. CASE c \in bytes
    <3>1. Q = {2}
      BY <2>1, <2>2, <2>4 DEF Owned
    <3> QED
      BY <2>4, <3>1, FS_Singleton
  <2>5. CASE c \in lost
    <3>1. Q = {3}
      BY <2>1, <2>2, <2>5 DEF Owned
    <3> QED
      BY <2>5, <3>1, FS_Singleton
  <2>6. CASE c \notin objects \cup bytes \cup lost
    <3>1. Q = {}
      BY <2>1, <2>2, <2>6
    <3> QED
      BY <2>6, <3>1, FS_EmptySet
  <2> QED
    BY <2>3, <2>4, <2>5, <2>6
<1>3. ~ (c \in Pending /\ c \in objects \cup bytes \cup lost)
  BY DEF Owned
<1> HIDE DEF P, Q
<1>4. Cardinality(P) + Cardinality(Q) = IF c \in Out THEN 1 ELSE 0
  BY <1>1, <1>2, <1>3 DEF Out
<1> QED
  BY <1>4 DEF Holders, P, Q

\* The refinement mapping, and what it is.
H == [c \in Chunks |-> Holders(c)]
Held == H = [c \in Chunks |-> IF c \in Out THEN 1 ELSE 0]

\* MemoryPool hands out only chunks nobody holds and takes each back once: it
\* implements ChunkAllocator (fixedsizepool.cpp:33-77).
THEOREM PoolAllocates == Spec => ImplementsAllocator
<1>a. IInv => Held
  BY OneHolder DEF IInv, H, Held
<1>b. IInv' => Held'
  BY <1>a, PTL
<1> USE DEF H
<1>1. Init => Allocator!Init
  <2> SUFFICES ASSUME Init PROVE Allocator!Init
    OBVIOUS
  <2>1. TypeOK /\ Owned /\ Out = {}
    BY InitPool DEF IInv, Init, Out, Pending
  <2>2. \A c \in Chunks : Holders(c) = 0
    BY <2>1, OneHolder
  <2> QED
    BY <2>2 DEF Allocator!Init
<1>2. IInv /\ IInv' /\ [Next]_vars => [Allocator!Next]_H
  <2> SUFFICES ASSUME IInv, IInv', [Next]_vars PROVE [Allocator!Next]_H
    OBVIOUS
  <2>1. H = [c \in Chunks |-> IF c \in Out THEN 1 ELSE 0]
    BY <1>a DEF Held
  <2>2. H' = [c \in Chunks |-> IF c \in Out' THEN 1 ELSE 0]
    BY <1>b DEF Held
  <2> HIDE DEF H
  <2>3. ASSUME Out' = Out PROVE H' = H
    BY <2>1, <2>2, <2>3
  <2>4. CASE Use
    <3>1. ASSUME NEW c \in Chunks \ Out, Out' = Out \cup {c} PROVE Allocator!Next
      <4>1. H[c] = 0 /\ H' = [H EXCEPT ![c] = 1]
        BY <2>1, <2>2, <3>1
      <4> QED
        BY <4>1 DEF Allocator!Next, Allocator!Get, H
    <3>2. ASSUME NEW c \in Out, c \in Chunks, Out' = Out \ {c} PROVE Allocator!Next
      <4>1. H[c] = 1 /\ H' = [H EXCEPT ![c] = 0]
        BY <2>1, <2>2, <3>2
      <4> QED
        BY <3>2, <4>1 DEF Allocator!Next, Allocator!Put, H
    <3>3. Out \subseteq Chunks
      BY Addresses DEF IInv, Owned, Chunks
    <3> QED
      BY <2>3, <2>4, <3>1, <3>2, <3>3, StepOwned DEF IInv
  <2>5. CASE Release \/ UNCHANGED vars
    BY <2>3, <2>5 DEF Release, vars, Out, Pending
  <2> QED
    BY <2>4, <2>5 DEF Next
<1> QED
  BY <1>1, <1>2, PoolInvariance, PTL DEF Spec, ImplementsAllocator, Allocator!Spec
=============================================================================
