--------------------------- MODULE ChunkAllocator ---------------------------
(***************************************************************************)
(* What a pool of fixed-size chunks promises its callers: allocation hands *)
(* out a chunk nobody holds, and a chunk comes back from its one holder.   *)
(***************************************************************************)
EXTENDS Naturals

CONSTANT Chunks

VARIABLE holders   \* how many owners each chunk has outside the pool

Init == holders = [c \in Chunks |-> 0]

Get(c) == holders[c] = 0 /\ holders' = [holders EXCEPT ![c] = 1]
Put(c) == holders[c] = 1 /\ holders' = [holders EXCEPT ![c] = 0]

Next == \E c \in Chunks : Get(c) \/ Put(c)

Spec == Init /\ [][Next]_holders
=============================================================================
