----------------------------- MODULE SortArray -----------------------------
(* The array that the sorts of src/sort/main.cpp share, and their locals.     *)
(* An element is a record [key, id]: the code compares keys only, and the id, *)
(* the element's place in the input, tells equal keys apart.  An array is a   *)
(* sequence, so index k of the code is k + 1 here.  An index outside the      *)
(* array stops TLC with an error: the code would have read past the vector.   *)
EXTENDS Integers, Sequences

CONSTANTS Keys, MaxLen      \* the keys, and the longest input: bounds

\* Up to 2^24 a float holds every int, so that ceil(n / (float)step) of
\* mergeBottom (main.cpp:166) is exact and no index overflows.  A longer array
\* may lose its last element there: it is in no segment and becomes tmp's 0.
ExactFloat == 16777216

ASSUME SortAssumption ==
  /\ Keys \subseteq Int
  /\ MaxLen \in Nat /\ MaxLen <= ExactFloat

VARIABLES
  input, arr,           \* what the caller passed, and the array as it is now
  by, pc,               \* the function that runs, and where it is
  calls,                \* the recursive calls still to be made, the next one first
  low, mid, high, i, j, \* the locals of the innermost function, as the code names
  key, out, size,       \*   them; key is the pivot or the element held apart,
                        \*   out is tmp, size is half of step
  piviot                \* what partitonHoare returned to quickSortH, 0 before

locals == <<low, mid, high, i, j, key, out, size, piviot>>
vars == <<input, arr, by, pc, calls, locals>>

n == Len(arr)

Element == [key : Keys, id : Nat]

Inputs == {[k \in DOMAIN s |-> [key |-> s[k], id |-> k]] :
              s \in UNION {[1 .. m -> Keys] : m \in 0 .. MaxLen}}

Swapped(a, p, q) == [a EXCEPT ![p] = a[q], ![q] = a[p]]

\* A call that sorts low .. high; with mid # 0 the merge that follows two calls
SortCall(l, h) == [low |-> l, mid |-> 0, high |-> h]
MergeCall(l, m, h) == [low |-> l, mid |-> m, high |-> h]

\* main returns to its caller: nothing more is called
Finish == pc' = "done" /\ UNCHANGED <<input, arr, by, calls, locals>>
=============================================================================
