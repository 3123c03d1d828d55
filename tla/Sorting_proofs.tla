--------------------------- MODULE Sorting_proofs ---------------------------
(***************************************************************************)
(* Every sort of sort/main.cpp does, for every input that a float can      *)
(* count, what Sorting says of it.  The argument is a loop invariant per   *)
(* function: which elements are in order already, and which pairs a        *)
(* pending call, a merge or a pass still has to bring in order.            *)
(***************************************************************************)
EXTENDS Sorting, SequenceTheorems, WellFoundedInduction, TLAPS

\* Keys are compared as numbers, and an input has a length (main.cpp:44-358).
LEMMA KeysAndLengths == Keys \subseteq Int /\ MaxLen \in Nat
BY SortAssumption

USE KeysAndLengths

N == Len(input)
Call == [low : Int, mid : Int, high : Int]

TypeOK ==
  /\ input \in Seq(Element) /\ arr \in [1 .. N -> Element]
  /\ by \in Sorters
  /\ calls \in Seq(Call)
  /\ low \in Int /\ mid \in Int /\ high \in Int /\ i \in Int /\ j \in Int
  /\ key \in [key : Int, id : Nat] /\ out \in Seq(Element)
  /\ size \in Int /\ piviot \in Int

\* Each function runs its own loops only.
Where ==
  /\ pc \in {"start", "call", "partition", "up", "down", "meet", "heap", "heapify",
             "pass", "merge", "least", "insert", "bisect", "shift", "done"}
  /\ pc = "call" => by \in QuickSorts \cup {"mergeSort"}
  /\ pc = "partition" => by \in QuickSorts
  /\ pc \in {"up", "down", "meet"} => by = "quickSortH"
  /\ pc \in {"heap", "heapify"} => by = "heapSort"
  /\ pc = "pass" => by \in BottomUp
  /\ pc = "merge" => by \in BottomUp \cup {"mergeSort"}
  /\ pc = "least" => by = "insertionSortWithSentinel"
  /\ pc = "insert" => by \in Insertions
  /\ pc = "bisect" => by = "insertionSortBinary"
  /\ pc = "shift" => by \in Insertions

\* The array with the element held apart put into the gap (main.cpp:299-303).
Held == IF pc = "shift" THEN [arr EXCEPT ![j + 1] = key] ELSE arr

\* Nothing is lost or repeated, whatever step has been made.
Kept == Elements(Held) = Elements(input)

\* Equal keys are in the order of the input.
InInputOrder(a) ==
  \A x, y \in 1 .. N : x < y /\ a[x].key = a[y].key => a[x].id < a[y].id

KeepsOrder == by \in {"insertionSort", "insertionSortBinary"} => InInputOrder(Held)

\* Before its first step a sort has the input, whose elements know their place.
Fresh == pc = "start" => \A x \in 1 .. N : arr[x].id = x

InOrder(a, l, h) == \A x, y \in l .. h : x < y => a[x].key <= a[y].key

-----------------------------------------------------------------------------
(* Quick sort *)

Within(c, x, y) == c.low <= x /\ y <= c.high

\* A call of S has both places in its range.
In(S, x, y) == \E k \in DOMAIN S : Within(S[k], x, y)

\* No two calls of S have a place in common, none has a place in l .. h.
Apart(S) ==
  \A k, m \in DOMAIN S : k # m =>
    \A x \in 1 .. N : ~ (Within(S[k], x, x) /\ Within(S[m], x, x))

Clear(S, l, h) ==
  \A k \in DOMAIN S : \A x \in 1 .. N : ~ (Within(S[k], x, x) /\ l <= x /\ x <= h)

Fit(S, p) ==
  \A k \in DOMAIN S : S[k].low >= 1 /\ S[k].high <= N /\ ~ Within(S[k], p, p)

\* Two places are in order unless a pending call or the partition that runs
\* has both of them.  What is left of the place Hoare's partition returned need
\* not be less than what lies there.
OrderedAround ==
  \A x, y \in 1 .. N :
    x < y /\ y # piviot => \/ arr[x].key <= arr[y].key
                           \/ In(calls, x, y)
                           \/ pc = "partition" /\ low <= x /\ y <= high

PartitionInv ==
  /\ 1 <= low /\ low < high /\ high <= N
  /\ ~ (low <= piviot /\ piviot <= high)
  /\ low - 1 <= i /\ i < j /\ j <= high
  /\ arr[high].key = key.key
  /\ \A x \in low .. i : arr[x].key < key.key
  /\ \A x \in i + 1 .. j - 1 : arr[x].key >= key.key

QuickInv ==
  by \in QuickSorts =>
    /\ by = "quickSort" => piviot = 0
    /\ pc \in {"start", "up", "down", "meet", "done"} => calls = <<>>
    /\ pc \in {"call", "partition"} => Apart(calls) /\ Fit(calls, piviot)
    /\ pc = "partition" => Clear(calls, low, high)
    /\ pc \in {"call", "partition", "done"} => OrderedAround
    /\ by = "quickSortH" =>
         /\ pc \in {"start", "up", "down", "meet"} => piviot = 0
         /\ pc \in {"call", "partition"} \/ (pc = "done" /\ N > 1) => piviot \in 1 .. N - 1
    /\ pc = "partition" => PartitionInv

Middle == (N - 1) \div 2 + 1

AtMost(l, h) == \A x \in l .. h : arr[x].key <= key.key
AtLeast(l, h) == \A x \in l .. h : arr[x].key >= key.key

\* In the first round the pivot ends both scans, later what was exchanged does.
HoareInv ==
  /\ pc \in {"up", "down", "meet"} => N > 1 /\ low = 1 /\ high = N
  /\ pc = "up" =>
       /\ AtMost(1, i) /\ AtLeast(j, N)
       /\ \/ 0 <= i /\ i < Middle /\ j = N + 1 /\ arr[Middle].key = key.key
          \/ 1 <= i /\ i < j /\ j <= N
  /\ pc = "down" =>
       /\ AtMost(1, i - 1) /\ AtLeast(i, i) /\ AtLeast(j, N)
       /\ \/ 1 <= i /\ i <= Middle /\ Middle < j /\ j <= N + 1 /\ arr[Middle].key = key.key
          \/ 2 <= i /\ i <= j /\ j <= N
  /\ pc = "meet" =>
       /\ AtMost(1, i - 1) /\ AtLeast(i, i) /\ AtMost(j, j) /\ AtLeast(j + 1, N)
       /\ \/ 1 <= i /\ i <= Middle /\ Middle <= j /\ j <= N
          \/ 2 <= i /\ i <= j + 1 /\ j < N

-----------------------------------------------------------------------------
(* Heap sort *)

IsChild(x, c) == c = 2 * x \/ c = 2 * x + 1

\* Every node but those up to r, and but q, is not greater than its children.
IsHeap(a, m, r, q) ==
  \A x, c \in 1 .. m : x > r /\ x # q /\ IsChild(x, c) => a[x].key <= a[c].key

\* The node that heapify is at may be greater than its children; its parent is
\* not (main.cpp:255-258).
Sinking(a, m, r, q) ==
  /\ IsHeap(a, m, r, q)
  /\ \A x, c \in 1 .. m : x > r /\ IsChild(x, q) /\ IsChild(q, c) => a[x].key <= a[c].key

\* Behind the heap lie the elements taken from it, the last the smallest
\* (main.cpp:284-289).
Taken(a, m) == \A y \in m + 1 .. N : \A x \in 1 .. y - 1 : a[x].key >= a[y].key

HeapInv ==
  by = "heapSort" =>
    /\ pc \in {"heap", "heapify"} =>
         /\ 0 <= i /\ 0 <= high /\ high <= N
         /\ i >= 1 => high = N /\ 2 * i <= N
    /\ pc \in {"heap", "heapify", "done"} => Taken(arr, high)
    /\ pc = "heap" => IsHeap(arr, high, i, 0)
    /\ pc = "heapify" => i < j /\ j <= high /\ Sinking(arr, high, i, j)
    /\ pc = "done" => high <= 1

-----------------------------------------------------------------------------
(* Merge sorts *)

\* In what a sort has merged, e may lie in front of f: a tie is in the order of
\* the input, in the opposite order, or in either (main.cpp:73, 119, 146, 173).
Ahead(e, f) ==
  /\ e.key <= f.key
  /\ e.key = f.key => /\ by = "mergeSortIterativeDS" => e.id < f.id
                      /\ by \in {"mergeSort", "mergeBottomModifyByAI"} => e.id > f.id

Run(a, l, h) == \A x, y \in l .. h : x < y => Ahead(a[x], a[y])

\* The elements of l .. m come from places before those of m + 1 .. h.
LeftFirst(a, l, m, h) == \A x \in l .. m : \A y \in m + 1 .. h : a[x].id < a[y].id

\* out is the elements of the places in used, in order, none of them behind one
\* of the places in rest.
Merged(a, o, used, rest) ==
  /\ Run(o, 1, Len(o))
  /\ \A x \in 1 .. Len(o) : \E y \in used : o[x] = a[y]
  /\ \A y \in used : \E x \in 1 .. Len(o) : o[x] = a[y]
  /\ \A x \in 1 .. Len(o) : \A y \in rest : Ahead(o[x], a[y])

MergeInv ==
  pc = "merge" =>
    /\ 1 <= low /\ low <= i /\ i <= mid + 1 /\ mid + 1 <= j /\ j <= high + 1 /\ high <= N
    /\ Len(out) = (i - low) + (j - mid - 1)
    /\ Run(arr, low, mid) /\ Run(arr, mid + 1, high)
    /\ by # "mergeBottom" => LeftFirst(arr, low, mid, high)
    /\ Merged(arr, out, (low .. i - 1) \cup (mid + 1 .. j - 1), (i .. mid) \cup (j .. high))

\* The calls of mergeHelper, with the merge that runs.
Stack == IF pc = "merge" THEN <<MergeCall(low, mid, high)>> \o calls ELSE calls

Beside(c, l, h) == c.high < l \/ h < c.low

\* What is low .. high after the first q calls: a call has it as its range, or
\* it is in order and no call touches it.
Settled(a, S, l, h, q) ==
  \/ \E p \in 1 .. q : /\ S[p].low = l /\ S[p].high = h
                       /\ \A r \in p + 1 .. q : Beside(S[r], l, h)
  \/ Run(a, l, h) /\ \A r \in 1 .. q : Beside(S[r], l, h)

StackInv(a, S) ==
  /\ \A q \in 1 .. Len(S) :
       /\ 1 <= S[q].low /\ S[q].high <= N
       /\ S[q].mid # 0 =>
            /\ S[q].low <= S[q].mid /\ S[q].mid < S[q].high
            /\ Settled(a, S, S[q].low, S[q].mid, q - 1)
            /\ Settled(a, S, S[q].mid + 1, S[q].high, q - 1)
  /\ Settled(a, S, 1, N, Len(S))

\* The range of c is clear of d's, or in one half of it.
InHalf(c, d) ==
  \/ Beside(c, d.low, d.high)
  \/ d.mid # 0 /\ d.low <= c.low /\ c.high <= d.mid
  \/ d.mid # 0 /\ d.mid < c.low /\ c.high <= d.high

\* Where the elements come from: no step has touched the range of a call, and a
\* merge has the elements of its left half from places before the right one's.
Sources(a, S) ==
  \A q \in 1 .. Len(S) :
    /\ S[q].mid = 0 => \A x \in S[q].low .. S[q].high : a[x].id = x
    /\ S[q].mid # 0 => LeftFirst(a, S[q].low, S[q].mid, S[q].high)
    /\ \A p \in 1 .. q - 1 : InHalf(S[p], S[q])

HelperInv ==
  by = "mergeSort" =>
    /\ pc \in {"call", "merge", "done"} => StackInv(arr, Stack) /\ Sources(arr, Stack)
    /\ pc = "done" => calls = <<>>

Multiple(b, s) == \E q \in Nat : b = q * s

\* The ends of the runs: before the next segment, at l, they have doubled.
Boundary(b, l, s) ==
  \/ b < l /\ Multiple(b, 2 * s)
  \/ b >= l /\ Multiple(b, s)

\* Two places of one run are in order.
Runs(a, l, s) ==
  \A x, y \in 1 .. N : x < y => \/ Ahead(a[x], a[y])
                                \/ \E b \in x .. y - 1 : Boundary(b, l, s)

\* What lies before the end of a run comes from places before what lies behind.
Blocks(a, l, s) ==
  \A x, y \in 1 .. N : \A b \in x .. y - 1 : Boundary(b, l, s) => a[x].id < a[y].id

BottomUpInv ==
  by \in BottomUp =>
    /\ pc \in {"pass", "merge"} =>
         /\ size >= 1 /\ low >= 1 /\ Multiple(low - 1, 2 * size)
         /\ Runs(arr, low, size) /\ Blocks(arr, low, size)
    /\ pc = "merge" => low <= N /\ high = Lesser(low - 1 + 2 * size, N)
    /\ pc = "done" => Run(arr, 1, N)

-----------------------------------------------------------------------------
(* Insertion sorts *)

Least == \A x \in 1 .. N : arr[1].key <= arr[x].key

InsertionInv ==
  by \in Insertions =>
    /\ pc \in {"insert", "bisect"} => i >= 2 /\ InOrder(arr, 1, Lesser(i - 1, N))
    /\ pc \in {"bisect", "shift"} => 2 <= i /\ i <= N
    /\ by = "insertionSortWithSentinel" =>
         /\ pc \in {"insert", "shift"} => i >= 3 /\ N > 1 /\ Least
         /\ pc = "shift" => 1 <= j /\ arr[1].key <= key.key
    /\ pc = "least" =>
         /\ N > 1 /\ 1 <= mid /\ mid <= N /\ mid < i /\ 2 <= i
         /\ \A x \in 1 .. N : x < i => arr[mid].key <= arr[x].key
    /\ pc = "bisect" =>
         /\ key = arr[i] /\ 1 <= low /\ low <= high + 1 /\ high < i
         /\ \A x \in 1 .. low - 1 : arr[x].key <= key.key
         /\ \A x \in high + 1 .. i - 1 : arr[x].key > key.key
    /\ pc = "shift" =>
         /\ key \in Element /\ 0 <= j /\ j < i
         /\ \A x, y \in 1 .. i : x < y /\ x # j + 1 /\ y # j + 1 => arr[x].key <= arr[y].key
         /\ \A y \in j + 2 .. i : arr[y].key > key.key
         /\ by = "insertionSortBinary" =>
              /\ 1 <= low /\ low <= j + 1
              /\ \A x \in 1 .. low - 1 : arr[x].key <= key.key
              /\ \A x \in low .. j : arr[x].key > key.key
    /\ pc = "done" => InOrder(arr, 1, N)

SInv ==
  /\ TypeOK /\ Where /\ Kept /\ KeepsOrder /\ Fresh
  /\ QuickInv /\ HoareInv /\ HeapInv
  /\ MergeInv /\ HelperInv /\ BottomUpInv /\ InsertionInv

-----------------------------------------------------------------------------
(* Arrays *)

\* n is the length of the input (main.cpp:94).
LEMMA Length ==
  ASSUME TypeOK
  PROVE  N \in Nat /\ n = N /\ DOMAIN arr = 1 .. N /\ DOMAIN input = 1 .. N
<1>1. N \in Nat /\ DOMAIN input = 1 .. N
  BY DEF TypeOK, N
<1>2. arr \in Seq(Element) /\ Len(arr) = N
  BY <1>1, LenProperties, IsASeq DEF TypeOK
<1> QED
  BY <1>1, <1>2 DEF TypeOK, n

\* An exchange leaves an array of elements with the same members, and with the
\* other places as they were (main.cpp:31).
LEMMA SwapFacts ==
  ASSUME NEW m \in Nat, NEW a \in [1 .. m -> Element], NEW p \in 1 .. m, NEW q \in 1 .. m
  PROVE  /\ Swapped(a, p, q) \in [1 .. m -> Element]
         /\ Elements(Swapped(a, p, q)) = Elements(a)
         /\ \A x \in 1 .. m : Swapped(a, p, q)[x] = IF x = p THEN a[q]
                                                   ELSE IF x = q THEN a[p] ELSE a[x]
<1> DEFINE b == Swapped(a, p, q)
<1>1. b \in [1 .. m -> Element]
  BY DEF Swapped
<1>2. \A x \in 1 .. m : b[x] = IF x = p THEN a[q] ELSE IF x = q THEN a[p] ELSE a[x]
  BY DEF Swapped
<1>3. b[p] = a[q] /\ b[q] = a[p]
  BY <1>2
<1> HIDE DEF b
<1>4. \A x \in 1 .. m : a[x] \in Elements(b)
  BY <1>1, <1>2, <1>3 DEF Elements
<1>5. \A x \in 1 .. m : b[x] \in Elements(a)
  BY <1>1, <1>2, <1>3 DEF Elements
<1>6. Elements(b) = Elements(a)
  BY <1>1, <1>4, <1>5 DEF Elements
<1> QED
  BY <1>1, <1>2, <1>6 DEF b

-----------------------------------------------------------------------------
(* Steps *)

\* A sort makes the steps of its own loops only (main.cpp:44-358).
LEMMA Dispatch ==
  ASSUME Where, by \in Sorters, Next
  PROVE  /\ input' = input /\ by' = by /\ N' = N
         /\ by \in QuickSorts => QuickNext \/ HoareNext
         /\ by = "heapSort" => HeapNext
         /\ by = "mergeSort" => HelperNext \/ MergeNext
         /\ by \in BottomUp => BottomUpNext \/ MergeNext
         /\ by \in Insertions => SentinelNext \/ InsertionNext
<1> USE DEF Where, Sorters, QuickSorts, BottomUp, Insertions, Finish, N
<1>1. CASE QuickNext
  BY <1>1 DEF QuickNext, QuickStart, QuickReturn, QuickCall, PartitionStep,
              PartitionEnd, QuickDone
<1>2. CASE HoareNext
  BY <1>2 DEF HoareNext, HoareStart, HoareSkip, ScanUp, ScanDown, HoareSwap, HoareReturn
<1>3. CASE HeapNext
  BY <1>3 DEF HeapNext, HeapStart, HeapBuild, HeapExtract, HeapifyDown, HeapifyReturn,
              HeapDone
<1>4. CASE HelperNext
  BY <1>4 DEF HelperNext, MergeStart, HelperReturn, HelperHalves, HelperMerge, HelperDone
<1>5. CASE BottomUpNext
  BY <1>5 DEF BottomUpNext, BottomUpStart, Segment, EndOfPass, BottomUpDone
<1>6. CASE MergeNext
  BY <1>6 DEF MergeNext, TakeLeft, TakeRight, WriteBack
<1>7. CASE SentinelNext
  BY <1>7 DEF SentinelNext, SentinelStart, SentinelSkip, LeastStep, LeastEnd
<1>8. CASE InsertionNext
  BY <1>8 DEF InsertionNext, InsertionStart, Hold, HoldBinary, Bisect, Bisected, Shift,
              Insert, InsertionDone
<1> QED
  BY <1>1, <1>2, <1>3, <1>4, <1>5, <1>6, <1>7, <1>8 DEF Next

\* Every step goes on in the loop it is in, or in the one that follows it in
\* the same function (main.cpp:44-358).
LEMMA WhereStep ==
  ASSUME Where, by \in Sorters, Next
  PROVE  Where'
<1> USE DEF Where, Sorters, QuickSorts, BottomUp, Insertions, Finish
<1>1. CASE QuickNext
  BY <1>1 DEF QuickNext, QuickStart, QuickReturn, QuickCall, PartitionStep,
              PartitionEnd, QuickDone, locals
<1>2. CASE HoareNext
  BY <1>2 DEF HoareNext, HoareStart, HoareSkip, ScanUp, ScanDown, HoareSwap, HoareReturn
<1>3. CASE HeapNext
  BY <1>3 DEF HeapNext, HeapStart, HeapBuild, HeapExtract, HeapifyDown, HeapifyReturn,
              HeapDone
<1>4. CASE HelperNext
  BY <1>4 DEF HelperNext, MergeStart, HelperReturn, HelperHalves, HelperMerge, HelperDone
<1>5. CASE BottomUpNext
  BY <1>5 DEF BottomUpNext, BottomUpStart, Segment, EndOfPass, BottomUpDone
<1>6. CASE MergeNext
  BY <1>6 DEF MergeNext, TakeLeft, TakeRight, WriteBack
<1>7. CASE SentinelNext
  BY <1>7 DEF SentinelNext, SentinelStart, SentinelSkip, LeastStep, LeastEnd
<1>8. CASE InsertionNext
  BY <1>8 DEF InsertionNext, InsertionStart, Hold, HoldBinary, Bisect, Bisected, Shift,
              Insert, InsertionDone
<1> QED
  BY <1>1, <1>2, <1>3, <1>4, <1>5, <1>6, <1>7, <1>8 DEF Next

-----------------------------------------------------------------------------
(* Types *)

\* The stack of calls: its first one, and what is left (main.cpp:44-49).
LEMMA CallFacts ==
  ASSUME NEW S \in Seq(Call), S # <<>>
  PROVE  /\ Head(S) = S[1] /\ S[1] \in Call
         /\ Tail(S) \in Seq(Call) /\ Len(Tail(S)) = Len(S) - 1
         /\ Len(S) \in Nat /\ Len(S) >= 1
         /\ \A k \in 1 .. Len(S) - 1 : Tail(S)[k] = S[k + 1]
<1>1. Len(S) \in Nat /\ Len(S) >= 1
  BY EmptySeq, LenProperties
<1>2. Head(S) = S[1] /\ S[1] \in Call
  BY <1>1
<1>3. Tail(S) \in Seq(Call) /\ Len(Tail(S)) = Len(S) - 1
  BY HeadTailProperties
<1>4. \A k \in 1 .. Len(S) - 1 : Tail(S)[k] = S[k + 1]
  BY HeadTailProperties
<1> QED
  BY <1>1, <1>2, <1>3, <1>4

\* quickSort and its partition (main.cpp:24-50).
LEMMA QuickType ==
  ASSUME TypeOK, Where, QuickInv, QuickNext
  PROVE  TypeOK'
<1> USE Length
<1>1. CASE QuickStart
  BY <1>1 DEF QuickStart, TypeOK, locals, N, Call, SortCall
<1>2. CASE QuickReturn
  BY <1>2, CallFacts DEF QuickReturn, TypeOK, locals, N
<1>3. CASE QuickCall
  <2>1. Head(calls) \in Call /\ Tail(calls) \in Seq(Call) /\ Head(calls) = calls[1]
        /\ 1 \in DOMAIN calls
    BY <1>3, CallFacts DEF QuickCall, TypeOK
  <2>2. Head(calls).high \in 1 .. N
    <3>1. Fit(calls, piviot)
      BY <1>3 DEF QuickCall, QuickInv
    <3>2. calls[1].low >= 1 /\ calls[1].high <= N
      BY <2>1, <3>1 DEF Fit
    <3>3. Head(calls).low \in Int /\ Head(calls).high \in Int
      BY <2>1 DEF Call
    <3> QED
      BY <1>3, <2>1, <3>2, <3>3 DEF QuickCall
  <2>3. key' \in [key : Int, id : Nat]
    <3>1. arr[Head(calls).high] \in Element
      BY <2>2 DEF TypeOK
    <3> QED
      BY <1>3, <3>1 DEF QuickCall, Element
  <2> QED
    BY <1>3, <2>1, <2>3 DEF QuickCall, TypeOK, N, Call
<1>4. CASE PartitionStep
  <2>1. i \in Int /\ j \in Int /\ i + 1 \in 1 .. N /\ j \in 1 .. N
    BY <1>4 DEF PartitionStep, QuickInv, PartitionInv, Where, TypeOK
  <2>2. Swapped(arr, i + 1, j) \in [1 .. N -> Element]
    BY <2>1, SwapFacts DEF TypeOK
  <2> QED
    BY <1>4, <2>1, <2>2 DEF PartitionStep, TypeOK, N
<1>5. CASE PartitionEnd
  <2>1. low \in Int /\ high \in Int /\ i \in Int /\ i + 1 \in 1 .. N /\ high \in 1 .. N
    BY <1>5 DEF PartitionEnd, QuickInv, PartitionInv, Where, TypeOK
  <2>2. Swapped(arr, i + 1, high) \in [1 .. N -> Element]
    BY <2>1, SwapFacts DEF TypeOK
  <2>3. SortCall(low, i) \in Call /\ SortCall(i + 2, high) \in Call
    BY <2>1 DEF SortCall, Call
  <2>4. <<SortCall(low, i), SortCall(i + 2, high)>> \o calls \in Seq(Call)
    BY <2>3, ConcatProperties DEF TypeOK
  <2> QED
    BY <1>5, <2>2, <2>4 DEF PartitionEnd, TypeOK, N, locals
<1>6. CASE QuickDone
  BY <1>6 DEF QuickDone, Finish, TypeOK, N, locals
<1> QED
  BY <1>1, <1>2, <1>3, <1>4, <1>5, <1>6 DEF QuickNext

\* quickSortH's partition (main.cpp:8-23).
LEMMA HoareType ==
  ASSUME TypeOK, Where, HoareInv, HoareNext
  PROVE  TypeOK'
<1> USE Length
<1>1. CASE HoareStart
  <2>1. (n - 1) \div 2 + 1 \in 1 .. N
    BY <1>1 DEF HoareStart
  <2>2. arr[(n - 1) \div 2 + 1] \in Element
    BY <2>1 DEF TypeOK
  <2>3. key' \in [key : Int, id : Nat]
    BY <1>1, <2>2 DEF HoareStart, Element
  <2>4. n + 1 \in Int
    OBVIOUS
  <2> QED
    BY <1>1, <2>3, <2>4 DEF HoareStart, TypeOK, N
<1>2. CASE HoareSkip
  BY <1>2 DEF HoareSkip, Finish, TypeOK, N, locals
<1>3. CASE ScanUp
  BY <1>3 DEF ScanUp, TypeOK, N
<1>4. CASE ScanDown
  BY <1>4 DEF ScanDown, TypeOK, N
<1>5. CASE HoareSwap
  <2>1. i \in 1 .. N /\ j \in 1 .. N
    BY <1>5 DEF HoareSwap, HoareInv, TypeOK
  <2>2. Swapped(arr, i, j) \in [1 .. N -> Element]
    BY <2>1, SwapFacts DEF TypeOK
  <2> QED
    BY <1>5, <2>2 DEF HoareSwap, TypeOK, N, locals
<1>6. CASE HoareReturn
  <2>1. SortCall(low, j - 1) \in Call /\ SortCall(j + 1, high) \in Call
    BY DEF SortCall, Call, TypeOK
  <2>2. <<SortCall(low, j - 1), SortCall(j + 1, high)>> \in Seq(Call)
    BY <2>1
  <2> QED
    BY <1>6, <2>2 DEF HoareReturn, TypeOK, N
<1> QED
  BY <1>1, <1>2, <1>3, <1>4, <1>5, <1>6 DEF HoareNext

\* heapSort and heapify (main.cpp:245-292).
LEMMA HeapType ==
  ASSUME TypeOK, Where, HeapInv, HeapNext
  PROVE  TypeOK'
<1> USE Length
<1>1. CASE HeapStart
  BY <1>1 DEF HeapStart, TypeOK, N
<1>2. CASE HeapBuild
  BY <1>2 DEF HeapBuild, TypeOK, N
<1>3. CASE HeapExtract
  <2>1. 1 \in 1 .. N /\ high \in 1 .. N
    BY <1>3 DEF HeapExtract, HeapInv, Where, TypeOK
  <2>2. Swapped(arr, 1, high) \in [1 .. N -> Element]
    BY <2>1, SwapFacts DEF TypeOK
  <2> QED
    BY <1>3, <2>2 DEF HeapExtract, TypeOK, N
<1>4. CASE HeapifyDown
  <2>1. j \in 1 .. N /\ smallest \in 1 .. N
    BY <1>4 DEF HeapifyDown, HeapInv, Where, TypeOK, smallest
  <2>2. Swapped(arr, smallest, j) \in [1 .. N -> Element]
    BY <2>1, SwapFacts DEF TypeOK
  <2> QED
    BY <1>4, <2>1, <2>2 DEF HeapifyDown, TypeOK, N
<1>5. CASE HeapifyReturn
  BY <1>5 DEF HeapifyReturn, TypeOK, N, locals
<1>6. CASE HeapDone
  BY <1>6 DEF HeapDone, Finish, TypeOK, N, locals
<1> QED
  BY <1>1, <1>2, <1>3, <1>4, <1>5, <1>6 DEF HeapNext

\* mergeHelper's calls and what it merges (main.cpp:69-90, 194-204).
LEMMA HelperType ==
  ASSUME TypeOK, Where, HelperNext
  PROVE  TypeOK'
<1> USE Length
<1>1. CASE MergeStart
  <2>1. SortCall(1, n) \in Call
    BY DEF SortCall, Call
  <2>2. <<SortCall(1, n)>> \in Seq(Call)
    BY <2>1
  <2> QED
    BY <1>1, <2>2 DEF MergeStart, TypeOK, locals, N
<1>2. CASE HelperReturn
  BY <1>2, CallFacts DEF HelperReturn, TypeOK, locals, N
<1>3. CASE HelperHalves
  <2> DEFINE l == Head(calls).low
             h == Head(calls).high
             m == l + (h - l) \div 2
  <2>1. Head(calls) \in Call /\ Tail(calls) \in Seq(Call)
    BY <1>3, CallFacts DEF HelperHalves, TypeOK
  <2>2. l \in Int /\ h \in Int /\ m \in Int
    BY <2>1 DEF Call
  <2> HIDE DEF l, h, m
  <2>3. SortCall(l, m) \in Call /\ SortCall(m + 1, h) \in Call /\ MergeCall(l, m, h) \in Call
    BY <2>2 DEF SortCall, MergeCall, Call
  <2>4. <<SortCall(l, m), SortCall(m + 1, h), MergeCall(l, m, h)>> \o Tail(calls) \in Seq(Call)
    BY <2>1, <2>3, ConcatProperties
  <2>5. calls' \in Seq(Call)
    BY <1>3, <2>4 DEF HelperHalves, l, h, m
  <2> QED
    BY <1>3, <2>5 DEF HelperHalves, TypeOK, locals, N
<1>4. CASE HelperMerge
  <2>1. Head(calls) \in Call /\ Tail(calls) \in Seq(Call)
    BY <1>4, CallFacts DEF HelperMerge, TypeOK
  <2>2. /\ Head(calls).low \in Int /\ Head(calls).mid \in Int /\ Head(calls).high \in Int
        /\ Head(calls).mid + 1 \in Int /\ <<>> \in Seq(Element)
    BY <2>1 DEF Call
  <2> QED
    BY <1>4, <2>1, <2>2 DEF HelperMerge, TypeOK, N
<1>5. CASE HelperDone
  BY <1>5 DEF HelperDone, Finish, TypeOK, N, locals
<1> QED
  BY <1>1, <1>2, <1>3, <1>4, <1>5 DEF HelperNext

\* The loops over the segments (main.cpp:98-102, 139-143, 165-168).
LEMMA BottomUpType ==
  ASSUME TypeOK, Where, BottomUpNext
  PROVE  TypeOK'
<1> USE Length
<1>1. CASE BottomUpStart
  BY <1>1 DEF BottomUpStart, TypeOK, N
<1>2. CASE Segment
  <2>0. /\ low - 1 + size \in Int /\ n \in Int /\ low - 1 + 2 * size \in Int
        /\ \A a, b \in Int : Lesser(a, b) \in Int
    BY DEF Lesser, TypeOK
  <2>1. LeftEnd \in Int /\ Lesser(low - 1 + 2 * size, n) \in Int
    BY <2>0 DEF LeftEnd
  <2> QED
    BY <1>2, <2>1 DEF Segment, TypeOK, N
<1>3. CASE EndOfPass
  BY <1>3 DEF EndOfPass, TypeOK, N
<1>4. CASE BottomUpDone
  BY <1>4 DEF BottomUpDone, Finish, TypeOK, N, locals
<1> QED
  BY <1>1, <1>2, <1>3, <1>4 DEF BottomUpNext

\* What a merge takes and where it writes it (main.cpp:71-89).
LEMMA MergeType ==
  ASSUME TypeOK, Where, MergeInv, MergeNext
  PROVE  TypeOK'
<1> USE Length
<1>1. CASE TakeLeft
  <2>0. i \in 1 .. N
    BY <1>1 DEF TakeLeft, MergeInv, TypeOK
  <2>1. arr[i] \in Element
    BY <2>0 DEF TypeOK
  <2>2. Append(out, arr[i]) \in Seq(Element)
    BY <2>1, AppendProperties DEF TypeOK
  <2> QED
    BY <1>1, <2>2 DEF TakeLeft, TypeOK, N
<1>2. CASE TakeRight
  <2>0. j \in 1 .. N
    BY <1>2 DEF TakeRight, MergeInv, TypeOK
  <2>1. arr[j] \in Element
    BY <2>0 DEF TypeOK
  <2>2. Append(out, arr[j]) \in Seq(Element)
    BY <2>1, AppendProperties DEF TypeOK
  <2> QED
    BY <1>2, <2>2 DEF TakeRight, TypeOK, N
<1>3. CASE WriteBack
  <2>1. \A k \in 1 .. N : low <= k /\ k <= high => out[k - low + 1] \in Element
    <3> SUFFICES ASSUME NEW k \in 1 .. N, low <= k, k <= high PROVE out[k - low + 1] \in Element
      OBVIOUS
    <3>1. k - low + 1 \in 1 .. Len(out)
      BY <1>3 DEF WriteBack, MergeInv, TypeOK
    <3> QED
      BY <3>1, ElementOfSeq DEF TypeOK
  <2>2. arr' \in [1 .. N -> Element]
    BY <1>3, <2>1 DEF WriteBack, TypeOK
  <2>3. low' \in Int
    BY <1>3 DEF WriteBack, TypeOK
  <2> QED
    BY <1>3, <2>2, <2>3 DEF WriteBack, TypeOK, N
<1> QED
  BY <1>1, <1>2, <1>3 DEF MergeNext

\* The scan for the sentinel (main.cpp:333-344).
LEMMA SentinelType ==
  ASSUME TypeOK, Where, InsertionInv, SentinelNext
  PROVE  TypeOK'
<1> USE Length
<1>1. CASE SentinelStart
  BY <1>1 DEF SentinelStart, TypeOK, N
<1>2. CASE SentinelSkip
  BY <1>2 DEF SentinelSkip, Finish, TypeOK, N, locals
<1>3. CASE LeastStep
  BY <1>3 DEF LeastStep, TypeOK, N
<1>4. CASE LeastEnd
  <2>1. 1 \in 1 .. N /\ mid \in 1 .. N
    BY <1>4 DEF LeastEnd, InsertionInv, Insertions, Where, TypeOK
  <2>2. Swapped(arr, 1, mid) \in [1 .. N -> Element]
    BY <2>1, SwapFacts DEF TypeOK
  <2> QED
    BY <1>4, <2>2 DEF LeastEnd, TypeOK, N
<1> QED
  BY <1>1, <1>2, <1>3, <1>4 DEF SentinelNext

\* The insertion sorts hold one element and move others up (main.cpp:294-358).
LEMMA InsertionType ==
  ASSUME TypeOK, Where, InsertionInv, InsertionNext
  PROVE  TypeOK'
<1> USE Length
<1>0. ASSUME NEW k \in 1 .. N PROVE arr[k] \in Element /\ arr[k] \in [key : Int, id : Nat]
  BY DEF TypeOK, Element
<1>1. CASE InsertionStart
  BY <1>1 DEF InsertionStart, TypeOK, N
<1>2. CASE Hold
  <2>1. i \in 1 .. N
    BY <1>2 DEF Hold, InsertionInv, Insertions, Where, TypeOK
  <2> QED
    BY <1>0, <1>2, <2>1 DEF Hold, TypeOK, N
<1>3. CASE HoldBinary
  <2>1. i \in 1 .. N
    BY <1>3 DEF HoldBinary, InsertionInv, Insertions, Where, TypeOK
  <2> QED
    BY <1>0, <1>3, <2>1 DEF HoldBinary, TypeOK, N
<1>4. CASE Bisect
  <2>1. low + (high - low) \div 2 \in Int
    BY DEF TypeOK
  <2> QED
    BY <1>4, <2>1 DEF Bisect, TypeOK, N
<1>5. CASE Bisected
  BY <1>5 DEF Bisected, TypeOK, N
<1>6. CASE Shift
  <2>1. j \in 1 .. N
    BY <1>6 DEF Shift, MustShift, InsertionInv, Insertions, Where, TypeOK
  <2>2. arr' \in [1 .. N -> Element]
    BY <1>0, <1>6, <2>1 DEF Shift, TypeOK
  <2> QED
    BY <1>6, <2>2 DEF Shift, TypeOK, N
<1>7. CASE Insert
  <2>1. key \in Element
    BY <1>7 DEF Insert, InsertionInv, Where
  <2>2. arr' \in [1 .. N -> Element]
    BY <1>7, <2>1 DEF Insert, TypeOK
  <2> QED
    BY <1>7, <2>2 DEF Insert, TypeOK, N
<1>8. CASE InsertionDone
  BY <1>8 DEF InsertionDone, Finish, TypeOK, N, locals
<1> QED
  BY <1>1, <1>2, <1>3, <1>4, <1>5, <1>6, <1>7, <1>8 DEF InsertionNext

-----------------------------------------------------------------------------
(* Elements are neither lost nor repeated, and equal keys do not pass *)

StableSorts == {"insertionSort", "insertionSortBinary"}

\* What a step other than a write-back does to the array with the held element
\* in its gap: nothing, or an exchange, which a stable sort makes of neighbours
\* that are out of order only.
Exchange(a, b) ==
  \/ b = a
  \/ \E p, q \in 1 .. N :
       /\ b = Swapped(a, p, q)
       /\ by \in StableSorts => q = p + 1 /\ a[p].key > a[q].key

\* The held element fills the gap (main.cpp:303, 330, 356).
LEMMA HeldType ==
  ASSUME TypeOK, Where, InsertionInv
  PROVE  Held \in [1 .. N -> Element]
<1>1. CASE pc = "shift"
  <2>1. key \in Element
    BY <1>1 DEF InsertionInv, Where
  <2> QED
    BY <1>1, <2>1 DEF Held, TypeOK
<1>2. CASE pc # "shift"
  BY <1>2 DEF Held, TypeOK
<1> QED
  BY <1>1, <1>2

\* The quick sorts and heap sort exchange elements (main.cpp:8-36, 245-292).
LEMMA ExchangeHeld ==
  ASSUME TypeOK, Where, QuickInv, HoareInv, HeapInv, N' = N,
         QuickNext \/ HoareNext \/ HeapNext
  PROVE  Exchange(Held, Held')
<1> USE Length
<1>1. pc # "shift" /\ pc' # "shift" /\ by \notin StableSorts /\ Held = arr /\ Held' = arr'
  BY DEF QuickNext, QuickStart, QuickReturn, QuickCall, PartitionStep, PartitionEnd, QuickDone,
         HoareNext, HoareStart, HoareSkip, ScanUp, ScanDown, HoareSwap, HoareReturn,
         HeapNext, HeapStart, HeapBuild, HeapExtract, HeapifyDown, HeapifyReturn, HeapDone,
         Where, QuickSorts, StableSorts, Held, Finish
<1> SUFFICES arr' = arr \/ \E p, q \in 1 .. N : arr' = Swapped(arr, p, q)
  BY <1>1 DEF Exchange
<1>2. CASE PartitionStep
  <2>1. i + 1 \in 1 .. N /\ j \in 1 .. N
    BY <1>2 DEF PartitionStep, QuickInv, PartitionInv, Where, TypeOK
  <2> QED
    BY <1>2, <2>1 DEF PartitionStep
<1>3. CASE PartitionEnd
  <2>1. i + 1 \in 1 .. N /\ high \in 1 .. N
    BY <1>3 DEF PartitionEnd, QuickInv, PartitionInv, Where, TypeOK
  <2> QED
    BY <1>3, <2>1 DEF PartitionEnd
<1>4. CASE HoareSwap
  <2>1. i \in 1 .. N /\ j \in 1 .. N
    BY <1>4 DEF HoareSwap, HoareInv, TypeOK
  <2> QED
    BY <1>4, <2>1 DEF HoareSwap
<1>5. CASE HeapExtract
  <2>1. 1 \in 1 .. N /\ high \in 1 .. N
    BY <1>5 DEF HeapExtract, HeapInv, Where, TypeOK
  <2> QED
    BY <1>5, <2>1 DEF HeapExtract
<1>6. CASE HeapifyDown
  <2>1. j \in 1 .. N /\ smallest \in 1 .. N
    BY <1>6 DEF HeapifyDown, HeapInv, Where, TypeOK, smallest
  <2> QED
    BY <1>6, <2>1 DEF HeapifyDown
<1>7. CASE ~(PartitionStep \/ PartitionEnd \/ HoareSwap \/ HeapExtract \/ HeapifyDown)
  BY <1>7 DEF QuickNext, QuickStart, QuickReturn, QuickCall, QuickDone,
              HoareNext, HoareStart, HoareSkip, ScanUp, ScanDown, HoareReturn,
              HeapNext, HeapStart, HeapBuild, HeapifyReturn, HeapDone, Finish
<1> QED
  BY <1>2, <1>3, <1>4, <1>5, <1>6, <1>7

\* The insertion sorts move the held element past greater ones, one place at a
\* time (main.cpp:299-302, 325-327, 352-355).
LEMMA InsertionHeld ==
  ASSUME TypeOK, Where, InsertionInv, N' = N, SentinelNext \/ InsertionNext
  PROVE  Exchange(Held, Held')
<1> USE Length
<1>1. CASE LeastEnd
  <2>1. 1 \in 1 .. N /\ mid \in 1 .. N
    BY <1>1 DEF LeastEnd, InsertionInv, Insertions, Where, TypeOK
  <2>2. Held = arr /\ Held' = Swapped(arr, 1, mid) /\ by \notin StableSorts
    BY <1>1 DEF LeastEnd, Held, Where, StableSorts
  <2> QED
    BY <2>1, <2>2 DEF Exchange
<1>2. CASE Hold \/ Bisected
  <2>1. i \in 1 .. N /\ key' = arr[i] /\ j' + 1 = i
    BY <1>2 DEF Hold, Bisected, InsertionInv, Insertions, Where, TypeOK
  <2>2. pc # "shift" /\ pc' = "shift" /\ arr' = arr
    BY <1>2 DEF Hold, Bisected
  <2>3. Held' = [arr EXCEPT ![i] = arr[i]] /\ Held = arr
    BY <2>1, <2>2 DEF Held
  <2>4. Held' = arr
    BY <2>1, <2>3 DEF TypeOK
  <2> QED
    BY <2>3, <2>4 DEF Exchange
<1>3. CASE Shift
  <2>0. by = "insertionSort" \/ by = "insertionSortBinary" \/ by = "insertionSortWithSentinel"
    BY <1>3 DEF Shift, Insertions, Where
  <2>1. j \in 1 .. N /\ j + 1 \in 1 .. N /\ arr[j].key > key.key
    <3>1. i \in 2 .. N /\ j \in 0 .. i - 1
      BY <1>3 DEF Shift, InsertionInv, Where, TypeOK
    <3>2. j >= 1 /\ arr[j].key > key.key
      <4>1. CASE by = "insertionSort"
        BY <1>3, <4>1 DEF Shift, MustShift
      <4>2. CASE by = "insertionSortBinary"
        <5>1. 1 <= low /\ \A x \in low .. j : arr[x].key > key.key
          BY <1>3, <4>2 DEF Shift, InsertionInv, Insertions
        <5>2. j >= low
          BY <1>3, <4>2 DEF Shift, MustShift
        <5>3. low \in Int /\ j \in Int
          BY DEF TypeOK
        <5> QED
          BY <5>1, <5>2, <5>3
      <4>3. CASE by = "insertionSortWithSentinel"
        <5>1. 1 <= j
          BY <1>3, <4>3 DEF Shift, InsertionInv, Insertions
        <5>2. arr[j].key > key.key
          BY <1>3, <4>3 DEF Shift, MustShift
        <5> QED
          BY <3>1, <5>1, <5>2
      <4> QED
        BY <2>0, <4>1, <4>2, <4>3
    <3> QED
      BY <3>1, <3>2
  <2>2. key \in Element /\ j' + 1 = j /\ j # j + 1
    BY <1>3 DEF Shift, InsertionInv, Where, TypeOK
  <2>3. Held = [arr EXCEPT ![j + 1] = key]
    BY <1>3 DEF Shift, Held
  <2>4. Held' = [[arr EXCEPT ![j + 1] = arr[j]] EXCEPT ![j] = key]
    BY <1>3, <2>2 DEF Shift, Held
  <2>5. Held' = Swapped(Held, j, j + 1)
    <3> DEFINE H == [arr EXCEPT ![j + 1] = key]
    <3>1. H[j] = arr[j] /\ H[j + 1] = key /\ H \in [1 .. N -> Element]
      BY <2>1, <2>2 DEF TypeOK
    <3>2. Swapped(H, j, j + 1) = [[H EXCEPT ![j] = key] EXCEPT ![j + 1] = arr[j]]
      BY <3>1 DEF Swapped
    <3>3. [[H EXCEPT ![j] = key] EXCEPT ![j + 1] = arr[j]]
            = [[arr EXCEPT ![j + 1] = arr[j]] EXCEPT ![j] = key]
      BY <2>1, <2>2 DEF TypeOK
    <3> QED
      BY <2>3, <2>4, <3>2, <3>3
  <2>6. Held[j].key > Held[j + 1].key
    BY <2>1, <2>2, <2>3 DEF TypeOK
  <2> QED
    BY <2>1, <2>5, <2>6 DEF Exchange
<1>4. CASE Insert
  BY <1>4 DEF Insert, Held, Exchange
<1>5. CASE ~(LeastEnd \/ Hold \/ Bisected \/ Shift \/ Insert)
  BY <1>5 DEF SentinelNext, SentinelStart, SentinelSkip, LeastStep, InsertionNext,
              InsertionStart, HoldBinary, Bisect, InsertionDone, Finish, Held, Exchange
<1> QED
  BY <1>1, <1>2, <1>3, <1>4, <1>5

\* The merge sorts change the array when they write a merged run back only
\* (main.cpp:86-89).
LEMMA MergeHeld ==
  ASSUME TypeOK, Where, N' = N, HelperNext \/ BottomUpNext \/ MergeNext, ~WriteBack
  PROVE  Exchange(Held, Held')
BY DEF HelperNext, MergeStart, HelperReturn, HelperHalves, HelperMerge, HelperDone,
       BottomUpNext, BottomUpStart, Segment, EndOfPass, BottomUpDone,
       MergeNext, TakeLeft, TakeRight, Finish, Held, Exchange, Where, BottomUp

\* Exchanges keep the elements, and the order of equal keys where the sort is
\* stable (main.cpp:300, 326).
LEMMA ExchangeKeeps ==
  ASSUME NEW a \in [1 .. N -> Element], NEW b, N \in Nat, Exchange(a, b)
  PROVE  /\ Elements(b) = Elements(a)
         /\ by \in StableSorts /\ InInputOrder(a) => InInputOrder(b)
<1>1. CASE b = a
  BY <1>1
<1>2. CASE b # a
  <2>1. PICK p \in 1 .. N, q \in 1 .. N :
          /\ b = Swapped(a, p, q)
          /\ by \in StableSorts => q = p + 1 /\ a[p].key > a[q].key
    BY <1>2 DEF Exchange
  <2>2. /\ Elements(b) = Elements(a)
        /\ \A x \in 1 .. N : b[x] = IF x = p THEN a[q] ELSE IF x = q THEN a[p] ELSE a[x]
    BY <2>1, SwapFacts
  <2>3. ASSUME by \in StableSorts, InInputOrder(a) PROVE InInputOrder(b)
    <3> SUFFICES ASSUME NEW x \in 1 .. N, NEW y \in 1 .. N, x < y, b[x].key = b[y].key
                 PROVE  b[x].id < b[y].id
      BY DEF InInputOrder
    <3>1. q = p + 1 /\ a[p].key > a[q].key /\ p \in Int
      BY <2>1, <2>3
    <3>2. \A z \in 1 .. N : a[z].key \in Int
      BY DEF Element
    <3>3. ~(x = p /\ y = q)
      BY <2>2, <3>1, <3>2
    <3> DEFINE u == IF x = p THEN q ELSE IF x = q THEN p ELSE x
               v == IF y = p THEN q ELSE IF y = q THEN p ELSE y
    <3>4. u \in 1 .. N /\ v \in 1 .. N /\ u < v
      BY <3>1, <3>3
    <3>5. b[x] = a[u] /\ b[y] = a[v]
      BY <2>2
    <3> QED
      BY <2>3, <3>4, <3>5 DEF InInputOrder
  <2> QED
    BY <2>2, <2>3
<1> QED
  BY <1>1, <1>2

\* What a write-back does: low .. high keeps its members, and is in order.
WrittenBack(a, b, l, h) ==
  /\ \A k \in 1 .. N : k < l \/ h < k => b[k] = a[k]
  /\ \A k \in l .. h : \E m \in l .. h : b[k] = a[m]
  /\ \A m \in l .. h : \E k \in l .. h : b[k] = a[m]
  /\ Run(b, l, h)

\* A merge fills low .. high with its members, in order (main.cpp:86-89, 119).
LEMMA WriteBackFacts ==
  ASSUME TypeOK, MergeInv, WriteBack
  PROVE  1 <= low /\ high <= N /\ WrittenBack(arr, arr', low, high)
<1> USE Length
<1>0. /\ low \in Int /\ high \in Int /\ mid \in Int /\ i \in Int /\ j \in Int
      /\ pc = "merge" /\ i > mid /\ j > high
  BY DEF WriteBack, TypeOK
<1>1. /\ low \in Int /\ high \in Int /\ mid \in Int /\ 1 <= low /\ high <= N
      /\ i = mid + 1 /\ j = high + 1 /\ Len(out) = high - low + 1 /\ low <= mid + 1 /\ mid <= high
  BY <1>0 DEF MergeInv
<1>2. (low .. i - 1) \cup (mid + 1 .. j - 1) = low .. high
  BY <1>1
<1>3. \A k \in 1 .. N : arr'[k] = IF low <= k /\ k <= high THEN out[k - low + 1] ELSE arr[k]
  BY DEF WriteBack
<1>4. \A k \in low .. high : k - low + 1 \in 1 .. Len(out) /\ k \in 1 .. N /\ arr'[k] = out[k - low + 1]
  <2>1. \A k \in low .. high : k - low + 1 \in 1 .. Len(out) /\ k \in 1 .. N /\ low <= k /\ k <= high
    BY <1>1
  <2> QED
    BY <1>3, <2>1
<1>5. \A x \in 1 .. Len(out) : x + low - 1 \in low .. high /\ arr'[x + low - 1] = out[x]
  <2> SUFFICES ASSUME NEW x \in 1 .. Len(out)
               PROVE  x + low - 1 \in low .. high /\ arr'[x + low - 1] = out[x]
    OBVIOUS
  <2>1. x + low - 1 \in low .. high /\ (x + low - 1) - low + 1 = x
    BY <1>1
  <2> QED
    BY <1>4, <2>1
<1>6. \A k \in low .. high : \E m \in low .. high : arr'[k] = arr[m]
  BY <1>2, <1>4 DEF MergeInv, Merged, WriteBack
<1>7. \A m \in low .. high : \E k \in low .. high : arr'[k] = arr[m]
  <2>1. \A m \in low .. high : \E x \in 1 .. Len(out) : out[x] = arr[m]
    BY <1>0, <1>2 DEF MergeInv, Merged
  <2> QED
    BY <1>5, <2>1
<1>8. \A x, y \in low .. high : x < y => x - low + 1 < y - low + 1
  BY <1>1
<1>9. Run(arr', low, high)
  BY <1>4, <1>8 DEF Run, MergeInv, Merged, WriteBack
<1>10. \A k \in 1 .. N : k < low \/ high < k => arr'[k] = arr[k]
  BY <1>1, <1>3
<1> QED
  BY <1>1, <1>6, <1>7, <1>9, <1>10 DEF WrittenBack

\* A write-back keeps the elements (main.cpp:86-89, 157).
LEMMA WriteBackKeeps ==
  ASSUME N \in Nat, NEW a \in [1 .. N -> Element], NEW b \in [1 .. N -> Element],
         NEW l \in Int, NEW h \in Int, 1 <= l, h <= N, WrittenBack(a, b, l, h)
  PROVE  Elements(b) = Elements(a)
<1>0. \A k \in l .. h : k \in 1 .. N
  OBVIOUS
<1>1. \A k \in 1 .. N : \E m \in 1 .. N : b[k] = a[m]
  BY <1>0 DEF WrittenBack
<1>2. \A m \in 1 .. N : \E k \in 1 .. N : b[k] = a[m]
  BY <1>0 DEF WrittenBack
<1> QED
  BY <1>1, <1>2 DEF Elements

\* No step loses or repeats an element, and those of a stable sort keep equal
\* keys in order (main.cpp:31, 86-89, 299-303).
LEMMA KeptStep ==
  ASSUME SInv, Next, TypeOK', N' = N, input' = input, by' = by
  PROVE  Kept' /\ KeepsOrder'
<1> USE Length
<1>0. /\ TypeOK /\ Where /\ Kept /\ KeepsOrder /\ QuickInv /\ HoareInv /\ HeapInv
      /\ MergeInv /\ InsertionInv /\ Held \in [1 .. N -> Element]
  BY HeldType DEF SInv
<1>1. CASE WriteBack
  <2>1. Held = arr /\ Held' = arr' /\ arr \in [1 .. N -> Element] /\ arr' \in [1 .. N -> Element]
        /\ by \notin {"insertionSort", "insertionSortBinary"} /\ low \in Int /\ high \in Int
    BY <1>0, <1>1 DEF WriteBack, Held, TypeOK, Where, BottomUp
  <2>2. Elements(arr') = Elements(arr)
    BY <1>0, <1>1, <2>1, WriteBackFacts, WriteBackKeeps
  <2>3. Elements(Held)' = Elements(arr') /\ Elements(input)' = Elements(input)
    BY <2>1 DEF Elements
  <2>4. Kept'
    BY <1>0, <2>1, <2>2, <2>3 DEF Kept
  <2>5. KeepsOrder'
    BY <2>1 DEF KeepsOrder
  <2> QED
    BY <2>4, <2>5
<1>2. CASE ~WriteBack
  <2>1. Exchange(Held, Held')
    BY <1>0, <1>2, ExchangeHeld, InsertionHeld, MergeHeld DEF Next
  <2>2. /\ Elements(Held') = Elements(Held)
        /\ by \in StableSorts /\ InInputOrder(Held) => InInputOrder(Held')
    BY <1>0, <2>1, ExchangeKeeps
  <2>3. Elements(Held)' = Elements(Held') /\ Elements(input)' = Elements(input)
    BY DEF Elements
  <2>4. InInputOrder(Held)' <=> InInputOrder(Held')
    BY DEF InInputOrder
  <2>5. Kept'
    BY <1>0, <2>2, <2>3 DEF Kept
  <2>6. KeepsOrder'
    BY <1>0, <2>2, <2>4 DEF KeepsOrder, StableSorts
  <2> QED
    BY <2>5, <2>6
<1> QED
  BY <1>1, <1>2

-----------------------------------------------------------------------------
(* Quick sort *)

\* A call that is popped (main.cpp:45).
LEMMA Popped ==
  ASSUME N \in Nat, NEW S \in Seq(Call), S # <<>>, NEW p, Apart(S), Fit(S, p)
  PROVE  /\ Apart(Tail(S)) /\ Fit(Tail(S), p)
         /\ Clear(Tail(S), S[1].low, S[1].high)
         /\ S[1].low >= 1 /\ S[1].high <= N /\ ~ Within(S[1], p, p)
         /\ \A x, y : In(S, x, y) <=> Within(S[1], x, y) \/ In(Tail(S), x, y)
<1> DEFINE T == Tail(S)
<1>1. /\ DOMAIN S = 1 .. Len(S) /\ Len(S) \in Nat /\ Len(S) >= 1
      /\ DOMAIN T = 1 .. Len(S) - 1
      /\ \A k \in 1 .. Len(S) - 1 : T[k] = S[k + 1]
  BY CallFacts
<1>2. \A k \in DOMAIN T : k + 1 \in DOMAIN S /\ k + 1 # 1 /\ T[k] = S[k + 1]
  BY <1>1
<1>3. \A k \in DOMAIN S : k # 1 => k - 1 \in DOMAIN T /\ T[k - 1] = S[k]
  <2> SUFFICES ASSUME NEW k \in DOMAIN S, k # 1 PROVE k - 1 \in DOMAIN T /\ T[k - 1] = S[k]
    OBVIOUS
  <2>1. k - 1 \in 1 .. Len(S) - 1 /\ (k - 1) + 1 = k
    BY <1>1
  <2> QED
    BY <1>1, <2>1
<1>4. 1 \in DOMAIN S /\ \A k, m \in DOMAIN T : k # m => k + 1 # m + 1
  BY <1>1
<1> HIDE DEF T
<1>5. Apart(T)
  BY <1>2, <1>4 DEF Apart
<1>6. Fit(T, p)
  BY <1>2 DEF Fit
<1>7. Clear(T, S[1].low, S[1].high)
  BY <1>2, <1>4 DEF Apart, Clear, Within
<1>8. \A x, y : In(S, x, y) <=> Within(S[1], x, y) \/ In(T, x, y)
  BY <1>2, <1>3, <1>4 DEF In
<1>9. S[1].low >= 1 /\ S[1].high <= N /\ ~ Within(S[1], p, p)
  BY <1>4 DEF Fit
<1> QED
  BY <1>5, <1>6, <1>7, <1>8, <1>9 DEF T

\* Two calls pushed for the two parts of l .. h (main.cpp:47-48).
LEMMA Pushed ==
  ASSUME N \in Nat, NEW S \in Seq(Call), NEW c \in Call, NEW d \in Call, NEW p \in Int,
         NEW l \in Int, NEW h \in Int, NEW m \in Int, Apart(S), Fit(S, p), Clear(S, l, h),
         1 <= l, h <= N, ~(l <= p /\ p <= h) \/ p = m, l <= m, m <= h,
         c.low = l, c.high = m - 1, d.low = m + 1, d.high = h
  PROVE  /\ Apart(<<c, d>> \o S) /\ Fit(<<c, d>> \o S, p)
         /\ \A x, y : In(<<c, d>> \o S, x, y) <=> Within(c, x, y) \/ Within(d, x, y) \/ In(S, x, y)
<1> DEFINE T == <<c, d>> \o S
<1>1. /\ DOMAIN S = 1 .. Len(S) /\ Len(S) \in Nat
      /\ DOMAIN T = 1 .. Len(S) + 2
      /\ T[1] = c /\ T[2] = d /\ \A k \in 3 .. Len(S) + 2 : T[k] = S[k - 2]
  BY ConcatProperties
<1>2. \A k \in DOMAIN T : k = 1 \/ k = 2 \/ (k - 2 \in DOMAIN S /\ T[k] = S[k - 2] /\ k # 1 /\ k # 2)
  BY <1>1
<1>3. \A k \in DOMAIN S : k + 2 \in DOMAIN T /\ T[k + 2] = S[k]
  <2> SUFFICES ASSUME NEW k \in DOMAIN S PROVE k + 2 \in DOMAIN T /\ T[k + 2] = S[k]
    OBVIOUS
  <2>1. k + 2 \in 3 .. Len(S) + 2 /\ (k + 2) - 2 = k
    BY <1>1
  <2> QED
    BY <1>1, <2>1
<1>4. 1 \in DOMAIN T /\ 2 \in DOMAIN T /\ T[1] = c /\ T[2] = d
  BY <1>1
<1>5. \A k, r \in DOMAIN T : k # r => k - 2 # r - 2
  BY <1>1
<1> HIDE DEF T
<1>6. \A x \in 1 .. N : /\ Within(c, x, x) => l <= x /\ x <= h
                        /\ Within(d, x, x) => l <= x /\ x <= h
                        /\ ~(Within(c, x, x) /\ Within(d, x, x))
  BY DEF Within
<1>7. Apart(T)
  <2> SUFFICES ASSUME NEW k \in DOMAIN T, NEW r \in DOMAIN T, k # r, NEW x \in 1 .. N,
                      Within(T[k], x, x), Within(T[r], x, x)
               PROVE  FALSE
    BY DEF Apart
  <2>1. \A s \in DOMAIN S : Within(S[s], x, x) => ~(l <= x /\ x <= h)
    BY DEF Clear
  <2>2. CASE k \in {1, 2} /\ r \in {1, 2}
    BY <1>4, <1>6, <2>2
  <2>3. CASE k \in {1, 2} /\ r \notin {1, 2}
    BY <1>2, <1>4, <1>6, <2>1, <2>3
  <2>4. CASE k \notin {1, 2} /\ r \in {1, 2}
    BY <1>2, <1>4, <1>6, <2>1, <2>4
  <2>5. CASE k \notin {1, 2} /\ r \notin {1, 2}
    BY <1>2, <1>5, <2>5 DEF Apart
  <2> QED
    BY <2>2, <2>3, <2>4, <2>5
<1>8. Fit(T, p)
  <2>1. /\ c.low >= 1 /\ c.high <= N /\ ~Within(c, p, p)
        /\ d.low >= 1 /\ d.high <= N /\ ~Within(d, p, p)
    BY DEF Within
  <2> QED
    BY <1>2, <1>4, <2>1 DEF Fit
<1>9. \A x, y : In(T, x, y) <=> Within(c, x, y) \/ Within(d, x, y) \/ In(S, x, y)
  BY <1>2, <1>3, <1>4 DEF In
<1> QED
  BY <1>7, <1>8, <1>9 DEF T

\* Around p, two places are in order unless S or l .. h has both.
Ordered(a, S, p, l, h) ==
  \A x, y \in 1 .. N :
    x < y /\ y # p => \/ a[x].key <= a[y].key
                      \/ In(S, x, y)
                      \/ l <= x /\ y <= h

\* Whatever moves inside l .. h, the order around it stays (main.cpp:27-34).
LEMMA Shuffled ==
  ASSUME N \in Nat, NEW a \in [1 .. N -> Element], NEW b \in [1 .. N -> Element],
         NEW S \in Seq(Call), NEW p, NEW l \in Int, NEW h \in Int,
         1 <= l, h <= N, Clear(S, l, h), ~(l <= p /\ p <= h), p \in Int,
         Ordered(a, S, p, l, h),
         \A k \in 1 .. N : k < l \/ h < k => b[k] = a[k],
         \A k \in l .. h : \E m \in l .. h : b[k] = a[m]
  PROVE  Ordered(b, S, p, l, h)
<1> SUFFICES ASSUME NEW x \in 1 .. N, NEW y \in 1 .. N, x < y, y # p,
                    ~ In(S, x, y), ~(l <= x /\ y <= h)
             PROVE  b[x].key <= b[y].key
  BY DEF Ordered
<1>0. \A k \in DOMAIN S : S[k].low \in Int /\ S[k].high \in Int
  <2> SUFFICES ASSUME NEW k \in DOMAIN S PROVE S[k].low \in Int /\ S[k].high \in Int
    OBVIOUS
  <2>1. S[k] \in Call
    BY ElementOfSeq
  <2> QED
    BY <2>1 DEF Call
<1>1. \A m \in l .. h : \A z \in 1 .. N :
        /\ m < z => ~ In(S, m, z)
        /\ z < m => ~ In(S, z, m)
  BY <1>0 DEF Clear, In, Within
<1>2. CASE l <= x /\ x <= h
  <2>1. PICK m \in l .. h : b[x] = a[m]
    BY <1>2
  <2>2. m < y /\ h < y /\ b[y] = a[y] /\ m \in 1 .. N
    BY <1>2
  <2> QED
    BY <1>1, <2>1, <2>2 DEF Ordered
<1>3. CASE l <= y /\ y <= h
  <2>1. PICK m \in l .. h : b[y] = a[m]
    BY <1>3
  <2>2. x < m /\ x < l /\ b[x] = a[x] /\ m \in 1 .. N /\ m # p
    BY <1>3
  <2> QED
    BY <1>1, <2>1, <2>2 DEF Ordered
<1>4. CASE ~(l <= x /\ x <= h) /\ ~(l <= y /\ y <= h)
  <2>1. b[x] = a[x] /\ b[y] = a[y]
    BY <1>4
  <2> QED
    BY <2>1 DEF Ordered
<1> QED
  BY <1>2, <1>3, <1>4

\* One element more is compared with the pivot (main.cpp:27-33).
LEMMA PartitionStepKeeps ==
  ASSUME TypeOK, TypeOK', N' = N, QuickInv, by \in QuickSorts, PartitionStep
  PROVE  /\ PartitionInv'
         /\ OrderedAround'
<1> USE Length
<1>0. PartitionInv /\ OrderedAround /\ Clear(calls, low, high) /\ pc = "partition"
  BY DEF PartitionStep, QuickInv
<1>1. /\ low \in 1 .. N /\ high \in 1 .. N /\ low < high /\ i \in Int /\ j \in low .. high - 1
      /\ low - 1 <= i /\ i < j /\ i + 1 \in 1 .. N /\ j \in 1 .. N
  BY <1>0 DEF PartitionStep, PartitionInv, TypeOK
<1>2. /\ low' = low /\ high' = high /\ key' = key /\ piviot' = piviot /\ calls' = calls
      /\ j' = j + 1 /\ pc' = "partition"
  BY <1>0 DEF PartitionStep
<1>3. \A k \in 1 .. N : arr[k].key \in Int
  BY DEF TypeOK, Element
<1>4. CASE arr[j].key < key.key
  <2>1. i' = i + 1 /\ arr' = Swapped(arr, i + 1, j)
    BY <1>4 DEF PartitionStep
  <2>2. \A x \in 1 .. N : arr'[x] = IF x = i + 1 THEN arr[j] ELSE IF x = j THEN arr[i + 1] ELSE arr[x]
    <3>1. arr \in [1 .. N -> Element] /\ N \in Nat
      BY DEF TypeOK
    <3> QED
      BY <1>1, <2>1, <3>1, SwapFacts
  <2>3. PartitionInv'
    <3>1. \A x \in low .. i + 1 : arr'[x].key < key.key
      BY <1>0, <1>1, <1>4, <2>2 DEF PartitionInv
    <3>2. \A x \in i + 2 .. j : arr'[x].key >= key.key
      <4> SUFFICES ASSUME NEW x \in i + 2 .. j PROVE arr'[x].key >= key.key
        OBVIOUS
      <4>1. CASE x = j
        BY <1>0, <1>1, <2>2, <4>1 DEF PartitionInv
      <4>2. CASE x # j
        BY <1>0, <1>1, <2>2, <4>2 DEF PartitionInv
      <4> QED
        BY <4>1, <4>2
    <3>3. arr'[high].key = key.key
      BY <1>0, <1>1, <2>2 DEF PartitionInv
    <3> QED
      BY <1>0, <1>1, <1>2, <2>1, <3>1, <3>2, <3>3 DEF PartitionInv
  <2>4. OrderedAround'
    <3>1. Ordered(arr, calls, piviot, low, high)
      BY <1>0 DEF OrderedAround, Ordered
    <3>2. /\ \A k \in 1 .. N : k < low \/ high < k => arr'[k] = arr[k]
          /\ \A k \in low .. high : \E m \in low .. high : arr'[k] = arr[m]
      BY <1>1, <2>2
    <3>3. Ordered(arr', calls, piviot, low, high)
      BY <1>0, <1>1, <3>1, <3>2, Shuffled DEF TypeOK, PartitionInv
    <3> QED
      BY <1>2, <3>3 DEF OrderedAround, Ordered, In
  <2> QED
    BY <2>3, <2>4
<1>5. CASE ~(arr[j].key < key.key)
  <2>1. i' = i /\ arr' = arr
    BY <1>5 DEF PartitionStep
  <2>2. arr[j].key >= key.key
    <3>1. arr[j].key \in Int /\ key.key \in Int
      BY <1>1, <1>3 DEF TypeOK
    <3> QED
      BY <1>5, <3>1
  <2>3. PartitionInv'
    BY <1>0, <1>1, <1>2, <2>1, <2>2 DEF PartitionInv
  <2> QED
    BY <1>0, <1>2, <2>1, <2>3 DEF OrderedAround, In
<1> QED
  BY <1>4, <1>5

\* The pivot gets its place, and the two parts are pending (main.cpp:34-35).
LEMMA PartitionEndKeeps ==
  ASSUME TypeOK, TypeOK', N' = N, QuickInv, by \in QuickSorts, PartitionEnd
  PROVE  Apart(calls') /\ Fit(calls', piviot) /\ OrderedAround'
<1> USE Length
<1>0. /\ PartitionInv /\ OrderedAround /\ Clear(calls, low, high) /\ pc = "partition"
      /\ Apart(calls) /\ Fit(calls, piviot)
  BY DEF PartitionEnd, QuickInv
<1>1. /\ low \in 1 .. N /\ high \in 1 .. N /\ low < high /\ i \in Int /\ j = high
      /\ low - 1 <= i /\ i < high /\ i + 1 \in low .. high /\ i + 1 \in 1 .. N
  <2>1. low \in Int /\ high \in Int /\ i \in Int /\ j \in Int /\ N \in Nat
    BY DEF TypeOK
  <2>2. 1 <= low /\ low < high /\ high <= N /\ low - 1 <= i /\ i < j /\ j <= high /\ j >= high
    BY <1>0 DEF PartitionEnd, PartitionInv
  <2> QED
    BY <2>1, <2>2
<1>2. \A x \in 1 .. N : arr'[x] = IF x = i + 1 THEN arr[high] ELSE IF x = high THEN arr[i + 1] ELSE arr[x]
  <2>1. arr \in [1 .. N -> Element] /\ N \in Nat
    BY DEF TypeOK
  <2>2. arr' = Swapped(arr, i + 1, high)
    BY DEF PartitionEnd
  <2> QED
    BY <1>1, <2>1, <2>2, SwapFacts
<1> DEFINE c == SortCall(low, i)
           d == SortCall(i + 2, high)
<1>3. /\ c \in Call /\ d \in Call /\ c.low = low /\ c.high = (i + 1) - 1
      /\ d.low = (i + 1) + 1 /\ d.high = high /\ c.high = i /\ d.low = i + 2
  BY <1>1 DEF SortCall, Call
<1>4. calls' = <<c, d>> \o calls /\ pc' = "call" /\ piviot' = piviot
  BY DEF PartitionEnd, locals
<1> HIDE DEF c, d
<1>5. /\ Apart(calls') /\ Fit(calls', piviot)
      /\ \A x, y : In(calls', x, y) <=> Within(c, x, y) \/ Within(d, x, y) \/ In(calls, x, y)
  <2>1. low \in Int /\ high \in Int /\ i + 1 \in Int /\ piviot \in Int /\ calls \in Seq(Call)
        /\ ~(low <= piviot /\ piviot <= high) /\ 1 <= low /\ high <= N
        /\ low <= i + 1 /\ i + 1 <= high /\ N \in Nat
    <3>1. piviot \in Int /\ calls \in Seq(Call) /\ N \in Nat
      BY DEF TypeOK
    <3>2. ~(low <= piviot /\ piviot <= high)
      BY <1>0 DEF PartitionInv
    <3> QED
      BY <1>1, <3>1, <3>2
  <2> QED
    BY <1>0, <1>3, <1>4, <2>1, Pushed
<1>6. Ordered(arr', calls, piviot, low, high)
  <2>1. Ordered(arr, calls, piviot, low, high)
    BY <1>0 DEF OrderedAround, Ordered
  <2>2. /\ \A k \in 1 .. N : k < low \/ high < k => arr'[k] = arr[k]
        /\ \A k \in low .. high : \E m \in low .. high : arr'[k] = arr[m]
    BY <1>1, <1>2
  <2> QED
    BY <1>0, <1>1, <2>1, <2>2, Shuffled DEF TypeOK, PartitionInv
<1>7. \A k \in 1 .. N : arr[k].key \in Int
  BY DEF TypeOK, Element
<1>8. key.key \in Int
  BY DEF TypeOK
<1>9. \A x \in low .. i + 1 : arr'[x].key <= key.key
  <2> SUFFICES ASSUME NEW x \in low .. i + 1 PROVE arr'[x].key <= key.key
    OBVIOUS
  <2>1. CASE x = i + 1
    BY <1>0, <1>1, <1>2, <1>8, <2>1 DEF PartitionInv
  <2>2. CASE x # i + 1
    <3>1. x \in low .. i /\ x \in 1 .. N /\ arr'[x] = arr[x]
      BY <1>1, <1>2, <2>2
    <3> QED
      BY <1>0, <1>7, <1>8, <3>1 DEF PartitionInv
  <2> QED
    BY <2>1, <2>2
<1>10. \A x \in i + 1 .. high : arr'[x].key >= key.key
  <2> SUFFICES ASSUME NEW x \in i + 1 .. high PROVE arr'[x].key >= key.key
    OBVIOUS
  <2>1. CASE x = i + 1
    BY <1>0, <1>1, <1>2, <1>8, <2>1 DEF PartitionInv
  <2>2. CASE x # i + 1 /\ x = high
    <3>1. i + 1 \in i + 1 .. j - 1 /\ arr'[x] = arr[i + 1]
      BY <1>1, <1>2, <2>2
    <3> QED
      BY <1>0, <3>1 DEF PartitionInv
  <2>3. CASE x # i + 1 /\ x # high
    <3>1. x \in i + 1 .. j - 1 /\ arr'[x] = arr[x]
      BY <1>1, <1>2, <2>3
    <3> QED
      BY <1>0, <3>1 DEF PartitionInv
  <2> QED
    BY <2>1, <2>2, <2>3
<1>11. OrderedAround'
  <2> SUFFICES ASSUME NEW x \in 1 .. N, NEW y \in 1 .. N, x < y, y # piviot,
                      ~ Within(c, x, y), ~ Within(d, x, y), ~ In(calls, x, y)
               PROVE  arr'[x].key <= arr'[y].key
    BY <1>4, <1>5 DEF OrderedAround, In
  <2>1. CASE low <= x /\ y <= high
    <3>1. x \in low .. i + 1 /\ y \in i + 1 .. high
      BY <1>1, <1>3, <2>1 DEF Within
    <3>2. arr'[x].key \in Int /\ arr'[y].key \in Int
      BY DEF TypeOK, Element
    <3> QED
      BY <1>8, <1>9, <1>10, <3>1, <3>2
  <2>2. CASE ~(low <= x /\ y <= high)
    BY <1>6, <2>2 DEF Ordered
  <2> QED
    BY <2>1, <2>2
<1> QED
  BY <1>5, <1>11

\* quickSort's calls and its partition (main.cpp:24-50).
LEMMA QuickNextKeeps ==
  ASSUME TypeOK, TypeOK', Where, Where', N' = N, by' = by, QuickInv, by \in QuickSorts, QuickNext
  PROVE  QuickInv'
<1> USE Length
<1>1. CASE QuickStart
  <2>1. /\ calls' = <<SortCall(1, N)>> /\ piviot' = piviot /\ pc' = "call" /\ arr' = arr
        /\ by = "quickSort" /\ piviot = 0
    BY <1>1 DEF QuickStart, QuickInv, locals
  <2>2. DOMAIN calls' = {1} /\ calls'[1] = SortCall(1, N) /\ SortCall(1, N).low = 1
        /\ SortCall(1, N).high = N
    BY <2>1 DEF SortCall
  <2>3. Apart(calls') /\ Fit(calls', 0) /\ \A x, y \in 1 .. N : In(calls', x, y)
    BY <2>2 DEF Apart, Fit, In, Within
  <2>4. Apart(calls)' /\ Fit(calls, piviot)' /\ OrderedAround'
    BY <2>1, <2>3 DEF Apart, Fit, In, OrderedAround
  <2> QED
    BY <2>1, <2>4 DEF QuickInv
<1>2. CASE QuickReturn
  <2>1. calls \in Seq(Call) /\ calls # <<>> /\ calls' = Tail(calls) /\ pc = "call" /\ arr' = arr
        /\ UNCHANGED <<pc, piviot>> /\ calls[1] \in Call /\ calls[1].low >= calls[1].high
    BY <1>2, CallFacts DEF QuickReturn, TypeOK, locals
  <2>2. Apart(calls) /\ Fit(calls, piviot) /\ OrderedAround
    BY <2>1 DEF QuickInv
  <2>3. /\ Apart(calls') /\ Fit(calls', piviot)
        /\ \A x, y : In(calls, x, y) <=> Within(calls[1], x, y) \/ In(calls', x, y)
    BY <2>1, <2>2, Popped
  <2>4. \A x, y \in 1 .. N : x < y => ~ Within(calls[1], x, y)
    BY <2>1 DEF Within, Call
  <2>5. OrderedAround'
    BY <2>1, <2>2, <2>3, <2>4 DEF OrderedAround, In
  <2>6. Apart(calls)' /\ Fit(calls, piviot)'
    BY <2>1, <2>3 DEF Apart, Fit
  <2> QED
    BY <2>1, <2>5, <2>6 DEF QuickInv
<1>3. CASE QuickCall
  <2>1. calls \in Seq(Call) /\ calls # <<>> /\ calls' = Tail(calls) /\ pc = "call" /\ arr' = arr
        /\ pc' = "partition" /\ piviot' = piviot /\ calls[1] \in Call /\ calls[1].low < calls[1].high
        /\ low' = calls[1].low /\ high' = calls[1].high /\ i' = calls[1].low - 1
        /\ j' = calls[1].low /\ key' = arr[calls[1].high]
    BY <1>3, CallFacts DEF QuickCall, TypeOK
  <2>2. Apart(calls) /\ Fit(calls, piviot) /\ OrderedAround
    BY <2>1 DEF QuickInv
  <2>3. /\ Apart(calls') /\ Fit(calls', piviot) /\ Clear(calls', low', high')
        /\ low' >= 1 /\ high' <= N /\ ~ Within(calls[1], piviot, piviot)
        /\ \A x, y : In(calls, x, y) <=> Within(calls[1], x, y) \/ In(calls', x, y)
    BY <2>1, <2>2, Popped
  <2>4. OrderedAround'
    <3>1. \A x, y \in 1 .. N :
            x < y /\ y # piviot => \/ arr'[x].key <= arr'[y].key
                                   \/ Within(calls[1], x, y) \/ In(calls', x, y)
      BY <2>1, <2>2, <2>3 DEF OrderedAround
    <3>2. \A x, y : Within(calls[1], x, y) => low' <= x /\ y <= high'
      BY <2>1 DEF Within
    <3> QED
      BY <2>1, <3>1, <3>2 DEF OrderedAround, In
  <2>5. Apart(calls)' /\ Fit(calls, piviot)' /\ Clear(calls, low, high)'
    BY <2>1, <2>3 DEF Apart, Fit, Clear
  <2>6. PartitionInv'
    <3>1. low' \in Int /\ high' \in Int /\ low' < high'
      BY <2>1 DEF Call
    <3> QED
      BY <2>1, <2>3, <3>1 DEF PartitionInv, Within
  <2> QED
    BY <2>1, <2>4, <2>5, <2>6 DEF QuickInv
<1>4. CASE PartitionStep
  <2>1. PartitionInv' /\ OrderedAround'
    BY <1>4, PartitionStepKeeps
  <2>2. /\ low' = low /\ high' = high /\ piviot' = piviot /\ calls' = calls
        /\ pc = "partition" /\ pc' = "partition"
    BY <1>4 DEF PartitionStep
  <2>3. Apart(calls)' /\ Fit(calls, piviot)' /\ Clear(calls, low, high)'
    BY <2>2 DEF QuickInv, Apart, Fit, Clear
  <2> QED
    BY <2>1, <2>2, <2>3 DEF QuickInv
<1>5. CASE PartitionEnd
  <2>1. Apart(calls') /\ Fit(calls', piviot) /\ OrderedAround'
    BY <1>5, PartitionEndKeeps
  <2>2. piviot' = piviot /\ pc = "partition" /\ pc' = "call"
    BY <1>5 DEF PartitionEnd, locals
  <2>3. Apart(calls)' /\ Fit(calls, piviot)'
    BY <2>1, <2>2 DEF Apart, Fit
  <2> QED
    BY <2>1, <2>2, <2>3 DEF QuickInv
<1>6. CASE QuickDone
  <2>1. /\ pc = "call" /\ pc' = "done" /\ calls = <<>> /\ calls' = calls /\ arr' = arr
        /\ piviot' = piviot
    BY <1>6 DEF QuickDone, Finish, locals
  <2>2. OrderedAround'
    BY <2>1 DEF QuickInv, OrderedAround, In
  <2> QED
    BY <2>1, <2>2 DEF QuickInv
<1> QED
  BY <1>1, <1>2, <1>3, <1>4, <1>5, <1>6 DEF QuickNext

\* quickSortH calls quickSort for the two sides of the place returned
\* (main.cpp:53-55).
LEMMA HoareReturnKeeps ==
  ASSUME TypeOK, TypeOK', N' = N, by' = by, QuickInv, HoareInv, by = "quickSortH", HoareReturn
  PROVE  QuickInv'
<1> USE Length
<1>1. /\ pc = "meet" /\ pc' = "call" /\ arr' = arr /\ piviot' = j /\ i >= j
      /\ calls' = <<SortCall(low, j - 1), SortCall(j + 1, high)>>
  BY DEF HoareReturn
<1>2. N > 1 /\ low = 1 /\ high = N /\ j \in 1 .. N - 1 /\ i \in 1 .. N /\ i \in Int
  <2>1. i \in Int /\ j \in Int /\ N > 1 /\ N \in Nat
    BY <1>1 DEF HoareInv, TypeOK
  <2>2. Middle \in 1 .. N - 1
    BY <2>1 DEF Middle
  <2> QED
    BY <1>1, <2>1, <2>2 DEF HoareInv
<1>3. AtMost(1, i - 1) /\ AtMost(j, j) /\ AtLeast(j + 1, N)
  BY <1>1 DEF HoareInv
<1> DEFINE c == SortCall(1, j - 1)
           d == SortCall(j + 1, N)
<1>4. c \in Call /\ d \in Call /\ c.low = 1 /\ c.high = j - 1 /\ d.low = j + 1 /\ d.high = N
  BY <1>2 DEF SortCall, Call
<1>5. calls' = <<c, d>> \o <<>>
  BY <1>1, <1>2
<1> HIDE DEF c, d
<1>6. Apart(<<>>) /\ Fit(<<>>, j) /\ Clear(<<>>, 1, N) /\ <<>> \in Seq(Call)
      /\ \A x, y : ~ In(<<>>, x, y)
  BY DEF Apart, Fit, Clear, In
<1>7. /\ Apart(calls') /\ Fit(calls', j)
      /\ \A x, y : In(calls', x, y) <=> Within(c, x, y) \/ Within(d, x, y) \/ In(<<>>, x, y)
  <2>1. 1 \in Int /\ N \in Int /\ N \in Nat /\ j \in Int /\ 1 <= 1 /\ N <= N /\ 1 <= j /\ j <= N /\ j = j
    BY <1>2
  <2> QED
    BY <1>4, <1>5, <1>6, <2>1, Pushed
<1>8. \A x \in 1 .. j : arr[x].key <= key.key
  <2>1. \A x \in 1 .. j : x \in 1 .. i - 1 \/ x \in j .. j
    BY <1>1, <1>2
  <2> QED
    BY <1>3, <2>1 DEF AtMost
<1>9. \A x \in j + 1 .. N : arr[x].key >= key.key
  BY <1>3 DEF AtLeast
<1>10. OrderedAround'
  <2> SUFFICES ASSUME NEW x \in 1 .. N, NEW y \in 1 .. N, x < y, y # j,
                      ~ Within(c, x, y), ~ Within(d, x, y)
               PROVE  arr[x].key <= arr[y].key
    BY <1>1, <1>6, <1>7 DEF OrderedAround, In
  <2>1. x \in 1 .. j /\ y \in j + 1 .. N
    BY <1>2, <1>4 DEF Within
  <2>2. arr[x].key \in Int /\ arr[y].key \in Int /\ key.key \in Int
    BY DEF TypeOK, Element
  <2> QED
    BY <1>8, <1>9, <2>1, <2>2
<1>11. Apart(calls)' /\ Fit(calls, piviot)'
  BY <1>1, <1>7 DEF Apart, Fit
<1> QED
  BY <1>1, <1>2, <1>10, <1>11 DEF QuickInv

\* Hoare's partition makes no call before it returns (main.cpp:8-23).
LEMMA HoareNextKeepsQuick ==
  ASSUME TypeOK, TypeOK', Where, N' = N, by' = by, QuickInv, HoareInv, by = "quickSortH", HoareNext
  PROVE  QuickInv'
<1> USE Length
<1>1. CASE HoareReturn
  BY <1>1, HoareReturnKeeps
<1>2. CASE HoareStart \/ ScanUp \/ ScanDown \/ HoareSwap
  BY <1>2 DEF HoareStart, ScanUp, ScanDown, HoareSwap, QuickInv, locals
<1>3. CASE HoareSkip
  <2>1. pc' = "done" /\ calls' = calls /\ piviot' = piviot /\ N <= 1 /\ pc = "start"
    BY <1>3 DEF HoareSkip, Finish, locals
  <2>2. OrderedAround'
    BY <2>1 DEF OrderedAround
  <2> QED
    BY <2>1, <2>2 DEF QuickInv
<1> QED
  BY <1>1, <1>2, <1>3 DEF HoareNext

\* What quickSort and quickSortH have brought in order (main.cpp:44-57).
LEMMA QuickStep ==
  ASSUME SInv, Next, TypeOK', Where', N' = N, by' = by,
         by \in QuickSorts => QuickNext \/ HoareNext
  PROVE  QuickInv'
<1>1. CASE by \notin QuickSorts
  BY <1>1 DEF QuickInv
<1>2. CASE by \in QuickSorts /\ QuickNext
  BY <1>2, QuickNextKeeps DEF SInv
<1>3. CASE HoareNext
  <2>1. by = "quickSortH"
    BY <1>3 DEF HoareNext, HoareStart, HoareSkip, ScanUp, ScanDown, HoareSwap, HoareReturn,
                SInv, Where
  <2> QED
    BY <1>3, <2>1, HoareNextKeepsQuick DEF SInv
<1> QED
  BY <1>1, <1>2, <1>3

-----------------------------------------------------------------------------
(* Hoare's partition *)

\* The scans from both ends, and the exchange (main.cpp:9-22).
LEMMA HoareNextKeeps ==
  ASSUME TypeOK, TypeOK', N' = N, HoareInv, HoareNext
  PROVE  HoareInv'
<1> USE Length
<1>1. /\ i \in Int /\ j \in Int /\ low \in Int /\ high \in Int /\ N \in Nat /\ key.key \in Int
      /\ arr \in [1 .. N -> Element] /\ \A k \in 1 .. N : arr[k].key \in Int
  BY DEF TypeOK, Element
<1>2. CASE HoareStart
  <2>1. /\ pc' = "up" /\ N > 1 /\ low' = 1 /\ high' = N /\ i' = 0 /\ j' = N + 1
        /\ key' = arr[Middle] /\ arr' = arr
    BY <1>2 DEF HoareStart, Middle
  <2>2. Middle \in 1 .. N - 1
    BY <1>1, <2>1 DEF Middle
  <2>3. Middle' = Middle
    BY DEF Middle
  <2>4. AtMost(1, 0)' /\ AtLeast(N + 1, N)'
    BY <1>1 DEF AtMost, AtLeast
  <2>5. AtMost(1, i)' /\ AtLeast(j, N)'
    BY <2>1, <2>4 DEF AtMost, AtLeast
  <2> QED
    BY <2>1, <2>2, <2>3, <2>5 DEF HoareInv
<1>3. CASE HoareSkip
  BY <1>3 DEF HoareSkip, Finish, HoareInv
<1>4. CASE ScanUp
  <2>1. /\ pc = "up" /\ N > 1 /\ low = 1 /\ high = N /\ AtMost(1, i) /\ AtLeast(j, N)
        /\ \/ 0 <= i /\ i < Middle /\ j = N + 1 /\ arr[Middle].key = key.key
           \/ 1 <= i /\ i < j /\ j <= N
    BY <1>4 DEF ScanUp, HoareInv
  <2>2. /\ i' = i + 1 /\ UNCHANGED <<arr, low, high, j, key>> /\ Middle' = Middle
        /\ pc' = IF arr[i + 1].key < key.key THEN "up" ELSE "down"
    BY <1>4 DEF ScanUp, Middle
  <2>3. Middle \in 1 .. N - 1
    BY <1>1, <2>1 DEF Middle
  <2>4. i + 1 \in 1 .. N /\ arr[i + 1].key \in Int /\ i >= 0
    BY <1>1, <2>1, <2>3
  <2>5. CASE arr[i + 1].key < key.key
    <3>1. AtMost(1, i + 1)
      <4> SUFFICES ASSUME NEW x \in 1 .. i + 1 PROVE arr[x].key <= key.key
        BY DEF AtMost
      <4>1. x = i + 1 \/ x \in 1 .. i
        BY <1>1, <2>4
      <4> QED
        BY <1>1, <2>1, <2>4, <2>5, <4>1 DEF AtMost
    <3>2. \/ 0 <= i + 1 /\ i + 1 < Middle /\ j = N + 1 /\ arr[Middle].key = key.key
          \/ 1 <= i + 1 /\ i + 1 < j /\ j <= N
      <4>1. CASE 0 <= i /\ i < Middle /\ j = N + 1 /\ arr[Middle].key = key.key
        <5>1. i + 1 # Middle
          BY <1>1, <2>5, <4>1
        <5> QED
          BY <1>1, <2>3, <4>1, <5>1
      <4>2. CASE 1 <= i /\ i < j /\ j <= N
        <5>1. arr[j].key >= key.key
          BY <1>1, <2>1, <4>2 DEF AtLeast
        <5>2. i + 1 # j
          BY <1>1, <2>4, <2>5, <5>1
        <5> QED
          BY <1>1, <4>2, <5>2
      <4> QED
        BY <2>1, <4>1, <4>2
    <3> QED
      BY <2>1, <2>2, <2>5, <3>1, <3>2 DEF HoareInv, AtMost, AtLeast
  <2>6. CASE ~(arr[i + 1].key < key.key)
    <3>1. AtLeast(i + 1, i + 1) /\ AtMost(1, i + 1 - 1)
      BY <1>1, <2>1, <2>4, <2>6 DEF AtLeast, AtMost
    <3>2. \/ 1 <= i + 1 /\ i + 1 <= Middle /\ Middle < j /\ j <= N + 1 /\ arr[Middle].key = key.key
          \/ 2 <= i + 1 /\ i + 1 <= j /\ j <= N
      BY <1>1, <2>1, <2>3
    <3>3. AtMost(1, i - 1)' /\ AtLeast(i, i)' /\ AtLeast(j, N)'
      <4>1. \A x \in 1 .. i' - 1 : arr'[x].key <= key'.key
        BY <1>1, <2>2, <3>1 DEF AtMost
      <4>2. \A x \in i' .. i' : arr'[x].key >= key'.key
        BY <2>2, <3>1 DEF AtLeast
      <4>3. \A x \in j' .. N' : arr'[x].key >= key'.key
        BY <2>1, <2>2 DEF AtLeast
      <4> QED
        BY <4>1, <4>2, <4>3 DEF AtMost, AtLeast
    <3> QED
      BY <2>1, <2>2, <2>6, <3>2, <3>3 DEF HoareInv
  <2> QED
    BY <2>5, <2>6
<1>5. CASE ScanDown
  <2>1. /\ pc = "down" /\ N > 1 /\ low = 1 /\ high = N
        /\ AtMost(1, i - 1) /\ AtLeast(i, i) /\ AtLeast(j, N)
        /\ \/ 1 <= i /\ i <= Middle /\ Middle < j /\ j <= N + 1 /\ arr[Middle].key = key.key
           \/ 2 <= i /\ i <= j /\ j <= N
    BY <1>5 DEF ScanDown, HoareInv
  <2>2. /\ j' = j - 1 /\ UNCHANGED <<arr, low, high, i, key>> /\ Middle' = Middle
        /\ pc' = IF arr[j - 1].key > key.key THEN "down" ELSE "meet"
    BY <1>5 DEF ScanDown, Middle
  <2>3. Middle \in 1 .. N - 1
    BY <1>1, <2>1 DEF Middle
  <2>4. j - 1 \in 1 .. N /\ arr[j - 1].key \in Int /\ i >= 1
    BY <1>1, <2>1, <2>3
  <2>5. CASE arr[j - 1].key > key.key
    <3>1. AtLeast(j - 1, N)
      <4> SUFFICES ASSUME NEW x \in j - 1 .. N PROVE arr[x].key >= key.key
        BY DEF AtLeast
      <4>1. x = j - 1 \/ x \in j .. N
        BY <1>1
      <4> QED
        BY <1>1, <2>1, <2>4, <2>5, <4>1 DEF AtLeast
    <3>2. \/ 1 <= i /\ i <= Middle /\ Middle < j - 1 /\ j - 1 <= N + 1 /\ arr[Middle].key = key.key
          \/ 2 <= i /\ i <= j - 1 /\ j - 1 <= N
      <4>1. CASE 1 <= i /\ i <= Middle /\ Middle < j /\ j <= N + 1 /\ arr[Middle].key = key.key
        <5>1. j - 1 # Middle
          BY <1>1, <2>4, <2>5, <4>1
        <5> QED
          BY <1>1, <2>3, <4>1, <5>1
      <4>2. CASE 2 <= i /\ i <= j /\ j <= N
        <5>1. i - 1 \in 1 .. i - 1
          BY <1>1, <4>2
        <5>2. arr[i - 1].key <= key.key
          BY <2>1, <5>1 DEF AtMost
        <5>3. j - 1 # i - 1
          BY <1>1, <2>4, <2>5, <5>2
        <5> QED
          BY <1>1, <4>2, <5>3
      <4> QED
        BY <2>1, <4>1, <4>2
    <3> QED
      BY <2>1, <2>2, <2>5, <3>1, <3>2 DEF HoareInv, AtMost, AtLeast
  <2>6. CASE ~(arr[j - 1].key > key.key)
    <3>1. AtMost(j - 1, j - 1) /\ AtLeast(j - 1 + 1, N)
      <4>1. arr[j - 1].key <= key.key
        BY <1>1, <2>4, <2>6
      <4>2. j - 1 + 1 = j /\ \A x \in j - 1 .. j - 1 : x = j - 1
        BY <1>1
      <4> QED
        BY <2>1, <4>1, <4>2 DEF AtMost
    <3>2. \/ 1 <= i /\ i <= Middle /\ Middle <= j - 1 /\ j - 1 <= N
          \/ 2 <= i /\ i <= j - 1 + 1 /\ j - 1 < N
      BY <1>1, <2>1, <2>3
    <3> QED
      BY <2>1, <2>2, <2>6, <3>1, <3>2 DEF HoareInv, AtMost, AtLeast
  <2> QED
    BY <2>5, <2>6
<1>6. CASE HoareSwap
  <2>1. /\ pc = "meet" /\ N > 1 /\ low = 1 /\ high = N /\ i < j
        /\ AtMost(1, i - 1) /\ AtLeast(i, i) /\ AtMost(j, j) /\ AtLeast(j + 1, N)
        /\ \/ 1 <= i /\ i <= Middle /\ Middle <= j /\ j <= N
           \/ 2 <= i /\ i <= j + 1 /\ j < N
    BY <1>6 DEF HoareSwap, HoareInv
  <2>2. arr' = Swapped(arr, i, j) /\ UNCHANGED <<low, high, i, j, key>> /\ pc' = "up"
    BY <1>6 DEF HoareSwap, locals
  <2>3. i \in 1 .. N /\ j \in 1 .. N
    BY <1>1, <2>1 DEF Middle
  <2>4. \A x \in 1 .. N : arr'[x] = IF x = i THEN arr[j] ELSE IF x = j THEN arr[i] ELSE arr[x]
    BY <1>1, <2>2, <2>3, SwapFacts
  <2>5. arr[i].key >= key.key /\ arr[j].key <= key.key
    BY <1>1, <2>1 DEF AtMost, AtLeast
  <2>6. \A x \in 1 .. i : arr'[x].key <= key.key
    <3> SUFFICES ASSUME NEW x \in 1 .. i PROVE arr'[x].key <= key.key
      OBVIOUS
    <3>1. x \in 1 .. N /\ x # j /\ (x = i \/ x \in 1 .. i - 1)
      BY <1>1, <2>1, <2>3
    <3> QED
      BY <2>1, <2>4, <2>5, <3>1 DEF AtMost
  <2>7. \A x \in j .. N : arr'[x].key >= key.key
    <3> SUFFICES ASSUME NEW x \in j .. N PROVE arr'[x].key >= key.key
      OBVIOUS
    <3>1. x \in 1 .. N /\ x # i /\ (x = j \/ x \in j + 1 .. N)
      BY <1>1, <2>1, <2>3
    <3> QED
      BY <2>1, <2>4, <2>5, <3>1 DEF AtLeast
  <2>8. AtMost(1, i)' /\ AtLeast(j, N)'
    BY <2>2, <2>6, <2>7 DEF AtMost, AtLeast
  <2> QED
    BY <2>1, <2>2, <2>3, <2>8 DEF HoareInv
<1>7. CASE HoareReturn
  BY <1>7 DEF HoareReturn, HoareInv
<1> QED
  BY <1>2, <1>3, <1>4, <1>5, <1>6, <1>7 DEF HoareNext

\* Only partitonHoare scans (main.cpp:12-22).
LEMMA HoareStep ==
  ASSUME SInv, Next, TypeOK', Where', N' = N, by' = by
  PROVE  HoareInv'
<1>1. CASE HoareNext
  BY <1>1, HoareNextKeeps DEF SInv
<1>2. CASE ~HoareNext
  <2>1. pc' \notin {"up", "down", "meet"}
    BY <1>2 DEF Next, QuickNext, QuickStart, QuickReturn, QuickCall, PartitionStep, PartitionEnd,
         QuickDone, HeapNext, HeapStart, HeapBuild, HeapExtract, HeapifyDown, HeapifyReturn,
         HeapDone, HelperNext, MergeStart, HelperReturn, HelperHalves, HelperMerge, HelperDone,
         BottomUpNext, BottomUpStart, Segment, EndOfPass, BottomUpDone,
         MergeNext, TakeLeft, TakeRight, WriteBack,
         SentinelNext, SentinelStart, SentinelSkip, LeastStep, LeastEnd, InsertionNext,
         InsertionStart, Hold, HoldBinary, Bisect, Bisected, Shift, Insert, InsertionDone, Finish
  <2> QED
    BY <2>1 DEF HoareInv
<1> QED
  BY <1>1, <1>2

-----------------------------------------------------------------------------
(* Heap sort *)

\* The top of a heap is its smallest element: a smaller one nearest to the top
\* would be smaller than its parent (main.cpp:286).
LEMMA TopIsLeast ==
  ASSUME N \in Nat, NEW a \in [1 .. N -> Element], NEW m \in 1 .. N, IsHeap(a, m, 0, 0)
  PROVE  \A k \in 1 .. m : a[1].key <= a[k].key
<1> DEFINE T == {k \in Nat : k \in 1 .. m /\ a[k].key < a[1].key}
<1>0. \A k \in 1 .. m : k \in 1 .. N /\ k \in Nat
  OBVIOUS
<1>a. \A k \in 1 .. m : a[k].key \in Int
  <2>1. \A k \in 1 .. m : a[k] \in Element
    BY <1>0
  <2> QED
    BY <2>1 DEF Element
<1>1. CASE T = {}
  BY <1>0, <1>a, <1>1
<1>2. CASE T # {}
  <2>0. \E k \in T : \A l \in T : ~ (<<l, k>> \in OpToRel(<, Nat))
    BY <1>2, WFMin, NatLessThanWellFounded
  <2>1. PICK k \in T : \A l \in T : ~ (l < k)
    BY <2>0 DEF OpToRel
  <2>2. k \in 1 .. m /\ a[k].key < a[1].key /\ k # 1 /\ 1 \in 1 .. m
    BY <1>0, <1>a, <2>1
  <2> DEFINE q == k \div 2
  <2>3. q \in 1 .. m /\ q < k /\ IsChild(q, k)
    BY <2>2 DEF IsChild
  <2> HIDE DEF q
  <2>4. a[q].key <= a[k].key
    BY <2>2, <2>3 DEF IsHeap
  <2>5. q \in T
    BY <1>0, <1>a, <2>2, <2>3, <2>4
  <2> QED
    BY <2>1, <2>3, <2>5
<1> QED
  BY <1>1, <1>2

\* The top and the last element of the heap change places (main.cpp:286).
LEMMA ExtractKeeps ==
  ASSUME N \in Nat, NEW a \in [1 .. N -> Element], NEW m \in 2 .. N,
         IsHeap(a, m, 0, 0), Taken(a, m)
  PROVE  IsHeap(Swapped(a, 1, m), m - 1, 0, 1) /\ Taken(Swapped(a, 1, m), m - 1)
<1> DEFINE b == Swapped(a, 1, m)
<1>1. \A x \in 1 .. N : b[x] = IF x = 1 THEN a[m] ELSE IF x = m THEN a[1] ELSE a[x]
  <2>1. 1 \in 1 .. N /\ m \in 1 .. N
    OBVIOUS
  <2> QED
    BY <2>1, SwapFacts
<1>2. \A x \in 1 .. N : a[x].key \in Int
  BY DEF Element
<1>3. \A k \in 1 .. m : a[1].key <= a[k].key
  BY TopIsLeast
<1> HIDE DEF b
<1>4. IsHeap(b, m - 1, 0, 1)
  <2> SUFFICES ASSUME NEW x \in 1 .. m - 1, NEW c \in 1 .. m - 1, x # 1, IsChild(x, c)
               PROVE  b[x].key <= b[c].key
    BY DEF IsHeap
  <2>1. c # 1 /\ c # m /\ x # m /\ x \in 1 .. N /\ c \in 1 .. N /\ x \in 1 .. m /\ c \in 1 .. m /\ x > 0
    BY DEF IsChild
  <2> QED
    BY <1>1, <2>1 DEF IsHeap
<1>5. Taken(b, m - 1)
  <2> SUFFICES ASSUME NEW y \in m .. N, NEW x \in 1 .. y - 1 PROVE b[x].key >= b[y].key
    BY DEF Taken
  <2>1. x \in 1 .. N /\ y \in 1 .. N /\ y # 1 /\ m # 1 /\ m \in 1 .. N
    OBVIOUS
  <2>2. CASE y = m
    <3>1. b[y] = a[1]
      BY <1>1, <2>1, <2>2
    <3>2. CASE x = 1
      BY <1>1, <1>2, <1>3, <2>1, <3>1, <3>2
    <3>3. CASE x # 1
      BY <1>1, <1>2, <1>3, <2>1, <2>2, <3>1, <3>3
    <3> QED
      BY <3>2, <3>3
  <2>3. CASE y # m
    <3>1. y \in m + 1 .. N /\ b[y] = a[y] /\ \A z \in 1 .. y - 1 : a[z].key >= a[y].key
      BY <1>1, <2>1, <2>3 DEF Taken
    <3>2. 1 \in 1 .. y - 1 /\ m \in 1 .. y - 1
      BY <3>1
    <3> QED
      BY <1>1, <2>1, <3>1, <3>2
  <2> QED
    BY <2>2, <2>3
<1> QED
  BY <1>4, <1>5 DEF b

\* heapify exchanges the node with its smallest child (main.cpp:255-258).
LEMMA SinkKeeps ==
  ASSUME N \in Nat, NEW a \in [1 .. N -> Element], NEW m \in 1 .. N, NEW r \in Nat,
         NEW q \in 1 .. m, NEW s \in 1 .. m, r < q, Sinking(a, m, r, q),
         IsChild(q, s), \A c \in 1 .. m : IsChild(q, c) => a[s].key <= a[c].key,
         a[s].key < a[q].key
  PROVE  Sinking(Swapped(a, s, q), m, r, s)
<1> DEFINE b == Swapped(a, s, q)
<1>1. \A x \in 1 .. N : b[x] = IF x = s THEN a[q] ELSE IF x = q THEN a[s] ELSE a[x]
  BY SwapFacts
<1>a. \A x \in 1 .. m : x \in 1 .. N /\ x \in Int
  OBVIOUS
<1>2. \A x \in 1 .. m : a[x].key \in Int /\ x \in 1 .. N
  BY <1>a DEF Element
<1>3. s > q /\ b[s] = a[q] /\ b[q] = a[s]
  BY <1>1, <1>2 DEF IsChild
<1> HIDE DEF b
<1>4. ASSUME NEW x \in 1 .. m, NEW c \in 1 .. m, x > r, x # s, IsChild(x, c)
      PROVE  b[x].key <= b[c].key
  <2>1. CASE x = q
    <3>1. CASE c = s
      BY <1>2, <1>3, <2>1, <3>1
    <3>2. CASE c # s
      <4>0. c # q
        BY <1>a, <1>4, <2>1 DEF IsChild
      <4>1. b[c] = a[c]
        BY <1>1, <1>2, <3>2, <4>0
      <4> QED
        BY <1>3, <1>4, <2>1, <4>1
    <3> QED
      BY <3>1, <3>2
  <2>2. CASE x # q
    <3>1. b[x] = a[x]
      BY <1>1, <1>2, <1>4, <2>2
    <3>2. CASE c = q
      BY <1>3, <1>4, <2>2, <3>1, <3>2 DEF Sinking
    <3>3. CASE c # q
      <4>1. c # s
        BY <1>4, <2>2 DEF IsChild
      <4>2. b[c] = a[c]
        BY <1>1, <1>2, <3>3, <4>1
      <4> QED
        BY <1>4, <2>2, <3>1, <4>2 DEF Sinking, IsHeap
    <3> QED
      BY <3>2, <3>3
  <2> QED
    BY <2>1, <2>2
<1>5. ASSUME NEW x \in 1 .. m, NEW c \in 1 .. m, x > r, IsChild(x, s), IsChild(s, c)
      PROVE  b[x].key <= b[c].key
  <2>1. x = q /\ c # s /\ c # q
    BY <1>3, <1>5 DEF IsChild
  <2>2. b[x] = a[s] /\ b[c] = a[c]
    BY <1>1, <1>2, <1>3, <2>1
  <2>3. s > r /\ s # q /\ a[s].key <= a[c].key
    BY <1>3, <1>5 DEF Sinking, IsHeap
  <2> QED
    BY <2>2, <2>3
<1>6. IsHeap(b, m, r, s)
  BY <1>4 DEF IsHeap
<1>7. \A x, c \in 1 .. m : x > r /\ IsChild(x, s) /\ IsChild(s, c) => b[x].key <= b[c].key
  BY <1>5
<1> QED
  BY <1>6, <1>7 DEF Sinking, b

\* heapify goes to the smallest of a node and its children (main.cpp:246-253).
LEMMA SmallestFacts ==
  ASSUME N \in Nat, arr \in [1 .. N -> Element], high \in 1 .. N, j \in 1 .. high
  PROVE  /\ smallest \in 1 .. high
         /\ \A c \in 1 .. high : IsChild(j, c) => arr[smallest].key <= arr[c].key
         /\ smallest # j => IsChild(j, smallest) /\ arr[smallest].key < arr[j].key
<1> DEFINE l == 2 * j
           r == 2 * j + 1
           left == IF l <= high /\ arr[l].key < arr[j].key THEN l ELSE j
<1>1. \A x \in 1 .. high : x \in 1 .. N /\ arr[x].key \in Int
  <2>1. \A x \in 1 .. high : x \in 1 .. N
    OBVIOUS
  <2>2. \A x \in 1 .. high : arr[x] \in Element
    BY <2>1
  <2> QED
    BY <2>1, <2>2 DEF Element
<1>2. /\ l \in Int /\ r \in Int /\ l > j /\ r > j /\ l # r /\ j \in Int /\ high \in Int
      /\ l <= high => l \in 1 .. high
      /\ r <= high => r \in 1 .. high
  OBVIOUS
<1>3. smallest = IF r <= high /\ arr[r].key < arr[left].key THEN r ELSE left
  BY DEF smallest
<1>4. \A c \in 1 .. high : IsChild(j, c) <=> c = l \/ c = r
  BY DEF IsChild
<1> HIDE DEF l, r
<1>5. left \in 1 .. high /\ arr[left].key \in Int /\ arr[left].key <= arr[j].key
      /\ (l <= high => arr[left].key <= arr[l].key)
      /\ (left # j => left = l /\ l <= high /\ arr[left].key < arr[j].key)
  <2>1. CASE l <= high /\ arr[l].key < arr[j].key
    BY <1>1, <1>2, <2>1
  <2>2. CASE ~(l <= high /\ arr[l].key < arr[j].key)
    BY <1>1, <1>2, <2>2
  <2> QED
    BY <2>1, <2>2
<1> HIDE DEF left
<1>6. CASE r <= high /\ arr[r].key < arr[left].key
  BY <1>1, <1>2, <1>3, <1>4, <1>5, <1>6
<1>7. CASE ~(r <= high /\ arr[r].key < arr[left].key)
  BY <1>1, <1>2, <1>3, <1>4, <1>5, <1>7
<1> QED
  BY <1>6, <1>7

\* What heapSort has taken from the heap stays (main.cpp:288).
LEMMA TakenKeeps ==
  ASSUME N \in Nat, NEW a \in [1 .. N -> Element], NEW m \in 1 .. N,
         NEW p \in 1 .. m, NEW q \in 1 .. m, Taken(a, m)
  PROVE  Taken(Swapped(a, p, q), m)
<1> DEFINE b == Swapped(a, p, q)
<1>1. p \in 1 .. N /\ q \in 1 .. N
  OBVIOUS
<1>2. \A x \in 1 .. N : b[x] = IF x = p THEN a[q] ELSE IF x = q THEN a[p] ELSE a[x]
  BY <1>1, SwapFacts
<1> HIDE DEF b
<1>3. ASSUME NEW y \in m + 1 .. N, NEW x \in 1 .. y - 1 PROVE b[x].key >= b[y].key
  <2>1. x \in 1 .. N /\ y \in 1 .. N /\ y # p /\ y # q /\ p \in 1 .. y - 1 /\ q \in 1 .. y - 1
    OBVIOUS
  <2>2. b[y] = a[y] /\ \A z \in 1 .. y - 1 : a[z].key >= a[y].key
    BY <1>2, <2>1 DEF Taken
  <2> QED
    BY <1>2, <2>1, <2>2
<1> QED
  BY <1>3 DEF Taken, b

\* The build loop, the extract loop and heapify (main.cpp:245-292).
LEMMA HeapNextKeeps ==
  ASSUME TypeOK, TypeOK', N' = N, by' = by, by = "heapSort", HeapInv, HeapNext
  PROVE  HeapInv'
<1> USE Length
<1>0. /\ N \in Nat /\ arr \in [1 .. N -> Element] /\ i \in Int /\ j \in Int /\ high \in Int
      /\ n = N
  BY DEF TypeOK
<1>1. CASE HeapStart
  <2>1. arr' = arr /\ i' = N \div 2 /\ high' = N /\ pc' = "heap"
    BY <1>0, <1>1 DEF HeapStart
  <2>2. IsHeap(arr, N, N \div 2, 0)
    BY <1>0 DEF IsHeap, IsChild
  <2>3. Taken(arr, N)
    BY <1>0 DEF Taken
  <2>4. IsHeap(arr, high, i, 0)' /\ Taken(arr, high)'
    BY <2>1, <2>2, <2>3 DEF IsHeap, Taken
  <2>5. 0 <= N \div 2 /\ 2 * (N \div 2) <= N
    BY <1>0
  <2> QED
    BY <1>0, <2>1, <2>4, <2>5 DEF HeapInv
<1>2. CASE HeapBuild
  <2>1. /\ pc = "heap" /\ i >= 1 /\ j' = i /\ i' = i - 1 /\ pc' = "heapify"
        /\ arr' = arr /\ high' = high
    BY <1>2 DEF HeapBuild
  <2>2. /\ high = N /\ 2 * i <= N /\ Taken(arr, high) /\ IsHeap(arr, high, i, 0)
    BY <2>1 DEF HeapInv
  <2>3. IsHeap(arr, high, i - 1, i)
    <3>1. \A x \in 1 .. high : x > i - 1 /\ x # i => x > i /\ x # 0
      BY <1>0
    <3> QED
      BY <2>2, <3>1 DEF IsHeap
  <2>4. \A x \in 1 .. high : x > i - 1 => ~IsChild(x, i)
    BY <1>0, <2>1 DEF IsChild
  <2>5. Sinking(arr, high, i - 1, i)
    BY <2>3, <2>4 DEF Sinking
  <2>6. Sinking(arr, high, i, j)' /\ Taken(arr, high)'
    BY <2>1, <2>2, <2>5 DEF Sinking, IsHeap, Taken
  <2>7. 0 <= i - 1 /\ 2 * (i - 1) <= N /\ i - 1 < i /\ i <= high /\ 0 <= high
    BY <1>0, <2>1, <2>2
  <2> QED
    BY <2>1, <2>2, <2>6, <2>7 DEF HeapInv
<1>3. CASE HeapExtract
  <2>1. /\ pc = "heap" /\ i < 1 /\ high > 1 /\ arr' = Swapped(arr, 1, high)
        /\ high' = high - 1 /\ j' = 1 /\ i' = i /\ pc' = "heapify"
    BY <1>3 DEF HeapExtract
  <2>2. 0 <= i /\ high <= N /\ Taken(arr, high) /\ IsHeap(arr, high, i, 0)
    BY <2>1 DEF HeapInv
  <2>3. i = 0 /\ high \in 2 .. N
    BY <1>0, <2>1, <2>2
  <2>4. IsHeap(arr', high - 1, 0, 1) /\ Taken(arr', high - 1)
    BY <1>0, <2>1, <2>2, <2>3, ExtractKeeps
  <2>5. \A x \in 1 .. high - 1 : ~IsChild(x, 1)
    BY DEF IsChild
  <2>6. Sinking(arr', high - 1, 0, 1)
    BY <2>4, <2>5 DEF Sinking
  <2>7. Sinking(arr, high, i, j)' /\ Taken(arr, high)'
    BY <2>1, <2>3, <2>4, <2>6 DEF Sinking, IsHeap, Taken
  <2> QED
    BY <2>1, <2>3, <2>7 DEF HeapInv
<1>4. CASE HeapifyDown
  <2>1. /\ pc = "heapify" /\ smallest # j /\ arr' = Swapped(arr, smallest, j)
        /\ j' = smallest /\ i' = i /\ high' = high /\ pc' = "heapify"
    BY <1>4 DEF HeapifyDown
  <2>2. /\ 0 <= i /\ high <= N /\ Taken(arr, high) /\ i < j /\ j <= high
        /\ Sinking(arr, high, i, j) /\ (i >= 1 => high = N /\ 2 * i <= N)
    BY <2>1 DEF HeapInv
  <2>3. high \in 1 .. N /\ j \in 1 .. high /\ i \in Nat
    BY <1>0, <2>2
  <2>4. /\ smallest \in 1 .. high /\ IsChild(j, smallest) /\ arr[smallest].key < arr[j].key
        /\ \A c \in 1 .. high : IsChild(j, c) => arr[smallest].key <= arr[c].key
    BY <1>0, <2>1, <2>3, SmallestFacts
  <2>5. Sinking(arr', high, i, j')
    BY <1>0, <2>1, <2>2, <2>3, <2>4, SinkKeeps
  <2>6. Taken(arr', high)
    BY <1>0, <2>1, <2>2, <2>3, <2>4, TakenKeeps
  <2>7. Sinking(arr, high, i, j)' /\ Taken(arr, high)'
    BY <2>1, <2>5, <2>6 DEF Sinking, IsHeap, Taken
  <2>8. i < smallest /\ smallest <= high
    BY <2>2, <2>3, <2>4 DEF IsChild
  <2> QED
    BY <2>1, <2>2, <2>3, <2>7, <2>8 DEF HeapInv
<1>5. CASE HeapifyReturn
  <2>1. pc = "heapify" /\ smallest = j /\ UNCHANGED <<arr, i, high>> /\ pc' = "heap"
    BY <1>5 DEF HeapifyReturn, locals
  <2>2. /\ 0 <= i /\ 0 <= high /\ high <= N /\ Taken(arr, high) /\ i < j /\ j <= high
        /\ Sinking(arr, high, i, j) /\ (i >= 1 => high = N /\ 2 * i <= N)
    BY <2>1 DEF HeapInv
  <2>3. high \in 1 .. N /\ j \in 1 .. high
    BY <1>0, <2>2
  <2>4. \A c \in 1 .. high : IsChild(j, c) => arr[j].key <= arr[c].key
    BY <1>0, <2>1, <2>3, SmallestFacts
  <2>5. IsHeap(arr, high, i, 0)
    BY <2>2, <2>4 DEF Sinking, IsHeap
  <2>6. IsHeap(arr, high, i, 0)' /\ Taken(arr, high)'
    BY <2>1, <2>2, <2>5 DEF IsHeap, Taken
  <2> QED
    BY <2>1, <2>2, <2>6 DEF HeapInv
<1>6. CASE HeapDone
  <2>1. pc = "heap" /\ high <= 1 /\ UNCHANGED <<arr, i, high>> /\ pc' = "done"
    BY <1>6 DEF HeapDone, Finish, locals
  <2>2. Taken(arr, high)'
    BY <2>1 DEF HeapInv, Taken
  <2> QED
    BY <2>1, <2>2 DEF HeapInv
<1> QED
  BY <1>1, <1>2, <1>3, <1>4, <1>5, <1>6 DEF HeapNext

\* Only heapSort keeps a heap (main.cpp:277-292).
LEMMA HeapStep ==
  ASSUME SInv, TypeOK', N' = N, by' = by, by = "heapSort" => HeapNext
  PROVE  HeapInv'
<1>1. CASE by = "heapSort"
  BY <1>1, HeapNextKeeps DEF SInv
<1>2. CASE by # "heapSort"
  BY <1>2 DEF HeapInv
<1> QED
  BY <1>1, <1>2

-----------------------------------------------------------------------------
(* Insertion sorts *)

\* What every step of the insertion sorts reads.
LEMMA InsertionTypes ==
  ASSUME TypeOK
  PROVE  /\ N \in Nat /\ n = N /\ arr \in [1 .. N -> Element]
         /\ i \in Int /\ j \in Int /\ low \in Int /\ mid \in Int /\ high \in Int
         /\ key.key \in Int /\ \A x \in 1 .. N : arr[x].key \in Int
BY Length DEF TypeOK, Element

\* The scan for the first smallest element, which goes in front
\* (main.cpp:335-344).
LEMMA SentinelNextKeeps ==
  ASSUME TypeOK, TypeOK', N' = N, by' = by, by \in Insertions, InsertionInv, SentinelNext
  PROVE  InsertionInv'
<1> USE InsertionTypes
<1>1. CASE SentinelStart
  <2>1. /\ pc' = "least" /\ arr' = arr /\ mid' = 1 /\ i' = 2 /\ N > 1
        /\ by = "insertionSortWithSentinel"
    BY <1>1 DEF SentinelStart
  <2>2. \A x \in 1 .. N : x < 2 => x = 1 /\ arr[1].key <= arr[x].key
    BY <2>1
  <2> QED
    BY <2>1, <2>2 DEF InsertionInv
<1>2. CASE SentinelSkip
  <2>1. pc' = "done" /\ arr' = arr /\ N <= 1
    BY <1>2 DEF SentinelSkip, Finish
  <2>2. InOrder(arr, 1, N)
    BY <2>1 DEF InOrder
  <2>3. InOrder(arr, 1, N)'
    BY <2>1, <2>2 DEF InOrder
  <2> QED
    BY <2>1, <2>3 DEF InsertionInv
<1>3. CASE LeastStep
  <2>1. /\ pc = "least" /\ pc' = "least" /\ arr' = arr /\ i' = i + 1 /\ i <= N
        /\ mid' = IF arr[i].key < arr[mid].key THEN i ELSE mid
    BY <1>3 DEF LeastStep
  <2>2. /\ N > 1 /\ 1 <= mid /\ mid <= N /\ mid < i /\ 2 <= i
        /\ \A x \in 1 .. N : x < i => arr[mid].key <= arr[x].key
    BY <2>1 DEF InsertionInv
  <2>3. i \in 1 .. N /\ mid \in 1 .. N /\ arr[i].key \in Int /\ arr[mid].key \in Int
    BY <2>1, <2>2
  <2>4. mid' \in 1 .. N /\ mid' <= i /\ arr[mid'].key <= arr[mid].key
        /\ arr[mid'].key <= arr[i].key /\ arr[mid'].key \in Int
    BY <2>1, <2>2, <2>3
  <2>5. \A x \in 1 .. N : x < i + 1 => arr[mid'].key <= arr[x].key
    <3> SUFFICES ASSUME NEW x \in 1 .. N, x < i + 1 PROVE arr[mid'].key <= arr[x].key
      OBVIOUS
    <3>1. x = i \/ x < i
      OBVIOUS
    <3> QED
      BY <2>2, <2>3, <2>4, <3>1
  <2>6. 1 <= mid' /\ mid' <= N /\ mid' < i' /\ 2 <= i'
    <3>1. i' = i + 1 /\ 2 <= i /\ i \in Int /\ N \in Nat
      BY <2>1, <2>2
    <3>2. mid' \in 1 .. N /\ mid' <= i
      BY <2>4
    <3> HIDE InsertionTypes
    <3> QED
      BY <3>1, <3>2
  <2>7. \A x \in 1 .. N' : x < i' => arr'[mid'].key <= arr'[x].key
    BY <2>1, <2>5
  <2> QED
    BY <2>1, <2>2, <2>6, <2>7 DEF InsertionInv
<1>4. CASE LeastEnd
  <2>1. /\ pc = "least" /\ pc' = "insert" /\ arr' = Swapped(arr, 1, mid) /\ i' = 3 /\ i > N
    BY <1>4 DEF LeastEnd
  <2>2. /\ N > 1 /\ mid \in 1 .. N /\ 1 \in 1 .. N
        /\ \A x \in 1 .. N : arr[mid].key <= arr[x].key
    BY <2>1 DEF InsertionInv
  <2>a. N \in Nat /\ arr \in [1 .. N -> Element]
    OBVIOUS
  <2>3. \A x \in 1 .. N : arr'[x] = IF x = 1 THEN arr[mid] ELSE IF x = mid THEN arr[1] ELSE arr[x]
    BY <2>1, <2>2, <2>a, SwapFacts
  <2>4. \A x \in 1 .. N : arr'[1].key <= arr'[x].key
    BY <2>2, <2>3
  <2>5. Least'
    BY <2>4 DEF Least
  <2>6. InOrder(arr', 1, 2)
    <3> SUFFICES ASSUME NEW x \in 1 .. 2, NEW y \in 1 .. 2, x < y
                 PROVE  arr'[x].key <= arr'[y].key
      BY DEF InOrder
    <3>1. x = 1 /\ y \in 1 .. N
      BY <2>2
    <3> QED
      BY <2>4, <3>1
  <2>7. Lesser(i - 1, N)' = 2
    BY <2>1, <2>2 DEF Lesser
  <2>8. InOrder(arr, 1, Lesser(i - 1, N))'
    BY <2>6, <2>7 DEF InOrder
  <2> QED
    BY <2>1, <2>2, <2>5, <2>8 DEF InsertionInv
<1> QED
  BY <1>1, <1>2, <1>3, <1>4 DEF SentinelNext

\* An element is held: what lies before it is in order (main.cpp:296-297,
\* 310-311, 347-348).
LEMMA HoldKeeps ==
  ASSUME TypeOK, TypeOK', N' = N, by' = by, by \in Insertions, InsertionInv,
         Hold \/ HoldBinary
  PROVE  InsertionInv'
<1> USE InsertionTypes
<1>1. /\ pc = "insert" /\ arr' = arr /\ i' = i /\ i <= N /\ key' = arr[i]
      /\ 2 <= i /\ InOrder(arr, 1, Lesser(i - 1, N))
  BY DEF Hold, HoldBinary, InsertionInv
<1>2. Lesser(i - 1, N) = i - 1 /\ i \in 1 .. N
  BY <1>1 DEF Lesser
<1>3. \A x, y \in 1 .. i - 1 : x < y => arr[x].key <= arr[y].key
  BY <1>1, <1>2 DEF InOrder
<1>4. CASE Hold
  <2>1. pc' = "shift" /\ j' = i - 1 /\ by # "insertionSortBinary"
    BY <1>4 DEF Hold
  <2>2. by = "insertionSortWithSentinel" => i >= 3 /\ N > 1 /\ Least /\ arr[1].key <= arr[i].key
    <3>1. by = "insertionSortWithSentinel" => i >= 3 /\ N > 1 /\ Least
      BY <1>1 DEF InsertionInv
    <3> QED
      BY <1>2, <3>1 DEF Least
  <2>3. Least => Least'
    BY <1>1 DEF Least
  <2>4. \A x, y \in 1 .. i : x < y /\ x # i /\ y # i => arr[x].key <= arr[y].key
    BY <1>3
  <2>5. key' \in Element
    BY <1>1, <1>2
  <2>6. j' + 1 = i /\ 0 <= j' /\ j' < i /\ \A y \in j' + 2 .. i : FALSE
    BY <1>1, <2>1
  <2> QED
    BY <1>1, <2>1, <2>2, <2>3, <2>4, <2>5, <2>6 DEF InsertionInv
<1>5. CASE HoldBinary
  <2>1. pc' = "bisect" /\ low' = 1 /\ high' = i - 1 /\ by = "insertionSortBinary"
    BY <1>5 DEF HoldBinary
  <2>2. InOrder(arr, 1, Lesser(i - 1, N))'
    BY <1>1 DEF InOrder, Lesser
  <2>3. /\ 1 <= low' /\ low' <= high' + 1 /\ high' < i
        /\ \A x \in 1 .. low' - 1 : FALSE
        /\ \A x \in high' + 1 .. i - 1 : FALSE
    BY <1>1, <2>1
  <2> QED
    BY <1>1, <2>1, <2>2, <2>3 DEF InsertionInv
<1> QED
  BY <1>4, <1>5

\* The binary search for the place of the held element (main.cpp:314-322).
LEMMA BisectKeeps ==
  ASSUME TypeOK, TypeOK', N' = N, by' = by, by \in Insertions, InsertionInv, Where,
         Bisect \/ Bisected
  PROVE  InsertionInv'
<1> USE InsertionTypes
<1>1. /\ pc = "bisect" /\ arr' = arr /\ i' = i /\ key' = key
      /\ 2 <= i /\ i <= N /\ InOrder(arr, 1, Lesser(i - 1, N))
      /\ key = arr[i] /\ 1 <= low /\ low <= high + 1 /\ high < i
      /\ \A x \in 1 .. low - 1 : arr[x].key <= key.key
      /\ \A x \in high + 1 .. i - 1 : arr[x].key > key.key
      /\ by = "insertionSortBinary"
  BY DEF Bisect, Bisected, InsertionInv, Where
<1>2. Lesser(i - 1, N) = i - 1 /\ i \in 1 .. N
  BY <1>1 DEF Lesser
<1>3. \A x, y \in 1 .. i - 1 : x < y => arr[x].key <= arr[y].key
  BY <1>1, <1>2 DEF InOrder
<1>4. CASE Bisect
  <2> DEFINE m == low + (high - low) \div 2
  <2>1. low <= high /\ pc' = "bisect"
    BY <1>1, <1>4 DEF Bisect
  <2>2. m \in low .. high
    BY <2>1
  <2>3. \/ arr[m].key > key.key /\ high' = m - 1 /\ low' = low
        \/ ~(arr[m].key > key.key) /\ low' = m + 1 /\ high' = high
    BY <1>4 DEF Bisect
  <2> HIDE DEF m
  <2>4. m \in 1 .. i - 1 /\ m \in 1 .. N /\ arr[m].key \in Int /\ m \in Int
    BY <1>1, <2>2
  <2>5. InOrder(arr, 1, Lesser(i - 1, N))'
    BY <1>1 DEF InOrder, Lesser
  <2>6. CASE arr[m].key > key.key /\ high' = m - 1 /\ low' = low
    <3>1. \A x \in high' + 1 .. i - 1 : arr[x].key > key.key
      <4> SUFFICES ASSUME NEW x \in m .. i - 1 PROVE arr[x].key > key.key
        BY <2>4, <2>6
      <4>1. x \in 1 .. i - 1 /\ x \in 1 .. N /\ (x = m \/ m < x)
        BY <1>1, <2>4
      <4>2. arr[m].key <= arr[x].key
        BY <1>3, <2>4, <4>1
      <4> QED
        BY <2>4, <2>6, <4>1, <4>2
    <3>2. low' <= high' + 1 /\ high' < i
      BY <1>1, <2>2, <2>4, <2>6
    <3> QED
      BY <1>1, <2>1, <2>5, <2>6, <3>1, <3>2 DEF InsertionInv
  <2>7. CASE ~(arr[m].key > key.key) /\ low' = m + 1 /\ high' = high
    <3>1. \A x \in 1 .. low' - 1 : arr[x].key <= key.key
      <4> SUFFICES ASSUME NEW x \in 1 .. m PROVE arr[x].key <= key.key
        BY <2>4, <2>7
      <4>1. x \in 1 .. i - 1 /\ x \in 1 .. N /\ (x = m \/ x < m)
        BY <1>1, <2>4
      <4>2. arr[x].key <= arr[m].key
        BY <1>3, <2>4, <4>1
      <4> QED
        BY <2>4, <2>7, <4>1, <4>2
    <3>2. 1 <= low' /\ low' <= high' + 1
      BY <1>1, <2>2, <2>4, <2>7
    <3> QED
      BY <1>1, <2>1, <2>5, <2>7, <3>1, <3>2 DEF InsertionInv
  <2> QED
    BY <2>3, <2>6, <2>7
<1>5. CASE Bisected
  <2>1. low > high /\ pc' = "shift" /\ j' = i - 1 /\ low' = low
    BY <1>5 DEF Bisected
  <2>2. \A x, y \in 1 .. i : x < y /\ x # i /\ y # i => arr[x].key <= arr[y].key
    BY <1>3
  <2>3. key' \in Element
    BY <1>1, <1>2
  <2>4. j' + 1 = i /\ 0 <= j' /\ j' < i /\ (\A y \in j' + 2 .. i : FALSE) /\ low <= j' + 1
    BY <1>1, <2>1
  <2>5. \A x \in low .. j' : x \in high + 1 .. i - 1
    BY <1>1, <2>1
  <2> QED
    BY <1>1, <2>1, <2>2, <2>3, <2>4, <2>5 DEF InsertionInv
<1> QED
  BY <1>4, <1>5

\* What holds while elements move up (main.cpp:299-302, 325-327, 352-355).
LEMMA ShiftFacts ==
  ASSUME TypeOK, Where, by \in Insertions, InsertionInv, pc = "shift"
  PROVE  /\ i \in 2 .. N /\ j \in 0 .. i - 1 /\ key \in Element
         /\ \A x, y \in 1 .. i : x < y /\ x # j + 1 /\ y # j + 1 => arr[x].key <= arr[y].key
         /\ \A y \in j + 2 .. i : arr[y].key > key.key
         /\ by = "insertionSortBinary" =>
              /\ 1 <= low /\ low <= j + 1
              /\ \A x \in 1 .. low - 1 : arr[x].key <= key.key
              /\ \A x \in low .. j : arr[x].key > key.key
         /\ by = "insertionSortWithSentinel" =>
              i >= 3 /\ N > 1 /\ Least /\ 1 <= j /\ arr[1].key <= key.key
         /\ MustShift => j >= 1 /\ arr[j].key > key.key
         /\ MustShift /\ by = "insertionSortBinary" => j >= low
         /\ ~MustShift => \/ j = 0
                          \/ arr[j].key <= key.key
                          \/ by = "insertionSortBinary" /\ j < low
<1>0. /\ 2 <= i /\ i <= N /\ 0 <= j /\ j < i /\ key \in Element
      /\ \A x, y \in 1 .. i : x < y /\ x # j + 1 /\ y # j + 1 => arr[x].key <= arr[y].key
      /\ \A y \in j + 2 .. i : arr[y].key > key.key
  BY DEF InsertionInv
<1>1. i \in 2 .. N /\ j \in 0 .. i - 1
  BY <1>0, InsertionTypes
<1>2. by = "insertionSortBinary" =>
              /\ 1 <= low /\ low <= j + 1
              /\ \A x \in 1 .. low - 1 : arr[x].key <= key.key
              /\ \A x \in low .. j : arr[x].key > key.key
  BY DEF InsertionInv
<1>3. by = "insertionSortWithSentinel" =>
              i >= 3 /\ N > 1 /\ Least /\ 1 <= j /\ arr[1].key <= key.key
  BY DEF InsertionInv
<1>4. j >= 1 => j \in 1 .. N /\ arr[j].key \in Int
  BY <1>1, InsertionTypes
<1> DEFINE Shifts == /\ MustShift => j >= 1 /\ arr[j].key > key.key
                     /\ MustShift /\ by = "insertionSortBinary" => j >= low
                     /\ ~MustShift => \/ j = 0
                                      \/ arr[j].key <= key.key
                                      \/ by = "insertionSortBinary" /\ j < low
<1>5. ASSUME by = "insertionSort" PROVE Shifts
  BY <1>1, <1>4, <1>5, InsertionTypes DEF MustShift
<1>6. ASSUME by = "insertionSortBinary" PROVE Shifts
  <2>1. MustShift <=> j >= low
    BY <1>6 DEF MustShift
  <2>2. j >= low => j \in low .. j /\ j >= 1
    BY <1>2, <1>6, InsertionTypes
  <2> QED
    BY <1>2, <1>6, <2>1, <2>2, InsertionTypes
<1>7. ASSUME by = "insertionSortWithSentinel" PROVE Shifts
  <2>1. MustShift <=> arr[j].key > key.key
    BY <1>7 DEF MustShift
  <2> QED
    BY <1>3, <1>4, <1>7, <2>1, InsertionTypes
<1>8. Shifts
  BY <1>5, <1>6, <1>7 DEF Insertions
<1> QED
  BY <1>0, <1>1, <1>2, <1>3, <1>8

\* A greater element moves up, and leaves its place to the held one
\* (main.cpp:299-302, 325-327, 352-355).
LEMMA ShiftKeeps ==
  ASSUME TypeOK, TypeOK', N' = N, by' = by, by \in Insertions, InsertionInv, Where, Shift
  PROVE  InsertionInv'
<1>0. /\ N \in Nat /\ arr \in [1 .. N -> Element] /\ i \in Int /\ j \in Int /\ low \in Int
      /\ key.key \in Int /\ \A x \in 1 .. N : arr[x].key \in Int
  BY InsertionTypes
<1>1. /\ pc = "shift" /\ pc' = "shift" /\ MustShift /\ arr' = [arr EXCEPT ![j + 1] = arr[j]]
      /\ j' = j - 1 /\ UNCHANGED <<i, key, low>>
  BY DEF Shift
<1>2. /\ i \in 2 .. N /\ j \in 1 .. i - 1 /\ key \in Element /\ arr[j].key > key.key
      /\ \A x, y \in 1 .. i : x < y /\ x # j + 1 /\ y # j + 1 => arr[x].key <= arr[y].key
      /\ \A y \in j + 2 .. i : arr[y].key > key.key
  BY <1>0, <1>1, ShiftFacts
<1>3. j \in 1 .. N /\ j + 1 \in 1 .. N /\ j \in 1 .. i /\ j + 1 \in 1 .. i
  BY <1>0, <1>2
<1>4. \A x \in 1 .. N : arr'[x] = IF x = j + 1 THEN arr[j] ELSE arr[x]
  BY <1>0, <1>1
<1>5. \A x, y \in 1 .. i : x < y /\ x # j /\ y # j => arr'[x].key <= arr'[y].key
  <2> SUFFICES ASSUME NEW x \in 1 .. i, NEW y \in 1 .. i, x < y, x # j, y # j
               PROVE  arr'[x].key <= arr'[y].key
    OBVIOUS
  <2>1. x \in 1 .. N /\ y \in 1 .. N
    BY <1>0, <1>2
  <2> DEFINE u == IF x = j + 1 THEN j ELSE x
             v == IF y = j + 1 THEN j ELSE y
  <2>2. u \in 1 .. i /\ v \in 1 .. i /\ u < v /\ u # j + 1 /\ v # j + 1
    BY <1>2, <1>3
  <2>3. arr'[x] = arr[u] /\ arr'[y] = arr[v]
    BY <1>4, <2>1
  <2> QED
    BY <1>2, <2>2, <2>3
<1>6. \A y \in j + 1 .. i : arr'[y].key > key.key
  <2> SUFFICES ASSUME NEW y \in j + 1 .. i PROVE arr'[y].key > key.key
    OBVIOUS
  <2>1. y \in 1 .. N /\ (y = j + 1 \/ (y \in j + 2 .. i /\ y # j + 1))
    BY <1>0, <1>2
  <2> QED
    BY <1>2, <1>4, <2>1
<1>7. ASSUME by = "insertionSortBinary"
      PROVE  /\ 1 <= low /\ low <= j
             /\ \A x \in 1 .. low - 1 : arr'[x].key <= key.key
             /\ \A x \in low .. j - 1 : arr'[x].key > key.key
  <2>1. /\ 1 <= low /\ low <= j
        /\ \A x \in 1 .. low - 1 : arr[x].key <= key.key
        /\ \A x \in low .. j : arr[x].key > key.key
    BY <1>1, <1>7, ShiftFacts
  <2>2. \A x \in 1 .. j : x \in 1 .. N /\ x # j + 1
    BY <1>0, <1>2
  <2>3. \A x \in 1 .. low - 1 : x \in 1 .. j
    BY <1>0, <1>2, <2>1
  <2>4. \A x \in low .. j - 1 : x \in 1 .. j /\ x \in low .. j
    BY <1>0, <1>2, <2>1
  <2> QED
    BY <1>4, <2>1, <2>2, <2>3, <2>4
<1>8. ASSUME by = "insertionSortWithSentinel"
      PROVE  i >= 3 /\ N > 1 /\ Least' /\ 1 <= j - 1 /\ arr'[1].key <= key.key
  <2>1. i >= 3 /\ N > 1 /\ Least /\ arr[1].key <= key.key
    BY <1>1, <1>8, ShiftFacts
  <2>2. 1 \in 1 .. N /\ arr[1].key \in Int /\ arr[j].key \in Int
    BY <1>0, <1>3, <2>1
  <2>3. j # 1
    BY <1>0, <1>2, <2>1, <2>2
  <2>4. arr'[1] = arr[1]
    BY <1>2, <1>4, <2>2
  <2>5. \A x \in 1 .. N : arr[1].key <= arr'[x].key
    BY <1>3, <1>4, <2>1 DEF Least
  <2> QED
    BY <1>2, <2>1, <2>3, <2>4, <2>5 DEF Least
<1>9. j' + 1 = j /\ j' + 2 = j + 1 /\ 0 <= j' /\ j' < i
  BY <1>1, <1>2
<1>10. \A x, y \in 1 .. i' : x < y /\ x # j' + 1 /\ y # j' + 1 => arr'[x].key <= arr'[y].key
  BY <1>1, <1>5, <1>9
<1>11. \A y \in j' + 2 .. i' : arr'[y].key > key'.key
  BY <1>1, <1>6, <1>9
<1>12. by = "insertionSortBinary" =>
         /\ 1 <= low' /\ low' <= j' + 1
         /\ \A x \in 1 .. low' - 1 : arr'[x].key <= key'.key
         /\ \A x \in low' .. j' : arr'[x].key > key'.key
  BY <1>1, <1>7, <1>9
<1>13. 2 <= i' /\ i' <= N
  BY <1>1, <1>2
<1>14. by = "insertionSortWithSentinel" =>
         i' >= 3 /\ N > 1 /\ Least' /\ 1 <= j' /\ arr'[1].key <= key'.key
  BY <1>1, <1>8
<1>15. key' \in Element /\ 0 <= j' /\ j' < i'
  BY <1>1, <1>2, <1>9
<1> QED
  BY <1>1, <1>10, <1>11, <1>12, <1>13, <1>14, <1>15 DEF InsertionInv

\* The held element goes where nothing greater lies before it (main.cpp:303,
\* 330, 356).
LEMMA InsertKeeps ==
  ASSUME TypeOK, TypeOK', N' = N, by' = by, by \in Insertions, InsertionInv, Where, Insert
  PROVE  InsertionInv'
<1>0. /\ N \in Nat /\ arr \in [1 .. N -> Element] /\ i \in Int /\ j \in Int /\ low \in Int
      /\ key.key \in Int /\ \A x \in 1 .. N : arr[x].key \in Int
  BY InsertionTypes
<1>1. /\ pc = "shift" /\ pc' = "insert" /\ ~MustShift /\ arr' = [arr EXCEPT ![j + 1] = key]
      /\ i' = i + 1
  BY DEF Insert
<1>2. /\ i \in 2 .. N /\ j \in 0 .. i - 1 /\ key \in Element
      /\ \A x, y \in 1 .. i : x < y /\ x # j + 1 /\ y # j + 1 => arr[x].key <= arr[y].key
      /\ \A y \in j + 2 .. i : arr[y].key > key.key
  BY <1>0, <1>1, ShiftFacts
<1>3. j + 1 \in 1 .. N /\ j + 1 \in 1 .. i
  BY <1>0, <1>2
<1>4. \A x \in 1 .. N : arr'[x] = IF x = j + 1 THEN key ELSE arr[x]
  BY <1>0, <1>1
<1>5. ASSUME NEW x \in 1 .. j PROVE arr[x].key <= key.key
  <2>1. \/ arr[j].key <= key.key
        \/ by = "insertionSortBinary" /\ j < low
    BY <1>1, <1>2, ShiftFacts
  <2>2. x \in 1 .. N /\ j \in 1 .. N /\ x \in 1 .. i /\ j \in 1 .. i /\ x # j + 1 /\ (x < j \/ x = j)
    BY <1>0, <1>2
  <2>3. CASE arr[j].key <= key.key
    <3>1. arr[x].key <= arr[j].key
      BY <1>0, <1>2, <2>2
    <3> QED
      BY <1>0, <2>2, <2>3, <3>1
  <2>4. CASE by = "insertionSortBinary" /\ j < low
    <3>1. \A z \in 1 .. low - 1 : arr[z].key <= key.key
      BY <1>1, <2>4, ShiftFacts
    <3>2. x \in 1 .. low - 1
      BY <1>0, <2>4
    <3> QED
      BY <3>1, <3>2
  <2> QED
    BY <2>1, <2>3, <2>4
<1>6. InOrder(arr', 1, i)
  <2> SUFFICES ASSUME NEW x \in 1 .. i, NEW y \in 1 .. i, x < y
               PROVE  arr'[x].key <= arr'[y].key
    BY DEF InOrder
  <2>1. x \in 1 .. N /\ y \in 1 .. N
    BY <1>0, <1>2
  <2>2. CASE x # j + 1 /\ y # j + 1
    BY <1>2, <1>4, <2>1, <2>2
  <2>3. CASE y = j + 1
    <3>1. x \in 1 .. j /\ x # j + 1
      BY <1>0, <2>3
    <3> QED
      BY <1>4, <1>5, <2>1, <2>3, <3>1
  <2>4. CASE x = j + 1
    <3>1. y \in j + 2 .. i /\ y # j + 1
      BY <1>0, <2>4
    <3>2. arr[y].key > key.key /\ arr[y].key \in Int
      BY <1>0, <1>2, <2>1, <3>1
    <3> QED
      BY <1>0, <1>4, <2>1, <2>4, <3>1, <3>2
  <2> QED
    BY <2>2, <2>3, <2>4
<1>7. Lesser(i - 1, N)' = i
  BY <1>0, <1>1, <1>2 DEF Lesser
<1>8. InOrder(arr, 1, Lesser(i - 1, N))'
  BY <1>6, <1>7 DEF InOrder
<1>9. ASSUME by = "insertionSortWithSentinel" PROVE i' >= 3 /\ N > 1 /\ Least'
  <2>1. i >= 3 /\ N > 1 /\ Least /\ 1 <= j /\ arr[1].key <= key.key
    BY <1>1, <1>9, ShiftFacts
  <2>2. 1 \in 1 .. N /\ 1 # j + 1
    BY <1>0, <2>1
  <2>3. arr'[1] = arr[1]
    BY <1>4, <2>2
  <2>4. \A x \in 1 .. N : arr[1].key <= arr'[x].key
    BY <1>4, <2>1 DEF Least
  <2> QED
    BY <1>0, <1>1, <2>1, <2>3, <2>4 DEF Least
<1>10. i' >= 2
  BY <1>1, <1>2
<1> QED
  BY <1>1, <1>8, <1>9, <1>10 DEF InsertionInv

\* What the insertion sorts have put in order (main.cpp:294-358).
LEMMA InsertionNextKeeps ==
  ASSUME TypeOK, TypeOK', N' = N, by' = by, by \in Insertions, InsertionInv, Where,
         InsertionNext
  PROVE  InsertionInv'
<1>0. N \in Nat /\ n = N /\ i \in Int
  BY InsertionTypes
<1>1. CASE InsertionStart
  <2>1. /\ pc' = "insert" /\ arr' = arr /\ i' = 2 /\ by # "insertionSortWithSentinel"
    BY <1>1 DEF InsertionStart
  <2>2. Lesser(1, N) <= 1 /\ Lesser(1, N) \in Int
    BY <1>0 DEF Lesser
  <2>3. InOrder(arr, 1, Lesser(1, N))
    <3> HIDE DEF Lesser
    <3>1. \A x, y \in 1 .. Lesser(1, N) : ~(x < y)
      BY <2>2
    <3> QED
      BY <3>1 DEF InOrder
  <2>4. Lesser(i - 1, N)' = Lesser(1, N)
    BY <2>1 DEF Lesser
  <2>5. InOrder(arr, 1, Lesser(i - 1, N))'
    BY <2>1, <2>3, <2>4 DEF InOrder
  <2> QED
    BY <2>1, <2>5 DEF InsertionInv
<1>2. CASE Hold \/ HoldBinary
  BY <1>2, HoldKeeps
<1>3. CASE Bisect \/ Bisected
  BY <1>3, BisectKeeps
<1>4. CASE Shift
  BY <1>4, ShiftKeeps
<1>5. CASE Insert
  BY <1>5, InsertKeeps
<1>6. CASE InsertionDone
  <2>1. pc = "insert" /\ pc' = "done" /\ arr' = arr /\ i > N
    BY <1>0, <1>6 DEF InsertionDone, Finish
  <2>2. Lesser(i - 1, N) = N
    BY <1>0, <2>1 DEF Lesser
  <2>3. InOrder(arr, 1, N)
    BY <2>1, <2>2 DEF InsertionInv
  <2>4. InOrder(arr, 1, N)'
    BY <2>1, <2>3 DEF InOrder
  <2> QED
    BY <2>1, <2>4 DEF InsertionInv
<1> QED
  BY <1>1, <1>2, <1>3, <1>4, <1>5, <1>6 DEF InsertionNext

\* Only the insertion sorts insert (main.cpp:294-358).
LEMMA InsertionStep ==
  ASSUME SInv, TypeOK', N' = N, by' = by, by \in Insertions => SentinelNext \/ InsertionNext
  PROVE  InsertionInv'
<1>1. CASE by \in Insertions
  BY <1>1, SentinelNextKeeps, InsertionNextKeeps DEF SInv
<1>2. CASE by \notin Insertions
  BY <1>2 DEF InsertionInv
<1> QED
  BY <1>1, <1>2

-----------------------------------------------------------------------------
(* Merging *)

\* A merge that starts has taken nothing yet (main.cpp:70-71, 109-111).
LEMMA MergeStarts ==
  ASSUME N' = N, N \in Nat, arr' = arr,
         NEW l \in Int, NEW m \in Int, NEW h \in Int, low' = l, mid' = m, high' = h,
         1 <= l, l <= m + 1, m <= h, h <= N, i' = l, j' = m + 1, out' = <<>>,
         Run(arr, l, m), Run(arr, m + 1, h), by' = by,
         by # "mergeBottom" => LeftFirst(arr, l, m, h)
  PROVE  MergeInv'
<1>1. (l .. l - 1) \cup (m + 1 .. (m + 1) - 1) = {}
  OBVIOUS
<1>2. (low' .. i' - 1) \cup (mid' + 1 .. j' - 1) = {}
  BY <1>1
<1>3. 0 = (l - l) + ((m + 1) - m - 1)
  OBVIOUS
<1>4. Len(out') = (i' - low') + (j' - mid' - 1) /\ 1 .. Len(out') = {}
  BY <1>3
<1>5. Run(arr, low, mid)' /\ Run(arr, mid + 1, high)'
  BY DEF Run, Ahead
<1>6. Merged(arr, out, (low .. i - 1) \cup (mid + 1 .. j - 1), (i .. mid) \cup (j .. high))'
  BY <1>2, <1>4 DEF Merged, Run
<1>a. (by # "mergeBottom" => LeftFirst(arr, low, mid, high))'
  BY DEF LeftFirst
<1>7. 1 <= l /\ l <= l /\ l <= m + 1 /\ m + 1 <= m + 1 /\ m + 1 <= h + 1 /\ h <= N
  OBVIOUS
<1>8. /\ 1 <= low' /\ low' <= i' /\ i' <= mid' + 1 /\ mid' + 1 <= j' /\ j' <= high' + 1
      /\ high' <= N'
  BY <1>7
<1> QED
  BY <1>4, <1>5, <1>6, <1>8, <1>a DEF MergeInv

\* What lies ahead of an element lies ahead of what that lies ahead of
\* (main.cpp:73, 119).
LEMMA AheadTrans ==
  ASSUME NEW e \in Element, NEW f \in Element, NEW g \in Element, Ahead(e, f), Ahead(f, g)
  PROVE  Ahead(e, g)
<1>1. e.key \in Int /\ f.key \in Int /\ g.key \in Int
  BY DEF Element
<1>2. e.id \in Nat /\ f.id \in Nat /\ g.id \in Nat
  BY DEF Element
<1> QED
  BY <1>1, <1>2 DEF Ahead

\* The element taken lies ahead of those that are left (main.cpp:72-85,
\* 118-131).
LEMMA TakeKeeps ==
  ASSUME N \in Nat, NEW a \in [1 .. N -> Element], NEW o \in Seq(Element),
         NEW used \in SUBSET (1 .. N), NEW rest \in SUBSET (1 .. N), NEW p \in rest,
         Merged(a, o, used, rest),
         \A y \in rest \ {p} : Ahead(a[p], a[y])
  PROVE  Merged(a, Append(o, a[p]), used \cup {p}, rest \ {p})
<1> DEFINE b == Append(o, a[p])
           m == Len(o)
<1>1. a[p] \in Element /\ m \in Nat
  BY LenProperties
<1>2. Len(b) = m + 1 /\ b[m + 1] = a[p] /\ \A x \in 1 .. m : b[x] = o[x]
  BY <1>1, AppendProperties
<1>3. \A x \in 1 .. m + 1 : x \in 1 .. m \/ x = m + 1
  BY <1>1
<1>4. \A x \in 1 .. m : x \in 1 .. m + 1
  BY <1>1
<1>5. m + 1 \in 1 .. m + 1
  BY <1>1
<1>6. /\ \A x, y \in 1 .. m : x < y => Ahead(o[x], o[y])
      /\ \A x \in 1 .. m : \E y \in used : o[x] = a[y]
      /\ \A y \in used : \E x \in 1 .. m : o[x] = a[y]
      /\ \A x \in 1 .. m : \A y \in rest : Ahead(o[x], a[y])
  BY DEF Merged, Run
<1> HIDE DEF b, m
<1>7. Run(b, 1, Len(b))
  <2> SUFFICES ASSUME NEW x \in 1 .. m + 1, NEW y \in 1 .. m + 1, x < y
               PROVE  Ahead(b[x], b[y])
    BY <1>2 DEF Run
  <2>1. x \in 1 .. m
    BY <1>1
  <2>2. CASE y \in 1 .. m
    BY <1>2, <1>6, <2>1, <2>2
  <2>3. CASE y = m + 1
    BY <1>2, <1>6, <2>1, <2>3
  <2> QED
    BY <1>3, <2>2, <2>3
<1>8. \A x \in 1 .. Len(b) : \E y \in used \cup {p} : b[x] = a[y]
  BY <1>2, <1>3, <1>6
<1>9. \A y \in used \cup {p} : \E x \in 1 .. Len(b) : b[x] = a[y]
  BY <1>2, <1>4, <1>5, <1>6
<1>10. \A x \in 1 .. Len(b) : \A y \in rest \ {p} : Ahead(b[x], a[y])
  BY <1>2, <1>3, <1>6
<1> QED
  BY <1>7, <1>8, <1>9, <1>10 DEF Merged, b

\* What a merge reads: two runs that are in order, the left one from places
\* before the right one's (main.cpp:73, 119).
LEMMA MergeFacts ==
  ASSUME TypeOK, MergeInv, pc = "merge"
  PROVE  /\ N \in Nat /\ arr \in [1 .. N -> Element] /\ out \in Seq(Element)
         /\ low \in Int /\ mid \in Int /\ high \in Int /\ i \in Int /\ j \in Int
         /\ 1 <= low /\ low <= i /\ i <= mid + 1 /\ mid + 1 <= j /\ j <= high + 1 /\ high <= N
         /\ Len(out) = (i - low) + (j - mid - 1) /\ Len(out) \in Nat
         /\ \A x, y \in low .. mid : x < y => Ahead(arr[x], arr[y])
         /\ \A x, y \in mid + 1 .. high : x < y => Ahead(arr[x], arr[y])
         /\ Merged(arr, out, (low .. i - 1) \cup (mid + 1 .. j - 1), (i .. mid) \cup (j .. high))
         /\ by # "mergeBottom" =>
              \A x \in low .. mid : \A y \in mid + 1 .. high : arr[x].id < arr[y].id
         /\ \A x \in 1 .. N : arr[x].key \in Int /\ arr[x].id \in Int
<1>1. \A x \in 1 .. N : arr[x].key \in Int
  BY DEF TypeOK, Element
<1>2. \A x \in 1 .. N : arr[x].id \in Nat
  BY DEF TypeOK, Element
<1> QED
  BY <1>1, <1>2, Length, LenProperties DEF TypeOK, MergeInv, Run, LeftFirst

\* The left run's next element goes out (main.cpp:74, 81, 120, 127).
LEMMA TakeLeftKeeps ==
  ASSUME TypeOK, TypeOK', N' = N, by' = by, MergeInv, TakeLeft
  PROVE  MergeInv'
<1> DEFINE used == (low .. i - 1) \cup (mid + 1 .. j - 1)
           rest == (i .. mid) \cup (j .. high)
<1>1. /\ pc = "merge" /\ i <= mid /\ (j <= high => LeftWins) /\ out' = Append(out, arr[i])
      /\ i' = i + 1 /\ UNCHANGED <<arr, low, mid, high, j, pc>>
  BY DEF TakeLeft
<1>2. /\ N \in Nat /\ arr \in [1 .. N -> Element] /\ out \in Seq(Element)
      /\ low \in Int /\ mid \in Int /\ high \in Int /\ i \in Int /\ j \in Int
      /\ 1 <= low /\ low <= i /\ i <= mid + 1 /\ mid + 1 <= j /\ j <= high + 1 /\ high <= N
      /\ Len(out) = (i - low) + (j - mid - 1) /\ Len(out) \in Nat
  BY <1>1, MergeFacts
<1>3. /\ \A x, y \in low .. mid : x < y => Ahead(arr[x], arr[y])
      /\ \A x, y \in mid + 1 .. high : x < y => Ahead(arr[x], arr[y])
      /\ by # "mergeBottom" =>
           \A x \in low .. mid : \A y \in mid + 1 .. high : arr[x].id < arr[y].id
      /\ \A x \in 1 .. N : arr[x].key \in Int /\ arr[x].id \in Int
  BY <1>1, MergeFacts
<1>4. Merged(arr, out, used, rest)
  BY <1>1, MergeFacts
<1>5. /\ used \in SUBSET (1 .. N) /\ rest \in SUBSET (1 .. N) /\ i \in rest /\ i \in 1 .. N
      /\ used \cup {i} = (low .. i' - 1) \cup (mid + 1 .. j - 1)
      /\ rest \ {i} = (i' .. mid) \cup (j .. high)
  <2>1. used \cup {i} = (low .. i' - 1) \cup (mid + 1 .. j - 1)
    BY <1>1, <1>2
  <2>2. rest \ {i} = (i' .. mid) \cup (j .. high)
    BY <1>1, <1>2
  <2>3. i \in rest /\ i \in 1 .. N
    BY <1>1, <1>2
  <2>4. used \in SUBSET (1 .. N)
    BY <1>1, <1>2
  <2>5. rest \in SUBSET (1 .. N)
    BY <1>1, <1>2
  <2> QED
    BY <2>1, <2>2, <2>3, <2>4, <2>5
<1>6. ASSUME NEW y \in rest \ {i}
      PROVE  Ahead(arr[i], arr[y])
  <2>1. i \in low .. mid /\ y \in 1 .. N
    BY <1>1, <1>2
  <2>2. CASE y \in i .. mid
    <3>1. y \in low .. mid /\ i < y
      BY <1>1, <1>2, <2>2
    <3> QED
      BY <1>3, <2>1, <3>1
  <2>3. CASE y \in j .. high
    <3>1. j \in mid + 1 .. high /\ y \in mid + 1 .. high /\ j <= high /\ j \in 1 .. N
      BY <1>1, <1>2, <2>3
    <3>2. Ahead(arr[i], arr[j])
      <4>1. LeftWins /\ (by = "mergeSortIterativeDS" => arr[i].id < arr[j].id)
        BY <1>1, <1>3, <2>1, <3>1
      <4> QED
        BY <1>3, <1>5, <3>1, <4>1 DEF LeftWins, Ahead
    <3>3. j = y \/ Ahead(arr[j], arr[y])
      BY <1>2, <1>3, <2>3, <3>1
    <3>4. arr[i] \in Element /\ arr[j] \in Element /\ arr[y] \in Element
      BY <1>2, <1>5, <2>1, <3>1
    <3> QED
      BY <3>2, <3>3, <3>4, AheadTrans
  <2> QED
    BY <2>2, <2>3
<1> HIDE DEF used, rest
<1>8. Merged(arr, out', used \cup {i}, rest \ {i})
  <2>1. \A y \in rest \ {i} : Ahead(arr[i], arr[y])
    BY <1>6
  <2> QED
    BY <1>1, <1>2, <1>4, <1>5, <2>1, TakeKeeps
<1>9. Merged(arr, out, (low .. i - 1) \cup (mid + 1 .. j - 1), (i .. mid) \cup (j .. high))'
  <2>1. /\ (low' .. i' - 1) \cup (mid' + 1 .. j' - 1) = used \cup {i}
        /\ (i' .. mid') \cup (j' .. high') = rest \ {i}
    BY <1>1, <1>5
  <2>2. Merged(arr, out', (low' .. i' - 1) \cup (mid' + 1 .. j' - 1),
               (i' .. mid') \cup (j' .. high'))
    BY <1>8, <2>1
  <2>3. arr' = arr /\ by' = by
    BY <1>1
  <2> QED
    BY <2>3, <2>2 DEF Merged, Run, Ahead
<1>10. Len(out') = (i' - low) + (j - mid - 1)
  <2>1. Len(out') = Len(out) + 1
    BY <1>1, <1>2, <1>5, AppendProperties
  <2> QED
    BY <1>1, <1>2, <2>1
<1>11. Run(arr, low, mid)' /\ Run(arr, mid + 1, high)'
  BY <1>1, <1>3 DEF Run, Ahead
<1>a. (by # "mergeBottom" => LeftFirst(arr, low, mid, high))'
  BY <1>1, <1>3 DEF LeftFirst
<1>12. low <= i' /\ i' <= mid + 1
  BY <1>1, <1>2
<1> QED
  BY <1>1, <1>2, <1>9, <1>10, <1>11, <1>12, <1>a DEF MergeInv

\* The right run's next element goes out (main.cpp:76, 84, 122, 130).
LEMMA TakeRightKeeps ==
  ASSUME TypeOK, TypeOK', N' = N, by' = by, MergeInv, TakeRight
  PROVE  MergeInv'
<1> DEFINE used == (low .. i - 1) \cup (mid + 1 .. j - 1)
           rest == (i .. mid) \cup (j .. high)
<1>1. /\ pc = "merge" /\ j <= high /\ (i <= mid => ~LeftWins) /\ out' = Append(out, arr[j])
      /\ j' = j + 1 /\ UNCHANGED <<arr, low, mid, high, i, pc>>
  BY DEF TakeRight
<1>2. /\ N \in Nat /\ arr \in [1 .. N -> Element] /\ out \in Seq(Element)
      /\ low \in Int /\ mid \in Int /\ high \in Int /\ i \in Int /\ j \in Int
      /\ 1 <= low /\ low <= i /\ i <= mid + 1 /\ mid + 1 <= j /\ j <= high + 1 /\ high <= N
      /\ Len(out) = (i - low) + (j - mid - 1) /\ Len(out) \in Nat
  BY <1>1, MergeFacts
<1>3. /\ \A x, y \in low .. mid : x < y => Ahead(arr[x], arr[y])
      /\ \A x, y \in mid + 1 .. high : x < y => Ahead(arr[x], arr[y])
      /\ by # "mergeBottom" =>
           \A x \in low .. mid : \A y \in mid + 1 .. high : arr[x].id < arr[y].id
      /\ \A x \in 1 .. N : arr[x].key \in Int /\ arr[x].id \in Int
  BY <1>1, MergeFacts
<1>4. Merged(arr, out, used, rest)
  BY <1>1, MergeFacts
<1>5. /\ used \in SUBSET (1 .. N) /\ rest \in SUBSET (1 .. N) /\ j \in rest /\ j \in 1 .. N
      /\ used \cup {j} = (low .. i - 1) \cup (mid + 1 .. j' - 1)
      /\ rest \ {j} = (i .. mid) \cup (j' .. high)
  <2>1. used \cup {j} = (low .. i - 1) \cup (mid + 1 .. j' - 1)
    BY <1>1, <1>2
  <2>2. rest \ {j} = (i .. mid) \cup (j' .. high)
    BY <1>1, <1>2
  <2>3. j \in rest /\ j \in 1 .. N
    BY <1>1, <1>2
  <2>4. used \in SUBSET (1 .. N)
    BY <1>1, <1>2
  <2>5. rest \in SUBSET (1 .. N)
    BY <1>1, <1>2
  <2> QED
    BY <2>1, <2>2, <2>3, <2>4, <2>5
<1>6. ASSUME NEW y \in rest \ {j}
      PROVE  Ahead(arr[j], arr[y])
  <2>1. j \in mid + 1 .. high /\ y \in 1 .. N
    BY <1>1, <1>2
  <2>2. CASE y \in j .. high
    <3>1. y \in mid + 1 .. high /\ j < y
      BY <1>1, <1>2, <2>2
    <3> QED
      BY <1>3, <2>1, <3>1
  <2>3. CASE y \in i .. mid
    <3>1. i \in low .. mid /\ y \in low .. mid /\ i <= mid /\ i \in 1 .. N
      BY <1>1, <1>2, <2>3
    <3>2. Ahead(arr[j], arr[i])
      <4>1. ~LeftWins /\ (by # "mergeBottom" => arr[i].id < arr[j].id)
        BY <1>1, <1>3, <2>1, <3>1
      <4> QED
        BY <1>3, <1>5, <3>1, <4>1 DEF LeftWins, Ahead
    <3>3. i = y \/ Ahead(arr[i], arr[y])
      BY <1>2, <1>3, <2>3, <3>1
    <3>4. arr[i] \in Element /\ arr[j] \in Element /\ arr[y] \in Element
      BY <1>2, <1>5, <2>1, <3>1
    <3> QED
      BY <3>2, <3>3, <3>4, AheadTrans
  <2> QED
    BY <2>2, <2>3
<1> HIDE DEF used, rest
<1>8. Merged(arr, out', used \cup {j}, rest \ {j})
  <2>1. \A y \in rest \ {j} : Ahead(arr[j], arr[y])
    BY <1>6
  <2> QED
    BY <1>1, <1>2, <1>4, <1>5, <2>1, TakeKeeps
<1>9. Merged(arr, out, (low .. i - 1) \cup (mid + 1 .. j - 1), (i .. mid) \cup (j .. high))'
  <2>1. /\ (low' .. i' - 1) \cup (mid' + 1 .. j' - 1) = used \cup {j}
        /\ (i' .. mid') \cup (j' .. high') = rest \ {j}
    BY <1>1, <1>5
  <2>2. Merged(arr, out', (low' .. i' - 1) \cup (mid' + 1 .. j' - 1),
               (i' .. mid') \cup (j' .. high'))
    BY <1>8, <2>1
  <2>3. arr' = arr /\ by' = by
    BY <1>1
  <2> QED
    BY <2>3, <2>2 DEF Merged, Run, Ahead
<1>10. Len(out') = (i - low) + (j' - mid - 1)
  <2>1. Len(out') = Len(out) + 1
    BY <1>1, <1>2, <1>5, AppendProperties
  <2> QED
    BY <1>1, <1>2, <2>1
<1>11. Run(arr, low, mid)' /\ Run(arr, mid + 1, high)'
  BY <1>1, <1>3 DEF Run, Ahead
<1>a. (by # "mergeBottom" => LeftFirst(arr, low, mid, high))'
  BY <1>1, <1>3 DEF LeftFirst
<1>12. mid + 1 <= j' /\ j' <= high + 1
  BY <1>1, <1>2
<1> QED
  BY <1>1, <1>2, <1>9, <1>10, <1>11, <1>12, <1>a DEF MergeInv

-----------------------------------------------------------------------------
(* Bottom-up merge sorts *)

\* What doubling the size of the runs does to their ends (main.cpp:98, 139).
LEMMA MultipleFacts ==
  ASSUME NEW s \in Nat, NEW b \in Int
  PROVE  /\ Multiple(0, s)
         /\ b \in Nat => Multiple(b, 1)
         /\ Multiple(b, 2 * s) => Multiple(b, s)
         /\ Multiple(b, s) => Multiple(b + s, s)
<1>1. Multiple(0, s)
  <2>1. 0 = 0 * s
    OBVIOUS
  <2> QED
    BY <2>1 DEF Multiple
<1>2. ASSUME b \in Nat PROVE Multiple(b, 1)
  <2>1. b = b * 1
    OBVIOUS
  <2> QED
    BY <1>2, <2>1 DEF Multiple
<1>3. ASSUME Multiple(b, 2 * s) PROVE Multiple(b, s)
  <2>1. PICK q \in Nat : b = q * (2 * s)
    BY <1>3 DEF Multiple
  <2>2. 2 * q \in Nat /\ b = (2 * q) * s
    BY <2>1
  <2> QED
    BY <2>2 DEF Multiple
<1>4. ASSUME Multiple(b, s) PROVE Multiple(b + s, s)
  <2>1. PICK q \in Nat : b = q * s
    BY <1>4 DEF Multiple
  <2>2. q + 1 \in Nat /\ b + s = (q + 1) * s
    BY <2>1
  <2> QED
    BY <2>2 DEF Multiple
<1> QED
  BY <1>1, <1>2, <1>3, <1>4

\* A run has no end within (main.cpp:100-102).
LEMMA NoneBetween ==
  ASSUME NEW s \in Nat, NEW a \in Int, Multiple(a, s), NEW b \in Int, a < b, b < a + s
  PROVE  ~ Multiple(b, s)
<1> SUFFICES ASSUME Multiple(b, s) PROVE FALSE
  OBVIOUS
<1>1. PICK q \in Nat : a = q * s
  BY DEF Multiple
<1>2. PICK p \in Nat : b = p * s
  BY DEF Multiple
<1>3. CASE p <= q
  <2>1. q - p \in Nat
    BY <1>3
  <2>2. (q - p) * s >= 0 /\ (q - p) * s = q * s - p * s
    BY <2>1
  <2> QED
    BY <1>1, <1>2, <2>2
<1>4. CASE p > q
  <2>1. p - q - 1 \in Nat
    BY <1>4
  <2>2. (p - q - 1) * s >= 0 /\ (p - q - 1) * s = p * s - q * s - s
    BY <2>1
  <2> QED
    BY <1>1, <1>2, <2>2
<1> QED
  BY <1>3, <1>4

\* The loops stop where a run holds the whole array (main.cpp:98, 139, 165).
LEMMA OneRun ==
  ASSUME N \in Nat, NEW a, NEW l \in Int, NEW s \in Nat, s >= N, Runs(a, l, s)
  PROVE  Run(a, 1, N)
<1> SUFFICES ASSUME NEW x \in 1 .. N, NEW y \in 1 .. N, x < y, ~Ahead(a[x], a[y])
             PROVE  FALSE
  BY DEF Run
<1>1. PICK b \in x .. y - 1 : Boundary(b, l, s)
  BY DEF Runs
<1>2. b \in Int /\ 0 < b /\ b < 0 + s
  OBVIOUS
<1>3. Multiple(b, s)
  BY <1>1, <1>2, MultipleFacts DEF Boundary
<1> QED
  BY <1>2, <1>3, NoneBetween, MultipleFacts

\* At the end of a pass the runs have doubled; what mergeSortIterativeDS leaves
\* over is part of one run (main.cpp:100).
LEMMA PassEnds ==
  ASSUME N \in Nat, NEW a, NEW l \in Int, NEW s \in Nat, l >= 1, l - 1 >= N - s,
         Multiple(l - 1, 2 * s), Runs(a, l, s)
  PROVE  Runs(a, 1, 2 * s)
<1> SUFFICES ASSUME NEW x \in 1 .. N, NEW y \in 1 .. N, x < y, ~Ahead(a[x], a[y])
             PROVE  \E b \in x .. y - 1 : Boundary(b, 1, 2 * s)
  BY DEF Runs
<1>1. PICK b \in x .. y - 1 : Boundary(b, l, s)
  BY DEF Runs
<1>2. b \in Int /\ b >= 1
  OBVIOUS
<1>3. CASE b < l
  BY <1>1, <1>2, <1>3 DEF Boundary
<1>4. CASE b >= l
  <2>1. l - 1 \in Int /\ Multiple(l - 1, s) /\ Multiple(b, s)
    BY <1>1, <1>2, <1>4, MultipleFacts DEF Boundary
  <2>2. l - 1 < b /\ b < (l - 1) + s
    BY <1>4
  <2> QED
    BY <1>2, <2>1, <2>2, NoneBetween
<1> QED
  BY <1>2, <1>3, <1>4

\* A merged segment is one run of twice the size (main.cpp:118-131, 157, 189).
LEMMA SegmentMerged ==
  ASSUME N \in Nat, NEW a, NEW c, NEW l \in Int, NEW h \in Int, NEW s \in Nat, s >= 1, l >= 1,
         l <= N, h = Lesser(l - 1 + 2 * s, N), Multiple(l - 1, 2 * s), Runs(a, l, s),
         WrittenBack(a, c, l, h)
  PROVE  Multiple(l + 2 * s - 1, 2 * s) /\ Runs(c, l + 2 * s, s)
<1> DEFINE g == l + 2 * s
<1>1. 2 * s \in Nat /\ l - 1 \in Int /\ (l - 1) + 2 * s = l + 2 * s - 1
  OBVIOUS
<1>2. Multiple(g - 1, 2 * s)
  BY <1>1, MultipleFacts
<1>3. g \in Int /\ l < g /\ l - 1 < g /\ h <= N /\ h < g /\ \A k \in 1 .. N : k < g => k <= h
  BY DEF Lesser
<1>4. /\ \A k \in 1 .. N : k < l \/ h < k => c[k] = a[k]
      /\ \A x, y \in l .. h : x < y => Ahead(c[x], c[y])
  BY DEF WrittenBack, Run
<1> HIDE DEF g
<1>5. Runs(c, g, s)
  <2> SUFFICES ASSUME NEW x \in 1 .. N, NEW y \in 1 .. N, x < y, ~Ahead(c[x], c[y])
               PROVE  \E b \in x .. y - 1 : Boundary(b, g, s)
    BY DEF Runs
  <2>1. CASE x < l /\ l <= y
    <3>1. l - 1 \in x .. y - 1 /\ l - 1 < g
      BY <1>3, <2>1
    <3> QED
      BY <3>1 DEF Boundary
  <2>2. CASE x < g /\ g <= y
    <3>1. g - 1 \in x .. y - 1 /\ g - 1 < g
      BY <1>3, <2>2
    <3> QED
      BY <1>2, <3>1 DEF Boundary
  <2>3. CASE y < l
    <3>1. c[x] = a[x] /\ c[y] = a[y]
      BY <1>4, <2>3
    <3>2. PICK b \in x .. y - 1 : Boundary(b, l, s)
      BY <3>1 DEF Runs
    <3>3. b < l /\ b < g
      BY <1>3, <2>3
    <3> QED
      BY <3>2, <3>3 DEF Boundary
  <2>4. CASE x >= l /\ y < g
    <3>1. x \in l .. h /\ y \in l .. h
      BY <1>3, <2>4
    <3> QED
      BY <1>4, <3>1
  <2>5. CASE x >= g
    <3>1. c[x] = a[x] /\ c[y] = a[y]
      BY <1>3, <1>4, <2>5
    <3>2. PICK b \in x .. y - 1 : Boundary(b, l, s)
      BY <3>1 DEF Runs
    <3>3. b >= g /\ ~(b < l)
      BY <1>3, <2>5
    <3> QED
      BY <3>2, <3>3 DEF Boundary
  <2> QED
    BY <1>3, <2>1, <2>2, <2>3, <2>4, <2>5
<1> QED
  BY <1>2, <1>5 DEF g

\* The two runs of a segment are in order, whatever the sort makes of a short
\* one (main.cpp:101-102, 141-143, 167-168).
LEMMA SegmentRuns ==
  ASSUME TypeOK, by \in BottomUp, MoreSegments, size >= 1, low >= 1,
         Multiple(low - 1, 2 * size), Runs(arr, low, size)
  PROVE  /\ low <= N /\ LeftEnd \in Int /\ Lesser(low - 1 + 2 * size, N) \in Int
         /\ low <= LeftEnd + 1 /\ LeftEnd <= Lesser(low - 1 + 2 * size, N)
         /\ Lesser(low - 1 + 2 * size, N) <= N
         /\ Run(arr, low, LeftEnd)
         /\ Run(arr, LeftEnd + 1, Lesser(low - 1 + 2 * size, N))
<1> DEFINE m == LeftEnd
           h == Lesser(low - 1 + 2 * size, N)
<1>0. N \in Nat /\ n = N /\ low \in Int /\ size \in Int /\ size \in Nat /\ low - 1 \in Int
  BY Length DEF TypeOK
<1>1. low <= N
  BY <1>0 DEF MoreSegments
<1>2. h \in Int /\ h <= N /\ h <= low - 1 + 2 * size
  BY <1>0 DEF Lesser
<1>3. /\ m \in Int /\ low <= m + 1 /\ m <= h /\ m <= low - 1 + size
      /\ m = low - 1 + size \/ m = N - 1 \/ m = N
  <2>1. CASE by = "mergeBottom"
    BY <1>0, <1>1, <2>1 DEF LeftEnd, Lesser
  <2>2. CASE by = "mergeBottomModifyByAI"
    BY <1>0, <1>1, <2>2 DEF LeftEnd, Lesser
  <2>3. CASE by = "mergeSortIterativeDS"
    <3>1. m = low - 1 + size /\ low - 1 + size < N
      BY <1>0, <2>3 DEF LeftEnd, MoreSegments
    <3> QED
      BY <1>0, <1>1, <3>1 DEF Lesser
  <2> QED
    BY <2>1, <2>2, <2>3 DEF BottomUp
<1>4. Multiple(low - 1, size)
  BY <1>0, MultipleFacts
<1> HIDE DEF m, h
<1>5. Run(arr, low, m)
  <2> SUFFICES ASSUME NEW x \in low .. m, NEW y \in low .. m, x < y, ~Ahead(arr[x], arr[y])
               PROVE  FALSE
    BY DEF Run
  <2>1. x \in 1 .. N /\ y \in 1 .. N
    BY <1>0, <1>2, <1>3
  <2>2. PICK b \in x .. y - 1 : Boundary(b, low, size)
    BY <2>1 DEF Runs
  <2>3. b \in Int /\ low - 1 < b /\ b < (low - 1) + size /\ ~(b < low)
    BY <1>0, <1>3
  <2> QED
    BY <1>0, <1>4, <2>2, <2>3, NoneBetween DEF Boundary
<1>6. Run(arr, m + 1, h)
  <2> SUFFICES ASSUME NEW x \in m + 1 .. h, NEW y \in m + 1 .. h, x < y,
                      ~Ahead(arr[x], arr[y])
               PROVE  FALSE
    BY DEF Run
  <2>1. x \in 1 .. N /\ y \in 1 .. N
    BY <1>0, <1>2, <1>3
  <2>2. m = low - 1 + size
    BY <1>0, <1>2, <1>3
  <2>3. PICK b \in x .. y - 1 : Boundary(b, low, size)
    BY <2>1 DEF Runs
  <2>4. b \in Int /\ m < b /\ b < m + size /\ ~(b < low)
    BY <1>0, <1>2, <2>2
  <2>5. Multiple(m, size)
    BY <1>0, <1>4, <2>2, MultipleFacts
  <2> QED
    BY <1>0, <1>3, <2>3, <2>4, <2>5, NoneBetween DEF Boundary
<1> QED
  BY <1>1, <1>2, <1>3, <1>5, <1>6 DEF m, h

\* A pass that ends has doubled the blocks, too (main.cpp:98, 139).
LEMMA BlocksDouble ==
  ASSUME N \in Nat, NEW a, NEW l \in Int, NEW s \in Nat, Blocks(a, l, s)
  PROVE  Blocks(a, 1, 2 * s)
<1> SUFFICES ASSUME NEW x \in 1 .. N, NEW y \in 1 .. N, NEW b \in x .. y - 1,
                    Boundary(b, 1, 2 * s)
             PROVE  a[x].id < a[y].id
  BY DEF Blocks
<1>1. b \in Int /\ ~(b < 1)
  OBVIOUS
<1>2. Multiple(b, 2 * s) /\ Multiple(b, s)
  BY <1>1, MultipleFacts DEF Boundary
<1>3. Boundary(b, l, s)
  BY <1>1, <1>2 DEF Boundary
<1> QED
  BY <1>3 DEF Blocks

\* A merged segment is one block: its elements stay within it
\* (main.cpp:118-131, 157, 189).
LEMMA SegmentBlocks ==
  ASSUME N \in Nat, NEW a, NEW c, NEW l \in Int, NEW h \in Int, NEW s \in Nat, s >= 1, l >= 1,
         l <= N, h = Lesser(l - 1 + 2 * s, N), Multiple(l - 1, 2 * s), Blocks(a, l, s),
         WrittenBack(a, c, l, h)
  PROVE  Blocks(c, l + 2 * s, s)
<1> DEFINE g == l + 2 * s
<1>1. 2 * s \in Nat /\ l - 1 \in Int /\ g \in Int /\ h \in Int /\ l < g /\ h < g /\ h <= N
      /\ h <= (l - 1) + 2 * s
  BY DEF Lesser
<1>2. /\ \A k \in 1 .. N : k < l \/ h < k => c[k] = a[k]
      /\ \A k \in l .. h : \E m \in l .. h : c[k] = a[m]
  BY DEF WrittenBack
<1> HIDE DEF g
<1> SUFFICES ASSUME NEW x \in 1 .. N, NEW y \in 1 .. N, NEW b \in x .. y - 1, Boundary(b, g, s)
             PROVE  c[x].id < c[y].id
  BY DEF Blocks, g
<1>3. b \in Int /\ x <= b /\ b < y
  OBVIOUS
<1>4. Boundary(b, l, s)
  <2>1. Multiple(b, 2 * s) => Multiple(b, s)
    BY <1>3, MultipleFacts
  <2>2. CASE b < g
    BY <1>1, <1>3, <2>1, <2>2 DEF Boundary
  <2>3. CASE b >= g
    BY <1>1, <1>3, <2>3 DEF Boundary
  <2> QED
    BY <1>1, <1>3, <2>2, <2>3
<1>5. b < l \/ h <= b
  <2> SUFFICES ASSUME l <= b, b < h PROVE FALSE
    BY <1>1, <1>3
  <2>1. Multiple(b, 2 * s)
    BY <1>1, <1>3 DEF Boundary
  <2>2. l - 1 < b /\ b < (l - 1) + 2 * s
    BY <1>1, <1>3
  <2> QED
    BY <1>1, <1>3, <2>1, <2>2, NoneBetween
<1>6. PICK u \in 1 .. N : c[x] = a[u] /\ u <= b
  <2>1. CASE x \in l .. h
    <3>1. PICK m \in l .. h : c[x] = a[m]
      BY <1>2, <2>1
    <3>2. m \in 1 .. N /\ m <= b
      BY <1>1, <1>3, <1>5, <2>1
    <3> QED
      BY <3>1, <3>2
  <2>2. CASE x \notin l .. h
    <3>1. x < l \/ h < x
      BY <1>1, <2>2
    <3> QED
      BY <1>2, <1>3, <3>1
  <2> QED
    BY <2>1, <2>2
<1>7. PICK v \in 1 .. N : c[y] = a[v] /\ b < v
  <2>1. CASE y \in l .. h
    <3>1. PICK m \in l .. h : c[y] = a[m]
      BY <1>2, <2>1
    <3>2. m \in 1 .. N /\ b < m
      BY <1>1, <1>3, <1>5, <2>1
    <3> QED
      BY <3>1, <3>2
  <2>2. CASE y \notin l .. h
    <3>1. y < l \/ h < y
      BY <1>1, <2>2
    <3> QED
      BY <1>2, <1>3, <3>1
  <2> QED
    BY <2>1, <2>2
<1>8. b \in u .. v - 1
  BY <1>3, <1>6, <1>7
<1> QED
  BY <1>4, <1>6, <1>7, <1>8 DEF Blocks

\* The left run of a segment comes from places before the right one's, but where
\* mergeBottom splits a run (main.cpp:101-102, 141-143, 168).
LEMMA SegmentFirst ==
  ASSUME TypeOK, by \in BottomUp, by # "mergeBottom", MoreSegments, size >= 1, low >= 1,
         Multiple(low - 1, 2 * size), Blocks(arr, low, size)
  PROVE  LeftFirst(arr, low, LeftEnd, Lesser(low - 1 + 2 * size, N))
<1> DEFINE m == LeftEnd
           h == Lesser(low - 1 + 2 * size, N)
<1>1. N \in Nat /\ n = N /\ low \in Int /\ size \in Int /\ size \in Nat /\ low - 1 \in Int
  BY Length DEF TypeOK
<1>2. h \in Int /\ h <= N
  BY <1>1 DEF Lesser
<1>3. m = low - 1 + size \/ m = N
  BY <1>1 DEF LeftEnd, Lesser, BottomUp
<1> HIDE DEF m, h
<1> SUFFICES ASSUME NEW x \in low .. m, NEW y \in m + 1 .. h PROVE arr[x].id < arr[y].id
  BY DEF LeftFirst, m, h
<1>4. PICK b \in Int : b = low - 1 + size
  BY <1>1
<1>5. m = b /\ x \in 1 .. N /\ y \in 1 .. N /\ b \in x .. y - 1 /\ ~(b < low - 0)
  BY <1>1, <1>2, <1>3, <1>4
<1>6. Multiple(low - 1, size) /\ b = (low - 1) + size
  BY <1>1, <1>4, MultipleFacts
<1>7. Multiple(b, size)
  BY <1>1, <1>6, MultipleFacts
<1>8. Boundary(b, low, size)
  BY <1>1, <1>5, <1>7 DEF Boundary
<1> QED
  BY <1>5, <1>8 DEF Blocks

-----------------------------------------------------------------------------
(* mergeHelper *)

\* The first call has made its range ordered and left the rest: what the calls
\* before q had to settle, those that are left have (main.cpp:195).
LEMMA PopSettled ==
  ASSUME NEW S \in Seq(Call), S # <<>>, NEW a, NEW b,
         NEW l \in Int, NEW h \in Int, 1 <= l, h <= N, N \in Nat, NEW q \in 1 .. Len(S),
         Run(b, S[1].low, S[1].high),
         \A k \in 1 .. N : k < S[1].low \/ S[1].high < k => b[k] = a[k],
         Settled(a, S, l, h, q)
  PROVE  Settled(b, Tail(S), l, h, q - 1)
<1> DEFINE T == Tail(S)
           len == Len(S)
<1>1. len \in Nat /\ len >= 1 /\ \A k \in 1 .. len - 1 : T[k] = S[k + 1]
  BY CallFacts
<1>2. S[1].low \in Int /\ S[1].high \in Int
  BY CallFacts DEF Call
<1> HIDE DEF T, len
<1>3. q \in 1 .. len /\ q \in Int
  BY DEF len
<1>4. \A r \in 1 .. q - 1 : r + 1 \in 2 .. q /\ r + 1 \in 1 .. q /\ T[r] = S[r + 1]
  BY <1>1, <1>3
<1>5. CASE Run(a, l, h) /\ \A r \in 1 .. q : Beside(S[r], l, h)
  <2>1. Beside(S[1], l, h)
    BY <1>3, <1>5
  <2>2. \A k \in l .. h : k \in 1 .. N /\ (k < S[1].low \/ S[1].high < k)
    BY <1>2, <2>1 DEF Beside
  <2>3. Run(b, l, h)
    BY <1>5, <2>2 DEF Run
  <2>4. \A r \in 1 .. q - 1 : Beside(T[r], l, h)
    BY <1>4, <1>5
  <2> QED
    BY <2>3, <2>4 DEF Settled, T
<1>6. ASSUME NEW p \in 1 .. q, S[p].low = l, S[p].high = h,
             \A r \in p + 1 .. q : Beside(S[r], l, h)
      PROVE  Settled(b, T, l, h, q - 1)
  <2>1. CASE p = 1
    <3>1. \A r \in 1 .. q - 1 : Beside(T[r], l, h)
      <4>1. \A r \in 1 .. q - 1 : r + 1 \in p + 1 .. q
        BY <1>3, <2>1
      <4> QED
        BY <1>4, <1>6, <4>1
    <3>2. Run(b, l, h)
      BY <1>6, <2>1
    <3> QED
      BY <3>1, <3>2 DEF Settled
  <2>2. CASE p # 1
    <3>1. p - 1 \in 1 .. q - 1 /\ (p - 1) + 1 = p
      BY <1>3, <2>2
    <3>2. T[p - 1] = S[p]
      BY <1>4, <3>1
    <3>3. \A r \in (p - 1) + 1 .. q - 1 : r \in 1 .. q - 1 /\ r + 1 \in p + 1 .. q
      BY <1>3, <2>2
    <3>4. \A r \in (p - 1) + 1 .. q - 1 : Beside(T[r], l, h)
      BY <1>4, <1>6, <3>3
    <3> QED
      BY <1>6, <3>1, <3>2, <3>4 DEF Settled
  <2> QED
    BY <2>1, <2>2
<1> QED
  BY <1>5, <1>6 DEF Settled, T

\* A call returns (main.cpp:195).
LEMMA PopStack ==
  ASSUME NEW S \in Seq(Call), S # <<>>, NEW a, NEW b, N \in Nat,
         Run(b, S[1].low, S[1].high),
         \A k \in 1 .. N : k < S[1].low \/ S[1].high < k => b[k] = a[k],
         StackInv(a, S)
  PROVE  StackInv(b, Tail(S))
<1> DEFINE T == Tail(S)
           len == Len(S)
<1>1. len \in Nat /\ len >= 1 /\ Len(T) = len - 1 /\ \A k \in 1 .. len - 1 : T[k] = S[k + 1]
  BY CallFacts
<1>2. ASSUME NEW q \in 1 .. len - 1
      PROVE  /\ 1 <= T[q].low /\ T[q].high <= N
             /\ T[q].mid # 0 =>
                  /\ T[q].low <= T[q].mid /\ T[q].mid < T[q].high
                  /\ Settled(b, T, T[q].low, T[q].mid, q - 1)
                  /\ Settled(b, T, T[q].mid + 1, T[q].high, q - 1)
  <2>1. q + 1 \in 1 .. len /\ q \in 1 .. len /\ (q + 1) - 1 = q /\ T[q] = S[q + 1]
    BY <1>1
  <2>2. S[q + 1] \in Call
    BY <2>1, ElementOfSeq
  <2> DEFINE c == S[q + 1]
  <2>3. c.low \in Int /\ c.mid \in Int /\ c.high \in Int /\ c.mid + 1 \in Int
    BY <2>2 DEF Call
  <2>4. /\ 1 <= c.low /\ c.high <= N
        /\ c.mid # 0 => /\ c.low <= c.mid /\ c.mid < c.high
                        /\ Settled(a, S, c.low, c.mid, q)
                        /\ Settled(a, S, c.mid + 1, c.high, q)
    BY <2>1 DEF StackInv
  <2>5. ASSUME c.mid # 0
        PROVE  /\ Settled(b, T, c.low, c.mid, q - 1)
               /\ Settled(b, T, c.mid + 1, c.high, q - 1)
    <3> HIDE DEF c, T
    <3>1. 1 <= c.low /\ c.mid <= N /\ 1 <= c.mid + 1 /\ c.high <= N
      BY <2>3, <2>4, <2>5
    <3>2. Settled(a, S, c.low, c.mid, q) /\ Settled(a, S, c.mid + 1, c.high, q)
      BY <2>4, <2>5
    <3>3. q \in 1 .. Len(S)
      BY <2>1
    <3>4. Settled(b, Tail(S), c.low, c.mid, q - 1)
      BY <2>3, <3>1, <3>2, <3>3, PopSettled
    <3>5. Settled(b, Tail(S), c.mid + 1, c.high, q - 1)
      BY <2>3, <3>1, <3>2, <3>3, PopSettled
    <3> QED
      BY <3>4, <3>5 DEF T
  <2> QED
    BY <2>1, <2>4, <2>5
<1>3. Settled(b, T, 1, N, len - 1)
  <2>1. Settled(a, S, 1, N, len) /\ len \in 1 .. Len(S) /\ 1 \in Int /\ N \in Int
        /\ 1 <= 1 /\ N <= N
    BY <1>1 DEF StackInv
  <2> QED
    BY <2>1, PopSettled
<1> HIDE DEF T, len
<1> QED
  BY <1>1, <1>2, <1>3 DEF StackInv, T

\* A call makes two calls and a merge: what it had to settle, the merge has
\* (main.cpp:197-200).
LEMMA PushSettled ==
  ASSUME NEW S \in Seq(Call), NEW T, NEW a, NEW l \in Int, NEW h \in Int, NEW q \in Nat,
         q >= 1, S[1] \in Call, T[1] \in Call, T[2] \in Call, T[3] \in Call,
         T[3].low = S[1].low, T[3].high = S[1].high,
         T[1].low = S[1].low, T[1].high <= S[1].high,
         T[2].low >= S[1].low, T[2].high = S[1].high,
         \A r \in 2 .. q : T[r + 2] = S[r],
         Settled(a, S, l, h, q)
  PROVE  Settled(a, T, l, h, q + 2)
<1>1. \A r \in 1 .. q + 2 : r = 1 \/ r = 2 \/ r = 3 \/ (r - 2 \in 2 .. q /\ r = (r - 2) + 2)
  OBVIOUS
<1>2. \A r \in 4 .. q + 2 : r - 2 \in 2 .. q /\ T[r] = S[r - 2]
  <2>1. \A r \in 4 .. q + 2 : r - 2 \in 2 .. q /\ r = (r - 2) + 2
    OBVIOUS
  <2> QED
    BY <2>1
<1>3. CASE Run(a, l, h) /\ \A r \in 1 .. q : Beside(S[r], l, h)
  <2>1. Beside(S[1], l, h)
    BY <1>3
  <2>2. /\ S[1].low \in Int /\ S[1].high \in Int
        /\ T[1].low \in Int /\ T[1].high \in Int /\ T[2].low \in Int /\ T[2].high \in Int
    BY DEF Call
  <2>3. Beside(T[1], l, h) /\ Beside(T[2], l, h) /\ Beside(T[3], l, h)
    BY <2>1, <2>2 DEF Beside
  <2>4. \A r \in 4 .. q + 2 : Beside(T[r], l, h)
    <3>1. \A r \in 2 .. q : r \in 1 .. q
      OBVIOUS
    <3> QED
      BY <1>2, <1>3, <3>1
  <2>5. \A r \in 1 .. q + 2 : r = 1 \/ r = 2 \/ r = 3 \/ r \in 4 .. q + 2
    OBVIOUS
  <2>6. \A r \in 1 .. q + 2 : Beside(T[r], l, h)
    BY <2>3, <2>4, <2>5
  <2> QED
    BY <1>3, <2>6 DEF Settled
<1>4. ASSUME NEW p \in 1 .. q, S[p].low = l, S[p].high = h,
             \A r \in p + 1 .. q : Beside(S[r], l, h)
      PROVE  Settled(a, T, l, h, q + 2)
  <2>1. p + 2 \in 1 .. q + 2 /\ T[p + 2].low = l /\ T[p + 2].high = h
    <3>1. CASE p = 1
      BY <1>4, <3>1
    <3>2. CASE p # 1
      <4>1. p \in 2 .. q /\ p + 2 \in 1 .. q + 2
        BY <3>2
      <4> QED
        BY <1>4, <4>1
    <3> QED
      BY <3>1, <3>2
  <2>2. \A r \in (p + 2) + 1 .. q + 2 : r \in 4 .. q + 2 /\ r - 2 \in p + 1 .. q
    OBVIOUS
  <2>3. \A r \in (p + 2) + 1 .. q + 2 : Beside(T[r], l, h)
    BY <1>2, <1>4, <2>2
  <2> QED
    BY <2>1, <2>3 DEF Settled
<1> QED
  BY <1>3, <1>4 DEF Settled

\* The calls that a range of more than one element makes (main.cpp:196-200).
Halved(S, l, m, h) ==
  <<SortCall(l, m), SortCall(m + 1, h), MergeCall(l, m, h)>> \o Tail(S)

\* They come before the calls that are left (main.cpp:196-200).
LEMMA HalvedCalls ==
  ASSUME NEW S \in Seq(Call), S # <<>>,
         NEW l \in Int, NEW m \in Int, NEW h \in Int
  PROVE  /\ Len(Halved(S, l, m, h)) = Len(S) + 2
         /\ \A k \in 1 .. 3 : Halved(S, l, m, h)[k] \in Call
         /\ Halved(S, l, m, h)[1].low = l /\ Halved(S, l, m, h)[1].mid = 0
         /\ Halved(S, l, m, h)[1].high = m
         /\ Halved(S, l, m, h)[2].low = m + 1 /\ Halved(S, l, m, h)[2].mid = 0
         /\ Halved(S, l, m, h)[2].high = h
         /\ Halved(S, l, m, h)[3].low = l /\ Halved(S, l, m, h)[3].mid = m
         /\ Halved(S, l, m, h)[3].high = h
         /\ \A r \in 2 .. Len(S) : Halved(S, l, m, h)[r + 2] = S[r]
<1> DEFINE len == Len(S)
           X == <<SortCall(l, m), SortCall(m + 1, h), MergeCall(l, m, h)>>
           T == X \o Tail(S)
<1>1. /\ len \in Nat /\ len >= 1 /\ Tail(S) \in Seq(Call) /\ Len(Tail(S)) = len - 1
      /\ S[1] \in Call /\ \A k \in 1 .. len - 1 : Tail(S)[k] = S[k + 1]
  BY CallFacts
<1>2. SortCall(l, m) \in Call /\ SortCall(m + 1, h) \in Call /\ MergeCall(l, m, h) \in Call
  BY DEF SortCall, MergeCall, Call
<1>3. X \in Seq(Call) /\ Len(X) = 3
  BY <1>2
<1>4. /\ Len(T) = len + 2
      /\ T[1] = SortCall(l, m) /\ T[2] = SortCall(m + 1, h) /\ T[3] = MergeCall(l, m, h)
      /\ \A r \in 2 .. len : T[r + 2] = S[r]
  <2>1. /\ Len(T) = len + 2
        /\ \A k \in 1 .. 3 : T[k] = X[k]
        /\ \A k \in 4 .. len + 2 : T[k] = Tail(S)[k - 3]
    <3>1. /\ Len(T) = Len(X) + Len(Tail(S))
          /\ \A k \in 1 .. Len(X) : T[k] = X[k]
          /\ \A k \in Len(X) + 1 .. Len(X) + Len(Tail(S)) : T[k] = Tail(S)[k - Len(X)]
      BY <1>1, <1>3, ConcatProperties
    <3> HIDE DEF T, X, len
    <3> QED
      BY <1>1, <1>3, <3>1
  <2>2. \A r \in 2 .. len : /\ r + 2 \in 4 .. len + 2 /\ (r + 2) - 3 = r - 1
                            /\ r - 1 \in 1 .. len - 1 /\ (r - 1) + 1 = r
    BY <1>1
  <2>3. 1 \in 1 .. 3 /\ 2 \in 1 .. 3 /\ 3 \in 1 .. 3
    OBVIOUS
  <2>4. \A r \in 2 .. len : T[r + 2] = S[r]
    <3> HIDE DEF T, len
    <3> QED
      BY <1>1, <2>1, <2>2
  <2>5. X[1] = SortCall(l, m) /\ X[2] = SortCall(m + 1, h) /\ X[3] = MergeCall(l, m, h)
    OBVIOUS
  <2> QED
    BY <2>1, <2>3, <2>4, <2>5
<1> HIDE DEF T, X, len
<1>5. /\ T[1].low = l /\ T[1].mid = 0 /\ T[1].high = m
      /\ T[2].low = m + 1 /\ T[2].mid = 0 /\ T[2].high = h
      /\ T[3].low = l /\ T[3].mid = m /\ T[3].high = h
      /\ T[1] \in Call /\ T[2] \in Call /\ T[3] \in Call
  BY <1>2, <1>4 DEF SortCall, MergeCall
<1>6. \A k \in 1 .. 3 : T[k] \in Call
  <2>1. \A k \in 1 .. 3 : k = 1 \/ k = 2 \/ k = 3
    OBVIOUS
  <2> QED
    BY <1>5, <2>1
<1> QED
  BY <1>4, <1>5, <1>6 DEF Halved, T, X, len

\* There are two more of them (main.cpp:196-200).
LEMMA HalvedLength ==
  ASSUME NEW S \in Seq(Call), S # <<>>, NEW l \in Int, NEW m \in Int, NEW h \in Int
  PROVE  Len(Halved(S, l, m, h)) = Len(S) + 2
BY HalvedCalls

\* The calls of the halves settle what the call had to (main.cpp:196-200).
LEMMA PushStack ==
  ASSUME NEW S \in Seq(Call), S # <<>>, NEW a, N \in Nat, StackInv(a, S),
         NEW l \in Int, NEW m \in Int, NEW h \in Int, S[1].low = l, S[1].high = h,
         l <= m, m < h
  PROVE  StackInv(a, Halved(S, l, m, h))
<1>2. Len(Halved(S, l, m, h)) = Len(S) + 2
  BY HalvedLength
<1> DEFINE len == Len(S)
           T == Halved(S, l, m, h)
<1>1. len \in Nat /\ len >= 1 /\ S[1] \in Call
  BY CallFacts
<1>4. Len(T) = len + 2 /\ \A r \in 2 .. len : T[r + 2] = S[r]
  <2>1. Len(T) = len + 2
    BY <1>2
  <2>2. \A r \in 2 .. len : T[r + 2] = S[r]
    BY HalvedCalls
  <2> QED
    BY <2>1, <2>2
<1>5. /\ T[1].low = l /\ T[1].mid = 0 /\ T[1].high = m
      /\ T[2].low = m + 1 /\ T[2].mid = 0 /\ T[2].high = h
      /\ T[3].low = l /\ T[3].mid = m /\ T[3].high = h
      /\ T[1] \in Call /\ T[2] \in Call /\ T[3] \in Call
  <2>1. 1 \in 1 .. 3 /\ 2 \in 1 .. 3 /\ 3 \in 1 .. 3
    OBVIOUS
  <2> QED
    BY <2>1, HalvedCalls
<1> HIDE DEF T, len
<1>6. 1 <= l /\ h <= N
  BY <1>1 DEF StackInv, len
<1>7. ASSUME NEW x \in Int, NEW y \in Int, NEW q \in 1 .. len, Settled(a, S, x, y, q)
      PROVE  Settled(a, T, x, y, q + 2)
  <2>0. q \in Nat /\ q >= 1 /\ \A r \in 2 .. q : r \in 2 .. len
    BY <1>1
  <2>1. q \in Nat /\ q >= 1 /\ \A r \in 2 .. q : T[r + 2] = S[r]
    BY <1>4, <2>0
  <2>2. T[1].high <= S[1].high /\ T[2].low >= S[1].low
    BY <1>5
  <2>3. T[3].low = S[1].low /\ T[3].high = S[1].high /\ T[1].low = S[1].low
        /\ T[2].high = S[1].high
    BY <1>5
  <2> QED
    BY <1>1, <1>5, <1>7, <2>1, <2>2, <2>3, PushSettled
<1>8. Settled(a, T, l, m, 2)
  <2>1. 1 \in 1 .. 2 /\ \A r \in 1 + 1 .. 2 : r = 2
    OBVIOUS
  <2>2. Beside(T[2], l, m)
    BY <1>5 DEF Beside
  <2> QED
    BY <1>5, <2>1, <2>2 DEF Settled
<1>9. Settled(a, T, m + 1, h, 2)
  <2>1. 2 \in 1 .. 2 /\ 2 + 1 .. 2 = {}
    OBVIOUS
  <2> QED
    BY <1>5, <2>1 DEF Settled
<1>10. ASSUME NEW k \in 1 .. len + 2
       PROVE  /\ 1 <= T[k].low /\ T[k].high <= N
              /\ T[k].mid # 0 =>
                   /\ T[k].low <= T[k].mid /\ T[k].mid < T[k].high
                   /\ Settled(a, T, T[k].low, T[k].mid, k - 1)
                   /\ Settled(a, T, T[k].mid + 1, T[k].high, k - 1)
  <2>1. CASE k = 1
    BY <1>5, <1>6, <2>1
  <2>2. CASE k = 2
    BY <1>5, <1>6, <2>2
  <2>3. CASE k = 3
    BY <1>5, <1>6, <1>8, <1>9, <2>3
  <2>4. CASE k \in 4 .. len + 2
    <3>1. /\ k - 2 \in 2 .. len /\ (k - 2) + 2 = k /\ k - 2 \in 1 .. Len(S) /\ k - 3 \in 1 .. len
          /\ (k - 2) - 1 = k - 3 /\ (k - 3) + 2 = k - 1
      BY <1>1, <2>4 DEF len
    <3> DEFINE c == S[k - 2]
    <3>2. T[k] = c
      BY <1>4, <3>1
    <3>3. c \in Call
      BY <3>1, ElementOfSeq
    <3>4. /\ 1 <= c.low /\ c.high <= N
          /\ c.mid # 0 => /\ c.low <= c.mid /\ c.mid < c.high
                          /\ Settled(a, S, c.low, c.mid, k - 3)
                          /\ Settled(a, S, c.mid + 1, c.high, k - 3)
      BY <3>1 DEF StackInv
    <3> HIDE DEF c
    <3>5. c.low \in Int /\ c.mid \in Int /\ c.mid + 1 \in Int /\ c.high \in Int
      BY <3>3 DEF Call
    <3>6. c.mid # 0 => /\ Settled(a, T, c.low, c.mid, (k - 3) + 2)
                       /\ Settled(a, T, c.mid + 1, c.high, (k - 3) + 2)
      BY <1>7, <3>1, <3>4, <3>5
    <3> QED
      BY <3>1, <3>2, <3>4, <3>6
  <2> QED
    BY <1>1, <2>1, <2>2, <2>3, <2>4
<1>11. Settled(a, T, 1, N, len + 2)
  <2>1. Settled(a, S, 1, N, len)
    BY DEF StackInv, len
  <2> QED
    BY <1>1, <1>7, <2>1
<1> QED
  BY <1>4, <1>10, <1>11 DEF StackInv, T

\* A call that returns has moved elements within its range only: in a range that
\* is clear of it, or within one half of a merge (main.cpp:86-89, 195).
LEMMA PopSources ==
  ASSUME NEW S \in Seq(Call), S # <<>>, NEW a, NEW b, N \in Nat,
         StackInv(a, S), Sources(a, S),
         \A k \in 1 .. N : k < S[1].low \/ S[1].high < k => b[k] = a[k],
         \A k \in S[1].low .. S[1].high : \E p \in S[1].low .. S[1].high : b[k] = a[p]
  PROVE  Sources(b, Tail(S))
<1> DEFINE T == Tail(S)
           len == Len(S)
<1>1. len \in Nat /\ len >= 1 /\ Len(T) = len - 1 /\ \A k \in 1 .. len - 1 : T[k] = S[k + 1]
  BY CallFacts
<1>2. PICK u \in Int, v \in Int : u = S[1].low /\ v = S[1].high
  BY CallFacts DEF Call
<1> HIDE DEF T, len
<1> SUFFICES ASSUME NEW q \in 1 .. len - 1
             PROVE  /\ T[q].mid = 0 => \A x \in T[q].low .. T[q].high : b[x].id = x
                    /\ T[q].mid # 0 => LeftFirst(b, T[q].low, T[q].mid, T[q].high)
                    /\ \A p \in 1 .. q - 1 : InHalf(T[p], T[q])
  BY <1>1 DEF Sources, T
<1>3. q + 1 \in 1 .. len /\ T[q] = S[q + 1] /\ 1 \in 1 .. (q + 1) - 1
  BY <1>1
<1>4. S[q + 1] \in Call
  BY <1>3, ElementOfSeq DEF len
<1>5. PICK l \in Int, m \in Int, h \in Int :
        l = S[q + 1].low /\ m = S[q + 1].mid /\ h = S[q + 1].high
  BY <1>4 DEF Call
<1>6. 1 <= l /\ h <= N /\ (m # 0 => l <= m /\ m < h)
  BY <1>3, <1>5 DEF StackInv, len
<1>7. /\ m = 0 => \A x \in l .. h : a[x].id = x
      /\ m # 0 => LeftFirst(a, l, m, h)
      /\ \A p \in 1 .. (q + 1) - 1 : InHalf(S[p], S[q + 1])
  BY <1>3, <1>5 DEF Sources, len
<1>8. \/ v < l \/ h < u
      \/ m # 0 /\ l <= u /\ v <= m
      \/ m # 0 /\ m < u /\ v <= h
  <2>1. InHalf(S[1], S[q + 1])
    BY <1>3, <1>7
  <2> QED
    BY <1>2, <1>5, <2>1 DEF InHalf, Beside
<1>9. ASSUME m = 0 PROVE \A x \in l .. h : b[x].id = x
  <2> SUFFICES ASSUME NEW x \in l .. h PROVE b[x].id = x
    OBVIOUS
  <2>1. x \in 1 .. N /\ (x < u \/ v < x)
    BY <1>6, <1>8, <1>9
  <2> QED
    BY <1>2, <1>7, <1>9, <2>1
<1>10. ASSUME m # 0 PROVE LeftFirst(b, l, m, h)
  <2> SUFFICES ASSUME NEW x \in l .. m, NEW y \in m + 1 .. h PROVE b[x].id < b[y].id
    BY DEF LeftFirst
  <2>1. x \in 1 .. N /\ y \in 1 .. N
    BY <1>6, <1>10
  <2>2. PICK x0 \in l .. m : b[x] = a[x0]
    <3>1. CASE x \in u .. v
      <4>1. PICK p \in u .. v : b[x] = a[p]
        BY <1>2, <3>1
      <4>2. p \in l .. m
        BY <1>6, <1>8, <1>10, <3>1
      <4> QED
        BY <4>1, <4>2
    <3>2. CASE x \notin u .. v
      <4>1. x < u \/ v < x
        BY <3>2
      <4> QED
        BY <1>2, <2>1, <4>1
    <3> QED
      BY <3>1, <3>2
  <2>3. PICK y0 \in m + 1 .. h : b[y] = a[y0]
    <3>1. CASE y \in u .. v
      <4>1. PICK p \in u .. v : b[y] = a[p]
        BY <1>2, <3>1
      <4>2. p \in m + 1 .. h
        BY <1>6, <1>8, <1>10, <3>1
      <4> QED
        BY <4>1, <4>2
    <3>2. CASE y \notin u .. v
      <4>1. y < u \/ v < y
        BY <3>2
      <4> QED
        BY <1>2, <2>1, <4>1
    <3> QED
      BY <3>1, <3>2
  <2> QED
    BY <1>7, <1>10, <2>2, <2>3 DEF LeftFirst
<1>11. ASSUME NEW p \in 1 .. q - 1 PROVE InHalf(T[p], T[q])
  <2>1. p + 1 \in 1 .. (q + 1) - 1 /\ p \in 1 .. len - 1
    BY <1>1
  <2>2. T[p] = S[p + 1]
    BY <1>1, <2>1
  <2> QED
    BY <1>3, <1>7, <2>1, <2>2
<1> QED
  BY <1>3, <1>5, <1>9, <1>10, <1>11

\* The halves of a range that no step has touched (main.cpp:197-200).
LEMMA PushSources ==
  ASSUME NEW S \in Seq(Call), S # <<>>, NEW a, N \in Nat, StackInv(a, S), Sources(a, S),
         NEW l \in Int, NEW m \in Int, NEW h \in Int,
         S[1].low = l, S[1].high = h, S[1].mid = 0, l <= m, m < h
  PROVE  Sources(a, Halved(S, l, m, h))
<1> DEFINE len == Len(S)
           T == Halved(S, l, m, h)
<1>1. len \in Nat /\ len >= 1 /\ S[1] \in Call
  BY CallFacts
<1>2. Len(T) = len + 2 /\ \A r \in 2 .. len : T[r + 2] = S[r]
  BY HalvedCalls
<1>3. /\ T[1].low = l /\ T[1].mid = 0 /\ T[1].high = m
      /\ T[2].low = m + 1 /\ T[2].mid = 0 /\ T[2].high = h
      /\ T[3].low = l /\ T[3].mid = m /\ T[3].high = h
  BY HalvedCalls
<1>4. 1 <= l /\ \A x \in l .. h : a[x].id = x
  <2>1. 1 \in 1 .. Len(S)
    BY <1>1
  <2> QED
    BY <2>1 DEF Sources, StackInv
<1> HIDE DEF T, len
<1> SUFFICES ASSUME NEW q \in 1 .. len + 2
             PROVE  /\ T[q].mid = 0 => \A x \in T[q].low .. T[q].high : a[x].id = x
                    /\ T[q].mid # 0 => LeftFirst(a, T[q].low, T[q].mid, T[q].high)
                    /\ \A p \in 1 .. q - 1 : InHalf(T[p], T[q])
  BY <1>2 DEF Sources, T
<1>5. CASE q = 1
  <2>1. \A x \in l .. m : a[x].id = x
    BY <1>4
  <2>2. 1 .. q - 1 = {}
    BY <1>5
  <2> QED
    BY <1>3, <1>5, <2>1, <2>2
<1>6. CASE q = 2
  <2>1. \A x \in m + 1 .. h : a[x].id = x
    BY <1>4
  <2>2. \A p \in 1 .. q - 1 : p = 1
    BY <1>6
  <2>3. InHalf(T[1], T[2])
    BY <1>3 DEF InHalf, Beside
  <2> QED
    BY <1>3, <1>6, <2>1, <2>2, <2>3
<1>7. CASE q = 3
  <2>1. LeftFirst(a, l, m, h)
    <3> SUFFICES ASSUME NEW x \in l .. m, NEW y \in m + 1 .. h PROVE a[x].id < a[y].id
      BY DEF LeftFirst
    <3>1. x \in l .. h /\ y \in l .. h /\ x < y
      OBVIOUS
    <3> QED
      BY <1>4, <3>1
  <2>2. \A p \in 1 .. q - 1 : p = 1 \/ p = 2
    BY <1>7
  <2>3. m # 0
    BY <1>4
  <2>4. InHalf(T[1], T[3]) /\ InHalf(T[2], T[3])
    BY <1>3, <2>3 DEF InHalf
  <2> QED
    BY <1>3, <1>7, <2>1, <2>2, <2>3, <2>4
<1>8. CASE q \in 4 .. len + 2
  <2>1. q - 2 \in 2 .. len /\ (q - 2) + 2 = q /\ q - 2 \in 1 .. Len(S) /\ 1 \in 1 .. (q - 2) - 1
    BY <1>1, <1>8 DEF len
  <2> DEFINE c == S[q - 2]
  <2>2. T[q] = c
    BY <1>2, <2>1
  <2>3. c \in Call
    BY <2>1, ElementOfSeq
  <2>4. /\ c.mid = 0 => \A x \in c.low .. c.high : a[x].id = x
        /\ c.mid # 0 => LeftFirst(a, c.low, c.mid, c.high)
        /\ \A p \in 1 .. (q - 2) - 1 : InHalf(S[p], c)
    BY <2>1 DEF Sources
  <2> HIDE DEF c
  <2>5. c.low \in Int /\ c.mid \in Int /\ c.high \in Int
    BY <2>3 DEF Call
  <2>6. InHalf(S[1], c)
    BY <2>1, <2>4
  <2>7. InHalf(T[1], c) /\ InHalf(T[2], c) /\ InHalf(T[3], c)
    BY <1>3, <2>5, <2>6 DEF InHalf, Beside
  <2>8. ASSUME NEW p \in 1 .. q - 1 PROVE InHalf(T[p], c)
    <3>1. CASE p \in 1 .. 3
      <4>1. p = 1 \/ p = 2 \/ p = 3
        BY <3>1
      <4> QED
        BY <2>7, <4>1
    <3>2. CASE p \notin 1 .. 3
      <4>1. p - 2 \in 2 .. len /\ (p - 2) + 2 = p /\ p - 2 \in 1 .. (q - 2) - 1
        BY <1>1, <2>1, <3>2
      <4> QED
        BY <1>2, <2>4, <4>1
    <3> QED
      BY <3>1, <3>2
  <2> QED
    BY <2>2, <2>4, <2>8
<1> QED
  BY <1>1, <1>5, <1>6, <1>7, <1>8

\* The merge that runs is the call that was taken from the stack
\* (main.cpp:69-90, 200).
LEMMA StackOfMerge ==
  ASSUME NEW S \in Seq(Call), NEW c \in Call
  PROVE  /\ <<c>> \o S \in Seq(Call) /\ <<c>> \o S # <<>>
         /\ (<<c>> \o S)[1] = c /\ Tail(<<c>> \o S) = S
         /\ MergeCall(c.low, c.mid, c.high) = c
<1> DEFINE T == <<c>> \o S
<1>1. <<c>> \in Seq(Call) /\ Len(<<c>>) = 1 /\ <<c>>[1] = c /\ Len(S) \in Nat
  BY LenProperties
<1>2. /\ T \in Seq(Call) /\ Len(T) = 1 + Len(S)
      /\ \A k \in 1 .. 1 : T[k] = <<c>>[k]
      /\ \A k \in 2 .. 1 + Len(S) : T[k] = S[k - 1]
  BY <1>1, ConcatProperties
<1> HIDE DEF T
<1>3. T # <<>> /\ T[1] = c
  BY <1>1, <1>2, EmptySeq
<1>4. /\ Tail(T) \in Seq(Call) /\ Len(Tail(T)) = Len(T) - 1
      /\ \A k \in 1 .. Len(T) - 1 : Tail(T)[k] = T[k + 1]
  BY <1>2, <1>3, CallFacts
<1>5. Len(Tail(T)) = Len(S)
  BY <1>1, <1>2, <1>4
<1>6. \A k \in 1 .. Len(S) : Tail(T)[k] = S[k]
  <2>1. \A k \in 1 .. Len(S) : k \in 1 .. Len(T) - 1 /\ k + 1 \in 2 .. 1 + Len(S) /\ (k + 1) - 1 = k
    BY <1>1, <1>2
  <2> QED
    BY <1>2, <1>4, <2>1
<1>7. Tail(T) = S
  BY <1>4, <1>5, <1>6, SeqEqual
<1>8. MergeCall(c.low, c.mid, c.high) = c
  BY DEF MergeCall, Call
<1> QED
  BY <1>2, <1>3, <1>7, <1>8 DEF T

\* mergeHelper takes the next merge from the stack: its halves are in order
\* (main.cpp:200).
LEMMA HelperMergeFacts ==
  ASSUME TypeOK, HelperInv, HelperMerge
  PROVE  \E l, m, h \in Int :
           /\ calls = <<MergeCall(l, m, h)>> \o calls'
           /\ low' = l /\ mid' = m /\ high' = h /\ i' = l /\ j' = m + 1
           /\ 1 <= l /\ l <= m /\ m < h /\ h <= N
           /\ Run(arr, l, m) /\ Run(arr, m + 1, h) /\ LeftFirst(arr, l, m, h)
<1>1. /\ pc = "call" /\ by = "mergeSort" /\ calls # <<>> /\ Head(calls).mid # 0
      /\ low' = Head(calls).low /\ mid' = Head(calls).mid /\ high' = Head(calls).high
      /\ i' = Head(calls).low /\ j' = Head(calls).mid + 1 /\ calls' = Tail(calls)
  BY DEF HelperMerge
<1>2. calls \in Seq(Call)
  BY DEF TypeOK
<1>3. /\ Head(calls) = calls[1] /\ calls[1] \in Call /\ calls' \in Seq(Call)
      /\ Len(calls') = Len(calls) - 1 /\ Len(calls) \in Nat /\ Len(calls) >= 1
      /\ \A k \in 1 .. Len(calls) - 1 : calls'[k] = calls[k + 1]
  BY <1>1, <1>2, CallFacts
<1>4. PICK c \in Call : c = calls[1]
  BY <1>3
<1> DEFINE T == <<c>> \o calls'
<1>5. c.low \in Int /\ c.mid \in Int /\ c.high \in Int
  BY DEF Call
<1>6. T \in Seq(Call) /\ T # <<>> /\ T[1] = c /\ Tail(T) = calls'
  BY <1>3, StackOfMerge
<1>7. calls = T
  <2> HIDE DEF T
  <2>1. /\ Len(T) \in Nat /\ Len(T) >= 1 /\ Len(calls') = Len(T) - 1
        /\ \A k \in 1 .. Len(T) - 1 : calls'[k] = T[k + 1]
    BY <1>6, CallFacts
  <2>2. Len(T) = Len(calls)
    BY <1>3, <2>1
  <2>3. \A k \in 1 .. Len(calls) : calls[k] = T[k]
    <3> SUFFICES ASSUME NEW k \in 1 .. Len(calls) PROVE calls[k] = T[k]
      OBVIOUS
    <3>1. CASE k = 1
      BY <1>4, <1>6, <3>1
    <3>2. CASE k # 1
      <4>1. k - 1 \in 1 .. Len(calls) - 1 /\ (k - 1) + 1 = k
        BY <1>3, <3>2
      <4> QED
        BY <1>3, <2>1, <2>2, <4>1
    <3> QED
      BY <3>1, <3>2
  <2> QED
    BY <1>2, <1>6, <2>2, <2>3, SeqEqual
<1>8. StackInv(arr, calls) /\ Sources(arr, calls)
  BY <1>1 DEF HelperInv, Stack
<1>9. /\ 1 <= c.low /\ c.high <= N /\ c.low <= c.mid /\ c.mid < c.high
      /\ Settled(arr, calls, c.low, c.mid, 0) /\ Settled(arr, calls, c.mid + 1, c.high, 0)
      /\ LeftFirst(arr, c.low, c.mid, c.high)
  <2>1. 1 \in 1 .. Len(calls) /\ 1 - 1 = 0
    BY <1>3
  <2>2. c.mid # 0
    BY <1>1, <1>3, <1>4
  <2> QED
    BY <1>4, <1>8, <2>1, <2>2 DEF StackInv, Sources
<1>10. Run(arr, c.low, c.mid) /\ Run(arr, c.mid + 1, c.high)
  BY <1>9 DEF Settled
<1>11. MergeCall(c.low, c.mid, c.high) = c
  BY <1>3, StackOfMerge
<1> QED
  BY <1>1, <1>3, <1>4, <1>5, <1>7, <1>9, <1>10, <1>11

\* mergeHelper's calls (main.cpp:194-204).
LEMMA HelperNextKeeps ==
  ASSUME TypeOK, TypeOK', N' = N, by' = by, by = "mergeSort", Fresh, HelperInv, HelperNext
  PROVE  HelperInv'
<1>0. N \in Nat /\ n = N /\ calls \in Seq(Call) /\ arr \in [1 .. N -> Element]
  BY Length DEF TypeOK
<1> SUFFICES ASSUME pc' \in {"call", "merge", "done"}
             PROVE  /\ StackInv(arr', Stack') /\ Sources(arr', Stack')
                    /\ pc' = "done" => calls' = <<>>
  <2>1. StackInv(arr', Stack') => StackInv(arr, Stack)'
    BY DEF StackInv, Settled, Run, Ahead
  <2>2. Sources(arr', Stack') => Sources(arr, Stack)'
    BY DEF Sources, LeftFirst
  <2> QED
    BY <2>1, <2>2 DEF HelperInv
<1>1. CASE MergeStart
  <2>1. pc' = "call" /\ calls' = <<SortCall(1, N)>> /\ arr' = arr
    BY <1>0, <1>1 DEF MergeStart
  <2> DEFINE c == SortCall(1, N)
             S == <<c>>
  <2>2. Stack' = S
    BY <2>1 DEF Stack
  <2>3. Len(S) = 1 /\ S[1] = c /\ c.low = 1 /\ c.mid = 0 /\ c.high = N
    BY DEF SortCall
  <2> HIDE DEF c, S
  <2>4. Settled(arr, S, 1, N, 1)
    <3>1. 1 \in 1 .. 1 /\ 1 + 1 .. 1 = {}
      OBVIOUS
    <3> QED
      BY <2>3, <3>1 DEF Settled
  <2>5. \A q \in 1 .. Len(S) : q = 1
    BY <2>3
  <2>6. StackInv(arr, S)
    BY <1>0, <2>3, <2>4, <2>5 DEF StackInv
  <2>7. Sources(arr, S)
    <3>1. \A x \in 1 .. N : arr[x].id = x
      BY <1>1 DEF MergeStart, Fresh
    <3>2. 1 .. 1 - 1 = {}
      OBVIOUS
    <3> QED
      BY <2>3, <2>5, <3>1, <3>2 DEF Sources
  <2> QED
    BY <2>1, <2>2, <2>6, <2>7
<1>2. CASE HelperReturn
  <2>1. /\ pc = "call" /\ calls # <<>> /\ Head(calls).low >= Head(calls).high
        /\ calls' = Tail(calls) /\ UNCHANGED <<arr, pc>>
    BY <1>2 DEF HelperReturn
  <2>2. StackInv(arr, calls) /\ Sources(arr, calls) /\ Stack' = Tail(calls)
    BY <2>1 DEF HelperInv, Stack
  <2>3. Head(calls) = calls[1] /\ calls[1].low \in Int /\ calls[1].high \in Int
    BY <1>0, <2>1, CallFacts DEF Call
  <2>4. Run(arr, calls[1].low, calls[1].high)
    <3>1. \A x, y \in calls[1].low .. calls[1].high : ~(x < y)
      BY <2>1, <2>3
    <3> QED
      BY <3>1 DEF Run
  <2>5. StackInv(arr, Tail(calls))
    BY <1>0, <2>1, <2>2, <2>4, PopStack
  <2>6. Sources(arr, Tail(calls))
    BY <1>0, <2>1, <2>2, PopSources
  <2> QED
    BY <2>1, <2>2, <2>5, <2>6
<1>3. CASE HelperHalves
  <2>1. /\ pc = "call" /\ calls # <<>> /\ Head(calls).low < Head(calls).high
        /\ Head(calls).mid = 0 /\ UNCHANGED <<arr, pc>>
    BY <1>3 DEF HelperHalves
  <2>2. Head(calls) = calls[1] /\ calls[1] \in Call
    BY <1>0, <2>1, CallFacts
  <2>3. PICK l \in Int, h \in Int : l = Head(calls).low /\ h = Head(calls).high
    BY <2>2 DEF Call
  <2>4. PICK m \in Int : m = l + (h - l) \div 2
    OBVIOUS
  <2>5. l <= m /\ m < h
    BY <2>1, <2>3, <2>4
  <2>6. calls' = Halved(calls, l, m, h)
    BY <1>3, <2>3, <2>4 DEF HelperHalves, Halved
  <2>7. StackInv(arr, calls) /\ Sources(arr, calls) /\ Stack' = calls'
    BY <2>1 DEF HelperInv, Stack
  <2>8. StackInv(arr, calls') /\ Sources(arr, calls')
    BY <1>0, <2>1, <2>2, <2>3, <2>5, <2>6, <2>7, PushStack, PushSources
  <2> QED
    BY <2>1, <2>7, <2>8
<1>4. CASE HelperMerge
  <2>1. PICK l \in Int, m \in Int, h \in Int :
           /\ calls = <<MergeCall(l, m, h)>> \o calls'
           /\ low' = l /\ mid' = m /\ high' = h
    BY <1>4, HelperMergeFacts
  <2>2. pc = "call" /\ pc' = "merge" /\ arr' = arr
    BY <1>4 DEF HelperMerge
  <2>3. Stack' = calls /\ StackInv(arr, calls) /\ Sources(arr, calls)
    BY <2>1, <2>2 DEF HelperInv, Stack
  <2> QED
    BY <2>2, <2>3
<1>5. CASE HelperDone
  <2>1. pc = "call" /\ pc' = "done" /\ calls = <<>> /\ UNCHANGED <<arr, calls>>
    BY <1>5 DEF HelperDone, Finish
  <2>2. StackInv(arr, calls) /\ Sources(arr, calls) /\ Stack' = calls
    BY <2>1 DEF HelperInv, Stack
  <2> QED
    BY <2>1, <2>2
<1> QED
  BY <1>1, <1>2, <1>3, <1>4, <1>5 DEF HelperNext

\* The merge of two halves settles their range (main.cpp:69-90).
LEMMA MergeNextKeepsHelper ==
  ASSUME TypeOK, TypeOK', N' = N, by' = by, by = "mergeSort", HelperInv, MergeInv, MergeNext
  PROVE  HelperInv'
<1>0. N \in Nat /\ n = N /\ calls \in Seq(Call) /\ arr \in [1 .. N -> Element]
  BY Length DEF TypeOK
<1>1. /\ pc = "merge" /\ Stack = <<MergeCall(low, mid, high)>> \o calls
      /\ StackInv(arr, Stack) /\ Sources(arr, Stack)
  BY DEF MergeNext, TakeLeft, TakeRight, WriteBack, HelperInv, Stack
<1> SUFFICES /\ StackInv(arr', Stack') /\ Sources(arr', Stack')
             /\ pc' = "done" => calls' = <<>>
  <2>1. StackInv(arr', Stack') => StackInv(arr, Stack)'
    BY DEF StackInv, Settled, Run, Ahead
  <2>2. Sources(arr', Stack') => Sources(arr, Stack)'
    BY DEF Sources, LeftFirst
  <2> QED
    BY <2>1, <2>2 DEF HelperInv
<1>2. CASE TakeLeft \/ TakeRight
  <2>1. UNCHANGED <<arr, pc, calls, low, mid, high>>
    BY <1>2 DEF TakeLeft, TakeRight
  <2>2. Stack' = Stack /\ arr' = arr
    BY <2>1 DEF Stack
  <2> QED
    BY <1>1, <2>1, <2>2
<1>3. CASE WriteBack
  <2>1. pc' = "call" /\ calls' = calls
    BY <1>3 DEF WriteBack, BottomUp
  <2>2. Stack' = calls
    BY <2>1 DEF Stack
  <2>3. WrittenBack(arr, arr', low, high)
    BY <1>3, WriteBackFacts
  <2> DEFINE c == MergeCall(low, mid, high)
             S == <<c>> \o calls
  <2>4. c \in Call /\ c.low = low /\ c.high = high
    BY DEF MergeCall, Call, TypeOK
  <2> HIDE DEF c
  <2>5. S \in Seq(Call) /\ S # <<>> /\ S[1] = c /\ Tail(S) = calls
    BY <1>0, <2>4, StackOfMerge
  <2>6. StackInv(arr, S) /\ Sources(arr, S)
    BY <1>1 DEF c
  <2> HIDE DEF S
  <2>7. /\ Run(arr', S[1].low, S[1].high)
        /\ \A k \in 1 .. N : k < S[1].low \/ S[1].high < k => arr'[k] = arr[k]
        /\ \A k \in S[1].low .. S[1].high : \E p \in S[1].low .. S[1].high : arr'[k] = arr[p]
    BY <2>3, <2>4, <2>5 DEF WrittenBack
  <2>8. StackInv(arr', Tail(S)) /\ Sources(arr', Tail(S))
    BY <1>0, <2>5, <2>6, <2>7, PopStack, PopSources
  <2> QED
    BY <2>1, <2>2, <2>5, <2>8
<1> QED
  BY <1>2, <1>3 DEF MergeNext

\* Only mergeSort recurses into halves (main.cpp:194-204).
LEMMA HelperStep ==
  ASSUME SInv, TypeOK', N' = N, by' = by, by = "mergeSort" => HelperNext \/ MergeNext
  PROVE  HelperInv'
<1>1. CASE by = "mergeSort"
  BY <1>1, HelperNextKeeps, MergeNextKeepsHelper DEF SInv
<1>2. CASE by # "mergeSort"
  BY <1>2 DEF HelperInv
<1> QED
  BY <1>1, <1>2

\* The loops of the bottom-up sorts (main.cpp:93-193).
LEMMA BottomUpNextKeeps ==
  ASSUME TypeOK, TypeOK', N' = N, by' = by, by \in BottomUp, Fresh, BottomUpInv, BottomUpNext
  PROVE  BottomUpInv'
<1>0. N \in Nat /\ n = N /\ arr \in [1 .. N -> Element] /\ low \in Int /\ size \in Int
  BY Length DEF TypeOK
<1>1. CASE BottomUpStart
  <2>1. pc' = "pass" /\ arr' = arr /\ size' = 1 /\ low' = 1
    BY <1>1 DEF BottomUpStart
  <2>2. Multiple(0, 2 * 1)
    BY MultipleFacts
  <2>3. Runs(arr, 1, 1)
    <3> SUFFICES ASSUME NEW x \in 1 .. N, NEW y \in 1 .. N, x < y
                 PROVE  \E b \in x .. y - 1 : Boundary(b, 1, 1)
      BY DEF Runs
    <3>1. x \in x .. y - 1 /\ x >= 1 /\ x \in Nat /\ x \in Int
      OBVIOUS
    <3>2. Multiple(x, 1)
      BY <3>1, MultipleFacts
    <3> QED
      BY <3>1, <3>2 DEF Boundary
  <2>6. Blocks(arr, 1, 1)
    <3>1. \A x \in 1 .. N : arr[x].id = x
      BY <1>1 DEF BottomUpStart, Fresh
    <3> SUFFICES ASSUME NEW x \in 1 .. N, NEW y \in 1 .. N, NEW b \in x .. y - 1
                 PROVE  arr[x].id < arr[y].id
      BY DEF Blocks
    <3> QED
      BY <3>1
  <2>4. Runs(arr, low, size)' /\ Blocks(arr, low, size)'
    BY <2>1, <2>3, <2>6 DEF Runs, Blocks, Boundary, Ahead
  <2>5. Multiple(low - 1, 2 * size)'
    <3>1. 1 - 1 = 0
      OBVIOUS
    <3> QED
      BY <2>1, <2>2, <3>1 DEF Multiple
  <2> QED
    BY <2>1, <2>4, <2>5 DEF BottomUpInv
<1>2. CASE Segment
  <2>1. /\ pc = "pass" /\ pc' = "merge" /\ UNCHANGED <<arr, low, size>> /\ MoreSegments
        /\ high' = Lesser(low - 1 + 2 * size, N)
    BY <1>0, <1>2 DEF Segment
  <2>2. /\ size >= 1 /\ low >= 1 /\ Multiple(low - 1, 2 * size)
        /\ Runs(arr, low, size) /\ Blocks(arr, low, size)
    BY <2>1 DEF BottomUpInv
  <2>3. low <= N
    BY <2>1, <2>2, SegmentRuns
  <2>4. Runs(arr, low, size)' /\ Blocks(arr, low, size)' /\ Multiple(low - 1, 2 * size)'
    BY <2>1, <2>2 DEF Runs, Blocks, Multiple, Ahead, Boundary
  <2>5. (low <= N)' /\ (high = Lesser(low - 1 + 2 * size, N))'
    BY <2>1, <2>3 DEF Lesser
  <2> QED
    BY <2>1, <2>2, <2>4, <2>5 DEF BottomUpInv
<1>3. CASE EndOfPass
  <2>1. /\ pc = "pass" /\ pc' = "pass" /\ arr' = arr /\ ~MoreSegments
        /\ size' = 2 * size /\ low' = 1
    BY <1>3 DEF EndOfPass
  <2>2. /\ size >= 1 /\ low >= 1 /\ Multiple(low - 1, 2 * size)
        /\ Runs(arr, low, size) /\ Blocks(arr, low, size)
    BY <2>1 DEF BottomUpInv
  <2>3. low - 1 >= N - size
    BY <1>0, <2>1, <2>2 DEF MoreSegments
  <2>4. Runs(arr, 1, 2 * size) /\ Blocks(arr, 1, 2 * size)
    <3>1. size \in Nat
      BY <1>0, <2>2
    <3> QED
      BY <1>0, <2>2, <2>3, <3>1, PassEnds, BlocksDouble
  <2>5. Multiple(0, 2 * (2 * size)) /\ 2 * size >= 1
    <3>1. 2 * (2 * size) \in Nat /\ 2 * size >= 1
      BY <1>0, <2>2
    <3> QED
      BY <3>1, MultipleFacts
  <2>6. Runs(arr, low, size)' /\ Blocks(arr, low, size)'
    BY <2>1, <2>4 DEF Runs, Blocks, Boundary, Ahead
  <2>7. Multiple(low - 1, 2 * size)'
    <3>1. 1 - 1 = 0
      OBVIOUS
    <3> QED
      BY <2>1, <2>5, <3>1 DEF Multiple
  <2> QED
    BY <2>1, <2>5, <2>6, <2>7 DEF BottomUpInv
<1>4. CASE BottomUpDone
  <2>1. pc = "pass" /\ pc' = "done" /\ arr' = arr /\ ~MorePasses
    BY <1>4 DEF BottomUpDone, Finish
  <2>2. size >= 1 /\ Runs(arr, low, size)
    BY <2>1 DEF BottomUpInv
  <2>3. size \in Nat /\ size >= N
    BY <1>0, <2>1, <2>2 DEF MorePasses
  <2>4. Run(arr, 1, N)
    BY <1>0, <2>2, <2>3, OneRun
  <2>5. Run(arr, 1, N)'
    BY <2>1, <2>4 DEF Run, Ahead
  <2> QED
    BY <2>1, <2>5 DEF BottomUpInv
<1> QED
  BY <1>1, <1>2, <1>3, <1>4 DEF BottomUpNext

\* The merges of a pass (main.cpp:109-131, 145-157, 169-189).
LEMMA MergeNextKeepsBottomUp ==
  ASSUME TypeOK, TypeOK', N' = N, by' = by, by \in BottomUp, BottomUpInv, MergeInv, MergeNext
  PROVE  BottomUpInv'
<1>0. /\ N \in Nat /\ n = N /\ arr \in [1 .. N -> Element]
      /\ low \in Int /\ size \in Int /\ high \in Int
  BY Length DEF TypeOK
<1>1. /\ pc = "merge" /\ size >= 1 /\ low >= 1 /\ Multiple(low - 1, 2 * size)
      /\ Runs(arr, low, size) /\ Blocks(arr, low, size) /\ low <= N
      /\ high = Lesser(low - 1 + 2 * size, N)
  BY DEF MergeNext, TakeLeft, TakeRight, WriteBack, BottomUpInv
<1>2. CASE TakeLeft \/ TakeRight
  <2>1. UNCHANGED <<arr, pc, low, high, size>>
    BY <1>2 DEF TakeLeft, TakeRight
  <2>2. Runs(arr, low, size)' /\ Blocks(arr, low, size)' /\ Multiple(low - 1, 2 * size)'
    BY <1>1, <2>1 DEF Runs, Blocks, Multiple, Ahead, Boundary
  <2>3. (low <= N)' /\ (high = Lesser(low - 1 + 2 * size, N))'
    BY <1>1, <2>1 DEF Lesser
  <2> QED
    BY <1>1, <2>1, <2>2, <2>3 DEF BottomUpInv
<1>3. CASE WriteBack
  <2>1. pc' = "pass" /\ low' = low + 2 * size /\ size' = size
    BY <1>3 DEF WriteBack, BottomUp
  <2>2. WrittenBack(arr, arr', low, high)
    BY <1>3, WriteBackFacts
  <2>3. size \in Nat
    BY <1>0, <1>1
  <2>4. /\ Multiple(low + 2 * size - 1, 2 * size) /\ Runs(arr', low + 2 * size, size)
        /\ Blocks(arr', low + 2 * size, size)
    BY <1>0, <1>1, <2>2, <2>3, SegmentMerged, SegmentBlocks
  <2>5. Runs(arr, low, size)' /\ Blocks(arr, low, size)' /\ Multiple(low - 1, 2 * size)'
    <3>1. Runs(arr', low', size') /\ Blocks(arr', low', size')
      BY <2>1, <2>4
    <3>a. PICK g \in Int : g = low + 2 * size
      BY <1>0
    <3>c. g - 1 = low + 2 * size - 1
      BY <1>0, <3>a
    <3>b. Multiple(g - 1, 2 * size) /\ low' = g /\ size' = size
      BY <2>1, <2>4, <3>a, <3>c
    <3>2. Multiple(low' - 1, 2 * size')
      BY <3>b
    <3>3. Runs(arr, low, size)' /\ Blocks(arr, low, size)'
      BY <3>1 DEF Runs, Blocks, Boundary, Ahead
    <3>4. Multiple(low - 1, 2 * size)'
      BY <3>2 DEF Multiple
    <3> QED
      BY <3>3, <3>4
  <2>6. low + 2 * size >= 1
    BY <1>0, <1>1
  <2> QED
    BY <1>1, <2>1, <2>5, <2>6 DEF BottomUpInv
<1> QED
  BY <1>2, <1>3 DEF MergeNext

\* Only the bottom-up sorts make passes (main.cpp:93-193).
LEMMA BottomUpStep ==
  ASSUME SInv, TypeOK', N' = N, by' = by, by \in BottomUp => BottomUpNext \/ MergeNext
  PROVE  BottomUpInv'
<1>1. CASE by \in BottomUp
  BY <1>1, BottomUpNextKeeps, MergeNextKeepsBottomUp DEF SInv
<1>2. CASE by \notin BottomUp
  BY <1>2 DEF BottomUpInv
<1> QED
  BY <1>1, <1>2

\* The merges that run, of halves or of segments (main.cpp:69-193).
LEMMA MergeStep ==
  ASSUME SInv, Next, TypeOK', Where', N' = N, by' = by
  PROVE  MergeInv'
<1>0. TypeOK /\ Where /\ MergeInv /\ HelperInv /\ BottomUpInv
  BY DEF SInv
<1>a. N \in Nat /\ n = N /\ arr \in [1 .. N -> Element] /\ low \in Int /\ by \in Sorters
  BY <1>0, Length DEF TypeOK
<1>1. CASE TakeLeft
  BY <1>0, <1>1, TakeLeftKeeps
<1>2. CASE TakeRight
  BY <1>0, <1>2, TakeRightKeeps
<1>3. CASE HelperMerge
  <2>1. PICK l \in Int, m \in Int, h \in Int :
           /\ low' = l /\ mid' = m /\ high' = h /\ i' = l /\ j' = m + 1
           /\ 1 <= l /\ l <= m /\ m < h /\ h <= N
           /\ Run(arr, l, m) /\ Run(arr, m + 1, h) /\ LeftFirst(arr, l, m, h)
    BY <1>0, <1>3, HelperMergeFacts
  <2>2. arr' = arr /\ out' = <<>>
    BY <1>3 DEF HelperMerge
  <2>3. l <= m + 1 /\ m <= h
    BY <2>1
  <2> QED
    BY <1>a, <2>1, <2>2, <2>3, MergeStarts
<1>4. CASE Segment
  <2>1. /\ pc = "pass" /\ by \in BottomUp /\ MoreSegments /\ arr' = arr /\ out' = <<>>
        /\ mid' = LeftEnd /\ high' = Lesser(low - 1 + 2 * size, N) /\ low' = low
        /\ i' = low /\ j' = LeftEnd + 1
    BY <1>0, <1>4, <1>a DEF Segment, Where
  <2>2. /\ size >= 1 /\ low >= 1 /\ Multiple(low - 1, 2 * size)
        /\ Runs(arr, low, size) /\ Blocks(arr, low, size)
    BY <1>0, <2>1 DEF BottomUpInv
  <2>3. PICK m \in Int, h \in Int : m = LeftEnd /\ h = Lesser(low - 1 + 2 * size, N)
    BY <1>0, <2>1, <2>2, SegmentRuns
  <2>4. low <= m + 1 /\ m <= h /\ h <= N /\ Run(arr, low, m) /\ Run(arr, m + 1, h)
    BY <1>0, <2>1, <2>2, <2>3, SegmentRuns
  <2>7. by # "mergeBottom" => LeftFirst(arr, low, m, h)
    BY <1>0, <2>1, <2>2, <2>3, SegmentFirst
  <2>5. mid' = m /\ high' = h /\ j' = m + 1
    BY <2>1, <2>3
  <2>6. 1 <= low
    BY <1>a, <2>2
  <2> QED
    BY <1>a, <2>1, <2>4, <2>5, <2>6, <2>7, MergeStarts
<1>5. CASE ~(TakeLeft \/ TakeRight \/ HelperMerge \/ Segment)
  <2>1. pc' # "merge"
    BY <1>5 DEF Next, QuickNext, QuickStart, QuickReturn, QuickCall, PartitionStep, PartitionEnd,
         QuickDone, HoareNext, HoareStart, HoareSkip, ScanUp, ScanDown, HoareSwap, HoareReturn,
         HeapNext, HeapStart, HeapBuild, HeapExtract, HeapifyDown, HeapifyReturn,
         HeapDone, HelperNext, MergeStart, HelperReturn, HelperHalves, HelperDone,
         BottomUpNext, BottomUpStart, EndOfPass, BottomUpDone, MergeNext, WriteBack,
         SentinelNext, SentinelStart, SentinelSkip, LeastStep, LeastEnd, InsertionNext,
         InsertionStart, Hold, HoldBinary, Bisect, Bisected, Shift, Insert, InsertionDone, Finish
  <2> QED
    BY <2>1 DEF MergeInv
<1> QED
  BY <1>1, <1>2, <1>3, <1>4, <1>5

-----------------------------------------------------------------------------
(* The invariant and what follows from it *)

\* The array a caller passes: each element knows its place (main.cpp:360-373).
LEMMA InputFacts ==
  ASSUME NEW a \in Inputs
  PROVE  /\ a \in Seq(Element) /\ a \in [1 .. Len(a) -> Element] /\ Len(a) \in Nat
         /\ \A k \in 1 .. Len(a) : a[k].id = k
<1>1. PICK s \in UNION {[1 .. m -> Keys] : m \in 0 .. MaxLen} :
        a = [k \in DOMAIN s |-> [key |-> s[k], id |-> k]]
  BY DEF Inputs
<1>2. PICK m \in 0 .. MaxLen : s \in [1 .. m -> Keys]
  OBVIOUS
<1>3. m \in Nat
  OBVIOUS
<1>4. a = [k \in 1 .. m |-> [key |-> s[k], id |-> k]]
  BY <1>1, <1>2
<1>5. a \in [1 .. m -> Element] /\ \A k \in 1 .. m : a[k].id = k
  <2>1. \A k \in 1 .. m : s[k] \in Keys /\ k \in Nat
    BY <1>2, <1>3
  <2> QED
    BY <1>4, <2>1 DEF Element
<1>6. a \in Seq(Element) /\ Len(a) = m
  BY <1>3, <1>5, IsASeq, LenProperties
<1> QED
  BY <1>3, <1>5, <1>6

\* A function that is called has made no step (main.cpp:44, 51, 93, 135, 162,
\* 202, 277, 294, 307, 333).
LEMMA StartInv ==
  ASSUME Init
  PROVE  SInv
<1>1. /\ input \in Seq(Element) /\ input \in [1 .. N -> Element] /\ N \in Nat
      /\ \A k \in 1 .. N : input[k].id = k
  BY InputFacts DEF Init, N
<1>2. TypeOK
  <2>1. NoElement \in [key : Int, id : Nat]
    BY DEF NoElement
  <2>2. <<>> \in Seq(Call) /\ <<>> \in Seq(Element)
    OBVIOUS
  <2> QED
    BY <1>1, <2>1, <2>2 DEF Init, TypeOK
<1>3. pc = "start" /\ Held = input /\ calls = <<>> /\ piviot = 0
  BY DEF Init, Held
<1>4. Kept /\ KeepsOrder /\ Fresh
  BY <1>1, <1>3 DEF Kept, KeepsOrder, InInputOrder, Fresh, Init
<1>5. Where
  BY <1>3 DEF Where
<1> QED
  BY <1>2, <1>3, <1>4, <1>5 DEF SInv, QuickInv, HoareInv, HeapInv, MergeInv, HelperInv,
                               BottomUpInv, InsertionInv

\* Every step keeps the types: in particular every index it writes is in the
\* array (main.cpp:8-358).
LEMMA TypeStep ==
  ASSUME SInv, Next
  PROVE  TypeOK'
<1>0. /\ TypeOK /\ Where /\ QuickInv /\ HoareInv /\ HeapInv /\ MergeInv /\ InsertionInv
  BY DEF SInv
<1> QED
  BY <1>0, QuickType, HoareType, HeapType, HelperType, BottomUpType, MergeType, SentinelType,
     InsertionType DEF Next

\* No sort returns to its start (main.cpp:8-358).
LEMMA FreshStep ==
  ASSUME Next
  PROVE  Fresh'
<1>1. ASSUME QuickNext \/ HoareNext \/ HeapNext PROVE pc' # "start"
  BY <1>1 DEF QuickNext, QuickStart, QuickReturn, QuickCall, PartitionStep, PartitionEnd,
       QuickDone, HoareNext, HoareStart, HoareSkip, ScanUp, ScanDown, HoareSwap, HoareReturn,
       HeapNext, HeapStart, HeapBuild, HeapExtract, HeapifyDown, HeapifyReturn, HeapDone, Finish
<1>2. ASSUME HelperNext \/ BottomUpNext \/ MergeNext PROVE pc' # "start"
  BY <1>2 DEF HelperNext, MergeStart, HelperReturn, HelperHalves, HelperMerge, HelperDone,
       BottomUpNext, BottomUpStart, Segment, EndOfPass, BottomUpDone, MergeNext, TakeLeft,
       TakeRight, WriteBack, Finish
<1>3. ASSUME SentinelNext \/ InsertionNext PROVE pc' # "start"
  BY <1>3 DEF SentinelNext, SentinelStart, SentinelSkip, LeastStep, LeastEnd, InsertionNext,
       InsertionStart, Hold, HoldBinary, Bisect, Bisected, Shift, Insert, InsertionDone, Finish
<1> QED
  BY <1>1, <1>2, <1>3 DEF Next, Fresh

\* Every step of every sort keeps the invariant (main.cpp:8-358).
LEMMA NextKeeps ==
  ASSUME SInv, Next
  PROVE  SInv'
<1>0. Where /\ by \in Sorters
  BY DEF SInv, TypeOK
<1>1. /\ input' = input /\ by' = by /\ N' = N
      /\ by \in QuickSorts => QuickNext \/ HoareNext
      /\ by = "heapSort" => HeapNext
      /\ by = "mergeSort" => HelperNext \/ MergeNext
      /\ by \in BottomUp => BottomUpNext \/ MergeNext
      /\ by \in Insertions => SentinelNext \/ InsertionNext
  BY <1>0, Dispatch
<1>2. TypeOK' /\ Where'
  BY <1>0, TypeStep, WhereStep
<1>3. Kept' /\ KeepsOrder' /\ Fresh'
  BY <1>1, <1>2, KeptStep, FreshStep
<1>4. QuickInv'
  BY <1>1, <1>2, QuickStep
<1>5. HoareInv' /\ MergeInv'
  BY <1>1, <1>2, HoareStep, MergeStep
<1>6. HeapInv'
  BY <1>1, <1>2, HeapStep
<1>7. HelperInv'
  BY <1>1, <1>2, HelperStep
<1>8. BottomUpInv'
  BY <1>1, <1>2, BottomUpStep
<1>9. InsertionInv'
  BY <1>1, <1>2, InsertionStep
<1> QED
  BY <1>2, <1>3, <1>4, <1>5, <1>6, <1>7, <1>8, <1>9 DEF SInv

\* Nothing changes where no step is made.
LEMMA StutterKeeps ==
  ASSUME SInv, UNCHANGED vars
  PROVE  SInv'
<1> USE DEF vars, locals, N
<1>1. TypeOK' /\ Where'
  BY DEF SInv, TypeOK, Where
<1>2. Kept' /\ KeepsOrder' /\ Fresh'
  <2>1. Kept' /\ KeepsOrder'
    BY DEF SInv, Kept, KeepsOrder, Held, Elements, InInputOrder
  <2>2. Fresh'
    BY DEF SInv, Fresh
  <2> QED
    BY <2>1, <2>2
<1>3. QuickInv'
  <2>1. Apart(calls)' <=> Apart(calls)
    BY DEF Apart
  <2>2. Fit(calls, piviot)' <=> Fit(calls, piviot)
    BY DEF Fit
  <2>3. Clear(calls, low, high)' <=> Clear(calls, low, high)
    BY DEF Clear
  <2>4. OrderedAround' <=> OrderedAround
    BY DEF OrderedAround, In
  <2>5. PartitionInv' <=> PartitionInv
    BY DEF PartitionInv
  <2> QED
    BY <2>1, <2>2, <2>3, <2>4, <2>5 DEF SInv, QuickInv
<1>4. HoareInv'
  BY DEF SInv, HoareInv, AtMost, AtLeast, Middle
<1>5. HeapInv'
  BY DEF SInv, HeapInv, IsHeap, Taken, Sinking
<1>6. MergeInv'
  BY DEF SInv, MergeInv, Merged, Run, Ahead, LeftFirst
<1>7. HelperInv'
  <2>1. Stack' = Stack /\ arr' = arr /\ by' = by /\ pc' = pc /\ calls' = calls /\ N' = N
    BY DEF Stack
  <2>2. StackInv(arr', Stack') => StackInv(arr, Stack)'
    BY <2>1 DEF StackInv, Settled, Run, Ahead
  <2>3. Sources(arr', Stack') => Sources(arr, Stack)'
    BY <2>1 DEF Sources, LeftFirst
  <2> QED
    BY <2>1, <2>2, <2>3 DEF SInv, HelperInv
<1>8. BottomUpInv'
  BY DEF SInv, BottomUpInv, Runs, Blocks, Boundary, Multiple, Lesser, Run, Ahead
<1>9. InsertionInv'
  BY DEF SInv, InsertionInv, InOrder, Least, Lesser
<1> QED
  BY <1>1, <1>2, <1>3, <1>4, <1>5, <1>6, <1>7, <1>8, <1>9 DEF SInv

\* The loop invariants of all ten sorts hold for every array of up to ExactFloat
\* elements, where the number of segments that mergeBottom computes with a float
\* is exact (main.cpp:166): no index leaves the array and no element is lost on
\* the way.
THEOREM SortInvariance == Spec => []SInv
<1>1. Init => SInv
  BY StartInv
<1>2. SInv /\ [Next]_vars => SInv'
  BY NextKeeps, StutterKeeps
<1> QED
  BY <1>1, <1>2, PTL DEF Spec

\* Up to the length ExactFloat, a sort that has returned has ordered the elements
\* of its input, the smallest first or, after heapSort, the greatest first, and
\* the scan without a bound check of insertionSortWithSentinel stays in the array
\* (main.cpp:44-358).
THEOREM SortsSort == Spec => []Sorts
<1>1. SInv => Sorts
  <2> SUFFICES ASSUME SInv PROVE Sorts
    OBVIOUS
  <2>0. /\ N \in Nat /\ n = N /\ DOMAIN arr = 1 .. N /\ by \in Sorters /\ i \in Int /\ j \in Int
        /\ N = Len(input)
    BY Length DEF SInv, TypeOK, N
  <2>1. ASSUME pc = "done" PROVE Len(arr) = Len(input) /\ Elements(arr) = Elements(input)
    <3>1. Held = arr
      BY <2>1 DEF Held
    <3> QED
      BY <2>0, <3>1 DEF SInv, Kept, n
  <2>2. ASSUME pc = "done", by \in Ascending PROVE InOrder(arr, 1, N)
    <3>1. CASE by = "quickSort"
      <4>1. OrderedAround /\ piviot = 0 /\ calls = <<>>
        BY <2>2, <3>1 DEF SInv, QuickInv, QuickSorts
      <4>2. \A x, y \in 1 .. N : ~In(calls, x, y) /\ y # 0
        BY <4>1 DEF In
      <4> QED
        BY <2>2, <4>1, <4>2 DEF OrderedAround, InOrder
    <3>2. CASE by = "mergeSort"
      <4>1. calls = <<>> /\ StackInv(arr, Stack) /\ Stack = <<>>
        BY <2>2, <3>2 DEF SInv, HelperInv, Stack
      <4>2. Settled(arr, <<>>, 1, N, 0)
        BY <4>1 DEF StackInv
      <4> QED
        BY <4>2 DEF Settled, Run, Ahead, InOrder
    <3>3. CASE by \in BottomUp
      BY <2>2, <3>3 DEF SInv, BottomUpInv, Run, Ahead, InOrder
    <3>4. CASE by \in Insertions
      BY <2>2, <3>4 DEF SInv, InsertionInv
    <3> QED
      BY <2>0, <2>2, <3>1, <3>2, <3>3, <3>4 DEF Ascending, Sorters, QuickSorts
  <2>3. ASSUME pc = "done", by = "heapSort"
        PROVE  \A x, y \in 1 .. N : x < y => arr[x].key >= arr[y].key
    <3>1. Taken(arr, high) /\ high <= 1 /\ high \in Int
      BY <2>3 DEF SInv, HeapInv, TypeOK
    <3> SUFFICES ASSUME NEW x \in 1 .. N, NEW y \in 1 .. N, x < y
                 PROVE  arr[x].key >= arr[y].key
      OBVIOUS
    <3>2. y \in high + 1 .. N /\ x \in 1 .. y - 1
      BY <2>0, <3>1
    <3> QED
      BY <3>1, <3>2 DEF Taken
  <2>4. ASSUME pc = "shift", by = "insertionSortWithSentinel" PROVE j \in 1 .. n
    <3>1. 1 <= j /\ j < i /\ i <= N
      BY <2>4 DEF SInv, InsertionInv, Insertions
    <3> QED
      BY <2>0, <3>1
  <2> QED
    BY <2>0, <2>1, <2>2, <2>3, <2>4 DEF Sorts, InOrder
<1> QED
  BY <1>1, SortInvariance, PTL

\* mergeSortIterativeDS, insertionSort and insertionSortBinary are stable
\* (main.cpp:119, 299, 317); mergeSort and mergeBottomModifyByAI leave equal keys
\* in the opposite order (main.cpp:73, 146).
THEOREM TiesAreOrdered == Spec => []TieOrder
<1>1. SInv => TieOrder
  <2> SUFFICES ASSUME SInv, pc = "done" PROVE TieOrder
    BY DEF TieOrder
  <2>1. DOMAIN arr = 1 .. N /\ Held = arr
    BY Length DEF SInv, Held
  <2>2. ASSUME by \in StableSorts PROVE InInputOrder(arr)
    BY <2>1, <2>2 DEF SInv, KeepsOrder, StableSorts
  <2>3. ASSUME by = "mergeSort" PROVE Run(arr, 1, N)
    <3>1. StackInv(arr, Stack) /\ Stack = <<>>
      BY <2>3 DEF SInv, HelperInv, Stack
    <3>2. Settled(arr, <<>>, 1, N, 0)
      BY <3>1 DEF StackInv
    <3> QED
      BY <3>2 DEF Settled
  <2>4. ASSUME by \in BottomUp PROVE Run(arr, 1, N)
    BY <2>4 DEF SInv, BottomUpInv
  <2> QED
    BY <2>1, <2>2, <2>3, <2>4 DEF TieOrder, StableSorts, InInputOrder, BottomUp, Run, Ahead
<1> QED
  BY <1>1, SortInvariance, PTL

\* The scans of partitonHoare never leave the array, although nothing checks
\* them (main.cpp:13-18), and quickSortH orders everything around the place
\* that partition returned (main.cpp:51-57).
THEOREM HoareIsSafe == Spec => []HoareSplits
<1>1. SInv => HoareSplits
  <2> SUFFICES ASSUME SInv PROVE HoareSplits
    OBVIOUS
  <2>0. /\ N \in Nat /\ n = N /\ DOMAIN arr = 1 .. N /\ i \in Int /\ j \in Int
    BY Length DEF SInv, TypeOK
  <2>1. N > 1 => Middle \in 1 .. N - 1
    BY <2>0 DEF Middle
  <2>2. pc = "up" => i + 1 \in 1 .. n
    BY <2>0, <2>1 DEF SInv, HoareInv
  <2>3. pc = "down" => j - 1 \in 1 .. n
    BY <2>0, <2>1 DEF SInv, HoareInv
  <2>4. ASSUME pc = "done", by = "quickSortH", n > 1
        PROVE  /\ piviot \in 1 .. n - 1
               /\ \A x, y \in 1 .. N : x < y /\ y # piviot => arr[x].key <= arr[y].key
    <3>1. OrderedAround /\ piviot \in 1 .. N - 1 /\ calls = <<>>
      BY <2>0, <2>4 DEF SInv, QuickInv, QuickSorts
    <3>2. \A x, y : ~In(calls, x, y)
      BY <3>1 DEF In
    <3> QED
      BY <2>0, <2>4, <3>1, <3>2 DEF OrderedAround
  <2> QED
    BY <2>0, <2>2, <2>3, <2>4 DEF HoareSplits
<1> QED
  BY <1>1, SortInvariance, PTL
=============================================================================
