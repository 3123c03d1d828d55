------------------------------- MODULE Sorting -------------------------------
(* One of the ten sorts of src/sort/main.cpp, called for one array.           *)
EXTENDS ExchangeSorts, MergeSorts, InsertionSorts

Sorters == QuickSorts \cup {"heapSort", "mergeSort"} \cup BottomUp \cup Insertions

NoElement == [key |-> 0, id |-> 0]

Init ==
  /\ input \in Inputs /\ arr = input
  /\ by \in Sorters /\ pc = "start" /\ calls = <<>>
  /\ low = 0 /\ mid = 0 /\ high = 0 /\ i = 0 /\ j = 0
  /\ key = NoElement /\ out = <<>> /\ size = 0 /\ piviot = 0

Next ==
  \/ QuickNext \/ HoareNext \/ HeapNext
  \/ HelperNext \/ BottomUpNext \/ MergeNext
  \/ SentinelNext \/ InsertionNext

Spec == Init /\ [][Next]_vars

\* A program that runs alone takes its next step.
FairSpec == Spec /\ WF_vars(Next)

-----------------------------------------------------------------------------
Elements(a) == {a[k] : k \in DOMAIN a}

\* The functions that promise an ascending array: all but quickSortH, which
\* sorts only around its pivot, and heapSort, whose heap is a min-heap.
Ascending == Sorters \ {"quickSortH", "heapSort"}

\* A function that returns has lost and repeated no element, and quickSort and
\* every merge and insertion sort leaves an ascending array, also where the
\* length is no power of two and the last segment is short (main.cpp:165-180).
\* heapSort's is descending: heapify builds a min-heap, although its comments
\* speak of the largest element (main.cpp:286).  The scan of
\* insertionSortWithSentinel, which checks no bound (main.cpp:352), never leaves
\* the array.  (MaxLen is at most ExactFloat: mergeBottom may lose the last
\* element of a longer array.)
Sorts ==
  /\ pc = "done" =>
       /\ Len(arr) = Len(input) /\ Elements(arr) = Elements(input)
       /\ by \in Ascending =>
            \A x, y \in DOMAIN arr : x < y => arr[x].key <= arr[y].key
       /\ by = "heapSort" =>
            \A x, y \in DOMAIN arr : x < y => arr[x].key >= arr[y].key
  /\ pc = "shift" /\ by = "insertionSortWithSentinel" => j \in 1 .. n

\* What becomes of equal keys.  mergeSortIterativeDS and the two plain insertion
\* sorts keep them in the order of the input.  mergeSort and
\* mergeBottomModifyByAI compare with < and give a tie to the right run
\* (main.cpp:73-77, 146-151): they are not stable, although readme.org:10 lists
\* stability as merge sort's first advantage, but leave equal keys in exactly
\* the opposite order.  (mergeBottom gives a tie to the right run, too, and may
\* split a run that is sorted already: its ties come out in either order, as do
\* those of the sorts that exchange distant elements.)
TieOrder ==
  pc = "done" =>
    \A x, y \in DOMAIN arr : x < y /\ arr[x].key = arr[y].key =>
      /\ by \in {"mergeSortIterativeDS", "insertionSort", "insertionSortBinary"} =>
           arr[x].id < arr[y].id
      /\ by \in {"mergeSort", "mergeBottomModifyByAI"} => arr[x].id > arr[y].id

\* The scans of partitonHoare check no bound (main.cpp:13-18) and yet read
\* inside the array only.  quickSortH recurses with [low, p - 1] and
\* [p + 1, high], which leaves the element Hoare's partition returned where it
\* lies, although its place is not settled: the rest of the array is sorted
\* around it, nothing to its right is smaller than it, and the right part is
\* never empty.
HoareSplits ==
  /\ pc = "up" => i + 1 \in 1 .. n
  /\ pc = "down" => j - 1 \in 1 .. n
  /\ pc = "done" /\ by = "quickSortH" /\ n > 1 =>
       /\ piviot \in 1 .. n - 1
       /\ \A x, y \in DOMAIN arr :
            x < y /\ y # piviot => arr[x].key <= arr[y].key

\* Every sort returns: no scan, search or pass goes on for ever, and none finds
\* itself where no branch applies (main.cpp:12-22, 139, 315-322, 352).
Returns == <>(pc = "done")
=============================================================================
