---------------------------- MODULE ExchangeSorts ---------------------------
(* The sorts that only exchange elements: quickSort with Lomuto's partition,  *)
(* quickSortH, which makes its first partition Hoare's way, and heapSort.     *)
EXTENDS SortArray

QuickSorts == {"quickSort", "quickSortH"}

QuickStart ==
  /\ pc = "start" /\ by = "quickSort"
  /\ pc' = "call"
  /\ calls' = <<SortCall(1, n)>>
  /\ UNCHANGED <<input, arr, by, locals>>

\* A call on fewer than two elements returns; another one starts partition.
QuickReturn ==
  /\ pc = "call" /\ by \in QuickSorts /\ calls # <<>>
  /\ Head(calls).low >= Head(calls).high
  /\ calls' = Tail(calls)
  /\ UNCHANGED <<input, arr, by, pc, locals>>

QuickCall ==
  /\ pc = "call" /\ by \in QuickSorts /\ calls # <<>>
  /\ Head(calls).low < Head(calls).high
  /\ low' = Head(calls).low /\ high' = Head(calls).high
  /\ key' = arr[Head(calls).high]
  /\ i' = Head(calls).low - 1 /\ j' = Head(calls).low
  /\ pc' = "partition"
  /\ calls' = Tail(calls)
  /\ UNCHANGED <<input, arr, by, mid, out, size, piviot>>

PartitionStep ==
  /\ pc = "partition" /\ j < high
  /\ \/ arr[j].key < key.key /\ i' = i + 1 /\ arr' = Swapped(arr, i + 1, j)
     \/ ~(arr[j].key < key.key) /\ UNCHANGED <<i, arr>>
  /\ j' = j + 1
  /\ UNCHANGED <<input, by, pc, calls, low, mid, high, key, out, size, piviot>>

\* The pivot goes between the two parts, which are sorted next.
PartitionEnd ==
  /\ pc = "partition" /\ j >= high
  /\ arr' = Swapped(arr, i + 1, high)
  /\ calls' = <<SortCall(low, i), SortCall(i + 2, high)>> \o calls
  /\ pc' = "call"
  /\ UNCHANGED <<input, by, locals>>

QuickDone == pc = "call" /\ by \in QuickSorts /\ calls = <<>> /\ Finish

-----------------------------------------------------------------------------
(* quickSortH: partitonHoare is called for the whole array only, where        *)
(* low + (low + high) / 2 is the middle because low is 0.                     *)
HoareStart ==
  /\ pc = "start" /\ by = "quickSortH" /\ n > 1
  /\ low' = 1 /\ high' = n /\ i' = 0 /\ j' = n + 1
  /\ key' = arr[(n - 1) \div 2 + 1]
  /\ pc' = "up"
  /\ UNCHANGED <<input, arr, by, calls, mid, out, size, piviot>>

HoareSkip == pc = "start" /\ by = "quickSortH" /\ n <= 1 /\ Finish

\* do ++i; while (arr[i] < pivot): nothing checks that i stays in the array
ScanUp ==
  /\ pc = "up"
  /\ i' = i + 1
  /\ pc' = IF arr[i + 1].key < key.key THEN "up" ELSE "down"
  /\ UNCHANGED <<input, arr, by, calls, low, mid, high, j, key, out, size, piviot>>

\* do --j; while (arr[j] > pivot)
ScanDown ==
  /\ pc = "down"
  /\ j' = j - 1
  /\ pc' = IF arr[j - 1].key > key.key THEN "down" ELSE "meet"
  /\ UNCHANGED <<input, arr, by, calls, low, mid, high, i, key, out, size, piviot>>

HoareSwap ==
  /\ pc = "meet" /\ i < j
  /\ arr' = Swapped(arr, i, j)
  /\ pc' = "up"
  /\ UNCHANGED <<input, by, calls, locals>>

\* plausible bug: the left scan's index is returned
Mutant_HoareReturn ==
  /\ pc = "meet" /\ i >= j
  /\ piviot' = i
  /\ calls' = <<SortCall(low, i - 1), SortCall(i + 1, high)>>
  /\ pc' = "call"
  /\ UNCHANGED <<input, arr, by, low, mid, high, i, j, key, out, size>>

\* quickSort is called for what is left and what is right of the index returned
HoareReturn ==
  /\ pc = "meet" /\ i >= j
  /\ piviot' = j
  /\ calls' = <<SortCall(low, j - 1), SortCall(j + 1, high)>>
  /\ pc' = "call"
  /\ UNCHANGED <<input, arr, by, low, mid, high, i, j, key, out, size>>

-----------------------------------------------------------------------------
(* heapSort: i counts the build loop down, high is the size of the heap, and  *)
(* heapify is at node j.  It keeps the smallest element on top.               *)
HeapStart ==
  /\ pc = "start" /\ by = "heapSort"
  /\ i' = n \div 2 /\ high' = n
  /\ pc' = "heap"
  /\ UNCHANGED <<input, arr, by, calls, low, mid, j, key, out, size, piviot>>

HeapBuild ==
  /\ pc = "heap" /\ i >= 1
  /\ j' = i /\ i' = i - 1
  /\ pc' = "heapify"
  /\ UNCHANGED <<input, arr, by, calls, low, mid, high, key, out, size, piviot>>

HeapExtract ==
  /\ pc = "heap" /\ i < 1 /\ high > 1
  /\ arr' = Swapped(arr, 1, high)
  /\ high' = high - 1 /\ j' = 1
  /\ pc' = "heapify"
  /\ UNCHANGED <<input, by, calls, low, mid, i, key, out, size, piviot>>

smallest ==
  LET left == IF 2 * j <= high /\ arr[2 * j].key < arr[j].key THEN 2 * j ELSE j
  IN  IF 2 * j + 1 <= high /\ arr[2 * j + 1].key < arr[left].key
        THEN 2 * j + 1 ELSE left

\* heapify calls itself last: the call is a step to the child
HeapifyDown ==
  /\ pc = "heapify" /\ smallest # j
  /\ arr' = Swapped(arr, smallest, j)
  /\ j' = smallest
  /\ UNCHANGED <<input, by, pc, calls, low, mid, high, i, key, out, size, piviot>>

HeapifyReturn ==
  /\ pc = "heapify" /\ smallest = j
  /\ pc' = "heap"
  /\ UNCHANGED <<input, arr, by, calls, locals>>

HeapDone == pc = "heap" /\ i < 1 /\ high <= 1 /\ Finish

QuickNext == QuickStart \/ QuickReturn \/ QuickCall \/ PartitionStep
             \/ PartitionEnd \/ QuickDone
HoareNext == HoareStart \/ HoareSkip \/ ScanUp \/ ScanDown \/ HoareSwap \/ HoareReturn
HeapNext == HeapStart \/ HeapBuild \/ HeapExtract \/ HeapifyDown \/ HeapifyReturn
            \/ HeapDone
=============================================================================
