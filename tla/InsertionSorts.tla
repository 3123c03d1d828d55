--------------------------- MODULE InsertionSorts ---------------------------
(* The three insertion sorts.  insertionSort's argument is a copy: arr is     *)
(* that copy, the caller's array stays.                                       *)
EXTENDS SortArray

Insertions == {"insertionSort", "insertionSortBinary", "insertionSortWithSentinel"}

InsertionStart ==
  /\ pc = "start" /\ by \in {"insertionSort", "insertionSortBinary"}
  /\ i' = 2
  /\ pc' = "insert"
  /\ UNCHANGED <<input, arr, by, calls, low, mid, high, j, key, out, size, piviot>>

(* insertionSortWithSentinel looks for the first smallest element (mid is     *)
(* minIndex) and puts it in front, where it ends every later scan.            *)
SentinelStart ==
  /\ pc = "start" /\ by = "insertionSortWithSentinel" /\ n > 1
  /\ mid' = 1 /\ i' = 2
  /\ pc' = "least"
  /\ UNCHANGED <<input, arr, by, calls, low, high, j, key, out, size, piviot>>

SentinelSkip ==
  pc = "start" /\ by = "insertionSortWithSentinel" /\ n <= 1 /\ Finish

LeastStep ==
  /\ pc = "least" /\ i <= n
  /\ mid' = IF arr[i].key < arr[mid].key THEN i ELSE mid
  /\ i' = i + 1
  /\ UNCHANGED <<input, arr, by, pc, calls, low, high, j, key, out, size, piviot>>

LeastEnd ==
  /\ pc = "least" /\ i > n
  /\ arr' = Swapped(arr, 1, mid)
  /\ i' = 3
  /\ pc' = "insert"
  /\ UNCHANGED <<input, by, calls, low, mid, high, j, key, out, size, piviot>>

-----------------------------------------------------------------------------
(* Element i is held in key while the greater ones before it move up.         *)
Hold ==
  /\ pc = "insert" /\ i <= n /\ by # "insertionSortBinary"
  /\ key' = arr[i] /\ j' = i - 1
  /\ pc' = "shift"
  /\ UNCHANGED <<input, arr, by, calls, low, mid, high, i, out, size, piviot>>

\* insertionSortBinary looks for the place first: low and high are left, right
HoldBinary ==
  /\ pc = "insert" /\ i <= n /\ by = "insertionSortBinary"
  /\ key' = arr[i] /\ low' = 1 /\ high' = i - 1
  /\ pc' = "bisect"
  /\ UNCHANGED <<input, arr, by, calls, mid, i, j, out, size, piviot>>

\* plausible bug: the lower bound does not pass the middle
Mutant_Bisect ==
  /\ pc = "bisect" /\ low <= high
  /\ LET m == low + (high - low) \div 2 IN
     \/ arr[m].key > key.key /\ high' = m - 1 /\ UNCHANGED low
     \/ ~(arr[m].key > key.key) /\ low' = m /\ UNCHANGED high
  /\ UNCHANGED <<input, arr, by, pc, calls, mid, i, j, key, out, size, piviot>>

Bisect ==
  /\ pc = "bisect" /\ low <= high
  /\ LET m == low + (high - low) \div 2 IN
     \/ arr[m].key > key.key /\ high' = m - 1 /\ UNCHANGED low
     \/ ~(arr[m].key > key.key) /\ low' = m + 1 /\ UNCHANGED high
  /\ UNCHANGED <<input, arr, by, pc, calls, mid, i, j, key, out, size, piviot>>

Bisected ==
  /\ pc = "bisect" /\ low > high
  /\ j' = i - 1
  /\ pc' = "shift"
  /\ UNCHANGED <<input, arr, by, calls, low, mid, high, i, key, out, size, piviot>>

\* the condition of the loop that moves elements up: with the sentinel nothing
\* checks that j stays in the array
MustShift ==
  CASE by = "insertionSort" -> j >= 1 /\ arr[j].key > key.key
    [] by = "insertionSortBinary" -> j >= low
    [] OTHER -> arr[j].key > key.key

Shift ==
  /\ pc = "shift" /\ MustShift
  /\ arr' = [arr EXCEPT ![j + 1] = arr[j]]
  /\ j' = j - 1
  /\ UNCHANGED <<input, by, pc, calls, low, mid, high, i, key, out, size, piviot>>

Insert ==
  /\ pc = "shift" /\ ~MustShift
  /\ arr' = [arr EXCEPT ![j + 1] = key]
  /\ i' = i + 1
  /\ pc' = "insert"
  /\ UNCHANGED <<input, by, calls, low, mid, high, j, key, out, size, piviot>>

InsertionDone == pc = "insert" /\ i > n /\ Finish

SentinelNext == SentinelStart \/ SentinelSkip \/ LeastStep \/ LeastEnd
InsertionNext == InsertionStart \/ Hold \/ HoldBinary \/ Bisect \/ Bisected \/ Shift
                 \/ Insert \/ InsertionDone
=============================================================================
