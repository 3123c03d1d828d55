----------------------------- MODULE MergeSorts -----------------------------
(* The sorts that merge sorted runs: mergeSort, which recurses, and three     *)
(* loops over the array whose runs double in every pass.  The code of the     *)
(* loops fills tmp and copies it back after each merge or after each pass; no *)
(* merge reads what another one of its pass wrote, so that each run is        *)
(* written back here when it is merged.                                       *)
EXTENDS SortArray

BottomUp == {"mergeSortIterativeDS", "mergeBottomModifyByAI", "mergeBottom"}

Lesser(a, b) == IF a < b THEN a ELSE b      \* std::min

MergeStart ==
  /\ pc = "start" /\ by = "mergeSort"
  /\ pc' = "call"
  /\ calls' = <<SortCall(1, n)>>
  /\ UNCHANGED <<input, arr, by, locals>>

\* mergeHelper: fewer than two elements are sorted; more are halved, and merged
\* when both halves are sorted
HelperReturn ==
  /\ pc = "call" /\ by = "mergeSort" /\ calls # <<>>
  /\ Head(calls).mid = 0 /\ Head(calls).low >= Head(calls).high
  /\ calls' = Tail(calls)
  /\ UNCHANGED <<input, arr, by, pc, locals>>

HelperHalves ==
  /\ pc = "call" /\ by = "mergeSort" /\ calls # <<>>
  /\ Head(calls).mid = 0 /\ Head(calls).low < Head(calls).high
  /\ LET l == Head(calls).low
         h == Head(calls).high
         m == l + (h - l) \div 2
     IN  calls' = <<SortCall(l, m), SortCall(m + 1, h), MergeCall(l, m, h)>>
                    \o Tail(calls)
  /\ UNCHANGED <<input, arr, by, pc, locals>>

HelperMerge ==
  /\ pc = "call" /\ by = "mergeSort" /\ calls # <<>>
  /\ Head(calls).mid # 0
  /\ low' = Head(calls).low /\ mid' = Head(calls).mid /\ high' = Head(calls).high
  /\ i' = Head(calls).low /\ j' = Head(calls).mid + 1
  /\ out' = <<>>
  /\ pc' = "merge"
  /\ calls' = Tail(calls)
  /\ UNCHANGED <<input, arr, by, key, size, piviot>>

HelperDone == pc = "call" /\ by = "mergeSort" /\ calls = <<>> /\ Finish

-----------------------------------------------------------------------------
(* The loops: low is the first element of the next segment.                   *)
BottomUpStart ==
  /\ pc = "start" /\ by \in BottomUp
  /\ size' = 1 /\ low' = 1
  /\ pc' = "pass"
  /\ UNCHANGED <<input, arr, by, calls, mid, high, i, j, key, out, piviot>>

\* plausible bug: the bound of step is n
Mutant_MorePasses == 2 * size < n

\* size < n, step < 2 * n (the code marks it "imp!!") or step <= 2 * n
MorePasses == size < n \/ (by = "mergeBottomModifyByAI" /\ size <= n)

\* mergeSortIterativeDS leaves a segment with no right run as it is; mergeBottom
\* counts ceil(n / (float)step) segments, which is exact up to ExactFloat
MoreSegments ==
  IF by = "mergeSortIterativeDS" THEN low - 1 < n - size ELSE low - 1 < n

\* the last element of the left run: where a segment is short, mergeBottom's
\* left run ends before the last element, mergeBottomModifyByAI's at it
LeftEnd ==
  CASE by = "mergeBottom" -> Lesser(low - 1 + size, n - 1)
    [] by = "mergeBottomModifyByAI" -> Lesser(low - 1 + size, n)
    [] OTHER -> low - 1 + size

Segment ==
  /\ pc = "pass" /\ MorePasses /\ MoreSegments
  /\ mid' = LeftEnd /\ high' = Lesser(low - 1 + 2 * size, n)
  /\ i' = low /\ j' = LeftEnd + 1
  /\ out' = <<>>
  /\ pc' = "merge"
  /\ UNCHANGED <<input, arr, by, calls, low, key, size, piviot>>

EndOfPass ==
  /\ pc = "pass" /\ MorePasses /\ ~MoreSegments
  /\ size' = 2 * size /\ low' = 1
  /\ UNCHANGED <<input, arr, by, pc, calls, mid, high, i, j, key, out, piviot>>

BottomUpDone == pc = "pass" /\ ~MorePasses /\ Finish

-----------------------------------------------------------------------------
(* Merging low .. mid with mid + 1 .. high.                                   *)
\* plausible bug: < in every sort, the right run wins a tie
Mutant_LeftWins == arr[i].key < arr[j].key

\* mergeSortIterativeDS compares with <=, the others with <
LeftWins ==
  \/ arr[i].key < arr[j].key
  \/ by = "mergeSortIterativeDS" /\ arr[i].key = arr[j].key

TakeLeft ==
  /\ pc = "merge" /\ i <= mid /\ (j <= high => LeftWins)
  /\ out' = Append(out, arr[i])
  /\ i' = i + 1
  /\ UNCHANGED <<input, arr, by, pc, calls, low, mid, high, j, key, size, piviot>>

TakeRight ==
  /\ pc = "merge" /\ j <= high /\ (i <= mid => ~LeftWins)
  /\ out' = Append(out, arr[j])
  /\ j' = j + 1
  /\ UNCHANGED <<input, arr, by, pc, calls, low, mid, high, i, key, size, piviot>>

WriteBack ==
  /\ pc = "merge" /\ i > mid /\ j > high
  /\ arr' = [k \in DOMAIN arr |->
               IF low <= k /\ k <= high THEN out[k - low + 1] ELSE arr[k]]
  /\ \/ by = "mergeSort" /\ pc' = "call" /\ UNCHANGED low
     \/ by \in BottomUp /\ pc' = "pass" /\ low' = low + 2 * size
  /\ UNCHANGED <<input, by, calls, mid, high, i, j, key, out, size, piviot>>

HelperNext == MergeStart \/ HelperReturn \/ HelperHalves \/ HelperMerge \/ HelperDone
BottomUpNext == BottomUpStart \/ Segment \/ EndOfPass \/ BottomUpDone
MergeNext == TakeLeft \/ TakeRight \/ WriteBack
=============================================================================
