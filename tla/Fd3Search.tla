----------------------------- MODULE Fd3Search ------------------------------
(***************************************************************************)
(* fd/src/fd3.cpp: workers that pull directories from a DirQueue and push  *)
(* the subdirectories they find, and a main thread that sleeps on          *)
(* worker_cv until pending_work is zero and the queue is empty.            *)
(*                                                                         *)
(* worker_mtx is held across two steps by main alone, between the two      *)
(* halves of its predicate (mpc = "empty"); a worker's critical section    *)
(* under it is one step.                                                   *)
(***************************************************************************)
EXTENDS DirQueue, FileTree

CONSTANT NoNode  \* no entry

ASSUME ItemsAssumption ==
  /\ IsFiniteSet(Workers)
  /\ Items \subseteq Dirs \X Nat
  /\ \A d \in Dirs : <<d, Level[d]>> \in Items
  /\ NoNode \notin Nodes

VARIABLES
  wpc,      \* each worker: pop, scan, child, push, sub, signal, exit
  item,     \* its local WorkItem
  left,     \* entries directory_iterator has still to yield to it
  child,    \* the entry it is asking is_directory() of, or pushing
  pending,  \* std::atomic<int> pending_work
  results,  \* what was written to std::cout
  mpc,      \* main: eval, empty, wait, finish, join, done
  skipped,  \* history: entries is_ignored rejected
  failed    \* history: directories whose scan ended in filesystem_error

workerVars == <<wpc, item, left, child>>
vars == <<queueVars, workerVars, pending, results, mpc, skipped, failed>>

Found == {results[i] : i \in DOMAIN results}
InItem == {w \in Workers : wpc[w] \in {"scan", "child", "push", "sub"}}
\* Workers that counted a child in pending_work and have yet to push it.
Reserved == {w \in Workers : wpc[w] = "push"}

\* main has pushed the start directory; a thread that the operating system
\* has not started yet is one that has not reached pop.
Init ==
  /\ q = <<<<Root, 0>>>> /\ finished = FALSE /\ waiting = {}
  /\ wpc = [w \in Workers |-> "pop"]
  /\ item = [w \in Workers |-> <<Root, 0>>]
  /\ left = [w \in Workers |-> {}]
  /\ child = [w \in Workers |-> NoNode]
  /\ pending = 1
  /\ results = <<>>
  /\ mpc = "eval"
  /\ skipped = {}
  /\ failed = {}

-----------------------------------------------------------------------------
(* worker *)

PopItem(w) ==
  /\ wpc[w] = "pop"
  /\ \E i \in Items :
       /\ pop(w, i)
       /\ item' = [item EXCEPT ![w] = i]
       /\ left' = [left EXCEPT ![w] = Entries(i[1])]
  /\ wpc' = [wpc EXCEPT ![w] = "scan"]
  /\ UNCHANGED <<child, pending, results, mpc, skipped, failed>>

PopBlocks(w) ==
  /\ wpc[w] = "pop"
  /\ popBlocks(w)
  /\ UNCHANGED <<workerVars, pending, results, mpc, skipped, failed>>

PopWakes(w) ==
  /\ popWakes(w)
  /\ UNCHANGED <<workerVars, pending, results, mpc, skipped, failed>>

\* pop returned false: the loop and the thread end.
PopFinished(w) ==
  /\ wpc[w] = "pop"
  /\ popFinished(w)
  /\ wpc' = [wpc EXCEPT ![w] = "exit"]
  /\ UNCHANGED <<item, left, child, pending, results, mpc, skipped, failed>>

\* is_ignored returned true: continue.
SkipEntry(w, n) ==
  /\ wpc[w] = "scan"
  /\ n \in left[w]
  /\ TRUE \in is_ignored
  /\ left' = [left EXCEPT ![w] = @ \ {n}]
  /\ skipped' = skipped \cup {n}
  /\ UNCHANGED <<queueVars, wpc, item, child, pending, results, mpc, failed>>

Mutant_VisitEntry(w, n) ==
  /\ wpc[w] = "scan"
  /\ n \in left[w]
  /\ FALSE \in is_ignored
  /\ left' = [left EXCEPT ![w] = @ \ {n}]
  /\ results' = IF n \in Matching \ Dirs THEN Append(results, n) ELSE results
  /\ child' = [child EXCEPT ![w] = n]
  /\ wpc' = [wpc EXCEPT ![w] = "child"]
  /\ UNCHANGED <<queueVars, item, pending, mpc, skipped, failed>>

\* is_ignored returned false: print the entry under output_mtx if its name
\* matches.
VisitEntry(w, n) ==
  /\ wpc[w] = "scan"
  /\ n \in left[w]
  /\ FALSE \in is_ignored
  /\ left' = [left EXCEPT ![w] = @ \ {n}]
  /\ results' = IF n \in Matching THEN Append(results, n) ELSE results
  /\ child' = [child EXCEPT ![w] = n]
  /\ wpc' = [wpc EXCEPT ![w] = "child"]
  /\ UNCHANGED <<queueVars, item, pending, mpc, skipped, failed>>

IsChild(w) == child[w] \in Dirs /\ DepthAllows(item[w][2])

NoChild(w) ==
  /\ wpc[w] = "child"
  /\ ~IsChild(w)
  /\ wpc' = [wpc EXCEPT ![w] = "scan"]
  /\ UNCHANGED <<queueVars, item, left, child, pending, results, mpc, skipped, failed>>

Mutant_CountChild(w) ==
  /\ wpc[w] = "child"
  /\ IsChild(w)
  /\ wpc' = [wpc EXCEPT ![w] = "push"]
  /\ UNCHANGED <<queueVars, item, left, child, pending, results, mpc, skipped, failed>>

\* pending_work.fetch_add(1)
CountChild(w) ==
  /\ wpc[w] = "child"
  /\ IsChild(w)
  /\ pending' = pending + 1
  /\ wpc' = [wpc EXCEPT ![w] = "push"]
  /\ UNCHANGED <<queueVars, item, left, child, results, mpc, skipped, failed>>

PushChild(w) ==
  /\ wpc[w] = "push"
  /\ push(<<child[w], item[w][2] + 1>>)
  /\ wpc' = [wpc EXCEPT ![w] = "scan"]
  /\ UNCHANGED <<item, left, child, pending, results, mpc, skipped, failed>>

\* directory_iterator or is_directory throws; the subdirectories pushed
\* already stay pushed.
ScanFails(w) ==
  /\ wpc[w] \in {"scan", "child"}
  /\ item[w][1] \in Faulty
  /\ failed' = failed \cup {item[w][1]}
  /\ left' = [left EXCEPT ![w] = {}]
  /\ wpc' = [wpc EXCEPT ![w] = "sub"]
  /\ UNCHANGED <<queueVars, item, child, pending, results, mpc, skipped>>

ScanDone(w) ==
  /\ wpc[w] = "scan"
  /\ left[w] = {}
  /\ wpc' = [wpc EXCEPT ![w] = "sub"]
  /\ UNCHANGED <<queueVars, item, left, child, pending, results, mpc, skipped, failed>>

\* pending_work.fetch_sub(1)
CountDone(w) ==
  /\ wpc[w] = "sub"
  /\ pending' = pending - 1
  /\ wpc' = [wpc EXCEPT ![w] = "signal"]
  /\ UNCHANGED <<queueVars, item, left, child, results, mpc, skipped, failed>>

Mutant_Signal(w) ==
  /\ wpc[w] = "signal"
  /\ mpc # "empty"
  /\ mpc' = IF mpc = "wait" /\ waiting = {} THEN "eval" ELSE mpc
  /\ wpc' = [wpc EXCEPT ![w] = "pop"]
  /\ UNCHANGED <<queueVars, item, left, child, pending, results, skipped, failed>>

\* Lock worker_mtx, worker_cv.notify_all.
Signal(w) ==
  /\ wpc[w] = "signal"
  /\ mpc # "empty"
  /\ mpc' = IF mpc = "wait" THEN "eval" ELSE mpc
  /\ wpc' = [wpc EXCEPT ![w] = "pop"]
  /\ UNCHANGED <<queueVars, item, left, child, pending, results, skipped, failed>>

-----------------------------------------------------------------------------
(* main, in fd_search_enhanced *)

Mutant_EvalPending ==
  /\ mpc = "eval"
  /\ mpc' = IF pending <= 1 THEN "empty" ELSE "wait"
  /\ UNCHANGED <<queueVars, workerVars, pending, results, skipped, failed>>

\* With worker_mtx held: pending_work.load() == 0, or block.
EvalPending ==
  /\ mpc = "eval"
  /\ mpc' = IF pending = 0 THEN "empty" ELSE "wait"
  /\ UNCHANGED <<queueVars, workerVars, pending, results, skipped, failed>>

\* Still with worker_mtx held: dir_queue.empty(), or block.
EvalEmpty ==
  /\ mpc = "empty"
  /\ mpc' = IF empty THEN "finish" ELSE "wait"
  /\ UNCHANGED <<queueVars, workerVars, pending, results, skipped, failed>>

MainWakes ==
  /\ mpc = "wait"
  /\ mpc' = "eval"
  /\ UNCHANGED <<queueVars, workerVars, pending, results, skipped, failed>>

Finish ==
  /\ mpc = "finish"
  /\ set_finished
  /\ mpc' = "join"
  /\ UNCHANGED <<workerVars, pending, results, skipped, failed>>

Join ==
  /\ mpc = "join"
  /\ \A w \in Workers : wpc[w] = "exit"
  /\ mpc' = "done"
  /\ UNCHANGED <<queueVars, workerVars, pending, results, skipped, failed>>

-----------------------------------------------------------------------------
Work(w) ==
  \/ PopItem(w) \/ PopBlocks(w) \/ PopFinished(w)
  \/ \E n \in Nodes : SkipEntry(w, n) \/ VisitEntry(w, n)
  \/ NoChild(w) \/ CountChild(w) \/ PushChild(w)
  \/ ScanFails(w) \/ ScanDone(w) \/ CountDone(w) \/ Signal(w)

Main == EvalPending \/ EvalEmpty \/ Finish \/ Join

\* The program has ended.
Terminated == mpc = "done" /\ UNCHANGED vars

Next ==
  \/ \E w \in Workers : Work(w) \/ PopWakes(w)
  \/ Main \/ MainWakes
  \/ Terminated

Spec == Init /\ [][Next]_vars

\* Every thread is scheduled; no spurious wakeup is owed.
FairSpec == Spec /\ WF_vars(Main) /\ \A w \in Workers : WF_vars(Work(w))

-----------------------------------------------------------------------------
TypeOK ==
  /\ q \in Seq(Items)
  /\ finished \in BOOLEAN
  /\ waiting \subseteq {w \in Workers : wpc[w] = "pop"}
  /\ wpc \in [Workers -> {"pop", "scan", "child", "push", "sub", "signal", "exit"}]
  /\ item \in [Workers -> Items]
  /\ left \in [Workers -> SUBSET (Nodes \ {Root})]
  /\ child \in [Workers -> Nodes \cup {NoNode}]
  /\ pending \in Nat
  /\ results \in Seq(Matching)
  /\ mpc \in {"eval", "empty", "wait", "finish", "join", "done"}
  /\ skipped \subseteq Nodes \ {Root}
  /\ failed \subseteq Faulty

\* pending_work counts the directories queued, being processed, or about
\* to be queued (fd3.cpp:110, :120, :138).
PendingCounts == pending = Len(q) + Cardinality(InItem) + Cardinality(Reserved)

\* main sleeps with all the work done only while some worker still has to
\* take worker_mtx and notify it (fd3.cpp:119-126 against :166-170).
NoLostSignal == mpc = "wait" /\ pending = 0 => \E w \in Workers : wpc[w] = "signal"

\* set_finished is called when nothing is queued and nobody can push again
\* (fd3.cpp:169, :180).
QuietAtFinish ==
  mpc \in {"finish", "join", "done"} => q = <<>> /\ InItem = {} /\ Reserved = {}

\* No queued item is left to a sleeping worker alone (fd3.cpp:52-65).
NoSleepingOnWork ==
  waiting # {} => Len(q) <= Cardinality({w \in Workers : wpc[w] = "pop"} \ waiting)

\* The search ends and every worker is joined.
SearchEnds == <>(mpc = "done")

Search == INSTANCE FileSearch WITH
            found <- results, ended <- mpc \in {"finish", "join", "done"}

\* The threaded search prints what the recursive one would.
ImplementsSearch == Search!Spec
=============================================================================
