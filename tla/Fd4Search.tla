----------------------------- MODULE Fd4Search ------------------------------
(***************************************************************************)
(* fd/src/fd4.cpp: the directory search that runs on ThreadPool.  A task   *)
(* of the pool is a call of fd_search_threaded, <<dir, current_depth>>;    *)
(* main makes the first call itself and then polls active_tasks, the only  *)
(* thing that tells it the search is over.  Every step here is a step of   *)
(* the pool taken together with what the search does in it, or a step of   *)
(* the search that leaves the pool alone.                                  *)
(***************************************************************************)
EXTENDS ThreadPool, FileTree

ASSUME ItemsAssumption ==
  /\ Tasks \subseteq Dirs \X Nat
  /\ \A d \in Dirs : <<d, Level[d]>> \in Tasks

VARIABLES
  spc,      \* each thread in fd_search_threaded: off, scan, enq, push
  left,     \* entries directory_iterator has still to yield to it
  subdirs,  \* its local vector, as a set: the order of a scan is arbitrary
  active,   \* std::atomic<int> active_tasks
  results,  \* ResultCollector::results
  mpc,      \* main: search, poll, print, leave
  skipped,  \* history: entries is_ignored rejected
  failed    \* history: directories whose scan ended in filesystem_error

searchVars == <<spc, left, subdirs, active, results, mpc, skipped, failed>>
allVars == <<vars, searchVars>>

Item(t) == IF t = Owner THEN <<Root, 0>> ELSE task[t]

Found == {results[i] : i \in DOMAIN results}
Busy  == {t \in Threads : spc[t] # "off"}
\* Threads that counted a child in active_tasks and have not queued it yet.
Reserved == {t \in Threads : spc[t] = "enq" \/ epc[t] = "push"}

Fd4Init ==
  /\ Init
  /\ spc = [t \in Threads |-> IF t = Owner THEN "scan" ELSE "off"]
  /\ left = [t \in Threads |-> IF t = Owner THEN Entries(Root) ELSE {}]
  /\ subdirs = [t \in Threads |-> {}]
  /\ active = 1
  /\ results = <<>>
  /\ mpc = "search"
  /\ skipped = {}
  /\ failed = {}

-----------------------------------------------------------------------------
(* fd_search_threaded *)

\* is_ignored returned true: continue.
SkipEntry(t, n) ==
  /\ spc[t] = "scan"
  /\ n \in left[t]
  /\ TRUE \in is_ignored
  /\ left' = [left EXCEPT ![t] = @ \ {n}]
  /\ skipped' = skipped \cup {n}
  /\ UNCHANGED <<vars, spc, subdirs, active, results, mpc, failed>>

\* is_ignored returned false: report the entry under output_mtx if its name
\* matches, collect it if it is a directory within the depth.
VisitEntry(t, n) ==
  /\ spc[t] = "scan"
  /\ n \in left[t]
  /\ FALSE \in is_ignored
  /\ left' = [left EXCEPT ![t] = @ \ {n}]
  /\ results' = IF n \in Matching THEN Append(results, n) ELSE results
  /\ subdirs' = IF n \in Dirs /\ DepthAllows(Item(t)[2])
                THEN [subdirs EXCEPT ![t] = @ \cup {n}]
                ELSE subdirs
  /\ UNCHANGED <<vars, spc, active, mpc, skipped, failed>>

Mutant_ScanFails(t) ==
  /\ spc[t] = "scan"
  /\ Item(t)[1] \in Faulty
  /\ failed' = failed \cup {Item(t)[1]}
  /\ spc' = [spc EXCEPT ![t] = "off"]
  /\ left' = [left EXCEPT ![t] = {}]
  /\ subdirs' = [subdirs EXCEPT ![t] = {}]
  /\ mpc' = IF t = Owner THEN "poll" ELSE mpc
  /\ UNCHANGED <<vars, active, results, skipped>>

\* directory_iterator or is_directory throws filesystem_error: the catch
\* follows the try block that owned subdirs, so nothing of it is enqueued.
\* Throwing on an entry already reported is VisitEntry and then this.
ScanFails(t) ==
  /\ spc[t] = "scan"
  /\ Item(t)[1] \in Faulty
  /\ failed' = failed \cup {Item(t)[1]}
  /\ spc' = [spc EXCEPT ![t] = "spawn"]
  /\ left' = [left EXCEPT ![t] = {}]
  /\ subdirs' = [subdirs EXCEPT ![t] = {}]
  /\ UNCHANGED <<vars, active, results, mpc, skipped>>

ScanDone(t) ==
  /\ spc[t] = "scan"
  /\ left[t] = {}
  /\ spc' = [spc EXCEPT ![t] = "spawn"]
  /\ UNCHANGED <<vars, left, subdirs, active, results, mpc, skipped, failed>>

Mutant_CountChild(t) ==
  /\ spc[t] = "spawn"
  /\ subdirs[t] # {}
  /\ spc' = [spc EXCEPT ![t] = "enq"]
  /\ UNCHANGED <<vars, left, subdirs, active, results, mpc, skipped, failed>>

\* active_tasks.fetch_add(1), before the child is in the queue.
CountChild(t) ==
  /\ spc[t] = "spawn"
  /\ subdirs[t] # {}
  /\ active' = active + 1
  /\ spc' = [spc EXCEPT ![t] = "enq"]
  /\ UNCHANGED <<vars, left, subdirs, results, mpc, skipped, failed>>

Mutant_EnqueueChild(t, d) ==
  /\ spc[t] = "enq"
  /\ d \in subdirs[t]
  /\ EnqueueChecked(t, <<d, Item(t)[2]>>)
  /\ subdirs' = [subdirs EXCEPT ![t] = @ \ {d}]
  /\ spc' = [spc EXCEPT ![t] = "push"]
  /\ UNCHANGED <<left, active, results, mpc, skipped, failed>>

\* pool.enqueue(fd_search_threaded, subdir, ..., current_depth + 1), up to
\* the test of stop_; the pool's own steps do the rest.
EnqueueChild(t, d) ==
  /\ spc[t] = "enq"
  /\ d \in subdirs[t]
  /\ EnqueueChecked(t, <<d, Item(t)[2] + 1>>)
  /\ subdirs' = [subdirs EXCEPT ![t] = @ \ {d}]
  /\ spc' = [spc EXCEPT ![t] = "push"]
  /\ UNCHANGED <<left, active, results, mpc, skipped, failed>>

PushChild(t) ==
  /\ EnqueuePush(t)
  /\ UNCHANGED searchVars

EnqueueReturns(t) ==
  /\ NotifyOne(t)
  /\ spc' = [spc EXCEPT ![t] = "spawn"]
  /\ UNCHANGED <<left, subdirs, active, results, mpc, skipped, failed>>

\* active_tasks.fetch_sub(1), the last thing the function does; main goes
\* on to its polling loop, a worker back into the pool's.
Leave(t) ==
  /\ spc[t] = "spawn"
  /\ subdirs[t] = {}
  /\ active' = active - 1
  /\ spc' = [spc EXCEPT ![t] = "off"]
  /\ mpc' = IF t = Owner THEN "poll" ELSE mpc
  /\ UNCHANGED <<vars, left, subdirs, results, skipped, failed>>

-----------------------------------------------------------------------------
(* The pool's workers around it *)

StartItem(w) ==
  /\ TakeTask(w)
  /\ spc' = [spc EXCEPT ![w] = "scan"]
  /\ left' = [left EXCEPT ![w] = Entries(Head(tasks)[1])]
  /\ UNCHANGED <<subdirs, active, results, mpc, skipped, failed>>

FinishItem(w) ==
  /\ spc[w] = "off"
  /\ Finish(w)
  /\ UNCHANGED searchVars

Idle(w) ==
  /\ ExitWorker(w) \/ FindNothing(w) \/ Park(w)
  /\ UNCHANGED searchVars

Wake(w) ==
  /\ SpuriousWake(w)
  /\ UNCHANGED searchVars

-----------------------------------------------------------------------------
(* main *)

Mutant_PollDone ==
  /\ mpc = "poll"
  /\ active <= 1
  /\ mpc' = "print"
  /\ UNCHANGED <<vars, spc, left, subdirs, active, results, skipped, failed>>

\* active_tasks.load() > 0 is false: the loop ends.
PollDone ==
  /\ mpc = "poll"
  /\ active <= 0
  /\ mpc' = "print"
  /\ UNCHANGED <<vars, spc, left, subdirs, active, results, skipped, failed>>

\* print_results, then main returns: output_mtx and active_tasks, declared
\* after the pool, are destroyed before it.
PrintResults ==
  /\ mpc = "print"
  /\ mpc' = "leave"
  /\ UNCHANGED <<vars, spc, left, subdirs, active, results, skipped, failed>>

DestroyPool ==
  /\ mpc = "leave"
  /\ Dtor
  /\ UNCHANGED searchVars

-----------------------------------------------------------------------------
Scan(t) ==
  \/ \E n \in Nodes : SkipEntry(t, n) \/ VisitEntry(t, n)
  \/ ScanFails(t) \/ ScanDone(t)

Spawn(t) ==
  \/ CountChild(t) \/ PushChild(t) \/ EnqueueReturns(t) \/ Leave(t)
  \/ \E d \in Dirs : EnqueueChild(t, d)

Main == PollDone \/ PrintResults \/ DestroyPool

Fd4Next ==
  \/ \E t \in Threads : Scan(t) \/ Spawn(t)
  \/ \E w \in Workers : StartItem(w) \/ FinishItem(w) \/ Idle(w) \/ Wake(w)
  \/ Main

Fd4Spec == Fd4Init /\ [][Fd4Next]_allVars

\* Every thread is scheduled, every lock that is free often enough is
\* obtained, and spurious wakeups, if any, come to an end.
Fd4Fairness ==
  /\ \A t \in Threads : WF_allVars(Scan(t)) /\ WF_allVars(Spawn(t))
  /\ \A w \in Workers : WF_allVars(StartItem(w) \/ Idle(w)) /\ WF_allVars(FinishItem(w))
  /\ WF_allVars(Main)
  /\ <>[][\A w \in Workers : ~Wake(w)]_allVars

Fd4FairSpec == Fd4Spec /\ Fd4Fairness

-----------------------------------------------------------------------------
\* The types of the search's state; main is searching exactly while it scans or
\* spawns itself (fd4.cpp:214).
Fd4TypeOK ==
  /\ TypeOK
  /\ spc \in [Threads -> {"off", "scan", "spawn", "enq", "push"}]
  /\ left \in [Threads -> SUBSET (Nodes \ {Root})]
  /\ subdirs \in [Threads -> SUBSET Dirs]
  /\ active \in Nat
  /\ results \in Seq(Matching)
  /\ mpc \in {"search", "poll", "print", "leave"}
  /\ skipped \subseteq Nodes \ {Root}
  /\ failed \subseteq Faulty
  /\ mpc = "search" <=> spc[Owner] # "off"

\* active_tasks counts the calls of fd_search_threaded that run, wait in
\* the pool's queue, or are about to be put there: "Before you enqueue each
\* child, increment the counter. When the child finishes, it decrements."
\* (fd4.cpp:24-25, :146, :164).
ActiveCounts == active = Cardinality(Busy) + Len(tasks) + Cardinality(Reserved)

\* Once the polling loop ends nobody will touch active_tasks, output_mtx or
\* the collector again, which main is about to read and destroy, and the
\* pool never rejects a child (fd4.cpp:216-232, and the warning at :20).
QuietAfterPoll ==
  mpc \in {"print", "leave"} => Busy = {} /\ Reserved = {} /\ tasks = <<>>

\* main gets past its polling loop when the pool has a worker.
SearchPrints == <>(mpc = "leave")

\* "Check if a path matches any .gitignore rule" (fd4.cpp:72): what a rule
\* matches is not reported, and what is skipped is matched by a rule.
RulesObeyed == Found \cap Ignored = {} /\ skipped \subseteq Ignored

Search == INSTANCE FileSearch WITH
            found <- results, ended <- mpc \in {"print", "leave"}

\* The threaded search reports what the recursive one would.
ImplementsSearch == Search!Spec
=============================================================================
