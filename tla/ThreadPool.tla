----------------------------- MODULE ThreadPool -----------------------------
(***************************************************************************)
(* net/threadpool.h (and its copy in net/main2.cpp): worker threads that   *)
(* share a queue of closures under one mutex and one condition variable.   *)
(*                                                                         *)
(* A critical section is one step when nothing it reads can change under   *)
(* it; it is split where the destructor, which stores stop_ and notifies   *)
(* WITHOUT the mutex, can come between two of its instructions:            *)
(*   - a worker that found nothing to do still holds the mutex when it     *)
(*     goes to sleep on the condition variable (wpc = "park");             *)
(*   - enqueue reads stop_ before it pushes (epc = "push");                *)
(*   - notify_one runs after the mutex is released (epc = "notify").       *)
(***************************************************************************)
EXTENDS Naturals, Sequences, FiniteSets

CONSTANTS
  Workers,   \* the threads the constructor starts
  Owner,     \* the thread that owns the pool and runs its destructor
  Tasks,     \* submissions: a task is enqueued at most once
  NoTask,    \* the empty std::function
  NoThread   \* nobody holds queuemutex

ASSUME PoolAssumption ==
  /\ IsFiniteSet(Workers)
  /\ Owner \notin Workers
  /\ NoThread \notin Workers \cup {Owner}
  /\ NoTask \notin Tasks

VARIABLES
  tasks,       \* std::queue<std::function<void()>>
  stop_,       \* std::atomic<bool>
  queuemutex,  \* the thread that holds it, or NoThread
  wpc,         \* where each worker is: loop, park, wait, run, exit
  task,        \* the worker's local variable of that name
  epc,         \* where each thread is in enqueue: none, push, notify
  earg,        \* the task that enqueue call carries
  dpc,         \* the owner: live, notify, join, dead (destructor returned)
  submitted,   \* history: every task enqueue accepted
  done         \* history: every task a worker ran to its end

vars == <<tasks, stop_, queuemutex, wpc, task, epc, earg, dpc, submitted, done>>

Threads == Workers \cup {Owner}
Waiters == {w \in Workers : wpc[w] = "wait"}
Awake   == {w \in Workers : wpc[w] = "loop"}
Callers == {t \in Threads : epc[t] = "notify"}
Running == {w \in Workers : wpc[w] = "run"}

Init ==
  /\ tasks = <<>>
  /\ stop_ = FALSE
  /\ queuemutex = NoThread
  /\ wpc = [w \in Workers |-> "loop"]
  /\ task = [w \in Workers |-> NoTask]
  /\ epc = [t \in Threads |-> "none"]
  /\ earg = [t \in Threads |-> NoTask]
  /\ dpc = "live"
  /\ submitted = {}
  /\ done = {}

-----------------------------------------------------------------------------
(* The worker loop *)

Mutant_TakeTask_noPop(w) ==
  /\ wpc[w] = "loop"
  /\ queuemutex = NoThread
  /\ tasks # <<>>
  /\ task' = [task EXCEPT ![w] = Head(tasks)]
  /\ wpc' = [wpc EXCEPT ![w] = "run"]
  /\ UNCHANGED <<tasks, stop_, queuemutex, epc, earg, dpc, submitted, done>>

Mutant_TakeTask_newest(w) ==
  /\ wpc[w] = "loop"
  /\ queuemutex = NoThread
  /\ tasks # <<>>
  /\ task' = [task EXCEPT ![w] = tasks[Len(tasks)]]
  /\ tasks' = SubSeq(tasks, 1, Len(tasks) - 1)
  /\ wpc' = [wpc EXCEPT ![w] = "run"]
  /\ UNCHANGED <<stop_, queuemutex, epc, earg, dpc, submitted, done>>

\* Lock, predicate true, front and pop, unlock.  A stop_ stored meanwhile
\* does not change what the worker does, for the queue is not empty.
TakeTask(w) ==
  /\ wpc[w] = "loop"
  /\ queuemutex = NoThread
  /\ tasks # <<>>
  /\ task' = [task EXCEPT ![w] = Head(tasks)]
  /\ tasks' = Tail(tasks)
  /\ wpc' = [wpc EXCEPT ![w] = "run"]
  /\ UNCHANGED <<stop_, queuemutex, epc, earg, dpc, submitted, done>>

Mutant_ExitWorker(w) ==
  /\ wpc[w] = "loop"
  /\ queuemutex = NoThread
  /\ stop_
  /\ wpc' = [wpc EXCEPT ![w] = "exit"]
  /\ UNCHANGED <<tasks, stop_, queuemutex, task, epc, earg, dpc, submitted, done>>

\* Lock, predicate true because of stop_, nothing queued: the thread ends.
ExitWorker(w) ==
  /\ wpc[w] = "loop"
  /\ queuemutex = NoThread
  /\ tasks = <<>>
  /\ stop_
  /\ wpc' = [wpc EXCEPT ![w] = "exit"]
  /\ UNCHANGED <<tasks, stop_, queuemutex, task, epc, earg, dpc, submitted, done>>

\* Lock, predicate false: the worker is about to block, mutex still held.
FindNothing(w) ==
  /\ wpc[w] = "loop"
  /\ queuemutex = NoThread
  /\ tasks = <<>>
  /\ ~stop_
  /\ queuemutex' = w
  /\ wpc' = [wpc EXCEPT ![w] = "park"]
  /\ UNCHANGED <<tasks, stop_, task, epc, earg, dpc, submitted, done>>

\* condition.wait releases the mutex and blocks in one step.  It does not
\* look at the predicate again.
Park(w) ==
  /\ wpc[w] = "park"
  /\ wpc' = [wpc EXCEPT ![w] = "wait"]
  /\ queuemutex' = NoThread
  /\ UNCHANGED <<tasks, stop_, task, epc, earg, dpc, submitted, done>>

\* condition_variable::wait may return without a notification.
SpuriousWake(w) ==
  /\ wpc[w] = "wait"
  /\ wpc' = [wpc EXCEPT ![w] = "loop"]
  /\ UNCHANGED <<tasks, stop_, queuemutex, task, epc, earg, dpc, submitted, done>>

Mutant_Finish(w) ==
  /\ wpc[w] = "run"
  /\ epc[w] = "none"
  /\ done' = done \cup {task[w]}
  /\ wpc' = [wpc EXCEPT ![w] = "loop"]
  /\ UNCHANGED <<tasks, stop_, queuemutex, task, epc, earg, dpc, submitted>>

\* The closure returns, or throws an exception the worker catches.
Finish(w) ==
  /\ wpc[w] = "run"
  /\ epc[w] = "none"
  /\ done' = done \cup {task[w]}
  /\ task' = [task EXCEPT ![w] = NoTask]
  /\ wpc' = [wpc EXCEPT ![w] = "loop"]
  /\ UNCHANGED <<tasks, stop_, queuemutex, epc, earg, dpc, submitted>>

-----------------------------------------------------------------------------
(* enqueue, called by the owner before it destroys the pool or by a task *)

MayEnqueue(t) == IF t = Owner THEN dpc = "live" ELSE wpc[t] = "run"

Fresh(x) == x \notin submitted /\ \A t \in Threads : earg[t] # x

Mutant_EnqueueChecked(t, x) ==
  /\ MayEnqueue(t)
  /\ epc[t] = "none"
  /\ Fresh(x)
  /\ queuemutex = NoThread
  /\ queuemutex' = t
  /\ epc' = [epc EXCEPT ![t] = "push"]
  /\ earg' = [earg EXCEPT ![t] = x]
  /\ UNCHANGED <<tasks, stop_, wpc, task, dpc, submitted, done>>

\* Lock, stop_ is not set.
EnqueueChecked(t, x) ==
  /\ MayEnqueue(t)
  /\ epc[t] = "none"
  /\ Fresh(x)
  /\ queuemutex = NoThread
  /\ ~stop_
  /\ queuemutex' = t
  /\ epc' = [epc EXCEPT ![t] = "push"]
  /\ earg' = [earg EXCEPT ![t] = x]
  /\ UNCHANGED <<tasks, stop_, wpc, task, dpc, submitted, done>>

\* Lock, stop_ is set: runtime_error, which leaves the calling task and is
\* caught by the worker that runs it.  The owner calls no enqueue after its
\* destructor began, so only a task can meet this.
EnqueueRejected(w) ==
  /\ queuemutex = NoThread
  /\ stop_
  /\ Finish(w)

Mutant_EnqueuePush(t) ==
  /\ epc[t] = "push"
  /\ tasks' = Append(tasks, earg[t])
  /\ submitted' = submitted \cup {earg[t]}
  /\ queuemutex' = NoThread
  /\ epc' = [epc EXCEPT ![t] = IF tasks = <<>> THEN "notify" ELSE "none"]
  /\ earg' = [earg EXCEPT ![t] = NoTask]
  /\ UNCHANGED <<stop_, wpc, task, dpc, done>>

\* tasks.emplace, unlock.
EnqueuePush(t) ==
  /\ epc[t] = "push"
  /\ tasks' = Append(tasks, earg[t])
  /\ submitted' = submitted \cup {earg[t]}
  /\ queuemutex' = NoThread
  /\ epc' = [epc EXCEPT ![t] = "notify"]
  /\ earg' = [earg EXCEPT ![t] = NoTask]
  /\ UNCHANGED <<stop_, wpc, task, dpc, done>>

Mutant_NotifyOne(t) ==
  /\ epc[t] = "notify"
  /\ epc' = [epc EXCEPT ![t] = "none"]
  /\ UNCHANGED <<tasks, stop_, queuemutex, wpc, task, earg, dpc, submitted, done>>

\* Wakes one waiter, whichever the library picks; nobody if nobody waits.
NotifyOne(t) ==
  /\ epc[t] = "notify"
  /\ epc' = [epc EXCEPT ![t] = "none"]
  /\ \/ \E w \in Waiters : wpc' = [wpc EXCEPT ![w] = "loop"]
     \/ Waiters = {} /\ wpc' = wpc
  /\ UNCHANGED <<tasks, stop_, queuemutex, task, earg, dpc, submitted, done>>

-----------------------------------------------------------------------------
(* ~ThreadPool *)

\* stop_.store(true), the mutex not held.
DtorStop ==
  /\ dpc = "live"
  /\ epc[Owner] = "none"
  /\ stop_' = TRUE
  /\ dpc' = "notify"
  /\ UNCHANGED <<tasks, queuemutex, wpc, task, epc, earg, submitted, done>>

Mutant_DtorNotifyAll ==
  /\ dpc = "notify"
  /\ \/ \E w \in Waiters : wpc' = [wpc EXCEPT ![w] = "loop"]
     \/ Waiters = {} /\ wpc' = wpc
  /\ dpc' = "join"
  /\ UNCHANGED <<tasks, stop_, queuemutex, task, epc, earg, submitted, done>>

DtorNotifyAll ==
  /\ dpc = "notify"
  /\ wpc' = [w \in Workers |-> IF w \in Waiters THEN "loop" ELSE wpc[w]]
  /\ dpc' = "join"
  /\ UNCHANGED <<tasks, stop_, queuemutex, task, epc, earg, submitted, done>>

\* Every join has returned; the members are destroyed.
DtorJoin ==
  /\ dpc = "join"
  /\ \A w \in Workers : wpc[w] = "exit"
  /\ dpc' = "dead"
  /\ UNCHANGED <<tasks, stop_, queuemutex, wpc, task, epc, earg, submitted, done>>

-----------------------------------------------------------------------------
WorkerStep(w) == \/ TakeTask(w) \/ ExitWorker(w)
                 \/ FindNothing(w) \/ Park(w)

Enqueue(t) == \/ \E x \in Tasks : EnqueueChecked(t, x)
              \/ EnqueuePush(t) \/ NotifyOne(t)

Dtor == DtorStop \/ DtorNotifyAll \/ DtorJoin

Next ==
  \/ \E w \in Workers : \/ WorkerStep(w) \/ SpuriousWake(w)
                        \/ Finish(w) \/ EnqueueRejected(w)
  \/ \E t \in Threads : Enqueue(t)
  \/ Dtor

Spec == Init /\ [][Next]_vars

\* A thread that can run is scheduled, a closure returns.  Nobody is
\* obliged to call enqueue, and no spurious wakeup is owed.
Fairness ==
  /\ \A w \in Workers : WF_vars(WorkerStep(w)) /\ WF_vars(Finish(w))
  /\ \A t \in Threads : WF_vars(EnqueuePush(t)) /\ WF_vars(NotifyOne(t))
  /\ WF_vars(DtorNotifyAll) /\ WF_vars(DtorJoin)

FairSpec == Spec /\ Fairness

-----------------------------------------------------------------------------
\* Types; a worker holds a closure exactly while it runs it, so what the
\* closure captured is gone when the worker goes to wait (threadpool.h:26).
TypeOK ==
  /\ tasks \in Seq(Tasks)
  /\ stop_ \in BOOLEAN
  /\ queuemutex \in Threads \cup {NoThread}
  /\ wpc \in [Workers -> {"loop", "park", "wait", "run", "exit"}]
  /\ task \in [Workers -> Tasks \cup {NoTask}]
  /\ epc \in [Threads -> {"none", "push", "notify"}]
  /\ earg \in [Threads -> Tasks \cup {NoTask}]
  /\ dpc \in {"live", "notify", "join", "dead"}
  /\ submitted \subseteq Tasks
  /\ done \subseteq Tasks
  /\ \A w \in Workers : task[w] = NoTask <=> wpc[w] # "run"
  /\ \A t \in Threads : earg[t] = NoTask <=> epc[t] # "push"

\* No lost wakeup: while some worker sleeps, every queued task has a worker
\* of its own on the way to it, awake or about to be notified
\* (threadpool.h:28-31 against the notify_one after the unlock at :70).
NoLostWakeup ==
  Waiters # {} => Len(tasks) <= Cardinality(Awake) + Cardinality(Callers)

\* Every accepted task is in one place only: once in the queue, or with one
\* worker, or done (threadpool.h:33-34 take and pop, :68 emplace).
ExactlyOnePlace ==
  /\ submitted = done \cup {tasks[i] : i \in DOMAIN tasks} \cup {task[w] : w \in Running}
  /\ \A i, j \in DOMAIN tasks : tasks[i] = tasks[j] => i = j
  /\ \A v, w \in Running : task[v] = task[w] => v = w
  /\ \A w \in Running : task[w] \notin done
  /\ \A i \in DOMAIN tasks : tasks[i] \notin done /\ \A w \in Running : tasks[i] # task[w]

\* A pool that had a worker is destroyed only with its queue drained: tasks
\* a running task managed to add after stop_ are run too (threadpool.h:32).
DrainedWhenDead ==
  Workers # {} /\ dpc = "dead" => tasks = <<>> /\ done = submitted

\* The first moment the mutex is free after stop_ was stored closes the
\* intake for good: whoever holds it then may still push one task, nobody
\* after it (threadpool.h:67, whose test and push share a critical section,
\* against the store at :47, which is outside every critical section).
IntakeCloses ==
  [][stop_ /\ queuemutex = NoThread =>
       queuemutex' = NoThread /\ submitted' = submitted]_vars

\* An accepted task is eventually run (threadpool.h:64-71 and the loop),
\* whether or not the destructor has started meanwhile.
AcceptedTaskRuns == \A x \in Tasks : x \in submitted ~> x \in done

\* The destructor, once begun, returns: "Wait for task or stop signal"
\* (net/main2.cpp:189) says a sleeping worker sees the stop signal.
DestructorReturns == stop_ ~> dpc = "dead"

\* The destructor hangs in one way only: after it stored stop_ and before
\* notify_all ran, a worker stood between its predicate and its block
\* (threadpool.h:29-31 against :47-48).  If none did at any moment of that
\* time, the destructor returns, whatever is queued or running.
HangsOnlyInTheWindow ==
  [](dpc = "notify" => \A w \in Workers : wpc[w] # "park") => DestructorReturns

\* The pool implements the abstract executor: first come first started,
\* one worker each, gone only when quiet.
Phase == CASE dpc = "live" -> "open"
           [] dpc \in {"notify", "join"} -> "closing"
           [] OTHER -> "closed"

Executor == INSTANCE TaskExecutor WITH
              queue <- tasks, slot <- task, finished <- done, phase <- Phase

ImplementsExecutor == Executor!Spec
=============================================================================
