-------------------------- MODULE ThreadPool_proofs --------------------------
(***************************************************************************)
(* What holds of ThreadPool for every set of workers and every set of      *)
(* tasks.                                                                  *)
(***************************************************************************)
EXTENDS ThreadPool, FiniteSetTheorems, TLAPS

\* Who is inside a split critical section holds the mutex, and only they do;
\* only a live owner and a running task are inside enqueue.
MutexHeld ==
  /\ \A t \in Threads : queuemutex = t <=>
       \/ epc[t] = "push"
       \/ t \in Workers /\ wpc[t] = "park"
  /\ \A w \in Workers : epc[w] # "none" => wpc[w] = "run"
  /\ epc[Owner] # "none" => dpc = "live"

\* What each place in the protocol knows of the shared state.
Locals ==
  /\ stop_ <=> dpc # "live"
  /\ \A w \in Workers : wpc[w] = "park" => tasks = <<>>
  /\ \A w \in Workers : wpc[w] = "exit" => stop_
  /\ \A t \in Threads : epc[t] = "push" => earg[t] \notin submitted
  /\ dpc = "dead" => \A w \in Workers : wpc[w] = "exit"

\* Somebody is left to run what is queued.
SomebodyLeft ==
  Workers # {} /\ tasks # <<>> => \E w \in Workers : wpc[w] # "exit"

IInv == TypeOK /\ MutexHeld /\ Locals /\ SomebodyLeft

USE PoolAssumption

-----------------------------------------------------------------------------
\* The constructor's state is well typed (threadpool.h:16-24).
LEMMA InitTypes == Init => TypeOK
<1>1. <<>> \in Seq(Tasks)
  OBVIOUS
<1> QED
  BY <1>1 DEF Init, TypeOK

\* Every step keeps the types (threadpool.h:22-71).
LEMMA StepTypes == TypeOK /\ [Next]_vars => TypeOK'
<1> SUFFICES ASSUME TypeOK, [Next]_vars PROVE TypeOK'
  OBVIOUS
<1>1. ASSUME NEW w \in Workers, TakeTask(w) PROVE TypeOK'
  <2>1. Head(tasks) \in Tasks /\ Tail(tasks) \in Seq(Tasks)
    BY <1>1 DEF TypeOK, TakeTask
  <2> QED
    BY <1>1, <2>1 DEF TypeOK, TakeTask
<1>2. ASSUME NEW w \in Workers, ExitWorker(w) PROVE TypeOK'
  BY <1>2 DEF TypeOK, ExitWorker
<1>3. ASSUME NEW w \in Workers, FindNothing(w) PROVE TypeOK'
  BY <1>3 DEF TypeOK, FindNothing, Threads
<1>4. ASSUME NEW w \in Workers, Park(w) PROVE TypeOK'
  BY <1>4 DEF TypeOK, Park
<1>5. ASSUME NEW w \in Workers, SpuriousWake(w) PROVE TypeOK'
  BY <1>5 DEF TypeOK, SpuriousWake
<1>6. ASSUME NEW w \in Workers, Finish(w) PROVE TypeOK'
  <2>1. task[w] \in Tasks
    BY <1>6 DEF TypeOK, Finish
  <2> QED
    BY <1>6, <2>1 DEF TypeOK, Finish
<1>7. ASSUME NEW t \in Threads, NEW x \in Tasks, EnqueueChecked(t, x)
      PROVE  TypeOK'
  BY <1>7 DEF TypeOK, EnqueueChecked
<1>8. ASSUME NEW t \in Threads, EnqueuePush(t) PROVE TypeOK'
  BY <1>8 DEF TypeOK, EnqueuePush
<1>9. ASSUME NEW t \in Threads, NotifyOne(t) PROVE TypeOK'
  BY <1>9 DEF TypeOK, NotifyOne, Waiters
<1>10. ASSUME Dtor PROVE TypeOK'
  BY <1>10 DEF TypeOK, Dtor, DtorStop, DtorNotifyAll, DtorJoin, Waiters
<1>11. CASE UNCHANGED vars
  BY <1>11 DEF TypeOK, vars
<1> QED
  BY <1>1, <1>2, <1>3, <1>4, <1>5, <1>6, <1>7, <1>8, <1>9, <1>10, <1>11
     DEF Next, WorkerStep, Enqueue, EnqueueRejected

\* Type correctness of the pool: the state keeps its types, and a worker
\* holds a closure exactly while it runs it.
THEOREM TypeCorrect == Spec => []TypeOK
  BY InitTypes, StepTypes, PTL DEF Spec

-----------------------------------------------------------------------------
\* Every step of the pool keeps the protocol (threadpool.h:22-71).
LEMMA StepInv == IInv /\ [Next]_vars => IInv'
<1> SUFFICES ASSUME IInv, [Next]_vars PROVE IInv'
  OBVIOUS
<1> USE DEF IInv, TypeOK, MutexHeld, Locals, SomebodyLeft, Threads
<1>0. TypeOK'
  BY StepTypes
<1>1. ASSUME NEW w \in Workers, TakeTask(w) PROVE IInv'
  BY <1>1, <1>0 DEF TakeTask
<1>2. ASSUME NEW w \in Workers, ExitWorker(w) PROVE IInv'
  BY <1>2, <1>0 DEF ExitWorker
<1>3. ASSUME NEW w \in Workers, FindNothing(w) PROVE IInv'
  BY <1>3, <1>0 DEF FindNothing
<1>4. ASSUME NEW w \in Workers, Park(w) PROVE IInv'
  BY <1>4, <1>0 DEF Park
<1>5. ASSUME NEW w \in Workers, SpuriousWake(w) PROVE IInv'
  BY <1>5, <1>0 DEF SpuriousWake
<1>6. ASSUME NEW w \in Workers, Finish(w) PROVE IInv'
  BY <1>6, <1>0 DEF Finish
<1>7. ASSUME NEW t \in Threads, NEW x \in Tasks, EnqueueChecked(t, x) PROVE IInv'
  BY <1>7, <1>0 DEF EnqueueChecked, MayEnqueue, Fresh
<1>8. ASSUME NEW t \in Threads, EnqueuePush(t) PROVE IInv'
  BY <1>8, <1>0 DEF EnqueuePush
<1>9. ASSUME NEW t \in Threads, NotifyOne(t) PROVE IInv'
  BY <1>9, <1>0 DEF NotifyOne, Waiters
<1>10. ASSUME DtorStop PROVE IInv'
  BY <1>10, <1>0 DEF DtorStop
<1>11. ASSUME DtorNotifyAll PROVE IInv'
  BY <1>11, <1>0 DEF DtorNotifyAll, Waiters
<1>12. ASSUME DtorJoin PROVE IInv'
  BY <1>12, <1>0 DEF DtorJoin
<1>13. CASE UNCHANGED vars
  BY <1>13 DEF vars
<1> QED
  BY <1>1, <1>2, <1>3, <1>4, <1>5, <1>6, <1>7, <1>8, <1>9, <1>10, <1>11, <1>12, <1>13
     DEF Next, WorkerStep, Enqueue, EnqueueRejected, Dtor

\* The protocol of the pool (threadpool.h:22-71): who holds the mutex, what
\* each place knows of stop_ and of the queue, and that an exiting worker
\* never leaves the last task behind.
THEOREM Invariance == Spec => []IInv
<1>1. Init => IInv
  <2> SUFFICES ASSUME Init PROVE IInv
    OBVIOUS
  <2>1. TypeOK
    BY InitTypes
  <2> QED
    BY <2>1 DEF Init, IInv, MutexHeld, Locals, SomebodyLeft, Threads
<1> QED
  BY <1>1, StepInv, PTL DEF Spec
-----------------------------------------------------------------------------
\* Every step keeps each accepted task in exactly one place
\* (threadpool.h:33-34, :37, :68).
LEMMA StepPlaces == IInv /\ IInv' /\ ExactlyOnePlace /\ [Next]_vars => ExactlyOnePlace'
<1> SUFFICES ASSUME IInv, IInv', ExactlyOnePlace, [Next]_vars PROVE ExactlyOnePlace'
  OBVIOUS
<1> USE DEF IInv, ExactlyOnePlace, Running
<1>1. ASSUME NEW w \in Workers, TakeTask(w) PROVE ExactlyOnePlace'
  <2>1. /\ Head(tasks) = tasks[1]
        /\ DOMAIN tasks = 1..Len(tasks)
        /\ Len(tasks) \in Nat \ {0}
        /\ DOMAIN Tail(tasks) = 1..(Len(tasks) - 1)
        /\ \A i \in DOMAIN Tail(tasks) : Tail(tasks)[i] = tasks[i + 1]
    BY <1>1 DEF TypeOK, TakeTask
  <2>2. Running' = Running \cup {w} /\ w \notin Running
    BY <1>1 DEF TypeOK, TakeTask
  <2>3. \A v \in Running : task'[v] = task[v]
    BY <1>1, <2>2 DEF TypeOK, TakeTask
  <2>4. task'[w] = tasks[1] /\ done' = done /\ submitted' = submitted /\ tasks' = Tail(tasks)
    BY <1>1, <2>1 DEF TypeOK, TakeTask
  <2>5. {tasks[i] : i \in DOMAIN tasks}
          = {tasks[1]} \cup {tasks'[i] : i \in DOMAIN tasks'}
    <3>1. ASSUME NEW i \in DOMAIN tasks, i # 1
          PROVE  i - 1 \in DOMAIN Tail(tasks) /\ Tail(tasks)[i - 1] = tasks[i]
      BY <2>1, <3>1
    <3>2. ASSUME NEW i \in DOMAIN Tail(tasks)
          PROVE  i + 1 \in DOMAIN tasks /\ Tail(tasks)[i] = tasks[i + 1]
      BY <2>1, <3>2
    <3>3. 1 \in DOMAIN tasks
      BY <2>1
    <3> DEFINE q == Tail(tasks)
    <3>4. tasks' = q
      BY <2>4
    <3>5. {tasks[i] : i \in DOMAIN tasks} = {tasks[1]} \cup {q[i] : i \in DOMAIN q}
      <4> HIDE DEF q
      <4>1. \A i \in DOMAIN tasks : i # 1 => i - 1 \in DOMAIN q /\ q[i - 1] = tasks[i]
        BY <3>1 DEF q
      <4>2. \A i \in DOMAIN q : i + 1 \in DOMAIN tasks /\ q[i] = tasks[i + 1]
        BY <3>2 DEF q
      <4> QED
        BY <3>3, <4>1, <4>2
    <3> QED
      BY <3>4, <3>5
  <2>6. {task'[v] : v \in Running'} = {task[v] : v \in Running} \cup {tasks[1]}
    BY <2>2, <2>3, <2>4
  <2>7. submitted' = done' \cup {tasks'[i] : i \in DOMAIN tasks'} \cup {task'[v] : v \in Running'}
    <3> DEFINE queued  == {tasks[i] : i \in DOMAIN tasks}
               queuedN == {tasks'[i] : i \in DOMAIN tasks'}
               runs    == {task[v] : v \in Running}
               runsN   == {task'[v] : v \in Running'}
    <3>1. queued = {tasks[1]} \cup queuedN /\ runsN = runs \cup {tasks[1]}
      BY <2>5, <2>6
    <3>2. submitted = done \cup queued \cup runs /\ done' = done /\ submitted' = submitted
      BY <2>4
    <3> HIDE DEF queued, queuedN, runs, runsN
    <3>3. submitted' = done' \cup queuedN \cup runsN
      BY <3>1, <3>2
    <3> QED
      BY <3>3 DEF queuedN, runsN
  <2>8. \A i, j \in DOMAIN tasks' : tasks'[i] = tasks'[j] => i = j
    BY <2>1, <2>4
  <2>9. \A u, v \in Running' : task'[u] = task'[v] => u = v
    BY <2>1, <2>2, <2>3, <2>4
  <2>10. \A v \in Running' : task'[v] \notin done'
    BY <2>1, <2>2, <2>3, <2>4
  <2>11. \A i \in DOMAIN tasks' : tasks'[i] \notin done' /\ \A v \in Running' : tasks'[i] # task'[v]
    BY <2>1, <2>2, <2>3, <2>4
  <2> QED
    BY <2>7, <2>8, <2>9, <2>10, <2>11
<1>2. ASSUME NEW w \in Workers, Finish(w) PROVE ExactlyOnePlace'
  BY <1>2 DEF TypeOK, Finish
<1>3. ASSUME NEW t \in Threads, EnqueuePush(t) PROVE ExactlyOnePlace'
  <2>1. /\ tasks' = Append(tasks, earg[t])
        /\ DOMAIN tasks = 1..Len(tasks) /\ Len(tasks) \in Nat
        /\ DOMAIN tasks' = 1..(Len(tasks) + 1)
        /\ \A i \in DOMAIN tasks : tasks'[i] = tasks[i]
        /\ tasks'[Len(tasks) + 1] = earg[t]
    BY <1>3 DEF TypeOK, EnqueuePush
  <2>2. earg[t] \notin submitted
    BY <1>3 DEF Locals, EnqueuePush
  <2>3. /\ submitted' = submitted \cup {earg[t]}
        /\ done' = done /\ task' = task /\ wpc' = wpc
    BY <1>3 DEF EnqueuePush
  <2>4. {tasks'[i] : i \in DOMAIN tasks'} = {tasks[i] : i \in DOMAIN tasks} \cup {earg[t]}
    BY <2>1
  <2>5. Running' = Running
    BY <2>3
  <2>6. submitted' = done' \cup {tasks'[i] : i \in DOMAIN tasks'} \cup {task'[v] : v \in Running'}
    <3> DEFINE queued  == {tasks[i] : i \in DOMAIN tasks}
               queuedN == {tasks'[i] : i \in DOMAIN tasks'}
               runs    == {task[v] : v \in Running}
               runsN   == {task'[v] : v \in Running'}
    <3>1. queuedN = queued \cup {earg[t]} /\ runsN = runs
      BY <2>3, <2>4, <2>5
    <3>2. submitted = done \cup queued \cup runs
      OBVIOUS
    <3> HIDE DEF queued, queuedN, runs, runsN
    <3>3. submitted' = done' \cup queuedN \cup runsN
      BY <2>3, <3>1, <3>2
    <3> QED
      BY <3>3 DEF queuedN, runsN
  <2>7. \A i \in DOMAIN tasks : tasks[i] # earg[t]
    BY <2>2
  <2>8. \A i, j \in DOMAIN tasks' : tasks'[i] = tasks'[j] => i = j
    BY <2>1, <2>7
  <2>9. \A v \in Running' : task'[v] \notin done'
    BY <2>3, <2>5
  <2>10. \A u, v \in Running' : task'[u] = task'[v] => u = v
    BY <2>3, <2>5
  <2>11. \A i \in DOMAIN tasks' : tasks'[i] \notin done' /\ \A v \in Running' : tasks'[i] # task'[v]
    BY <2>1, <2>2, <2>3, <2>5
  <2> QED
    BY <2>6, <2>8, <2>9, <2>10, <2>11
<1>4. ASSUME UNCHANGED <<tasks, task, submitted, done>>, Running' = Running
      PROVE  ExactlyOnePlace'
  BY <1>4
<1>5. ASSUME NEW w \in Workers, \/ ExitWorker(w) \/ FindNothing(w) \/ Park(w) \/ SpuriousWake(w)
      PROVE  ExactlyOnePlace'
  BY <1>4, <1>5 DEF TypeOK, ExitWorker, FindNothing, Park, SpuriousWake
<1>6. ASSUME NEW t \in Threads, (\E x \in Tasks : EnqueueChecked(t, x)) \/ NotifyOne(t)
      PROVE  ExactlyOnePlace'
  BY <1>4, <1>6 DEF TypeOK, EnqueueChecked, NotifyOne, Waiters
<1>7. ASSUME Dtor \/ UNCHANGED vars PROVE ExactlyOnePlace'
  BY <1>4, <1>7 DEF TypeOK, Dtor, DtorStop, DtorNotifyAll, DtorJoin, Waiters, vars
<1> QED
  BY <1>1, <1>2, <1>3, <1>5, <1>6, <1>7 DEF Next, WorkerStep, Enqueue, EnqueueRejected

\* No accepted task is lost, duplicated or run twice.
THEOREM Places == Spec => []ExactlyOnePlace
<1>1. Init => ExactlyOnePlace
  BY DEF Init, ExactlyOnePlace, Running
<1> QED
  BY <1>1, StepPlaces, Invariance, PTL DEF Spec

\* The destructor returns only when every accepted task has been run
\* (threadpool.h:32 and :46-54).
THEOREM Drained == Spec => []DrainedWhenDead
<1>1. IInv /\ ExactlyOnePlace => DrainedWhenDead
  <2> SUFFICES ASSUME IInv, ExactlyOnePlace, Workers # {}, dpc = "dead"
               PROVE  tasks = <<>> /\ done = submitted
    BY DEF DrainedWhenDead
  <2>1. \A w \in Workers : wpc[w] = "exit"
    BY DEF IInv, Locals
  <2>2. tasks = <<>>
    BY <2>1 DEF IInv, SomebodyLeft
  <2>3. Running = {} /\ DOMAIN tasks = {}
    BY <2>1, <2>2 DEF Running
  <2> QED
    BY <2>2, <2>3 DEF ExactlyOnePlace
<1> QED
  BY <1>1, Invariance, Places, PTL

\* Once stop_ is stored, the intake closes with the first release of the
\* mutex (threadpool.h:47 against :66-69).
THEOREM Intake == Spec => IntakeCloses
<1>1. IInv /\ [Next]_vars =>
        [stop_ /\ queuemutex = NoThread => queuemutex' = NoThread /\ submitted' = submitted]_vars
  <2> SUFFICES ASSUME IInv, Next, stop_, queuemutex = NoThread
               PROVE  queuemutex' = NoThread /\ submitted' = submitted
    OBVIOUS
  <2>1. \A t \in Threads : epc[t] # "push"
    BY DEF IInv, MutexHeld, Threads
  <2> QED
    BY <2>1 DEF Next, WorkerStep, TakeTask, ExitWorker, FindNothing, Park, SpuriousWake,
       Finish, EnqueueRejected, Enqueue, EnqueueChecked, EnqueuePush, NotifyOne,
       Dtor, DtorStop, DtorNotifyAll, DtorJoin
<1> QED
  BY <1>1, Invariance, PTL DEF Spec, IntakeCloses

-----------------------------------------------------------------------------
LEMMA FiniteParts ==
  /\ IsFiniteSet(Awake) /\ Cardinality(Awake) \in Nat
  /\ IsFiniteSet(Callers) /\ Cardinality(Callers) \in Nat
  /\ IsFiniteSet(Awake') /\ Cardinality(Awake') \in Nat
  /\ IsFiniteSet(Callers') /\ Cardinality(Callers') \in Nat
<1>1. IsFiniteSet(Threads)
  BY FS_AddElement DEF Threads
<1>2. /\ Awake \in SUBSET Workers /\ Awake' \in SUBSET Workers
      /\ Callers \in SUBSET Threads /\ Callers' \in SUBSET Threads
  BY DEF Awake, Callers, Threads
<1> QED
  BY <1>1, <1>2, FS_Subset, FS_CardinalityType

\* Every step leaves a worker, awake or about to be notified, for each
\* queued task as long as some worker sleeps (threadpool.h:28-34, :64-71).
LEMMA StepWakeups == IInv /\ IInv' /\ NoLostWakeup /\ [Next]_vars => NoLostWakeup'
<1> SUFFICES ASSUME IInv, IInv', NoLostWakeup, [Next]_vars, Waiters' # {}
             PROVE  Len(tasks') <= Cardinality(Awake') + Cardinality(Callers')
  BY DEF NoLostWakeup
<1> DEFINE a == Cardinality(Awake)
           c == Cardinality(Callers)
           aN == Cardinality(Awake')
           cN == Cardinality(Callers')
<1>t. TypeOK /\ Len(tasks) \in Nat /\ Len(tasks') \in Nat
  BY DEF IInv, TypeOK
<1>n. a \in Nat /\ c \in Nat /\ aN \in Nat /\ cN \in Nat
  BY FiniteParts
<1> HIDE DEF a, c, aN, cN
<1> SUFFICES Len(tasks') <= aN + cN
  BY DEF aN, cN
<1>s. ASSUME Waiters # {} PROVE Len(tasks) <= a + c
  BY <1>s DEF NoLostWakeup, a, c
<1>1. ASSUME NEW w \in Workers, TakeTask(w) PROVE Len(tasks') <= aN + cN
  <2>1. Waiters' = Waiters /\ Awake' = Awake \ {w} /\ w \in Awake /\ Callers' = Callers
    BY <1>1, <1>t DEF TakeTask, TypeOK, Waiters, Awake, Callers
  <2>2. aN = a - 1 /\ cN = c
    BY <2>1, FiniteParts, FS_RemoveElement DEF a, c, aN, cN
  <2>3. Len(tasks') = Len(tasks) - 1
    BY <1>1, <1>t DEF TakeTask, TypeOK
  <2> QED
    BY <2>1, <2>2, <2>3, <1>s, <1>n, <1>t
<1>2. ASSUME tasks' = <<>> PROVE Len(tasks') <= aN + cN
  BY <1>2, <1>n
<1>3. ASSUME NEW w \in Workers, ExitWorker(w) \/ FindNothing(w) \/ Park(w)
      PROVE  tasks' = <<>>
  BY <1>3 DEF ExitWorker, FindNothing, Park, IInv, Locals
<1>4. ASSUME NEW w \in Workers, SpuriousWake(w) \/ Finish(w)
      PROVE  Len(tasks') <= aN + cN
  <2>1. /\ Waiters' \subseteq Waiters /\ tasks' = tasks /\ Callers' = Callers
        /\ Awake' = Awake \cup {w} /\ w \notin Awake
    BY <1>4, <1>t DEF SpuriousWake, Finish, TypeOK, Waiters, Awake, Callers
  <2>2. aN = a + 1 /\ cN = c
    BY <2>1, FiniteParts, FS_AddElement DEF a, c, aN, cN
  <2> QED
    BY <2>1, <2>2, <1>s, <1>n, <1>t
<1>5. ASSUME Waiters' = Waiters, Awake' = Awake, Callers' = Callers, tasks' = tasks
      PROVE  Len(tasks') <= aN + cN
  BY <1>5, <1>s DEF a, c, aN, cN
<1>6. ASSUME NEW t \in Threads, NEW x \in Tasks, EnqueueChecked(t, x)
      PROVE  Len(tasks') <= aN + cN
  BY <1>5, <1>6, <1>t DEF EnqueueChecked, TypeOK, Waiters, Awake, Callers
<1>7. ASSUME NEW t \in Threads, EnqueuePush(t) PROVE Len(tasks') <= aN + cN
  <2>1. /\ Waiters' = Waiters /\ Awake' = Awake
        /\ Callers' = Callers \cup {t} /\ t \notin Callers
    BY <1>7, <1>t DEF EnqueuePush, TypeOK, Waiters, Awake, Callers
  <2>2. aN = a /\ cN = c + 1
    BY <2>1, FiniteParts, FS_AddElement DEF a, c, aN, cN
  <2>3. Len(tasks') = Len(tasks) + 1
    BY <1>7, <1>t DEF EnqueuePush, TypeOK
  <2> QED
    BY <2>1, <2>2, <2>3, <1>s, <1>n, <1>t
<1>8. ASSUME NEW t \in Threads, NotifyOne(t) PROVE Len(tasks') <= aN + cN
  <2>1. Waiters # {} /\ tasks' = tasks
    BY <1>8 DEF NotifyOne, Waiters
  <2>2. PICK w \in Waiters : wpc' = [wpc EXCEPT ![w] = "loop"]
    BY <1>8, <2>1 DEF NotifyOne
  <2>3. /\ Awake' = Awake \cup {w} /\ w \notin Awake
        /\ Callers' = Callers \ {t} /\ t \in Callers
    BY <1>8, <1>t, <2>2 DEF NotifyOne, TypeOK, Waiters, Awake, Callers
  <2>4. aN = a + 1 /\ cN = c - 1
    BY <2>3, FiniteParts, FS_AddElement, FS_RemoveElement DEF a, c, aN, cN
  <2> QED
    BY <2>1, <2>4, <1>s, <1>n, <1>t
<1>9. ASSUME DtorNotifyAll PROVE FALSE
  BY <1>9, <1>t DEF DtorNotifyAll, TypeOK, Waiters
<1>10. ASSUME DtorStop \/ DtorJoin \/ UNCHANGED vars PROVE Len(tasks') <= aN + cN
  BY <1>5, <1>10 DEF DtorStop, DtorJoin, vars, Waiters, Awake, Callers
<1> QED
  BY <1>1, <1>2, <1>3, <1>4, <1>6, <1>7, <1>8, <1>9, <1>10
     DEF Next, WorkerStep, Enqueue, EnqueueRejected, Dtor

\* No wakeup of enqueue is ever lost, however many workers sleep.
THEOREM Wakeups == Spec => []NoLostWakeup
<1>1. Init => NoLostWakeup
  BY DEF Init, NoLostWakeup, Waiters
<1> QED
  BY <1>1, StepWakeups, Invariance, PTL DEF Spec

-----------------------------------------------------------------------------
\* A step of the pool is a step of the executor, or invisible to it.
LEMMA StepRefines ==
  ASSUME Workers # {}, IInv, IInv', ExactlyOnePlace, DrainedWhenDead', [Next]_vars
  PROVE  [Executor!Next]_(Executor!vars)
<1> USE DEF Executor!vars, Phase
<1>t. TypeOK
  BY DEF IInv
<1>1. ASSUME NEW w \in Workers, TakeTask(w) PROVE Executor!Start(w)
  BY <1>1, <1>t DEF TakeTask, TypeOK, Executor!Start
<1>2. ASSUME NEW w \in Workers, Finish(w) PROVE Executor!Finish(w)
  BY <1>2, <1>t DEF Finish, TypeOK, Executor!Finish
<1>3. ASSUME NEW t \in Threads, EnqueuePush(t) PROVE \E x \in Tasks : Executor!Submit(x)
  <2>1. earg[t] \in Tasks /\ earg[t] \notin submitted
    BY <1>3, <1>t DEF IInv, Locals, EnqueuePush, TypeOK
  <2>2. earg[t] \notin Executor!Queued \cup Executor!Running \cup done
    <3>1. Executor!Running \subseteq {task[w] : w \in Running}
      BY <1>t DEF Executor!Running, Running, TypeOK
    <3> QED
      BY <2>1, <3>1 DEF ExactlyOnePlace, Executor!Queued
  <2>3. Phase = "open" \/ (Phase = "closing" /\ ~Executor!Quiet)
    <3>1. CASE t = Owner
      BY <1>3, <3>1 DEF IInv, MutexHeld, EnqueuePush
    <3>2. CASE t \in Workers
      <4>1. wpc[t] = "run"
        BY <1>3, <3>2 DEF IInv, MutexHeld, EnqueuePush
      <4>2. ~Executor!Quiet
        BY <1>t, <3>2, <4>1 DEF TypeOK, Executor!Quiet
      <4>3. dpc # "dead"
        BY <3>2, <4>1 DEF IInv, Locals
      <4> QED
        BY <1>t, <4>2, <4>3 DEF TypeOK
    <3> QED
      BY <3>1, <3>2 DEF Threads
  <2>4. Executor!Submit(earg[t])
    BY <1>3, <2>2, <2>3 DEF EnqueuePush, Executor!Submit
  <2> QED
    BY <2>1, <2>4
<1>4. ASSUME DtorStop PROVE Executor!Close
  BY <1>4 DEF DtorStop, Executor!Close
<1>5. ASSUME DtorJoin PROVE Executor!Closed
  <2>1. tasks = <<>>
    BY <1>5 DEF DtorJoin, DrainedWhenDead
  <2>2. Executor!Quiet
    BY <1>5, <1>t DEF DtorJoin, TypeOK, Executor!Quiet
  <2> QED
    BY <1>5, <2>1, <2>2 DEF DtorJoin, Executor!Closed
<1>6. ASSUME NEW w \in Workers,
             ExitWorker(w) \/ FindNothing(w) \/ Park(w) \/ SpuriousWake(w)
      PROVE  UNCHANGED Executor!vars
  BY <1>6 DEF ExitWorker, FindNothing, Park, SpuriousWake
<1>7. ASSUME NEW t \in Threads, (\E x \in Tasks : EnqueueChecked(t, x)) \/ NotifyOne(t)
      PROVE  UNCHANGED Executor!vars
  BY <1>7 DEF EnqueueChecked, NotifyOne
<1>8. ASSUME DtorNotifyAll \/ UNCHANGED vars PROVE UNCHANGED Executor!vars
  BY <1>8 DEF DtorNotifyAll, vars
<1> QED
  BY <1>1, <1>2, <1>3, <1>4, <1>5, <1>6, <1>7, <1>8
     DEF Next, WorkerStep, Enqueue, EnqueueRejected, Dtor, Executor!Next

\* A pool with at least one worker implements the abstract executor.
THEOREM Implementation == ASSUME Workers # {} PROVE Spec => ImplementsExecutor
<1>1. Init => Executor!Init
  BY DEF Init, Executor!Init, Phase
<1>2. IInv /\ IInv' /\ ExactlyOnePlace /\ DrainedWhenDead' /\ [Next]_vars
        => [Executor!Next]_(Executor!vars)
  BY StepRefines
<1> QED
  BY <1>1, <1>2, Invariance, Places, Drained, PTL DEF Spec, ImplementsExecutor, Executor!Spec
=============================================================================
