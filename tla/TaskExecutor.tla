---------------------------- MODULE TaskExecutor ----------------------------
(***************************************************************************)
(* What a fixed-size thread pool promises its clients, with no mutex, no   *)
(* condition variable and no notification in sight: a submitted task is    *)
(* started once, in the order of submission, by one worker, and the pool   *)
(* is gone only when every accepted task has finished.  ThreadPool         *)
(* implements it.                                                          *)
(***************************************************************************)
EXTENDS Naturals, Sequences

CONSTANTS
  Workers,   \* the pool's threads
  Tasks,     \* the tasks clients may submit, each a submission of its own
  NoTask     \* no task: fills the slot of a worker that runs nothing

VARIABLES
  queue,     \* accepted tasks nobody has started, oldest first
  slot,      \* the task each worker runs
  finished,  \* tasks that ran to their end (or to a caught exception)
  phase      \* "open", "closing" once the destructor runs, "closed" after it

vars == <<queue, slot, finished, phase>>

TypeOK ==
  /\ queue \in Seq(Tasks)
  /\ slot \in [Workers -> Tasks \cup {NoTask}]
  /\ finished \subseteq Tasks
  /\ phase \in {"open", "closing", "closed"}

Running == {slot[w] : w \in Workers} \ {NoTask}
Queued  == {queue[i] : i \in DOMAIN queue}
Quiet   == \A w \in Workers : slot[w] = NoTask

Init ==
  /\ queue = <<>>
  /\ slot = [w \in Workers |-> NoTask]
  /\ finished = {}
  /\ phase = "open"

\* Once the pool is closing only a task that still runs may add another.
Submit(x) ==
  /\ phase = "open" \/ (phase = "closing" /\ ~Quiet)
  /\ x \notin Queued \cup Running \cup finished
  /\ queue' = Append(queue, x)
  /\ UNCHANGED <<slot, finished, phase>>

Start(w) ==
  /\ slot[w] = NoTask
  /\ queue # <<>>
  /\ slot' = [slot EXCEPT ![w] = Head(queue)]
  /\ queue' = Tail(queue)
  /\ UNCHANGED <<finished, phase>>

Finish(w) ==
  /\ slot[w] # NoTask
  /\ finished' = finished \cup {slot[w]}
  /\ slot' = [slot EXCEPT ![w] = NoTask]
  /\ UNCHANGED <<queue, phase>>

Close ==
  /\ phase = "open"
  /\ phase' = "closing"
  /\ UNCHANGED <<queue, slot, finished>>

Closed ==
  /\ phase = "closing"
  /\ queue = <<>>
  /\ Quiet
  /\ phase' = "closed"
  /\ UNCHANGED <<queue, slot, finished>>

Next ==
  \/ \E x \in Tasks : Submit(x)
  \/ \E w \in Workers : Start(w) \/ Finish(w)
  \/ Close
  \/ Closed

Spec == Init /\ [][Next]_vars
=============================================================================
