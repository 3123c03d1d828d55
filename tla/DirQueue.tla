------------------------------ MODULE DirQueue ------------------------------
(***************************************************************************)
(* class DirQueue of fd/src/fd3.cpp.  Everything it owns is read, written  *)
(* and notified with the mutex m held, and the wait releases m as it       *)
(* blocks, so each critical section is one step and m needs no variable.   *)
(***************************************************************************)
EXTENDS Naturals, Sequences, FiniteSets

CONSTANTS
  Workers,  \* the threads that call pop
  Items     \* the work items push may be given

VARIABLES
  q,        \* std::queue<WorkItem>
  finished, \* bool
  waiting   \* workers blocked on cv

queueVars == <<q, finished, waiting>>

QueueInit ==
  /\ q = <<>>
  /\ finished = FALSE
  /\ waiting = {}

Mutant_push(item) ==
  /\ q' = Append(q, item)
  /\ UNCHANGED <<finished, waiting>>

\* push: enqueue and notify_one, under the lock.
push(item) ==
  /\ q' = Append(q, item)
  /\ \/ \E w \in waiting : waiting' = waiting \ {w}
     \/ waiting = {} /\ waiting' = waiting
  /\ UNCHANGED finished

\* pop, the predicate being true and an item there; returns true.
pop(w, item) ==
  /\ w \notin waiting
  /\ q # <<>>
  /\ item = Head(q)
  /\ q' = Tail(q)
  /\ UNCHANGED <<finished, waiting>>

\* pop, nothing queued and the queue finished; returns false.
popFinished(w) ==
  /\ w \notin waiting
  /\ q = <<>>
  /\ finished
  /\ UNCHANGED queueVars

\* pop, the predicate being false: the worker blocks.
popBlocks(w) ==
  /\ w \notin waiting
  /\ q = <<>>
  /\ ~finished
  /\ waiting' = waiting \cup {w}
  /\ UNCHANGED <<q, finished>>

\* cv.wait may return without a notification and test its predicate again.
popWakes(w) ==
  /\ w \in waiting
  /\ waiting' = waiting \ {w}
  /\ UNCHANGED <<q, finished>>

Mutant_set_finished ==
  /\ finished' = TRUE
  /\ \/ \E w \in waiting : waiting' = waiting \ {w}
     \/ waiting = {} /\ waiting' = waiting
  /\ UNCHANGED q

set_finished ==
  /\ finished' = TRUE
  /\ waiting' = {}
  /\ UNCHANGED q

empty == q = <<>>
=============================================================================
