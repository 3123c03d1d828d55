\* Two workers, so that one can sleep while the other works, and three tasks:
\* one running, one queued behind it and one being submitted by either.
\* No symmetry: liveness is checked too.
SPECIFICATION FairSpec
CONSTANTS
  Workers = {w1, w2}
  Owner = owner
  Tasks = {x1, x2, x3}
  NoTask = NoTask
  NoThread = NoThread
INVARIANTS
  TypeOK
  NoLostWakeup
  ExactlyOnePlace
  DrainedWhenDead
PROPERTIES
  IntakeCloses
  ImplementsExecutor
  AcceptedTaskRuns
  HangsOnlyInTheWindow
\* A dead pool takes no step, and a destructor may hang.
CHECK_DEADLOCK FALSE
