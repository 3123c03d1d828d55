\* The smallest pool whose destructor can hang.
SPECIFICATION FairSpec
CONSTANTS
  Workers = {w1, w2}
  Owner = owner
  Tasks = {x1, x2, x3}
  NoTask = NoTask
  NoThread = NoThread
PROPERTIES
  DestructorReturns
CHECK_DEADLOCK FALSE
