\* A stopped server may hang in accept or in the pool's destructor.
SPECIFICATION EchoFairSpec
CONSTANTS
  Workers = {w1}
  Owner = main
  Tasks = {c1, c2}
  NoTask = NoTask
  NoThread = NoThread
  Messages = 2
  Size = 2
  RecvMax = 2
  Mortal = {c1}
INVARIANTS
  ConnectionsAccounted
  EchoExact
  ServesToTheEnd
PROPERTIES
  ClientsServed
  EndsUnlessInAccept
CHECK_DEADLOCK FALSE
