\* Two workers; any entry may be skipped, a directory with entries of
\* both kinds may fail.
SPECIFICATION FairSpec
CONSTANTS
  r = r
  a = a
  b = b
  c = c
  d = d
  e = e
  f = f
  Workers = {w1, w2}
  NoNode = NoNode
  Items <- MCItems
  Nodes <- MCNodes
  Root = r
  Dirs <- MCDirs
  parent <- MCParent
  Level <- MCLevel
  Matching = {a, d, e, f}
  Ignored = {f}
  HasRules = TRUE
  Faulty = {a}
  MaxDepth = 2
INVARIANTS
  PendingCounts
  NoLostSignal
  QuietAtFinish
  NoSleepingOnWork
PROPERTIES
  ImplementsSearch
  SearchEnds
