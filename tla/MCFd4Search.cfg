\* Two workers beside main; any entry may be skipped, a directory with entries of
\* both kinds may fail.
SPECIFICATION Fd4FairSpec
CONSTANTS
  r = r
  a = a
  b = b
  c = c
  d = d
  e = e
  f = f
  Workers = {w1, w2}
  Owner = main
  NoTask = NoTask
  NoThread = NoThread
  Tasks <- MCItems
  Nodes <- MCNodes
  Root = r
  Dirs <- MCDirs
  parent <- MCParent
  Level <- MCLevel
  Matching = {a, d, e, f}
  Ignored = {f}
  HasRules = TRUE
  Faulty = {a}
  MaxDepth = 2
INVARIANTS
  ActiveCounts
  QuietAfterPoll
PROPERTIES
  ImplementsSearch
  SearchPrints
\* The pool may hang in its destructor once the search is over.
CHECK_DEADLOCK FALSE
