\* A rule matches f.
SPECIFICATION Fd4Spec
CONSTANTS
  r = r
  a = a
  b = b
  c = c
  d = d
  e = e
  f = f
  Workers = {w1, w2}
  Owner = main
  NoTask = NoTask
  NoThread = NoThread
  Tasks <- MCItems
  Nodes <- MCNodes
  Root = r
  Dirs <- MCDirs
  parent <- MCParent
  Level <- MCLevel
  Matching = {e, f}
  Ignored = {f}
  HasRules = TRUE
  Faulty = {}
  MaxDepth = 2
INVARIANTS
  RulesObeyed
CHECK_DEADLOCK FALSE
