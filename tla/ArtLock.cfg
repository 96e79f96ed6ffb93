\* Two changes of a node4 and a search in it, at the root and below it.
CONSTANTS
  i1 = i1
  i2 = i2
  gc = gc
  s1 = s1
  Inserters = {i1, i2}
  Removers = {gc}
  Searchers = {s1}
  KeyOf <- Places
  Teams <- Pairs
  Capacity = 4
  GrownCapacity = 6
  Start = 9
SPECIFICATION FairSpec
INVARIANTS TypeOK UnlocksAreSeen NodeAtRestIsSound CrashNeedsOverlap
PROPERTIES MissesExplained SearchesEnd
