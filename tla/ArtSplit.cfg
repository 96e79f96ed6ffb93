\* Two inserts that split leaves and prefixes, and a search.
CONSTANTS
  root = root
  inner = inner
  i1 = i1
  i2 = i2
  s1 = s1
  k23111 = k23111
  k23121 = k23121
  k31111 = k31111
  k31112 = k31112
  k32111 = k32111
  k11111 = k11111
  k23211 = k23211
  k22111 = k22111
  k23131 = k23131
  k23112 = k23112
  Keys = {k23111, k23121, k31111, k31112, k32111, k11111, k23211, k22111, k23131, k23112}
  KeyLen = 5
  ByteOf <- Spelt
  Given = {root, inner}
  Root = root
  Inserters = {i1, i2}
  Searchers = {s1}
  Tree <- Grown
  Loaded <- Present
  Scenes <- Pairs
  Start = 9
  Null = Null
SPECIFICATION Spec
INVARIANTS TypeOK TreeAtRestIsSound CrashNeedsClash
PROPERTIES MissesExplained
