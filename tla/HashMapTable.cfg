\* Two threads, two keys, up to two calls of each thread.
CONSTANTS
  t1 = t1
  t2 = t2
  k1 = k1
  k2 = k2
  Threads = {t1, t2}
  Keys = {k1, k2}
  MaxCalls = 2
  None = None
SPECIFICATION FairSpec
INVARIANTS TypeOK ViewFollowsTable
PROPERTIES ToldInOrder CrashExplained CallsEnd
