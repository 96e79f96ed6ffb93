\* Two transactions of two calls, joined in the order they were started.
CONSTANTS
  Txns = {t1, t2}
  Loader = t0
  First = t1
  Records = {r1, r2}
  MaxOps = 2
  INF = INF
  Null = Null
  Programs <- RetryingPrograms
  JoinedBefore <- StartOrder
SPECIFICATION FairSpec
INVARIANTS SupersededEnded HeadEndExplained DeadlockNeedsDelete
PROPERTY EndsUnlessDeadlock
CHECK_DEADLOCK FALSE
