\* Two transactions that update and read back, and the epoch thread.
CONSTANTS
  Keys = {k1, k2}
  NTxns = 2
  Bodies <- Updates
  Clean = {k1, k2}
  INF = INF
  Null = Null
SPECIFICATION Spec
PROPERTY OwnWritesFound
CHECK_DEADLOCK FALSE
