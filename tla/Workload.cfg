\* An updating, a deleting and an inserting transaction, and the epoch thread.
CONSTANTS
  Keys = {k1, k2}
  NTxns = 3
  Bodies <- Mixed
  Clean = {k1}
  INF = INF
  Null = Null
SPECIFICATION FairSpec
INVARIANTS TypeOK UntouchedKeysStay
PROPERTY DeletedAreCollected
CHECK_DEADLOCK FALSE
