\* Six keys, every order of inserts, updates, deletions and collections.
CONSTANTS
  NBytes = 12
  Cap4 = 3
  Cap16 = 4
  Cap48 = 6
  Low16 = 2
  Low48 = 3
  Low256 = 4
  Null <- NoSubtree
  Keys <- Words
  MaxLen = 6
  MaxPrefix = 1
  LockedByte = 14
  Filters <- TwoWords
  MaxDrift = 1
SPECIFICATION Spec
INVARIANTS TypeOK TreeIsSound SearchesAgree IterationInOrder PrefixScansFindAll
PROPERTIES ImplementsKeyStore
