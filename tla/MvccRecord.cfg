\* Three transactions of one call each, one record: all races of three calls.
CONSTANTS
  Txns = {t1, t2, t3}
  Loader = t0
  Records = {r1}
  MaxOps = 1
  INF = INF
  Null = Null
  First = t1
  Programs <- AllPrograms
  JoinedBefore <- AnyOrder
SYMMETRY Symmetry
SPECIFICATION Spec
INVARIANTS TypeOK SingleLine NoLostUpdate SupersededEnded HeadEndExplained
PROPERTIES SnapshotsAreStable ImplementsVersionOrder
CHECK_DEADLOCK FALSE
