\* A deletion and an update of one record race.
CONSTANTS
  Txns = {t1, t2}
  Loader = t0
  First = t1
  Records = {r1}
  MaxOps = 1
  INF = INF
  Null = Null
  Programs <- AllPrograms
  JoinedBefore <- AnyOrder
SPECIFICATION Spec
PROPERTY DeleteEndsHead
CHECK_DEADLOCK FALSE
