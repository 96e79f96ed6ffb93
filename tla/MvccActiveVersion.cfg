\* Two updates of one record race: what the comment on the check says.
CONSTANTS
  Txns = {t1, t2}
  Loader = t0
  First = t1
  Records = {r1}
  MaxOps = 1
  INF = INF
  Null = Null
  Programs <- AllPrograms
  JoinedBefore <- AnyOrder
SPECIFICATION Spec
PROPERTY ActiveVersionKept
CHECK_DEADLOCK FALSE
