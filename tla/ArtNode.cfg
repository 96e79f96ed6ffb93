\* All four layouts, every order of inserts and removals over seven bytes.
CONSTANTS
  NBytes = 7
  Cap4 = 3
  Cap16 = 4
  Cap48 = 6
  Low16 = 2
  Low48 = 3
  Low256 = 4
  Null = Null
  Children = {0, 1, 2, 3, 4, 5, 6}
  Below <- OneEach
SPECIFICATION Spec
INVARIANTS TypeOK CountIsExact Occupancy
PROPERTIES NoThrashing ImplementsByteMap
