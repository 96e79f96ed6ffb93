\* Keys so long that the version of a leaf that is locked lies over them.
CONSTANTS
  NBytes = 12
  Cap4 = 3
  Cap16 = 4
  Cap48 = 6
  Low16 = 2
  Low48 = 3
  Low256 = 4
  Null <- NoSubtree
  Keys <- Words
  MaxLen = 6
  MaxPrefix = 1
  LockedByte = 4
  Filters <- NoFilter
  MaxDrift = 1
SPECIFICATION Spec
PROPERTY KeysStayFound
