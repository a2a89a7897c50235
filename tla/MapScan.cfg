CONSTANTS
  Names = {"a", "b"}
  Keys = {0, 1}
  Padded = {2}
  Entries <- MapSizes
  None = none
  MAX_NR_MAPS = 3
  MaxRequests = 3
  MaxMaps = 3
SPECIFICATION Spec
INVARIANTS EntriesWhole KeptOnce IndexHonoured UnplacedFound PointersHold
CHECK_DEADLOCK FALSE
