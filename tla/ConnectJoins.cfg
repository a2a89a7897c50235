CONSTANTS
  Procs = {p1, p2}
  Regions = {r1, r2}
  None = none
  MaxOverlaps = 0
SPECIFICATION Spec
PROPERTIES JoinsTheOther
