CONSTANTS
  Procs = {p1, p2, p3}
  Regions = {r1, r2, r3}
  None = none
  MaxOverlaps = 1
SPECIFICATION Spec
INVARIANTS PairMeets AtMostTwo AccessIsBacked
PROPERTIES RefusalHeals
SYMMETRY Symmetry
