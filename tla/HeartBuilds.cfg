CONSTANTS
  RxSize = 2
  TxSize = 2
  BatchSize = 2
  f0 = f0
  f1 = f1
  f2 = f2
  f3 = f3
  FrameAt <- MCFrameAt
  CopyModes = {FALSE}
  BusyPolls = {FALSE}
  LazyFill = TRUE
  TxSleeps = FALSE
  Builds = {"single", "batching"}
SPECIFICATION SpecOfBuilds
INVARIANTS BatchInRing NoDoubleOwner LossesAccounted OutstandingCovers
PROPERTIES ImplementsCycle
SYMMETRY Symmetry
