CONSTANTS
  RxSize = 2
  TxSize = 1
  BatchSize = 2
  FrameAt <- MCFrameAt
  CopyModes = {TRUE, FALSE}
  BusyPolls = {TRUE, FALSE}
  LazyFill = FALSE
  TxSleeps = TRUE
SPECIFICATION FairSpec
INVARIANTS RingsWithinSize NothingLost FillNeverFull OutstandingExact
PROPERTIES EveryFrameReturns KernelIsWoken SignalStopsPump
