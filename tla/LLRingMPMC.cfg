CONSTANTS
  Producers = {p1, p2}
  Consumers = {c1, c2}
  Values = {a}
  NoValue = null
  Slots = 4
  Modulus = 8
  MaxBurst = 1
  Behaviors = {"VARIABLE"}
  MultiProducer = TRUE
  MultiConsumer = TRUE
  Observers = {}
SPECIFICATION Spec
INVARIANTS IndicesOrdered NoSlotRace AwaitedIsInside
PROPERTIES RefusedOnlyWhenShort IsFifo
SYMMETRY Symmetry
