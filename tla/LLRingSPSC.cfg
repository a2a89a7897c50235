CONSTANTS
  Producers = {p1}
  Consumers = {c1}
  Values = {a, b}
  NoValue = null
  Slots = 4
  Modulus = 8
  MaxBurst = 2
  Behaviors = {"FIXED", "VARIABLE"}
  MultiProducer = FALSE
  MultiConsumer = FALSE
  Observers = {p1, c1}
SPECIFICATION Spec
INVARIANTS ToldIsThere
PROPERTIES IsFifo
SYMMETRY Symmetry
