CONSTANTS
  Threads = {t1, t2, t3}
SPECIFICATION FairSpec
INVARIANTS ReadyOnce
PROPERTIES CallsGetThrough
