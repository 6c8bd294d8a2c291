SPECIFICATION Spec
CONSTANTS
  WHEELSIZE = 2
  IntRange = 32
  Timeouts = {t1, t2}
  NoTimeout = NoTimeout
  Durations = {0, 15}
  Adjustments = {6}
  MaxLate = 1
INVARIANTS TypeOK OnTime
PROPERTIES Implements Served
