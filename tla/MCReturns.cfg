CONSTANTS
  t1 = t1
  k1 = k1
  s1 = s1
  s2 = s2
  r1 = r1
  none = none
  Readers = {r1, s1}
  Members = {t1, k1}
SPECIFICATION MCSpec
INVARIANTS
  NobodyReadsTheWritten
PROPERTIES
  ImplementsSnapshot
  CallsReturn
CHECK_DEADLOCK FALSE
