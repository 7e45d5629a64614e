CONSTANTS
  t1 = t1
  k1 = k1
  k2 = k2
  Kinds = {"mutex", "rwlock"}
  Thread = {t1}
  Task = {k1, k2}
  Budgets <- Few
  NoOne = NoOne
SPECIFICATION DropSpec
INVARIANTS
  WriterIsAlone
CHECK_DEADLOCK FALSE
