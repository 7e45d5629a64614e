CONSTANTS
  s1 = s1
  s2 = s2
  s3 = s3
  r1 = r1
  i1 = i1
  i2 = i2
  c1 = c1
  c2 = c2
  u1 = u1
  u2 = u2
  NoOne = NoOne
  Sender = {s1, s2, s3}
  First = s1
  Caller = {r1}
  CallerOps <- OneUser
SYMMETRY Symmetry
SPECIFICATION MCSpec
INVARIANTS
  ValueHasOneOwner
  PendingIsWoken
  SlotsSafe
PROPERTIES
  IsAStack
