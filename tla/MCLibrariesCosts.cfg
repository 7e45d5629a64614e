CONSTANTS
  cp = cp
  cq = cq
  cr = cr
  cw = cw
  none = none
  alias = alias
  dead = dead
  Callers = {cp, cq}
  None = none
  Clients <- LoadClients
SPECIFICATION FifoSpec
INVARIANTS
  CapacityAsDocumented
CHECK_DEADLOCK FALSE
