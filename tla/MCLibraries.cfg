CONSTANTS
  cp = cp
  cq = cq
  cr = cr
  cw = cw
  none = none
  alias = alias
  dead = dead
  Callers = {cp, cq}
  None = none
  Clients <- LoadClients
SPECIFICATION MCSpec
INVARIANTS
  LoadsKept
  ShardConsistent
  TwinsAgree
  NoWaiterForgotten
  StableSeen
  NobodyStuck
  StatsFaithful
  EventsDelivered
  ResolvedWhole
PROPERTIES
  CapacityHolds
  ExpiryInTime
CHECK_DEADLOCK FALSE
