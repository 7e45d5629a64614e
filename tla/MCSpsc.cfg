CONSTANTS
  a = a
  b = b
  Item <- MCItem
  Uninit = Uninit
  Cap = 3
  Phys = 4
  W = 8
SPECIFICATION MCSpec
INVARIANTS
  RingSafe
  NobodyForgotten
  DrainedBeforeDisconnected
PROPERTIES
  ImplementsQueue
