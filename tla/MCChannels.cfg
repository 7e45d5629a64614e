SPECIFICATION Spec
INVARIANTS
  SlabsSafe
  NobodyForgotten
  HandedOver
PROPERTIES
  DeliveredOnce
