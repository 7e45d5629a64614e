SPECIFICATION Spec
INVARIANTS
  SlotsSafe
  AwakeExact
  NobodyForgotten
  SubscriptionsAgree
PROPERTIES
  DeliveredOnce
