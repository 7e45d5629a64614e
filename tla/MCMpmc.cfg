SPECIFICATION Spec
INVARIANTS
  NobodyForgotten
  WaitersSound
  
  SlotsExclusive
