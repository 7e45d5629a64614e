SPECIFICATION BoundedSpec
INVARIANTS
  FinishedMeansItem
