SPECIFICATION FairSpec
CONSTANTS
  Child = {c1, c2}
  Msg = {m1}
  NoChild = NoChild
  MaxConcurrent = 1
  MaxChildren = 1
  StoreFails = FALSE
INVARIANTS
  WorkConserving
PROPERTIES
  ChildrenSettle
CHECK_DEADLOCK FALSE
