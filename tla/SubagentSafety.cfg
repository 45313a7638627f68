SPECIFICATION Spec
CONSTANTS
  Child = {c1, c2}
  Msg = {m1, m2}
  NoChild = NoChild
  MaxConcurrent = 1
  MaxChildren = 2
  StoreFails = TRUE
SYMMETRY Symmetry
INVARIANTS
  PoolSound
  ReportsSound
PROPERTIES
  SettledIsFinal
  ImplementsContract
CHECK_DEADLOCK FALSE
