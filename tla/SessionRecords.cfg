CONSTANTS
  r1 = r1
  o = o
  Run = {r1, o}
  Old = {o}
  MaxFaults = 1
  MaxGuides = 0
SPECIFICATION FairSpec
INVARIANTS
  RecordsSound
PROPERTIES
  SettledOnce
  DeletionEnds
CHECK_DEADLOCK FALSE
