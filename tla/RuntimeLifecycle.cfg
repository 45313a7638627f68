CONSTANTS
  k1 = k1
  k2 = k2
  k3 = k3
  Call = {k1, k2, k3}
  c1 = c1
  Edits = {c1}
  MaxBoots = 2
  MaxFailures = 1
SPECIFICATION FairSpec
INVARIANTS
  RuntimesSound
  
PROPERTIES
  CallsEnd
CHECK_DEADLOCK FALSE
