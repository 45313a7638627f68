CONSTANTS
  r1 = r1
  r2 = r2
  o = o
  Run = {r1, r2, o}
  Old = {o}
  MaxGuides = 1
  MaxEntries = 3
  MaxFaults = 1
SPECIFICATION Spec
PROPERTIES
  LogSound
CHECK_DEADLOCK FALSE
