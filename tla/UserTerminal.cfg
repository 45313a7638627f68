CONSTANTS
  a = a
  b = b
  Box = {a, b}
  Shown = {a}
  Probes <- MCProbes
  MaxJobs = 5
  MaxFailures = 1
  MaxLines = 2
  MaxAgentCalls = 1
SPECIFICATION FairSpec
INVARIANTS
  CommandsIsolated
  
PROPERTIES
  EverythingDrains
CHECK_DEADLOCK FALSE
