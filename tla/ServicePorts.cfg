SPECIFICATION FairSpec
CONSTANTS
    a = a
    b = b
    p1 = p1
    Procs = {a, b}
    Foreground = {}
    System = {b}
    Ports = {p1}
    Declares <- MCDeclares
    Callers = {c1}
    nobody = nobody
    MaxFailures = 1
INVARIANTS
  PortsAreWatched
PROPERTIES
  TablesSettle
CHECK_DEADLOCK FALSE
