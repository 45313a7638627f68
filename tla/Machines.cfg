SPECIFICATION MachinesSpec
CONSTANTS
  Profiles <- MCProfiles
  BatchSize = 1
  MaxChanges = 1
  MaxRevision = 2
  MaxMessages = 5
  MaxSummaries = 2
  MaxUpsets = 1
  MaxLines = 3
  BufferLimit = 7
  Frame = 2
  Views = {root, child}
  Clients = {2, 3}
  MaxHeight = 4
  Edge = 1
  Threshold = 2
  NoPosition = none
  Containers = {c1, c2}
  NoDirectory = none
  MaxListings = 3
  MaxTouches = 2
  Targets = {p, q}
  MaxUpdates = 2
  MaxForeign = 1
  MaxFaults = 2
  Paths = {x, l}
  Log = l
  Dir = d
  MaxBytes = 3
  MaxWrites = 2
  MaxLosses = 1
  Procs = {a, b, f}
  Foreground = {f}
  System = {b}
  MaxFailures = 2
  Pids = {1, 2}
  Boxes = {c1, c2}
  MaxStarts = 2
  MaxQueries = 2
  Op = {o1, o2, o3, o4}
  o4 = o4
  o1 = o1
  o2 = o2
  o3 = o3
  Container = {k1, k2}
  k1 = k1
  k2 = k2
  containerOf <- MCContainerOf
  None = None
INVARIANTS
  GatedIsChecked
  ContextSound
  
  UpdateSound
  SystemFilesSound
  ShellSound
  KillsAreOwn
PROPERTIES
  StreamSound
  ScrollSound
  LeaseSound
CHECK_DEADLOCK FALSE
