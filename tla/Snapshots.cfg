SPECIFICATION FairSpec
CONSTANTS
    Container = {c1}
    Change = {x1}
    Call = {f1, f2}
    MaxRuntimes = 2
    MaxLive = 1
    MaxFailures = 1
    Nobody = Nobody
INVARIANTS
  SnapshotsSound
PROPERTIES
  FlushesSave
  RequestsServed
CHECK_DEADLOCK FALSE
