SPECIFICATION StorageFairSpec
CONSTANTS
  s1 = s1
  s2 = s2
  i1 = i1
  i2 = i2
  side = side
  Null = Null
  Session <- MCSession
  Id <- MCId
  MessageIds <- MCMessage
  Lane <- MCLane
  Tried <- MCTried
  MaxCalls = 3
  MaxReloads = 1
INVARIANTS
  StorageSound
PROPERTIES
  LogsAreFaithful
  EveryCallAnswered
CHECK_DEADLOCK FALSE
