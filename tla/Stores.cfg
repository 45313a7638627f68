SPECIFICATION StoresSpec
CONSTANTS
  SessionIds = {s1, s2}
  ContainerIds = {c1}
  NoItem = none
  MaxEdits = 4
  MaxMisses = 1
  ProviderIds = {m, p}
  Migrated = m
  PersonaIds = {b, c}
  b = b
  BuiltIn <- MCBuiltIn
  Unset = none
  ContainerTools = {"run"}
  PluginTools = {"plug"}
  Needs <- MCNeeds
  ChatIds = {s1, s2}
  PageSize = 1
  Early = 2
  MaxEvents = 2
  Roots = {r1, r2}
  Helpers = {k}
  Rooms = {c1, c2}
  Uploads = {f}
  NoRoom = none
  MaxResources = 2
  TerminalIds = {s1, s2}
  NoText = none
  TextLimit = 2
  MaxPieces = 3
  MaxShows = 2
  MaxLapses = 1

  
  
  
  
  
PROPERTIES
  HistorySound
CHECK_DEADLOCK FALSE
