SPECIFICATION MemDbSpec
CONSTANTS
  s1 = s1
  s2 = s2
  NoOne = NoOne
  Servers <- MCServers
  Keys <- MCKeys
  Mega = 4
INVARIANTS
  OneBuilder
  LeftBehind
PROPERTY
  CreationConcludes
