SPECIFICATION LoopSpec
CONSTANTS
  a = a
  b = b
  NoName = NoName
  Names <- MCNames
  Paths <- MCPaths
  Entries <- MCEntries
  Touched <- MCTouched
  NameChunks <- MCNameChunks
  Short <- MCShort
  BufferChunks = 4
  MaxQueuedEvents = 2
INVARIANTS
  PrintedOnce
  UnwatchedWasOverlooked
PROPERTIES
  ReadsOn
CHECK_DEADLOCK FALSE
