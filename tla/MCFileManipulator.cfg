SPECIFICATION Spec
CONSTANTS
  p1 = p1
  p2 = p2
  core = core
  tools = tools
  work = work
  custom = custom
  gone = gone
  fa = fa
  fb = fb
  missing = missing
  ca = ca
  cb = cb
  Procs = {p1, p2}
  Dirs = {work, custom}
  Modules = {core, tools}
  Files = {fa, fb, missing}
  Core = core
  Codes <- MCCodes
  Broken = Broken
  Calls <- MCCalls
  Cwd = work
  None = None
  Newline = Newline
  Folders <- MCFolders
  Letters = {ca, cb}
  Contents <- MCContents
  MaxEdits = 1
INVARIANTS
  FoundWhenAllGive
  OutputWhole
PROPERTIES
  CallEnds
CHECK_DEADLOCK FALSE
