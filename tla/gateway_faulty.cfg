SPECIFICATION FairSpec
CONSTANTS
  None = None
  Empty = Empty
  Junk = Junk
  U64Max = 7
  UsizeMax = 7
  Id <- MCId
  Byte <- MCByte
  Docs <- MCDocs
  DotSegments <- MCDotSegments
  Conns = {c1}
  MaxRequests = 1
  Requests <- FaultyRequests
  Lens <- MCLens
  History <- NoHistory
  InitHeld = {}
  WindowSize = 3
  MAX_CONTENT_WINDOWS = 3
  NodeHonest = FALSE
  FaultyRoots <- MCFaultyRoots
  FaultyWindows <- MCFaultyWindows
INVARIANTS
  TypeOK
  Authentic
  NeverOpenProxy
PROPERTIES
  EveryRequestEnds
