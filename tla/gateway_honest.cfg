SPECIFICATION Spec
CONSTANTS
  None = None
  Empty = Empty
  Junk = Junk
  U64Max = 7
  UsizeMax = 7
  Id <- MCId
  Byte <- MCByte
  Docs <- MCDocs
  DotSegments <- MCDotSegments
  Conns = {c1}
  MaxRequests = 2
  Requests <- HonestRequests
  Lens <- MCLens
  History <- MCHistory
  InitHeld <- MCInitHeld
  WindowSize = 3
  MAX_CONTENT_WINDOWS = 3
  NodeHonest = TRUE
  FaultyRoots = {}
  FaultyWindows = {}
INVARIANTS
  FreshRoot
  UnreachableIs502
  HeldIsServed
  ImmutableUpToFallback
