SPECIFICATION Spec
CONSTANTS
  Empty = Empty
  Junk = Junk
  U64Max = 7
  MaxField = 8
  MaxTotal = 7
  Unset = Unset
  Invalid = Invalid
  U16Max = 7
  U32Max = 9
  WithControl <- MCWithControl
  Interpreted <- MCInterpreted
  SystemdReads <- MCSystemdReads
INVARIANTS
  Exact
  BakedReadsBack
CHECK_DEADLOCK FALSE
