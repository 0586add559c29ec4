CONSTANTS
  Shapes <- EveryType
  Ids = {"k1", "k2"}
  Dim = 2
  Half = 8
  Half32 = 2
  Half8 = 4
  UuidLen = 4
  Samples <- Edges
  MaxCalls = 3
SPECIFICATION Spec
CHECK_DEADLOCK FALSE
INVARIANTS
  TypeOK
  DecodedIsWritten
  ReadsSucceed
  BackendsAgree
  FirstIsLeast
