SPECIFICATION Spec
CONSTANTS
  Junk = Junk
  Bytes = {p, q}
  INIT_CAP = 2
  MAX = 6
  COMPACT_MIN = 1
  STACK = 2
  MaxOp = 3
  MayFail = TRUE
SYMMETRY ByteSymmetry
INVARIANTS
  TypeOK
  LiveWritten
  HeadWaste
  GrowthLoop
PROPERTIES
  ImplementsFifo
  CallsAsPromised
