SPECIFICATION Spec
CONSTANTS
  Digits <- Ternary
  Minus = "-"
  INT_MAX = 7
  Malformed = Malformed
  Keys <- TwoKeys
  Values <- AllValues
  Requests <- AllRequests
  Matches <- StarOrB
  HT_NUM_BUCKETS = 1
  hash <- OneBucket
  Blocks <- NineBlocks
  NULL = NULL
  NodeBytes = NodeBytes
  Garbage <- Freed
  MaxLen = 3
VIEW Shape
INVARIANTS
  HeapExact
PROPERTIES
  ImplementsStore
  ErrorsUndone
