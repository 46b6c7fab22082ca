SPECIFICATION Spec
CONSTANTS
  Digits <- Ternary
  Minus = "-"
  INT_MAX = 7
  Malformed = Malformed
  Keys <- OneKey
  Values <- AllValues
  Requests <- NumericRequests
  Matches <- StarOrB
  HT_NUM_BUCKETS = 1
  hash <- OneBucket
  Blocks <- FewBlocks
  NULL = NULL
  NodeBytes = NodeBytes
  Garbage <- Freed
  MaxLen = 3
VIEW Shape
INVARIANTS
  StoredNumbersReadable
