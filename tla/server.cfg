SPECIFICATION FairSpec
CONSTANTS
  Digits <- Decimal
  Minus = "-"
  INT_MAX = 27
  Malformed = Malformed
  Star = "*"
  Dollar = "$"
  CR = "CR"
  LF = "LF"
  Blank = " "
  Letters <- Texts
  RESP_MAX_ARGC = 3
  RESP_MAX_BULK_LEN = 5
  RESP_MAX_INLINE_LEN = 14
  c1 = c1
  c2 = c2
  Clients = {c1, c2}
  NoClient = NoClient
  Sessions <- MCSessions
  CommandName <- Named
  BYTEBUF_MAX = 10
  READ_CHUNK = 5
  OutMax = 5
  Segment = 5
  MaxFaults = 2
  Keys <- AllKeys
  Matches <- Matching
  HT_NUM_BUCKETS = 1
  hash <- OneBucket
  Blocks = {1, 2, 3, 4, 5, 6, 7, 8, 9, 10, 11, 12, 13, 14, 15, 16}
  NULL = NULL
  NodeBytes = NodeBytes
  Garbage <- Freed
  MaxLen = 11
INVARIANTS
  ChecksPass
  Leftovers
  NothingLeft
PROPERTIES
  ImplementsService
  ClientsServed
CHECK_DEADLOCK FALSE
