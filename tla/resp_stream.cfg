SPECIFICATION Spec
CONSTANTS
  Digits <- Ternary
  Minus = "-"
  INT_MAX = 7
  Malformed = Malformed
  Star = "*"
  Dollar = "$"
  CR = "CR"
  LF = "LF"
  Blank = " "
  Letters = {"a"}
  RESP_MAX_ARGC = 2
  RESP_MAX_BULK_LEN = 2
  RESP_MAX_INLINE_LEN = 4
  MaxInput = 11
  Requests <- Vectors
  MaxRequests = 2
INVARIANTS
  RequestsIntact
  NoneWaits
  WithinInput
PROPERTIES
  Settled
CHECK_DEADLOCK FALSE
