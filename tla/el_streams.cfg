SPECIFICATION FairSpec
CONSTANTS
  c1 = c1
  c2 = c2
  NoClient = NoClient
  Clients = {c1}
  Kinds = {"get", "ping", "bad", "huge"}
  BadKinds <- MCBadKinds
  FrameLen <- MCFrameLen
  ReplyLen <- MCReplyLen
  ErrorLen = 2
  MaxReq = 3
  InMax = 4
  OutMax = 4
  ReadChunk = 2
  RcvBuf = 2
  SndBuf = 2
  MaxEvents = 2
  Faults = {"alloc"}
INVARIANTS
  TypeOK
  NoIdleFrame
  RoomToRead
  InputFraming
  OutputFraming
PROPERTIES
  RequestsAnswered
  OversizeRefused
  ClosingIsFinal
CHECK_DEADLOCK FALSE
