SPECIFICATION Spec
CONSTANTS
  c1 = c1
  c2 = c2
  NoClient = NoClient
  Clients = {c1}
  Kinds = {"get", "ping"}
  BadKinds <- MCBadKinds
  FrameLen <- MCFrameLen
  ReplyLen <- MCReplyLen
  ErrorLen = 2
  MaxReq = 1
  InMax = 4
  OutMax = 4
  ReadChunk = 2
  RcvBuf = 2
  SndBuf = 2
  MaxEvents = 2
  Faults = {"epoll_wait"}
PROPERTIES
  ExitStatus
CHECK_DEADLOCK FALSE
