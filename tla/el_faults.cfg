SPECIFICATION FairSpec
CONSTANTS
  c1 = c1
  c2 = c2
  NoClient = NoClient
  Clients = {c1, c2}
  Kinds = {"ping", "bad"}
  BadKinds <- MCBadKinds
  FrameLen <- MCFrameLen
  ReplyLen <- MCReplyLen
  ErrorLen = 1
  MaxReq = 1
  InMax = 2
  OutMax = 2
  ReadChunk = 1
  RcvBuf = 1
  SndBuf = 1
  MaxEvents = 3
  Faults = {"alloc", "accept", "epoll_ctl", "epoll_wait", "listener"}
INVARIANTS
  EventsLive
  FdsOwned
  InterestMask
  NoReadWhileClosing
PROPERTIES
  ClosingCloses
  ShutdownWhenAwake
CHECK_DEADLOCK FALSE
