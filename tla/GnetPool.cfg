SPECIFICATION Spec
CONSTANTS
  MaxConnNum = 1
  WorkerPoolSize = 1
  ReqChanLen = 1
  UseMsgSerializer = TRUE
  AfterConnStart = FALSE
  IdSpace = 2
  MaxAccepts = 2
  MaxMsgs = 2
  Traffic = {"bound"}
  SockBuf = 1
INVARIANTS
  TypeOK
  ConnNumBound
  OpenSocketBound
  RegisteredById
  HandledInOrder
  ChannelsClosedOnce
CHECK_DEADLOCK FALSE
