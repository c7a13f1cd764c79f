SPECIFICATION FairSpec
CONSTANTS
  MaxConnNum = 1
  WorkerPoolSize = 0
  ReqChanLen = 1
  UseMsgSerializer = TRUE
  AfterConnStart = TRUE
  IdSpace = 1
  MaxAccepts = 1
  MaxMsgs = 2
  Traffic = {"bound", "unbound", "oversize"}
  SockBuf = 1
PROPERTIES
  GoneIsTornDown
CHECK_DEADLOCK FALSE
