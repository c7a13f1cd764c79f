SPECIFICATION FairSpec
CONSTANTS
  MaxConnNum = 1
  WorkerPoolSize = 1
  ReqChanLen = 1
  UseMsgSerializer = TRUE
  AfterConnStart = FALSE
  IdSpace = 1
  MaxAccepts = 1
  MaxMsgs = 1
  Traffic = {"bound"}
  SockBuf = 1
PROPERTIES
  ShutdownCompletes
CHECK_DEADLOCK FALSE
