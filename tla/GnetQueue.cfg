SPECIFICATION FairSpec
CONSTANTS
  MaxConnNum = 1
  WorkerPoolSize = 1
  ReqChanLen = 1
  UseMsgSerializer = TRUE
  AfterConnStart = TRUE
  IdSpace = 1
  MaxAccepts = 1
  MaxMsgs = 3
  Traffic = {"bound"}
  SockBuf = 1
PROPERTIES
  QueueIsServed
CHECK_DEADLOCK FALSE
