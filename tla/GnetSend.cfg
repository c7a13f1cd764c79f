SPECIFICATION Spec
CONSTANTS
  MaxConnNum = 1
  WorkerPoolSize = 1
  ReqChanLen = 1
  UseMsgSerializer = TRUE
  AfterConnStart = FALSE
  IdSpace = 1
  MaxAccepts = 1
  MaxMsgs = 2
  Traffic = {"bound"}
  SockBuf = 1
INVARIANTS
  SendOnClosedIsError
CHECK_DEADLOCK FALSE
