\* The user waits for the future inside OnHandleRequest(ClientInfoRequest),
\* as the documentation allows: the request thread holds the lock the
\* connection thread needs to send the answer.

CONSTANTS
  Conns = {c1}
  NoConn = NoConn
  NoClient = NoClient
  LibReservedUserIDs = 2
  MaxUserID = 4
  ConnThread = ConnThread
  ReqThread = ReqThread
  OtherCallbackThreads = {}
  UserThreads = {u1}
  NoThread = NoThread
  UserOps = {}
  RequestTypes = {"ClientInfo"}
  Claims = {2, 3}
  Verdicts = {"Success"}
  MaxQueueSize = 2
  PollLimit = 2
  MaxRequests = 1
  SendMayFail = FALSE
  NoRequest = NoRequest

SPECIFICATION WaitingSpec
PROPERTY
  HandlerReturns
CHECK_DEADLOCK FALSE
