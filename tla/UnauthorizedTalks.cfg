\* A connected client that never finished its handshake sends a message: the
\* server passes it on.

CONSTANTS
  Conns = {c1}
  NoConn = NoConn
  NoClient = NoClient
  LibReservedUserIDs = 2
  MaxUserID = 4
  ConnThread = ConnThread
  ReqThread = ReqThread
  OtherCallbackThreads = {}
  UserThreads = {u1}
  NoThread = NoThread
  UserOps = {}
  RequestTypes = {"Message"}
  Claims = {2, 3}
  Verdicts = {"Success"}
  MaxQueueSize = 2
  PollLimit = 2
  MaxRequests = 1
  SendMayFail = FALSE
  NoRequest = NoRequest

SPECIFICATION Spec
PROPERTY
  UnauthorizedCannotTalk
