\* Three clients that finished their handshakes, and the user, send messages
\* while connections are lost and GNS refuses some sends: who gets which
\* message, under which name, in which order.

CONSTANTS
  Conns = {c1, c2, c3}
  NoConn = NoConn
  NoClient = NoClient
  LibReservedUserIDs = 2
  MaxUserID = 4
  ConnThread = ConnThread
  ReqThread = ReqThread
  OtherCallbackThreads = {}
  UserThreads = {u1}
  NoThread = NoThread
  UserOps = {"send"}
  RequestTypes = {"Message"}
  Claims = {0}
  Verdicts = {"Success"}
  MaxQueueSize = 2
  PollLimit = 2
  MaxRequests = 2
  SendMayFail = TRUE
  NoRequest = NoRequest

SPECIFICATION SpecEstablished
INVARIANT
  NoEcho
  SenderIsAuthor
  AuthorOrder
  SameOrder
