\* With fair threads every closed connection is released, handshakes start
\* and complete unless a full queue drops their requests, and CloseSocket
\* brings the server to its end; the user has reserved the first id in
\* advance.

CONSTANTS
  Conns = {c1, c2}
  NoConn = NoConn
  NoClient = NoClient
  LibReservedUserIDs = 2
  MaxUserID = 5
  ConnThread = ConnThread
  ReqThread = ReqThread
  OtherCallbackThreads = {}
  UserThreads = {u1}
  NoThread = NoThread
  UserOps = {"close"}
  RequestTypes = {"ClientInfo"}
  Claims = {3}
  Verdicts = {"Success"}
  MaxQueueSize = 1
  PollLimit = 1
  MaxRequests = 2
  SendMayFail = FALSE
  NoRequest = NoRequest

SPECIFICATION FairSpecReserved
PROPERTY
  ClosedIsReleased
  HandshakeStarts
  HandshakeCompletes
  ShutdownCompletes
