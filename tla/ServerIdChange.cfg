\* The user reserves ids, changes the ids of established clients and removes
\* them while requests are under way and two threads, this server's and
\* another socket's, run the callbacks of lost connections: the tables stay
\* consistent.

CONSTANTS
  Conns = {c1, c2}
  NoConn = NoConn
  NoClient = NoClient
  LibReservedUserIDs = 2
  MaxUserID = 4
  ConnThread = ConnThread
  ReqThread = ReqThread
  OtherCallbackThreads = {x1}
  UserThreads = {u1}
  NoThread = NoThread
  UserOps = {"change", "reserve", "remove"}
  RequestTypes = {"ClientInfo"}
  Claims = {2, 3}
  Verdicts = {"Success"}
  MaxQueueSize = 2
  PollLimit = 2
  MaxRequests = 1
  SendMayFail = FALSE
  NoRequest = NoRequest

SPECIFICATION SpecEstablished
INVARIANT
  TablesAgree
