\* Two connections come, handshake, are rejected, removed by the user or
\* closed by their peer, the socket is closed, and requests of every kind are
\* in the queues: the two tables stay consistent, ids stay unique, no
\* connection is leaked, no answer goes to the wrong client, and nothing but
\* a rejection leaves an id reserved.

CONSTANTS
  Conns = {c1, c2}
  NoConn = NoConn
  NoClient = NoClient
  LibReservedUserIDs = 2
  MaxUserID = 4
  ConnThread = ConnThread
  ReqThread = ReqThread
  OtherCallbackThreads = {}
  UserThreads = {u1}
  NoThread = NoThread
  UserOps = {"remove", "close", "send"}
  RequestTypes = {"ClientInfo", "Unknown", "Short"}
  Claims = {2, 3}
  Verdicts = {"Success", "InvalidRequest", "Error"}
  MaxQueueSize = 2
  PollLimit = 2
  MaxRequests = 1
  SendMayFail = FALSE
  NoRequest = NoRequest

SPECIFICATION Spec
INVARIANT
  TypeOK
  TablesAgree
  IdsUnique
  NoLeakedConnection
  NoDeadClient
  NoOrphanMessage
  BindFindsEntry
  NoMisdelivery
  OnlyRejectionsLeak
PROPERTY
  IsMembership
SYMMETRY Symmetry
