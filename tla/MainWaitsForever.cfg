\* The example's main waits for the future of a message while the socket's
\* own thread closes the socket: the future never becomes ready.

CONSTANTS
  Users = {u1}
  Owner = u1
  ConnThread = ConnThread
  ReqThread = ReqThread
  Requests = {r1}
  NoRequest = NoRequest
  MaxQueueSize = 1
  MaxRuns = 1
  Liberties = {}

SPECIFICATION ConsoleSpec
PROPERTY
  MainGetsAnswer
CHECK_DEADLOCK FALSE
