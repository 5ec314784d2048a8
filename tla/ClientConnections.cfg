\* A client opens up to three connections, with two attempts for each
\* Connect, that are accepted, rejected, closed with a farewell or lost at
\* any time, while reports come late and both sides refuse or drop client
\* infos: it forgets a connection only because of a report about an earlier
\* one, polls only what it has, becomes Active when the server has made it so
\* and on every connection that lasts and drops nothing, and ends when it is
\* closed.

CONSTANTS
  MaxHandles = 3
  MaxAttempts = 2
  MaxQueueSize = 2
  MayRunAgain = FALSE
  MayRefuse = TRUE

SPECIFICATION FairSpec
INVARIANT
  ClientTypeOK
  ForgottenByLateReport
  ActiveWasGranted
  PollsHaveConnection
PROPERTY
  LostIsReleased
  HandshakeConverges
  ClosedClientEnds
CHECK_DEADLOCK FALSE
