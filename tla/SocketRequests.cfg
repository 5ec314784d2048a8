\* Three requests are queued by two users and by the callbacks of both socket
\* threads, all of which may close the socket at any time, before, during and
\* after Run, while one user runs it, again if Run failed, waits for it and
\* destroys it: each request is answered once and in order, the queue keeps
\* its bound, a closed socket refuses requests, nothing is destroyed that
\* runs; with fair threads Wait returns and futures become ready.

CONSTANTS
  Users = {u1, u2}
  Owner = u1
  ConnThread = ConnThread
  ReqThread = ReqThread
  Requests = {r1, r2, r3}
  NoRequest = NoRequest
  MaxQueueSize = 1
  MaxRuns = 2
  Liberties = {"close in run"}

SPECIFICATION FairSpec
INVARIANT
  SocketTypeOK
  QueueBounded
  PromisesAccounted
  ClosedMeansRefusing
  NoFault
  WaitMeansStopped
PROPERTY
  DeliversInOrder
  WaitReturns
  AnsweredWhileRunning
