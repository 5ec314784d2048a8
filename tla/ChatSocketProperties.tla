------------------------ MODULE ChatSocketProperties ------------------------
(* What a ChatSocket promises to the threads that use it.                  *)
EXTENDS ChatSocket

SocketTypes ==
  /\ sendQueue \in SafeQueues(Requests)
  /\ thread \in [SocketThreads -> ThreadStates]
  /\ object \in {"alive", "destroyed", "terminated", "double delete"}
  /\ pc \in [Threads -> Labels]
  /\ hand \in [Threads -> Requests \cup {NoRequest}]
  /\ outcome \in [Requests -> Outcomes]
  /\ runs \in 0..MaxRuns

FlagTypes == goingExit \in BOOLEAN /\ waited \in BOOLEAN /\ closed \in Closings

(* Types, and which thread holds a request where.                          *)
SocketTypeOK ==
  /\ SocketTypes /\ FlagTypes
  /\ \A t \in Threads : pc[t] \in {"push", "send"} <=> hand[t] # NoRequest

(* The threads there have been that may queue requests.                    *)
Callers == Users \cup {t \in SocketThreads : thread[t] # "null"}

(* The limit of the queue is checked before the push and not with it, so   *)
(* it can be passed; but by no more than one request for each further      *)
(* thread there has been, over all runs (ChatSocket.cpp:130, 139).         *)
QueueBounded == Size(sendQueue) <= MaxQueueSize - 1 + Cardinality(Callers)

InQueue(r) == \E i \in 1..Size(sendQueue) : sendQueue.items[i] = r

(* Every request that was asked for is in one place: in the hand of the    *)
(* caller, once in the queue, in the hand of the connection thread, or     *)
(* answered; so no promise is set twice and none is lost on the way        *)
(* (ChatSocket.cpp:137-144, ChatClient.cpp:194-199).                       *)
PromisesAccounted ==
  /\ \A i, j \in 1..Size(sendQueue) : i # j => sendQueue.items[i] # sendQueue.items[j]
  /\ \A r \in Requests : outcome[r] = "queued" <=> InQueue(r)
  /\ \A t \in Threads : pc[t] = "push" => outcome[hand[t]] = "asked"
  /\ \A t \in Threads : pc[t] = "send" => t = ConnThread /\ outcome[hand[t]] = "sending"
  /\ \A r \in Requests : outcome[r] \in {"asked", "sending"} => \E t \in Threads : hand[t] = r
  /\ \A t, u \in Threads : t # u /\ hand[t] # NoRequest => hand[t] # hand[u]

(* Once a CloseSocket has returned that found a socket with threads, the   *)
(* socket does not run and takes no request until the next Run, also when  *)
(* the return was an early one because another thread was closing it       *)
(* (ChatSocket.cpp:27-34).                                                 *)
ClosedMeansRefusing == closed = "in force" => goingExit /\ ~PushAllowed(sendQueue)

(* Any CloseSocket that has returned, also one that found no threads, has  *)
(* closed the socket (ChatSocket.cpp:27, 18).                              *)
CloseIsHeard == closed # "no" => goingExit /\ ~PushAllowed(sendQueue)

(* A user who calls Run, CloseSocket, Wait and the destructor in this      *)
(* order, and Run again only if it failed, never destroys a thread that    *)
(* still runs nor one that is gone (ChatSocket.cpp:20, 60).                *)
NoFault == object \in {"alive", "destroyed"}

(* No socket thread works any more on a socket whose Wait has returned.    *)
WaitMeansStopped == waited => \A t \in SocketThreads : pc[t] = "none"

(* The assertions at ChatSocket.cpp:29-30: CloseSocket finds both threads. *)
CloseFindsThreads ==
  \A t \in Threads : At(t, "disable push") =>
    \A s \in SocketThreads : thread[s] # "null"

-----------------------------------------------------------------------------
(* The requests in line are the one being sent and those in the queue.     *)
InLine == IF pc[ConnThread] = "send" THEN <<hand[ConnThread]>> \o sendQueue.items
                                     ELSE sendQueue.items

Fate(r) == IF outcome[r] \in {"new", "asked"} THEN "new"
           ELSE IF outcome[r] \in {"queued", "sending"} THEN "waiting"
           ELSE outcome[r]

FateOfAll == [r \in Requests |-> Fate(r)]

Delivery == INSTANCE RequestDelivery WITH fate <- FateOfAll, line <- InLine

(* The queue, its two locks and the three threads implement it: requests   *)
(* are answered once, in the order they were accepted, whoever queues them *)
(* and whenever the socket is closed and run again (ChatSocket.cpp:114-145,*)
(* ChatClient.cpp:190-205).                                                *)
DeliversInOrder == Delivery!DeliverySpec

-----------------------------------------------------------------------------
(* Wait returns once the socket is going to exit (ChatSocket.cpp:39-51).   *)
WaitReturns ==
  At(Owner, "join connection") /\ goingExit ~> AtHome(Owner)

(* While the socket runs, the future of an accepted request becomes ready  *)
(* (ChatClient.cpp:192-199).                                               *)
AnsweredWhileRunning ==
  \A r \in Requests : outcome[r] = "queued" ~> outcome[r] \in {"sent", "failed"} \/ goingExit

=============================================================================
