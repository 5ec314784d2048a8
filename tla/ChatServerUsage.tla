-------------------------- MODULE ChatServerUsage --------------------------
(***************************************************************************)
(* ChatServer used in two ways its documentation shows:                    *)
(*   - OnHandleRequest(ClientInfoRequest) waits for the future of the      *)
(*     TaskInfo it is given (ChatServer.h:427);                            *)
(*   - a user's thread calls LockAll(), RemoveClient(id), UnlockAll()      *)
(*     (Types.h:131-137).                                                  *)
(***************************************************************************)
EXTENDS ChatServer

(* The handler is called before the guard of the client's lock goes out of *)
(* scope, so the thread waits with the lock held.                          *)
AuthorizeAndWait ==
  /\ pushEnabled /\ Len(sendQueue) < MaxQueueSize
  /\ StoreAndAnswer(TRUE)
  /\ lock' = [lock EXCEPT ![handling.userID] = ReqThread]
  /\ Goto(ReqThread, "await")
  /\ UNCHANGED <<handling, KeptByRequests>>

(* The promise is set when the connection thread is done with the answer.  *)
AnswerSent ==
  /\ pc[ConnThread] = "lookup" => ~sending.awaited
  /\ \A i \in 1..Len(sendQueue) : ~sendQueue[i].awaited

StopWaiting ==
  /\ pc[ReqThread] = "await" /\ AnswerSent
  /\ lock' = [lock EXCEPT ![handling.userID] = NoThread]
  /\ Handled
  /\ UNCHANGED <<mapClients, sendQueue, handleQueue, KeptByRequests>>

WaitingStep == AuthorizeAndWait \/ StopWaiting

(* RemoveClient begins with a LockAll of its own.                          *)
LockAllClients(u) ==
  /\ pc[u] = "idle" /\ AllFree
  /\ lock' = [id \in UserIDs |-> u]
  /\ Goto(u, "removing")
  /\ UNCHANGED <<network, tables, queues, work>>

RemoveUnderLockAll(u) ==
  /\ pc[u] = "removing" /\ AllFree
  /\ Goto(u, "idle")
  /\ UNCHANGED <<network, tables, lock, queues, work>>

LockedRemoval(u) == LockAllClients(u) \/ RemoveUnderLockAll(u)

-----------------------------------------------------------------------------
WaitingSpec ==
  /\ Init /\ [][Next \/ WaitingStep]_vars
  /\ WF_vars(ConnStep) /\ WF_vars(ReqStep \/ WaitingStep)

LockedRemovalSpec ==
  /\ Init /\ [][Next \/ \E u \in UserThreads : LockedRemoval(u)]_vars
  /\ WF_vars(ConnStep) /\ WF_vars(ReqStep)
  /\ \A u \in UserThreads : WF_vars(RemoveUnderLockAll(u))

(* ChatServer.h:427: "Unlike OnAcceptClient you can wait for TaskInfo's    *)
(* future result inside", so the wait comes to an end.                     *)
HandlerReturns == pc[ReqThread] = "await" ~> pc[ReqThread] # "await"

(* Types.h:131-137: the removal under LockAll() returns.                   *)
RemovalReturns ==
  \A u \in UserThreads : pc[u] = "removing" ~> pc[u] # "removing"

=============================================================================
