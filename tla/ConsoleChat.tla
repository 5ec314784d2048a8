---------------------------- MODULE ConsoleChat -----------------------------
(* The client of examples/ConsoleChat.cpp as the user of a ChatSocket: the *)
(* main thread runs the client, queues what is typed and waits for each    *)
(* future, and closes and waits for the client in the end.  The socket's   *)
(* own threads answer the handshake and close the socket when the server   *)
(* does.                                                                   *)
EXTENDS ChatSocketProperties

VARIABLES
  place,  \* where main is in the example
  typed   \* the request of the message typed last

consoleVars == <<vars, place, typed>>

Stay == UNCHANGED <<place, typed>>

Main(from, to) == place = from /\ place' = to

Calm == AtHome(Owner)

MainRuns == Main("run", "loop") /\ RunPrepares /\ UNCHANGED typed

(* while(client.IsRunning()): a message is typed and queued.  OnQueueRequest *)
(* of the example throws unless the queue has room.                        *)
MainTypes ==
  /\ Calm /\ Main("loop", "await") /\ ~goingExit
  /\ \E r \in Requests :
       /\ QueueChecks(Owner, r) /\ outcome'[r] = "asked"
       /\ typed' = r

MainLeavesLoop == Calm /\ Main("loop", "wait") /\ goingExit /\ UNCHANGED <<vars, typed>>

(* taskInfo.GetFutureResult() returns once the promise is set; a refused   *)
(* request has a ready future.  A broken promise makes main close the      *)
(* socket; "!exit" does so as well.                                        *)
FutureIsReady(r) == outcome[r] \in {"refused", "sent", "failed", "broken"}

MainGetsResult ==
  /\ Calm /\ place = "await" /\ FutureIsReady(typed)
  /\ \/ /\ Main("await", "loop") /\ outcome[typed] # "broken"
        /\ UNCHANGED vars
     \/ Main("await", "wait") /\ CloseBegins(Owner)
  /\ UNCHANGED typed

(* client.Wait(), whatever Run returned: m_pConnectionThread->get_id().    *)
MainWaits ==
  /\ Calm /\ Main("wait", "done")
  /\ \/ WaitBegins
     \/ /\ NeverStarted
        /\ object' = "null thread"
        /\ UNCHANGED <<goingExit, sendQueue, thread, pc, hand, outcome, runs, waited, closed>>
  /\ UNCHANGED typed

MainReturns == place = "done" /\ Destroy /\ Stay

MainStep == MainRuns \/ MainTypes \/ MainLeavesLoop \/ MainGetsResult \/ MainWaits \/ MainReturns

SocketStep ==
  /\ \/ RunStep \/ WaitStep \/ ConnStep \/ ReqEnds
     \/ \E t \in Threads : MethodStep(t)
     \/ \E t \in SocketThreads : Call(t)
  /\ Stay

ConsoleInit == Init /\ place = "run" /\ typed = NoRequest

ConsoleNext == MainStep \/ SocketStep \/ (Over /\ Stay)

(* Main does not stop between two calls, but nobody has to type anything.  *)
ConsoleSpec ==
  /\ ConsoleInit /\ [][ConsoleNext]_consoleVars
  /\ WF_consoleVars(RunStep /\ Stay) /\ WF_consoleVars(WaitStep /\ Stay)
  /\ WF_consoleVars(ConnStep /\ Stay) /\ WF_consoleVars(ReqEnds /\ Stay)
  /\ \A t \in Threads : WF_consoleVars(MethodStep(t) /\ Stay)
  /\ WF_consoleVars(MainGetsResult \/ MainLeavesLoop \/ MainWaits \/ MainReturns)

-----------------------------------------------------------------------------
(* ChatSocket.h:47-48, of Wait: "blocks current thread and waits for all   *)
(* socket threads to finish".  It never follows a null pointer.            *)
WaitFindsThreads == object # "null thread"

(* ConsoleChat.cpp:405-412: main gets a result, or a future_error if the   *)
(* promise is abandoned, for every message it has queued.                  *)
MainGetsAnswer == place = "await" ~> place # "await"

=============================================================================
