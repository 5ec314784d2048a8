----------------------------- MODULE ChatSocket -----------------------------
(***************************************************************************)
(* The life of a ChatSocket: Run, QueueRequest, CloseSocket, Wait and the  *)
(* destructor, called by threads of the user and by the callbacks of the   *)
(* socket's own two threads; and what becomes of the promise of every      *)
(* request.  The connection thread is the one of ChatClient, which the     *)
(* server's (module ChatServer) follows with locks and recipients added.   *)
(*                                                                         *)
(* As in ChatServer, an action is what a thread does between two accesses  *)
(* to shared state, the build is a release build, and Op_Flaw is Op with a *)
(* plausible bug.                                                          *)
(***************************************************************************)
EXTENDS SafeQueue, FiniteSets

CONSTANTS
  Users,         \* threads of the library user
  Owner,         \* the user that calls Run, Wait and the destructor
  ConnThread,    \* runs ConnectionThreadFunction
  ReqThread,     \* runs RequestThreadFunction
  Requests,      \* requests somebody may queue, each once
  NoRequest,     \* "no request in hand"
  MaxQueueSize,  \* Constant::MaxSendRequestsQueueSize (100 in the code)
  MaxRuns,       \* bound: calls of Run
  Liberties      \* what the users do beyond Run, CloseSocket, Wait, destroy in
                 \* this order: "rerun" Run again after Wait, "close in run"
                 \* CloseSocket while Run is on its way

SocketThreads == {ConnThread, ReqThread}

Threads == Users \cup SocketThreads

ASSUME SocketAssumption ==
  /\ Owner \in Users /\ IsFiniteSet(Users)
  /\ ConnThread # ReqThread /\ SocketThreads \cap Users = {}
  /\ NoRequest \notin Requests
  /\ MaxQueueSize \in Nat \ {0} /\ MaxRuns \in Nat
  /\ Liberties \subseteq {"rerun", "close in run"}

VARIABLES
  goingExit,     \* m_bGoingExit
  sendQueue,     \* m_sendRequestsQueue
  thread,        \* m_pConnectionThread, m_pRequestThread and what they point to
  object,        \* the ChatSocket: "alive", "destroyed", or how it broke
  pc,            \* where each thread is
  hand,          \* the request each thread holds
  outcome,       \* what has become of each request and of its promise
  runs,          \* calls of Run so far
  waited,        \* history: has Wait returned since the last Run?
  closed         \* history: what the CloseSocket calls that have returned
                 \* since the last Run found

vars == <<goingExit, sendQueue, thread, object, pc, hand, outcome, runs,
          waited, closed>>

(* A std::thread behind its pointer; "dangling": deleted, pointer kept.    *)
ThreadStates == {"null", "running", "ended", "joined", "dangling"}

(* "asked": QueueRequest has passed its checks; "queued": the promise is in *)
(* the queue; "sending": in the hand of the connection thread; "refused":   *)
(* the caller got a ready future with NoAction; "sent", "failed": set_value;*)
(* "broken": the promise was destroyed unset, the future throws.            *)
Outcomes == {"new", "asked", "refused", "queued", "sending", "sent", "failed",
             "broken"}

(* "early": the socket had no threads, Run was not called yet, on its way,  *)
(* or had failed; "in force": it had.                                      *)
Closings == {"no", "early", "in force"}

Labels == {"idle", "starting", "spawn connection", "spawn request",
           "join connection", "join request",
           "none", "top", "callbacks", "poll", "send", "handler",
           "push", "disable push", "exit"}

-----------------------------------------------------------------------------
(* Where a thread calls the public methods from, and returns to.           *)
Home(t) == IF t = ConnThread THEN "callbacks"
           ELSE IF t = ReqThread THEN "handler"
           ELSE "idle"

AtHome(t) == object = "alive" /\ pc[t] = Home(t)

At(t, label) == object = "alive" /\ pc[t] = label

Goto(t, label) == pc' = [pc EXCEPT ![t] = label]

Return(t) == Goto(t, Home(t))

RunInProgress == pc[Owner] \in {"starting", "spawn connection", "spawn request"}

NeverStarted == \A t \in SocketThreads : thread[t] = "null"

(* delete on both pointers: nothing for a null one, std::terminate for a   *)
(* thread that was not joined, undefined for one deleted already.          *)
DeleteThreads(next) ==
  IF \A t \in SocketThreads : thread[t] \in {"null", "joined"}
  THEN /\ thread' = [t \in SocketThreads |->
                       IF thread[t] = "null" THEN "null" ELSE "dangling"]
       /\ object' = next
  ELSE /\ object' = IF \E t \in SocketThreads : thread[t] = "dangling"
                    THEN "double delete" ELSE "terminated"
       /\ UNCHANGED thread

-----------------------------------------------------------------------------
(* Run: ChatSocket::Run, then the part of ChatClient::Run that may fail    *)
(* (GNS, Connect), then the threads.                                       *)

RunPrepares ==
  /\ AtHome(Owner) /\ goingExit /\ runs < MaxRuns
  /\ NeverStarted \/ ("rerun" \in Liberties /\ waited)
  /\ sendQueue' = EnablePush(sendQueue)
  /\ DeleteThreads("alive")
  /\ runs' = runs + 1
  /\ closed' = "no"
  /\ Goto(Owner, "starting")
  /\ UNCHANGED <<goingExit, hand, outcome, waited>>

RunFails ==
  /\ At(Owner, "starting") /\ Return(Owner)
  /\ UNCHANGED <<goingExit, sendQueue, thread, object, hand, outcome, runs, waited, closed>>

RunStarts ==
  /\ At(Owner, "starting")
  /\ goingExit' = FALSE
  /\ waited' = FALSE
  /\ Goto(Owner, "spawn connection")
  /\ UNCHANGED <<sendQueue, thread, object, hand, outcome, runs, closed>>

SpawnThread(t, label, next, start) ==
  /\ At(Owner, label)
  /\ thread' = [thread EXCEPT ![t] = "running"]
  /\ pc' = [pc EXCEPT ![Owner] = next, ![t] = start]
  /\ UNCHANGED <<goingExit, sendQueue, object, hand, outcome, runs, waited, closed>>

SpawnConnThread == SpawnThread(ConnThread, "spawn connection", "spawn request", "top")
SpawnReqThread  == SpawnThread(ReqThread, "spawn request", "idle", "handler")

-----------------------------------------------------------------------------
(* CloseSocket, by any thread.  The return is early if m_bGoingExit is set *)
(* already, by another CloseSocket or because Run has not cleared it.      *)

HasThreads == \A t \in SocketThreads : thread[t] \notin {"null", "dangling"}

CloseBegins(t) ==
  /\ AtHome(t)
  /\ t \in Users /\ RunInProgress => "close in run" \in Liberties
  /\ \/ /\ goingExit
        /\ closed' = IF HasThreads THEN "in force"
                     ELSE IF closed = "no" THEN "early" ELSE closed
        /\ UNCHANGED pc
     \/ ~goingExit /\ Goto(t, "disable push") /\ UNCHANGED closed
  /\ UNCHANGED <<goingExit, sendQueue, thread, object, hand, outcome, runs, waited>>

CloseDisablesPush_AfterExit(t) ==
  /\ At(t, "disable push")
  /\ goingExit' = TRUE
  /\ Goto(t, "exit")
  /\ UNCHANGED <<sendQueue, thread, object, hand, outcome, runs, waited, closed>>

CloseDisablesPush(t) ==
  /\ At(t, "disable push")
  /\ sendQueue' = DisablePush(sendQueue)
  /\ Goto(t, "exit")
  /\ UNCHANGED <<goingExit, thread, object, hand, outcome, runs, waited, closed>>

CloseExits(t) ==
  /\ At(t, "exit")
  /\ goingExit' = TRUE
  /\ closed' = "in force"
  /\ Return(t)
  /\ UNCHANGED <<sendQueue, thread, object, hand, outcome, runs, waited>>

-----------------------------------------------------------------------------
(* QueueRequest, by any thread: the user's OnPreQueueRequest or the type   *)
(* may refuse the request, then the size of the queue is checked, then the *)
(* request is pushed with its promise.                                     *)

HasRoom_OffByOne(q) == Size(q) <= MaxQueueSize

HasRoom(q) == Size(q) < MaxQueueSize

QueueChecks(t, r) ==
  /\ AtHome(t) /\ outcome[r] = "new"
  /\ \/ /\ outcome' = [outcome EXCEPT ![r] = "refused"]
        /\ UNCHANGED <<pc, hand>>
     \/ /\ HasRoom(sendQueue)
        /\ outcome' = [outcome EXCEPT ![r] = "asked"]
        /\ hand' = [hand EXCEPT ![t] = r]
        /\ Goto(t, "push")
  /\ UNCHANGED <<goingExit, sendQueue, thread, object, runs, waited, closed>>

QueuePushes_Unanswered(t) ==
  /\ At(t, "push")
  /\ sendQueue' = Push(sendQueue, hand[t])
  /\ outcome' = [outcome EXCEPT ![hand[t]] = "queued"]
  /\ hand' = [hand EXCEPT ![t] = NoRequest]
  /\ Return(t)
  /\ UNCHANGED <<goingExit, thread, object, runs, waited, closed>>

QueuePushes(t) ==
  /\ At(t, "push")
  /\ sendQueue' = Push(sendQueue, hand[t])
  /\ outcome' = [outcome EXCEPT ![hand[t]] =
                   IF PushAllowed(sendQueue) THEN "queued" ELSE "refused"]
  /\ hand' = [hand EXCEPT ![t] = NoRequest]
  /\ Return(t)
  /\ UNCHANGED <<goingExit, thread, object, runs, waited, closed>>

-----------------------------------------------------------------------------
(* The connection thread.  Its callbacks may call the methods above.       *)

ThreadEnds(t) ==
  /\ thread' = [thread EXCEPT ![t] = "ended"]
  /\ Goto(t, "none")

ConnTop_IgnoresExit ==
  /\ At(ConnThread, "top") /\ Return(ConnThread)
  /\ UNCHANGED <<goingExit, sendQueue, thread, object, hand, outcome, runs, waited, closed>>

ConnTop ==
  /\ At(ConnThread, "top")
  /\ IF goingExit THEN ThreadEnds(ConnThread)
                  ELSE Return(ConnThread) /\ UNCHANGED thread
  /\ UNCHANGED <<goingExit, sendQueue, object, hand, outcome, runs, waited, closed>>

StartPolling ==
  /\ AtHome(ConnThread) /\ Goto(ConnThread, "poll")
  /\ UNCHANGED <<goingExit, sendQueue, thread, object, hand, outcome, runs, waited, closed>>

KeepsPolling == ~goingExit /\ ~IsEmpty(sendQueue)

PopQueued_KeepsFront ==
  /\ At(ConnThread, "poll") /\ KeepsPolling
  /\ hand' = [hand EXCEPT ![ConnThread] = Front(sendQueue)]
  /\ outcome' = [outcome EXCEPT ![Front(sendQueue)] = "sending"]
  /\ Goto(ConnThread, "send")
  /\ UNCHANGED <<goingExit, sendQueue, thread, object, runs, waited, closed>>

PopQueued ==
  /\ At(ConnThread, "poll") /\ KeepsPolling
  /\ sendQueue' = Pop(sendQueue)
  /\ hand' = [hand EXCEPT ![ConnThread] = Front(sendQueue)]
  /\ outcome' = [outcome EXCEPT ![Front(sendQueue)] = "sending"]
  /\ Goto(ConnThread, "send")
  /\ UNCHANGED <<goingExit, thread, object, runs, waited, closed>>

SendQueued_KeepsRequest ==
  /\ At(ConnThread, "send")
  /\ \E result \in {"sent", "failed"} :
       outcome' = [outcome EXCEPT ![hand[ConnThread]] = result]
  /\ Goto(ConnThread, "poll")
  /\ UNCHANGED <<goingExit, sendQueue, thread, object, hand, runs, waited, closed>>

(* SendStringToServer succeeds or not; the promise is set either way.      *)
SendQueued_OnSuccessOnly ==
  /\ At(ConnThread, "send")
  /\ outcome' \in {outcome, [outcome EXCEPT ![hand[ConnThread]] = "sent"]}
  /\ hand' = [hand EXCEPT ![ConnThread] = NoRequest]
  /\ Goto(ConnThread, "poll")
  /\ UNCHANGED <<goingExit, sendQueue, thread, object, runs, waited, closed>>

SendQueued ==
  /\ At(ConnThread, "send")
  /\ \E result \in {"sent", "failed"} :
       outcome' = [outcome EXCEPT ![hand[ConnThread]] = result]
  /\ hand' = [hand EXCEPT ![ConnThread] = NoRequest]
  /\ Goto(ConnThread, "poll")
  /\ UNCHANGED <<goingExit, sendQueue, thread, object, runs, waited, closed>>

PollingDone ==
  /\ At(ConnThread, "poll") /\ ~KeepsPolling
  /\ Goto(ConnThread, "top")
  /\ UNCHANGED <<goingExit, sendQueue, thread, object, hand, outcome, runs, waited, closed>>

(* The request thread is always ready to call a handler; what it handles   *)
(* is in ChatServer and ChatClient.                                        *)
ReqEnds ==
  /\ AtHome(ReqThread) /\ goingExit
  /\ ThreadEnds(ReqThread)
  /\ UNCHANGED <<goingExit, sendQueue, object, hand, outcome, runs, waited, closed>>

-----------------------------------------------------------------------------
(* Wait and the destructor.                                                *)

WaitBegins ==
  /\ AtHome(Owner) /\ ~NeverStarted
  /\ \A t \in SocketThreads : thread[t] # "dangling"
  /\ Goto(Owner, "join connection")
  /\ UNCHANGED <<goingExit, sendQueue, thread, object, hand, outcome, runs, waited, closed>>

Join_Detaches(t, label) ==
  /\ At(Owner, label)
  /\ thread' = [thread EXCEPT ![t] = "joined"]

Join(t, label) ==
  /\ At(Owner, label)
  /\ thread[t] \in {"ended", "joined"}
  /\ thread' = [thread EXCEPT ![t] = "joined"]

JoinConnThread_Only ==
  /\ Join(ConnThread, "join connection")
  /\ waited' = TRUE
  /\ Return(Owner)
  /\ UNCHANGED <<goingExit, sendQueue, object, hand, outcome, runs, closed>>

JoinConnThread ==
  /\ Join(ConnThread, "join connection")
  /\ Goto(Owner, "join request")
  /\ UNCHANGED <<goingExit, sendQueue, object, hand, outcome, runs, waited, closed>>

JoinReqThread ==
  /\ Join(ReqThread, "join request")
  /\ waited' = TRUE
  /\ Return(Owner)
  /\ UNCHANGED <<goingExit, sendQueue, object, hand, outcome, runs, closed>>

Abandon ==
  /\ sendQueue' = [items |-> <<>>, pushEnabled |-> sendQueue.pushEnabled]
  /\ outcome' = [r \in Requests |-> IF outcome[r] = "queued" THEN "broken" ELSE outcome[r]]

Destroy ==
  /\ \A u \in Users : AtHome(u)
  /\ NeverStarted \/ waited
  /\ DeleteThreads("destroyed")
  /\ \/ object' = "destroyed" /\ Abandon
     \/ object' # "destroyed" /\ UNCHANGED <<sendQueue, outcome>>
  /\ UNCHANGED <<goingExit, pc, hand, runs, waited, closed>>

-----------------------------------------------------------------------------

Init ==
  /\ goingExit = TRUE
  /\ sendQueue = NewSafeQueue
  /\ thread = [t \in SocketThreads |-> "null"]
  /\ object = "alive"
  /\ pc = [t \in Threads |-> IF t \in Users THEN "idle" ELSE "none"]
  /\ hand = [t \in Threads |-> NoRequest]
  /\ outcome = [r \in Requests |-> "new"]
  /\ runs = 0 /\ waited = FALSE /\ closed = "no"

(* What thread t goes on doing once it is in a method.                     *)
MethodStep(t) == CloseDisablesPush(t) \/ CloseExits(t) \/ QueuePushes(t)

Call(t) == CloseBegins(t) \/ \E r \in Requests : QueueChecks(t, r)

RunStep == RunFails \/ RunStarts \/ SpawnConnThread \/ SpawnReqThread

ConnStep == ConnTop \/ StartPolling \/ PopQueued \/ SendQueued \/ PollingDone

WaitStep == JoinConnThread \/ JoinReqThread

OwnerCalls == RunPrepares \/ WaitBegins \/ Destroy

Over == object # "alive" /\ UNCHANGED vars

Next ==
  \/ OwnerCalls \/ RunStep \/ WaitStep
  \/ ConnStep \/ ReqEnds
  \/ \E t \in Threads : Call(t) \/ MethodStep(t)
  \/ Over

Spec == Init /\ [][Next]_vars

(* The threads are scheduled, GNS calls and the user's callbacks return.   *)
Fairness ==
  /\ WF_vars(RunStep) /\ WF_vars(WaitStep)
  /\ WF_vars(ConnStep) /\ WF_vars(ReqEnds)
  /\ \A t \in Threads : WF_vars(MethodStep(t))

FairSpec == Spec /\ Fairness

=============================================================================
