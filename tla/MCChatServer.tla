---------------------------- MODULE MCChatServer ----------------------------
(* Instances of ChatServer for TLC.                                        *)
EXTENDS ChatServerProperties, TLC, SequencesExt

Symmetry == Permutations(Conns)

(* A server without requests, whose threads are at the top of their loops. *)
Quiet ==
  /\ callbacks = <<>>
  /\ inbox = [c \in Conns |-> <<>>] /\ outbox = [c \in Conns |-> <<>>]
  /\ serial = 0
  /\ boundID = mapConnections
  /\ lock = [id \in UserIDs |-> NoThread]
  /\ sendQueue = <<>> /\ handleQueue = <<>>
  /\ pushEnabled = TRUE /\ goingExit = FALSE
  /\ pc = [t \in Threads |->
             CASE t \in {ConnThread, ReqThread}  -> "top"
               [] t \in OtherCallbackThreads    -> "callbacks"
               [] t \in UserThreads             -> "idle"]
  /\ place = [t \in CallbackThreads |-> Nowhere]
  /\ polls = 0
  /\ received = NoRequest /\ sending = NoRequest /\ handling = NoRequest

(* A state the server reaches when all the connections have come and       *)
(* finished their handshakes, with the ids in any fixed order; the history *)
(* of what they were sent is dropped.                                      *)
ConnsInOrder == SetToSeq(Conns)

IDOf(c) == LibReservedUserIDs - 1 + CHOOSE i \in 1..Len(ConnsInOrder) : ConnsInOrder[i] = c

InitEstablished ==
  /\ connState = [c \in Conns |-> "Connected"]
  /\ mapClients = [id \in UserIDs |->
       IF \E c \in Conns : IDOf(c) = id
       THEN [connection |-> CHOOSE c \in Conns : IDOf(c) = id,
             userID |-> id, state |-> "Active"]
       ELSE NoClient]
  /\ mapConnections = [c \in Conns |-> IDOf(c)]
  /\ lastFreeID = LibReservedUserIDs + Cardinality(Conns)
  /\ Quiet

SpecEstablished == InitEstablished /\ [][Next]_vars

(* The user has reserved the first id before anybody came, so that         *)
(* GenerateUniqueUserID has to pass it.                                    *)
InitReserved ==
  /\ connState = [c \in Conns |-> "Unused"]
  /\ mapClients = [id \in UserIDs |->
       IF id = LibReservedUserIDs THEN ReservedClient ELSE NoClient]
  /\ mapConnections = [c \in Conns |-> InvalidUserID]
  /\ lastFreeID = LibReservedUserIDs
  /\ Quiet

FairSpecReserved == InitReserved /\ [][Next]_vars /\ Fairness

=============================================================================
