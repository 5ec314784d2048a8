----------------------------- MODULE Membership -----------------------------
(* What ChatServer promises about its clients, without tables, locks,       *)
(* queues or threads: a connection joins once, under an id nobody has or    *)
(* ever had; it becomes active only if it has sent this id back; it leaves  *)
(* once, and for good.                                                      *)
CONSTANTS
  Conns,    \* connections
  UserIDs,  \* all ids
  GivenIDs, \* ids that may be given to a client
  NoID      \* the id of a connection that never was a client

VARIABLES
  stage,   \* of each connection
  idOf,    \* the id each connection is or was a client under
  claims   \* pairs of a connection and an id it has sent, not yet handled

memberVars == <<stage, idOf, claims>>

Stages == {"outside", "joined", "active", "gone"}

IsMember(c) == stage[c] \in {"joined", "active"}

MemberInit ==
  /\ stage = [c \in Conns |-> "outside"]
  /\ idOf = [c \in Conns |-> NoID]
  /\ claims = {}

(* Claims may be dropped whenever the server does something else.          *)
ClaimsShrink == claims' \subseteq claims

Claim(c, id) ==
  /\ claims' = claims \cup {<<c, id>>}
  /\ UNCHANGED <<stage, idOf>>

Forget == ClaimsShrink /\ UNCHANGED <<stage, idOf>>

Join(c, id) ==
  /\ stage[c] = "outside" /\ \A d \in Conns : idOf[d] # id
  /\ stage' = [stage EXCEPT ![c] = "joined"]
  /\ idOf' = [idOf EXCEPT ![c] = id]
  /\ UNCHANGED claims

Activate(c) ==
  /\ stage[c] = "joined" /\ <<c, idOf[c]>> \in claims
  /\ stage' = [stage EXCEPT ![c] = "active"]
  /\ ClaimsShrink /\ UNCHANGED idOf

Leave(c) ==
  /\ IsMember(c)
  /\ stage' = [stage EXCEPT ![c] = "gone"]
  /\ ClaimsShrink /\ UNCHANGED idOf

LeaveAll ==
  /\ stage' = [c \in Conns |-> IF IsMember(c) THEN "gone" ELSE stage[c]]
  /\ ClaimsShrink /\ UNCHANGED idOf

MemberNext ==
  \/ \E c \in Conns, id \in UserIDs : Claim(c, id)
  \/ Forget
  \/ \E c \in Conns, id \in GivenIDs : Join(c, id)
  \/ \E c \in Conns : Activate(c) \/ Leave(c)
  \/ LeaveAll

MemberSpec == MemberInit /\ [][MemberNext]_memberVars

=============================================================================
