-------------------------- MODULE RequestDelivery ---------------------------
(* What QueueRequest promises: a request is refused at once, or accepted    *)
(* into a line; the first of the line is sent or fails, in the order of     *)
(* acceptance, once; when the socket is destroyed, those still in line are  *)
(* given up and their owners told.  Nothing is said here of threads.        *)
EXTENDS Sequences

CONSTANT Requests

VARIABLES
  fate,   \* of each request
  line    \* the accepted requests nobody has answered yet

deliveryVars == <<fate, line>>

Fates == {"new", "refused", "waiting", "sent", "failed", "broken"}

DeliveryInit == fate = [r \in Requests |-> "new"] /\ line = <<>>

Refuse(r) ==
  /\ fate[r] = "new"
  /\ fate' = [fate EXCEPT ![r] = "refused"]
  /\ UNCHANGED line

Accept(r) ==
  /\ fate[r] = "new"
  /\ fate' = [fate EXCEPT ![r] = "waiting"]
  /\ line' = Append(line, r)

AnswerFirst(answer) ==
  /\ line # <<>>
  /\ fate' = [fate EXCEPT ![Head(line)] = answer]
  /\ line' = Tail(line)

GiveUp ==
  /\ fate' = [r \in Requests |-> IF fate[r] = "waiting" THEN "broken" ELSE fate[r]]
  /\ line' = <<>>

DeliveryNext ==
  \/ \E r \in Requests : Refuse(r) \/ Accept(r)
  \/ \E answer \in {"sent", "failed"} : AnswerFirst(answer)
  \/ GiveUp

DeliverySpec == DeliveryInit /\ [][DeliveryNext]_deliveryVars

=============================================================================
