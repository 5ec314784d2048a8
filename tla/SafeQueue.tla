----------------------------- MODULE SafeQueue ------------------------------
(* SafeQueue of NickSVChat: a queue under a mutex, with a switch that turns *)
(* Push off.  Every method holds the mutex throughout, so each operator     *)
(* below is used in one step; what a caller does between two of them is not *)
(* protected.                                                               *)
EXTENDS Sequences, Naturals

SafeQueues(T) == [items : Seq(T), pushEnabled : BOOLEAN]

NewSafeQueue == [items |-> <<>>, pushEnabled |-> TRUE]

EnablePush(q)  == [items |-> q.items, pushEnabled |-> TRUE]

DisablePush(q) == [items |-> q.items, pushEnabled |-> FALSE]

(* Push returns m_bPushEnabled: whether the value is in the queue now.     *)
PushAllowed(q) == q.pushEnabled

Push(q, value) ==
  [items |-> IF PushAllowed(q) THEN Append(q.items, value) ELSE q.items,
   pushEnabled |-> q.pushEnabled]

Front(q) == Head(q.items)

Pop(q)   == [items |-> Tail(q.items), pushEnabled |-> q.pushEnabled]

IsEmpty(q) == q.items = <<>>

Size(q)    == Len(q.items)

=============================================================================
