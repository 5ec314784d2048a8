--------------------------- MODULE ConnectTiming ----------------------------
(***************************************************************************)
(* The time ChatClient::Connect takes: the check of its parameters, the    *)
(* steps the timeout is divided into and the attempts.  Times are in       *)
(* milliseconds.  What ChatClient.tla leaves out of Connect.               *)
(***************************************************************************)
EXTENDS Integers

CONSTANTS
  Timeouts,     \* the timeouts OnPreConnect may set
  AttemptNos,   \* and the maxAttempts
  UIntRange,    \* how many unsigned ints there are: 2^32, fewer in a run
  Delays        \* how long a callback takes, or how much a sleep exceeds its time

ASSUME TimingAssumption ==
  /\ UIntRange \in Nat \ {0} /\ AttemptNos \subseteq 0..(UIntRange - 1)
  /\ Timeouts \subseteq Nat /\ Delays \subseteq Nat

VARIABLES
  phase,        \* "check", "loop", "done", "crashed"
  timeout, maxAttempts, step,
  countRetries, connectTime,
  result

vars == <<phase, timeout, maxAttempts, step, countRetries, connectTime, result>>

Longest(a, b) == IF a < b THEN b ELSE a

UInt(n) == n % UIntRange

InvalidParams == maxAttempts = 0 \/ timeout < 500 \/ UInt(timeout) < UInt(500 * maxAttempts)

CheckParams ==
  /\ phase = "check"
  /\ IF InvalidParams
       THEN phase' = "done" /\ result' = "InvalidParam" /\ UNCHANGED step
       ELSE phase' = "loop" /\ result' = "TimeoutExpired" /\ step' = timeout \div maxAttempts
  /\ UNCHANGED <<timeout, maxAttempts, countRetries, connectTime>>

(* The sleep before the state of the connection is looked at again.        *)
SleepDivisor == UInt(2 * maxAttempts)

FirstSleep(count) == (step * UInt(maxAttempts + count)) \div SleepDivisor

FirstSleeps(count) == IF SleepDivisor = 0 THEN {} ELSE {FirstSleep(count)}

MoreAttempts_ByCount == countRetries < maxAttempts

MoreAttempts_ByTime == connectTime < timeout

MoreAttempts == connectTime < timeout /\ countRetries < maxAttempts

(* The rest of the step is slept through after OnConnectAttemptFailed.     *)
Elapsed_SleepsAgain(slept, callback, late) == slept + callback + step + late

Elapsed_NoRest(slept, callback, late) == slept + callback + late

Elapsed(slept, callback, late) == Longest(step, slept + callback) + late

(* No handle, or a connection that failed at once or was still connecting  *)
(* after the first sleep.  A division by zero that does not stop the       *)
(* program gives zero.                                                     *)
AttemptFails ==
  /\ phase = "loop" /\ MoreAttempts
  /\ countRetries' = countRetries + 1
  /\ \E slept \in {0} \cup FirstSleeps(countRetries + 1), callback \in Delays, late \in Delays :
       connectTime' = connectTime + Elapsed(slept, callback, late)
  /\ UNCHANGED <<phase, timeout, maxAttempts, step, result>>

DividesByZero ==
  /\ phase = "loop" /\ MoreAttempts /\ SleepDivisor = 0
  /\ phase' = "crashed"
  /\ UNCHANGED <<timeout, maxAttempts, step, countRetries, connectTime, result>>

AttemptSucceeds ==
  /\ phase = "loop" /\ MoreAttempts
  /\ countRetries' = countRetries + 1
  /\ phase' = "done" /\ result' = "Success"
  /\ UNCHANGED <<timeout, maxAttempts, step, connectTime>>

(* Every attempt that failed has left m_hConnection invalid.               *)
LoopEnds ==
  /\ phase = "loop" /\ ~MoreAttempts
  /\ phase' = "done" /\ result' = "Error"
  /\ UNCHANGED <<timeout, maxAttempts, step, countRetries, connectTime>>

Init ==
  /\ phase = "check" /\ timeout \in Timeouts /\ maxAttempts \in AttemptNos
  /\ step = 0 /\ countRetries = 0 /\ connectTime = 0 /\ result = "TimeoutExpired"

Next == CheckParams \/ AttemptFails \/ DividesByZero \/ AttemptSucceeds \/ LoopEnds

Spec == Init /\ [][Next]_vars

-----------------------------------------------------------------------------
TimingTypeOK ==
  /\ phase \in {"check", "loop", "done", "crashed"} /\ timeout \in Timeouts /\ maxAttempts \in AttemptNos
  /\ step \in Nat /\ countRetries \in 0..maxAttempts /\ connectTime \in Nat
  /\ result \in {"Success", "InvalidParam", "TimeoutExpired", "Error"}
  /\ phase = "loop" => maxAttempts > 0

Failed == IF phase = "done" /\ result = "Success" THEN countRetries - 1 ELSE countRetries

(* Neither maxAttempts*500 nor 2*maxAttempts wraps: up to 8 589 934 and    *)
(* 2 147 483 647 attempts.                                                 *)
ProductFits == 500 * maxAttempts < UIntRange
SleepFits   == 2 * maxAttempts < UIntRange

(* ChatClient.h:88-89: "timeout should be greater or equal than            *)
(* 500ms*maxAttempts (at least 500ms per attempt)".  The attempts that     *)
(* failed took that long each, unless the check wrapped.                   *)
AttemptsAreSpaced == ProductFits /\ phase # "check" => connectTime >= 500 * Failed

(* The same of every maxAttempts OnPreConnect may set.                     *)
AllAttemptsAreSpaced == phase # "check" => connectTime >= 500 * Failed

(* 2*maxAttempts at ChatClient.cpp:112 is never zero.                      *)
NeverDividesByZero == phase # "crashed"

(* Connect goes over its timeout by no more than the last attempt, its     *)
(* callback and the lateness of its sleep, unless the arithmetic of the    *)
(* sleep wrapped (ChatClient.cpp:99-127).                                  *)
OverrunBounded ==
  \/ ~SleepFits
  \/ connectTime < timeout
  \/ connectTime = 0
  \/ \E callback \in Delays, late \in Delays : connectTime < timeout + step + callback + late

(* The attempts fit into the timeout: one is given up only after the       *)
(* earlier ones have lost, in callbacks and in late sleeps, the time of    *)
(* one, unless the arithmetic of the sleep wrapped (ChatClient.cpp:84,     *)
(* 112, 124).                                                              *)
NoAttemptLost ==
  SleepFits /\ result = "Error" /\ countRetries < maxAttempts
    => \E callback \in Delays, late \in Delays : countRetries * (callback + late) >= step

(* ChatClient.cpp:51, of the result TimeoutExpired: "Cannot Connect().     *)
(* Timeout expired".                                                       *)
TimeoutIsReported == result = "Error" => connectTime < timeout

=============================================================================
