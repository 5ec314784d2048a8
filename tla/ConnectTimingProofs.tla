------------------------ MODULE ConnectTimingProofs -------------------------
(***************************************************************************)
(* Connect's attempts, for all parameters and any width of unsigned int:   *)
(* 500 ms at least for each attempt if the check of the parameters does    *)
(* not wrap; no more over the timeout than the last attempt takes, and no  *)
(* attempt lost to the rounding of the steps, if the sleep does not.       *)
(***************************************************************************)
EXTENDS ConnectTiming, TLAPS

(* The attempts so far fill their steps.                                   *)
PaceInv ==
  ProductFits =>
    /\ phase # "check" /\ result # "InvalidParam" => step >= 500
    /\ connectTime >= 500 * Failed

TimingInv ==
  /\ TimingTypeOK /\ PaceInv /\ OverrunBounded
  /\ phase = "check" \/ result = "InvalidParam" => countRetries = 0 /\ connectTime = 0
  /\ phase = "loop" => result = "TimeoutExpired"
  /\ phase = "done" => result # "TimeoutExpired"
  /\ phase = "done" /\ result = "Success" => countRetries > 0

-----------------------------------------------------------------------------
LEMMA DivBounds ==
  ASSUME NEW a \in Nat, NEW b \in Nat, b > 0
  PROVE  a \div b \in Nat /\ b * (a \div b) <= a /\ a < b * ((a \div b) + 1)
BY Z3

(* A timeout of 500 ms for each attempt makes steps of 500 ms.             *)
LEMMA StepIsLong ==
  ASSUME NEW t \in Nat, NEW n \in Nat, n > 0, t >= 500 * n
  PROVE  t \div n \in Nat /\ t \div n >= 500
<1> DEFINE q == t \div n
<1>1. q \in Nat /\ t < n * (q + 1) BY DivBounds
<1>2. ASSUME q < 500 PROVE FALSE
  <2>1. q + 1 <= 500 BY <1>1, <1>2
  <2> HIDE DEF q
  <2>2. n * (q + 1) <= n * 500 BY <1>1, <2>1
  <2> QED BY <1>1, <2>2
<1> QED BY <1>1, <1>2

(* The first sleep is within the step.                                     *)
LEMMA FirstSleepIsShort ==
  ASSUME NEW s \in Nat, NEW n \in Nat, NEW k \in Nat, n > 0, k <= n
  PROVE  (s * (n + k)) \div (2 * n) \in Nat /\ (s * (n + k)) \div (2 * n) <= s
<1> DEFINE x == s * (n + k)  y == 2 * n  q == x \div y
<1>1. x \in Nat /\ y \in Nat /\ y > 0 OBVIOUS
<1>2. q \in Nat /\ y * q <= x
  <2> HIDE DEF x, y
  <2> QED BY <1>1, DivBounds
<1>3. x <= s * y
  <2>1. n + k <= 2 * n OBVIOUS
  <2> QED BY <2>1
<1>4. ASSUME q > s PROVE FALSE
  <2> HIDE DEF x, q, y
  <2>1. y * q >= y * (s + 1) BY <1>1, <1>2, <1>4
  <2>2. y * (s + 1) = s * y + y BY <1>1
  <2> QED BY <1>1, <1>2, <1>3, <2>1, <2>2
<1> QED BY <1>2, <1>4

LEMMA UIntBounds ==
  ASSUME NEW n \in Nat
  PROVE  UInt(n) \in Nat /\ UInt(n) <= n /\ (n < UIntRange => UInt(n) = n)
<1>1. UIntRange \in Nat /\ UIntRange > 0 BY TimingAssumption
<1> QED BY <1>1 DEF UInt

LEMMA Numbers ==
  ASSUME TimingTypeOK
  PROVE  /\ timeout \in Nat /\ maxAttempts \in Nat /\ step \in Nat /\ countRetries \in Nat /\ connectTime \in Nat
         /\ timeout \in Timeouts /\ maxAttempts \in AttemptNos
<1>1. AttemptNos \subseteq Nat /\ Timeouts \subseteq Nat BY TimingAssumption
<1> QED BY <1>1 DEF TimingTypeOK

(* An attempt takes its step at least, and no more than that, its callback *)
(* and the lateness of its sleep, if the sleep before it does not wrap.    *)
LEMMA AttemptTakes ==
  ASSUME TimingTypeOK, AttemptFails
  PROVE  \E callback \in Delays, late \in Delays, e \in Nat :
           connectTime' = connectTime + e /\ e >= step /\ (SleepFits => e <= step + (callback + late))
<1>0. /\ maxAttempts \in Nat /\ step \in Nat /\ countRetries \in Nat /\ connectTime \in Nat
      /\ phase = "loop" /\ maxAttempts > 0 /\ countRetries < maxAttempts
  BY Numbers DEF TimingTypeOK, AttemptFails, MoreAttempts
<1>1. PICK slept \in {0} \cup FirstSleeps(countRetries + 1), callback \in Delays, late \in Delays :
        connectTime' = connectTime + Elapsed(slept, callback, late)
  BY DEF AttemptFails
<1>2. slept \in Nat /\ (SleepFits => slept <= step)
  <2>1. CASE slept = 0 BY <1>0, <2>1
  <2>2. CASE slept # 0
    <3> DEFINE k == countRetries + 1  more == maxAttempts + k  twice == 2 * maxAttempts
    <3>1. k \in Nat /\ k <= maxAttempts /\ more \in Nat /\ twice \in Nat /\ more <= twice BY <1>0
    <3>2. SleepDivisor # 0 /\ slept = FirstSleep(k) BY <1>1, <2>2 DEF FirstSleeps
    <3>3. UInt(more) \in Nat /\ UInt(twice) \in Nat /\ UInt(twice) = SleepDivisor
      BY <3>1, UIntBounds DEF SleepDivisor
    <3>4. slept = (step * UInt(more)) \div UInt(twice) BY <3>2, <3>3 DEF FirstSleep
    <3>5. step * UInt(more) \in Nat /\ UInt(twice) > 0 BY <1>0, <3>2, <3>3
    <3>6. slept \in Nat
      <4> DEFINE x == step * UInt(more)  y == UInt(twice)
      <4>1. x \in Nat /\ y \in Nat /\ y > 0 /\ slept = x \div y BY <3>3, <3>4, <3>5
      <4> HIDE DEF x, y
      <4> QED BY <4>1, DivBounds
    <3>7. ASSUME SleepFits PROVE slept <= step
      <4>1. twice < UIntRange /\ more < UIntRange /\ UIntRange \in Nat BY <3>1, <3>7, TimingAssumption DEF SleepFits
      <4>2. UInt(more) = more /\ UInt(twice) = twice BY <3>1, <4>1, UIntBounds
      <4>3. slept = (step * (maxAttempts + k)) \div (2 * maxAttempts) BY <3>4, <4>2
      <4> HIDE DEF k
      <4> QED BY <1>0, <3>1, <4>3, FirstSleepIsShort
    <3> QED BY <3>6, <3>7
  <2> QED BY <2>1, <2>2
<1>3. callback \in Nat /\ late \in Nat BY TimingAssumption
<1> DEFINE e == Elapsed(slept, callback, late)
<1>4. e \in Nat /\ e >= step /\ (SleepFits => e <= step + (callback + late))
  BY <1>0, <1>2, <1>3 DEF Elapsed, Longest
<1> HIDE DEF e
<1>5. connectTime' = connectTime + e BY <1>1 DEF e
<1> QED BY <1>4, <1>5

-----------------------------------------------------------------------------
LEMMA TimingInvInit == Init => TimingInv
<1> SUFFICES ASSUME Init PROVE TimingInv
    OBVIOUS
<1>1. AttemptNos \subseteq Nat BY TimingAssumption
<1>2. maxAttempts \in Nat /\ countRetries = 0 /\ connectTime = 0 /\ step = 0 /\ phase = "check" BY <1>1 DEF Init
<1>3. TimingTypeOK BY <1>2 DEF Init, TimingTypeOK
<1> QED BY <1>2, <1>3 DEF Init, TimingInv, PaceInv, OverrunBounded, Failed

LEMMA TimingInvNext == TimingInv /\ [Next]_vars => TimingInv'
<1> SUFFICES ASSUME TimingInv, [Next]_vars PROVE TimingInv'
    OBVIOUS
<1>0. /\ timeout \in Nat /\ maxAttempts \in Nat /\ step \in Nat /\ countRetries \in Nat /\ connectTime \in Nat
      /\ timeout \in Timeouts /\ maxAttempts \in AttemptNos /\ TimingTypeOK
  BY Numbers DEF TimingInv
<1>1. ASSUME CheckParams PROVE TimingInv'
  <2>1. /\ phase = "check" /\ countRetries = 0 /\ connectTime = 0
        /\ timeout' = timeout /\ maxAttempts' = maxAttempts /\ countRetries' = countRetries /\ connectTime' = connectTime
    BY <1>1 DEF CheckParams, TimingInv
  <2>2. CASE InvalidParams
    <3>1. phase' = "done" /\ result' = "InvalidParam" /\ step' = step BY <1>1, <2>2 DEF CheckParams
    <3> QED BY <1>0, <2>1, <3>1 DEF TimingInv, TimingTypeOK, PaceInv, ProductFits, OverrunBounded, Failed
  <2>3. CASE ~InvalidParams
    <3>1. phase' = "loop" /\ result' = "TimeoutExpired" /\ step' = timeout \div maxAttempts BY <1>1, <2>3 DEF CheckParams
    <3>2. maxAttempts > 0 BY <1>0, <2>3 DEF InvalidParams
    <3>3. step' \in Nat BY <1>0, <3>1, <3>2, DivBounds
    <3>4. ASSUME ProductFits PROVE step' >= 500
      <4>1. PICK product \in Nat : product = 500 * maxAttempts BY <1>0
      <4>2. UInt(product) = product /\ UInt(timeout) <= timeout /\ UInt(timeout) \in Nat
        BY <1>0, <3>4, <4>1, UIntBounds DEF ProductFits
      <4>3. UInt(timeout) >= UInt(product) BY <2>3, <4>1, <4>2 DEF InvalidParams
      <4>4. timeout >= 500 * maxAttempts BY <1>0, <4>1, <4>2, <4>3
      <4> QED BY <1>0, <3>1, <3>2, <4>4, StepIsLong
    <3> QED BY <1>0, <2>1, <3>1, <3>2, <3>3, <3>4 DEF TimingInv, TimingTypeOK, PaceInv, ProductFits, OverrunBounded, Failed
  <2> QED BY <2>2, <2>3
<1>2. ASSUME AttemptFails PROVE TimingInv'
  <2>1. /\ phase = "loop" /\ connectTime < timeout /\ countRetries < maxAttempts /\ countRetries' = countRetries + 1
        /\ phase' = phase /\ timeout' = timeout /\ maxAttempts' = maxAttempts /\ step' = step /\ result' = result
    BY <1>2 DEF AttemptFails, MoreAttempts
  <2>2. PICK callback \in Delays, late \in Delays, e \in Nat :
          connectTime' = connectTime + e /\ e >= step /\ (SleepFits => e <= step + (callback + late))
    BY <1>0, <1>2, AttemptTakes
  <2>3. result = "TimeoutExpired" /\ maxAttempts > 0 BY <2>1 DEF TimingInv, TimingTypeOK
  <2>4. callback \in Nat /\ late \in Nat BY TimingAssumption
  <2>5. connectTime' \in Nat /\ connectTime' >= connectTime + step BY <1>0, <2>2
  <2>6. OverrunBounded'
    <3>1. SleepFits => connectTime' < timeout + step + callback + late BY <1>0, <2>1, <2>2, <2>4
    <3> QED BY <2>1, <3>1 DEF OverrunBounded, SleepFits
  <2>7. PaceInv'
    <3>1. ASSUME ProductFits PROVE step >= 500 /\ connectTime' >= 500 * (countRetries + 1)
      <4>1. connectTime >= 500 * countRetries /\ step >= 500 BY <2>1, <2>3, <3>1 DEF TimingInv, PaceInv, Failed
      <4> QED BY <1>0, <2>5, <4>1
    <3>2. Failed' = countRetries + 1 BY <2>1 DEF Failed
    <3> QED BY <2>1, <3>1, <3>2 DEF PaceInv, ProductFits
  <2>8. TimingTypeOK' BY <1>0, <2>1, <2>5 DEF TimingTypeOK
  <2> QED BY <2>1, <2>3, <2>6, <2>7, <2>8 DEF TimingInv
<1>3. ASSUME AttemptSucceeds PROVE TimingInv'
  <2>1. /\ phase = "loop" /\ countRetries < maxAttempts /\ countRetries' = countRetries + 1 /\ phase' = "done" /\ result' = "Success"
        /\ timeout' = timeout /\ maxAttempts' = maxAttempts /\ step' = step /\ connectTime' = connectTime
        /\ result = "TimeoutExpired"
    BY <1>3 DEF AttemptSucceeds, MoreAttempts, TimingInv
  <2>2. Failed' = countRetries /\ Failed = countRetries BY <1>0, <2>1 DEF Failed
  <2>3. PaceInv' BY <2>1, <2>2 DEF TimingInv, PaceInv, ProductFits
  <2>4. OverrunBounded' BY <2>1 DEF TimingInv, OverrunBounded, SleepFits
  <2>5. TimingTypeOK' BY <1>0, <2>1 DEF TimingTypeOK
  <2> QED BY <1>0, <2>1, <2>3, <2>4, <2>5 DEF TimingInv
<1>4. ASSUME LoopEnds PROVE TimingInv'
  <2>1. /\ phase = "loop" /\ phase' = "done" /\ result' = "Error" /\ countRetries' = countRetries
        /\ timeout' = timeout /\ maxAttempts' = maxAttempts /\ step' = step /\ connectTime' = connectTime
        /\ result = "TimeoutExpired"
    BY <1>4 DEF LoopEnds, TimingInv
  <2>2. Failed' = Failed BY <2>1 DEF Failed
  <2>3. PaceInv' BY <2>1, <2>2 DEF TimingInv, PaceInv, ProductFits
  <2>4. OverrunBounded' BY <2>1 DEF TimingInv, OverrunBounded, SleepFits
  <2>5. TimingTypeOK' BY <1>0, <2>1 DEF TimingTypeOK
  <2> QED BY <2>1, <2>3, <2>4, <2>5 DEF TimingInv
<1>5. ASSUME DividesByZero PROVE TimingInv'
  <2>1. /\ phase = "loop" /\ phase' = "crashed" /\ UNCHANGED <<timeout, maxAttempts, step, countRetries, connectTime, result>>
        /\ result = "TimeoutExpired"
    BY <1>5 DEF DividesByZero, TimingInv
  <2>2. Failed' = Failed BY <2>1 DEF Failed
  <2>3. PaceInv' BY <2>1, <2>2 DEF TimingInv, PaceInv, ProductFits
  <2>4. OverrunBounded' BY <2>1 DEF TimingInv, OverrunBounded, SleepFits
  <2>5. TimingTypeOK' BY <1>0, <2>1 DEF TimingTypeOK
  <2> QED BY <2>1, <2>3, <2>4, <2>5 DEF TimingInv
<1>6. ASSUME UNCHANGED vars PROVE TimingInv'
  BY <1>6 DEF vars, TimingInv, TimingTypeOK, PaceInv, ProductFits, SleepFits, OverrunBounded, Failed
<1> QED BY <1>1, <1>2, <1>3, <1>4, <1>5, <1>6 DEF Next

(* For all timeouts and numbers of attempts, and however long the          *)
(* callbacks and the sleeps take: every attempt that failed has taken at   *)
(* least 500 ms, unless maxAttempts*500 wrapped (ChatClient.cpp:79-127).   *)
THEOREM SpacedWithoutWrap == Spec => []AttemptsAreSpaced
<1>1. TimingInv => AttemptsAreSpaced BY DEF TimingInv, PaceInv, AttemptsAreSpaced
<1> QED BY <1>1, TimingInvNext, TimingInvInit, PTL DEF Spec

(* For all of them Connect exceeds its timeout by less than one step, one  *)
(* callback and the lateness of one sleep, unless the arithmetic of the    *)
(* sleep wrapped, from 2^31 attempts on (ChatClient.cpp:99-127).           *)
THEOREM OverrunIsOneAttempt == Spec => []OverrunBounded
<1>1. TimingInv => OverrunBounded BY DEF TimingInv
<1> QED BY <1>1, TimingInvNext, TimingInvInit, PTL DEF Spec

-----------------------------------------------------------------------------
(* How late Connect is: the attempts so far have taken their steps and, at *)
(* most, the longest delays of any of them each time.                      *)
LatestSoFar ==
  \/ countRetries = 0 /\ connectTime = 0
  \/ \E callback \in Delays, late \in Delays :
       connectTime <= countRetries * (step + (callback + late))

LateInv ==
  /\ TimingTypeOK /\ NoAttemptLost
  /\ phase = "check" => countRetries = 0 /\ connectTime = 0
  /\ phase # "done" => result = "TimeoutExpired"
  /\ phase = "loop" => timeout >= 500 /\ maxAttempts * step <= timeout /\ (SleepFits => LatestSoFar)

(* One more attempt, as late as the latest of them.                        *)
LEMMA OneMoreStep ==
  ASSUME NEW k \in Nat, NEW s \in Nat, NEW a \in Nat, NEW b \in Nat, NEW time \in Nat,
         NEW e \in Nat, time <= k * (s + a), e <= s + b, a <= b
  PROVE  time + e <= (k + 1) * (s + b)
<1>1. k * (s + a) <= k * (s + b)
  <2> DEFINE d == b - a
  <2>1. d \in Nat /\ s + b = (s + a) + d OBVIOUS
  <2> HIDE DEF d
  <2>2. k * ((s + a) + d) = k * (s + a) + k * d /\ k * d \in Nat BY <2>1
  <2> QED BY <2>1, <2>2
<1>2. (k + 1) * (s + b) = k * (s + b) + (s + b) OBVIOUS
<1> QED BY <1>1, <1>2

LEMMA LateAttempt ==
  ASSUME LateInv, AttemptFails, SleepFits
  PROVE  LatestSoFar'
<1>0. /\ maxAttempts \in Nat /\ step \in Nat /\ countRetries \in Nat /\ connectTime \in Nat
      /\ LatestSoFar /\ countRetries' = countRetries + 1 /\ step' = step
  BY Numbers DEF LateInv, AttemptFails
<1>1. PICK callback \in Delays, late \in Delays, e \in Nat : connectTime' = connectTime + e /\ e <= step + (callback + late)
  BY AttemptTakes DEF LateInv
<1>3. callback \in Nat /\ late \in Nat BY TimingAssumption
<1>4. e \in Nat /\ e <= step + (callback + late) /\ connectTime' = connectTime + e BY <1>1
<1>5. CASE countRetries = 0 /\ connectTime = 0
  <2>1. connectTime' <= countRetries' * (step' + (callback + late)) BY <1>0, <1>3, <1>4, <1>5
  <2> QED BY <2>1 DEF LatestSoFar
<1>6. ASSUME NEW cb \in Delays, NEW lt \in Delays, connectTime <= countRetries * (step + (cb + lt))
      PROVE  LatestSoFar'
  <2>0. cb \in Nat /\ lt \in Nat BY TimingAssumption
  <2>1. CASE cb + lt <= callback + late
    <3> DEFINE a == cb + lt  b == callback + late
    <3>1. a \in Nat /\ b \in Nat /\ a <= b BY <1>3, <2>0, <2>1
    <3>2. connectTime <= countRetries * (step + a) /\ e <= step + b BY <1>4, <1>6
    <3> HIDE DEF a, b
    <3>3. connectTime + e <= (countRetries + 1) * (step + b) BY <1>0, <1>4, <3>1, <3>2, OneMoreStep
    <3>4. connectTime' <= countRetries' * (step' + (callback + late)) BY <1>0, <1>4, <3>3 DEF b
    <3> QED BY <3>4 DEF LatestSoFar
  <2>2. CASE callback + late < cb + lt
    <3> DEFINE a == cb + lt
    <3>1. a \in Nat /\ a <= a /\ connectTime <= countRetries * (step + a) /\ e <= step + a
      BY <1>0, <1>3, <1>4, <1>6, <2>0, <2>2
    <3> HIDE DEF a
    <3>2. connectTime + e <= (countRetries + 1) * (step + a) BY <1>0, <1>4, <3>1, OneMoreStep
    <3>3. connectTime' <= countRetries' * (step' + (cb + lt)) BY <1>0, <1>4, <3>2 DEF a
    <3> QED BY <3>3 DEF LatestSoFar
  <2> QED BY <1>3, <2>0, <2>1, <2>2
<1> QED BY <1>0, <1>5, <1>6 DEF LatestSoFar

(* Connect gives up early only if the delays make up a step.               *)
LEMMA GivesUpLate ==
  ASSUME LateInv, LoopEnds, SleepFits, countRetries < maxAttempts
  PROVE  \E callback \in Delays, late \in Delays : countRetries * (callback + late) >= step
<1>1. /\ maxAttempts \in Nat /\ step \in Nat /\ countRetries \in Nat /\ connectTime \in Nat
      /\ timeout \in Nat /\ phase = "loop" /\ timeout <= connectTime /\ LatestSoFar
      /\ timeout >= 500 /\ maxAttempts * step <= timeout
  BY Numbers DEF LateInv, LoopEnds, MoreAttempts
<1>2. PICK callback \in Delays, late \in Delays :
        connectTime <= countRetries * (step + (callback + late))
  BY <1>1 DEF LatestSoFar
<1> DEFINE d == callback + late
<1>3. d \in Nat BY TimingAssumption
<1> HIDE DEF d
<1>4. countRetries * (step + d) = countRetries * step + countRetries * d BY <1>1, <1>3
<1>5. (countRetries + 1) * step <= maxAttempts * step
  <2> DEFINE more == maxAttempts - (countRetries + 1)
  <2>1. more \in Nat /\ maxAttempts = (countRetries + 1) + more BY <1>1
  <2> HIDE DEF more
  <2>2. maxAttempts * step = (countRetries + 1) * step + more * step /\ more * step \in Nat BY <1>1, <2>1
  <2> QED BY <1>1, <2>2
<1>6. (countRetries + 1) * step = countRetries * step + step BY <1>1
<1>7. countRetries * step \in Nat /\ countRetries * d \in Nat /\ maxAttempts * step \in Nat BY <1>1, <1>3
<1>8. connectTime <= countRetries * step + countRetries * d BY <1>2, <1>4 DEF d
<1>9. countRetries * d >= step BY <1>1, <1>5, <1>6, <1>7, <1>8
<1> QED BY <1>9 DEF d

LEMMA LateInvInit == Init => LateInv
<1> SUFFICES ASSUME Init PROVE LateInv
    OBVIOUS
<1>1. TimingTypeOK BY TimingInvInit DEF TimingInv
<1> QED BY <1>1 DEF Init, LateInv, NoAttemptLost

LEMMA LateInvNext == LateInv /\ TimingTypeOK' /\ [Next]_vars => LateInv'
<1> SUFFICES ASSUME LateInv, TimingTypeOK', [Next]_vars PROVE LateInv'
    OBVIOUS
<1>0. /\ timeout \in Nat /\ maxAttempts \in Nat /\ step \in Nat /\ countRetries \in Nat /\ connectTime \in Nat
  BY Numbers DEF LateInv
<1>1. ASSUME CheckParams PROVE LateInv'
  <2>1. /\ phase = "check" /\ countRetries = 0 /\ connectTime = 0 /\ result = "TimeoutExpired"
        /\ timeout' = timeout /\ maxAttempts' = maxAttempts /\ countRetries' = 0 /\ connectTime' = 0
    BY <1>1 DEF CheckParams, LateInv
  <2>2. CASE InvalidParams
    <3>1. phase' = "done" /\ result' = "InvalidParam" BY <1>1, <2>2 DEF CheckParams
    <3> QED BY <2>1, <3>1 DEF LateInv, NoAttemptLost
  <2>3. CASE ~InvalidParams
    <3>1. phase' = "loop" /\ result' = "TimeoutExpired" /\ step' = timeout \div maxAttempts BY <1>1, <2>3 DEF CheckParams
    <3>2. maxAttempts > 0 /\ timeout >= 500 BY <1>0, <2>3 DEF InvalidParams
    <3>3. maxAttempts * step' <= timeout BY <1>0, <3>1, <3>2, DivBounds
    <3> QED BY <2>1, <3>1, <3>2, <3>3 DEF LateInv, NoAttemptLost, LatestSoFar
  <2> QED BY <2>2, <2>3
<1>2. ASSUME AttemptFails PROVE LateInv'
  <2>1. SleepFits => LatestSoFar' BY <1>2, LateAttempt
  <2>2. /\ phase = "loop" /\ phase' = phase /\ timeout' = timeout /\ maxAttempts' = maxAttempts /\ step' = step
        /\ result' = result /\ result = "TimeoutExpired"
    BY <1>2 DEF AttemptFails, LateInv
  <2>3. timeout >= 500 /\ maxAttempts * step <= timeout BY <2>2 DEF LateInv
  <2> QED BY <2>1, <2>2, <2>3 DEF LateInv, NoAttemptLost, SleepFits
<1>3. ASSUME AttemptSucceeds PROVE LateInv'
  BY <1>3 DEF AttemptSucceeds, LateInv, NoAttemptLost
<1>4. ASSUME LoopEnds PROVE LateInv'
  <2>1. /\ phase' = "done" /\ maxAttempts' = maxAttempts /\ countRetries' = countRetries /\ step' = step
    BY <1>4 DEF LoopEnds
  <2>2. NoAttemptLost' BY <1>4, <2>1, GivesUpLate DEF NoAttemptLost, SleepFits
  <2> QED BY <2>1, <2>2 DEF LateInv
<1>5. ASSUME DividesByZero PROVE LateInv'
  BY <1>5 DEF DividesByZero, LateInv, NoAttemptLost
<1>6. ASSUME UNCHANGED vars PROVE LateInv'
  <2>1. NoAttemptLost' BY <1>6 DEF vars, LateInv, NoAttemptLost, SleepFits
  <2>2. LatestSoFar => LatestSoFar' BY <1>6 DEF vars, LatestSoFar
  <2> QED BY <1>6, <2>1, <2>2 DEF vars, LateInv, SleepFits
<1> QED BY <1>1, <1>2, <1>3, <1>4, <1>5, <1>6 DEF Next

(* For all timeouts and numbers of attempts up to 2^31, and however long   *)
(* the callbacks and the sleeps take: Connect gives an attempt up only     *)
(* after the earlier ones have lost the time of one, also where            *)
(* maxAttempts*500 wrapped (ChatClient.cpp:84, 112, 124).                  *)
THEOREM NoAttemptIsLost == Spec => []NoAttemptLost
<1>1. LateInv => NoAttemptLost BY DEF LateInv
<1>2. TimingInv => TimingTypeOK BY DEF TimingInv
<1>3. Spec => []TimingInv BY TimingInvNext, TimingInvInit, PTL DEF Spec
<1>4. Spec => []TimingTypeOK BY <1>2, <1>3, PTL
<1> QED BY <1>1, <1>4, LateInvNext, LateInvInit, PTL DEF Spec

=============================================================================
