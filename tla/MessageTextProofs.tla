------------------------- MODULE MessageTextProofs --------------------------
(***************************************************************************)
(* IsValidUTF8String decides well-formedness, for every string, and a      *)
(* Message's text stays well-formed.  The loop's invariant: in the bytes   *)
(* read so far every byte is in its place, and the characters end there.   *)
(***************************************************************************)
EXTENDS MessageText, TLAPS

InPlace(s, n, k) ==
  IF IsContinuation(s[k])
    THEN HasLeading(s, k)
    ELSE /\ NumBytes(s[k]) > 0 /\ k + NumBytes(s[k]) - 1 <= n
         /\ \A j \in 1..(NumBytes(s[k]) - 1) : IsContinuation(s[k + j])

PrefixInv == \A k \in 1..i : InPlace(str, i, k)

StopInv ==
  /\ verdict = "valid" => i = Len(str)
  /\ verdict = "invalid" => i < Len(str) /\ ~CharFits(i)

TextInv == TextTypeOK /\ PrefixInv /\ StopInv /\ TextIsWellFormed

-----------------------------------------------------------------------------
(* A leading byte is no continuation byte.                                 *)
LEMMA LeadingIsNoContinuation ==
  \A c \in 0..255 :
    /\ NumBytes(c) \in 0..4
    /\ NumBytes(c) > 0 => ~IsContinuation(c)
BY DEF NumBytes, IsContinuation

LEMMA BytesOfAString ==
  ASSUME NEW s \in Seq(Bytes), NEW k \in 1..Len(s)
  PROVE  s[k] \in 0..255
<1>1. s[k] \in Bytes OBVIOUS
<1> QED BY <1>1, BytesAssumption

(* A string read to its end is well-formed.                                *)
LEMMA ReadToTheEnd ==
  ASSUME NEW s \in Seq(Bytes), \A k \in 1..Len(s) : InPlace(s, Len(s), k)
  PROVE  WellFormed(s)
BY DEF InPlace, WellFormed, LeadingFits

(* One more character in its place.                                        *)
LEMMA OneMoreChar ==
  ASSUME NEW s \in Seq(Bytes), NEW n \in 0..Len(s), n < Len(s),
         \A k \in 1..n : InPlace(s, n, k),
         NEW m \in 1..4, m = NumBytes(s[n + 1]), n + m <= Len(s),
         \A j \in 1..(m - 1) : IsContinuation(s[n + j + 1])
  PROVE  \A k \in 1..(n + m) : InPlace(s, n + m, k)
<1> TAKE k \in 1..(n + m)
<1>1. n + 1 \in 1..Len(s) /\ s[n + 1] \in 0..255 BY BytesOfAString
<1>2. ~IsContinuation(s[n + 1])
  <2>1. NumBytes(s[n + 1]) > 0 OBVIOUS
  <2> QED BY <1>1, <2>1, LeadingIsNoContinuation
<1>3. CASE k \in 1..n
  <2>1. InPlace(s, n, k) BY <1>3
  <2>2. s[k] \in 0..255 BY <1>3, BytesOfAString
  <2>3. NumBytes(s[k]) \in 0..4 BY <2>2, LeadingIsNoContinuation
  <2> QED BY <2>1, <2>3 DEF InPlace
<1>4. CASE k = n + 1
  <2>1. \A j \in 1..(m - 1) : IsContinuation(s[k + j])
    <3> TAKE j \in 1..(m - 1)
    <3>1. k + j = n + j + 1 BY <1>4
    <3> QED BY <3>1
  <2> QED BY <1>2, <1>4, <2>1 DEF InPlace
<1>5. CASE k > n + 1
  <2> DEFINE d == k - (n + 1)
  <2>1. d \in 1..(m - 1) /\ d \in 1..3 /\ k - d = n + 1 /\ d < k BY <1>5
  <2>2. \A e \in 0..(d - 1) : IsContinuation(s[k - e])
    <3> TAKE e \in 0..(d - 1)
    <3>1. k - e - n - 1 \in 1..(m - 1) /\ n + (k - e - n - 1) + 1 = k - e BY <2>1
    <3> QED BY <3>1
  <2>3. HasLeading(s, k) BY <2>1, <2>2 DEF HasLeading
  <2>4. IsContinuation(s[k])
    <3>1. k - 0 = k /\ 0 \in 0..(d - 1) BY <2>1
    <3> QED BY <2>2, <3>1
  <2> QED BY <2>3, <2>4 DEF InPlace
<1> QED BY <1>3, <1>4, <1>5

(* Where the next character does not fit, the string is not well-formed.   *)
LEMMA StuckIsIllFormed ==
  ASSUME NEW s \in Seq(Bytes), NEW n \in 0..Len(s), n < Len(s),
         \A k \in 1..n : InPlace(s, n, k),
         ~(LET m == NumBytes(s[n + 1]) IN
             /\ m > 0 /\ n + m <= Len(s)
             /\ \A j \in 1..(m - 1) : IsContinuation(s[n + j + 1])),
         WellFormed(s)
  PROVE  FALSE
<1> DEFINE p == n + 1
<1>1. p \in 1..Len(s) /\ s[p] \in 0..255 BY BytesOfAString
<1>2. NumBytes(s[p]) \in 0..4 BY <1>1, LeadingIsNoContinuation
<1>3. CASE IsContinuation(s[p])
  <2>1. HasLeading(s, p) BY <1>1, <1>3 DEF WellFormed
  <2>2. PICK d \in 1..3 : d < p /\ NumBytes(s[p - d]) > d BY <2>1 DEF HasLeading
  <2>3. p - d \in 1..n BY <2>2
  <2>4. s[p - d] \in 0..255 BY <2>3, BytesOfAString
  <2>5. ~IsContinuation(s[p - d]) /\ NumBytes(s[p - d]) \in 0..4
    <3>1. NumBytes(s[p - d]) \in 0..4 BY <2>4, LeadingIsNoContinuation
    <3>2. NumBytes(s[p - d]) > 0 BY <2>2, <3>1
    <3> QED BY <2>4, <3>1, <3>2, LeadingIsNoContinuation
  <2>6. p - d + NumBytes(s[p - d]) - 1 <= n BY <2>3, <2>5 DEF InPlace
  <2> QED BY <2>2, <2>5, <2>6
<1>4. CASE ~IsContinuation(s[p])
  <2>1. NumBytes(s[p]) > 0 /\ LeadingFits(s, p) BY <1>1, <1>4 DEF WellFormed
  <2>2. \A j \in 1..(NumBytes(s[p]) - 1) : IsContinuation(s[p + j]) BY <2>1 DEF LeadingFits
  <2>3. \A j \in 1..(NumBytes(s[p]) - 1) : IsContinuation(s[n + j + 1])
    <3> TAKE j \in 1..(NumBytes(s[p]) - 1)
    <3>1. p + j = n + j + 1 BY <1>2
    <3> QED BY <2>2, <3>1
  <2>4. n + NumBytes(s[p]) <= Len(s) BY <1>2, <2>1 DEF LeadingFits
  <2> QED BY <2>1, <2>3, <2>4
<1> QED BY <1>3, <1>4

-----------------------------------------------------------------------------
LEMMA TextInvInit == Init => TextInv
BY DEF Init, TextInv, TextTypeOK, PrefixInv, StopInv, TextIsWellFormed, WellFormed

LEMMA TextInvNext == TextInv /\ [Next]_vars => TextInv'
<1> SUFFICES ASSUME TextInv, [Next]_vars PROVE TextInv'
    OBVIOUS
<1> USE DEF TextInv
<1>1. ASSUME NEW s \in Strings, SetText(s) PROVE TextInv'
  <2>1. str' = s /\ s \in Seq(Bytes) /\ i' = 0 /\ verdict' = "checking" /\ text' = text /\ returned' = returned
    BY <1>1, StringsAssumption DEF SetText
  <2>2. TextTypeOK' BY <2>1 DEF TextTypeOK
  <2>3. PrefixInv' BY <2>1 DEF PrefixInv
  <2>4. StopInv' BY <2>1 DEF StopInv
  <2>5. TextIsWellFormed' BY <2>1 DEF TextIsWellFormed
  <2> QED BY <2>2, <2>3, <2>4, <2>5
<1>2. ASSUME NextChar PROVE TextInv'
  <2> DEFINE m == NumBytes(str[i + 1])
  <2>1. i' = i + m /\ str' = str /\ text' = text /\ verdict' = verdict /\ returned' = returned /\ verdict = "checking"
    BY <1>2 DEF NextChar
  <2>2. str \in Seq(Bytes) /\ i \in 0..Len(str) /\ i < Len(str) BY <1>2 DEF NextChar, TextTypeOK
  <2>3. str[i + 1] \in 0..255 BY <2>2, BytesOfAString
  <2>4. m > 0 /\ i + m <= Len(str) /\ \A j \in 1..(m - 1) : IsContinuation(str[i + j + 1])
    BY <1>2 DEF NextChar, CharFits
  <2>5. m \in 1..4
    <3>1. NumBytes(str[i + 1]) \in 0..4 BY <2>3, LeadingIsNoContinuation
    <3> QED BY <2>4, <3>1
  <2>6. \A k \in 1..(i + m) : InPlace(str, i + m, k)
    <3>1. \A k \in 1..i : InPlace(str, i, k) BY DEF PrefixInv
    <3> HIDE DEF m
    <3>2. m = NumBytes(str[i + 1]) BY DEF m
    <3> QED BY <2>2, <2>4, <2>5, <3>1, <3>2, OneMoreChar
  <2>7. i + m \in 0..Len(str) BY <2>2, <2>4, <2>5
  <2> HIDE DEF m
  <2>8. TextTypeOK' BY <2>1, <2>7 DEF TextTypeOK
  <2>9. PrefixInv' BY <2>1, <2>6 DEF PrefixInv
  <2>10. StopInv' BY <2>1 DEF StopInv
  <2>11. TextIsWellFormed' BY <2>1 DEF TextIsWellFormed
  <2> QED BY <2>8, <2>9, <2>10, <2>11
<1>3. ASSUME Reject PROVE TextInv'
  <2>1. verdict' = "invalid" /\ returned' = FALSE /\ text' = text /\ str' = str /\ i' = i /\ i < Len(str) /\ ~CharFits(i)
    BY <1>3 DEF Reject
  <2>2. TextTypeOK' BY <2>1 DEF TextTypeOK
  <2>3. PrefixInv' BY <2>1 DEF PrefixInv
  <2>4. (~CharFits(i))' BY <2>1 DEF CharFits
  <2>5. StopInv' BY <2>1, <2>4 DEF StopInv
  <2>6. TextIsWellFormed' BY <2>1 DEF TextIsWellFormed
  <2> QED BY <2>2, <2>3, <2>5, <2>6
<1>4. ASSUME Accept PROVE TextInv'
  <2>1. verdict' = "valid" /\ text' = str /\ returned' = FALSE /\ str' = str /\ i' = i /\ i >= Len(str)
    BY <1>4 DEF Accept
  <2>2. str \in Seq(Bytes) /\ i = Len(str) BY <2>1 DEF TextTypeOK
  <2>3. WellFormed(str) BY <2>2, ReadToTheEnd DEF PrefixInv
  <2>4. TextTypeOK' BY <2>1 DEF TextTypeOK
  <2>5. PrefixInv' BY <2>1 DEF PrefixInv
  <2>6. StopInv' BY <2>1, <2>2 DEF StopInv
  <2>7. TextIsWellFormed' BY <2>1, <2>3 DEF TextIsWellFormed
  <2> QED BY <2>4, <2>5, <2>6, <2>7
<1>5. ASSUME UNCHANGED vars PROVE TextInv'
  <2>1. text' = text /\ str' = str /\ i' = i /\ verdict' = verdict /\ returned' = returned BY <1>5 DEF vars
  <2>2. CharFits(i)' <=> CharFits(i) BY <2>1 DEF CharFits
  <2> QED BY <2>1, <2>2 DEF TextTypeOK, PrefixInv, StopInv, TextIsWellFormed
<1> QED BY <1>1, <1>2, <1>3, <1>4, <1>5 DEF Next

LEMMA TextInvHolds == Spec => []TextInv
BY TextInvInit, TextInvNext, PTL DEF Spec

LEMMA TextInvDecides == TextInv => VerdictIsRight
<1> SUFFICES ASSUME TextInv PROVE VerdictIsRight
    OBVIOUS
<1>1. str \in Seq(Bytes) /\ i \in 0..Len(str) BY DEF TextInv, TextTypeOK
<1>2. \A k \in 1..i : InPlace(str, i, k) BY DEF TextInv, PrefixInv
<1>3. verdict = "valid" => WellFormed(str) BY <1>1, <1>2, ReadToTheEnd DEF TextInv, StopInv
<1>4. ASSUME verdict = "invalid", WellFormed(str) PROVE FALSE
  <2>1. i < Len(str) /\ ~CharFits(i) BY <1>4 DEF TextInv, StopInv
  <2> QED BY <1>1, <1>2, <1>4, <2>1, StuckIsIllFormed DEF CharFits
<1> QED BY <1>3, <1>4 DEF VerdictIsRight

(* For every set of bytes and of strings, of whatever length: a string     *)
(* passes IsValidUTF8String if and only if every byte of it is in its      *)
(* place (Utils.cpp:52-83).                                                *)
THEOREM CheckDecidesWellFormed == Spec => []VerdictIsRight
BY TextInvHolds, TextInvDecides, PTL

(* No sequence of calls of SetText leaves a Message with a text that is    *)
(* not well-formed (Message.cpp:21-37).                                    *)
THEOREM TextStaysWellFormed == Spec => []TextIsWellFormed
<1>1. TextInv => TextIsWellFormed BY DEF TextInv
<1> QED BY <1>1, TextInvHolds, PTL

=============================================================================
