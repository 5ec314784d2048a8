---------------------------- MODULE MessageText -----------------------------
(***************************************************************************)
(* A Message's text: SetText, with the loop of IsValidUTF8String.  Bytes   *)
(* are numbers; the masks of the code are written as the ranges of bytes   *)
(* they select.                                                            *)
(***************************************************************************)
EXTENDS Integers, Sequences

CONSTANTS
  Bytes,      \* the bytes that occur
  Strings     \* the strings SetText is called with

ASSUME BytesAssumption == Bytes \subseteq 0..255

ASSUME StringsAssumption == Strings \subseteq Seq(Bytes) /\ <<>> \in Strings

VARIABLES
  text,       \* protoMessage.text()
  str,        \* the argument of SetText
  i,          \* bytes of it found valid so far
  verdict,    \* of IsValidUTF8String: "none" before the call and in the loop
  returned    \* by the last SetText

vars == <<text, str, i, verdict, returned>>

NumBytes(c) ==
  IF c \in 0..127 THEN 1
  ELSE IF c \in 192..223 THEN 2
  ELSE IF c \in 224..239 THEN 3
  ELSE IF c \in 240..247 THEN 4
  ELSE 0                       \* a continuation byte, or no byte of UTF-8

IsContinuation(c) == c \in 128..191

(* What follows the first k bytes is a leading byte and what it asks for.  *)
CharFits_UpToEnd(k) ==
  LET n == NumBytes(str[k + 1]) IN
    /\ n > 0
    /\ \A j \in 1..(n - 1) : k + j < Len(str) => IsContinuation(str[k + j + 1])

CharFits_OneShort(k) ==
  LET n == NumBytes(str[k + 1]) IN
    /\ n > 0 /\ k + n <= Len(str)
    /\ \A j \in 1..(n - 2) : IsContinuation(str[k + j + 1])

CharFits(k) ==
  LET n == NumBytes(str[k + 1]) IN
    /\ n > 0 /\ k + n <= Len(str)
    /\ \A j \in 1..(n - 1) : IsContinuation(str[k + j + 1])

SetText(s) ==
  /\ verdict # "checking"
  /\ str' = s /\ i' = 0 /\ verdict' = "checking"
  /\ UNCHANGED <<text, returned>>

NextChar ==
  /\ verdict = "checking" /\ i < Len(str) /\ CharFits(i)
  /\ i' = i + NumBytes(str[i + 1])
  /\ UNCHANGED <<text, str, verdict, returned>>

Reject_Truncates ==
  /\ verdict = "checking" /\ i < Len(str) /\ ~CharFits(i)
  /\ verdict' = "invalid" /\ returned' = FALSE
  /\ text' = SubSeq(str, 1, i + 1)
  /\ UNCHANGED <<str, i>>

Reject ==
  /\ verdict = "checking" /\ i < Len(str) /\ ~CharFits(i)
  /\ verdict' = "invalid" /\ returned' = FALSE
  /\ UNCHANGED <<text, str, i>>

(* The text is set, and SetText returns false all the same.                *)
Accept ==
  /\ verdict = "checking" /\ i >= Len(str)
  /\ verdict' = "valid" /\ text' = str /\ returned' = FALSE
  /\ UNCHANGED <<str, i>>

Init == text = <<>> /\ str = <<>> /\ i = 0 /\ verdict = "none" /\ returned \in BOOLEAN

Next == (\E s \in Strings : SetText(s)) \/ NextChar \/ Reject \/ Accept

Spec == Init /\ [][Next]_vars

-----------------------------------------------------------------------------
(* A definition of the texts the code means to let through that does not   *)
(* go from the left to the right: every byte is in its place.  A leading   *)
(* byte has what it asks for behind it, and a continuation byte has its    *)
(* leading byte in front of it.                                            *)
LeadingFits(s, k) ==
  /\ k + NumBytes(s[k]) - 1 <= Len(s)
  /\ \A j \in 1..(NumBytes(s[k]) - 1) : IsContinuation(s[k + j])

HasLeading(s, k) ==
  \E d \in 1..3 :
    /\ d < k /\ NumBytes(s[k - d]) > d
    /\ \A e \in 0..(d - 1) : IsContinuation(s[k - e])

WellFormed(s) ==
  \A k \in 1..Len(s) :
    IF IsContinuation(s[k]) THEN HasLeading(s, k)
                            ELSE NumBytes(s[k]) > 0 /\ LeadingFits(s, k)

TextTypeOK ==
  /\ text \in Seq(Bytes) /\ str \in Seq(Bytes)
  /\ i \in 0..Len(str)
  /\ verdict \in {"none", "checking", "valid", "invalid"} /\ returned \in BOOLEAN

(* IsValidUTF8String accepts exactly the strings in which every byte is in *)
(* its place (Utils.cpp:52-83), also when the last character is cut off.   *)
VerdictIsRight ==
  /\ verdict = "valid" => WellFormed(str)
  /\ verdict = "invalid" => ~WellFormed(str)

(* Whatever SetText is called with, in whatever order, the text of a       *)
(* message is well-formed (Message.cpp:21-37).                             *)
TextIsWellFormed == WellFormed(text)

(* Message.h:36, 38: "true if valid UTF-8 string is given, text is set",   *)
(* "false if invalid UTF-8 string is given, text is not set".              *)
SetTextTells == verdict \in {"valid", "invalid"} => (returned <=> verdict = "valid")

-----------------------------------------------------------------------------
(* The Unicode standard, table 3-7: no overlong form, no surrogate, nothing*)
(* above U+10FFFF.                                                         *)
FollowsStandard(s) ==
  /\ WellFormed(s)
  /\ \A k \in 1..Len(s) :
       /\ s[k] \notin {192, 193} /\ s[k] \notin 245..247
       /\ s[k] = 224 => s[k + 1] \in 160..191
       /\ s[k] = 237 => s[k + 1] \in 128..159
       /\ s[k] = 240 => s[k + 1] \in 144..191
       /\ s[k] = 244 => s[k + 1] \in 128..143

(* Utils.h:185: "Protobuf only accepts valid UTF-8 string."                *)
ProtobufAccepts == verdict = "valid" => FollowsStandard(str)

=============================================================================
