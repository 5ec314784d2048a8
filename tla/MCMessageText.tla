--------------------------- MODULE MCMessageText ----------------------------
(* Instances of MessageText for TLC.                                       *)
EXTENDS MessageText

CONSTANT MaxLength   \* bound

(* All strings of a few bytes, and each of them after the leading byte of  *)
(* a character of four.                                                    *)
ShortStrings == UNION {[1..n -> Bytes] : n \in 0..MaxLength}

SomeStrings == ShortStrings \cup {<<240>> \o s : s \in ShortStrings}

=============================================================================
