\* SetText is called over and over with all strings of up to three bytes of
\* each kind, alone and after the first byte of a four-byte character: it
\* lets through what is well-formed, and keeps the old text otherwise.

CONSTANTS
  Bytes = {65, 128, 194, 224, 240, 255}
  MaxLength = 3
  Strings <- SomeStrings

SPECIFICATION Spec
INVARIANT
  VerdictIsRight
  TextIsWellFormed
