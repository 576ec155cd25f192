CONSTANTS
  Names = {n1}
  Chars <- MCChars
  NL = "nl"
  Msgs <- MCMsgs
  LineBuf = 256
  Inodes = {i1, i2}
  MaxLen = 4

SPECIFICATION Spec
INVARIANT RoundTrip
