SPECIFICATION SerSpec
CONSTANTS
  a = a
  b = b
  LF = LF
  CR = CR
  BUF_SIZE = 3
  Received = {a}
  Written = {}
  Blocks <- MCPlain
  MaxIn = 5
  MaxOut = 0
INVARIANTS InputInBounds
CHECK_DEADLOCK FALSE
