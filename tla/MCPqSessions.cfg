SPECIFICATION SessionSpec
CONSTANTS
  s1 = s1
  s2 = s2
  b1 = b1
  b2 = b2
  Seeds = {s1, s2}
  None = None
  Buffers = {b1, b2}
  Size <- MCSize
  Messages = {"m"}
  Contexts <- MCContexts
  MaxCalls = 6
INVARIANTS
  SignaturesWereSigned
  ReadsBack
  CarefulCallersAreSafe
PROPERTY ImplementsOracle
CHECK_DEADLOCK FALSE
