SPECIFICATION BenchSpec
CONSTANTS
  seed = seed
  Seeds = {seed}
  None = None
  SEED = seed
  Costs <- MCCosts
  LEDGER_MAX_INSN = 2000
  LEDGER_MAX_TX_COUNT = 6
  SweepLengths <- MCSweepLengths
  Slopes <- MCSlopes
INVARIANTS
  AcceptedCallsOnly
  FlatSweepIsLinear
  CountsAreOptimal
CHECK_DEADLOCK FALSE
