SPECIFICATION DemoSpec
CONSTANTS
  mine = mine
  other = other
  acct = acct
  i1 = i1
  a1 = a1
  Seeds = {mine, other}
  None = None
  Accounts = {acct}
  Version <- MCVersion
  Passphrases = {"testnet"}
  Passphrase = "testnet"
  Nonces <- MCNonces
  Expiries <- MCExpiries
  Contexts <- MCContexts
  PubKeys <- MCPubKeys
  MinTempTtl = 1
  MaxLedger = 4
  MaxRequests = 1
  MaxExecs = 2
  Runs = {i1, a1}
  InitRun = i1
  AuthRun = a1
  Program <- MCProgram
  Mode <- MCMode
  Account <- MCAccount
  Source <- MCSource
  SEED = mine
  ExpiryWindow = 2
  MaxPolls <- MCMaxPolls
  Quotes <- MCQuotes
  FeeRange = 4096
  ReadLag = 1
  Costs <- MCCosts
  Slopes <- MCSlopes
  LEDGER_MAX_INSN = 200
  LEDGER_MAX_TX_COUNT = 6
  SweepLengths <- MCSweepLengths
INVARIANTS
  SummaryIsTrue
  KeyIsThrownAway
  SecondRunExplained
PROPERTIES
  DemoEnds
  ScriptAdvances
CHECK_DEADLOCK FALSE
