SPECIFICATION CliSpec
CONSTANTS
  mine = mine
  other = other
  acct = acct
  i1 = i1
  a1 = a1
  a2 = a2
  a3 = a3
  s1 = s1
  s2 = s2
  proto = proto
  Seeds = {mine, other}
  None = None
  Accounts = {acct}
  Version <- MCVersion
  Passphrases = {"testnet"}
  Passphrase = "testnet"
  Nonces <- MCNonces
  Expiries <- MCExpiries
  Contexts <- MCContexts
  PubKeys <- MCPubKeys
  MinTempTtl = 1
  MaxLedger = 3
  MaxRequests = 2
  MaxExecs = 2
  Runs = {i1, a3}
  Program <- MCProgram
  Mode <- MCMode
  Account <- MCAccount
  Source <- MCSource
  SEED = mine
  ExpiryWindow = 2
  MaxPolls <- MCMaxPolls2
  Quotes <- MCQuotesAll
  FeeRange = 4096
  ReadLag = 1
INVARIANTS
  CliTypeOK
  FairFees
  RejectionExplained
  AppliedBeforeRead
PROPERTIES
  RunsEnd
  RunsAdvance
