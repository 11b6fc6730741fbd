SPECIFICATION CliSpec
CONSTANTS
  mine = mine
  other = other
  acct = acct
  i1 = i1
  a1 = a1
  a2 = a2
  a3 = a3
  s1 = s1
  s2 = s2
  proto = proto
  Seeds = {mine, other}
  None = None
  Accounts = {proto}
  Version <- MCVersion
  Passphrases = {"testnet"}
  Passphrase = "testnet"
  Nonces <- MCNonces
  Expiries <- MCExpiries
  Contexts <- MCContexts
  PubKeys <- MCPubKeys
  MinTempTtl = 1
  MaxLedger = 2
  MaxRequests = 3
  MaxExecs = 2
  Runs = {a2, s1, s2}
  Program <- MCProgram
  Mode <- MCMode
  Account <- MCProto
  Source <- MCSource
  SEED = mine
  ExpiryWindow = 1
  MaxPolls <- MCMaxPolls2
  Quotes <- MCQuotes
  FeeRange = 4096
  ReadLag = 1
INVARIANTS
  CollisionsAreDuplicates
  FailureExplained
  WrongProgramStopsEarly
