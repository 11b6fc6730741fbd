SPECIFICATION ProbeSpec
CONSTANTS
  mine = mine
  other = other
  proto = proto
  Seeds = {mine, other}
  None = None
  Accounts = {proto}
  Version <- MCVersion
  Passphrases = {"testnet"}
  Passphrase = "testnet"
  Nonces <- MCNonces
  Expiries <- MCExpiries
  Contexts <- MCContexts
  PubKeys <- MCPubKeys
  MinTempTtl = 1
  MaxLedger = 3
  MaxRequests = 1
  MaxExecs = 0
  PayingKey = "ed"
  SEED = mine
  Account = proto
  ExpiryWindow = 1
  InitKeys <- MCPubKeys
INVARIANTS
  ProbeRowsVerify
  ProtectedRowExplained
  VerdictsAreRight
