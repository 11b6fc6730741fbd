SPECIFICATION RunSpec
CONSTANTS
  mine = mine
  proto = proto
  Seeds = {mine}
  None = None
  Accounts = {proto}
  Version <- MCVersion
  Passphrases = {"local"}
  Passphrase = "local"
  Nonces <- MCNonces
  Expiries = {1000}
  Contexts <- MCContexts
  PubKeys <- MCPubKeys
  MinTempTtl = 1
  MaxLedger = 1
  MaxRequests = 1
  MaxExecs = 2
  SEED = mine
  Account = proto
INVARIANT ControlTestsTheSignature
CHECK_DEADLOCK FALSE
