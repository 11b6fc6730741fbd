SPECIFICATION Spec
CONSTANTS
  s1 = s1
  s2 = s2
  v1 = v1
  p0 = p0
  n1 = n1
  n2 = n2
  Seeds = {s1}
  Accounts = {v1, p0}
  Version <- MCVersion
  Passphrases = {"testnet", "mainnet"}
  Passphrase = "testnet"
  Nonces = {n1}
  Expiries = {1, 2}
  Contexts <- MCContexts
  PubKeys <- MCPubKeys
  None = None
  MinTempTtl = 1
  MaxLedger = 2
  MaxRequests = 2
  MaxExecs = 2
INVARIANTS
  InductiveInv
  TypeOK
  NoReplay
  Consent
  InstalledKeyWorks
  HonestAuthorizationSucceeds
  OffchainCheckAgrees
PROPERTY OneTimeGrantsSpec
