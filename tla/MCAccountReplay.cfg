SPECIFICATION Spec
CONSTANTS
  s1 = s1
  s2 = s2
  v1 = v1
  p0 = p0
  n1 = n1
  n2 = n2
  Seeds = {s1, s2}
  Accounts = {v1}
  Version <- MCVersion
  Passphrases = {"testnet"}
  Passphrase = "testnet"
  Nonces = {n1, n2}
  Expiries = {1, 2, 3}
  Contexts <- MCV1Context
  PubKeys <- MCPubKeys
  None = None
  MinTempTtl = 2
  MaxLedger = 3
  MaxRequests = 2
  MaxExecs = 2
SYMMETRY MCSymmetry
INVARIANTS
  NoReplay
  Consent
  HonestAuthorizationSucceeds
PROPERTY OneTimeGrantsSpec
