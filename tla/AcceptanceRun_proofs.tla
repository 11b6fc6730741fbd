------------------------- MODULE AcceptanceRun_proofs -------------------------
(***************************************************************************)
(* Machine-checked proofs about bin/account: that it passes on any host    *)
(* set up for it, and what its negative control is worth.                  *)
(***************************************************************************)
EXTENDS AcceptanceRun, AccountHost_proofs

(* The program registers the prototype, and the host takes its key.        *)
SetUp ==
  /\ Account \in Accounts /\ Version[Account] = "phase0" /\ SEED \in Seeds
  /\ Bytes(KeyLen, PublicKey(SEED)) \in PubKeys

(* The program ends with neither a panic nor *** SECURITY FAILURE ***      *)
(* (bin/account, invoke_contract and the match on try_invoke_contract).    *)
AcceptancePasses == step \notin {"panicked", "failure"}

(* The control's entry is refused with its signature left whole too, as    *)
(* that was made for another nonce: that the control is rejected says      *)
(* nothing of the tampering (bin/account, account.rs:79).                  *)
ControlFailsForItsNonce ==
  step = "control" =>
    RequireAuth(Account, ControlEntry(Entry.signature)) = "SigVerifyFailed"

-----------------------------------------------------------------------------
(* The state of the host at each step of the program.                      *)
AcceptInv ==
  /\ ledger = 1
  /\ DOMAIN stored = Accounts
  /\ step # "init" => stored[Account] = Bytes(KeyLen, PublicKey(SEED))
  /\ step \in {"init", "sign", "call"} => nonces = {}
  /\ step = "control" => nonces = {NonceEntry(Entry)}
  /\ AcceptancePasses

(* The installed key is one the contract can use.                          *)
LEMMA KeyFits ==
  ASSUME SetUp, stored[Account] = Bytes(KeyLen, PublicKey(SEED))
  PROVE  /\ stored[Account] \in Slots /\ stored[Account] # None
         /\ stored[Account].body = PublicKey(SEED) /\ stored[Account].len = 1952
  <1>1. Bytes(KeyLen, PublicKey(SEED)) \in KeyBytes
    BY AccountHostAssumption DEF SetUp
  <1>2. KeyLen = 1952
    BY DEF KeyLen, VERIFYING_KEY_LEN, Schemes, SCHEME
  <1> QED BY <1>1, <1>2, AccountHostAssumption DEF Slots, SetUp, Bytes

(* What the entry holds.                                                   *)
LEMMA EntryFields ==
  /\ Entry.account = Account /\ Entry.nonce = 51966
  /\ Entry.signature_expiration_ledger = 1000
  /\ Entry.root_invocation = Protected(Account)
  /\ Entry.signature.len = SIGNATURE_LEN[SCHEME]
  /\ Entry.signature.body
       = Signature(SCHEME, PublicKey(SEED), EmptyContext, HostPayload(Entry))
  <1>1. /\ SignedPayload.nonce = 51966
        /\ SignedPayload.signature_expiration_ledger = 1000
        /\ SignedPayload.invocation = Protected(Account)
        /\ SignedPayload.network_id = NetworkId(Passphrase)
    BY DEF SignedPayload, Payload
  <1>2. /\ Entry.account = Account /\ Entry.nonce = 51966
        /\ Entry.signature_expiration_ledger = 1000
        /\ Entry.root_invocation = Protected(Account)
        /\ Entry.signature.len = SIGNATURE_LEN[SCHEME]
        /\ Entry.signature.body = Signature(SCHEME, PublicKey(SEED), EmptyContext,
                                            SignaturePayload(SignedPayload))
    BY <1>1, BuiltEntry DEF Entry
  <1>3. SignaturePayload(SignedPayload) = HostPayload(Entry)
    BY <1>1, <1>2 DEF SignaturePayload, HostPayload, Sha256
  <1> QED BY <1>2, <1>3

(* What the control's entry holds.                                         *)
LEMMA ControlFields ==
  ASSUME NEW signature
  PROVE  /\ ControlEntry(signature).account = Account
         /\ ControlEntry(signature).nonce = 48879
         /\ ControlEntry(signature).signature_expiration_ledger = 1000
         /\ ControlEntry(signature).root_invocation = Protected(Account)
         /\ ControlEntry(signature).signature = signature
  <1>1. Entry = [account |-> Entry.account, nonce |-> Entry.nonce,
                 signature_expiration_ledger |-> Entry.signature_expiration_ledger,
                 signature |-> Entry.signature,
                 root_invocation |-> Entry.root_invocation]
    BY DEF Entry, BuildAuthEntry
  <1> QED BY <1>1, EntryFields DEF ControlEntry

(* The first call passes.                                                  *)
LEMMA CallPasses ==
  ASSUME SetUp, AcceptInv, step = "call"
  PROVE  RequireAuth(Account, Entry) = "Ok"
  <1>1. ClientContext(Account) = EmptyContext
    BY DEF ClientContext, SetUp
  <1>2. CheckAuthOf(Account, HostPayload(Entry), Entry.signature) = "Ok"
    BY <1>1, KeyFits, EntryFields, CheckAuthVerdict DEF AcceptInv, SetUp
  <1>3. ~NonceLive(Account, Entry.nonce)
    BY DEF AcceptInv, NonceLive
  <1> QED BY <1>2, <1>3, EntryFields, ThenOk DEF RequireAuth, Require, AcceptInv

(* A tampered signature does not.                                          *)
LEMMA ControlIsRefused ==
  ASSUME SetUp, NEW bad \in TamperedSignatures
  PROVE  RequireAuth(Account, ControlEntry(bad)) # "Ok"
  <1>1. SUFFICES ASSUME RequireAuth(Account, ControlEntry(bad)) = "Ok"
                 PROVE  FALSE
    OBVIOUS
  <1>2. bad.body = Signature(SCHEME, stored[Account].body, ClientContext(Account),
                             HostPayload(ControlEntry(bad)))
    BY <1>1, RequireAuthOk, CheckAuthOk, ControlFields DEF SetUp
  <1>3. bad.body.kind = "signed"
    BY <1>2 DEF Signature
  <1>4. bad.body \in {CorruptSignature, MalformedSignature}
    BY DEF TamperedSignatures, DamagedSignatures, Bytes
  <1> QED BY <1>3, <1>4 DEF CorruptSignature, MalformedSignature

(* The whole signature is one of the right length over another payload.    *)
LEMMA ControlFollows == SetUp /\ AcceptInv => ControlFailsForItsNonce
  <1> SUFFICES ASSUME SetUp, AcceptInv, step = "control"
               PROVE  RequireAuth(Account, ControlEntry(Entry.signature)) = "SigVerifyFailed"
    BY DEF ControlFailsForItsNonce
  <1> DEFINE e == ControlEntry(Entry.signature)
  <1>1. /\ e.account = Account /\ e.nonce = 48879 /\ e.signature_expiration_ledger = 1000
        /\ e.root_invocation = Protected(Account) /\ e.signature = Entry.signature
    BY ControlFields
  <1>2. HostPayload(e) # HostPayload(Entry)
    <2>1. HostPayload(e).sha256.nonce = 48879 /\ HostPayload(Entry).sha256.nonce = 51966
      BY <1>1, EntryFields DEF HostPayload
    <2> QED BY <2>1
  <1>3. /\ stored[Account] # None /\ stored[Account].len = 1952
        /\ stored[Account].body = PublicKey(SEED)
    BY KeyFits DEF AcceptInv
  <1>4. Entry.signature.len = 3309
    BY EntryFields DEF SIGNATURE_LEN, SCHEME, Schemes
  <1>5. Entry.signature.body # MalformedSignature
    BY EntryFields, SignedIsWellFormed
  <1>6. Entry.signature.body
          # Signature("ML-DSA-65", PublicKey(SEED), EmptyContext, HostPayload(e))
    BY <1>2, EntryFields DEF Signature, SCHEME
  <1>7. Phase0CheckAuth(stored[Account], HostPayload(e), Entry.signature) = "SigVerifyFailed"
    BY <1>3, <1>4, <1>5, <1>6 DEF Phase0CheckAuth, Require, ??
  <1>8. ~NonceLive(Account, 48879)
    BY EntryFields DEF AcceptInv, NonceLive, NonceEntry
  <1> HIDE DEF e
  <1> QED BY <1>1, <1>7, <1>8 DEF RequireAuth, Require, ??, CheckAuthOf, SetUp, AcceptInv, e

-----------------------------------------------------------------------------
(* The program goes through its steps.                                     *)
LEMMA AcceptNext == SetUp /\ AcceptInv /\ [RunNext]_runVars => AcceptInv'
  <1> SUFFICES ASSUME SetUp, AcceptInv, [RunNext]_runVars PROVE AcceptInv'
    OBVIOUS
  <1>1. CASE InitAccount
    <2>1. /\ EncodedKey = Bytes(KeyLen, PublicKey(SEED))
          /\ EncodedKey.len = KeyLen /\ KeyLen = 1952
      BY DEF EncodedKey, EncodeVerifyingKey, WriteVerifyingKey, KeyLen, Bytes,
         VERIFYING_KEY_LEN, SCHEME, Schemes
    <2>2. InitialiseOf(Account, EncodedKey) = [res |-> "Ok", val |-> EncodedKey]
      BY <2>1 DEF InitialiseOf, Phase0Initialise, Require, SetUp
    <2>3. /\ step = "init" /\ step' = "sign" /\ UNCHANGED <<ledger, nonces>>
          /\ stored' = [stored EXCEPT ![Account] = EncodedKey]
      BY <1>1, <2>2 DEF InitAccount, Goto, InvokeInit
    <2> QED BY <2>1, <2>3 DEF AcceptInv, AcceptancePasses, SetUp
  <1>2. CASE SignEntry
    BY <1>2 DEF SignEntry, Goto, Sign, AcceptInv, AcceptancePasses
  <1>3. CASE CallProtected
    <2>1. step = "call" /\ ProtectedSucceeds(Account, Entry) /\ step' = "control"
      BY <1>3, CallPasses DEF CallProtected, Goto, ProtectedFails
    <2>2. nonces' = {NonceEntry(Entry)} /\ UNCHANGED <<ledger, stored>>
      BY <2>1 DEF ProtectedSucceeds, AcceptInv
    <2>3. NonceEntry(Entry)' = NonceEntry(Entry)
      BY <2>2 DEF NonceEntry, Entry, SignedPayload
    <2> QED BY <2>1, <2>2, <2>3 DEF AcceptInv, AcceptancePasses
  <1>4. CASE NegativeControl
    <2>1. PICK bad \in TamperedSignatures :
            step' = "rejected" /\ ProtectedFails(Account, ControlEntry(bad))
      BY <1>4, ControlIsRefused DEF NegativeControl, Goto, ProtectedSucceeds
    <2>2. step = "control"
      BY <1>4 DEF NegativeControl, Goto
    <2> QED BY <2>1, <2>2 DEF ProtectedFails, AcceptInv, AcceptancePasses
  <1>5. CASE UNCHANGED runVars
    BY <1>5 DEF runVars, vars, AcceptInv, AcceptancePasses, NonceEntry, Entry, SignedPayload
  <1> QED BY <1>1, <1>2, <1>3, <1>4, <1>5 DEF RunNext

(* So it does from its start.                                              *)
LEMMA AcceptHolds ==
  ASSUME SetUp
  PROVE  RunSpec => []AcceptInv
  <1>1. RunInit => AcceptInv
    BY DEF RunInit, Init, AcceptInv, AcceptancePasses
  <1>2. AcceptInv /\ [RunNext]_runVars => AcceptInv'
    BY AcceptNext
  <1> QED BY <1>1, <1>2, PTL DEF RunSpec

(* With its numbers the program never panics and never reports a security  *)
(* failure.                                                                *)
THEOREM AcceptancePassesHolds ==
  ASSUME SetUp
  PROVE  RunSpec => []AcceptancePasses
  <1>1. AcceptInv => AcceptancePasses
    BY DEF AcceptInv
  <1> QED BY <1>1, AcceptHolds, PTL

(* Its negative control would be rejected without the tampering: the       *)
(* control alone does not show that a damaged signature is refused.        *)
THEOREM ControlFailsForItsNonceHolds ==
  ASSUME SetUp
  PROVE  RunSpec => []ControlFailsForItsNonce
  <1>1. AcceptInv => ControlFailsForItsNonce
    BY ControlFollows
  <1> QED BY <1>1, AcceptHolds, PTL

===============================================================================
