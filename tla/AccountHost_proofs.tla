------------------------- MODULE AccountHost_proofs -------------------------
(***************************************************************************)
(* Machine-checked proofs about AccountHost, for every choice of accounts, *)
(* versions, networks, keys, nonces and bounds.                            *)
(***************************************************************************)
EXTENDS AccountHost, TLAPS

-----------------------------------------------------------------------------
(* Early returns.                                                          *)

(* A chain of checks answers Ok exactly when each of them does (Rust's ?   *)
(* operator in pq-core and the contracts).                                 *)
LEMMA ThenOk ==
  ASSUME NEW e1, NEW e2
  PROVE  (e1 ?? e2) = "Ok" <=> e1 = "Ok" /\ e2 = "Ok"
  BY DEF ??

(* __check_auth of either contract lets a signature through only if it is  *)
(* the installed key's signature of the host's payload under the context   *)
(* clients are asked for.                                                  *)
LEMMA CheckAuthOk ==
  ASSUME NEW a \in Accounts, NEW payload, NEW signature,
         CheckAuthOf(a, payload, signature) = "Ok"
  PROVE  /\ stored[a] # None
         /\ signature.body = Signature(SCHEME, stored[a].body,
                                       ClientContext(a), payload)
  <1>1. CASE Version[a] = "v1"
    BY <1>1, ThenOk DEF CheckAuthOf, CheckAuth, MapErr, SCHEME, CONTEXT,
       Verify, VerifyingKeyFromBytes, ClientContext, Require
  <1>2. CASE Version[a] # "v1"
    BY <1>2, ThenOk DEF CheckAuthOf, Phase0CheckAuth,
       SCHEME, ClientContext, Require
  <1> QED BY <1>1, <1>2

-----------------------------------------------------------------------------
(* Type correctness.                                                       *)

(* build_auth_entry on a payload for account a builds an entry.            *)
LEMMA SignedEntry ==
  ASSUME NEW seed \in Seeds, NEW a \in Accounts, NEW p \in Payloads,
         NEW context \in Contexts, p.invocation = Protected(a)
  PROVE  BuildAuthEntry(SCHEME, a, seed, p, context).val \in Entries
  <1>1. SignAuthorization(SCHEME, seed, p, context).val \in SignedBytes
    BY DEF SignAuthorization, SignInto, SignedBytes, Bytes, Signature, PublicKey
  <1>2. p.nonce \in Nonces /\ p.signature_expiration_ledger \in Expiries
    BY DEF Payloads
  <1> QED BY <1>1, <1>2 DEF BuildAuthEntry, Entries

(* The payloads clients sign are payloads.                                 *)
LEMMA PayloadType ==
  ASSUME NEW passphrase \in Passphrases, NEW nonce \in Nonces,
         NEW expiry \in Expiries, NEW a \in Accounts
  PROVE  /\ Payload(passphrase, nonce, expiry, a) \in Payloads
         /\ Payload(passphrase, nonce, expiry, a).invocation = Protected(a)
  BY DEF Payload, Payloads

(* Whatever mix of fields and signatures reaches the ledger is an entry.   *)
LEMMA SubmittedType ==
  ASSUME TypeOK, NEW entry \in SubmittedEntries
  PROVE  entry \in Entries
  <1>1. \A r \in requests : r.entry.signature \in SignedBytes \cup DamagedSignatures
    BY DEF TypeOK, Entries
  <1> QED BY <1>1 DEF SubmittedEntries, Entries

(* What an init leaves in the slot and answers: an accepted key has the    *)
(* right length and replaces the old one, a refused one changes nothing.   *)
LEMMA InitialiseOutcome ==
  ASSUME NEW a \in Accounts, NEW pubkey \in PubKeys
  PROVE  LET call == InitialiseOf(a, pubkey) IN
         \/ call.res = "Ok" /\ call.val = pubkey /\ pubkey.len = KeyLen
         \/ call.res = "BadPubKeyLen" /\ call.val = stored[a]
  <1>1. KeyLen = 1952
    BY DEF KeyLen, VERIFYING_KEY_LEN, Schemes, SCHEME
  <1>2. CASE Version[a] = "v1"
    BY <1>1, <1>2 DEF InitialiseOf, Initialise, MapErr, VerifyingKeyFromBytes,
       CheckLen, Require, ??, VK_LEN, KeyLen
  <1>3. CASE Version[a] # "v1"
    BY <1>1, <1>3 DEF InitialiseOf, Phase0Initialise, Require
  <1> QED BY <1>2, <1>3

(* The answers of require_auth are among the named ones.                   *)
LEMMA RequireAuthResult ==
  ASSUME NEW a \in Accounts, NEW entry
  PROVE  RequireAuth(a, entry) \in Results
  <1>1. \A payload, signature : CheckAuthOf(a, payload, signature) \in Results
    BY DEF CheckAuthOf, CheckAuth, Phase0CheckAuth, MapErr, Require, ??, Results
  <1> QED BY <1>1 DEF RequireAuth, Require, ??, Results

(* What a successful require_auth has established.                         *)
LEMMA RequireAuthOk ==
  ASSUME NEW a \in Accounts, NEW entry, RequireAuth(a, entry) = "Ok"
  PROVE  /\ entry.account = a
         /\ entry.root_invocation = Protected(a)
         /\ entry.signature_expiration_ledger >= ledger
         /\ ~NonceLive(a, entry.nonce)
         /\ CheckAuthOf(a, HostPayload(entry), entry.signature) = "Ok"
  BY ThenOk DEF RequireAuth, Require

(* The initial state is well typed.                                        *)
LEMMA InitTypeOK == Init => TypeOK
  <1> SUFFICES ASSUME Init PROVE TypeOK
    OBVIOUS
  <1> USE AccountHostAssumption
  <1>1. ledger \in 1..MaxLedger
    BY DEF Init
  <1>2. stored \in [Accounts -> Slots] /\ owner \in [Accounts -> Slots]
    BY DEF Init, Slots
  <1>3. execs \in Seq(Executions)
    BY DEF Init
  <1> QED BY <1>1, <1>2, <1>3 DEF Init, TypeOK

(* Every step of the system keeps the types.                               *)
LEMMA NextTypeOK == TypeOK /\ [Next]_vars => TypeOK'
  <1> SUFFICES ASSUME TypeOK, [Next]_vars PROVE TypeOK'
    OBVIOUS
  <1> USE AccountHostAssumption
  <1>1. ASSUME NEW seed \in Seeds, NEW a \in Accounts,
               NEW passphrase \in Passphrases, NEW nonce \in Nonces,
               NEW expiry \in Expiries, NEW context \in Contexts,
               Sign(seed, a, Payload(passphrase, nonce, expiry, a), context)
        PROVE  TypeOK'
    <2> DEFINE p == Payload(passphrase, nonce, expiry, a)
               built == BuildAuthEntry(SCHEME, a, seed, p, context)
    <2>1. p \in Payloads /\ built.val \in Entries
      BY PayloadType, SignedEntry
    <2>2. requests' = requests \cup {[seed |-> seed, payload |-> p,
                                      context |-> context, entry |-> built.val]}
      BY <1>1 DEF Sign
    <2> HIDE DEF p, built
    <2> QED BY <1>1, <2>1, <2>2 DEF Sign, TypeOK
  <1>2. ASSUME NEW a \in Accounts, NEW pubkey \in PubKeys, InvokeInit(a, pubkey)
        PROVE  TypeOK'
    <2>1. InitialiseOf(a, pubkey).val \in Slots
      BY InitialiseOutcome DEF TypeOK, Slots
    <2>2. InitialiseOf(a, pubkey).res = "Ok" => pubkey \in Slots
      BY InitialiseOutcome DEF Slots
    <2>3. InitialiseOf(a, pubkey).res \in Results
      BY InitialiseOutcome DEF Results
    <2> QED BY <1>2, <2>1, <2>2, <2>3 DEF InvokeInit, TypeOK, Answer
  <1>3. ASSUME NEW a \in Accounts, NEW entry \in SubmittedEntries,
               ProtectedSucceeds(a, entry)
        PROVE  TypeOK'
    <2>1. entry \in Entries
      BY SubmittedType
    <2>2. NonceEntry(entry) \in [account : Accounts, nonce : Nonces, live_until : Nat]
      <3>1. /\ entry.account \in Accounts /\ entry.nonce \in Nonces
            /\ entry.signature_expiration_ledger \in Nat
        BY <2>1 DEF Entries
      <3>2. ledger \in Nat /\ ledger + MinTempTtl - 1 \in Nat
        BY DEF TypeOK
      <3> QED BY <3>1, <3>2 DEF NonceEntry
    <2>3. [account |-> a, key |-> owner[a], entry |-> entry, at |-> ledger]
            \in Executions
      BY <2>1 DEF TypeOK, Executions
    <2>4. execs' \in Seq(Executions)
      BY <1>3, <2>3 DEF ProtectedSucceeds, TypeOK
    <2> QED BY <1>3, <2>2, <2>4 DEF ProtectedSucceeds, TypeOK, Answer, Results
  <1>4. ASSUME NEW a \in Accounts, NEW entry \in SubmittedEntries,
               ProtectedFails(a, entry)
        PROVE  TypeOK'
    BY <1>4, RequireAuthResult DEF ProtectedFails, TypeOK, Answer
  <1>5. CASE CloseLedger
    BY <1>5 DEF CloseLedger, TypeOK
  <1>6. CASE UNCHANGED vars
    BY <1>6 DEF vars, TypeOK
  <1> QED BY <1>1, <1>2, <1>3, <1>4, <1>5, <1>6 DEF Next

(* In every reachable state of every instance the variables have their     *)
(* types; a key slot never holds bytes of the wrong length (pq-account     *)
(* init).                                                                  *)
THEOREM TypeCorrect == Spec => []TypeOK
  <1> QED BY InitTypeOK, NextTypeOK, PTL DEF Spec

-----------------------------------------------------------------------------
(* The inductive invariant.                                                *)

(* Ledger numbers are numbers, in the entries and in the execution log.    *)
LEMMA LedgerNumbers ==
  ASSUME TypeOK
  PROVE  /\ ledger \in Nat /\ ledger + MinTempTtl - 1 \in Nat
         /\ \A entry \in Entries : entry.signature_expiration_ledger \in Nat
         /\ \A i \in DOMAIN execs :
              /\ execs[i] \in Executions
              /\ execs[i].entry.signature_expiration_ledger \in Nat
  <1>1. ledger \in Nat /\ ledger + MinTempTtl - 1 \in Nat
    <2>1. ledger \in Nat
      BY AccountHostAssumption DEF TypeOK
    <2> QED BY <2>1, AccountHostAssumption
  <1>2. \A entry \in Entries : entry.signature_expiration_ledger \in Nat
    BY AccountHostAssumption DEF Entries
  <1>3. \A i \in DOMAIN execs :
           execs[i] \in Executions
    BY DEF TypeOK
  <1>4. \A i \in DOMAIN execs : execs[i].entry \in Entries
    BY <1>3 DEF Executions
  <1> QED BY <1>1, <1>2, <1>3, <1>4

(* A signature a contract accepts is in circulation: it is one a client    *)
(* made, none of the damaged ones verifies.                                *)
LEMMA AcceptedIsCirculating ==
  ASSUME NEW a \in Accounts, NEW entry \in SubmittedEntries,
         RequireAuth(a, entry) = "Ok"
  PROVE  \E r \in requests : r.entry.signature = entry.signature
  <1>1. entry.signature.body = Signature(SCHEME, stored[a].body,
                                         ClientContext(a), HostPayload(entry))
    BY RequireAuthOk, CheckAuthOk
  <1>2. entry.signature.body.kind = "signed"
    BY <1>1 DEF Signature
  <1>3. \A s \in DamagedSignatures : s.body.kind # "signed"
    BY DEF DamagedSignatures, Bytes, CorruptSignature, MalformedSignature
  <1>4. entry.signature \in {r.entry.signature : r \in requests}
                              \cup DamagedSignatures
    BY DEF SubmittedEntries
  <1> QED BY <1>2, <1>3, <1>4

(* The state after an executed call of protected: one more execution, at   *)
(* the end, and one more nonce held.                                       *)
LEMMA AppendedExec ==
  ASSUME TypeOK, NEW a \in Accounts, NEW entry, ProtectedSucceeds(a, entry)
  PROVE  /\ DOMAIN execs = 1..Len(execs) /\ Len(execs) \in Nat
         /\ DOMAIN execs' = 1..(Len(execs) + 1)
         /\ \A i \in DOMAIN execs : execs'[i] = execs[i]
         /\ execs'[Len(execs) + 1] = [account |-> a, key |-> owner[a],
                                      entry |-> entry, at |-> ledger]
  BY DEF TypeOK, ProtectedSucceeds

(* The inductive invariant holds initially.                                *)
LEMMA InitInductive == Init => InductiveInv
  <1> SUFFICES ASSUME Init PROVE InductiveInv
    OBVIOUS
  <1>1. TypeOK
    BY InitTypeOK
  <1>2. DOMAIN execs = {}
    BY DEF Init
  <1> QED BY <1>1, <1>2 DEF Init, InductiveInv, StoredIsOwner, RequestsAreSigned,
          ExecsAreAuthorised, NoncesAreHeld, ExecsDiffer

(* Signing adds an entry that says what was signed.                        *)
LEMMA SignInductive ==
  ASSUME InductiveInv, TypeOK', NEW seed \in Seeds, NEW a \in Accounts,
         NEW p, NEW context, p.invocation = Protected(a), Sign(seed, a, p, context)
  PROVE  InductiveInv'
  <1> USE DEF InductiveInv
  <1> DEFINE q == [seed |-> seed, payload |-> p, context |-> context,
                   entry |-> BuildAuthEntry(SCHEME, a, seed, p, context).val]
  <1>1. requests' = requests \cup {q}
    BY DEF Sign
  <1>2. UNCHANGED <<ledger, stored, owner, nonces, execs>>
    BY DEF Sign
  <1>3. /\ q.entry = BuildAuthEntry(SCHEME, q.entry.account, q.seed, q.payload,
                                    q.context).val
        /\ q.payload.invocation = Protected(q.entry.account)
    BY DEF BuildAuthEntry
  <1> HIDE DEF q
  <1>4. RequestsAreSigned'
    BY <1>1, <1>3 DEF RequestsAreSigned
  <1>5. ExecsAreAuthorised'
    BY <1>1, <1>2 DEF ExecsAreAuthorised, HostPayload
  <1>6. StoredIsOwner' /\ NoncesAreHeld' /\ ExecsDiffer'
    BY <1>2 DEF StoredIsOwner, NoncesAreHeld, ExecsDiffer
  <1> QED BY <1>4, <1>5, <1>6

(* An accepted init moves slot and owner together.                         *)
LEMMA InvokeInitInductive ==
  ASSUME InductiveInv, TypeOK', NEW a \in Accounts, NEW pubkey \in PubKeys,
         InvokeInit(a, pubkey)
  PROVE  InductiveInv'
  <1> USE DEF InductiveInv
  <1>1. UNCHANGED <<ledger, nonces, requests, execs>>
    BY DEF InvokeInit
  <1>2. StoredIsOwner'
    <2>1. CASE InitialiseOf(a, pubkey).res = "Ok"
      BY <2>1, InitialiseOutcome DEF InvokeInit, StoredIsOwner
    <2>2. CASE InitialiseOf(a, pubkey).res # "Ok"
      <3>1. stored' = [stored EXCEPT ![a] = stored[a]]
        BY <2>2, InitialiseOutcome DEF InvokeInit
      <3>2. stored' = stored
        BY <3>1 DEF TypeOK
      <3> QED BY <2>2, <3>2 DEF InvokeInit, StoredIsOwner
    <2> QED BY <2>1, <2>2
  <1>3. RequestsAreSigned' /\ ExecsAreAuthorised' /\ NoncesAreHeld' /\ ExecsDiffer'
    BY <1>1 DEF RequestsAreSigned, ExecsAreAuthorised, NoncesAreHeld, ExecsDiffer,
       HostPayload
  <1> QED BY <1>2, <1>3

(* An executed call adds an execution unlike any before it, and holds its  *)
(* nonce.                                                                  *)
LEMMA ProtectedInductive ==
  ASSUME InductiveInv, TypeOK', NEW a \in Accounts, NEW entry \in SubmittedEntries,
         ProtectedSucceeds(a, entry)
  PROVE  InductiveInv'
  <1> USE DEF InductiveInv
  <1> DEFINE x == [account |-> a, key |-> owner[a], entry |-> entry, at |-> ledger]
             n == Len(execs) + 1
  <1>1. /\ entry.account = a
        /\ entry.root_invocation = Protected(a)
        /\ entry.signature_expiration_ledger >= ledger
        /\ ~NonceLive(a, entry.nonce)
        /\ CheckAuthOf(a, HostPayload(entry), entry.signature) = "Ok"
    BY RequireAuthOk DEF ProtectedSucceeds
  <1>2. /\ Len(execs) \in Nat
        /\ DOMAIN execs = 1..Len(execs)
        /\ DOMAIN execs' = 1..n
        /\ \A i \in DOMAIN execs : execs'[i] = execs[i]
        /\ execs'[n] = x
    BY AppendedExec
  <1>3. \A i \in DOMAIN execs' : i \in DOMAIN execs \/ i = n
    BY <1>2
  <1>4. UNCHANGED <<ledger, stored, owner, requests>>
    BY DEF ProtectedSucceeds
  <1>5. nonces' = nonces \cup {NonceEntry(entry)}
    BY DEF ProtectedSucceeds
  <1>6. /\ x.key # None
        /\ x.at <= x.entry.signature_expiration_ledger
        /\ x.entry.account = x.account
        /\ x.entry.root_invocation = Protected(x.account)
        /\ x.entry.signature.body = Signature(SCHEME, x.key.body,
                                              ClientContext(x.account),
                                              HostPayload(x.entry))
        /\ \E r \in requests : r.entry.signature = x.entry.signature
    <2>1. stored[a] # None /\ entry.signature.body
             = Signature(SCHEME, stored[a].body, ClientContext(a), HostPayload(entry))
      BY <1>1, CheckAuthOk
    <2>2. \E r \in requests : r.entry.signature = entry.signature
      BY AcceptedIsCirculating DEF ProtectedSucceeds
    <2>3. ledger <= entry.signature_expiration_ledger
      BY <1>1 DEF TypeOK
    <2> QED BY <1>1, <2>1, <2>2, <2>3 DEF StoredIsOwner
  <1>7. ExecsAreAuthorised'
    BY <1>2, <1>3, <1>4, <1>6 DEF ExecsAreAuthorised, HostPayload
  <1>8. NoncesAreHeld'
    <2>1. /\ NonceEntry(entry).account = a
          /\ NonceEntry(entry).nonce = entry.nonce
          /\ NonceEntry(entry).live_until >= entry.signature_expiration_ledger
      <3>1. entry.signature_expiration_ledger \in Nat /\ ledger + MinTempTtl - 1 \in Nat
        BY SubmittedType, LedgerNumbers
      <3> QED BY <1>1, <3>1 DEF NonceEntry
    <2> QED BY <1>2, <1>3, <1>4, <1>5, <2>1 DEF NoncesAreHeld
  <1>9. ExecsDiffer'
    <2>1. ASSUME NEW i \in DOMAIN execs, execs[i].account = a,
                 execs[i].entry.nonce = entry.nonce,
                 execs[i].entry.signature_expiration_ledger
                   = entry.signature_expiration_ledger
          PROVE  FALSE
      BY <1>1, <2>1 DEF NoncesAreHeld, NonceLive
    <2> QED BY <1>2, <1>3, <2>1 DEF ExecsDiffer
  <1>10. StoredIsOwner' /\ RequestsAreSigned'
    BY <1>4 DEF StoredIsOwner, RequestsAreSigned
  <1> QED BY <1>7, <1>8, <1>9, <1>10

(* A nonce dropped when the ledger closes belongs to an expired entry.     *)
LEMMA CloseLedgerInductive ==
  ASSUME InductiveInv, TypeOK', CloseLedger
  PROVE  InductiveInv'
  <1> USE DEF InductiveInv
  <1>1. UNCHANGED <<stored, owner, requests, execs>>
    BY DEF CloseLedger
  <1>2. NoncesAreHeld'
    <2> SUFFICES ASSUME NEW i \in DOMAIN execs,
                        execs[i].entry.signature_expiration_ledger >= ledger + 1
                 PROVE  \E n \in nonces' :
                          /\ n.account = execs[i].account
                          /\ n.nonce = execs[i].entry.nonce
                          /\ n.live_until >= execs[i].entry.signature_expiration_ledger
      BY <1>1 DEF NoncesAreHeld, CloseLedger
    <2>1. /\ ledger \in Nat
          /\ execs[i].entry.signature_expiration_ledger \in Nat
      BY LedgerNumbers
    <2>2. PICK n \in nonces :
            /\ n.account = execs[i].account
            /\ n.nonce = execs[i].entry.nonce
            /\ n.live_until >= execs[i].entry.signature_expiration_ledger
      BY <2>1 DEF NoncesAreHeld
    <2>3. n.live_until \in Nat
      BY DEF TypeOK
    <2>4. n \in nonces'
      BY <2>1, <2>2, <2>3 DEF CloseLedger
    <2> QED BY <2>2, <2>4
  <1>3. StoredIsOwner' /\ RequestsAreSigned' /\ ExecsAreAuthorised' /\ ExecsDiffer'
    BY <1>1 DEF StoredIsOwner, RequestsAreSigned, ExecsAreAuthorised, ExecsDiffer,
       HostPayload
  <1> QED BY <1>2, <1>3

(* Every step keeps the inductive invariant.                               *)
LEMMA NextInductive == InductiveInv /\ [Next]_vars => InductiveInv'
  <1> SUFFICES ASSUME InductiveInv, [Next]_vars PROVE InductiveInv'
    OBVIOUS
  <1>1. TypeOK'
    BY NextTypeOK DEF InductiveInv
  <1>2. ASSUME NEW seed \in Seeds, NEW a \in Accounts,
               NEW passphrase \in Passphrases, NEW nonce \in Nonces,
               NEW expiry \in Expiries, NEW context \in Contexts,
               Sign(seed, a, Payload(passphrase, nonce, expiry, a), context)
        PROVE  InductiveInv'
    BY <1>1, <1>2, PayloadType, SignInductive
  <1>3. ASSUME NEW a \in Accounts, NEW pubkey \in PubKeys, InvokeInit(a, pubkey)
        PROVE  InductiveInv'
    BY <1>1, <1>3, InvokeInitInductive
  <1>4. ASSUME NEW a \in Accounts, NEW entry \in SubmittedEntries,
               ProtectedSucceeds(a, entry)
        PROVE  InductiveInv'
    BY <1>1, <1>4, ProtectedInductive
  <1>5. ASSUME UNCHANGED <<ledger, stored, owner, nonces, requests, execs>>
        PROVE  InductiveInv'
    BY <1>1, <1>5 DEF InductiveInv, StoredIsOwner, RequestsAreSigned,
       ExecsAreAuthorised, NoncesAreHeld, ExecsDiffer, HostPayload
  <1>6. ASSUME NEW a \in Accounts, NEW entry \in SubmittedEntries,
               ProtectedFails(a, entry)
        PROVE  InductiveInv'
    BY <1>5, <1>6 DEF ProtectedFails
  <1>7. CASE CloseLedger
    BY <1>1, <1>7, CloseLedgerInductive
  <1>8. CASE UNCHANGED vars
    BY <1>5, <1>8 DEF vars
  <1> QED BY <1>2, <1>3, <1>4, <1>6, <1>7, <1>8 DEF Next

(* The inductive invariant holds in every reachable state.                 *)
THEOREM InductiveInvHolds == Spec => []InductiveInv
  <1> QED BY InitInductive, NextInductive, PTL DEF Spec

-----------------------------------------------------------------------------
(* What the invariant gives.                                               *)

(* Two digests of a host payload agree only if nonce, expiry and the       *)
(* account called do.                                                      *)
LEMMA HostPayloadBinds ==
  ASSUME NEW e, NEW f, HostPayload(e) = HostPayload(f)
  PROVE  /\ e.nonce = f.nonce
         /\ e.signature_expiration_ledger = f.signature_expiration_ledger
         /\ e.root_invocation = f.root_invocation
  <1> DEFINE h(x) == [network_id                  |-> NetworkId(Passphrase),
                      nonce                       |-> x.nonce,
                      signature_expiration_ledger |-> x.signature_expiration_ledger,
                      invocation                  |-> x.root_invocation]
  <1>1. h(e) = h(f)
    BY DEF HostPayload
  <1>2. /\ h(e).nonce = h(f).nonce
        /\ h(e).signature_expiration_ledger = h(f).signature_expiration_ledger
        /\ h(e).invocation = h(f).invocation
    BY <1>1
  <1> QED BY <1>2

(* Two executions with one signature would agree on everything it binds.   *)
LEMMA InductiveNoReplay == InductiveInv => NoReplay
  <1> SUFFICES ASSUME InductiveInv,
                      NEW i \in DOMAIN execs, NEW j \in DOMAIN execs, i # j,
                      execs[i].entry.signature = execs[j].entry.signature
               PROVE  FALSE
    BY DEF NoReplay
  <1>1. Signature(SCHEME, execs[i].key.body, ClientContext(execs[i].account),
                  HostPayload(execs[i].entry))
          = Signature(SCHEME, execs[j].key.body, ClientContext(execs[j].account),
                      HostPayload(execs[j].entry))
    BY DEF InductiveInv, ExecsAreAuthorised
  <1>2. HostPayload(execs[i].entry) = HostPayload(execs[j].entry)
    BY <1>1 DEF Signature
  <1>3. Protected(execs[i].account) = Protected(execs[j].account)
    BY <1>2, HostPayloadBinds DEF InductiveInv, ExecsAreAuthorised
  <1>4. execs[i].account = execs[j].account
    BY <1>3 DEF Protected
  <1> QED BY <1>2, <1>4, HostPayloadBinds DEF InductiveInv, ExecsDiffer

(* No signature authorises two executions, however long the ledger runs    *)
(* and however often nonces are forgotten and reused.                      *)
THEOREM NoReplayHolds == Spec => []NoReplay
  <1> QED BY InductiveInvHolds, InductiveNoReplay, PTL

(* A payload is determined by its four fields.                             *)
LEMMA PayloadFields ==
  ASSUME NEW p \in Payloads, NEW passphrase, NEW nonce, NEW expiry, NEW a,
         p.network_id = NetworkId(passphrase), p.nonce = nonce,
         p.signature_expiration_ledger = expiry, p.invocation = Protected(a)
  PROVE  p = Payload(passphrase, nonce, expiry, a)
  BY DEF Payloads, Payload

(* A full slot holds a string that is determined by its body.              *)
LEMMA FullSlot ==
  ASSUME NEW k \in Slots, k # None
  PROVE  k = Bytes(KeyLen, k.body)
  <1>1. k \in KeyBytes /\ k.len = KeyLen
    BY AccountHostAssumption DEF Slots
  <1> QED BY <1>1 DEF KeyBytes, Bytes

(* What build_auth_entry puts in an entry.                                 *)
LEMMA BuiltEntry ==
  ASSUME NEW a, NEW seed, NEW p, NEW context
  PROVE  LET entry == BuildAuthEntry(SCHEME, a, seed, p, context).val IN
         /\ entry.account = a
         /\ entry.nonce = p.nonce
         /\ entry.signature_expiration_ledger = p.signature_expiration_ledger
         /\ entry.root_invocation = p.invocation
         /\ entry.signature.len = SIGNATURE_LEN[SCHEME]
         /\ entry.signature.body = Signature(SCHEME, PublicKey(seed), context,
                                             SignaturePayload(p))
  BY DEF BuildAuthEntry, SignAuthorization, SignInto, Bytes

(* An execution's signature leads back to the request it was made for.     *)
LEMMA InductiveConsent == InductiveInv => Consent
  <1> SUFFICES ASSUME InductiveInv, NEW i \in DOMAIN execs
               PROVE  \E r \in requests :
                        /\ r.payload = Payload(Passphrase, execs[i].entry.nonce,
                             execs[i].entry.signature_expiration_ledger,
                             execs[i].account)
                        /\ r.context = ClientContext(execs[i].account)
                        /\ execs[i].key = Bytes(KeyLen, PublicKey(r.seed))
                        /\ execs[i].at <= r.payload.signature_expiration_ledger
    BY DEF Consent
  <1> DEFINE x == execs[i]
  <1>1. x \in Executions
    BY LedgerNumbers DEF InductiveInv
  <1>2. PICK r \in requests : r.entry.signature = x.entry.signature
    BY DEF InductiveInv, ExecsAreAuthorised
  <1>3. r.payload \in Payloads
    BY DEF InductiveInv, TypeOK
  <1>4. r.entry.signature.body = Signature(SCHEME, PublicKey(r.seed), r.context,
                                           SignaturePayload(r.payload))
    BY BuiltEntry DEF InductiveInv, RequestsAreSigned
  <1>5. Signature(SCHEME, PublicKey(r.seed), r.context, SignaturePayload(r.payload))
          = Signature(SCHEME, x.key.body, ClientContext(x.account),
                      HostPayload(x.entry))
    BY <1>2, <1>4 DEF InductiveInv, ExecsAreAuthorised
  <1>6. /\ PublicKey(r.seed) = x.key.body
        /\ r.context = ClientContext(x.account)
        /\ SignaturePayload(r.payload) = HostPayload(x.entry)
    BY <1>5 DEF Signature
  <1>7. /\ r.payload.network_id = NetworkId(Passphrase)
        /\ r.payload.nonce = x.entry.nonce
        /\ r.payload.signature_expiration_ledger = x.entry.signature_expiration_ledger
        /\ r.payload.invocation = x.entry.root_invocation
    <2> HIDE DEF x
    <2> DEFINE f == [network_id                  |-> r.payload.network_id,
                     nonce                       |-> r.payload.nonce,
                     signature_expiration_ledger |->
                       r.payload.signature_expiration_ledger,
                     invocation                  |-> r.payload.invocation]
               h == [network_id                  |-> NetworkId(Passphrase),
                     nonce                       |-> x.entry.nonce,
                     signature_expiration_ledger |->
                       x.entry.signature_expiration_ledger,
                     invocation                  |-> x.entry.root_invocation]
    <2>1. f = h
      BY <1>6 DEF SignaturePayload, HostPayload, Sha256
    <2>2. /\ f.network_id = h.network_id /\ f.nonce = h.nonce
          /\ f.signature_expiration_ledger = h.signature_expiration_ledger
          /\ f.invocation = h.invocation
      BY <2>1
    <2> QED BY <2>2
  <1>8. x.entry.root_invocation = Protected(x.account)
    BY DEF InductiveInv, ExecsAreAuthorised
  <1>9. r.payload = Payload(Passphrase, x.entry.nonce,
                            x.entry.signature_expiration_ledger, x.account)
    BY <1>3, <1>7, <1>8, PayloadFields
  <1>10. x.key = Bytes(KeyLen, PublicKey(r.seed))
    BY <1>1, <1>6, FullSlot DEF InductiveInv, ExecsAreAuthorised, Executions
  <1>11. x.at <= r.payload.signature_expiration_ledger
    BY <1>7 DEF InductiveInv, ExecsAreAuthorised
  <1> QED BY <1>6, <1>9, <1>10, <1>11

(* Nothing is executed that the key holder did not sign for exactly this   *)
(* network, account, nonce and expiry under the contract's context.        *)
THEOREM ConsentHolds == Spec => []Consent
  <1> QED BY InductiveInvHolds, InductiveConsent, PTL

-----------------------------------------------------------------------------
(* Verdicts.                                                               *)

(* Bodies that do not decode are not signatures of anything.               *)
LEMMA SignedIsWellFormed ==
  ASSUME NEW s, NEW key, NEW context, NEW payload
  PROVE  Signature(s, key, context, payload) # MalformedSignature
  <1>1. Signature(s, key, context, payload).kind = "signed"
    BY DEF Signature
  <1>2. MalformedSignature.kind = "malformed"
    BY DEF MalformedSignature
  <1> QED BY <1>1, <1>2

(* With a usable key in the slot and a signature of the right length, the  *)
(* verdict of either contract is the verification equation.                *)
LEMMA CheckAuthVerdict ==
  ASSUME NEW a \in Accounts, NEW payload, NEW signature,
         stored[a] \in Slots, stored[a] # None,
         signature.len = SIGNATURE_LEN[SCHEME]
  PROVE  CheckAuthOf(a, payload, signature) = "Ok"
           <=> signature.body = Signature(SCHEME, stored[a].body,
                                          ClientContext(a), payload)
  <1>1. stored[a].len = KeyLen
    BY AccountHostAssumption DEF Slots
  <1>2. KeyLen = 1952 /\ SIGNATURE_LEN[SCHEME] = 3309
    BY DEF KeyLen, VERIFYING_KEY_LEN, SIGNATURE_LEN, Schemes, SCHEME
  <1>3. CONTEXT.len = 13 /\ EmptyContext.len = 0
    BY DEF CONTEXT, EmptyContext, Bytes
  <1>4. CASE Version[a] = "v1"
    <2>1. ClientContext(a) = CONTEXT
      BY <1>4 DEF ClientContext, CONTEXT
    <2>2. CheckAuthOf(a, payload, signature)
            = CheckAuth(stored[a], payload, signature)
      BY <1>4 DEF CheckAuthOf
    <2>3. CheckAuth(stored[a], payload, signature) = "Ok"
            <=> Verify(SCHEME, stored[a].body, payload, CONTEXT, signature) = "Ok"
      BY <1>1, ThenOk DEF CheckAuth, MapErr, Require, VerifyingKeyFromBytes,
         CheckLen, VK_LEN, SIG_LEN, KeyLen
    <2>4. Verify(SCHEME, stored[a].body, payload, CONTEXT, signature) = "Ok"
            <=> signature.body = Signature(SCHEME, stored[a].body, CONTEXT, payload)
      BY <1>3, ThenOk, SignedIsWellFormed DEF Verify, CheckContext, CheckLen,
         Require, MAX_CONTEXT_LEN
    <2> QED BY <2>1, <2>2, <2>3, <2>4
  <1>5. CASE Version[a] # "v1"
    <2>1. ClientContext(a) = EmptyContext
      BY <1>5 DEF ClientContext
    <2>2. CheckAuthOf(a, payload, signature)
            = Phase0CheckAuth(stored[a], payload, signature)
      BY <1>5 DEF CheckAuthOf
    <2> QED BY <1>1, <1>2, <2>1, <2>2, ThenOk, SignedIsWellFormed
            DEF Phase0CheckAuth, Require, SCHEME
  <1> QED BY <1>4, <1>5

(* A client's entry for this network carries what the host will ask for.   *)
LEMMA InductiveHonest == InductiveInv => HonestAuthorizationSucceeds
  <1> SUFFICES ASSUME InductiveInv, NEW r \in requests,
                      r.payload.network_id = NetworkId(Passphrase),
                      r.context = ClientContext(r.entry.account),
                      owner[r.entry.account] = Bytes(KeyLen, PublicKey(r.seed)),
                      r.payload.signature_expiration_ledger >= ledger,
                      ~NonceLive(r.entry.account, r.payload.nonce)
               PROVE  RequireAuth(r.entry.account, r.entry) = "Ok"
    BY DEF HonestAuthorizationSucceeds
  <1> DEFINE a == r.entry.account
             p == r.payload
  <1>1. a \in Accounts /\ stored[a] \in Slots /\ owner[a] = stored[a]
    BY DEF InductiveInv, TypeOK, Entries, StoredIsOwner
  <1>2. r.entry = BuildAuthEntry(SCHEME, a, r.seed, p, r.context).val
        /\ p.invocation = Protected(a)
    BY DEF InductiveInv, RequestsAreSigned
  <1>3. /\ r.entry.nonce = p.nonce
        /\ r.entry.signature_expiration_ledger = p.signature_expiration_ledger
        /\ r.entry.root_invocation = p.invocation
        /\ r.entry.signature.len = SIGNATURE_LEN[SCHEME]
        /\ r.entry.signature.body = Signature(SCHEME, PublicKey(r.seed), r.context,
                                              SignaturePayload(p))
    BY <1>2, BuiltEntry
  <1>4. HostPayload(r.entry) = SignaturePayload(p)
    BY <1>3 DEF HostPayload, SignaturePayload, Sha256
  <1>5. stored[a] # None /\ stored[a].body = PublicKey(r.seed)
    <2>1. Bytes(KeyLen, PublicKey(r.seed)) \in KeyBytes
      <3>1. r.seed \in Seeds
        BY DEF InductiveInv, TypeOK
      <3>2. KeyLen \in Nat
        BY DEF KeyLen, VERIFYING_KEY_LEN, Schemes, SCHEME
      <3> QED BY <3>1, <3>2 DEF KeyBytes, Bytes
    <2> QED BY <1>1, <2>1, AccountHostAssumption DEF Bytes
  <1>6. CheckAuthOf(a, HostPayload(r.entry), r.entry.signature) = "Ok"
    BY <1>1, <1>3, <1>4, <1>5, CheckAuthVerdict
  <1> QED BY <1>2, <1>3, <1>6, ThenOk DEF RequireAuth, Require

(* What the key holder built for this network and contract is accepted     *)
(* while it is fresh.                                                      *)
THEOREM HonestAuthorizationHolds == Spec => []HonestAuthorizationSucceeds
  <1> QED BY InductiveInvHolds, InductiveHonest, PTL

(* Off-chain and on-chain verdicts are the same equation.                  *)
LEMMA InductiveOffchain == InductiveInv => OffchainCheckAgrees
  <1> SUFFICES ASSUME InductiveInv, NEW a \in Accounts, NEW r \in requests,
                      owner[a] # None, NEW p
               PROVE  (VerifyAuthorization(SCHEME, owner[a].body, p,
                                           ClientContext(a), r.entry.signature) = "Ok")
                      <=> (CheckAuthOf(a, SignaturePayload(p), r.entry.signature) = "Ok")
    BY DEF OffchainCheckAgrees
  <1>1. stored[a] \in Slots /\ owner[a] = stored[a]
    BY DEF InductiveInv, TypeOK, StoredIsOwner
  <1>2. r.entry.signature.len = SIGNATURE_LEN[SCHEME]
    BY BuiltEntry DEF InductiveInv, RequestsAreSigned
  <1>3. ClientContext(a).len <= MAX_CONTEXT_LEN
    BY DEF ClientContext, EmptyContext, Bytes, MAX_CONTEXT_LEN
  <1>4. VerifyAuthorization(SCHEME, owner[a].body, p, ClientContext(a),
                            r.entry.signature) = "Ok"
          <=> r.entry.signature.body = Signature(SCHEME, owner[a].body,
                                                 ClientContext(a), SignaturePayload(p))
    BY <1>2, <1>3, ThenOk, SignedIsWellFormed
       DEF VerifyAuthorization, Verify, CheckContext, CheckLen, Require
  <1> QED BY <1>1, <1>2, <1>4, CheckAuthVerdict

(* verify_authorization predicts __check_auth for every signature a client *)
(* has made, whichever contract version is deployed.                       *)
THEOREM OffchainCheckHolds == Spec => []OffchainCheckAgrees
  <1> QED BY InductiveInvHolds, InductiveOffchain, PTL

(* The answer to a call of protected, given the slot's contents.           *)
LEMMA UsableKeyAnswer ==
  ASSUME NEW a \in Accounts, NEW entry, stored[a] \in Slots, stored[a] # None
  PROVE  RequireAuth(a, entry) \notin {"NotInited", "BadPubKeyLen"}
  <1>1. stored[a].len = KeyLen /\ KeyLen = 1952
    BY AccountHostAssumption
       DEF Slots, KeyLen, VERIFYING_KEY_LEN, Schemes, SCHEME
  <1>2. \A payload, signature :
          CheckAuthOf(a, payload, signature) \notin {"NotInited", "BadPubKeyLen"}
    BY <1>1 DEF CheckAuthOf, CheckAuth, Phase0CheckAuth, MapErr, Require, ??,
       VK_LEN, KeyLen, VerifyingKeyFromBytes, CheckLen
  <1> QED BY <1>2 DEF RequireAuth, Require, ??

(* The last answer keeps agreeing with the key last installed.             *)
LEMMA NextInstalledKeyWorks ==
  InductiveInv /\ InstalledKeyWorks /\ [Next]_vars => InstalledKeyWorks'
  <1> SUFFICES ASSUME InductiveInv, InstalledKeyWorks, [Next]_vars
               PROVE  InstalledKeyWorks'
    OBVIOUS
  <1>1. ASSUME UNCHANGED <<owner, reply>> PROVE InstalledKeyWorks'
    BY <1>1 DEF InstalledKeyWorks
  <1>2. ASSUME NEW a \in Accounts, NEW entry \in SubmittedEntries,
               ProtectedSucceeds(a, entry) \/ ProtectedFails(a, entry)
        PROVE  InstalledKeyWorks'
    <2>1. /\ reply' = Answer(a, "protected", RequireAuth(a, entry))
          /\ owner' = owner
      BY <1>2 DEF ProtectedSucceeds, ProtectedFails
    <2>2. stored[a] \in Slots /\ owner[a] = stored[a]
      BY DEF InductiveInv, TypeOK, StoredIsOwner
    <2> QED BY <2>1, <2>2, UsableKeyAnswer DEF InstalledKeyWorks, Answer
  <1>3. ASSUME NEW a \in Accounts, NEW pubkey \in PubKeys, InvokeInit(a, pubkey)
        PROVE  InstalledKeyWorks'
    BY <1>3 DEF InvokeInit, InstalledKeyWorks, Answer
  <1> QED BY <1>1, <1>2, <1>3 DEF Next, Sign, CloseLedger, vars

(* What init accepted, __check_auth can use: no account becomes unusable   *)
(* by an accepted key.                                                     *)
THEOREM InstalledKeyWorksHolds == Spec => []InstalledKeyWorks
  <1>1. Init => InstalledKeyWorks
    BY DEF Init, InstalledKeyWorks, NoCall
  <1> QED BY <1>1, InductiveInvHolds, NextInstalledKeyWorks, PTL DEF Spec

-----------------------------------------------------------------------------
(* The refinement of one-time grants.                                      *)

(* A request grants something when it is for this network and its          *)
(* account's context.                                                      *)
Grants(r) == r.payload.network_id = NetworkId(Passphrase)
             /\ r.context = ClientContext(r.entry.account)

GrantOf(r) == [signer  |-> PublicKey(r.seed),
               account |-> r.entry.account,
               nonce   |-> r.payload.nonce,
               expiry  |-> r.payload.signature_expiration_ledger]

GrantSet == [signer : Signers, account : Accounts, nonce : Nonces, expiry : Expiries]

(* The grants of the abstract specification, one for every request that    *)
(* counts as a grant.                                                      *)
LEMMA GrantedByRequestsIs ==
  GrantedByRequests = {GrantOf(r) : r \in {q \in requests : Grants(q)}}
  BY DEF GrantedByRequests, GrantOf, Grants

(* Initially nothing is granted and nothing used.                          *)
LEMMA InitRefines == Init => G!Init
  <1> SUFFICES ASSUME Init PROVE G!Init
    OBVIOUS
  <1>1. DOMAIN execs = {} /\ requests = {} /\ ledger = 1
    BY DEF Init
  <1>2. GrantedByRequests = {}
    BY <1>1, GrantedByRequestsIs
  <1>3. UsedByExecs = << >>
    BY <1>1 DEF UsedByExecs
  <1> QED BY <1>1, <1>2, <1>3 DEF G!Init

(* Signing grants at most one grant.                                       *)
LEMMA SignRefines ==
  ASSUME TypeOK, NEW seed \in Seeds, NEW a \in Accounts, NEW p \in Payloads,
         NEW context, Sign(seed, a, p, context)
  PROVE  \/ \E g \in GrantSet : G!Grant(g)
         \/ UNCHANGED G!vars
  <1> DEFINE q == [seed |-> seed, payload |-> p, context |-> context,
                   entry |-> BuildAuthEntry(SCHEME, a, seed, p, context).val]
  <1>1. requests' = requests \cup {q} /\ UNCHANGED <<ledger, owner, execs>>
    BY DEF Sign
  <1>2. UsedByExecs' = UsedByExecs
    BY <1>1 DEF UsedByExecs, GrantOfExec
  <1>3. GrantOf(q) \in GrantSet
    BY BuiltEntry DEF GrantOf, GrantSet, Signers, Payloads
  <1>4. GrantedByRequests' = {GrantOf(r) : r \in {s \in requests' : Grants(s)}}
    BY DEF GrantedByRequests, GrantOf, Grants
  <1> HIDE DEF q
  <1>5. CASE Grants(q)
    <2>1. GrantedByRequests' = GrantedByRequests \cup {GrantOf(q)}
      BY <1>1, <1>4, <1>5, GrantedByRequestsIs
    <2> QED BY <1>1, <1>2, <1>3, <2>1 DEF G!Grant
  <1>6. CASE ~Grants(q)
    <2>1. GrantedByRequests' = GrantedByRequests
      BY <1>1, <1>4, <1>6, GrantedByRequestsIs
    <2> QED BY <1>1, <1>2, <2>1 DEF G!vars
  <1> QED BY <1>5, <1>6

(* An init that answers Ok installs its key; any other changes nothing.    *)
LEMMA InvokeInitRefines ==
  ASSUME TypeOK, NEW a \in Accounts, NEW pubkey \in PubKeys, InvokeInit(a, pubkey)
  PROVE  \/ \E k \in Slots : G!Install(a, k)
         \/ UNCHANGED G!vars
  <1>1. UNCHANGED <<ledger, requests, execs>>
    BY DEF InvokeInit
  <1>2. UNCHANGED <<GrantedByRequests, UsedByExecs>>
    BY <1>1 DEF GrantedByRequests, UsedByExecs, GrantOfExec
  <1>3. CASE InitialiseOf(a, pubkey).res = "Ok"
    <2>1. pubkey \in Slots
      BY <1>3, InitialiseOutcome DEF Slots
    <2>2. owner' = [owner EXCEPT ![a] = pubkey]
      BY <1>3 DEF InvokeInit
    <2> QED BY <1>1, <1>2, <2>1, <2>2 DEF G!Install
  <1>4. CASE InitialiseOf(a, pubkey).res # "Ok"
    BY <1>1, <1>2, <1>4 DEF InvokeInit, G!vars
  <1> QED BY <1>3, <1>4

(* An executed call uses a grant that was given, unused and in time.       *)
LEMMA ProtectedRefines ==
  ASSUME InductiveInv, InductiveInv', NEW a \in Accounts,
         NEW entry \in SubmittedEntries, ProtectedSucceeds(a, entry)
  PROVE  \E g \in GrantSet : G!Use(g)
  <1> DEFINE x == [account |-> a, key |-> owner[a], entry |-> entry, at |-> ledger]
             n == Len(execs) + 1
             g == GrantOfExec(x)
  <1>1. /\ Len(execs) \in Nat
        /\ DOMAIN execs = 1..Len(execs)
        /\ DOMAIN execs' = 1..n
        /\ \A i \in DOMAIN execs : execs'[i] = execs[i]
        /\ execs'[n] = x
    BY AppendedExec DEF InductiveInv
  <1>2. UNCHANGED <<ledger, stored, owner, requests>>
    BY DEF ProtectedSucceeds
  <1>3. PICK r \in requests :
          /\ r.payload = Payload(Passphrase, entry.nonce,
                                 entry.signature_expiration_ledger, a)
          /\ r.context = ClientContext(a)
          /\ owner[a] = Bytes(KeyLen, PublicKey(r.seed))
          /\ ledger <= r.payload.signature_expiration_ledger
    <2>1. Consent'
      BY InductiveConsent, PTL
    <2>2. n \in DOMAIN execs'
      BY <1>1
    <2> QED BY <1>1, <1>2, <2>1, <2>2 DEF Consent
  <1>4. /\ r.payload.network_id = NetworkId(Passphrase)
        /\ r.payload.nonce = entry.nonce
        /\ r.payload.signature_expiration_ledger = entry.signature_expiration_ledger
        /\ r.payload.invocation = Protected(a)
    BY <1>3 DEF Payload
  <1>5. r.entry.account = a
    <2>1. Protected(r.entry.account) = Protected(a)
      BY <1>4 DEF InductiveInv, RequestsAreSigned
    <2> QED BY <2>1 DEF Protected
  <1>6. g = GrantOf(r)
    BY <1>3, <1>4, <1>5 DEF GrantOfExec, GrantOf, Bytes
  <1>7. g \in GrantedByRequests
    BY <1>3, <1>4, <1>5, <1>6, GrantedByRequestsIs DEF Grants
  <1>8. g \in GrantSet
    <2>1. entry \in Entries /\ r.seed \in Seeds
      BY SubmittedType DEF InductiveInv, TypeOK
    <2> QED BY <1>4, <1>5, <1>6, <2>1 DEF GrantOf, GrantSet, Signers, Entries
  <1>9. GrantedByRequests' = GrantedByRequests
    BY <1>2 DEF GrantedByRequests
  <1>10. UsedByExecs' = Append(UsedByExecs, g)
    <2>1. UsedByExecs = [i \in 1..Len(execs) |-> GrantOfExec(execs[i])]
      BY <1>1 DEF UsedByExecs
    <2>2. UsedByExecs' = [i \in 1..n |-> IF i = n THEN g ELSE GrantOfExec(execs[i])]
      BY <1>1 DEF UsedByExecs, GrantOfExec
    <2> HIDE DEF g
    <2>3. Len(UsedByExecs) = Len(execs) /\ DOMAIN UsedByExecs = 1..Len(execs)
      BY <1>1, <2>1
    <2> QED BY <1>1, <2>1, <2>2, <2>3
  <1>11. \A i \in DOMAIN UsedByExecs : UsedByExecs[i] # g
    <2> SUFFICES ASSUME NEW i \in DOMAIN execs, GrantOfExec(execs[i]) = g
                 PROVE  FALSE
      BY DEF UsedByExecs
    <2>1. /\ execs[i].account = a
          /\ execs[i].entry.nonce = entry.nonce
          /\ execs[i].entry.signature_expiration_ledger
               = entry.signature_expiration_ledger
      BY DEF GrantOfExec
    <2>2. i \in DOMAIN execs' /\ n \in DOMAIN execs' /\ i # n
      BY <1>1
    <2> QED BY <1>1, <2>1, <2>2 DEF InductiveInv, ExecsDiffer
  <1>12. ledger <= g.expiry /\ g.account = a /\ g.signer = PublicKey(r.seed)
    BY <1>3, <1>4, <1>5, <1>6 DEF GrantOf
  <1>13. owner[g.account] = [signer \in Signers |-> Bytes(KeyLen, signer)][g.signer]
    BY <1>3, <1>8, <1>12 DEF GrantSet
  <1> HIDE DEF g
  <1> QED BY <1>2, <1>7, <1>8, <1>9, <1>10, <1>11, <1>12, <1>13 DEF G!Use

(* Every step is a step of one-time grants or a stutter.                   *)
LEMMA NextRefines ==
  InductiveInv /\ InductiveInv' /\ [Next]_vars => [G!Next]_G!vars
  <1> SUFFICES ASSUME InductiveInv, InductiveInv', [Next]_vars
               PROVE  G!Next \/ UNCHANGED G!vars
    OBVIOUS
  <1>1. TypeOK /\ DOMAIN owner = Accounts
    BY DEF InductiveInv, TypeOK
  <1>2. ASSUME NEW seed \in Seeds, NEW a \in Accounts,
               NEW passphrase \in Passphrases, NEW nonce \in Nonces,
               NEW expiry \in Expiries, NEW context \in Contexts,
               Sign(seed, a, Payload(passphrase, nonce, expiry, a), context)
        PROVE  G!Next \/ UNCHANGED G!vars
    BY <1>1, <1>2, PayloadType, SignRefines DEF G!Next, GrantSet
  <1>3. ASSUME NEW a \in Accounts, NEW pubkey \in PubKeys, InvokeInit(a, pubkey)
        PROVE  G!Next \/ UNCHANGED G!vars
    BY <1>1, <1>3, InvokeInitRefines DEF G!Next
  <1>4. ASSUME NEW a \in Accounts, NEW entry \in SubmittedEntries,
               ProtectedSucceeds(a, entry)
        PROVE  G!Next
    BY <1>4, ProtectedRefines DEF G!Next, GrantSet
  <1>5. ASSUME UNCHANGED <<ledger, owner, requests, execs>>
        PROVE  UNCHANGED G!vars
    BY <1>5 DEF G!vars, GrantedByRequests, UsedByExecs, GrantOfExec
  <1>6. CASE CloseLedger
    <2>1. UNCHANGED <<owner, requests, execs>> /\ ledger' = ledger + 1
      BY <1>6 DEF CloseLedger
    <2> QED BY <2>1 DEF G!Next, G!Tick, GrantedByRequests, UsedByExecs, GrantOfExec
  <1> QED BY <1>2, <1>3, <1>4, <1>5, <1>6 DEF Next, ProtectedFails, vars

(* The accounts implement one-time grants: no interleaving of signing,     *)
(* re-initialisation, submission and ledger closes executes a call without *)
(* using up a grant of the installed key's holder.                         *)
THEOREM ImplementsOneTimeGrants == Spec => OneTimeGrantsSpec
  <1> QED BY InitRefines, InductiveInvHolds, NextRefines, PTL
          DEF Spec, OneTimeGrantsSpec, G!Spec

=============================================================================
