----------------------------- MODULE AccountHost -----------------------------
(***************************************************************************)
(* Post-quantum contract accounts on a Soroban ledger.                     *)
(*                                                                         *)
(* Clients sign authorisation entries with pq-stellar; anybody submits     *)
(* calls; the host checks an entry's expiry and nonce, rebuilds the        *)
(* signature payload and asks the account's __check_auth; the contracts    *)
(* are pq-account ("v1") and the phase0 prototype ("phase0").              *)
(*                                                                         *)
(* The host is not in this repository.  Its part (the payload it hands to  *)
(* __check_auth, the nonce it keeps in temporary storage until the entry   *)
(* expires, the roll back of a failing call) is modelled from how the code *)
(* and docs here rely on it.                                               *)
(***************************************************************************)
EXTENDS PqStellar, PqAccount, Phase0Account, Sequences, FiniteSets

CONSTANTS
  Accounts,      \* contract addresses of the accounts
  Version,       \* Version[a]: the contract deployed at a
  Passphrases,   \* networks a client may sign for
  Passphrase,    \* the network this ledger belongs to
  Nonces,        \* nonces clients choose from
  Expiries,      \* expiration ledgers clients choose from
  Contexts,      \* domain-separation strings clients pass
  PubKeys,       \* byte strings passed to init
  MinTempTtl,    \* ledgers a temporary entry lives at least
  MaxLedger,     \* bound: last ledger explored
  MaxRequests,   \* bound: entries signed
  MaxExecs       \* bound: protected calls executed

VARIABLES
  ledger,        \* sequence number of the current ledger
  stored,        \* stored[a]: the slot DataKey::PubKey of account a
  owner,         \* history: the key of the last init that answered Ok
  nonces,        \* live nonce entries [account, nonce, live_until]
  requests,      \* history: what clients signed, with the entry they built
  execs,         \* history: the executed calls of protected, in order
  reply          \* answer of the last call [account, function, result]

vars == <<ledger, stored, owner, nonces, requests, execs, reply>>

-----------------------------------------------------------------------------
(* The code's operations, by deployed version.                             *)

InitialiseOf(a, pubkey) ==
  IF Version[a] = "v1" THEN Initialise(stored[a], pubkey)
                       ELSE Phase0Initialise(stored[a], pubkey)

CheckAuthOf(a, signature_payload, signature) ==
  IF Version[a] = "v1"
  THEN CheckAuth(stored[a], signature_payload, signature)
  ELSE Phase0CheckAuth(stored[a], signature_payload, signature)

(* The context a client must pass for the account's contract, and the call *)
(* it authorises: what authorize signs and what protected requires.        *)
ClientContext(a) ==
  IF Version[a] = "v1" THEN Bytes(13, "pq-account-v1") ELSE EmptyContext

Protected(a) == [contract |-> a, function |-> "protected"]

Payload(passphrase, nonce, expiry, a) ==
  [network_id                  |-> NetworkId(passphrase),
   nonce                       |-> nonce,
   signature_expiration_ledger |-> expiry,
   invocation                  |-> Protected(a)]

-----------------------------------------------------------------------------
(* The host.                                                               *)

HostPayload(entry) ==
  [sha256 |->
     [network_id                  |-> NetworkId(Passphrase),
      nonce                       |-> entry.nonce,
      signature_expiration_ledger |-> entry.signature_expiration_ledger,
      invocation                  |-> entry.root_invocation]]

NonceLive(a, nonce) ==
  \E n \in nonces : n.account = a /\ n.nonce = nonce

(* The nonce entry a call at the current ledger leaves behind.             *)
NonceEntry(entry) ==
  LET floor == ledger + MinTempTtl - 1 IN
  [account    |-> entry.account,
   nonce      |-> entry.nonce,
   live_until |-> IF entry.signature_expiration_ledger > floor
                  THEN entry.signature_expiration_ledger ELSE floor]

(* require_auth on account a when the transaction carries this entry.      *)
RequireAuth(a, entry) ==
  Require(entry.account = a /\ entry.root_invocation = Protected(a), "NoAuthEntry")
    ?? Require(entry.signature_expiration_ledger >= ledger, "Expired")
    ?? Require(~NonceLive(a, entry.nonce), "NonceUsed")
    ?? CheckAuthOf(a, HostPayload(entry), entry.signature)

-----------------------------------------------------------------------------
NoCall == [function |-> "none"]

Answer(a, function, result) ==
  [account |-> a, function |-> function, result |-> result]

Init ==
  /\ ledger = 1
  /\ stored = [a \in Accounts |-> None]
  /\ owner = stored
  /\ nonces = {}
  /\ requests = {}
  /\ execs = << >>
  /\ reply = NoCall

(* A client signs a payload and builds an entry for account a.             *)
Sign(seed, a, payload, context) ==
  LET built == BuildAuthEntry(SCHEME, a, seed, payload, context) IN
  /\ Cardinality(requests) < MaxRequests
  /\ built.res = "Ok"
  /\ requests' = requests \cup {[seed    |-> seed,
                                 payload |-> payload,
                                 context |-> context,
                                 entry   |-> built.val]}
  /\ UNCHANGED <<ledger, stored, owner, nonces, execs, reply>>

(* A transaction calls init on account a.                                  *)
InvokeInit(a, pubkey) ==
  LET call == InitialiseOf(a, pubkey) IN
  /\ stored' = [stored EXCEPT ![a] = call.val]
  /\ owner' = IF call.res = "Ok" THEN [owner EXCEPT ![a] = pubkey] ELSE owner
  /\ reply' = Answer(a, "init", call.res)
  /\ UNCHANGED <<ledger, nonces, requests, execs>>

(* A transaction calls protected on account a and carries an entry.  The   *)
(* nonce and the call take effect together or, on an error, not at all.    *)
ProtectedSucceeds(a, entry) ==
  /\ Len(execs) < MaxExecs
  /\ RequireAuth(a, entry) = "Ok"
  /\ nonces' = nonces \cup {NonceEntry(entry)}
  /\ execs' = Append(execs, [account |-> a, key |-> owner[a],
                             entry |-> entry, at |-> ledger])
  /\ reply' = Answer(a, "protected", "Ok")
  /\ UNCHANGED <<ledger, stored, owner, requests>>

ProtectedFails(a, entry) ==
  /\ RequireAuth(a, entry) # "Ok"
  /\ reply' = Answer(a, "protected", RequireAuth(a, entry))
  /\ UNCHANGED <<ledger, stored, owner, nonces, requests, execs>>

(* The ledger closes; nonces whose time has passed are gone in the next.   *)
CloseLedger ==
  /\ ledger < MaxLedger
  /\ ledger' = ledger + 1
  /\ nonces' = {n \in nonces : n.live_until > ledger}
  /\ UNCHANGED <<stored, owner, requests, execs, reply>>

(* Entries as they may reach the ledger: their fields need not be the ones *)
(* signed together, and a signature may be damaged or cut short.           *)
DamagedSignatures ==
  {Bytes(3309, CorruptSignature), Bytes(3309, MalformedSignature),
   Bytes(2420, CorruptSignature)}

SubmittedEntries ==
  [account                     : Accounts,
   nonce                       : Nonces,
   signature_expiration_ledger : Expiries,
   signature                   : {r.entry.signature : r \in requests}
                                   \cup DamagedSignatures,
   root_invocation             : {Protected(a) : a \in Accounts}]

Next ==
  \/ \E seed \in Seeds, a \in Accounts, passphrase \in Passphrases,
        nonce \in Nonces, expiry \in Expiries, context \in Contexts :
        Sign(seed, a, Payload(passphrase, nonce, expiry, a), context)
  \/ \E a \in Accounts, pubkey \in PubKeys : InvokeInit(a, pubkey)
  \/ \E a \in Accounts, entry \in SubmittedEntries :
        ProtectedSucceeds(a, entry) \/ ProtectedFails(a, entry)
  \/ CloseLedger

Spec == Init /\ [][Next]_vars

-----------------------------------------------------------------------------
(* What the constants have to satisfy.                                     *)

KeyLen == VERIFYING_KEY_LEN[SCHEME]

KeyBytes == [len  : Nat,
             body : {PublicKey(seed) : seed \in Seeds} \cup {UnknownKey}]

ASSUME AccountHostAssumption ==
  /\ Version \in [Accounts -> {"v1", "phase0"}]
  /\ Expiries \subseteq Nat
  /\ PubKeys \subseteq KeyBytes
  /\ None \notin KeyBytes
  /\ MinTempTtl \in Nat \ {0}
  /\ MaxLedger \in Nat \ {0} /\ MaxRequests \in Nat /\ MaxExecs \in Nat

-----------------------------------------------------------------------------
(* Every variable has its type.  In particular a key slot is empty or      *)
(* holds a string of exactly the length of an ML-DSA-65 verifying key,     *)
(* whatever was passed to init.                                            *)

Slots == {k \in PubKeys : k.len = KeyLen} \cup {None}

Payloads ==
  [network_id                  : {NetworkId(p) : p \in Passphrases},
   nonce                       : Nonces,
   signature_expiration_ledger : Expiries,
   invocation                  : {Protected(a) : a \in Accounts}]

SignedBytes ==
  [len  : {SIGNATURE_LEN[SCHEME]},
   body : [kind : {"signed"}, scheme : {SCHEME},
           key : {PublicKey(seed) : seed \in Seeds}, context : Contexts,
           message : {SignaturePayload(p) : p \in Payloads}]]

Entries ==
  [account                     : Accounts,
   nonce                       : Nonces,
   signature_expiration_ledger : Expiries,
   signature                   : SignedBytes \cup DamagedSignatures,
   root_invocation             : {Protected(a) : a \in Accounts}]

Executions == [account : Accounts, key : Slots, entry : Entries, at : 1..MaxLedger]

Results == {"Ok", "NotInited", "BadPubKeyLen", "BadSigLen", "SigVerifyFailed",
            "NoAuthEntry", "Expired", "NonceUsed"}

TypeOK ==
  /\ ledger \in 1..MaxLedger
  /\ stored \in [Accounts -> Slots]
  /\ owner \in [Accounts -> Slots]
  /\ nonces \subseteq [account : Accounts, nonce : Nonces, live_until : Nat]
  /\ requests \subseteq [seed : Seeds, payload : Payloads,
                         context : Contexts, entry : Entries]
  /\ execs \in Seq(Executions)
  /\ \/ reply = NoCall
     \/ reply \in [account : Accounts, function : {"init", "protected"},
                   result : Results]

-----------------------------------------------------------------------------
(* Safety.                                                                 *)

(* No signature ever authorises two executions, on one account or on two,  *)
(* whatever entry carries it, although nonces are forgotten and may be     *)
(* used again once their entry has expired (payload.rs, "a signature       *)
(* cannot be replayed at all").                                            *)
NoReplay ==
  \A i, j \in DOMAIN execs :
    i # j => execs[i].entry.signature # execs[j].entry.signature

(* Whatever __check_auth let through was signed by the holder of the key   *)
(* installed at that moment, for this network, account, nonce and expiry,  *)
(* and under the context the account's contract version asks clients for.  *)
Consent ==
  \A i \in DOMAIN execs :
    LET x == execs[i] IN
    \E r \in requests :
      /\ r.payload = Payload(Passphrase, x.entry.nonce,
                             x.entry.signature_expiration_ledger, x.account)
      /\ r.context = ClientContext(x.account)
      /\ x.key = Bytes(KeyLen, PublicKey(r.seed))
      /\ x.at <= r.payload.signature_expiration_ledger

(* After an init that answered Ok, a call of protected never fails for     *)
(* want of a usable key: what init accepts, __check_auth can decode        *)
(* (pq-account, "rather than discovering it at the first authorization     *)
(* attempt when the account is already unusable").                         *)
InstalledKeyWorks ==
  reply.function = "protected"
    => (reply.result \in {"NotInited", "BadPubKeyLen"}
          => owner[reply.account] = None)

(* An entry built with build_auth_entry by the account's key holder, under *)
(* the account's context and for this network, is accepted by the account  *)
(* until it expires or its nonce is taken: client and host derive the same *)
(* payload and client and contract agree on the context.                   *)
HonestAuthorizationSucceeds ==
  \A r \in requests :
    LET a == r.entry.account IN
    (/\ r.payload.network_id = NetworkId(Passphrase)
     /\ r.context = ClientContext(a)
     /\ owner[a] = Bytes(KeyLen, PublicKey(r.seed))
     /\ r.payload.signature_expiration_ledger >= ledger
     /\ ~NonceLive(a, r.payload.nonce))
      => RequireAuth(a, r.entry) = "Ok"

(* The off-chain verify_authorization with the account's key and context   *)
(* predicts the verdict of __check_auth, of either contract version, on    *)
(* any signature in circulation.                                           *)
OffchainCheckAgrees ==
  \A a \in Accounts, r \in requests, passphrase \in Passphrases :
    owner[a] # None =>
      LET p == [r.payload EXCEPT !.network_id = NetworkId(passphrase)] IN
      (VerifyAuthorization(SCHEME, owner[a].body, p, ClientContext(a),
                           r.entry.signature) = "Ok")
        <=> (CheckAuthOf(a, SignaturePayload(p), r.entry.signature) = "Ok")

-----------------------------------------------------------------------------
(* The inductive invariant behind the safety properties.                   *)

(* The slot holds the key of the last init that answered Ok.               *)
StoredIsOwner == stored = owner

(* A request's entry is the one build_auth_entry made of its payload.      *)
RequestsAreSigned ==
  \A r \in requests :
    /\ r.entry = BuildAuthEntry(SCHEME, r.entry.account, r.seed, r.payload,
                                r.context).val
    /\ r.payload.invocation = Protected(r.entry.account)

(* An executed entry named the account called, and carried a signature in  *)
(* circulation that verifies under the key installed then.                 *)
ExecsAreAuthorised ==
  \A i \in DOMAIN execs :
    LET x == execs[i] IN
    /\ x.key # None
    /\ x.at <= x.entry.signature_expiration_ledger
    /\ x.entry.account = x.account
    /\ x.entry.root_invocation = Protected(x.account)
    /\ x.entry.signature.body = Signature(SCHEME, x.key.body,
                                          ClientContext(x.account),
                                          HostPayload(x.entry))
    /\ \E r \in requests : r.entry.signature = x.entry.signature

(* The nonce of an executed entry is held until the entry has expired.     *)
NoncesAreHeld ==
  \A i \in DOMAIN execs :
    LET x == execs[i] IN
    x.entry.signature_expiration_ledger >= ledger =>
      \E n \in nonces :
        /\ n.account = x.account
        /\ n.nonce = x.entry.nonce
        /\ n.live_until >= x.entry.signature_expiration_ledger

(* What the signature binds differs from one execution to the next.        *)
ExecsDiffer ==
  \A i, j \in DOMAIN execs :
    i # j =>
      \/ execs[i].account # execs[j].account
      \/ execs[i].entry.nonce # execs[j].entry.nonce
      \/ execs[i].entry.signature_expiration_ledger
           # execs[j].entry.signature_expiration_ledger

(* An execution within its entry's life holds the nonce, so a second one   *)
(* with the same nonce has to wait for a later expiry; together with what  *)
(* signatures bind this gives NoReplay and Consent (pq-account             *)
(* __check_auth, payload.rs).                                              *)
InductiveInv ==
  /\ TypeOK
  /\ StoredIsOwner
  /\ RequestsAreSigned
  /\ ExecsAreAuthorised
  /\ NoncesAreHeld
  /\ ExecsDiffer

-----------------------------------------------------------------------------
(* The accounts implement one-time grants: a grant is what a client signed *)
(* for this network under the account's context, and every execution uses  *)
(* up exactly one.                                                         *)

GrantedByRequests ==
  {[signer  |-> PublicKey(r.seed),
    account |-> r.entry.account,
    nonce   |-> r.payload.nonce,
    expiry  |-> r.payload.signature_expiration_ledger] :
     r \in {q \in requests :
              /\ q.payload.network_id = NetworkId(Passphrase)
              /\ q.context = ClientContext(q.entry.account)}}

GrantOfExec(x) ==
  [signer  |-> x.key.body,
   account |-> x.account,
   nonce   |-> x.entry.nonce,
   expiry  |-> x.entry.signature_expiration_ledger]

UsedByExecs == [i \in DOMAIN execs |-> GrantOfExec(execs[i])]

Signers == {PublicKey(seed) : seed \in Seeds}

G == INSTANCE OneTimeGrants WITH
       Keys    <- Slots,
       Grants  <- [signer : Signers, account : Accounts, nonce : Nonces,
                   expiry : Expiries],
       KeyOf   <- [signer \in Signers |-> Bytes(KeyLen, signer)],
       now     <- ledger,
       guard   <- owner,
       granted <- GrantedByRequests,
       used    <- UsedByExecs

(* Every step of keys, payloads, nonces and signatures is a step of        *)
(* one-time grants, or changes nothing they speak of.                      *)
OneTimeGrantsSpec == G!Spec

=============================================================================
