------------------------------ MODULE PqStellar ------------------------------
(***************************************************************************)
(* The adapter crates/pq-stellar: what a client signs to authorise an      *)
(* invocation, and the authorisation entry it attaches to a transaction.   *)
(***************************************************************************)
EXTENDS PqCore

(* A collision-free hash of an injective XDR encoding: two digests are     *)
(* equal exactly when the hashed values are.                               *)
Sha256(preimage) == [sha256 |-> preimage]

NetworkId(passphrase) == Sha256(passphrase)

(* Faulty: the expiry, or the nonce, is left out of the preimage.          *)
PayloadWithoutExpiry(p) ==
  Sha256([network_id |-> p.network_id,
          nonce      |-> p.nonce,
          invocation |-> p.invocation])

PayloadWithoutNonce(p) ==
  Sha256([network_id                  |-> p.network_id,
          signature_expiration_ledger |-> p.signature_expiration_ledger,
          invocation                  |-> p.invocation])

(* AuthorizationPayload::signature_payload, of a payload p with the four   *)
(* fields of the struct.                                                   *)
SignaturePayload(p) ==
  Sha256([network_id                  |-> p.network_id,
          nonce                       |-> p.nonce,
          signature_expiration_ledger |-> p.signature_expiration_ledger,
          invocation                  |-> p.invocation])

(* sign_authorization: the buffer has exactly SIGNATURE_LEN bytes and is   *)
(* truncated to what was written.                                          *)
SignAuthorization(s, seed, p, context) ==
  SignInto(s, seed, SignaturePayload(p), context, SIGNATURE_LEN[s])

(* build_auth_entry: the entry repeats the payload's nonce, expiry and     *)
(* invocation next to the signature, for the host to rebuild the payload.  *)
BuildAuthEntry(s, account, seed, p, context) ==
  LET signed == SignAuthorization(s, seed, p, context) IN
    [res |-> signed.res,
     val |-> [account                     |-> account,
              nonce                       |-> p.nonce,
              signature_expiration_ledger |-> p.signature_expiration_ledger,
              signature                   |-> signed.val,
              root_invocation             |-> p.invocation]]

EncodeVerifyingKey(s, key) ==
  WriteVerifyingKey(s, key, VERIFYING_KEY_LEN[s])

(* Faulty: verifies under the empty context whatever was asked.            *)
VerifyWithoutContext(s, key, p, context, signature) ==
  Verify(s, key, SignaturePayload(p), Bytes(0, ""), signature)

(* verify_authorization: the off-chain check of a signature.               *)
VerifyAuthorization(s, key, p, context, signature) ==
  Verify(s, key, SignaturePayload(p), context, signature)

=============================================================================
