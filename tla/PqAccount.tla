------------------------------ MODULE PqAccount ------------------------------
(***************************************************************************)
(* The contract contracts/pq-account: what init and __check_auth answer    *)
(* and leave in instance storage.  The storage slot DataKey::PubKey holds  *)
(* None or the bytes of a key.                                            *)
(***************************************************************************)
EXTENDS PqCore

SCHEME  == "ML-DSA-65"
VK_LEN  == VERIFYING_KEY_LEN[SCHEME]
SIG_LEN == SIGNATURE_LEN[SCHEME]

(* Faulty: no domain separation.                                           *)
NoContext == EmptyContext

CONTEXT == Bytes(13, "pq-account-v1")

(* Any error of pq-core becomes the contract's error e.                    *)
MapErr(res, e) == IF res = "Ok" THEN "Ok" ELSE e

(* Faulty: stores whatever it is given.                                    *)
InitialiseUnchecked(stored, pubkey) == [res |-> "Ok", val |-> pubkey]

(* Faulty: a second init answers Ok and keeps the first key.               *)
InitialiseOnce(stored, pubkey) ==
  LET res == Require(pubkey.len = VK_LEN, "BadPubKeyLen") IN
    [res |-> res,
     val |-> IF res = "Ok" /\ stored = None THEN pubkey ELSE stored]

(* init: length, trial decode, store.  It replaces whatever key was there. *)
Initialise(stored, pubkey) ==
  LET res == Require(pubkey.len = VK_LEN, "BadPubKeyLen")
               ?? MapErr(VerifyingKeyFromBytes(SCHEME, pubkey).res, "BadPubKeyLen")
  IN  [res |-> res, val |-> IF res = "Ok" THEN pubkey ELSE stored]

(* Faulty: checks lengths and forgets the result of verify.                *)
CheckAuthUnverified(stored, signature_payload, signature) ==
  Require(stored # None, "NotInited")
    ?? Require(stored.len = VK_LEN, "BadPubKeyLen")
    ?? Require(signature.len = SIG_LEN, "BadSigLen")

(* __check_auth on the stored slot, the host's payload and the entry's     *)
(* signature.                                                              *)
CheckAuth(stored, signature_payload, signature) ==
  LET vk == VerifyingKeyFromBytes(SCHEME, stored) IN
  Require(stored # None, "NotInited")
    ?? Require(stored.len = VK_LEN, "BadPubKeyLen")
    ?? Require(signature.len = SIG_LEN, "BadSigLen")
    ?? MapErr(vk.res, "BadPubKeyLen")
    ?? MapErr(Verify(SCHEME, vk.val, signature_payload, CONTEXT, signature),
              "SigVerifyFailed")

=============================================================================
