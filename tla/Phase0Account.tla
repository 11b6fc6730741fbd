---------------------------- MODULE Phase0Account ----------------------------
(***************************************************************************)
(* The prototype contract phase0/account, written against the ml-dsa crate *)
(* directly: init checks the length only, the context is empty, and a      *)
(* signature that does not decode is reported as one of the wrong length.  *)
(***************************************************************************)
EXTENDS PqCore

(* Faulty: stores whatever it is given.                                    *)
Phase0InitialiseUnchecked(stored, pubkey) == [res |-> "Ok", val |-> pubkey]

Phase0Initialise(stored, pubkey) ==
  LET res == Require(pubkey.len = 1952, "BadPubKeyLen") IN
    [res |-> res, val |-> IF res = "Ok" THEN pubkey ELSE stored]

Phase0CheckAuth(stored, signature_payload, signature) ==
  Require(stored # None, "NotInited")
    ?? Require(stored.len = 1952, "BadPubKeyLen")
    ?? Require(signature.len = 3309, "BadSigLen")
    ?? Require(signature.body # MalformedSignature, "BadSigLen")
    ?? Require(signature.body
                 = Signature("ML-DSA-65", stored.body, EmptyContext,
                             signature_payload),
               "SigVerifyFailed")

=============================================================================
