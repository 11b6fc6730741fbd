------------------------------ MODULE PqVerifier ------------------------------
(***************************************************************************)
(* The contract contracts/pq-verifier: what its stateless entry points     *)
(* answer.  verify44 and verify65 differ in the parameter set only, and so *)
(* do decode44 and decode65; noop answers true.                            *)
(***************************************************************************)
EXTENDS PqCore

(* The buffer a message is copied into.                                    *)
MSG_LEN == 8192

(* Faulty: refuses a message that just fits.                               *)
FitsBelow(s, pk, msg, sig) ==
  /\ pk.len = VERIFYING_KEY_LEN[s]
  /\ sig.len = SIGNATURE_LEN[s]
  /\ msg.len < MSG_LEN

(* The arguments have the lengths of the buffers they are copied into; all *)
(* three refusals answer false alike.                                      *)
Fits(s, pk, msg, sig) ==
  /\ pk.len = VERIFYING_KEY_LEN[s]
  /\ sig.len = SIGNATURE_LEN[s]
  /\ msg.len <= MSG_LEN

(* verify65, verify44: under the empty context.                            *)
VerifyAnswer(s, pk, msg, sig) ==
  LET vk == VerifyingKeyFromBytes(s, pk) IN
  /\ Fits(s, pk, msg, sig)
  /\ vk.res = "Ok"
  /\ Verify(s, vk.val, msg, EmptyContext, sig) = "Ok"

(* decode65, decode44.                                                     *)
DecodeAnswer(s, pk) == VerifyingKeyFromBytes(s, pk).res = "Ok"

-----------------------------------------------------------------------------
(* ed25519 and secp256r1: the host functions, idealised like the lattice   *)
(* schemes.                                                                *)
CLASSIC_LEN ==
  [ed25519 |-> [pk |-> 32, sig |-> 64], secp256r1 |-> [pk |-> 65, sig |-> 64]]

ClassicSignature(f, key, bytes) ==
  [kind |-> "classic", scheme |-> f, key |-> key, bytes |-> bytes]

Sha256(msg) == Bytes(32, [kind |-> "digest", of |-> msg])

(* Faulty: the message itself is passed for a digest.                      *)
HandedOnRaw(f, msg) == msg

(* What the contract hands to the host function.                           *)
HandedOn(f, msg) == IF f = "secp256r1" THEN Sha256(msg) ELSE msg

(* Their answer is true or a trap: BytesN fixes the lengths, and the host  *)
(* functions do not return on a signature that is not good.                *)
ClassicTraps(f, pk, msg, sig) ==
  \/ pk.len # CLASSIC_LEN[f].pk \/ sig.len # CLASSIC_LEN[f].sig
  \/ sig.body # ClassicSignature(f, pk.body, HandedOn(f, msg))

=============================================================================
