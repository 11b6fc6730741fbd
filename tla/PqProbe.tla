-------------------------------- MODULE PqProbe --------------------------------
(***************************************************************************)
(* The prototype contract phase0/contract: stateless entry points written  *)
(* against the ml-dsa crate directly.  verify and verify44 differ in the   *)
(* parameter set only; everything they refuse answers false alike.         *)
(***************************************************************************)
EXTENDS PqCore

(* The buffer a message is copied into.                                    *)
PROBE_MSG_LEN == 256

(* Faulty: verify44 checks the lengths of the other parameter set.         *)
ProbeVerifyCopied(s, pk, msg, sig) ==
  /\ pk.len = VERIFYING_KEY_LEN["ML-DSA-65"] /\ sig.len = SIGNATURE_LEN["ML-DSA-65"]
  /\ msg.len <= PROBE_MSG_LEN
  /\ sig.body = Signature(s, pk.body, EmptyContext, msg)

(* Faulty: a signature that decodes is good.                               *)
ProbeVerifyDecodes(s, pk, msg, sig) ==
  /\ pk.len = VERIFYING_KEY_LEN[s] /\ sig.len = SIGNATURE_LEN[s]
  /\ msg.len <= PROBE_MSG_LEN
  /\ sig.body # MalformedSignature

(* verify, verify44.                                                       *)
ProbeVerify(s, pk, msg, sig) ==
  /\ pk.len = VERIFYING_KEY_LEN[s] /\ sig.len = SIGNATURE_LEN[s]
  /\ msg.len <= PROBE_MSG_LEN
  /\ sig.body # MalformedSignature
  /\ sig.body = Signature(s, pk.body, EmptyContext, msg)

(* decode_only.                                                            *)
ProbeDecode(pk) == pk.len = VERIFYING_KEY_LEN["ML-DSA-65"]

(* ed25519 answers true or, when an argument has another length or the     *)
(* host function refuses the signature, traps.                             *)
ProbeEd25519Traps(pk, msg, sig) ==
  \/ pk.len # 32 \/ sig.len # 64
  \/ sig.body # [kind |-> "ed25519", key |-> pk.body, message |-> msg]

=============================================================================
