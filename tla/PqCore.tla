------------------------------- MODULE PqCore -------------------------------
(***************************************************************************)
(* The trait layer crates/pq-core: lengths, the preconditions every        *)
(* operation checks, and the order in which they are checked.              *)
(*                                                                         *)
(* A byte string is a record [len, body]: its length is what the code      *)
(* branches on, its body stands for the content.  The lattice arithmetic   *)
(* of the ml-dsa crate is idealised: deterministic signing is an injective *)
(* constructor, and a signature verifies exactly when it is the one signed *)
(* by the matching key over the same context and message.                  *)
(*                                                                         *)
(* A Rust Result is either the string "Ok" or the name of the error; an    *)
(* operation that also returns a value gives [res, val], whose val means   *)
(* something only when res = "Ok".  e1 ?? e2 is Rust's early return: the   *)
(* second check runs only if the first one succeeded.                      *)
(***************************************************************************)
EXTENDS Naturals

CONSTANTS
  Seeds,      \* the 32-byte seeds key pairs are derived from
  None        \* Option::None

Schemes == {"ML-DSA-44", "ML-DSA-65"}

VERIFYING_KEY_LEN == [s \in Schemes |-> IF s = "ML-DSA-44" THEN 1312 ELSE 1952]
SIGNING_KEY_LEN   == [s \in Schemes |-> IF s = "ML-DSA-44" THEN 2560 ELSE 4032]
SIGNATURE_LEN     == [s \in Schemes |-> IF s = "ML-DSA-44" THEN 2420 ELSE 3309]
SEED_LEN          == 32
MAX_CONTEXT_LEN   == 255

Bytes(n, b) == [len |-> n, body |-> b]

EmptyContext == Bytes(0, "")

Require(condition, error) == IF condition THEN "Ok" ELSE error
e1 ?? e2 == IF e1 = "Ok" THEN e2 ELSE e1

-----------------------------------------------------------------------------
(* The shared preconditions.                                               *)

CheckContext(context) == Require(context.len <= MAX_CONTEXT_LEN, "ContextTooLong")

(* Faulty: takes a longer encoding for a valid one.                        *)
CheckLenAtLeast(actual, expected) == Require(actual >= expected, "InvalidLength")

CheckLen(actual, expected) == Require(actual = expected, "InvalidLength")

CheckRoom(actual, needed) == Require(actual >= needed, "BufferTooSmall")

-----------------------------------------------------------------------------
(* Key and signature bodies.  Records of different kinds are never equal,  *)
(* so bytes nobody derived or signed cannot pass for derived or signed.    *)

PublicKey(seed) == [kind |-> "derived", seed |-> seed]

SecretKey(seed) == [kind |-> "secret", seed |-> seed]

UnknownKey == [kind |-> "unknown"]        \* key bytes of no known pair

Signature(s, key, context, message) ==
  [kind |-> "signed", scheme |-> s, key |-> key, context |-> context,
   message |-> message]

CorruptSignature   == [kind |-> "corrupt"]    \* decodes, verifies nothing
MalformedSignature == [kind |-> "malformed"]  \* does not decode

-----------------------------------------------------------------------------
(* VerifyingKey::write_to and from_bytes.  Decoding is total on strings of *)
(* the right length: every such string is some key.                        *)

WriteVerifyingKey(s, key, outLen) ==
  [res |-> CheckRoom(outLen, VERIFYING_KEY_LEN[s]),
   val |-> Bytes(VERIFYING_KEY_LEN[s], key)]

VerifyingKeyFromBytes(s, bytes) ==
  [res |-> CheckLen(bytes.len, VERIFYING_KEY_LEN[s]), val |-> bytes.body]

(* Faulty: the context is not part of what is verified.                    *)
VerifyAnyContext(s, key, message, context, signature) ==
  CheckLen(signature.len, SIGNATURE_LEN[s])
    ?? Require(\E c \in {context, EmptyContext} :
                 signature.body = Signature(s, key, c, message),
               "VerificationFailed")

(* VerifyingKey::verify: context, then length, then decoding, then the     *)
(* equation; the last two fail alike.                                      *)
Verify(s, key, message, context, signature) ==
  CheckContext(context)
    ?? CheckLen(signature.len, SIGNATURE_LEN[s])
    ?? Require(signature.body # MalformedSignature, "VerificationFailed")
    ?? Require(signature.body = Signature(s, key, context, message),
               "VerificationFailed")

(* SigningKey::write_to and from_bytes.  Decoding does not look at what it  *)
(* decodes: bytes that are no encoded key may give a key of no known pair, *)
(* or a panic that nobody can catch.                                       *)
WriteSigningKey(s, seed, outLen) ==
  [res |-> CheckRoom(outLen, SIGNING_KEY_LEN[s]),
   val |-> Bytes(SIGNING_KEY_LEN[s], SecretKey(seed))]

SigningKeyFromBytes(s, bytes) ==
  [res |-> CheckLen(bytes.len, SIGNING_KEY_LEN[s]), val |-> bytes.body]

(* Keypair::from_seed.                                                     *)
FromSeed(seedBytes) ==
  [res |-> CheckLen(seedBytes.len, SEED_LEN), val |-> seedBytes.body]

(* Faulty: fills a short buffer instead of refusing it.                    *)
SignTruncating(s, seed, message, context, outLen) ==
  [res |-> CheckContext(context),
   val |-> IF outLen >= SIGNATURE_LEN[s]
           THEN Bytes(SIGNATURE_LEN[s],
                      Signature(s, PublicKey(seed), context, message))
           ELSE Bytes(outLen, CorruptSignature)]

(* Faulty: the context is cut to its longest admissible length.            *)
SignClamping(s, seed, message, context, outLen) ==
  [res |-> CheckRoom(outLen, SIGNATURE_LEN[s]),
   val |-> Bytes(SIGNATURE_LEN[s],
             Signature(s, PublicKey(seed),
                       IF context.len > MAX_CONTEXT_LEN
                       THEN Bytes(MAX_CONTEXT_LEN, context.body) ELSE context,
                       message))]

(* SigningKey::sign_into with an output buffer of outLen bytes: the bytes  *)
(* written to the front of the buffer.                                     *)
SignInto(s, seed, message, context, outLen) ==
  [res |-> CheckContext(context) ?? CheckRoom(outLen, SIGNATURE_LEN[s]),
   val |-> Bytes(SIGNATURE_LEN[s],
                 Signature(s, PublicKey(seed), context, message))]

=============================================================================
