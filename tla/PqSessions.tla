----------------------------- MODULE PqSessions -----------------------------
(***************************************************************************)
(* A caller of the trait layer crates/pq-core: one thread that derives,    *)
(* encodes, decodes, signs and verifies with keys of either parameter set, *)
(* in any order, and reuses its byte buffers.                              *)
(*                                                                         *)
(* Every operation that produces bytes writes them to the front of a       *)
(* buffer, returns how many, and leaves the rest of the buffer as it was.  *)
(* A buffer is therefore modelled by the write that last covered each of   *)
(* its prefixes; a slice of it is the bytes of one write, or a mixture     *)
(* that is nothing anybody encoded.                                        *)
(***************************************************************************)
EXTENDS PqCore

CONSTANTS
  Buffers,      \* the caller's buffers
  Size,         \* Size[b]: bytes of buffer b
  Messages,     \* messages signed and verified
  Contexts,     \* contexts passed, too long ones included
  MaxCalls      \* bound: calls of a session

VARIABLES
  sk,           \* the signing key in hand, [scheme, secret] or None
  vk,           \* the verifying key in hand, [scheme, key] or None
  buf,          \* buf[b][n]: the write that last covered byte n of b
  count,        \* count[b]: bytes the last write to b returned
  reply,        \* answer of the last call
  calls,        \* calls made so far
  signed,       \* history: the claims sign_into has signed
  careful       \* history: every slice decoded had the returned length

vars == <<sk, vk, buf, count, reply, calls, signed, careful>>

-----------------------------------------------------------------------------
(* Buffers.                                                                *)

Lengths == UNION {{VERIFYING_KEY_LEN[s], SIGNING_KEY_LEN[s], SIGNATURE_LEN[s]} :
                    s \in Schemes}

Zeros == Bytes(0, [kind |-> "zeros"])

(* &buf[..n]                                                               *)
Slice(content, n) ==
  IF n \in Lengths /\ content[n].len = n /\ \A k \in Lengths : k <= n => content[k] = content[n]
  THEN content[n]
  ELSE Bytes(n, [kind |-> "mixed", of |-> [k \in {l \in Lengths : l <= n} |-> content[k]]])

(* out[..bytes.len].copy_from_slice(bytes)                                 *)
Overwrite(content, bytes) ==
  [k \in Lengths |-> IF k <= bytes.len THEN bytes ELSE content[k]]

-----------------------------------------------------------------------------
Answer(op, res) == [op |-> op, res |-> res]

SessionInit ==
  /\ sk = None /\ vk = None
  /\ buf = [b \in Buffers |-> [k \in Lengths |-> Zeros]]
  /\ count = [b \in Buffers |-> 0]
  /\ reply = Answer("none", "Ok")
  /\ calls = 0
  /\ signed = {}
  /\ careful = TRUE

Call == calls < MaxCalls /\ reply.res # "panic" /\ calls' = calls + 1

Deliver(b, op, result) ==
  /\ reply' = Answer(op, result.res)
  /\ IF result.res = "Ok"
     THEN /\ buf' = [buf EXCEPT ![b] = Overwrite(@, result.val)]
          /\ count' = [count EXCEPT ![b] = result.val.len]
     ELSE UNCHANGED <<buf, count>>

Keypair(s, seedBytes) ==
  LET seed == FromSeed(seedBytes) IN
  /\ Call
  /\ reply' = Answer("from_seed", seed.res)
  /\ IF seed.res = "Ok"
     THEN /\ sk' = [scheme |-> s, secret |-> SecretKey(seed.val)]
          /\ vk' = [scheme |-> s, key |-> PublicKey(seed.val)]
     ELSE UNCHANGED <<sk, vk>>
  /\ UNCHANGED <<buf, count, signed, careful>>

Garbled(secret) == secret.kind # "secret"

(* SigningKey::verifying_key.                                              *)
VerifyingKeyOf ==
  /\ Call /\ sk # None
  /\ vk' = [scheme |-> sk.scheme,
            key |-> IF Garbled(sk.secret) THEN UnknownKey
                    ELSE PublicKey(sk.secret.seed)]
  /\ reply' = Answer("verifying_key", "Ok")
  /\ UNCHANGED <<sk, buf, count, signed, careful>>

EncodeVk(b) ==
  /\ Call /\ vk # None
  /\ Deliver(b, "write_to", WriteVerifyingKey(vk.scheme, vk.key, Size[b]))
  /\ UNCHANGED <<sk, vk, signed, careful>>

EncodeSk(b) ==
  LET written == WriteSigningKey(sk.scheme, None, Size[b]) IN
  /\ Call /\ sk # None
  /\ Deliver(b, "write_to", [written EXCEPT !.val.body = sk.secret])
  /\ UNCHANGED <<sk, vk, signed, careful>>

(* The caller slices what the last write returned, or the whole buffer.    *)
Slices(b) == {count[b], Size[b]}

Care(b, n) == careful' = (careful /\ n = count[b])

DecodeVk(s, b, n) ==
  LET decoded == VerifyingKeyFromBytes(s, Slice(buf[b], n)) IN
  /\ Call /\ Care(b, n)
  /\ reply' = Answer("from_bytes", decoded.res)
  /\ vk' = IF decoded.res = "Ok" THEN [scheme |-> s, key |-> decoded.val] ELSE vk
  /\ UNCHANGED <<sk, buf, count, signed>>

DecodeSk(s, b, n) ==
  LET decoded == SigningKeyFromBytes(s, Slice(buf[b], n)) IN
  /\ Call /\ Care(b, n)
  /\ \/ /\ reply' = Answer("from_bytes", decoded.res)
        /\ sk' = IF decoded.res = "Ok" THEN [scheme |-> s, secret |-> decoded.val]
                                       ELSE sk
     \/ /\ decoded.res = "Ok" /\ Garbled(decoded.val)
        /\ reply' = Answer("from_bytes", "panic")
        /\ UNCHANGED sk
  /\ UNCHANGED <<vk, buf, count, signed>>

Claim(s, key, context, message) ==
  [scheme |-> s, key |-> key, context |-> context, message |-> message]

Sign(b, m, context) ==
  LET result == SignInto(sk.scheme, sk.secret.seed, m, context, Size[b]) IN
  /\ Call /\ sk # None /\ ~Garbled(sk.secret)
  /\ Deliver(b, "sign_into", result)
  /\ signed' = IF result.res = "Ok"
               THEN signed \cup {Claim(sk.scheme, PublicKey(sk.secret.seed), context, m)}
               ELSE signed
  /\ UNCHANGED <<sk, vk, careful>>

(* A key nobody derived signs nothing that verifies, or fails to sign.     *)
SignGarbled(b, m, context) ==
  LET result == SignInto(sk.scheme, None, m, context, Size[b]) IN
  /\ Call /\ sk # None /\ Garbled(sk.secret)
  /\ \/ Deliver(b, "sign_into", [result EXCEPT !.val.body = CorruptSignature])
     \/ Deliver(b, "sign_into", [result EXCEPT !.res = @ ?? "SigningFailed"])
  /\ UNCHANGED <<sk, vk, signed, careful>>

VerifySlice(b, n, m, context) ==
  /\ Call /\ vk # None
  /\ Care(b, n)
  /\ reply' = [op    |-> "verify",
               res   |-> Verify(vk.scheme, vk.key, m, context, Slice(buf[b], n)),
               claim |-> Claim(vk.scheme, vk.key, context, m)]
  /\ UNCHANGED <<sk, vk, buf, count, signed>>

SessionNext ==
  \/ \E s \in Schemes, seed \in Seeds, n \in {SEED_LEN - 1, SEED_LEN} :
       Keypair(s, Bytes(n, seed))
  \/ VerifyingKeyOf
  \/ \E b \in Buffers :
       \/ EncodeVk(b) \/ EncodeSk(b)
       \/ \E s \in Schemes, n \in Slices(b) : DecodeVk(s, b, n) \/ DecodeSk(s, b, n)
       \/ \E m \in Messages, context \in Contexts :
            \/ Sign(b, m, context) \/ SignGarbled(b, m, context)
            \/ \E n \in Slices(b) : VerifySlice(b, n, m, context)

SessionSpec == SessionInit /\ [][SessionNext]_vars

-----------------------------------------------------------------------------
ASSUME PqSessionsAssumption ==
  /\ Size \in [Buffers -> Nat]
  /\ Contexts \subseteq [len : Nat, body : STRING]
  /\ MaxCalls \in Nat

DerivedKeys == {PublicKey(seed) : seed \in Seeds}

Claims == [scheme : Schemes, key : DerivedKeys, context : Contexts, message : Messages]

(* Wherever a whole signature lies in a buffer, whatever was written over  *)
(* or next to it, sign_into has signed what it claims.                     *)
SignaturesWereSigned ==
  \A b \in Buffers, n \in Lengths :
    buf[b][n].body \in [kind : {"signed"}, scheme : Schemes, key : DerivedKeys,
                        context : Contexts, message : Messages]
      => \E x \in signed :
           buf[b][n].body = Signature(x.scheme, x.key, x.context, x.message)

(* What the last call wrote to a buffer is read back from the slice of the *)
(* returned length, over whatever older and longer bytes it was written:   *)
(* a key decodes to a key in circulation and a signature verifies          *)
(* (traits.rs, "writing into a caller-provided slice and returning the     *)
(* byte count").                                                           *)
ReadsBack ==
  \A b \in Buffers : count[b] > 0 /\ careful =>
    LET slice == Slice(buf[b], count[b]) IN
    \/ \E s \in Schemes, seed \in Seeds :
         \/ VerifyingKeyFromBytes(s, slice) = [res |-> "Ok", val |-> PublicKey(seed)]
         \/ SigningKeyFromBytes(s, slice) = [res |-> "Ok", val |-> SecretKey(seed)]
    \/ \E x \in signed :
         Verify(x.scheme, x.key, x.message, x.context, slice) = "Ok"

(* A caller that decodes exactly as many bytes as it was told were written *)
(* never makes the layer panic, never holds a key nobody derived, and so   *)
(* cannot mistake one kind of encoding, or one parameter set, for another: *)
(* the six lengths tell them apart (SigningKey::from_bytes, "trusted input *)
(* only").                                                                 *)
CarefulCallersAreSafe ==
  careful =>
    /\ reply.res # "panic"
    /\ sk # None => sk.secret \in {SecretKey(seed) : seed \in Seeds}
    /\ vk # None => vk.key \in DerivedKeys

O == INSTANCE SignatureOracle WITH
       verdict <- IF reply.op = "verify" /\ reply.res = "Ok"
                  THEN [accepted |-> TRUE, claim |-> reply.claim]
                  ELSE [accepted |-> FALSE]

(* verify answers Ok only to a claim that sign_into has signed, whatever   *)
(* the caller does with its buffers, careful or not.                       *)
ImplementsOracle == O!Spec

=============================================================================
