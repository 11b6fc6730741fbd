--------------------------- MODULE PqSessions_proofs ---------------------------
(***************************************************************************)
(* Machine-checked proofs that sessions with the trait layer keep the      *)
(* promise of a signature scheme, and that a careful caller reads back     *)
(* what was written, for any number of buffers of any size, seeds,         *)
(* messages, contexts and calls.                                           *)
(***************************************************************************)
EXTENDS PqSessions, TLAPS

(* What every piece of data in circulation satisfies: a signing key was    *)
(* derived from a seed, and a signature was made for one of the claims.    *)
Genuine(body, claims) ==
  /\ body.kind = "secret" => \E seed \in Seeds : body = SecretKey(seed)
  /\ body.kind = "signed" => \E x \in claims :
                               body = Signature(x.scheme, x.key, x.context, x.message)

BuffersGenuine(claims) ==
  /\ DOMAIN buf = Buffers
  /\ \A b \in Buffers, k \in Lengths : Genuine(buf[b][k].body, claims)

SkGenuine(claims) ==
  sk # None => sk.scheme \in Schemes /\ Genuine(sk.secret, claims)

VkGenuine(claims) ==
  vk # None => vk.scheme \in Schemes /\ Genuine(vk.key, claims)

(* Whatever lies in a buffer or in hand is genuine, and only keys derived  *)
(* from the seeds have signed.                                             *)
SessionInv ==
  /\ BuffersGenuine(signed)
  /\ SkGenuine(signed)
  /\ VkGenuine(signed)
  /\ signed \subseteq Claims

-----------------------------------------------------------------------------
(* What is genuine stays so when more is signed.                           *)
LEMMA GenuineGrows ==
  ASSUME NEW body, NEW old, NEW new, old \subseteq new, Genuine(body, old)
  PROVE  Genuine(body, new)
  BY DEF Genuine

(* Data of another kind is genuine in the sense above.                     *)
LEMMA OtherKinds ==
  ASSUME NEW body, NEW claims, body.kind \notin {"secret", "signed"}
  PROVE  Genuine(body, claims)
  BY DEF Genuine

(* A slice is one write, or a mixture that is neither key nor signature.   *)
LEMMA SlicesAreGenuine ==
  ASSUME NEW content, NEW claims, NEW n,
         \A k \in Lengths : Genuine(content[k].body, claims)
  PROVE  Genuine(Slice(content, n).body, claims)
  <1>1. CASE n \in Lengths /\ Slice(content, n) = content[n]
    BY <1>1, Zenon
  <1>2. CASE Slice(content, n).body.kind = "mixed"
    BY <1>2, OtherKinds
  <1>3. \/ n \in Lengths /\ Slice(content, n) = content[n]
        \/ Slice(content, n) =
             Bytes(n, [kind |-> "mixed", of |-> [k \in {l \in Lengths : l <= n} |-> content[k]]])
    BY Zenon DEF Slice
  <1>4. \A x, y : Bytes(x, [kind |-> "mixed", of |-> y]).body.kind = "mixed"
    BY DEF Bytes
  <1> QED BY <1>1, <1>2, <1>3, <1>4

(* A call that writes genuine data keeps the buffers genuine.              *)
LEMMA DeliverGenuine ==
  ASSUME NEW b \in Buffers, NEW op, NEW result, NEW claims,
         BuffersGenuine(signed), signed \subseteq claims,
         Deliver(b, op, result), Genuine(result.val.body, claims)
  PROVE  /\ DOMAIN buf' = Buffers
         /\ \A c \in Buffers, k \in Lengths : Genuine(buf'[c][k].body, claims)
  <1>1. \A c \in Buffers, k \in Lengths : Genuine(buf[c][k].body, claims)
    BY GenuineGrows DEF BuffersGenuine
  <1>2. CASE result.res = "Ok"
    <2>1. buf' = [buf EXCEPT ![b] = Overwrite(@, result.val)]
      BY <1>2 DEF Deliver
    <2>2. DOMAIN buf' = Buffers
      BY <2>1 DEF BuffersGenuine
    <2>3. \A c \in Buffers : buf'[c] = IF c = b THEN Overwrite(buf[b], result.val) ELSE buf[c]
      BY <2>1 DEF BuffersGenuine
    <2>4. \A k \in Lengths : \/ Overwrite(buf[b], result.val)[k] = result.val
                             \/ Overwrite(buf[b], result.val)[k] = buf[b][k]
      BY DEF Overwrite
    <2>5. ASSUME NEW c \in Buffers, NEW k \in Lengths
          PROVE  Genuine(buf'[c][k].body, claims)
      <3>1. buf'[c][k] = buf[c][k] \/ buf'[c][k] = result.val
        BY <2>3, <2>4
      <3> QED BY <1>1, <3>1
    <2> QED BY <2>2, <2>5
  <1>3. CASE result.res # "Ok"
    <2>1. buf' = buf
      BY <1>3 DEF Deliver
    <2> QED BY <1>1, <2>1 DEF BuffersGenuine
  <1> QED BY <1>2, <1>3

(* A secret key that is not garbled belongs to one of the seeds.           *)
LEMMA SecretsHaveSeeds ==
  ASSUME SkGenuine(signed), sk # None, ~Garbled(sk.secret)
  PROVE  sk.scheme \in Schemes /\ sk.secret.seed \in Seeds
  <1>1. /\ sk.scheme \in Schemes
        /\ sk.secret.kind = "secret" => \E seed \in Seeds : sk.secret = SecretKey(seed)
    BY Zenon DEF SkGenuine, Genuine
  <1>2. sk.secret.kind = "secret"
    BY DEF Garbled
  <1>3. \A seed : SecretKey(seed).seed = seed
    BY DEF SecretKey
  <1> QED BY <1>1, <1>2, <1>3

-----------------------------------------------------------------------------
(* What is verified in the end: the signature is one of the buffers'.      *)
LEMMA AcceptedWasSigned ==
  ASSUME SessionInv, NEW body, Genuine(body, signed),
         NEW s, NEW key, NEW context, NEW message,
         body = Signature(s, key, context, message)
  PROVE  Claim(s, key, context, message) \in signed
  <1>1. body.kind = "signed"
    BY DEF Signature
  <1>2. PICK x \in signed : body = Signature(x.scheme, x.key, x.context, x.message)
    BY <1>1 DEF Genuine
  <1>3. /\ x.scheme = s /\ x.key = key /\ x.context = context /\ x.message = message
    BY <1>2 DEF Signature
  <1>4. x \in Claims
    BY DEF SessionInv
  <1>5. x = [scheme |-> x.scheme, key |-> x.key, context |-> x.context, message |-> x.message]
    BY <1>4 DEF Claims
  <1> QED BY <1>3, <1>5 DEF Claim

(* Verify accepts nothing but the signature of its arguments.              *)
LEMMA VerifyAccepts ==
  ASSUME NEW s, NEW key, NEW message, NEW context, NEW signature,
         Verify(s, key, message, context, signature) = "Ok"
  PROVE  signature.body = Signature(s, key, context, message)
  BY DEF Verify, Require, ??

-----------------------------------------------------------------------------
(* The initial state satisfies the invariant.                              *)
LEMMA SessionInvInit == SessionInit => SessionInv
  <1> SUFFICES ASSUME SessionInit PROVE SessionInv
    OBVIOUS
  <1>1. \A b \in Buffers, k \in Lengths : buf[b][k] = Zeros
    BY DEF SessionInit
  <1>2. Zeros.body.kind = "zeros"
    BY DEF Zeros, Bytes
  <1>3. Genuine(Zeros.body, signed)
    BY <1>2, OtherKinds
  <1>4. BuffersGenuine(signed)
    BY <1>1, <1>3 DEF SessionInit, BuffersGenuine
  <1> QED BY <1>4 DEF SessionInit, SessionInv, SkGenuine, VkGenuine

(* A step that signs nothing keeps the invariant if what it leaves in      *)
(* hand and in the buffers is genuine.                                     *)
LEMMA NothingSigned ==
  ASSUME SessionInv, signed' = signed,
         /\ DOMAIN buf' = Buffers
         /\ \A b \in Buffers, k \in Lengths : Genuine(buf'[b][k].body, signed),
         sk' = sk \/ (sk'.scheme \in Schemes /\ Genuine(sk'.secret, signed)),
         vk' = vk \/ (vk'.scheme \in Schemes /\ Genuine(vk'.key, signed))
  PROVE  SessionInv'
  <1>1. BuffersGenuine(signed)'
    BY DEF BuffersGenuine, Genuine
  <1>2. SkGenuine(signed)'
    BY DEF SessionInv, SkGenuine, Genuine
  <1>3. VkGenuine(signed)'
    BY DEF SessionInv, VkGenuine, Genuine
  <1> QED BY <1>1, <1>2, <1>3 DEF SessionInv, Claims

-----------------------------------------------------------------------------
(* Deriving a key pair from a seed puts keys of that seed in hand.         *)
LEMMA KeypairKeeps ==
  ASSUME SessionInv, NEW s \in Schemes, NEW seed \in Seeds, NEW n,
         Keypair(s, Bytes(n, seed))
  PROVE  SessionInv'
  <1>1. UNCHANGED <<buf, signed>>
    BY DEF Keypair
  <1>2. Genuine(SecretKey(seed), signed)
    BY DEF Genuine, SecretKey
  <1>3. Genuine(PublicKey(seed), signed)
    BY OtherKinds DEF PublicKey
  <1>4. FromSeed(Bytes(n, seed)).val = seed
    BY DEF FromSeed, Bytes
  <1>5. \/ sk' = sk /\ vk' = vk
        \/ /\ sk' = [scheme |-> s, secret |-> SecretKey(seed)]
           /\ vk' = [scheme |-> s, key |-> PublicKey(seed)]
    BY <1>4 DEF Keypair
  <1> QED BY <1>1, <1>2, <1>3, <1>5, NothingSigned DEF SessionInv, BuffersGenuine

(* The verifying key of the key in hand is no secret and no signature.     *)
LEMMA VerifyingKeyOfKeeps ==
  ASSUME SessionInv, VerifyingKeyOf
  PROVE  SessionInv'
  <1>1. UNCHANGED <<sk, buf, signed>>
    BY DEF VerifyingKeyOf
  <1>2. Genuine(UnknownKey, signed) /\ Genuine(PublicKey(sk.secret.seed), signed)
    BY OtherKinds DEF UnknownKey, PublicKey
  <1>3. sk.scheme \in Schemes
    BY DEF VerifyingKeyOf, SessionInv, SkGenuine
  <1>4. /\ vk'.scheme = sk.scheme
        /\ vk'.key = UnknownKey \/ vk'.key = PublicKey(sk.secret.seed)
    BY DEF VerifyingKeyOf
  <1> QED BY <1>1, <1>2, <1>3, <1>4, NothingSigned DEF SessionInv, BuffersGenuine

(* Writing the verifying key in hand keeps the buffers genuine.            *)
LEMMA EncodeVkKeeps ==
  ASSUME SessionInv, NEW b \in Buffers, EncodeVk(b)
  PROVE  SessionInv'
  <1> DEFINE result == WriteVerifyingKey(vk.scheme, vk.key, Size[b])
  <1>1. result.val.body = vk.key
    BY DEF WriteVerifyingKey, Bytes
  <1>2. Genuine(result.val.body, signed)
    BY <1>1 DEF EncodeVk, SessionInv, VkGenuine
  <1>3. Deliver(b, "write_to", result) /\ UNCHANGED <<sk, vk, signed>>
    BY DEF EncodeVk
  <1>4. BuffersGenuine(signed)
    BY DEF SessionInv
  <1> HIDE DEF result
  <1> QED BY <1>2, <1>3, <1>4, DeliverGenuine, NothingSigned

(* Writing the signing key in hand keeps the buffers genuine.              *)
LEMMA EncodeSkKeeps ==
  ASSUME SessionInv, NEW b \in Buffers, EncodeSk(b)
  PROVE  SessionInv'
  <1> DEFINE written == WriteSigningKey(sk.scheme, None, Size[b])
             result  == [written EXCEPT !.val.body = sk.secret]
  <1>1. result.val.body = sk.secret
    BY DEF WriteSigningKey, Bytes
  <1>2. Genuine(result.val.body, signed)
    BY <1>1 DEF EncodeSk, SessionInv, SkGenuine
  <1>3. Deliver(b, "write_to", result) /\ UNCHANGED <<sk, vk, signed>>
    BY DEF EncodeSk
  <1>4. BuffersGenuine(signed)
    BY DEF SessionInv
  <1> HIDE DEF result
  <1> QED BY <1>2, <1>3, <1>4, DeliverGenuine, NothingSigned

(* A verifying key decoded from any slice is what lay in the buffer.       *)
LEMMA DecodeVkKeeps ==
  ASSUME SessionInv, NEW s \in Schemes, NEW b \in Buffers, NEW n, DecodeVk(s, b, n)
  PROVE  SessionInv'
  <1> DEFINE slice == Slice(buf[b], n)
  <1>1. Genuine(slice.body, signed)
    BY SlicesAreGenuine DEF SessionInv, BuffersGenuine
  <1>2. VerifyingKeyFromBytes(s, slice).val = slice.body
    BY DEF VerifyingKeyFromBytes
  <1>3. /\ UNCHANGED <<sk, buf, signed>>
        /\ vk' = vk \/ vk' = [scheme |-> s, key |-> slice.body]
    BY <1>2 DEF DecodeVk
  <1> HIDE DEF slice
  <1> QED BY <1>1, <1>3, NothingSigned DEF SessionInv, BuffersGenuine

(* A signing key decoded from any slice is what lay in the buffer.         *)
LEMMA DecodeSkKeeps ==
  ASSUME SessionInv, NEW s \in Schemes, NEW b \in Buffers, NEW n, DecodeSk(s, b, n)
  PROVE  SessionInv'
  <1> DEFINE slice == Slice(buf[b], n)
  <1>1. Genuine(slice.body, signed)
    BY SlicesAreGenuine DEF SessionInv, BuffersGenuine
  <1>2. SigningKeyFromBytes(s, slice).val = slice.body
    BY DEF SigningKeyFromBytes
  <1>3. /\ UNCHANGED <<vk, buf, signed>>
        /\ sk' = sk \/ sk' = [scheme |-> s, secret |-> slice.body]
    BY <1>2 DEF DecodeSk
  <1> HIDE DEF slice
  <1> QED BY <1>1, <1>3, NothingSigned DEF SessionInv, BuffersGenuine

(* What a key nobody derived signs is not the signature of any claim.      *)
LEMMA SignGarbledKeeps ==
  ASSUME SessionInv, NEW b \in Buffers, NEW m, NEW context, SignGarbled(b, m, context)
  PROVE  SessionInv'
  <1> DEFINE result  == SignInto(sk.scheme, None, m, context, Size[b])
             corrupt == [result EXCEPT !.val.body = CorruptSignature]
             failing == [result EXCEPT !.res = @ ?? "SigningFailed"]
  <1>1. \/ Deliver(b, "sign_into", corrupt)
        \/ Deliver(b, "sign_into", failing)
    BY DEF SignGarbled
  <1>2. UNCHANGED <<sk, vk, signed>> /\ BuffersGenuine(signed)
    BY DEF SignGarbled, SessionInv
  <1>3. corrupt.val.body = CorruptSignature
    BY DEF SignInto, Bytes
  <1>4. Genuine(corrupt.val.body, signed)
    BY <1>3, OtherKinds DEF CorruptSignature
  <1>5. failing.res # "Ok"
    BY DEF SignInto, ??
  <1> HIDE DEF corrupt, failing
  <1>6. CASE Deliver(b, "sign_into", corrupt)
    BY <1>2, <1>4, <1>6, DeliverGenuine, NothingSigned
  <1>7. CASE Deliver(b, "sign_into", failing)
    <2>1. buf' = buf
      BY <1>5, <1>7 DEF Deliver
    <2> QED BY <1>2, <2>1, NothingSigned DEF BuffersGenuine
  <1> QED BY <1>1, <1>6, <1>7

(* Verifying changes neither the keys, the buffers nor what is signed.     *)
LEMMA VerifySliceKeeps ==
  ASSUME SessionInv, NEW b, NEW n, NEW m, NEW context, VerifySlice(b, n, m, context)
  PROVE  SessionInv'
  <1>1. UNCHANGED <<sk, vk, buf, signed>>
    BY DEF VerifySlice
  <1> QED BY <1>1, NothingSigned DEF SessionInv, BuffersGenuine

(* Signing adds a claim together with the signature that makes it.         *)
LEMMA SignKeeps ==
  ASSUME SessionInv, NEW b \in Buffers, NEW m \in Messages, NEW context \in Contexts,
         Sign(b, m, context)
  PROVE  SessionInv'
  <1> DEFINE seed   == sk.secret.seed
             result == SignInto(sk.scheme, seed, m, context, Size[b])
             claim  == Claim(sk.scheme, PublicKey(seed), context, m)
  <1>1. Deliver(b, "sign_into", result) /\ UNCHANGED <<sk, vk>>
    BY DEF Sign
  <1>2. signed' = IF result.res = "Ok" THEN signed \cup {claim} ELSE signed
    BY DEF Sign
  <1>3. sk.scheme \in Schemes /\ seed \in Seeds
    BY SecretsHaveSeeds DEF Sign, SessionInv
  <1>4. claim \in Claims
    BY <1>3 DEF Claim, Claims, DerivedKeys
  <1>5. result.val.body = Signature(sk.scheme, PublicKey(seed), context, m)
    BY DEF SignInto, Bytes
  <1>6. /\ claim.scheme = sk.scheme /\ claim.key = PublicKey(seed)
        /\ claim.context = context /\ claim.message = m
    BY DEF Claim
  <1>7. result.val.body.kind = "signed"
    BY <1>5 DEF Signature
  <1> HIDE DEF result, claim, seed
  <1>8. CASE result.res = "Ok"
    <2>1. signed' = signed \cup {claim}
      BY <1>2, <1>8
    <2>2. Genuine(result.val.body, signed')
      BY <1>5, <1>6, <1>7, <2>1 DEF Genuine
    <2> DEFINE claims == signed'
    <2>3. signed \subseteq claims /\ Genuine(result.val.body, claims) /\ BuffersGenuine(signed)
      BY <2>1, <2>2 DEF SessionInv
    <2> HIDE DEF claims
    <2>4. /\ DOMAIN buf' = Buffers
          /\ \A c \in Buffers, k \in Lengths : Genuine(buf'[c][k].body, claims)
      BY <1>1, <2>3, DeliverGenuine
    <2>5. BuffersGenuine(signed)'
      BY <2>4 DEF claims, BuffersGenuine, Genuine
    <2>6. sk # None => Genuine(sk.secret, claims)
      BY <2>3, GenuineGrows DEF SessionInv, SkGenuine
    <2>7. vk # None => Genuine(vk.key, claims)
      BY <2>3, GenuineGrows DEF SessionInv, VkGenuine
    <2>8. SkGenuine(signed)' /\ VkGenuine(signed)'
      BY <1>1, <2>6, <2>7 DEF claims, SessionInv, SkGenuine, VkGenuine, Genuine
    <2>9. signed' \subseteq Claims
      BY <1>4, <2>1 DEF SessionInv
    <2> QED BY <2>5, <2>8, <2>9 DEF SessionInv, Claims
  <1>9. CASE result.res # "Ok"
    <2>1. signed' = signed /\ buf' = buf
      BY <1>1, <1>2, <1>9 DEF Deliver
    <2> QED BY <1>1, <2>1, NothingSigned DEF SessionInv, BuffersGenuine
  <1> QED BY <1>8, <1>9

-----------------------------------------------------------------------------
(* The steps of a session, one after another.                              *)
LEMMA SessionSteps ==
  ASSUME SessionNext
  PROVE  \/ \E s \in Schemes, seed \in Seeds, n \in {SEED_LEN - 1, SEED_LEN} :
              Keypair(s, Bytes(n, seed))
         \/ VerifyingKeyOf
         \/ \E b \in Buffers : EncodeVk(b) \/ EncodeSk(b)
         \/ \E b \in Buffers, s \in Schemes : \E n \in Slices(b) :
              DecodeVk(s, b, n) \/ DecodeSk(s, b, n)
         \/ \E b \in Buffers, m \in Messages, context \in Contexts :
              Sign(b, m, context) \/ SignGarbled(b, m, context)
         \/ \E b \in Buffers, m \in Messages, context \in Contexts :
              \E n \in Slices(b) : VerifySlice(b, n, m, context)
  BY Zenon DEF SessionNext

(* Every step of a session, and every stuttering step, keeps the           *)
(* invariant.                                                              *)
LEMMA SessionInvNext == SessionInv /\ [SessionNext]_vars => SessionInv'
  <1> SUFFICES ASSUME SessionInv, [SessionNext]_vars PROVE SessionInv'
    OBVIOUS
  <1>1. CASE SessionNext
    BY <1>1, SessionSteps, KeypairKeeps, VerifyingKeyOfKeeps, EncodeVkKeeps, EncodeSkKeeps,
       DecodeVkKeeps, DecodeSkKeeps, SignKeeps, SignGarbledKeeps, VerifySliceKeeps
  <1>2. CASE UNCHANGED vars
    BY <1>2, NothingSigned DEF vars, SessionInv, BuffersGenuine
  <1> QED BY <1>1, <1>2

(* The invariant holds in every state of every session.                    *)
LEMMA SessionInvHolds == SessionSpec => []SessionInv
  BY SessionInvInit, SessionInvNext, PTL DEF SessionSpec

(* However a caller reuses its buffers, a whole signature found in one was *)
(* made by sign_into for the claim it carries.                             *)
THEOREM SignaturesWereSignedHolds == SessionSpec => []SignaturesWereSigned
  <1>1. SessionInv => SignaturesWereSigned
    <2> SUFFICES ASSUME SessionInv, NEW b \in Buffers, NEW n \in Lengths,
                        buf[b][n].body.kind = "signed"
                 PROVE  \E x \in signed :
                          buf[b][n].body = Signature(x.scheme, x.key, x.context, x.message)
      BY DEF SignaturesWereSigned
    <2> QED BY DEF SessionInv, BuffersGenuine, Genuine
  <1> QED BY <1>1, SessionInvHolds, PTL

-----------------------------------------------------------------------------
(* An operation other than verify and a successful sign_into rejects the   *)
(* last claim, if it does anything to the oracle.                          *)
LEMMA OthersReject ==
  ASSUME signed' = signed, reply'.op # "verify" \/ reply'.res # "Ok"
  PROVE  O!Next
  BY DEF O!Next, O!Reject, O!NoVerdict

(* A call of sign_into is a Sign or a Reject of the oracle.                *)
LEMMA SignImplements ==
  ASSUME SessionInv, NEW b \in Buffers, NEW m \in Messages, NEW context \in Contexts,
         Sign(b, m, context)
  PROVE  O!Next
  <1> DEFINE claim == Claim(sk.scheme, PublicKey(sk.secret.seed), context, m)
  <1>1. reply'.op = "sign_into"
    BY DEF Sign, Deliver, Answer
  <1>2. signed' = signed \cup {claim} \/ signed' = signed
    BY Zenon DEF Sign
  <1>3. claim \in Claims
    BY SecretsHaveSeeds DEF Sign, SessionInv, Claim, Claims, DerivedKeys
  <1> HIDE DEF claim
  <1>4. CASE signed' = signed \cup {claim}
    BY <1>1, <1>3, <1>4 DEF O!Next, O!Sign, O!NoVerdict
  <1> QED BY <1>1, <1>2, <1>4, OthersReject

(* A call of verify is an Accept of a signed claim or a Reject of the      *)
(* oracle.                                                                 *)
LEMMA VerifyImplements ==
  ASSUME SessionInv, NEW b \in Buffers, NEW n, NEW m, NEW context,
         VerifySlice(b, n, m, context)
  PROVE  O!Next
  <1> DEFINE slice == Slice(buf[b], n)
             claim == Claim(vk.scheme, vk.key, context, m)
  <1>1. /\ reply' = [op |-> "verify", claim |-> claim,
                     res |-> Verify(vk.scheme, vk.key, m, context, slice)]
        /\ signed' = signed
    BY DEF VerifySlice
  <1>2. CASE Verify(vk.scheme, vk.key, m, context, slice) = "Ok"
    <2>1. slice.body = Signature(vk.scheme, vk.key, context, m)
      BY <1>2, VerifyAccepts
    <2>2. Genuine(slice.body, signed)
      BY SlicesAreGenuine DEF SessionInv, BuffersGenuine
    <2>3. claim \in signed
      BY <2>1, <2>2, AcceptedWasSigned
    <2>4. claim \in Claims
      BY <2>3 DEF SessionInv
    <2> HIDE DEF claim, slice
    <2> QED BY <1>1, <1>2, <2>3, <2>4 DEF O!Next, O!Accept
  <1>3. CASE Verify(vk.scheme, vk.key, m, context, slice) # "Ok"
    BY <1>1, <1>3, OthersReject
  <1> QED BY <1>2, <1>3

(* Sessions implement the oracle: verify answers Ok only to claims that    *)
(* have been signed, for every caller, whatever it does with its buffers.  *)
THEOREM SessionsImplementOracle == SessionSpec => ImplementsOracle
  <1>1. SessionInit => O!Init
    BY DEF SessionInit, Answer, O!Init, O!NoVerdict
  <1>2. SessionInv /\ [SessionNext]_vars => [O!Next]_(O!vars)
    <2> SUFFICES ASSUME SessionInv, [SessionNext]_vars PROVE [O!Next]_(O!vars)
      OBVIOUS
    <2>1. ASSUME NEW s \in Schemes, NEW seed \in Seeds, NEW n, Keypair(s, Bytes(n, seed))
          PROVE  O!Next
      BY <2>1, OthersReject DEF Keypair, Answer
    <2>2. CASE VerifyingKeyOf
      BY <2>2, OthersReject DEF VerifyingKeyOf, Answer
    <2>3. ASSUME NEW b \in Buffers, EncodeVk(b) \/ EncodeSk(b) PROVE O!Next
      BY <2>3, OthersReject DEF EncodeVk, EncodeSk, Deliver, Answer
    <2>4. ASSUME NEW b \in Buffers, NEW s \in Schemes, NEW n,
                 DecodeVk(s, b, n) \/ DecodeSk(s, b, n)
          PROVE  O!Next
      BY <2>4, OthersReject DEF DecodeVk, DecodeSk, Answer
    <2>5. ASSUME NEW b \in Buffers, NEW m \in Messages, NEW context \in Contexts,
                 SignGarbled(b, m, context)
          PROVE  O!Next
      <3>1. reply'.op = "sign_into" /\ signed' = signed
        BY <2>5 DEF SignGarbled, Deliver, Answer
      <3> QED BY <3>1, OthersReject
    <2>6. CASE UNCHANGED vars
      BY <2>6 DEF vars, O!vars
    <2> QED BY <2>1, <2>2, <2>3, <2>4, <2>5, <2>6, SessionSteps, SignImplements,
               VerifyImplements
  <1> QED BY <1>1, <1>2, SessionInvHolds, PTL DEF SessionSpec, ImplementsOracle, O!Spec

-----------------------------------------------------------------------------
(* Careful callers.                                                        *)

(* An encoding: a derived key, or the signature of a claim, at its length. *)
Encoded(w, claims) ==
  \E s \in Schemes :
    \/ \E seed \in Seeds : \/ w = Bytes(VERIFYING_KEY_LEN[s], PublicKey(seed))
                           \/ w = Bytes(SIGNING_KEY_LEN[s], SecretKey(seed))
    \/ \E x \in claims :
         /\ x.scheme = s /\ x.context.len <= MAX_CONTEXT_LEN
         /\ w = Bytes(SIGNATURE_LEN[s], Signature(s, x.key, x.context, x.message))

(* The first n bytes of a buffer are one encoding.                         *)
Front(content, n, claims) ==
  \E w : /\ Encoded(w, claims) /\ n = w.len
         /\ \A k \in Lengths : k <= n => content[k] = w

(* The keys in hand were derived, and every buffer begins with an encoding *)
(* of the length returned last.                                            *)
HeldSk == sk # None => sk.scheme \in Schemes /\ \E seed \in Seeds : sk.secret = SecretKey(seed)

HeldVk == vk # None => vk.scheme \in Schemes /\ \E seed \in Seeds : vk.key = PublicKey(seed)

Written == \A b \in Buffers : count[b] = 0 \/ Front(buf[b], count[b], signed)

(* As long as a caller has been careful, the keys it holds were derived,   *)
(* and its buffers begin with what was last written to them.               *)
CareInv ==
  /\ DOMAIN count = Buffers
  /\ careful => reply.res # "panic" /\ HeldSk /\ HeldVk /\ Written

(* The lengths of the encodings.                                           *)
LEMMA LengthsOf ==
  ASSUME NEW s \in Schemes
  PROVE  /\ VERIFYING_KEY_LEN[s] \in {1312, 1952} /\ VERIFYING_KEY_LEN[s] \in Lengths
         /\ SIGNING_KEY_LEN[s] \in {2560, 4032} /\ SIGNING_KEY_LEN[s] \in Lengths
         /\ SIGNATURE_LEN[s] \in {2420, 3309} /\ SIGNATURE_LEN[s] \in Lengths
  <1>1. /\ VERIFYING_KEY_LEN[s] \in {1312, 1952} /\ SIGNING_KEY_LEN[s] \in {2560, 4032}
        /\ SIGNATURE_LEN[s] \in {2420, 3309}
    BY DEF VERIFYING_KEY_LEN, SIGNING_KEY_LEN, SIGNATURE_LEN, Schemes
  <1>2. /\ VERIFYING_KEY_LEN[s] \in Lengths /\ SIGNING_KEY_LEN[s] \in Lengths
        /\ SIGNATURE_LEN[s] \in Lengths
    BY DEF Lengths
  <1> QED BY <1>1, <1>2

(* An encoding has one of these lengths, which gives away what it encodes. *)
LEMMA EncodedByLength ==
  ASSUME NEW w, NEW claims, Encoded(w, claims)
  PROVE  /\ w.len \in Lengths /\ w.len \in Nat
         /\ \A s \in Schemes :
              /\ w.len = VERIFYING_KEY_LEN[s] => \E seed \in Seeds : w.body = PublicKey(seed)
              /\ w.len = SIGNING_KEY_LEN[s] => \E seed \in Seeds : w.body = SecretKey(seed)
  <1>1. PICK t \in Schemes :
          \/ \E seed \in Seeds : \/ w = Bytes(VERIFYING_KEY_LEN[t], PublicKey(seed))
                                 \/ w = Bytes(SIGNING_KEY_LEN[t], SecretKey(seed))
          \/ \E x \in claims :
               w = Bytes(SIGNATURE_LEN[t], Signature(t, x.key, x.context, x.message))
    BY DEF Encoded
  <1>2. \A n, body : Bytes(n, body).len = n /\ Bytes(n, body).body = body
    BY DEF Bytes
  <1>3. \/ w.len = VERIFYING_KEY_LEN[t] /\ \E seed \in Seeds : w.body = PublicKey(seed)
        \/ w.len = SIGNING_KEY_LEN[t] /\ \E seed \in Seeds : w.body = SecretKey(seed)
        \/ w.len = SIGNATURE_LEN[t]
    BY <1>1, <1>2
  <1> QED BY <1>3, LengthsOf

(* What a careful caller slices is the encoding that was written.          *)
LEMMA SlicedFront ==
  ASSUME NEW content, NEW n, NEW claims, Front(content, n, claims)
  PROVE  Encoded(Slice(content, n), claims) /\ Slice(content, n).len = n
  <1>1. PICK w : /\ Encoded(w, claims) /\ n = w.len
                 /\ \A k \in Lengths : k <= n => content[k] = w
    BY DEF Front
  <1>2. n \in Lengths /\ n \in Nat
    BY <1>1, EncodedByLength
  <1>3. content[n] = w
    BY <1>1, <1>2
  <1>4. Slice(content, n) = w
    BY <1>1, <1>2, <1>3 DEF Slice
  <1> QED BY <1>1, <1>4

(* More claims are no harm to what is encoded.                             *)
LEMMA EncodedGrows ==
  ASSUME NEW w, NEW old, NEW new, old \subseteq new, Encoded(w, old)
  PROVE  Encoded(w, new)
  <1>1. PICK s \in Schemes :
          \/ \E seed \in Seeds : \/ w = Bytes(VERIFYING_KEY_LEN[s], PublicKey(seed))
                                 \/ w = Bytes(SIGNING_KEY_LEN[s], SecretKey(seed))
          \/ \E x \in new :
               /\ x.scheme = s /\ x.context.len <= MAX_CONTEXT_LEN
               /\ w = Bytes(SIGNATURE_LEN[s], Signature(s, x.key, x.context, x.message))
    BY Zenon DEF Encoded
  <1> QED BY <1>1 DEF Encoded

(* A call that writes an encoding leaves the buffers beginning with        *)
(* encodings.                                                              *)
LEMMA DeliverWrites ==
  ASSUME NEW b \in Buffers, NEW op, NEW result, NEW claims,
         DOMAIN buf = Buffers, DOMAIN count = Buffers, Written, signed \subseteq claims,
         Deliver(b, op, result), result.res = "Ok" => Encoded(result.val, claims)
  PROVE  /\ reply'.res = result.res /\ DOMAIN count' = Buffers
         /\ \A c \in Buffers : count'[c] = 0 \/ Front(buf'[c], count'[c], claims)
  <1>1. \A c \in Buffers : count[c] = 0 \/ Front(buf[c], count[c], claims)
    BY EncodedGrows DEF Written, Front
  <1>2. reply'.res = result.res
    BY DEF Deliver, Answer
  <1>3. CASE result.res = "Ok"
    <2>1. /\ buf' = [buf EXCEPT ![b] = Overwrite(@, result.val)]
          /\ count' = [count EXCEPT ![b] = result.val.len]
      BY <1>3 DEF Deliver
    <2>2. \A k \in Lengths : k <= result.val.len => Overwrite(buf[b], result.val)[k] = result.val
      BY DEF Overwrite
    <2>3. Front(Overwrite(buf[b], result.val), result.val.len, claims)
      BY <1>3, <2>2 DEF Front
    <2>4. buf'[b] = Overwrite(buf[b], result.val) /\ count'[b] = result.val.len
      BY <2>1
    <2>5. \A c \in Buffers : c # b => buf'[c] = buf[c] /\ count'[c] = count[c]
      BY <2>1
    <2> QED BY <1>1, <1>2, <2>1, <2>3, <2>4, <2>5
  <1>4. CASE result.res # "Ok"
    <2>1. buf' = buf /\ count' = count
      BY <1>4 DEF Deliver
    <2> QED BY <1>1, <1>2, <2>1
  <1> QED BY <1>3, <1>4

(* A call that writes nothing and signs nothing.                           *)
LEMMA NothingWritten ==
  ASSUME CareInv, UNCHANGED <<buf, count, signed>>,
         careful' => careful /\ reply'.res # "panic" /\ HeldSk' /\ HeldVk'
  PROVE  CareInv'
  BY DEF CareInv, Written, Front, Encoded

(* A careful caller decodes a verifying key that was derived, or none.     *)
LEMMA CarefulDecodeVk ==
  ASSUME CareInv, careful, NEW s \in Schemes, NEW b \in Buffers,
         VerifyingKeyFromBytes(s, Slice(buf[b], count[b])).res = "Ok"
  PROVE  \E seed \in Seeds : VerifyingKeyFromBytes(s, Slice(buf[b], count[b])).val = PublicKey(seed)
  <1> DEFINE slice == Slice(buf[b], count[b])
  <1>1. slice.len = VERIFYING_KEY_LEN[s]
    BY DEF VerifyingKeyFromBytes, CheckLen, Require
  <1>2. CASE count[b] = 0
    <2>1. slice.len = 0
      <3>1. 0 \notin Lengths
        BY LengthsOf DEF Lengths
      <3> QED BY <1>2, <3>1 DEF Slice, Bytes
    <2>2. VERIFYING_KEY_LEN[s] # 0
      BY LengthsOf
    <2> QED BY <1>1, <2>1, <2>2
  <1>3. CASE Front(buf[b], count[b], signed)
    <2>1. Encoded(slice, signed)
      BY <1>3, SlicedFront
    <2>2. \E seed \in Seeds : slice.body = PublicKey(seed)
      BY <1>1, <2>1, EncodedByLength
    <2> QED BY <2>2 DEF VerifyingKeyFromBytes
  <1> QED BY <1>2, <1>3 DEF CareInv, Written

(* A careful caller decodes a signing key that was derived, or none.       *)
LEMMA CarefulDecodeSk ==
  ASSUME CareInv, careful, NEW s \in Schemes, NEW b \in Buffers,
         SigningKeyFromBytes(s, Slice(buf[b], count[b])).res = "Ok"
  PROVE  \E seed \in Seeds : SigningKeyFromBytes(s, Slice(buf[b], count[b])).val = SecretKey(seed)
  <1> DEFINE slice == Slice(buf[b], count[b])
  <1>1. slice.len = SIGNING_KEY_LEN[s]
    BY DEF SigningKeyFromBytes, CheckLen, Require
  <1>2. CASE count[b] = 0
    <2>1. slice.len = 0
      <3>1. 0 \notin Lengths
        BY LengthsOf DEF Lengths
      <3> QED BY <1>2, <3>1 DEF Slice, Bytes
    <2>2. SIGNING_KEY_LEN[s] # 0
      BY LengthsOf
    <2> QED BY <1>1, <2>1, <2>2
  <1>3. CASE Front(buf[b], count[b], signed)
    <2>1. Encoded(slice, signed)
      BY <1>3, SlicedFront
    <2>2. \E seed \in Seeds : slice.body = SecretKey(seed)
      BY <1>1, <2>1, EncodedByLength
    <2> QED BY <2>2 DEF SigningKeyFromBytes
  <1> QED BY <1>2, <1>3 DEF CareInv, Written

(* A derived secret key is not garbled.                                    *)
LEMMA DerivedIsWhole ==
  ASSUME NEW seed PROVE ~Garbled(SecretKey(seed))
  BY DEF Garbled, SecretKey

-----------------------------------------------------------------------------
(* A key pair is derived from a seed.                                      *)
LEMMA KeypairCares ==
  ASSUME CareInv, NEW s \in Schemes, NEW seed \in Seeds, NEW n,
         Keypair(s, Bytes(n, seed))
  PROVE  CareInv'
  <1>1. UNCHANGED <<buf, count, signed, careful>>
    BY DEF Keypair
  <1>2. /\ FromSeed(Bytes(n, seed)).val = seed
        /\ FromSeed(Bytes(n, seed)).res \in {"Ok", "InvalidLength"}
    BY DEF FromSeed, Bytes, CheckLen, Require
  <1>3. reply'.res # "panic"
    BY <1>2 DEF Keypair, Answer
  <1>4. \/ sk' = sk /\ vk' = vk
        \/ /\ sk' = [scheme |-> s, secret |-> SecretKey(seed)]
           /\ vk' = [scheme |-> s, key |-> PublicKey(seed)]
    BY <1>2 DEF Keypair
  <1>5. careful => HeldSk' /\ HeldVk'
    BY <1>4 DEF CareInv, HeldSk, HeldVk
  <1> QED BY <1>1, <1>3, <1>5, NothingWritten

(* The verifying key of a derived key is derived.                          *)
LEMMA VerifyingKeyOfCares ==
  ASSUME CareInv, VerifyingKeyOf
  PROVE  CareInv'
  <1>1. UNCHANGED <<sk, buf, count, signed, careful>> /\ sk # None /\ reply'.res = "Ok"
    BY DEF VerifyingKeyOf, Answer
  <1>2. ASSUME careful PROVE HeldSk' /\ HeldVk'
    <2>1. sk.scheme \in Schemes /\ \E x \in Seeds : sk.secret = SecretKey(x)
      BY <1>1, <1>2 DEF CareInv, HeldSk
    <2>2. PICK x \in Seeds : sk.secret = SecretKey(x)
      BY <2>1
    <2>3. ~Garbled(sk.secret) /\ sk.secret.seed = x
      BY <2>2, DerivedIsWhole DEF SecretKey
    <2>4. vk' = [scheme |-> sk.scheme, key |-> PublicKey(x)]
      BY <2>3 DEF VerifyingKeyOf
    <2> QED BY <1>1, <2>1, <2>4 DEF HeldSk, HeldVk
  <1> QED BY <1>1, <1>2, NothingWritten

(* A careful caller decodes derived verifying keys.                        *)
LEMMA DecodeVkCares ==
  ASSUME CareInv, NEW s \in Schemes, NEW b \in Buffers, NEW n, DecodeVk(s, b, n)
  PROVE  CareInv'
  <1> DEFINE decoded == VerifyingKeyFromBytes(s, Slice(buf[b], n))
  <1>1. /\ UNCHANGED <<sk, buf, count, signed>> /\ careful' = (careful /\ n = count[b])
        /\ vk' = IF decoded.res = "Ok" THEN [scheme |-> s, key |-> decoded.val] ELSE vk
        /\ reply'.res = decoded.res
    BY DEF DecodeVk, Care, Answer
  <1>2. decoded.res \in {"Ok", "InvalidLength"}
    BY DEF VerifyingKeyFromBytes, CheckLen, Require
  <1>3. ASSUME careful, n = count[b], decoded.res = "Ok"
        PROVE  \E x \in Seeds : decoded.val = PublicKey(x)
    BY <1>3, CarefulDecodeVk
  <1> HIDE DEF decoded
  <1>4. ASSUME careful, n = count[b] PROVE HeldSk' /\ HeldVk'
    BY <1>1, <1>3, <1>4 DEF CareInv, HeldSk, HeldVk
  <1> QED BY <1>1, <1>2, <1>4, NothingWritten

(* A careful caller decodes derived signing keys, and without a panic.     *)
LEMMA DecodeSkCares ==
  ASSUME CareInv, NEW s \in Schemes, NEW b \in Buffers, NEW n, DecodeSk(s, b, n)
  PROVE  CareInv'
  <1> DEFINE decoded == SigningKeyFromBytes(s, Slice(buf[b], n))
  <1>1. /\ UNCHANGED <<vk, buf, count, signed>> /\ careful' = (careful /\ n = count[b])
        /\ \/ /\ sk' = IF decoded.res = "Ok" THEN [scheme |-> s, secret |-> decoded.val] ELSE sk
              /\ reply'.res = decoded.res
           \/ decoded.res = "Ok" /\ Garbled(decoded.val)
    BY DEF DecodeSk, Care, Answer
  <1>2. decoded.res \in {"Ok", "InvalidLength"}
    BY DEF SigningKeyFromBytes, CheckLen, Require
  <1>3. ASSUME careful, n = count[b], decoded.res = "Ok"
        PROVE  \E x \in Seeds : decoded.val = SecretKey(x)
    BY <1>3, CarefulDecodeSk
  <1> HIDE DEF decoded
  <1>4. ASSUME careful, n = count[b]
        PROVE  reply'.res # "panic" /\ HeldSk' /\ HeldVk'
    <2>1. ~(decoded.res = "Ok" /\ Garbled(decoded.val))
      BY <1>3, <1>4, DerivedIsWhole
    <2> QED BY <1>1, <1>2, <1>3, <1>4, <2>1 DEF CareInv, HeldSk, HeldVk
  <1> QED BY <1>1, <1>4, NothingWritten

(* Verifying changes nothing and does not panic.                           *)
LEMMA VerifySliceCares ==
  ASSUME CareInv, NEW b, NEW n, NEW m, NEW context, VerifySlice(b, n, m, context)
  PROVE  CareInv'
  <1>1. /\ UNCHANGED <<sk, vk, buf, count, signed>>
        /\ careful' = (careful /\ n = count[b])
        /\ reply'.res = Verify(vk.scheme, vk.key, m, context, Slice(buf[b], n))
    BY DEF VerifySlice, Care
  <1>2. \A s1, k1, m1, c1, g1 : Verify(s1, k1, m1, c1, g1) # "panic"
    BY DEF Verify, CheckContext, CheckLen, Require, ??
  <1>3. careful => HeldSk' /\ HeldVk'
    BY <1>1 DEF CareInv, HeldSk, HeldVk
  <1> QED BY <1>1, <1>2, <1>3, NothingWritten

(* A call that writes, and may sign, to the hands of a careful caller.     *)
LEMMA WrittenCares ==
  ASSUME SessionInv, CareInv, NEW b \in Buffers, NEW op, NEW result,
         Deliver(b, op, result), UNCHANGED <<sk, vk, careful>>, signed \subseteq signed',
         result.res # "panic",
         careful /\ result.res = "Ok" => Encoded(result.val, signed')
  PROVE  CareInv'
  <1>1. DOMAIN buf = Buffers /\ DOMAIN count = Buffers
    BY DEF SessionInv, BuffersGenuine, CareInv
  <1>2. DOMAIN count' = Buffers /\ reply'.res = result.res
    BY <1>1 DEF Deliver, Answer
  <1>3. ASSUME careful PROVE Written'
    <2> DEFINE claims == signed'
    <2>1. Written /\ signed \subseteq claims /\ (result.res = "Ok" => Encoded(result.val, claims))
      BY <1>3 DEF CareInv
    <2> HIDE DEF claims
    <2>2. \A c \in Buffers : count'[c] = 0 \/ Front(buf'[c], count'[c], claims)
      BY <1>1, <2>1, DeliverWrites
    <2> QED BY <2>2 DEF claims, Written, Front, Encoded
  <1> QED BY <1>2, <1>3 DEF CareInv, HeldSk, HeldVk

(* The verifying key of a careful caller is written as an encoding.        *)
LEMMA EncodeVkCares ==
  ASSUME SessionInv, CareInv, NEW b \in Buffers, EncodeVk(b)
  PROVE  CareInv'
  <1> DEFINE result == WriteVerifyingKey(vk.scheme, vk.key, Size[b])
  <1>1. Deliver(b, "write_to", result) /\ UNCHANGED <<sk, vk, signed, careful>> /\ vk # None
    BY DEF EncodeVk
  <1>2. /\ result.res # "panic"
        /\ result.val = Bytes(VERIFYING_KEY_LEN[vk.scheme], vk.key)
    BY DEF WriteVerifyingKey, CheckRoom, Require
  <1> HIDE DEF result
  <1>3. careful => Encoded(result.val, signed')
    BY <1>1, <1>2 DEF CareInv, HeldVk, Encoded
  <1> QED BY <1>1, <1>2, <1>3, WrittenCares

(* So is its signing key.                                                  *)
LEMMA EncodeSkCares ==
  ASSUME SessionInv, CareInv, NEW b \in Buffers, EncodeSk(b)
  PROVE  CareInv'
  <1> DEFINE written == WriteSigningKey(sk.scheme, None, Size[b])
             result  == [written EXCEPT !.val.body = sk.secret]
  <1>1. Deliver(b, "write_to", result) /\ UNCHANGED <<sk, vk, signed, careful>> /\ sk # None
    BY DEF EncodeSk
  <1>2. /\ result.res # "panic"
        /\ result.val = Bytes(SIGNING_KEY_LEN[sk.scheme], sk.secret)
    BY DEF WriteSigningKey, CheckRoom, Require, Bytes
  <1> HIDE DEF result
  <1>3. careful => Encoded(result.val, signed')
    BY <1>1, <1>2 DEF CareInv, HeldSk, Encoded
  <1> QED BY <1>1, <1>2, <1>3, WrittenCares

(* And what it signs, a signature of the claim that is recorded.           *)
LEMMA SignCares ==
  ASSUME SessionInv, CareInv, NEW b \in Buffers, NEW m, NEW context, Sign(b, m, context)
  PROVE  CareInv'
  <1> DEFINE seed   == sk.secret.seed
             result == SignInto(sk.scheme, seed, m, context, Size[b])
             claim  == Claim(sk.scheme, PublicKey(seed), context, m)
  <1>1. /\ Deliver(b, "sign_into", result) /\ UNCHANGED <<sk, vk, careful>>
        /\ signed' = IF result.res = "Ok" THEN signed \cup {claim} ELSE signed
    BY DEF Sign
  <1>2. /\ result.res # "panic"
        /\ result.res = "Ok" => context.len <= MAX_CONTEXT_LEN
    BY DEF SignInto, CheckContext, CheckRoom, Require, ??
  <1>3. result.val = Bytes(SIGNATURE_LEN[sk.scheme],
                           Signature(sk.scheme, PublicKey(seed), context, m))
    BY DEF SignInto
  <1>4. /\ claim.scheme = sk.scheme /\ claim.key = PublicKey(seed)
        /\ claim.context = context /\ claim.message = m
    BY DEF Claim
  <1>5. sk.scheme \in Schemes
    BY DEF Sign, SessionInv, SkGenuine
  <1> HIDE DEF result, claim, seed
  <1>6. result.res = "Ok" => Encoded(result.val, signed')
    <2> SUFFICES ASSUME result.res = "Ok" PROVE Encoded(result.val, signed')
      OBVIOUS
    <2>1. claim \in signed'
      BY <1>1
    <2> QED BY <1>2, <1>3, <1>4, <1>5, <2>1 DEF Encoded
  <1>7. signed \subseteq signed'
    BY <1>1
  <1> QED BY <1>1, <1>2, <1>6, <1>7, WrittenCares

(* A careful caller's key is not garbled.                                  *)
LEMMA SignGarbledCares ==
  ASSUME SessionInv, CareInv, NEW b \in Buffers, NEW m, NEW context, SignGarbled(b, m, context)
  PROVE  CareInv'
  <1>1. ~careful
    BY DerivedIsWhole DEF SignGarbled, CareInv, HeldSk
  <1>2. careful' = careful /\ DOMAIN count' = Buffers
    BY DEF SignGarbled, Deliver, CareInv
  <1> QED BY <1>1, <1>2 DEF CareInv

(* The invariant of careful callers holds in every session.                *)
LEMMA CareInvHolds == SessionSpec => [](SessionInv /\ CareInv)
  <1>1. SessionInit => CareInv
    BY DEF SessionInit, CareInv, HeldSk, HeldVk, Written, Answer
  <1>2. SessionInv /\ CareInv /\ [SessionNext]_vars => CareInv'
    <2> SUFFICES ASSUME SessionInv, CareInv, [SessionNext]_vars PROVE CareInv'
      OBVIOUS
    <2>1. CASE UNCHANGED vars
      BY <2>1, NothingWritten DEF vars, CareInv, HeldSk, HeldVk
    <2> QED BY <2>1, SessionSteps, KeypairCares, VerifyingKeyOfCares, DecodeVkCares,
               DecodeSkCares, VerifySliceCares, EncodeVkCares, EncodeSkCares, SignCares,
               SignGarbledCares
  <1> QED BY <1>1, <1>2, SessionInvHolds, PTL DEF SessionSpec

(* A caller that decodes as many bytes as it was told were written never   *)
(* meets a panic and never holds a key nobody derived, whatever else it    *)
(* does (SigningKey::from_bytes, "trusted input only").                    *)
THEOREM CarefulCallersHold == SessionSpec => []CarefulCallersAreSafe
  <1>1. CareInv => CarefulCallersAreSafe
    BY DEF CareInv, HeldSk, HeldVk, CarefulCallersAreSafe, DerivedKeys
  <1> QED BY <1>1, CareInvHolds, PTL

(* What was written last is read back from the slice of the length that    *)
(* was returned, whatever lay in the buffer before (traits.rs, write_to    *)
(* and sign_into).                                                         *)
THEOREM ReadsBackHolds == SessionSpec => []ReadsBack
  <1>1. CareInv => ReadsBack
    <2> SUFFICES ASSUME CareInv, careful, NEW b \in Buffers, count[b] > 0
                 PROVE  LET slice == Slice(buf[b], count[b]) IN
                   \/ \E s \in Schemes, seed \in Seeds :
                        \/ VerifyingKeyFromBytes(s, slice) = [res |-> "Ok", val |-> PublicKey(seed)]
                        \/ SigningKeyFromBytes(s, slice) = [res |-> "Ok", val |-> SecretKey(seed)]
                   \/ \E x \in signed :
                        Verify(x.scheme, x.key, x.message, x.context, slice) = "Ok"
      BY DEF ReadsBack
    <2> DEFINE slice == Slice(buf[b], count[b])
    <2>1. Encoded(slice, signed)
      BY SlicedFront DEF CareInv, Written
    <2> HIDE DEF slice
    <2>2. \A n, body : Bytes(n, body).len = n /\ Bytes(n, body).body = body
      BY DEF Bytes
    <2>3. ASSUME NEW s \in Schemes, NEW seed \in Seeds,
                 slice = Bytes(VERIFYING_KEY_LEN[s], PublicKey(seed))
          PROVE  VerifyingKeyFromBytes(s, slice) = [res |-> "Ok", val |-> PublicKey(seed)]
      BY <2>2, <2>3 DEF VerifyingKeyFromBytes, CheckLen, Require
    <2>4. ASSUME NEW s \in Schemes, NEW seed \in Seeds,
                 slice = Bytes(SIGNING_KEY_LEN[s], SecretKey(seed))
          PROVE  SigningKeyFromBytes(s, slice) = [res |-> "Ok", val |-> SecretKey(seed)]
      BY <2>2, <2>4 DEF SigningKeyFromBytes, CheckLen, Require
    <2>5. ASSUME NEW s \in Schemes, NEW x \in signed,
                 x.scheme = s, x.context.len <= MAX_CONTEXT_LEN,
                 slice = Bytes(SIGNATURE_LEN[s], Signature(s, x.key, x.context, x.message))
          PROVE  Verify(x.scheme, x.key, x.message, x.context, slice) = "Ok"
      <3>1. /\ slice.len = SIGNATURE_LEN[s]
            /\ slice.body = Signature(s, x.key, x.context, x.message)
        BY <2>2, <2>5
      <3>2. slice.body.kind # MalformedSignature.kind
        BY <3>1 DEF Signature, MalformedSignature
      <3> QED BY <2>5, <3>1, <3>2 DEF Verify, CheckContext, CheckLen, Require, ??
    <2> QED BY <2>1, <2>3, <2>4, <2>5 DEF Encoded, slice
  <1> QED BY <1>1, CareInvHolds, PTL

=============================================================================
