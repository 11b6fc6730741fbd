---------------------------- MODULE ProbeRun_proofs ----------------------------
(***************************************************************************)
(* Machine-checked proofs that the tables of the prototype's harness say   *)
(* what was measured, whoever replaces the key and however many ledgers    *)
(* close meanwhile.                                                        *)
(***************************************************************************)
EXTENDS ProbeRun, AccountHost_proofs

(* The calls of simulate, and those of main.                               *)
Probed == {"ML-DSA-65", "ML-DSA-44", "ed25519", "noop"}

Local == Probed \cup {"decode_only", "tampered"}

(* The values a row of either table may have.                              *)
ProbeRows ==
  {[label |-> call, ok |-> ~ProbeTraps(call), answer |-> ProbeAnswer(call)] : call \in Probed}

ProtectedRows == [label : {"protected"}, ok : BOOLEAN, key : Slots, at : Nat]

GoodRows == {[call |-> call, answer |-> ProbeAnswer(call)] : call \in Local \ {"tampered"}}

BadRows ==
  {[call   |-> "tampered",
    answer |-> ProbeVerify("ML-DSA-65", Key("ML-DSA-65"), Msg, bad)] : bad \in Tampered}

(* Genuine arguments pass, and trap nowhere.                               *)
LEMMA ProbesPass ==
  ASSUME NEW call \in Local \ {"tampered"}
  PROVE  ProbeAnswer(call) /\ ~ProbeTraps(call)
  <1>1. ASSUME NEW s \in Schemes PROVE ProbeVerify(s, Key(s), Msg, Good(s))
    <2>1. /\ Key(s).len = VERIFYING_KEY_LEN[s] /\ Key(s).body = PublicKey(SEED)
          /\ Good(s).len = SIGNATURE_LEN[s]
          /\ Good(s).body = Signature(s, PublicKey(SEED), EmptyContext, Msg)
          /\ Msg.len <= PROBE_MSG_LEN
      BY DEF Key, Good, Signed, Bytes, Msg, PROBE_MSG_LEN
    <2> QED BY <2>1, SignedIsWellFormed DEF ProbeVerify
  <1>2. ProbeDecode(Key("ML-DSA-65"))
    BY DEF ProbeDecode, Key, Bytes
  <1>3. ~ProbeEd25519Traps(Bytes(32, PayingKey), Msg, EdSignature)
    BY DEF ProbeEd25519Traps, EdSignature, Bytes
  <1> QED BY <1>1, <1>2, <1>3 DEF ProbeAnswer, ProbeTraps, Local, Probed, Schemes

(* A tampered signature does not verify.                                   *)
LEMMA TamperedFails ==
  ASSUME NEW bad \in Tampered
  PROVE  ~ProbeVerify("ML-DSA-65", Key("ML-DSA-65"), Msg, bad)
  <1>1. bad.body \in {CorruptSignature, MalformedSignature}
    BY DEF Tampered, Signed, Bytes
  <1>2. \A key, message : Signature("ML-DSA-65", key, EmptyContext, message).kind = "signed"
    BY DEF Signature
  <1>3. CorruptSignature.kind # "signed"
    BY DEF CorruptSignature
  <1> QED BY <1>1, <1>2, <1>3 DEF ProbeVerify

-----------------------------------------------------------------------------
(* The host under these programs: nothing is ever executed, and what is    *)
(* signed is dated from a ledger.                                          *)
ProbeBase == InductiveInv /\ nonces = {} /\ latest \in 0..MaxLedger

(* To the host, the programs and everybody else are clients.               *)
LEMMA ProbeStepRefines ==
  ASSUME ProbeBase, [ProbeNext]_probeVars
  PROVE  [Next]_vars
  <1>1. CASE SignProtected
    <2>1. /\ SEED \in Seeds /\ Account \in Accounts /\ Passphrase \in Passphrases
          /\ latest * 7 + 13 \in Nonces /\ latest + ExpiryWindow \in Expiries
          /\ EmptyContext \in Contexts
      BY ProbeRunAssumption DEF ProbeBase
    <2> DEFINE nonce  == latest * 7 + 13
               expiry == latest + ExpiryWindow
    <2>2. Sign(SEED, Account, Payload(Passphrase, nonce, expiry, Account), EmptyContext)
      BY <1>1 DEF SignProtected, ProbePayload
    <2> HIDE DEF nonce, expiry
    <2>3. nonce \in Nonces /\ expiry \in Expiries
      BY <2>1 DEF nonce, expiry
    <2> QED BY <2>1, <2>2, <2>3 DEF Next
  <1>2. CASE OthersInit
    <2>1. PICK pubkey \in InitKeys : InvokeInit(Account, pubkey)
      BY <1>2 DEF OthersInit
    <2>2. Account \in Accounts /\ pubkey \in PubKeys
      BY ProbeRunAssumption
    <2> QED BY <2>1, <2>2 DEF Next
  <1>3. CASE LedgerCloses
    BY <1>3 DEF LedgerCloses, Next
  <1>4. CASE ~SignProtected /\ ~OthersInit /\ ~LedgerCloses
    <2>1. UNCHANGED vars
      BY <1>4 DEF ProbeNext, probeVars, ReadState, SimulateProbe, SimulateProtected,
         ReadInstance, ProbeBreaks, MeasureLocal
    <2> QED BY <2>1
  <1> QED BY <1>1, <1>2, <1>3, <1>4

(* The host's invariant is kept, and no nonce is taken.                    *)
LEMMA ProbeBaseNext == ProbeBase /\ [ProbeNext]_probeVars => ProbeBase'
  <1> SUFFICES ASSUME ProbeBase, [ProbeNext]_probeVars PROVE ProbeBase'
    OBVIOUS
  <1>1. InductiveInv'
    BY ProbeStepRefines, NextInductive DEF ProbeBase
  <1>2. latest' \in 0..MaxLedger
    <2>1. ledger - 1 \in 0..MaxLedger /\ 0 \in 0..MaxLedger
      BY AccountHostAssumption DEF ProbeBase, InductiveInv, TypeOK
    <2>2. latest' = latest \/ ReadState
      BY DEF ProbeNext, probeVars, SimulateProbe, SignProtected, SimulateProtected,
         ReadInstance, ProbeBreaks, MeasureLocal, OthersInit, LedgerCloses
    <2> QED BY <2>1, <2>2 DEF ReadState, ProbeBase
  <1>3. nonces' = {}
    <2>1. CASE LedgerCloses
      BY <2>1 DEF LedgerCloses, CloseLedger, ProbeBase
    <2>2. CASE ~LedgerCloses
      BY <2>2 DEF ProbeNext, probeVars, vars, ReadState, SimulateProbe, SignProtected,
         SimulateProtected, ReadInstance, ProbeBreaks, MeasureLocal, OthersInit,
         Sign, InvokeInit, ProbeBase
    <2> QED BY <2>1, <2>2
  <1> QED BY <1>1, <1>2, <1>3 DEF ProbeBase

(* The host accepts the program's entry exactly as long as the account has *)
(* the program's key and the entry has not expired.                        *)
LEMMA ProbeEntryVerdict ==
  ASSUME ProbeBase
  PROVE  RequireAuth(Account, ProbeEntry) = "Ok"
           <=> /\ owner[Account] = Bytes(KeyLen, PublicKey(SEED))
               /\ ledger <= latest + ExpiryWindow
  <1> DEFINE p == ProbePayload(latest)
             entry == ProbeEntry
             key == owner[Account]
  <1>1. Account \in Accounts /\ SEED \in Seeds
    BY ProbeRunAssumption
  <1>2. stored = owner /\ key \in Slots /\ ledger \in Nat /\ latest \in Nat
    BY <1>1, LedgerNumbers DEF ProbeBase, InductiveInv, StoredIsOwner, TypeOK
  <1>3. ClientContext(Account) = EmptyContext
    BY ProbeRunAssumption DEF ClientContext
  <1>4. /\ entry.account = Account /\ entry.root_invocation = Protected(Account)
        /\ entry.signature_expiration_ledger = latest + ExpiryWindow
        /\ HostPayload(entry) = SignaturePayload(p)
        /\ entry.signature.len = SIGNATURE_LEN[SCHEME]
        /\ entry.signature.body
             = Signature(SCHEME, PublicKey(SEED), EmptyContext, SignaturePayload(p))
    BY DEF ProbeEntry, BuildAuthEntry, SignAuthorization, SignInto, Bytes, ProbePayload,
       Payload, HostPayload, SignaturePayload, Sha256
  <1>5. ~NonceLive(Account, entry.nonce)
    BY DEF NonceLive, ProbeBase
  <1>6. CheckAuthOf(Account, HostPayload(entry), entry.signature) = "Ok"
          <=> key = Bytes(KeyLen, PublicKey(SEED))
    <2>1. CASE key = None
      <3>1. Bytes(KeyLen, PublicKey(SEED)) \in KeyBytes
        BY <1>1 DEF Bytes, KeyBytes, KeyLen, VERIFYING_KEY_LEN, SCHEME, Schemes
      <3>2. key # Bytes(KeyLen, PublicKey(SEED))
        BY <2>1, <3>1, AccountHostAssumption
      <3> QED BY <1>1, <1>2, <2>1, <3>2, CheckAuthOk
    <2>2. CASE key # None
      <3>1. CheckAuthOf(Account, HostPayload(entry), entry.signature) = "Ok"
              <=> entry.signature.body
                    = Signature(SCHEME, key.body, EmptyContext, HostPayload(entry))
        BY <1>1, <1>2, <1>3, <1>4, <2>2, CheckAuthVerdict
      <3>2. \A k : Signature(SCHEME, PublicKey(SEED), EmptyContext, SignaturePayload(p))
                     = Signature(SCHEME, k, EmptyContext, SignaturePayload(p))
                   <=> k = PublicKey(SEED)
        BY DEF Signature
      <3>3. key = Bytes(KeyLen, key.body)
        BY <1>2, <2>2, FullSlot
      <3>4. key.body = PublicKey(SEED) <=> key = Bytes(KeyLen, PublicKey(SEED))
        BY <3>3 DEF Bytes
      <3> QED BY <1>4, <3>1, <3>2, <3>4
    <2> QED BY <2>1, <2>2
  <1>7. RequireAuth(Account, entry) = "Ok" <=>
          /\ entry.account = Account /\ entry.root_invocation = Protected(Account)
          /\ entry.signature_expiration_ledger >= ledger
          /\ ~NonceLive(Account, entry.nonce)
          /\ CheckAuthOf(Account, HostPayload(entry), entry.signature) = "Ok"
    BY ThenOk DEF RequireAuth, Require
  <1>8. latest + ExpiryWindow >= ledger <=> ledger <= latest + ExpiryWindow
    BY <1>2, ProbeRunAssumption
  <1> HIDE DEF entry, key
  <1>9. RequireAuth(Account, entry) = "Ok" <=>
          key = Bytes(KeyLen, PublicKey(SEED)) /\ ledger <= latest + ExpiryWindow
    BY <1>4, <1>5, <1>6, <1>7, <1>8
  <1> QED BY <1>9 DEF entry, key

-----------------------------------------------------------------------------
(* The tables are sequences of such rows, none is written before the       *)
(* ledger was read, and the last row says what the host would say.         *)
TableTyped ==
  /\ rows \in Seq(ProbeRows \cup ProtectedRows)
  /\ pc = "start" => Len(rows) = 0
  /\ pc = "rows" => Len(rows) < 4

LocalTyped == local \in Seq(GoodRows \cup BadRows)

ProbeInv == ProbeBase /\ TableTyped /\ LocalTyped /\ ProtectedRowExplained

(* The calls of the two programs.                                          *)
LEMMA CallsListed ==
  /\ \A i \in 1..4 : ProbeCalls[i] \in Probed
  /\ Len(ProbeCalls) = 4
  /\ \A i \in 1..6 : LocalCalls[i] \in Local
  /\ Len(LocalCalls) = 6
  BY DEF ProbeCalls, LocalCalls, Local, Probed

(* Measuring a call of the probe contract adds a row of its kind.          *)
LEMMA SimulateProbeKeeps ==
  ASSUME ProbeInv, SimulateProbe
  PROVE  TableTyped' /\ ProtectedRowExplained'
  <1> DEFINE i == Len(rows) + 1
             call == ProbeCalls[i]
             row == [label |-> call, ok |-> ~ProbeTraps(call), answer |-> ProbeAnswer(call)]
  <1>1. rows \in Seq(ProbeRows \cup ProtectedRows) /\ i \in 1..4
    BY DEF ProbeInv, TableTyped, SimulateProbe
  <1>2. /\ rows' = Append(rows, row) /\ latest' = latest
        /\ pc' = IF Len(rows') = Len(ProbeCalls) THEN "sign" ELSE "rows"
    BY DEF SimulateProbe
  <1>3. row \in ProbeRows /\ row.label # "protected"
    BY <1>1, CallsListed DEF ProbeRows, Probed
  <1> HIDE DEF row
  <1>4. /\ rows' \in Seq(ProbeRows \cup ProtectedRows) /\ Len(rows') = i
        /\ DOMAIN rows' = 1..i /\ rows'[i] = row
        /\ \A j \in 1..i : j # i => j \in DOMAIN rows /\ rows'[j] = rows[j]
    BY <1>1, <1>2, <1>3
  <1>5. TableTyped'
    BY <1>1, <1>2, <1>4, CallsListed DEF TableTyped
  <1>6. ProtectedRowExplained'
    BY <1>2, <1>3, <1>4 DEF ProbeInv, ProtectedRowExplained
  <1> QED BY <1>5, <1>6

(* Measuring the authorised call adds the host's verdict.                  *)
LEMMA SimulateProtectedKeeps ==
  ASSUME ProbeInv, SimulateProtected
  PROVE  TableTyped' /\ ProtectedRowExplained'
  <1> DEFINE n == Len(rows) + 1
             ok == RequireAuth(Account, ProbeEntry) = "Ok"
             row == [label |-> "protected", ok |-> ok, key |-> owner[Account],
                     at |-> ledger]
  <1>1. rows \in Seq(ProbeRows \cup ProtectedRows) /\ Len(rows) \in Nat
    BY DEF ProbeInv, TableTyped
  <1>2. rows' = Append(rows, row) /\ latest' = latest /\ pc' = "instance"
    BY DEF SimulateProtected
  <1>3. owner[Account] \in Slots /\ ledger \in Nat
    BY ProbeRunAssumption, LedgerNumbers DEF ProbeInv, ProbeBase, InductiveInv, TypeOK
  <1>4. ok <=> /\ owner[Account] = Bytes(KeyLen, PublicKey(SEED))
               /\ ledger <= latest + ExpiryWindow
    BY ProbeEntryVerdict DEF ProbeInv
  <1>5. ok \in BOOLEAN
    OBVIOUS
  <1> HIDE DEF ok
  <1>6. row \in ProtectedRows
    BY <1>3, <1>5 DEF ProtectedRows
  <1>7. row.ok = ok /\ row.key = owner[Account] /\ row.at = ledger
    OBVIOUS
  <1> HIDE DEF row
  <1>8. /\ rows' \in Seq(ProbeRows \cup ProtectedRows)
        /\ DOMAIN rows' = 1..n /\ rows'[n] = row
        /\ \A j \in 1..n : j # n => j \in DOMAIN rows /\ rows'[j] = rows[j]
    BY <1>1, <1>2, <1>6
  <1>9. TableTyped'
    BY <1>2, <1>8 DEF TableTyped
  <1>10. ProtectedRowExplained'
    <2> SUFFICES ASSUME NEW j \in 1..n, rows'[j].label = "protected"
                 PROVE  rows'[j].ok <=> /\ rows'[j].key = Bytes(KeyLen, PublicKey(SEED))
                                        /\ rows'[j].at <= latest + ExpiryWindow
      BY <1>2, <1>8 DEF ProtectedRowExplained
    <2>1. CASE j = n
      BY <1>4, <1>7, <1>8, <2>1
    <2>2. CASE j # n
      BY <1>8, <2>2 DEF ProbeInv, ProtectedRowExplained
    <2> QED BY <2>1, <2>2
  <1> QED BY <1>9, <1>10

(* Measuring locally adds a row whose verdict is known.                    *)
LEMMA MeasureLocalKeeps ==
  ASSUME LocalTyped, MeasureLocal
  PROVE  LocalTyped'
  <1> DEFINE i == Len(local) + 1
             call == LocalCalls[i]
  <1>1. local \in Seq(GoodRows \cup BadRows) /\ i \in 1..6
    BY CallsListed DEF LocalTyped, MeasureLocal
  <1>2. call \in Local
    BY <1>1, CallsListed
  <1> HIDE DEF call
  <1>3. CASE call = "tampered"
    <2>1. PICK bad \in Tampered :
            local' = Append(local, [call |-> call, answer |->
                       ProbeVerify("ML-DSA-65", Key("ML-DSA-65"), Msg, bad)])
      BY <1>3 DEF MeasureLocal, call
    <2> DEFINE row == [call |-> call, answer |->
                        ProbeVerify("ML-DSA-65", Key("ML-DSA-65"), Msg, bad)]
    <2>2. row \in BadRows
      BY <1>3 DEF BadRows
    <2> HIDE DEF row
    <2> QED BY <1>1, <2>1, <2>2 DEF LocalTyped, row
  <1>4. CASE call # "tampered"
    <2> DEFINE row == [call |-> call, answer |-> ProbeAnswer(call)]
    <2>1. local' = Append(local, row)
      BY <1>4 DEF MeasureLocal, call
    <2>2. row \in GoodRows
      BY <1>2, <1>4 DEF GoodRows
    <2> HIDE DEF row
    <2> QED BY <1>1, <2>1, <2>2 DEF LocalTyped
  <1> QED BY <1>3, <1>4

(* The tables stay right in every step.                                    *)
LEMMA ProbeInvNext == ProbeInv /\ [ProbeNext]_probeVars => ProbeInv'
  <1> SUFFICES ASSUME ProbeInv, [ProbeNext]_probeVars PROVE ProbeInv'
    OBVIOUS
  <1>1. ProbeBase'
    BY ProbeBaseNext DEF ProbeInv
  <1>2. LocalTyped'
    <2>1. MeasureLocal \/ local' = local
      BY DEF ProbeNext, probeVars, ReadState, SimulateProbe, SignProtected,
         SimulateProtected, ReadInstance, ProbeBreaks, OthersInit, LedgerCloses
    <2> QED BY <2>1, MeasureLocalKeeps DEF ProbeInv, LocalTyped
  <1>3. TableTyped' /\ ProtectedRowExplained'
    <2>1. CASE ReadState
      <3>1. rows' = rows /\ Len(rows) = 0 /\ pc' = "rows"
        BY <2>1 DEF ReadState, ProbeInv, TableTyped
      <3>2. DOMAIN rows' = {}
        BY <3>1 DEF ProbeInv, TableTyped
      <3> QED BY <3>1, <3>2 DEF ProbeInv, TableTyped, ProtectedRowExplained
    <2>2. CASE UNCHANGED <<rows, latest>> /\ pc' \in {pc, "protected", "done", "panicked"}
      BY <2>2 DEF ProbeInv, TableTyped, ProtectedRowExplained
    <2>3. \/ ReadState \/ SimulateProbe \/ SimulateProtected
          \/ UNCHANGED <<rows, latest>> /\ pc' \in {pc, "protected", "done", "panicked"}
      BY DEF ProbeNext, probeVars, SignProtected, ReadInstance, ProbeBreaks, MeasureLocal,
         OthersInit, LedgerCloses
    <2> QED BY <2>1, <2>2, <2>3, SimulateProbeKeeps, SimulateProtectedKeeps
  <1> QED BY <1>1, <1>2, <1>3 DEF ProbeInv

(* The invariant holds throughout.                                         *)
LEMMA ProbeInvHolds == ProbeSpec => []ProbeInv
  <1>1. ProbeInit => ProbeInv
    <2> SUFFICES ASSUME ProbeInit PROVE ProbeInv
      OBVIOUS
    <2>1. InductiveInv /\ nonces = {} /\ latest = 0
      BY InitInductive DEF ProbeInit, Init
    <2>2. 0 \in 0..MaxLedger
      BY AccountHostAssumption
    <2>3. TableTyped /\ LocalTyped /\ ProtectedRowExplained
      BY DEF ProbeInit, TableTyped, LocalTyped, ProtectedRowExplained
    <2> QED BY <2>1, <2>2, <2>3 DEF ProbeInv, ProbeBase
  <1> QED BY <1>1, ProbeInvNext, PTL DEF ProbeSpec

(* No row of simulate measures a refusal of the probe contract (verify,    *)
(* verify44).                                                              *)
THEOREM ProbeRowsVerifyHolds == ProbeSpec => []ProbeRowsVerify
  <1>1. ProbeInv => ProbeRowsVerify
    <2> SUFFICES ASSUME ProbeInv, NEW i \in DOMAIN rows, rows[i].label # "protected"
                 PROVE  rows[i].answer
      BY DEF ProbeRowsVerify
    <2>1. rows[i] \in ProbeRows \cup ProtectedRows
      BY DEF ProbeInv, TableTyped
    <2>2. rows[i] \in ProbeRows
      BY <2>1 DEF ProtectedRows
    <2>3. PICK call \in Probed : rows[i] = [label |-> call, ok |-> ~ProbeTraps(call),
                                            answer |-> ProbeAnswer(call)]
      BY <2>2 DEF ProbeRows
    <2>4. ProbeAnswer(call)
      BY ProbesPass DEF Local, Probed
    <2> QED BY <2>3, <2>4
  <1> QED BY <1>1, ProbeInvHolds, PTL

(* The authorised row is a measurement exactly when the account held the   *)
(* program's key and its entry had not expired (simulate, the row          *)
(* "protected").                                                           *)
THEOREM ProtectedRowExplainedHolds == ProbeSpec => []ProtectedRowExplained
  <1>1. ProbeInv => ProtectedRowExplained
    BY DEF ProbeInv
  <1> QED BY <1>1, ProbeInvHolds, PTL

(* main's verdicts are right: good signatures pass, the tampered one does  *)
(* not.                                                                    *)
THEOREM VerdictsAreRightHolds == ProbeSpec => []VerdictsAreRight
  <1>1. ProbeInv => VerdictsAreRight
    <2> SUFFICES ASSUME ProbeInv, NEW i \in DOMAIN local
                 PROVE  Verdict(local[i]) \notin {"FAIL", "LEAK"}
      BY DEF VerdictsAreRight
    <2>1. local[i] \in GoodRows \cup BadRows
      BY DEF ProbeInv, LocalTyped
    <2>2. CASE local[i] \in GoodRows
      <3>1. PICK call \in Local \ {"tampered"} :
              local[i] = [call |-> call, answer |-> ProbeAnswer(call)]
        BY <2>2 DEF GoodRows
      <3>2. local[i].call = call /\ local[i].answer
        BY <3>1, ProbesPass
      <3> QED BY <3>2 DEF Verdict, Schemes, Local, Probed
    <2>3. CASE local[i] \in BadRows
      <3>1. PICK bad \in Tampered :
              local[i] = [call   |-> "tampered",
                          answer |-> ProbeVerify("ML-DSA-65", Key("ML-DSA-65"), Msg, bad)]
        BY <2>3 DEF BadRows
      <3>2. local[i].call = "tampered" /\ ~local[i].answer
        BY <3>1, TamperedFails
      <3> QED BY <3>2 DEF Verdict, Schemes
    <2> QED BY <2>1, <2>2, <2>3
  <1> QED BY <1>1, ProbeInvHolds, PTL

=============================================================================
