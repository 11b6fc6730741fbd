------------------------------- MODULE ProbeRun -------------------------------
(***************************************************************************)
(* Two programs of phase0/harness that measure the prototype contracts.    *)
(*                                                                         *)
(* bin/simulate works on the network: it reads the account state, has four *)
(* calls of the probe contract and an authorised call of the account       *)
(* simulated, and keeps a failed simulation as a row of its table instead  *)
(* of stopping.  Meanwhile ledgers close and anybody may replace the       *)
(* account's key.  main works on a local host and, unlike the other,       *)
(* looks at what the calls answer.                                         *)
(***************************************************************************)
EXTENDS AccountHost, PqProbe

CONSTANTS
  PayingKey,      \* the ed25519 key of both programs' baseline
  SEED,           \* the seed of all ML-DSA keys (42 in the code)
  Account,        \* the prototype account
  ExpiryWindow,   \* ledgers an authorisation stays valid (500 in the code)
  InitKeys        \* keys somebody may install meanwhile

VARIABLES
  pc,             \* what simulate does next, or how it ended
  latest,         \* the latest ledger it read
  rows,           \* its table [label, ok], and what it does not record: the
                  \* answer; for the last row the account's key and the ledger
  local           \* the calls main has measured [call, answer]

probeVars == <<vars, pc, latest, rows, local>>

ASSUME ProbeRunAssumption ==
  /\ SEED \in Seeds /\ Account \in Accounts /\ Version[Account] = "phase0"
  /\ ExpiryWindow \in Nat /\ InitKeys \subseteq PubKeys
  /\ EmptyContext \in Contexts /\ Passphrase \in Passphrases
  /\ \A l \in 0..MaxLedger : l * 7 + 13 \in Nonces /\ l + ExpiryWindow \in Expiries

-----------------------------------------------------------------------------
(* The vectors.                                                            *)
Msg == Bytes(32, "seven")

Key(s) == Bytes(VERIFYING_KEY_LEN[s], PublicKey(SEED))

Signed(s, body) == Bytes(SIGNATURE_LEN[s], body)

Good(s) == Signed(s, Signature(s, PublicKey(SEED), EmptyContext, Msg))

EdSignature ==
  Bytes(64, [kind |-> "ed25519", key |-> PayingKey, message |-> Msg])

(* What a call of the probe contract answers; only ed25519 can trap.       *)
ProbeAnswer(call) ==
  CASE call \in Schemes -> ProbeVerify(call, Key(call), Msg, Good(call))
    [] call = "decode_only" -> ProbeDecode(Key("ML-DSA-65"))
    [] call \in {"noop", "ed25519"} -> TRUE

ProbeTraps(call) ==
  call = "ed25519" /\ ProbeEd25519Traps(Bytes(32, PayingKey), Msg, EdSignature)

-----------------------------------------------------------------------------
(* bin/simulate.                                                           *)
ProbeCalls == <<"ML-DSA-65", "ML-DSA-44", "ed25519", "noop">>

ProbeInit ==
  /\ Init
  /\ pc = "start" /\ latest = 0
  /\ rows = << >> /\ local = << >>

(* getLedgerEntries: a missing latestLedger counts as 0.                   *)
ReadState ==
  /\ pc = "start"
  /\ latest' \in {ledger - 1, 0}
  /\ pc' = "rows"
  /\ UNCHANGED <<vars, rows, local>>

SimulateProbe ==
  LET call == ProbeCalls[Len(rows) + 1] IN
  /\ pc = "rows"
  /\ rows' = Append(rows, [label |-> call, ok |-> ~ProbeTraps(call),
                           answer |-> ProbeAnswer(call)])
  /\ pc' = IF Len(rows') = Len(ProbeCalls) THEN "sign" ELSE "rows"
  /\ UNCHANGED <<vars, latest, local>>

(* Faulty: the entry outlives its window by a ledger.                      *)
ProbePayloadLater(l) == Payload(Passphrase, l * 7 + 13, l + ExpiryWindow + 1, Account)

ProbePayload(l) == Payload(Passphrase, l * 7 + 13, l + ExpiryWindow, Account)

SignProtected ==
  /\ pc = "sign"
  /\ Sign(SEED, Account, ProbePayload(latest), EmptyContext)
  /\ pc' = "protected"
  /\ UNCHANGED <<latest, rows, local>>

ProbeEntry ==
  BuildAuthEntry(SCHEME, Account, SEED, ProbePayload(latest), EmptyContext).val

SimulateProtected ==
  /\ pc = "protected"
  /\ rows' = Append(rows, [label |-> "protected",
                           ok    |-> RequireAuth(Account, ProbeEntry) = "Ok",
                           key   |-> owner[Account],
                           at    |-> ledger])
  /\ pc' = "instance"
  /\ UNCHANGED <<vars, latest, local>>

(* The report, and the instance entry, which may not be readable.          *)
ReadInstance ==
  /\ pc = "instance"
  /\ pc' = "done"
  /\ UNCHANGED <<vars, latest, rows, local>>

ProbeBreaks ==
  /\ pc \in {"start", "rows", "protected", "instance"}
  /\ pc' = "panicked"
  /\ UNCHANGED <<vars, latest, rows, local>>

-----------------------------------------------------------------------------
(* main.                                                                   *)
LocalCalls == <<"noop", "ML-DSA-65", "decode_only", "tampered", "ML-DSA-44", "ed25519">>

(* Flipping a bit of a signature leaves one that verifies nothing, or does *)
(* not even decode.                                                        *)
Tampered == {Signed("ML-DSA-65", CorruptSignature), Signed("ML-DSA-65", MalformedSignature)}

MeasureLocal ==
  /\ Len(local) < Len(LocalCalls)
  /\ LET call == LocalCalls[Len(local) + 1] IN
     IF call = "tampered"
     THEN \E bad \in Tampered :
            local' = Append(local, [call |-> call, answer |->
                       ProbeVerify("ML-DSA-65", Key("ML-DSA-65"), Msg, bad)])
     ELSE /\ ~ProbeTraps(call)
          /\ local' = Append(local, [call |-> call, answer |-> ProbeAnswer(call)])
  /\ UNCHANGED <<vars, pc, latest, rows>>

(* The last column of its table.                                           *)
Verdict(measured) ==
  CASE measured.call \in Schemes -> IF measured.answer THEN "ok" ELSE "FAIL"
    [] measured.call = "tampered" -> IF measured.answer THEN "LEAK" ELSE "rejected"
    [] OTHER -> "ok"

-----------------------------------------------------------------------------
OthersInit ==
  /\ \E pubkey \in InitKeys : InvokeInit(Account, pubkey)
  /\ UNCHANGED <<pc, latest, rows, local>>

LedgerCloses ==
  /\ CloseLedger
  /\ UNCHANGED <<pc, latest, rows, local>>

ProbeNext ==
  \/ ReadState \/ SimulateProbe \/ SignProtected \/ SimulateProtected
  \/ ReadInstance \/ ProbeBreaks
  \/ MeasureLocal
  \/ OthersInit \/ LedgerCloses

ProbeSpec == ProbeInit /\ [][ProbeNext]_probeVars

-----------------------------------------------------------------------------
(* Every cost in the table of simulate is that of a call the contract      *)
(* answered true: no row measures a refusal (verify, verify44).            *)
ProbeRowsVerify ==
  \A i \in DOMAIN rows : rows[i].label # "protected" /\ rows[i].ok => rows[i].answer

(* The authorised row is a measurement exactly when the account held the   *)
(* program's key and the entry, dated from a ledger read five simulations  *)
(* earlier (or taken for ledger 0), had not expired; otherwise it is an    *)
(* error row (simulate, the row "protected").                              *)
ProtectedRowExplained ==
  \A i \in DOMAIN rows : rows[i].label = "protected" =>
    (rows[i].ok <=> /\ rows[i].key = Bytes(KeyLen, PublicKey(SEED))
                    /\ rows[i].at <= latest + ExpiryWindow)

(* main finds that good signatures pass and the tampered one does not.     *)
VerdictsAreRight ==
  \A i \in DOMAIN local : Verdict(local[i]) \notin {"FAIL", "LEAK"}

=============================================================================
