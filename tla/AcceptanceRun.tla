----------------------------- MODULE AcceptanceRun -----------------------------
(***************************************************************************)
(* The program bin/account of phase0/harness: on a local host of its own   *)
(* it initialises the prototype account, has a call authorised, and then   *)
(* sends a second entry as a negative control.                             *)
(***************************************************************************)
EXTENDS AccountHost

CONSTANTS
  SEED,        \* the seed of the account's key (42 in the code)
  Account      \* the account registered, of version "phase0"

VARIABLE step  \* what the program does next, or how it ended

runVars == <<vars, step>>

Goto(from, to) == step = from /\ step' = to

-----------------------------------------------------------------------------
(* What is signed: nonce 0xCAFE, expiration ledger 1000.                   *)
SignedPayload == Payload(Passphrase, 51966, 1000, Account)

Entry == BuildAuthEntry(SCHEME, Account, SEED, SignedPayload, EmptyContext).val

(* The control: nonce 0xBEEF, and the signature of Entry with a bit of it  *)
(* flipped.                                                                *)
ControlEntry(signature) == [Entry EXCEPT !.nonce = 48879, !.signature = signature]

TamperedSignatures == {d \in DamagedSignatures : d.len = Entry.signature.len}

RunInit == Init /\ step = "init"

EncodedKey == EncodeVerifyingKey(SCHEME, PublicKey(SEED)).val

(* invoke_contract panics when the call fails.                             *)
InitAccount ==
  /\ InvokeInit(Account, EncodedKey)
  /\ Goto("init", IF InitialiseOf(Account, EncodedKey).res = "Ok" THEN "sign" ELSE "panicked")

SignEntry == Goto("sign", "call") /\ Sign(SEED, Account, SignedPayload, EmptyContext)

(* And so it does here.                                                    *)
CallProtected ==
  \/ Goto("call", "control") /\ ProtectedSucceeds(Account, Entry)
  \/ Goto("call", "panicked") /\ ProtectedFails(Account, Entry)

(* try_invoke_contract: REJECTED, or *** SECURITY FAILURE ***.             *)
NegativeControl ==
  \E bad \in TamperedSignatures :
    \/ Goto("control", "rejected") /\ ProtectedFails(Account, ControlEntry(bad))
    \/ Goto("control", "failure") /\ ProtectedSucceeds(Account, ControlEntry(bad))

RunNext == InitAccount \/ SignEntry \/ CallProtected \/ NegativeControl

RunSpec == RunInit /\ [][RunNext]_runVars

-----------------------------------------------------------------------------
(* account.rs:79 announces "negative control: tamper the signature, auth   *)
(* must fail": what makes the control fail is the tampering, so the same   *)
(* entry with its signature left whole would pass.                         *)
ControlTestsTheSignature ==
  step = "control" => RequireAuth(Account, ControlEntry(Entry.signature)) = "Ok"

=============================================================================
