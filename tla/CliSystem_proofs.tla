-------------------------- MODULE CliSystem_proofs --------------------------
(***************************************************************************)
(* Machine-checked proofs about CliSystem, for every set of runs, every    *)
(* bound and every behaviour of RPC service and network.                   *)
(***************************************************************************)
EXTENDS CliSystem, AccountHost_proofs

(* A transaction that calls init with key bytes, or protected with an      *)
(* entry whose signature a client made.                                    *)
WellFormed(t) ==
  /\ t.account \in Accounts
  /\ \/ t.function = "init" /\ t.arg \in PubKeys
     \/ t.function = "protected" /\ t.arg \in SubmittedEntries

(* The transactions that can still be applied or sent.                     *)
Outstanding ==
  pool \cup {tx[r] : r \in {q \in Runs : pc[q] \in {"simulate", "send", "poll"}}}

(* What a run has built and what the network has queued is well formed.    *)
WellFormedInv ==
  /\ pc = [r \in Runs |-> pc[r]]
  /\ tx = [r \in Runs |-> tx[r]]
  /\ \A t \in Outstanding : WellFormed(t)

-----------------------------------------------------------------------------
(* Signatures stay in circulation.                                         *)
LEMMA EntriesPersist ==
  ASSUME requests \subseteq requests', NEW t, WellFormed(t)
  PROVE  WellFormed(t)'
  <1>1. SubmittedEntries \subseteq SubmittedEntries'
    <2>1. {r.entry.signature : r \in requests} \subseteq
            {r.entry.signature : r \in requests'}
      OBVIOUS
    <2> QED BY <2>1 DEF SubmittedEntries
  <1> QED BY <1>1 DEF WellFormed

(* No step of the host forgets a request.                                  *)
LEMMA RequestsGrow ==
  ASSUME [CliNext]_cliVars
  PROVE  requests \subseteq requests'
  BY DEF CliNext, cliVars, vars, RunStep, BuildInit, BuildAuth, Sign, Simulate,
     SimulateFails, SendAccepted, SendRejected, SendIgnored, PollFound,
     PollNotFound, PollError, RpcBreaks, Include, Apply, InvokeInit,
     ProtectedSucceeds, ProtectedFails, Drop, Close, CloseLedger, OtherInit

(* What a run builds in auth mode: a call of protected with the entry it   *)
(* has just signed.                                                        *)
LEMMA BuiltAuth ==
  ASSUME TypeOK, NEW r \in Runs, BuildAuth(r), DOMAIN tx = Runs, NEW t, t = tx'[r]
  PROVE  /\ WellFormed(t)'
         /\ \E nonce \in Nonces, expiry \in Expiries :
              Sign(SEED, Account[r], Payload(Passphrase, nonce, expiry, Account[r]),
                   RunContext(r))
  <1> USE CliSystemAssumption
  <1>0. PICK read \in AccountStates(Source[r]) :
          LET q == RunPayload(r, read.latest) IN
          /\ Sign(SEED, Account[r], q, RunContext(r))
          /\ tx' = [tx EXCEPT ![r] = Transaction(r, read.seq, "protected",
                    BuildAuthEntry(SCHEME, Account[r], SEED, q, RunContext(r)).val)]
    BY DEF BuildAuth
  <1> DEFINE latest == read.latest
             nonce  == NonceOf(r, latest)
             expiry == latest + ExpiryWindow
             p      == Payload(Passphrase, nonce, expiry, Account[r])
             entry  == BuildAuthEntry(SCHEME, Account[r], SEED, p,
                                      RunContext(r)).val
  <1>1. nonce \in Nonces /\ expiry \in Expiries
    <2>1. latest \in 0..MaxLedger
      BY AccountHostAssumption DEF TypeOK, AccountStates
    <2> HIDE DEF latest
    <2> QED BY <2>1
  <1>2. RunPayload(r, latest) = p
    BY DEF RunPayload
  <1>3. Sign(SEED, Account[r], p, RunContext(r))
    BY <1>0, <1>2
  <1>4. t.account = Account[r] /\ t.function = "protected" /\ t.arg = entry
    BY <1>0, <1>2 DEF Transaction
  <1>5. entry \in SubmittedEntries'
    <2>1. /\ entry.account = Account[r]
          /\ entry.nonce = p.nonce
          /\ entry.signature_expiration_ledger = p.signature_expiration_ledger
          /\ entry.root_invocation = p.invocation
      BY BuiltEntry
    <2>2. p.nonce \in Nonces /\ p.signature_expiration_ledger \in Expiries
          /\ p.invocation = Protected(Account[r])
      BY <1>1 DEF Payload
    <2>3. [seed |-> SEED, payload |-> p, context |-> RunContext(r),
           entry |-> entry] \in requests'
      BY <1>3 DEF Sign
    <2>4. entry.signature \in {q.entry.signature : q \in requests'}
      BY <2>3
    <2>5. entry = [account |-> entry.account, nonce |-> entry.nonce,
                   signature_expiration_ledger |-> entry.signature_expiration_ledger,
                   signature |-> entry.signature,
                   root_invocation |-> entry.root_invocation]
      BY DEF BuildAuthEntry
    <2> HIDE DEF entry, p
    <2> QED BY <2>1, <2>2, <2>4, <2>5 DEF SubmittedEntries
  <1> HIDE DEF entry, p, nonce, expiry, latest
  <1>6. WellFormed(t)'
    BY <1>4, <1>5 DEF WellFormed
  <1>7. \E n \in Nonces, x \in Expiries :
           Sign(SEED, Account[r], Payload(Passphrase, n, x, Account[r]),
                RunContext(r))
    BY <1>1, <1>3 DEF p
  <1> QED BY <1>6, <1>7

(* What is well formed before the first step: nothing has been built.      *)
LEMMA InitWellFormed == CliInit => WellFormedInv
  <1> SUFFICES ASSUME CliInit PROVE WellFormedInv
    OBVIOUS
  <1>1. pc = [r \in Runs |-> pc[r]] /\ tx = [r \in Runs |-> tx[r]]
    BY DEF CliInit
  <1>2. Outstanding = {}
    BY DEF CliInit, Outstanding
  <1> QED BY <1>1, <1>2 DEF WellFormedInv

(* Every step builds and queues well-formed transactions only.             *)
LEMMA NextWellFormed ==
  TypeOK /\ WellFormedInv /\ [CliNext]_cliVars => WellFormedInv'
  <1> SUFFICES ASSUME TypeOK, WellFormedInv, [CliNext]_cliVars
               PROVE  WellFormedInv'
    OBVIOUS
  <1> DEFINE busy == {"simulate", "send", "poll"}
  <1>1. \A t \in Outstanding : WellFormed(t)'
    BY RequestsGrow, EntriesPersist DEF WellFormedInv
  <1>2. /\ pc = [r \in Runs |-> pc[r]]
        /\ tx = [r \in Runs |-> tx[r]]
        /\ DOMAIN tx = Runs
    BY DEF WellFormedInv
  <1>3. ASSUME UNCHANGED tx, pool' \subseteq Outstanding, NEW r \in Runs,
               NEW label, Goto(r, label), label \in busy => pc[r] \in busy
        PROVE  WellFormedInv'
    <2>1. /\ pc' = [q \in Runs |-> pc'[q]]
          /\ tx' = [q \in Runs |-> tx'[q]]
      BY <1>2, <1>3 DEF Goto
    <2>2. ASSUME NEW q \in Runs, pc'[q] \in busy PROVE pc[q] \in busy
      BY <1>2, <1>3, <2>2 DEF Goto
    <2>3. Outstanding' \subseteq Outstanding
      BY <1>3, <2>2 DEF Outstanding
    <2> QED BY <1>1, <2>1, <2>3 DEF WellFormedInv
  <1>4. ASSUME UNCHANGED <<pc, tx>>, pool' \subseteq pool
        PROVE  WellFormedInv'
    <2>1. Outstanding' \subseteq Outstanding
      BY <1>4 DEF Outstanding
    <2> QED BY <1>1, <1>2, <1>4, <2>1 DEF WellFormedInv
  <1>5. ASSUME NEW r \in Runs, NEW t, tx' = [tx EXCEPT ![r] = t], WellFormed(t)',
               NEW label, Goto(r, label), UNCHANGED pool
        PROVE  WellFormedInv'
    <2>1. /\ pc' = [q \in Runs |-> pc'[q]]
          /\ tx' = [q \in Runs |-> tx'[q]]
      BY <1>2, <1>5 DEF Goto
    <2>2. ASSUME NEW q \in Runs, pc'[q] \in busy
          PROVE  tx'[q] \in Outstanding \cup {t}
      <3>1. CASE q = r
        BY <1>2, <1>5, <3>1
      <3>2. CASE q # r
        BY <1>2, <1>5, <2>2, <3>2 DEF Goto, Outstanding
      <3> QED BY <3>1, <3>2
    <2>3. Outstanding' \subseteq Outstanding \cup {t}
      BY <1>5, <2>2 DEF Outstanding
    <2> QED BY <1>1, <1>5, <2>1, <2>3 DEF WellFormedInv
  <1>6. ASSUME NEW r \in Runs, BuildInit(r) PROVE WellFormedInv'
    <2> DEFINE key == EncodeVerifyingKey(SCHEME, PublicKey(SEED)).val
    <2>1. key \in PubKeys
      BY CliSystemAssumption
    <2>2. PICK read : tx' = [tx EXCEPT ![r] = Transaction(r, read.seq, "init", key)]
      BY <1>6 DEF BuildInit
    <2> HIDE DEF key
    <2>3. PICK t : t = Transaction(r, read.seq, "init", key)
      OBVIOUS
    <2>4. t.account = Account[r] /\ t.function = "init" /\ t.arg = key
      BY <2>3 DEF Transaction
    <2>5. WellFormed(t)'
      BY <2>1, <2>4, CliSystemAssumption DEF WellFormed
    <2>6. Goto(r, "simulate") /\ UNCHANGED pool
      BY <1>6 DEF BuildInit, netVars
    <2> QED BY <1>5, <2>2, <2>3, <2>5, <2>6
  <1>7. ASSUME NEW r \in Runs, BuildAuth(r) PROVE WellFormedInv'
    <2>1. PICK t : tx' = [tx EXCEPT ![r] = t]
      BY <1>7 DEF BuildAuth
    <2>2. t = tx'[r]
      BY <1>2, <2>1
    <2>3. WellFormed(t)'
      BY <1>2, <1>7, <2>2, BuiltAuth
    <2>4. Goto(r, "simulate") /\ UNCHANGED pool
      BY <1>7 DEF BuildAuth, netVars
    <2> QED BY <1>5, <2>1, <2>3, <2>4
  <1>8. ASSUME NEW r \in Runs, SendAccepted(r) PROVE WellFormedInv'
    <2>1. pool' \subseteq Outstanding
      BY <1>8 DEF SendAccepted, Outstanding
    <2> QED BY <1>3, <1>8, <2>1 DEF SendAccepted
  <1>9. ASSUME NEW r \in Runs,
               \/ SimulateFails(r)
               \/ SendRejected(r) \/ SendIgnored(r)
               \/ PollFound(r) \/ PollNotFound(r) \/ PollError(r)
               \/ RpcBreaks(r)
        PROVE  WellFormedInv'
    <2>1. UNCHANGED tx /\ pool' \subseteq Outstanding
      BY <1>9 DEF SimulateFails, SendRejected, SendIgnored, PollFound,
         PollNotFound, PollError, RpcBreaks, netVars, Outstanding
    <2>2. \E label : Goto(r, label) /\ (label \in busy => pc[r] \in busy)
      BY <1>9 DEF SimulateFails, SendRejected, SendIgnored, PollFound,
         PollNotFound, PollError, RpcBreaks
    <2> QED BY <1>3, <2>1, <2>2
  <1>13. ASSUME NEW r \in Runs, Simulate(r) PROVE WellFormedInv'
    <2>1. PICK t : /\ tx' = [tx EXCEPT ![r] = t]
                   /\ t.account = tx[r].account
                   /\ t.function = tx[r].function
                   /\ t.arg = tx[r].arg
      <3>1. PICK fee, n :
               tx' = [tx EXCEPT ![r] = [@ EXCEPT !.fee = fee, !.resources = n]]
        BY <1>13 DEF Simulate, AttachResources
      <3> DEFINE t == [tx[r] EXCEPT !.fee = fee, !.resources = n]
      <3>2. tx' = [tx EXCEPT ![r] = t]
        BY <1>2, <3>1
      <3>3. t.account = tx[r].account /\ t.function = tx[r].function
            /\ t.arg = tx[r].arg
        OBVIOUS
      <3> QED BY <3>2, <3>3
    <2>2. PICK built : built = tx[r]
      OBVIOUS
    <2>3. built \in Outstanding
      BY <1>13, <2>2 DEF Simulate, Outstanding
    <2>4. WellFormed(t)'
      BY <1>1, <2>1, <2>2, <2>3 DEF WellFormed
    <2>5. Goto(r, "send") /\ UNCHANGED pool
      BY <1>13 DEF Simulate, netVars
    <2> QED BY <1>5, <2>1, <2>4, <2>5
  <1>10. ASSUME NEW t \in pool, Include(t) \/ Drop(t) PROVE WellFormedInv'
    BY <1>4, <1>10 DEF Include, Drop, runVars
  <1>11. ASSUME Close \/ \E a \in Accounts, pubkey \in PubKeys : OtherInit(a, pubkey)
         PROVE  WellFormedInv'
    BY <1>4, <1>11 DEF Close, OtherInit, runVars, netVars
  <1>12. CASE UNCHANGED cliVars
    BY <1>4, <1>12 DEF cliVars, runVars, netVars
  <1> QED BY <1>6, <1>7, <1>8, <1>9, <1>10, <1>11, <1>12, <1>13 DEF CliNext, RunStep

(* Every step is a step of AccountHost or leaves its variables alone.      *)
LEMMA StepRefines ==
  TypeOK /\ WellFormedInv /\ [CliNext]_cliVars => [Next]_vars
  <1> SUFFICES ASSUME TypeOK, WellFormedInv, [CliNext]_cliVars, ~UNCHANGED vars
               PROVE  Next
    OBVIOUS
  <1>1. ASSUME NEW r \in Runs, BuildAuth(r) PROVE Next
    <2>1. DOMAIN tx = Runs
      BY DEF WellFormedInv
    <2> QED BY <1>1, <2>1, BuiltAuth, CliSystemAssumption DEF Next
  <1>2. ASSUME NEW r \in Runs, RunStep(r), ~BuildAuth(r) PROVE UNCHANGED vars
    BY <1>2 DEF RunStep, BuildInit, Simulate, SimulateFails, SendAccepted,
       SendRejected, SendIgnored, PollFound, PollNotFound, PollError, RpcBreaks
  <1>3. ASSUME NEW t \in pool, Include(t) PROVE Next
    <2>1. WellFormed(t)
      BY DEF WellFormedInv, Outstanding
    <2> QED BY <1>3, <2>1 DEF Include, Apply, WellFormed, Next
  <1>4. ASSUME NEW t \in pool, Drop(t) PROVE UNCHANGED vars
    BY <1>4 DEF Drop
  <1>5. ASSUME NEW a \in Accounts, NEW pubkey \in PubKeys, OtherInit(a, pubkey)
        PROVE  Next
    BY <1>5 DEF OtherInit, Next
  <1>6. CASE Close
    BY <1>6 DEF Close, Next
  <1> QED BY <1>1, <1>2, <1>3, <1>4, <1>5, <1>6 DEF CliNext, cliVars

(* Whatever runs, RPC service and network do, the ledger sees a behaviour  *)
(* of AccountHost (authorize, simulate, submit).                           *)
THEOREM CliImplementsHost == CliSpec => ImplementsHost
  <1>1. CliInit => Init
    BY DEF CliInit
  <1>2. CliSpec => [](TypeOK /\ WellFormedInv)
    <2>1. CliInit => TypeOK /\ WellFormedInv
      BY <1>1, InitTypeOK, InitWellFormed
    <2>2. TypeOK /\ WellFormedInv /\ [CliNext]_cliVars => (TypeOK /\ WellFormedInv)'
      BY StepRefines, NextTypeOK, NextWellFormed
    <2> QED BY <2>1, <2>2, PTL DEF CliSpec
  <1> QED BY <1>1, <1>2, StepRefines, PTL DEF CliSpec, Spec, ImplementsHost

(* In particular, with any number of concurrent runs no signature is       *)
(* executed twice and nothing is executed that was not signed for.         *)
THEOREM CliIsSafe == CliSpec => [](NoReplay /\ Consent)
  <1> QED BY CliImplementsHost, NoReplayHolds, ConsentHolds, PTL DEF ImplementsHost

=============================================================================
