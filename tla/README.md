# A TLA+ development of soroban-ml-dsa

soroban-ml-dsa puts ML-DSA (FIPS 204) signatures behind Soroban contract
accounts on Stellar: a trait layer over the `ml-dsa` crate, an adapter that
builds Stellar authorisation entries, account contracts that verify them on
chain, and command line programs that drive all this over RPC. This directory
models the parts of it that keep state or interact, checks them with TLC on
small instances and proves the central ones with TLAPS for all instances.

Contents: [inventory](#inventory), [modules](#modules-and-how-they-correspond-to-the-code),
[runs](#runs-bounds-and-what-they-show), [fairness](#fairness),
[proofs](#proofs), [divergences](#divergences-found),
[what is abstracted](#what-is-abstracted-and-what-is-external),
[what is not modelled](#what-is-not-modelled), [plan](#plan), [running](#running-it).

## Inventory

| Component | State it keeps | Operations | Interacts with |
|---|---|---|---|
| `crates/pq-core` | none of its own; its callers hold key objects and reuse byte buffers | `from_seed`, `from_bytes`, `write_to`, `verifying_key`, `verify`, `sign_into` | `ml-dsa` (external); linked by pq-stellar and by both contracts |
| `crates/pq-stellar` | none | `network_id`, `signature_payload`, `sign_authorization`, `build_auth_entry`, `encode_verifying_key`, `verify_authorization` | pq-core; its payload has to equal the one the host computes |
| `contracts/pq-account` | the instance storage slot `DataKey::PubKey` | `init`, `protected`, `__check_auth` | the host calls `__check_auth` out of `require_auth`; pq-core verifies |
| `phase0/account` | the same slot | the same entry points, written against `ml-dsa` directly, without a context | the host; its own harness |
| Soroban host, ledger (external) | ledger number, nonce entries in temporary storage | `require_auth`, roll back of failing calls, ledger close | contracts |
| `crates/pq-cli` `lib.rs`, `authorize`; `phase0/harness` `bin/submit` | of a run: the transaction it built, its fee and resources, how often it polled | `account_state`, build, `simulate`, `submit` (send, poll) | RPC service, pq-stellar |
| RPC service, transaction queue (external) | sequence numbers, pending and applied transactions | accept, include, drop, apply | runs, ledger |
| `contracts/pq-verifier` | none | `noop`, `verify44/65`, `decode44/65`, `ed25519`, `secp256r1` | called by bench through simulation |
| `crates/pq-cli` `bench` | rows of measured costs | measure, throughput arithmetic, sweep | RPC service, pq-verifier |
| `phase0/contract` | none | `verify`, `verify44`, `decode_only`, `ed25519`, `noop` | called by the harness |
| `phase0/harness` `main`, `bin/simulate` | rows of measured costs, some of them errors | measure locally and judge; simulate and record | local host; RPC service, the prototype account |
| `phase0/harness` `bin/account` | an account on a local host | `init`, sign, call, negative control | local host |
| `phase0/harness` `bin/vectors` | none | writes the vectors of `main` to files | |
| `demo.sh` | a key in the CLI's key store, a throwaway account, two deployed contracts | check, generate, fund, deploy, init, auth, bench; an EXIT trap | `authorize`, `bench`, friendbot |

What is hard about it, and the properties that answer it:

* **One key, several accounts, several networks, nonces that are forgotten.**
  An entry is public once submitted and can be sent again, to another account,
  with another nonce or expiry, after its nonce entry has left temporary
  storage. `NoReplay` and `Consent` say that an executed call was signed for,
  for exactly this network, account, nonce and expiry, and that no signature
  counts twice. This hangs together from five pieces in four places: what
  `signature_payload` binds, what the host recomputes, the context contract
  and client each hold a copy of, how long nonces are kept, and what
  `__check_auth` checks.
* **The key can change at any time.** `init` replaces it, between signing and
  simulation, or between simulation and application. `Consent` is stated for
  the key at the moment of execution, and the refinement of `OneTimeGrants`
  repeats it as a step-by-step guard.
* **Client and contract are written separately.** An honest entry must be
  accepted (`HonestAuthorizationSucceeds`), an accepted key must work
  (`InstalledKeyWorks`), the off-chain check must predict the on-chain one
  (`OffchainCheckAgrees`).
* **Concurrent runs over an unreliable service.** Runs read, simulate, send and
  poll one RPC at a time. Two of them can build the same transaction, or sign
  the same nonce; a reply can be lost after the transaction was queued; a
  transaction can be dropped, or applied after its run has given up.
  `SuccessIsAnExecution`, `FailureExplained`, `RejectionExplained` and
  `RunsEnd` say what a user may still rely on, and `RunsAdvance` that nobody else can
  put off the end of a run. A run that gave up may have left a transaction pending,
  and the next one reads the account from a reply that may be out of date:
  `AppliedBeforeRead` says that the retry does not pass the earlier transaction.
  Programs of two kinds derive nonces from the same ledgers;
  `CollisionsAreDuplicates` says that equal nonces mean equal grants, and `WrongProgramStopsEarly` that a program pointed at the other kind of
  account sends nothing.
* **A fee that is quoted, defaulted and cast.** A missing quote becomes zero and
  an `i64` is cast to `u32`. `FairFees` says that whatever reaches the ledger
  pays for its resources, and no more than 1000 stroops above.
* **Buffers that are used again.** Every encoder writes to the front of a
  caller's buffer and returns a length. `ReadsBack` and `CarefulCallersAreSafe`
  say what a caller that minds the length may rely on; `SignaturesWereSigned`
  and the refinement `ImplementsOracle` hold for one that does not.
* **Measurements nobody looks at.** bench records what a simulation costs, and
  not what the contract answered: the cost of a refused call would enter the
  tables unnoticed. `AcceptedCallsOnly` says that none does, up to a message that
  just fits the contract's buffer, `CountsAreOptimal` that the headline throughput
  is the best a schedule can do, and `FlatSweepIsLinear` that slopes which bench
  calls flat do bound the cost by a line, although two simulations of one call
  need not cost the same (`BENCHMARK.md:33` and `:87`).
  `ProbeRowsVerify`, `ProtectedRowExplained` and `VerdictsAreRight` say the like
  of the prototype's tables, one of which keeps failures as rows.
* **A script that must not stop half way in silence.** `demo.sh` generates a key,
  spends it, and prints a summary of what it believes has happened, while others
  use the network. `SummaryIsTrue`, `KeyIsThrownAway`, `ScriptAdvances` and
  `DemoEnds` cover it. `SecondRunExplained` says what waiting for its first run of
  `authorize` spares the second one, and what it does not: a reply that lags
  behind the first run's result still has the second one refused.

The complete list of hazards, each at its line, with the properties that cover
it or the reason why none does yet, is in `PROJECT.json`.

## Modules, and how they correspond to the code

```
                SignatureOracle
                       ^ refines (INSTANCE ... WITH)
PqCore <---------- PqSessions <-- PqSessions_proofs, MCPqSessions

PqCore <---- PqStellar <--.                       OneTimeGrants
   ^                       \                            ^ refines (INSTANCE ... WITH)
   +------- PqAccount <----- AccountHost ---------------'
   +--- Phase0Account <-----'  ^  ^  ^
                               |  |  '-- AccountHost_proofs <-.
                               |  |                            \
                               |  '--- CliSystem <--------- CliSystem_proofs
                               |           ^                   ^
                               |           |                   '-- CliOutcomes_proofs
                               |           |                                   ^
                               |           '-- DemoRun <------ DemoRun_proofs --'
                               |                  '--> BenchRun (INSTANCE)
                               |
PqCore <-- PqProbe <-------- ProbeRun <-- ProbeRun_proofs

AccountHost <--------------- AcceptanceRun <-- AcceptanceRun_proofs
                                                   '--> AccountHost_proofs

PqCore <-- PqVerifier <-- BenchRun --> LedgerPacking
                             ^
                             '-- BenchRun_proofs

MCAccountHost, MCCliSystem, MCDemoRun, MCProbeRun, MCAcceptanceRun, MCBenchRun
each extend the module they are named after.
```

* **PqCore** (`crates/pq-core`). Pure operators. A byte string is a record of
  its length, on which all the code branches, and a body. `CheckContext`,
  `CheckLen`, `CheckRoom` are the shared preconditions and `e1 ?? e2` is the
  early return of `?`, so that `Verify` and `SignInto` check in the order of
  the code. Errors are the names of `PqError`. `FromSeed`, `WriteSigningKey` and
  `SigningKeyFromBytes` are the signing side.
* **PqSessions** (`traits.rs`, `mldsa.rs`). A caller of that layer, with a
  signing key and a verifying key in hand and two buffers, making any calls in
  any order. A buffer is the write that last covered each prefix whose length
  can matter, so that a slice is either the bytes of one write or a mixture.
  One action per trait method; `DecodeSk` may panic on bytes nobody encoded, as
  `from_expanded` may. `careful` records whether the caller has always sliced
  what it was told was written.
* **SignatureOracle** is what a caller of a signature scheme is promised: a
  claim is accepted only after it was signed. `PqSessions!O` maps the claims that
  `sign_into` has signed and the last answer of `verify` to it.
* **PqStellar** (`crates/pq-stellar`). `SignaturePayload`, `BuildAuthEntry`,
  `VerifyAuthorization` and so on, one operator per public function.
* **PqAccount**, **Phase0Account** (`contracts/pq-account`, `phase0/account`).
  `init` and `__check_auth` as functions from slot and arguments to answer and
  slot. They differ where the contracts do: the context, trial decoding at
  `init`, and the error for a signature that does not decode.
* **AccountHost** composes them on a ledger. Variables: `ledger`, `stored` (the
  slots), `nonces` (host storage), `requests` and `execs` (histories of what
  clients signed and of what was executed), `owner` (history: key of the last
  successful `init`) and `reply`. One action per operation: `Sign`
  (`build_auth_entry` by any client for any account, nonce, expiry, network and
  context), `InvokeInit`, `ProtectedSucceeds` and `ProtectedFails` (`protected`
  with an entry; `require_auth`, and through it `__check_auth`, decides), and
  `CloseLedger`. Entries that reach the ledger (`SubmittedEntries`) combine any
  field with any signature in circulation, or with damaged ones.
* **OneTimeGrants** is the abstract specification: a grant names its signer,
  account, nonce and expiry; each is used at most once, in time, and only while
  the signer's key guards the account. No payload, signature or nonce store
  occurs in it. `AccountHost!G` instantiates it with a refinement mapping that
  reads grants off the requests made for this network and the right context,
  and uses off the executions.
* **CliSystem** puts runs of `authorize` and of the harness's `submit` in front
  of `AccountHost`. They are one program but for nonce, context, number of
  polls, and what they do without a quoted fee (`Program`). A run's
  program counter goes from `start` (`account_state` and building, `BuildInit`
  or `BuildAuth`) through `simulate` and `send` to `poll`, and ends in one of
  `success`, `not_success` (the final assertion), `rejected` (panic on
  `errorResultXdr`), `timed_out` (panic after the last poll) or `broken` (curl,
  JSON, or a missing field). `account_state` and building are one step because
  nothing is read between them; each further RPC is a step of its own. A reply to
  `account_state` (`AccountStates`) is the sequence number and the number of one
  closed ledger, not always the last (`ReadLag`); a poll may miss a result that is
  as young (`Overlooked`). The
  network's actions are `Include` (apply a pending transaction to the current
  state, whole or not at all), `Drop`, `Close` and `OtherInit` (another client
  replaces the key). `Apply` uses the very actions of `AccountHost`. A
  simulation quotes a fee, or none; `TxFee` is the default, the addition and the
  cast. That a fee must reach what the resources cost, plus the base fee, is the
  network's rule (`Affordable`).
* **PqVerifier** (`contracts/pq-verifier`). What the stateless entry points
  answer: `VerifyAnswer` is `verify44` or `verify65`, `DecodeAnswer` the two
  decoders. `Fits` holds the three lengths that are compared with the buffers.
  `ClassicTraps` says when the host functions behind `ed25519` and `secp256r1`
  trap, the latter over the digest the contract makes.
* **LedgerPacking**. The headline arithmetic of bench, `Sequential` and
  `PerLedger`, and next to it a definition of what it is meant to compute:
  `Admits` says that some assignment of so many calls to clusters respects the
  limits.
* **BenchRun** (`bench.rs`). A run of bench: `Start` (`account_state`),
  `MeasureRow` for each of the seven rows, `MeasurePoint` for each length of the
  sweep, `Panic` for whatever fails on the way. `rows` and `points` are the
  program's own tables, with the contract's answer beside each measurement as
  history. What a simulation costs is chosen anew at each measurement from what
  the network may charge for the function (`Costs`). `Net` and `Point` derive the
  printed numbers, and `Remember` is what the loop keeps for the next slope.
* **PqProbe** and **ProbeRun** (`phase0/contract`, `main.rs` and
  `bin/simulate.rs` of the harness). `simulate` reads a ledger, simulates four
  calls, signs an entry dated from that ledger and simulates it: five RPCs
  between which the ledger may close and the key may change. `main` is the
  action `MeasureLocal`.
* **AcceptanceRun** (`bin/account.rs`). A local run, in its order.
* **DemoRun** (`demo.sh`). The script's variable `phase` moves through its steps;
  the two runs of `authorize` take steps of `CliSystem`, bench those of
  `BenchRun`, and the network and other clients act once the contracts are deployed.
  `AskFriendbot` (`curl`) and `SetTrap` (the pause and the trap) are steps of their
  own, and `CommandFails` ends the script at any command before step 5, with or
  without the command's effect: an account may be funded although `curl` timed out,
  and the script may be interrupted before its trap is set. `Fail` is `set -e`, `Leave` the EXIT
  trap, and `Passes` what `pipefail` lets through.
* **AccountHost_proofs**, **CliSystem_proofs**, **CliOutcomes_proofs**,
  **BenchRun_proofs**, **PqSessions_proofs**, **ProbeRun_proofs**, **DemoRun_proofs**
  and **AcceptanceRun_proofs** hold the theorems.

Operators introduced by a comment "Faulty:" are variants with a plausible
mistake (a check dropped, a field forgotten, a counter not advanced). No
specification uses them; `PROJECT.json` pairs each with the property that
fails once it replaces the real definition, which shows that the property does
say something about the code.

## Runs, bounds, and what they show

| Run | Checks | Bounds | States | Shows |
|---|---|---|---|---|
| `account_versions` | `InductiveInv`, `TypeOK`, `NoReplay`, `Consent`, `InstalledKeyWorks`, `HonestAuthorizationSucceeds`, `OffchainCheckAgrees`, `OneTimeGrantsSpec` | one pq-account and one phase0 account under one key, both contexts, two networks, 1 nonce, 2 expiries, 2 ledgers, 2 requests, 2 executions | 35 190 | separation between accounts, contexts and networks; agreement of client and contract; keys of wrong length and of nobody |
| `account_replay` | `NoReplay`, `Consent`, `HonestAuthorizationSucceeds`, `OneTimeGrantsSpec` | one pq-account, two key holders, 2 nonces (symmetric), 3 expiries, 3 ledgers, temporary entries live at least 2 ledgers | 11 583 | key replacement between signing and submission; nonces that are dropped and used again |
| `cli_race` | `SuccessIsAnExecution`, `FailureExplained`, `ImplementsHost` | three auth runs, two of one source, 2 ledgers, 1 poll, replies up to a ledger late | 232 578 | races on sequence number, nonce and key; what success and failure of a run mean |
| `cli_init` | `CliTypeOK`, `FairFees`, `RejectionExplained`, `AppliedBeforeRead`, `RunsEnd`, `RunsAdvance` | an init run and an auth run of one source, 3 ledgers, 2 polls, a fee field of 4096 values, four quotes, replies up to a ledger late | 423 848 | every run ends whatever network and service do; refusals and fees have their reasons; no run passes its source's pending transaction |
| `cli_programs` | `CollisionsAreDuplicates`, `FailureExplained`, `WrongProgramStopsEarly` | an authorize run and two submit runs on a prototype account, 2 ledgers | 26 294 | programs of two kinds and their nonces; that the one with the wrong context gets nowhere |
| `pq_sessions` | `SignaturesWereSigned`, `ReadsBack`, `CarefulCallersAreSafe`, `ImplementsOracle` | 6 calls, two seeds, buffers of 4032 and 2420 bytes, contexts of 0, 255 and 256 bytes, seeds of 31 and 32 | 162 162 | what callers may rely on, whatever they do with their buffers |
| `probe` | `ProbeRowsVerify`, `ProtectedRowExplained`, `VerdictsAreRight` | the code's calls, 3 ledgers, two keys and one of a wrong length | 5 838 | the prototype's tables say what was measured |
| `demo` | `SummaryIsTrue`, `KeyIsThrownAway`, `SecondRunExplained`, `DemoEnds`, `ScriptAdvances` | 4 ledgers, 2 executions, 2 polls, a sweep of two lengths, replies up to a ledger late | 49 292 | the script ends; its summary is true; where its key stays behind; what its second run can still fail for |
| `bench` | `AcceptedCallsOnly`, `FlatSweepIsLinear`, `CountsAreOptimal` | the code's seven rows and five lengths, up to three costs for each measurement, nine slopes to compare with, a ledger of 2000 instructions and 6 transactions | 35 015 | the tables of bench measure accepted calls; its throughput is optimal and its sweep means what bench says of it |
| `cli_nonce` | `NonceUniquePerAccount` (violated) | two auth runs | | divergence 1 below |
| `cli_poll` | `SubmitPollsToCompletion` (violated) | an init run and an auth run | | divergence 2 below |
| `acceptance` | `ControlTestsTheSignature` (violated) | the code's nonces | | divergence 3 below |

Why these bounds are enough to be interesting. Replay needs two executions of
one signature, and confusion between accounts or contexts needs two accounts or
two contexts: hence two executions and the two versions side by side. Reuse of
a nonce needs a ledger in which it is used, one in which its entry is dropped
and one in which it is used again: three ledgers, with a minimum lifetime of
two so that both branches of the lifetime rule occur. A key that leaves and
comes back needs two seeds. In the races, the third run is there so that one
pair of runs shares its source, and may build one and the same transaction,
while another pair shares only account and nonce; one poll is enough since the
answers to each poll are independent. Two polls in `cli_init` tell a loop that
counts from one that does not. Its fee field has 4096 values for the code's 2^32, and
among its quotes are one that wraps and two that are missing, for more and for
less than the fee then set. Six calls suffice in `pq_sessions` to derive a key,
write two encodings over each other, and decode and use the mixture. In `demo`
four ledgers let each of the two runs span a close and the key be replaced
before, between and after them. The state graphs are finite because of
`MaxLedger`, `MaxRequests`, `MaxExecs` and `MaxPolls` only; the first three
occur as guards of the actions they bound, the last is the code's own 40.
`ExpiryWindow` is 1 for the code's 1000, so that expiry happens within the
explored ledgers; it is 2 in `cli_init` and `demo`, where an entry dated from a
reply one ledger late (`ReadLag` is 1) must still live long enough to be sent and
refused or applied. With three ledgers in `cli_init` the earlier transaction can be
applied in one ledger, missed by a read in the next, and be passed or not in the third.

For bench the lengths are the code's own, and only the amounts are small. The
no-op costs 450 or 660, and a verification 600, 1000 or 2001, at each measurement
anew, so the net cost rises and falls along the sweep and is cut off at zero where a
call came out below the baseline; slopes from -4 to 4 instructions per byte
include some that all points obey and some that they do not. On a ledger of 2000
instructions a call fits not at all, once, twice (each per cluster), up to six
by the cap, and pooling the clusters' budgets would often admit one more.

Deadlock checking is off in `bench`, `demo` and `acceptance`, where the programs
end, and in `pq_sessions`, which ends with its last call. In the others `init`
can always be called.

The RPC service may answer from a ledger that is no longer the last, even after it
has shown another client, or the same one, a later result. The model lets both
reads that go by closed ledgers lag by up to `ReadLag` of them: `account_state`, and the poll
for a result. A simulation and a submission are answered from the current state. A simulation that
refuses out of an older state ends its run like any reply that cannot be used
(`RpcBreaks`). One that passes out of an older state is in the model as a simulation
ordered before the change, except where the run has read its account between the two.

## Fairness

`Spec` of AccountHost states none: nothing has to be called, signed or
submitted. `CliSpec` states weak fairness of every run's `RunStep`. A run is a
sequential program whose every wait is bounded: curl is given 90 seconds
(`lib.rs:18`) and the sleep between polls is two, so a run that can take a step
takes one eventually. Nothing is assumed of network or service: ledgers need
not close, and transactions need not be included. `RunsEnd` holds because of
the poll counter alone.

`DemoSpec` states weak fairness of the script's own steps, for the same reason:
it waits for one command at a time and each of them ends (the runs of `authorize`
by `RunsEnd`, bench because it makes finitely many bounded RPCs). `DemoEnds`
again assumes nothing of the network. The other specifications state no fairness.

## Proofs

Everything is proved from `AccountHostAssumption`, `CliSystemAssumption`,
`ProbeRunAssumption`, `BenchRunAssumption` and `DemoRunAssumption`, which only fix
the types of the constants: arbitrarily many accounts, seeds, nonces, networks,
contexts, runs, and any bounds. For bench they
say that a simulation costs at least one instruction, and that the lengths of
the sweep ascend and fit the contract's buffer, but nothing of how costs relate to
each other or to lengths; and for the script that it makes
two runs of `authorize`, one of each mode, and sweeps at least one length. (It
also says that `None`, which stands for no transaction or no point, is neither.) The theorems
about `bin/account` have as hypothesis `SetUp`: the account is a registered
prototype, and the host admits its key. The theorems about sessions need no
assumption.

* `TypeCorrect`: `TypeOK` is inductive. Not by typing alone: that a slot holds
  a string of the right length rests on the check of `init`, of either version.
* `InductiveInvHolds`. Neither `NoReplay` nor `Consent` is inductive: from an
  unreachable state with an executed entry whose nonce is free, the next step
  executes it again. `InductiveInv` adds
  `StoredIsOwner` (the slot is the last accepted key), `RequestsAreSigned` (a
  request's entry is what `build_auth_entry` makes of its payload),
  `ExecsAreAuthorised` (an executed entry carried a signature in circulation
  which verifies under the key of the moment over the payload the host rebuilt
  from it), `NoncesAreHeld` (until an executed entry has expired, its nonce is
  held) and `ExecsDiffer` (two executions differ in account, nonce or expiry).
  The step that matters is an execution. Were its account, nonce and expiry
  those of an earlier one, then, the entry being unexpired, `NoncesAreHeld`
  gives a live nonce entry, and `require_auth` would have refused; so
  `ExecsDiffer` is kept. Closing a ledger drops nonces of expired entries only,
  by their lifetime, which keeps `NoncesAreHeld`.
* `NoReplayHolds`: equal signatures that verify were made over equal payloads,
  hence agree on account, nonce and expiry, against `ExecsDiffer`.
* `ConsentHolds`: the executed signature is some request's; that request's
  signature binds its key, context and payload, which are then those of the
  execution.
* `HonestAuthorizationHolds`, `OffchainCheckHolds`, `InstalledKeyWorksHolds`:
  client and contract agree, from the invariant and from lemmas on the
  contracts' operators.
* `ImplementsOneTimeGrants`: `AccountHost` refines `OneTimeGrants`; initial
  states map to initial states, and each action to the abstract one named in
  its lemma, or to a stutter.
* `CliImplementsHost`: `CliSystem` refines `AccountHost`. Its invariant
  `WellFormedInv` says that whatever a run holds or the network has queued is a
  call that some client of `AccountHost` may make. `CliIsSafe` draws the
  conclusion that `NoReplay` and `Consent` hold however many runs race.
* `CliTypeCorrect`, with the invariant `CliBase`, on which the next five rest: a
  run that has built a transaction holds one of its own account, source and
  mode, and, if it is an auth run, one whose entry is what it signs from some
  ledger it may have read (`OwnTransactions`). `BaseHolds` joins it with
  `InductiveInv`, which `CliSystem` inherits through `CliImplementsHost`.
* `CollisionsAreDuplicatesHolds`: an entry is a function of program, account and
  ledger read, and by `NoncesTell` the nonce gives program and ledger away.
* `FairFeesHolds`: a remainder is no larger than the number, so a cast that wraps
  only lowers the fee, and what is too low is never queued. The invariant
  `FeesInv` adds that no run about to send offers more than the bound.
* `AppliedBeforeReadHolds`, with `NetworkInv`. `QueueInv`: what is queued carries the
  next sequence number of its source, and no transaction has two results.
  `SentInv`: what is queued or applied was sent by a run that still holds it.
  `ReadsInv`: results lie in the past (`ResultsPast`), sequence numbers of a
  source's results follow one another (`InTurn`), and what a run holds is numbered
  as the ledger it read had it (`Reads`): every result of its source with a lower
  number lies in that ledger. The last stays true as results are added, since they
  carry higher numbers (`ReadsStay`).
* `RejectionExplainedHolds`: a source's sequence number only rises by a result
  that carries it (`SequencesTaken`), and by `Reads` such a result is later than the
  ledger the refused run had read.
* `SuccessIsAnExecutionHolds`: a result that reports success has an execution of
  its entry (`SuccessesExecuted`). A second transaction with that entry would be
  a second execution of it, against `NoReplay` (`SuccessesDiffer`).
* `FailureExplainedHolds`: `require_auth` refuses for one of four reasons
  (`Refusal`). The account is the run's own by `CliBase`; a live nonce has been
  executed (`NoncesExecuted`); and the key of the simulation accepts the entry
  (`SimulatedAccepts`), so that a refusal by `__check_auth` means another key.
* `RunsAdvanceHolds`: the RPCs a run may still make (`StepsLeft`, at most
  `MaxPolls` and three more) fall with each of its own steps (`OwnStepAdvances`) and
  no other action touches them (`OthersKeep`). With the fairness above this is why
  `RunsEnd` holds. It needs `CliBase` for the number of polls made so far.
* `WrongProgramStopsEarlyHolds`: a simulation that passes has called `__check_auth`,
  and `SimulatedContext` reads off the signature accepted there that the program's
  context is the contract's.
* `PerLedgerIsOptimal`: for every budget, cap and cost of a call, and every n, n
  calls are admitted exactly when n is at most the count bench prints. Upwards
  by construction: the first calls fill one cluster, the others the second
  (`HalfEach`). Downwards, the members of the two clusters add up to n, and
  neither holds more than the quotient (`TwoClusters`, `Quotient`).
* `CountsOptimal`: `CountsAreOptimal` holds of every run of bench, with the
  invariant `RowsMeasured`, which says that a row's cost is positive, so that
  the guard against division by zero never distorts a count.
* `AcceptedCallsOnlyHolds` and `FlatSweepIsLinearHolds`, for any costs, with the
  invariant `TablesInv`: the rows are the calls of the table in order (so the first
  is the baseline), and `prev` is the last point of the sweep, net of that baseline
  (`SweepSoFar`). Client and contract have to agree (`VerifyCallsPass`,
  `DecodeCallsPass`, `ClassicCallsPass`). That the rises printed add up to the rise of
  the whole sweep is `OneMoreSlope`, one point after the other.
* `SignaturesWereSignedHolds` and `SessionsImplementOracle`: for any buffers,
  seeds, messages and number of calls. The invariant `SessionInv` says that data
  in circulation is genuine: whatever lies in a buffer or in a key in hand, if it
  is a secret key, was derived from a seed, and if it is a signature, was made
  for a claim already signed. Slices keep this because a slice is one write or a
  mixture that is neither (`SlicesAreGenuine`); the step that matters is `Sign`,
  which adds claim and signature together. `verify` accepts only the signature
  of its own arguments (`VerifyAccepts`), hence only a signed claim.
* `CarefulCallersHold` and `ReadsBackHolds`, with `CareInv`: while a caller has been
  careful its keys were derived from seeds, and each of its buffers begins with
  one encoding, of the length that was returned. A slice of that length is this
  encoding (`SlicedFront`), and its length tells a verifying key from a secret key
  and a signature, whatever the parameter set (`EncodedByLength`), so that
  `from_bytes` accepts it for what it is only.
* `ProbeRowsVerifyHolds`, `ProtectedRowExplainedHolds` and `VerdictsAreRightHolds`. The
  harness and everybody else are clients of `AccountHost` (`ProbeStepRefines`),
  so that `InductiveInv` holds here too; since nothing is executed no nonce is
  ever taken, and `ProbeEntryVerdict` reduces the host's verdict on the program's
  entry to the key and the expiry.
* `AcceptancePassesHolds` and `ControlFailsForItsNonceHolds`, with `AcceptInv`, the
  state of the host at each step of the program: on every host set up for it
  `bin/account` passes, and at its control the entry with the signature left whole
  would be refused too. So divergence 3 is no accident of the run that shows it.
* `KeyIsThrownAwayHolds`, with `KeyInv`: until the first run of `authorize` no run has
  left its start, and until the trap is set nothing is deployed; so whoever
  leaves before the trap is set leaves with neither, and whoever leaves after it
  leaves no key (`LeavingForgets`).
* `SummaryIsTrueHolds`. Every step of the demo is one of `CliSystem` or none
  (`DemoSteps`), so the invariants above hold of it (`CliState`). `SummaryInv` adds
  that nobody but the second run ever signs, and only once the first has ended
  (`OneSigner`); hence, by `ExecsAreAuthorised`, nothing is executed before the
  first run has seen its result, which therefore precedes every execution
  (`InstalledFirst`). At the summary the second run's entry has been executed
  (`SuccessesExecuted`), and by `Consent` under the key of its signer.
* `ScriptAdvancesHolds`. What is left of the script is a sum: of its phases, of the
  steps of its two runs, and of bench's calls and points. Each is a natural number
  (`LeftTyped`), and a step of the script lowers one of them and raises none
  (`LeftLowered`): `BenchAdvances` for bench, `PhaseAdvances` for the script's own
  commands, and `RunsAdvance` for the runs. That bench's tables never outgrow its
  list of calls is the invariant `BenchShape`.
* `SecondRunExplainedHolds`, with `SecondInv`, which adds seven parts to `SummaryInv`,
  among them `QueueInv`, `SentInv` and `SequencesTaken` from above.
  `SecondWaits`: the second run stays at its start until the script has passed the
  first, which then has its result (`InstalledFirst`); so nothing is queued
  while the second prepares its own (`NothingQueued`), and the first run's result is
  the only one there is (`OneResult`). `SecondReads`: what the second run is told of
  its source is then the current number, or it lags behind that result. `SecondInTurn`:
  hence its number is the next one when it sends, or it was told too little
  (`Lagged`). `OneCall`: whatever has been executed was the second run's call, and then
  its result says so. `FailureInv`: as for `FailureExplained`. A failure for the nonce
  would thus need a second result for one transaction.
* `DemoIsSafe`: the demo refines `AccountHost` through `CliSystem`, so `NoReplay` and
  `Consent` hold of it as well.

Model-checked only: `RunsEnd` and `DemoEnds`, since liveness is out of the prover's
reach. The measures behind them are proved, in `RunsAdvance` and `ScriptAdvances`:
every fair step lowers a natural number that nothing raises. That a fair step is
possible until the end (ENABLED) is what TLC adds. No module declares a RECURSIVE operator.

## Divergences found

1. `authorize.rs:56` derives the nonce from the latest ledger alone, so two runs
   within a ledger sign the same nonce for one account, where `payload.rs:13`
   has it "unique per account". Run `cli_nonce` shows the two runs. The effect
   is bounded: by `NoReplay` and `FailureExplained` one of them executes and the
   other fails.
2. `submit` is documented to "poll to completion" (`lib.rs:123`), yet leaves the
   loop on a reply that has no status at all, with the transaction still
   queued. Run `cli_poll` shows it.
3. `bin/account.rs:79` announces a negative control that tampers with the
   signature, but the control's entry has another nonce than the one signed
   (`account.rs:85`), so it is refused for its nonce with the signature left
   whole as well. Run `acceptance` shows it: at the point of the control, the
   untampered entry would be refused too.

Three further remarks on the code as modelled. Decoding an ML-DSA verifying key
is total on strings of the right length, so the trial decode of `init`
(`pq-account/src/lib.rs:60`) refuses nothing that the length check accepts;
`InstalledKeyWorks` holds because of the latter. And `init` can be called again
and asks for no authorisation; the model says so, with `owner` following the
last accepted key. Finally, `demo.sh:52`
asks friendbot with a `curl` that succeeds on an error page, so "funded" is printed
(`demo.sh:54`) whether or not it is true; the script fails at its next step then, and
the trap has been set. And the trap is set after key and account (`demo.sh:50` to
`:55`): a `curl` that times out although friendbot has acted, or an interruption
during the pause, leaves the key of a funded account in the key store.
`KeyIsThrownAway` says how far this goes: nothing has been deployed with such a key.

## What is abstracted, and what is external

* ML-DSA signing is an injective constructor of (scheme, key, context, message);
  a signature verifies exactly when it is the one so constructed. SHA-256 and
  the XDR encoding of the preimage are injective. The conformance suites under
  `crates/pq-core/tests` and `crates/pq-stellar/tests` are the repository's
  evidence for this; it is an assumption here.
* The host is external. Its part follows what `payload.rs` and the contracts
  rely on: it rebuilds the payload from the entry's fields and its own network
  id, refuses expired entries and live nonces before it asks `__check_auth`,
  keeps a nonce entry until the signature's expiration ledger or for the minimum
  lifetime of temporary entries, whichever is later, and undoes a failing call.
  Resource limits and the archival of instance storage are left out.
* The RPC service answers `getLedgerEntries` and `getTransaction` from a closed ledger
  at most `ReadLag` behind the last one, and a simulation from the current state; it
  may fail at any call. It quotes what the
  resources cost or nothing; for the latter each program does what it does. The transaction
  queue holds at most one transaction per source, and may drop it.
* Strkey parsing, printing, the classic Ed25519 signature of the envelope and
  the hash by which a transaction is polled are left out: a transaction is its
  own hash.

## What is not modelled

* The SLH-DSA sketch: every function of it is `unimplemented!()`.
* `bin/vectors` of the harness, which writes vectors to files, keeps nothing and
  asserts on what it writes; `SchemeId`, a table of constants nothing uses.
* COST SPLIT of bench (`bench.rs:128` to `:141`), two differences of rows that are
  modelled. Of bench, `simulate` and `main`: percentages, rates, fees, sizes, footprints and
  ratios, which are printed from numbers that are modelled; of `simulate` also
  its throughput table, which bench has superseded.
* What happens inside one command of `demo.sh`: the toolchain, the test suites,
  and `stellar contract deploy`. The transactions of the latter are not counted: a
  first run that is told a number from before them is refused, which in the model is
  one more run that breaks. That the trap's own `keys rm` succeeds is assumed
  (`|| true` hides its failure), and a script killed outright runs no trap.
* The archival of instance storage, and the host's resource limits.
* Conformance of the lattice arithmetic to FIPS 204 is a matter for test vectors.

## Plan

Every component that keeps state or interacts is modelled, and every invariant
that a run checks is proved, as are its action properties and refinements. Further work would follow the code: a second scheme
behind the traits once the SLH-DSA sketch is filled in, and a nonce that does not
come from the ledger (the first divergence), after which `NonceUniquePerAccount`
should hold.

## Running it

```
tlc -config MCAccountVersions.cfg MCAccountHost
tlc -config MCAccountReplay.cfg   MCAccountHost
tlc -config MCCliRace.cfg         MCCliSystem
tlc -config MCCliInit.cfg         MCCliSystem
tlc -config MCCliPrograms.cfg     MCCliSystem
tlc -config MCPqSessions.cfg      MCPqSessions
tlc -config MCProbeRun.cfg        MCProbeRun
tlc -config MCDemoRun.cfg         MCDemoRun
tlc -config MCAcceptanceRun.cfg   MCAcceptanceRun (a counterexample is expected)
tlc -config MCCliNonce.cfg        MCCliSystem     (a counterexample is expected)
tlc -config MCCliPoll.cfg         MCCliSystem     (a counterexample is expected)
tlc -config MCBenchRun.cfg        MCBenchRun
tlapm AccountHost_proofs.tla
tlapm BenchRun_proofs.tla
tlapm CliSystem_proofs.tla
tlapm CliOutcomes_proofs.tla
tlapm PqSessions_proofs.tla
tlapm ProbeRun_proofs.tla
tlapm DemoRun_proofs.tla
tlapm AcceptanceRun_proofs.tla
```
