---------------------------- MODULE DemoRun_proofs ----------------------------
(***************************************************************************)
(* Machine-checked proofs that demo.sh says the truth and forgets its key, *)
(* for any bounds, quotes and costs and whatever the network and others    *)
(* do meanwhile.                                                           *)
(***************************************************************************)
EXTENDS DemoRun, CliOutcomes_proofs

(* The steps of the script before it runs authorize.                       *)
Before == {"toolchain", "conformance", "account", "fund", "settle", "deploy"}

(* The step of the script that a run of authorize is.                      *)
PhaseOf(r) == IF r = InitRun THEN "init" ELSE "auth"

(* The runs differ, and so do their modes.                                 *)
LEMMA TwoRuns ==
  /\ InitRun \in Runs /\ AuthRun \in Runs
  /\ Mode[InitRun] = "init" /\ Mode[AuthRun] = "auth"
  /\ \A r \in Runs : r = InitRun \/ r = AuthRun
  /\ PhaseOf(InitRun) = "init" /\ PhaseOf(AuthRun) = "auth"
  BY DemoRunAssumption DEF PhaseOf

-----------------------------------------------------------------------------
(* The script as a run of CliSystem.                                       *)

(* What a step of the script, of the network or of nobody is.              *)
ScriptMoves ==
  \/ Toolchain \/ Conformance \/ GenerateKey \/ AskFriendbot
  \/ SetTrap \/ Deploy \/ CommandFails
  \/ \E r \in Runs : AuthorizeEnds(r)
  \/ RunBench \/ BenchEnds

LEMMA DemoKinds ==
  ASSUME [DemoNext]_demoVars
  PROVE  ScriptMoves \/ (\E r \in Runs : RunAuthorize(r)) \/ Network
         \/ UNCHANGED demoVars
  BY Zenon DEF DemoNext, Script, ScriptMoves

(* The script itself sends nothing.                                        *)
LEMMA MovesLeaveNetwork ==
  ASSUME ScriptMoves
  PROVE  UNCHANGED cliVars
  <1>1. ASSUME NEW r \in Runs, AuthorizeEnds(r) PROVE UNCHANGED cliVars
    BY <1>1 DEF AuthorizeEnds, Fail
  <1> QED BY <1>1 DEF ScriptMoves, Toolchain, Conformance, GenerateKey, AskFriendbot,
          SetTrap, Deploy, CommandFails, Fail, RunBench, BenchEnds

(* Every step of the demo is one of CliSystem, or none.                    *)
LEMMA DemoSteps ==
  ASSUME [DemoNext]_demoVars
  PROVE  [CliNext]_cliVars
  <1>1. ASSUME NEW r \in Runs, RunAuthorize(r) PROVE CliNext
    BY <1>1 DEF RunAuthorize, CliNext
  <1>2. CASE Network
    BY <1>2, CliSystemAssumption, DemoRunAssumption DEF Network, CliNext
  <1>3. CASE UNCHANGED demoVars
    BY <1>3 DEF demoVars
  <1> QED BY <1>1, <1>2, <1>3, DemoKinds, MovesLeaveNetwork

(* What CliSystem guarantees of any run.                                   *)
CliState ==
  InductiveInv /\ WellFormedInv /\ CliBase /\ SuccessesExecuted /\ SuccessesSeen

LEMMA CliStateInductive ==
  /\ CliInit => CliState
  /\ CliState /\ [CliNext]_cliVars => CliState'
  <1>1. ASSUME CliInit PROVE CliState
    <2>1. Init
      BY <1>1 DEF CliInit
    <2>2. SuccessesExecuted /\ SuccessesSeen
      BY <1>1 DEF CliInit, SuccessesExecuted, SuccessesSeen
    <2> QED BY <1>1, <2>1, <2>2, InitInductive, InitWellFormed, InitBase DEF CliState
  <1>2. ASSUME CliState, [CliNext]_cliVars PROVE CliState'
    <2>1. TypeOK
      BY <1>2 DEF CliState, InductiveInv
    <2>2. InductiveInv'
      BY <1>2, <2>1, StepRefines, NextInductive DEF CliState
    <2>3. TypeOK'
      BY <2>2 DEF InductiveInv
    <2>4. WellFormedInv' /\ CliBase'
      BY <1>2, <2>1, <2>3, NextWellFormed, NextBase DEF CliState
    <2>5. SuccessesExecuted' /\ SuccessesSeen'
      BY <1>2, SuccessesExecutedNext, SuccessesSeenNext DEF CliState
    <2> QED BY <2>2, <2>4, <2>5 DEF CliState
  <1> QED BY <1>1, <1>2

-----------------------------------------------------------------------------
(* The secret key.                                                         *)

(* Until a run of authorize starts none has done anything, and nothing is  *)
(* deployed before the trap is set.                                        *)
KeyInv ==
  /\ phase \in Before => ~deployed /\ \A r \in Runs : pc[r] = "start"
  /\ KeyIsThrownAway

(* The network does not touch the script or its runs.                      *)
LEMMA NetworkKeeps ==
  ASSUME Network
  PROVE  UNCHANGED <<pc, tx, phase, keyStored, deployed, tableVars>>
  BY DEF Network, Include, Drop, OtherInit, Close, runVars, scriptVars

(* A run of authorize does not touch the script.                           *)
LEMMA RunKeeps ==
  ASSUME NEW r \in Runs, RunAuthorize(r)
  PROVE  UNCHANGED <<phase, keyStored, deployed, tableVars>>
         /\ phase = PhaseOf(r) /\ RunStep(r)
  BY DEF RunAuthorize, scriptVars, PhaseOf

(* Who leaves with the trap set takes the key along.                       *)
LEMMA LeavingForgets ==
  ASSUME KeyInv, NEW label, Leave(label), label \notin Before,
         phase \in {"init", "auth", "bench"}
  PROVE  KeyInv'
  BY DEF Leave, KeyInv, KeyIsThrownAway, TrapSet, Before

LEMMA KeyInductive ==
  /\ DemoInit => KeyInv
  /\ KeyInv /\ [DemoNext]_demoVars => KeyInv'
  <1>1. ASSUME DemoInit PROVE KeyInv
    BY <1>1 DEF DemoInit, CliInit, KeyInv, KeyIsThrownAway
  <1>2. ASSUME KeyInv, [DemoNext]_demoVars PROVE KeyInv'
    <2> USE <1>2
    <2>1. ASSUME UNCHANGED <<pc, phase, keyStored, deployed>> PROVE KeyInv'
      BY <2>1 DEF KeyInv, KeyIsThrownAway
    <2>2. ASSUME ScriptMoves PROVE KeyInv'
      <3>1. UNCHANGED pc
        BY <2>2, MovesLeaveNetwork DEF cliVars, runVars
      <3>2. CASE Toolchain \/ Conformance \/ GenerateKey \/ AskFriendbot \/ SetTrap
        <4>1. phase \in Before /\ phase' \in Before /\ deployed' = deployed
          BY <3>2 DEF Toolchain, Conformance, GenerateKey, AskFriendbot, SetTrap,
             Proceed, Before
        <4> QED BY <3>1, <4>1 DEF KeyInv, KeyIsThrownAway, Before
      <3>4. CASE Deploy
        <4>1. phase' = "init"
          BY <3>4 DEF Deploy, Proceed
        <4> QED BY <3>1, <4>1 DEF KeyInv, KeyIsThrownAway, Before
      <3>5. CASE CommandFails
        <4>1. /\ phase \in Before /\ phase' = "exited"
              /\ phase # "deploy" => deployed' = deployed
              /\ phase = "deploy" => ~keyStored'
          BY <3>5 DEF CommandFails, Before, TrapSet
        <4> QED BY <3>1, <4>1 DEF KeyInv, KeyIsThrownAway, Before
      <3>6. ASSUME NEW r \in Runs, AuthorizeEnds(r) PROVE KeyInv'
        <4>1. CASE Passes(r)
          <5>1. phase' \in {"auth", "bench"}
            BY <3>6, <4>1 DEF AuthorizeEnds
          <5> QED BY <5>1 DEF KeyInv, KeyIsThrownAway, Before
        <4>2. CASE ~Passes(r)
          <5>1. Leave("exited") /\ phase \in {"init", "auth"}
            BY <3>6, <4>2 DEF AuthorizeEnds, Fail
          <5> QED BY <5>1, LeavingForgets DEF Before
        <4> QED BY <4>1, <4>2
      <3>7. CASE RunBench
        BY <2>1, <3>1, <3>7 DEF RunBench, scriptVars
      <3>8. CASE BenchEnds
        <4>1. PICK label \in {"summary", "exited"} : Leave(label)
          BY <3>8 DEF BenchEnds
        <4>2. phase = "bench"
          BY <3>8 DEF BenchEnds
        <4> QED BY <4>1, <4>2, LeavingForgets DEF Before
      <3> QED BY <2>2, <3>2, <3>4, <3>5, <3>6, <3>7, <3>8 DEF ScriptMoves
    <2>3. ASSUME NEW r \in Runs, RunAuthorize(r) PROVE KeyInv'
      <3>1. UNCHANGED <<phase, keyStored, deployed>> /\ phase \in {"init", "auth"}
        BY <2>3, RunKeeps DEF PhaseOf
      <3> QED BY <3>1 DEF KeyInv, KeyIsThrownAway, Before
    <2>4. CASE Network
      BY <2>1, <2>4, NetworkKeeps
    <2>5. CASE UNCHANGED demoVars
      BY <2>1, <2>5 DEF demoVars, cliVars, runVars, scriptVars
    <2> QED BY <2>2, <2>3, <2>4, <2>5, DemoKinds
  <1> QED BY <1>1, <1>2

(* Wherever the script ends, it has removed the secret key if that had     *)
(* deployed a contract or been handed to a run (demo.sh, the EXIT trap).   *)
THEOREM KeyIsThrownAwayHolds == DemoSpec => []KeyIsThrownAway
  <1>1. KeyInv => KeyIsThrownAway
    BY DEF KeyInv
  <1> QED BY <1>1, KeyInductive, PTL DEF DemoSpec

-----------------------------------------------------------------------------
(* The summary.                                                            *)

(* Only the second run signs, with the demo's seed, and once the first has *)
(* ended.                                                                  *)
OneSigner ==
  /\ \A q \in requests : q.seed = SEED
  /\ phase \in Before \cup {"init"} => requests = {}

(* Once the second run is on, the result of the first precedes every       *)
(* execution.                                                              *)
InstalledBy(x) ==
  /\ x \in results /\ x.tx = tx[InitRun] /\ x.status = "SUCCESS"
  /\ x.at < ledger
  /\ \A i \in DOMAIN execs : x.at <= execs[i].at

InstalledFirst ==
  phase \in {"auth", "bench", "summary"} => \E x \in results : InstalledBy(x)

(* What the script has seen of the commands it ran.                        *)
CommandsPassed ==
  /\ phase \in {"bench", "summary"} => pc[AuthRun] = "success"
  /\ benchPc \in {"sweep", "done"} => Len(rows) = Len(B!Calls)
  /\ benchPc = "done" => Len(points) = Len(SweepLengths)
  /\ phase = "summary" => benchPc = "done"

SummaryInv ==
  CliState /\ ResultsPast /\ OneSigner /\ InstalledFirst /\ CommandsPassed

(* How a step of the script, and no run of it, moves on.                   *)
LEMMA PhaseMoves ==
  ASSUME ScriptMoves
  PROVE  \/ phase' = phase
         \/ phase' = "exited"
         \/ phase \in Before /\ phase' \in Before \cup {"init"}
         \/ phase = "init" /\ phase' = "auth" /\ pc[InitRun] = "success"
         \/ phase = "auth" /\ phase' = "bench" /\ pc[AuthRun] = "success"
         \/ phase = "bench" /\ phase' = "summary" /\ benchPc = "done" /\ UNCHANGED tableVars
  <1>1. CASE Toolchain \/ Conformance \/ GenerateKey \/ AskFriendbot \/ SetTrap \/ Deploy
    BY <1>1 DEF Toolchain, Conformance, GenerateKey, AskFriendbot, SetTrap, Deploy,
       Proceed, Before
  <1>2. CASE CommandFails
    BY <1>2 DEF CommandFails
  <1>3. ASSUME NEW r \in Runs, AuthorizeEnds(r), Passes(r)
        PROVE  \/ phase = "init" /\ phase' = "auth" /\ pc[InitRun] = "success"
               \/ phase = "auth" /\ phase' = "bench" /\ pc[AuthRun] = "success"
    BY <1>3, DemoRunAssumption DEF AuthorizeEnds, Passes
  <1>4. ASSUME NEW r \in Runs, AuthorizeEnds(r), ~Passes(r)
        PROVE  phase' = "exited"
    BY <1>4 DEF AuthorizeEnds, Fail, Leave
  <1>5. CASE RunBench
    BY <1>5 DEF RunBench, scriptVars
  <1>6. CASE BenchEnds
    BY <1>6 DEF BenchEnds, Leave
  <1> QED BY <1>1, <1>2, <1>3, <1>4, <1>5, <1>6 DEF ScriptMoves

(* Without a request there is no execution.                                *)
LEMMA NothingExecuted ==
  ASSUME CliState, requests = {}
  PROVE  DOMAIN execs = {}
  BY DEF CliState, InductiveInv, ExecsAreAuthorised

(* Who signs.                                                              *)
LEMMA OneSignerNext ==
  ASSUME CliState, OneSigner, [DemoNext]_demoVars
  PROVE  OneSigner'
  <1>1. ASSUME UNCHANGED requests,
               phase' \in Before \cup {"init"} => phase \in Before \cup {"init"}
        PROVE  OneSigner'
    BY <1>1 DEF OneSigner
  <1>2. CASE ScriptMoves
    <2>1. UNCHANGED requests
      BY <1>2, MovesLeaveNetwork DEF cliVars, vars
    <2> QED BY <1>1, <1>2, <2>1, PhaseMoves DEF Before
  <1>3. ASSUME NEW r \in Runs, RunAuthorize(r) PROVE OneSigner'
    <2>1. phase' = phase /\ phase = PhaseOf(r) /\ RunStep(r)
      BY <1>3, RunKeeps
    <2>2. CASE BuildAuth(r)
      <3>1. phase' = "auth"
        BY <2>1, <2>2, TwoRuns DEF BuildAuth
      <3>2. PICK q : requests' = requests \cup {q} /\ q.seed = SEED
        <4>1. PICK payload, context, entry :
                requests' = requests \cup {[seed |-> SEED, payload |-> payload,
                                            context |-> context, entry |-> entry]}
          BY <2>2 DEF BuildAuth, Sign
        <4> DEFINE q == [seed |-> SEED, payload |-> payload,
                         context |-> context, entry |-> entry]
        <4>2. requests' = requests \cup {q} /\ q.seed = SEED
          BY <4>1
        <4> QED BY Zenon, <4>2
      <3> QED BY <3>1, <3>2 DEF OneSigner, Before
    <2>3. CASE ~BuildAuth(r)
      <3>1. UNCHANGED requests
        BY <2>1, <2>3 DEF RunStep, BuildInit, Simulate, SimulateFails, SendAccepted,
           SendRejected, SendIgnored, PollFound, PollNotFound, PollError, RpcBreaks, vars
      <3> QED BY <1>1, <2>1, <3>1
    <2> QED BY <2>2, <2>3
  <1>4. CASE Network
    <2>1. UNCHANGED requests
      BY <1>4 DEF Network, Include, Apply, InvokeInit, ProtectedSucceeds, ProtectedFails,
         Drop, OtherInit, Close, CloseLedger, vars
    <2> QED BY <1>1, <1>4, <2>1, NetworkKeeps
  <1>5. CASE UNCHANGED demoVars
    BY <1>1, <1>5 DEF demoVars, cliVars, vars, scriptVars
  <1> QED BY <1>2, <1>3, <1>4, <1>5, DemoKinds

(* A result that precedes every execution goes on to do so.                *)
LEMMA InstalledStays ==
  ASSUME CliState, ResultsPast, [CliNext]_cliVars, NEW x, InstalledBy(x),
         tx'[InitRun] = tx[InitRun]
  PROVE  InstalledBy(x)'
  <1>1. CliBase /\ x \in results'
    BY ResultsGrow DEF CliState, InstalledBy
  <1>2. ASSUME NEW a \in Accounts, NEW entry, ProtectedSucceeds(a, entry)
        PROVE  \A i \in DOMAIN execs' : x.at <= execs'[i].at
    <2>1. /\ DOMAIN execs = 1..Len(execs) /\ Len(execs) \in Nat
          /\ DOMAIN execs' = 1..(Len(execs) + 1)
          /\ \A i \in DOMAIN execs : execs'[i] = execs[i]
          /\ execs'[Len(execs) + 1] = [account |-> a, key |-> owner[a],
                                       entry |-> entry, at |-> ledger]
      BY <1>1, <1>2, AppendedExec DEF CliBase
    <2>2. x.at <= ledger
      BY DEF ResultsPast, InstalledBy
    <2>3. ASSUME NEW i \in DOMAIN execs' PROVE i \in DOMAIN execs \/ i = Len(execs) + 1
      BY <2>1, <2>3
    <2> QED BY <2>1, <2>2, <2>3 DEF InstalledBy
  <1>3. \A i \in DOMAIN execs' : x.at <= execs'[i].at
    BY <1>1, <1>2, ExecsChange DEF InstalledBy
  <1>4. x.at < ledger'
    BY <1>1, LedgerSteps, ResultTyped DEF InstalledBy
  <1> QED BY <1>1, <1>3, <1>4 DEF InstalledBy

(* The first run sees its result before anything has been executed.        *)
LEMMA InstalledFirstNext ==
  ASSUME CliState, ResultsPast, OneSigner, InstalledFirst, [DemoNext]_demoVars
  PROVE  InstalledFirst'
  <1> DEFINE later == {"auth", "bench", "summary"}
  <1>1. ASSUME phase \in later, tx'[InitRun] = tx[InitRun] PROVE InstalledFirst'
    <2>1. PICK x \in results : InstalledBy(x)
      BY <1>1 DEF InstalledFirst
    <2>2. InstalledBy(x)'
      BY <1>1, <2>1, DemoSteps, InstalledStays
    <2> QED BY <2>2 DEF InstalledFirst, InstalledBy
  <1>2. ASSUME phase' \notin later PROVE InstalledFirst'
    BY <1>2 DEF InstalledFirst
  <1>3. CASE ScriptMoves
    <2>1. UNCHANGED <<ledger, tx, pc, execs, results, requests>>
      BY <1>3, MovesLeaveNetwork DEF cliVars, vars, runVars, netVars
    <2>2. CASE phase = "init" /\ phase' = "auth" /\ pc[InitRun] = "success"
      <3>1. DOMAIN execs = {}
        BY <2>2, NothingExecuted DEF OneSigner
      <3>2. PICK x \in results :
              x.tx = tx[InitRun] /\ x.status = "SUCCESS" /\ x.at < ledger
        BY <2>2, TwoRuns DEF CliState, SuccessesSeen
      <3> QED BY <2>1, <3>1, <3>2 DEF InstalledFirst, InstalledBy
    <2> QED BY <1>1, <1>2, <1>3, <2>1, <2>2, PhaseMoves DEF Before
  <1>4. ASSUME NEW r \in Runs, RunAuthorize(r) PROVE InstalledFirst'
    <2>1. phase' = phase /\ phase = PhaseOf(r) /\ RunStep(r)
      BY <1>4, RunKeeps
    <2>2. CASE r = InitRun
      BY <1>2, <2>1, <2>2 DEF PhaseOf
    <2>3. CASE r # InitRun
      <3>1. tx' = tx \/ \E t : tx' = [tx EXCEPT ![r] = t]
        BY <2>1 DEF RunStep, BuildInit, BuildAuth, Simulate, AttachResources,
           SimulateFails, SendAccepted, SendRejected, SendIgnored, PollFound,
           PollNotFound, PollError, RpcBreaks
      <3>2. tx'[InitRun] = tx[InitRun]
        BY <2>3, <3>1, TwoRuns DEF CliState, WellFormedInv
      <3> QED BY <1>1, <2>1, <2>3, <3>2 DEF PhaseOf
    <2> QED BY <2>2, <2>3
  <1>5. CASE Network
    BY <1>1, <1>2, <1>5, NetworkKeeps
  <1>6. CASE UNCHANGED demoVars
    BY <1>1, <1>2, <1>6 DEF demoVars, cliVars, runVars, scriptVars
  <1> QED BY <1>3, <1>4, <1>5, <1>6, DemoKinds

(* A step of bench that fills a table ends it.                             *)
LEMMA BenchFills ==
  ASSUME CommandsPassed, RunBench
  PROVE  CommandsPassed'
  <1>1. UNCHANGED <<pc, phase>> /\ phase = "bench" /\ B!BenchNext
    BY DEF RunBench, cliVars, runVars, scriptVars
  <1>2. CASE B!Start \/ B!Panic
    BY <1>1, <1>2 DEF CommandsPassed, B!Start, B!Panic
  <1>3. CASE B!MeasureRow
    <2>1. benchPc' = "sweep" => Len(rows') = Len(B!Calls)
      BY <1>3 DEF B!MeasureRow
    <2>2. benchPc' # "done"
      BY <1>3 DEF B!MeasureRow
    <2> QED BY <1>1, <2>1, <2>2 DEF CommandsPassed
  <1>4. CASE B!MeasurePoint
    <2>1. benchPc = "sweep" /\ rows' = rows
      BY <1>4 DEF B!MeasurePoint
    <2>2. benchPc' = "done" => Len(points') = Len(SweepLengths)
      BY <1>4 DEF B!MeasurePoint
    <2> QED BY <1>1, <2>1, <2>2 DEF CommandsPassed
  <1> QED BY <1>1, <1>2, <1>3, <1>4 DEF B!BenchNext

LEMMA CommandsPassedNext ==
  ASSUME CommandsPassed, [DemoNext]_demoVars
  PROVE  CommandsPassed'
  <1>1. CASE ScriptMoves /\ ~RunBench
    <2>1. UNCHANGED <<pc, tableVars>>
      <3>1. UNCHANGED pc
        BY <1>1, MovesLeaveNetwork DEF cliVars, runVars
      <3>2. UNCHANGED tableVars
        BY <1>1 DEF ScriptMoves, Toolchain, Conformance, GenerateKey, AskFriendbot,
           SetTrap, Deploy, CommandFails, AuthorizeEnds, Fail, BenchEnds
      <3> QED BY <3>1, <3>2
    <2> QED BY <1>1, <2>1, PhaseMoves DEF CommandsPassed, tableVars, Before
  <1>2. CASE RunBench
    BY <1>2, BenchFills
  <1>3. ASSUME NEW r \in Runs, RunAuthorize(r) PROVE CommandsPassed'
    <2>1. UNCHANGED <<phase, tableVars>> /\ phase \in {"init", "auth"}
      BY <1>3, RunKeeps DEF PhaseOf
    <2> QED BY <2>1 DEF CommandsPassed, tableVars
  <1>4. CASE Network
    BY <1>4, NetworkKeeps DEF CommandsPassed, tableVars
  <1>5. CASE UNCHANGED demoVars
    BY <1>5 DEF CommandsPassed, demoVars, cliVars, runVars, scriptVars, tableVars
  <1> QED BY <1>1, <1>2, <1>3, <1>4, <1>5, DemoKinds

LEMMA SummaryInductive ==
  /\ DemoInit => SummaryInv
  /\ SummaryInv /\ [DemoNext]_demoVars => SummaryInv'
  <1>1. ASSUME DemoInit PROVE SummaryInv
    <2>1. CliState
      BY <1>1, CliStateInductive DEF DemoInit
    <2>2. results = {} /\ requests = {} /\ phase = "toolchain" /\ benchPc = "start"
      BY <1>1 DEF DemoInit, CliInit, Init
    <2> QED BY <2>1, <2>2
            DEF SummaryInv, ResultsPast, OneSigner, InstalledFirst, CommandsPassed
  <1>2. ASSUME SummaryInv, [DemoNext]_demoVars PROVE SummaryInv'
    <2>1. [CliNext]_cliVars
      BY <1>2, DemoSteps
    <2>2. CliState' /\ ResultsPast'
      BY <1>2, <2>1, CliStateInductive, ResultsPastNext DEF SummaryInv, CliState
    <2>3. OneSigner' /\ InstalledFirst' /\ CommandsPassed'
      BY <1>2, OneSignerNext, InstalledFirstNext, CommandsPassedNext DEF SummaryInv
    <2> QED BY <2>2, <2>3 DEF SummaryInv
  <1> QED BY <1>1, <1>2

(* At the summary the second run has seen its call succeed: it was         *)
(* executed, with consent of the only signer, after the first run's.       *)
LEMMA SummaryFollows ==
  ASSUME SummaryInv
  PROVE  SummaryIsTrue
  <1> SUFFICES ASSUME phase = "summary"
               PROVE  /\ \E i \in DOMAIN execs :
                           /\ execs[i].account = Account[AuthRun]
                           /\ execs[i].key = Bytes(KeyLen, PublicKey(SEED))
                           /\ execs[i].entry = tx[AuthRun].arg
                           /\ \E res \in results :
                                /\ res.tx = tx[InitRun] /\ res.status = "SUCCESS"
                                /\ res.at <= execs[i].at
                      /\ Len(rows) = Len(B!Calls) /\ Len(points) = Len(SweepLengths)
    BY DEF SummaryIsTrue
  <1>1. Len(rows) = Len(B!Calls) /\ Len(points) = Len(SweepLengths)
    BY DEF SummaryInv, CommandsPassed
  <1>2. pc[AuthRun] = "success" /\ AuthRun \in Runs /\ Mode[AuthRun] = "auth"
    BY TwoRuns DEF SummaryInv, CommandsPassed
  <1>3. PICK x \in results : x.tx = tx[AuthRun] /\ x.status = "SUCCESS"
    BY <1>2 DEF SummaryInv, CliState, SuccessesSeen
  <1>4. Own(AuthRun)
    BY <1>2 DEF SummaryInv, CliState, CliBase, OwnTransactions, Built
  <1>5. x.tx.account = Account[AuthRun] /\ x.tx.arg = tx[AuthRun].arg /\ Success(x)
    BY <1>2, <1>3, <1>4 DEF Own, Success
  <1>6. PICK i \in DOMAIN execs :
          execs[i].account = Account[AuthRun] /\ execs[i].entry = tx[AuthRun].arg
    BY <1>5 DEF SummaryInv, CliState, SuccessesExecuted
  <1>7. execs[i].key = Bytes(KeyLen, PublicKey(SEED))
    BY InductiveConsent DEF SummaryInv, CliState, Consent, OneSigner
  <1>8. PICK res \in results : InstalledBy(res)
    BY DEF SummaryInv, InstalledFirst
  <1> QED BY <1>1, <1>6, <1>7, <1>8 DEF InstalledBy

(* Whenever the summary is printed it is true: the call was executed with  *)
(* the demo's own entry, under its own key and after it was installed,     *)
(* and the tables are complete (demo.sh, "What just happened").            *)
THEOREM SummaryIsTrueHolds == DemoSpec => []SummaryIsTrue
  <1> QED BY SummaryInductive, SummaryFollows, PTL DEF DemoSpec

(* What is left to a run is a number.                                      *)
LEMMA StepsLeftTyped == CliBase => \A r \in Runs : StepsLeft(r) \in Nat
  <1> SUFFICES ASSUME CliBase, NEW r \in Runs PROVE StepsLeft(r) \in Nat
    OBVIOUS
  <1>1. MaxPolls[Program[r]] \in Nat
    BY CliSystemAssumption
  <1>2. polls[r] \in Nat /\ polls[r] <= MaxPolls[Program[r]]
    BY DEF CliBase, RunsTyped, CliTypeOK
  <1>3. MaxPolls[Program[r]] - polls[r] \in Nat
    BY <1>1, <1>2
  <1> QED BY <1>1, <1>3 DEF StepsLeft

-----------------------------------------------------------------------------
(* The way to the end.                                                     *)

(* bench still has a row to measure while it measures rows, and a point    *)
(* while it sweeps.                                                        *)
BenchShape ==
  /\ \E S : rows \in Seq(S)
  /\ \E S : points \in Seq(S)
  /\ benchPc = "rows" => Len(rows) < 7 /\ Len(points) = 0
  /\ benchPc = "sweep" => Len(points) < Len(SweepLengths)
  /\ benchPc = "start" => Len(rows) = 0 /\ Len(points) = 0

(* The table of bench has seven rows.                                     *)
LEMMA SevenBenchCalls == Len(B!Calls) = 7
  BY DEF B!Calls

(* A sequence that grows by one.                                           *)
LEMMA Appended ==
  ASSUME NEW s, \E S : s \in Seq(S), NEW e
  PROVE  /\ \E S : Append(s, e) \in Seq(S)
         /\ Len(s) \in Nat /\ Len(Append(s, e)) = Len(s) + 1
  <1>1. PICK S : s \in Seq(S)
    OBVIOUS
  <1>2. s \in Seq(S \cup {e})
    <2>1. Len(s) \in Nat /\ DOMAIN s = 1..Len(s) /\ \A i \in 1..Len(s) : s[i] \in S
      BY <1>1
    <2>2. s = [i \in 1..Len(s) |-> s[i]]
      BY <1>1
    <2> QED BY <2>1, <2>2
  <1>3. Append(s, e) \in Seq(S \cup {e}) /\ Len(Append(s, e)) = Len(s) + 1 /\ Len(s) \in Nat
    BY <1>2
  <1> QED BY <1>3

(* A step of bench measures what is left to be measured.                   *)
LEMMA BenchAdvances ==
  ASSUME BenchShape, B!BenchNext
  PROVE  BenchShape' /\ BenchLeft \in Nat /\ BenchLeft' < BenchLeft
  <1> DEFINE n == Len(SweepLengths)
  <1>1. n \in Nat \ {0}
    BY DemoRunAssumption
  <1>2. BenchLeft = CASE benchPc = "start" -> 1 + 7 + n
                      [] benchPc = "rows"  -> 7 - Len(rows) + n
                      [] benchPc = "sweep" -> n - Len(points)
                      [] OTHER             -> 0
    BY SevenBenchCalls DEF BenchLeft
  <1>3. BenchLeft' = CASE benchPc' = "start" -> 1 + 7 + n
                       [] benchPc' = "rows"  -> 7 - Len(rows') + n
                       [] benchPc' = "sweep" -> n - Len(points')
                       [] OTHER              -> 0
    BY SevenBenchCalls DEF BenchLeft
  <1>4. Len(rows) \in Nat /\ Len(points) \in Nat
    BY DEF BenchShape
  <1> HIDE DEF n
  <1>5. CASE B!Start
    <2>1. benchPc = "start" /\ benchPc' = "rows" /\ rows' = rows /\ points' = points
      BY <1>5 DEF B!Start
    <2> QED BY <1>1, <1>2, <1>3, <1>4, <2>1 DEF BenchShape
  <1>6. CASE B!MeasureRow
    <2>1. /\ benchPc = "rows" /\ points' = points
          /\ \/ benchPc' = "trapped" /\ rows' = rows
             \/ /\ \E row : rows' = Append(rows, row)
                /\ benchPc' = IF Len(rows') = 7 THEN "sweep" ELSE "rows"
      BY <1>6, SevenBenchCalls DEF B!MeasureRow
    <2>2. CASE benchPc' = "trapped" /\ rows' = rows
      BY <1>1, <1>2, <1>3, <1>4, <2>1, <2>2 DEF BenchShape
    <2>3. ASSUME NEW row, rows' = Append(rows, row),
                 benchPc' = IF Len(rows') = 7 THEN "sweep" ELSE "rows"
          PROVE  BenchShape' /\ BenchLeft \in Nat /\ BenchLeft' < BenchLeft
      <3>1. /\ \E S : rows' \in Seq(S)
            /\ Len(rows') = Len(rows) + 1
        BY <2>3, Appended DEF BenchShape
      <3> QED BY <1>1, <1>2, <1>3, <1>4, <2>1, <2>3, <3>1 DEF BenchShape, n
    <2> QED BY <2>1, <2>2, <2>3
  <1>7. CASE B!MeasurePoint
    <2>1. /\ benchPc = "sweep" /\ rows' = rows
          /\ \E point : points' = Append(points, point)
          /\ benchPc' = IF Len(points') = n THEN "done" ELSE "sweep"
      BY <1>7 DEF B!MeasurePoint, n
    <2>2. /\ \E S : points' \in Seq(S)
          /\ Len(points') = Len(points) + 1
      BY <2>1, Appended DEF BenchShape
    <2> QED BY <1>1, <1>2, <1>3, <1>4, <2>1, <2>2 DEF BenchShape, n
  <1>8. CASE B!Panic
    <2>1. /\ benchPc \in {"start", "rows", "sweep"} /\ benchPc' = "panicked"
          /\ rows' = rows /\ points' = points
      BY <1>8 DEF B!Panic
    <2> QED BY <1>1, <1>2, <1>3, <1>4, <2>1 DEF BenchShape, n
  <1> QED BY <1>5, <1>6, <1>7, <1>8 DEF B!BenchNext

(* The steps of the script that are over are not taken again.              *)
LEMMA PhaseAdvances ==
  ASSUME \/ Toolchain \/ Conformance \/ GenerateKey \/ AskFriendbot
         \/ SetTrap \/ Deploy \/ CommandFails \/ (\E r \in Runs : AuthorizeEnds(r)) \/ BenchEnds
  PROVE  /\ PhasesLeft \in Nat /\ PhasesLeft' < PhasesLeft
         /\ UNCHANGED <<cliVars, tableVars>>
  <1>1. CASE Toolchain \/ Conformance \/ GenerateKey \/ AskFriendbot \/ SetTrap \/ Deploy
    BY <1>1 DEF Toolchain, Conformance, GenerateKey, AskFriendbot, SetTrap, Deploy,
       Proceed, PhasesLeft
  <1>2. CASE CommandFails
    BY <1>2 DEF CommandFails, PhasesLeft
  <1>3. ASSUME NEW r \in Runs, AuthorizeEnds(r)
        PROVE  /\ PhasesLeft \in Nat /\ PhasesLeft' < PhasesLeft
               /\ UNCHANGED <<cliVars, tableVars>>
    BY <1>3, TwoRuns DEF AuthorizeEnds, Fail, Leave, PhasesLeft
  <1>4. CASE BenchEnds
    BY <1>4 DEF BenchEnds, Leave, PhasesLeft
  <1> QED BY <1>1, <1>2, <1>3, <1>4

(* What the script counts down is a number in every state.                 *)
LEMMA LeftTyped ==
  CliBase /\ BenchShape =>
    /\ StepsLeft(InitRun) \in Nat /\ StepsLeft(AuthRun) \in Nat
    /\ PhasesLeft \in Nat /\ BenchLeft \in Nat
  <1> SUFFICES ASSUME CliBase, BenchShape
               PROVE  PhasesLeft \in Nat /\ BenchLeft \in Nat
    BY StepsLeftTyped, TwoRuns
  <1>1. PhasesLeft \in Nat
    BY DEF PhasesLeft
  <1>2. Len(SweepLengths) \in Nat \ {0} /\ Len(rows) \in Nat /\ Len(points) \in Nat
    BY DemoRunAssumption DEF BenchShape
  <1>3. BenchLeft \in Nat
    BY <1>2, SevenBenchCalls DEF BenchLeft, BenchShape
  <1> QED BY <1>1, <1>3

(* A step that no part of the script takes leaves all of its parts alone.  *)
LEMMA LeftKept ==
  ASSUME CliBase, [DemoNext]_demoVars, ~Script
  PROVE  ScriptLeft' = ScriptLeft
  <1>1. UNCHANGED <<pc, polls, phase, tableVars>>
    <2>1. CASE Network
      BY <2>1 DEF Network, Include, Drop, OtherInit, Close, runVars, scriptVars
    <2>2. CASE UNCHANGED demoVars
      BY <2>2 DEF demoVars, cliVars, runVars, scriptVars
    <2> QED BY <2>1, <2>2 DEF DemoNext
  <1> QED BY <1>1 DEF ScriptLeft, PhasesLeft, BenchLeft, StepsLeft, tableVars

(* A step of the script lowers one part of the sum and none goes up.       *)
LEMMA LeftLowered ==
  ASSUME CliBase, CliBase', BenchShape, BenchShape', Script, [DemoNext]_demoVars
  PROVE  ScriptLeft' < ScriptLeft
  <1>1. /\ StepsLeft(InitRun) \in Nat /\ StepsLeft(AuthRun) \in Nat
        /\ PhasesLeft \in Nat /\ BenchLeft \in Nat
    BY LeftTyped
  <1>2. (/\ StepsLeft(InitRun) \in Nat /\ StepsLeft(AuthRun) \in Nat
         /\ PhasesLeft \in Nat /\ BenchLeft \in Nat)'
    BY LeftTyped, PTL
  <1>3. /\ ScriptLeft = PhasesLeft + StepsLeft(InitRun) + StepsLeft(AuthRun) + BenchLeft
        /\ ScriptLeft' = PhasesLeft' + StepsLeft(InitRun)' + StepsLeft(AuthRun)' + BenchLeft'
    BY DEF ScriptLeft
  <1>4. UNCHANGED cliVars => /\ StepsLeft(InitRun)' = StepsLeft(InitRun)
                             /\ StepsLeft(AuthRun)' = StepsLeft(AuthRun)
    BY DEF cliVars, runVars, StepsLeft
  <1>5. UNCHANGED tableVars => BenchLeft' = BenchLeft
    BY DEF tableVars, BenchLeft
  <1>6. UNCHANGED phase => PhasesLeft' = PhasesLeft
    BY DEF PhasesLeft
  <1>7. ASSUME NEW r \in Runs, RunAuthorize(r) PROVE ScriptLeft' < ScriptLeft
    <2>1. RunStep(r) /\ UNCHANGED <<phase, tableVars>>
      BY <1>7, RunKeeps
    <2>2. StepsLeft(r)' < StepsLeft(r)
      BY <2>1, OwnStepAdvances
    <2>3. \A q \in Runs : q # r => pc'[q] = pc[q] /\ polls'[q] = polls[q]
      BY <2>1 DEF RunStep, BuildInit, BuildAuth, Simulate, SimulateFails, SendAccepted,
         SendRejected, SendIgnored, PollFound, PollNotFound, PollError, RpcBreaks, Goto,
         CliBase, RunsTyped, CliTypeOK
    <2>4. \A q \in Runs : q # r => StepsLeft(q)' = StepsLeft(q)
      BY <2>3 DEF StepsLeft
    <2>5. \/ /\ StepsLeft(InitRun)' < StepsLeft(InitRun)
             /\ StepsLeft(AuthRun)' = StepsLeft(AuthRun)
          \/ /\ StepsLeft(AuthRun)' < StepsLeft(AuthRun)
             /\ StepsLeft(InitRun)' = StepsLeft(InitRun)
      BY <2>2, <2>4, DemoRunAssumption
    <2> QED BY <1>1, <1>2, <1>3, <1>5, <1>6, <2>1, <2>5
  <1>8. CASE RunBench
    <2>1. BenchLeft' < BenchLeft /\ UNCHANGED <<phase, cliVars>>
      BY <1>8, BenchAdvances DEF RunBench, scriptVars
    <2> QED BY <1>1, <1>2, <1>3, <1>4, <1>6, <2>1
  <1>9. ASSUME ~RunBench, \A r \in Runs : ~RunAuthorize(r) PROVE ScriptLeft' < ScriptLeft
    <2>1. PhasesLeft' < PhasesLeft /\ UNCHANGED <<cliVars, tableVars>>
      BY <1>9, PhaseAdvances DEF Script
    <2> QED BY <1>1, <1>2, <1>3, <1>4, <1>5, <2>1
  <1> QED BY <1>7, <1>8, <1>9

(* bench keeps its shape, whoever else steps.                              *)
LEMMA ShapeInductive ==
  /\ DemoInit => BenchShape
  /\ BenchShape /\ [DemoNext]_demoVars => BenchShape'
  <1>1. ASSUME DemoInit PROVE BenchShape
    <2>1. rows = << >> /\ points = << >> /\ benchPc = "start"
      BY <1>1 DEF DemoInit
    <2>2. << >> \in Seq({}) /\ Len(<< >>) = 0
      OBVIOUS
    <2> QED BY <2>1, <2>2 DEF BenchShape
  <1>2. ASSUME BenchShape, [DemoNext]_demoVars PROVE BenchShape'
    <2>1. CASE RunBench
      BY <1>2, <2>1, BenchAdvances DEF RunBench
    <2>2. CASE ~RunBench
      <3>1. UNCHANGED tableVars
        <4>1. ASSUME NEW r \in Runs, RunAuthorize(r) PROVE UNCHANGED tableVars
          BY <4>1, RunKeeps
        <4>2. CASE Network \/ UNCHANGED demoVars
          BY <4>2, NetworkKeeps DEF demoVars
        <4> QED BY <1>2, <2>2, <4>1, <4>2, PhaseAdvances DEF DemoNext, Script
      <3> QED BY <1>2, <3>1 DEF BenchShape, tableVars
    <2> QED BY <2>1, <2>2
  <1> QED BY <1>1, <1>2

(* The script counts down with every step it takes, through its commands,  *)
(* the RPCs of its runs and the measurements of bench, and with no other   *)
(* (demo.sh).                                                              *)
THEOREM ScriptAdvancesHolds == DemoSpec => ScriptAdvances
  <1> DEFINE A == IF Script THEN ScriptLeft' < ScriptLeft ELSE ScriptLeft' = ScriptLeft
  <1>1. DemoInit => CliState /\ BenchShape
    BY CliStateInductive, ShapeInductive DEF DemoInit
  <1>2. CliState /\ BenchShape /\ [DemoNext]_demoVars => (CliState /\ BenchShape)'
    BY DemoSteps, CliStateInductive, ShapeInductive
  <1>3. CliState /\ BenchShape /\ [DemoNext]_demoVars => A
    <2> SUFFICES ASSUME CliState, BenchShape, [DemoNext]_demoVars PROVE A
      OBVIOUS
    <2>1. CliBase /\ CliBase' /\ BenchShape'
      BY <1>2 DEF CliState
    <2> QED BY <2>1, LeftKept, LeftLowered
  <1>4. ScriptAdvances <=> [][A]_demoVars
    BY DEF ScriptAdvances
  <1> HIDE DEF A
  <1> QED BY <1>1, <1>2, <1>3, <1>4, PTL DEF DemoSpec

-----------------------------------------------------------------------------
(* The second run.                                                         *)

(* The second run waits for the first and is at work in its phase only.    *)
SecondWaits ==
  /\ phase \in Before \cup {"init"} => pc[AuthRun] = "start"
  /\ pc[AuthRun] \in {"simulate", "send"} => phase = "auth"
  /\ phase = "auth" \/ pc[AuthRun] # "start" => pc[InitRun] = "success"

(* It was told of a ledger before the first run's result.                  *)
Lagged ==
  \E x \in results :
    /\ x.tx = tx[InitRun]
    /\ ReadAt(tx[AuthRun]) < x.at /\ x.at <= ReadAt(tx[AuthRun]) + ReadLag

(* Its transaction is otherwise the next of its source until it is sent.   *)
SecondInTurn ==
  /\ pc[AuthRun] \in {"simulate", "send"} => InSequence(tx[AuthRun]) \/ Lagged
  /\ pc[AuthRun] = "rejected" =>
       tx[AuthRun].fee # tx[AuthRun].resources + 1000 \/ Lagged

(* Nobody else's call is ever executed.                                    *)
OneCall ==
  DOMAIN execs # {} =>
    /\ pc[AuthRun] \notin Unsent
    /\ \E x \in results : x.tx = tx[AuthRun] /\ x.status = "SUCCESS"

SecondInv ==
  /\ SummaryInv /\ QueueInv /\ SentInv /\ FailureInv /\ SequencesTaken
  /\ SecondWaits /\ SecondInTurn /\ OneCall

(* The script leaves the second run when that has ended.                   *)
LEMMA LeavingSecond ==
  ASSUME ScriptMoves, phase = "auth", phase' # phase
  PROVE  pc[AuthRun] \in Ended
  <1>1. PICK r \in Runs : AuthorizeEnds(r)
    BY DEF ScriptMoves, Toolchain, Conformance, GenerateKey, AskFriendbot, SetTrap,
       Deploy, Proceed, CommandFails, RunBench, scriptVars, BenchEnds
  <1>2. pc[r] \in Ended /\ r # InitRun
    BY <1>1 DEF AuthorizeEnds
  <1> QED BY <1>2, TwoRuns

(* The script starts the second run when the first has succeeded.          *)
LEMMA SecondWaitsNext ==
  ASSUME CliBase, SecondWaits, [DemoNext]_demoVars
  PROVE  SecondWaits'
  <1>1. ASSUME UNCHANGED <<pc, phase>> PROVE SecondWaits'
    BY <1>1 DEF SecondWaits
  <1>2. CASE ScriptMoves
    <2>1. UNCHANGED pc
      BY <1>2, MovesLeaveNetwork DEF cliVars, runVars
    <2>2. pc[AuthRun] \in {"simulate", "send"} => phase' = "auth"
      BY <1>2, LeavingSecond DEF SecondWaits, Ended
    <2> QED BY <1>2, <2>1, <2>2, PhaseMoves DEF SecondWaits, Before
  <1>3. ASSUME NEW r \in Runs, RunAuthorize(r) PROVE SecondWaits'
    <2>1. UNCHANGED phase /\ phase = PhaseOf(r) /\ RunStep(r)
      BY <1>3, RunKeeps
    <2>2. CASE r = InitRun
      <3>1. \E label : Goto(r, label)
        BY <2>1 DEF RunStep, BuildInit, BuildAuth, Simulate, SimulateFails, SendAccepted,
           SendRejected, SendIgnored, PollFound, PollNotFound, PollError, RpcBreaks
      <3>2. pc'[AuthRun] = pc[AuthRun]
        BY <2>2, <3>1, DemoRunAssumption DEF Goto, CliBase, RunsTyped, CliTypeOK
      <3>3. phase' = "init" /\ pc'[AuthRun] = "start"
        BY <2>1, <2>2, <3>2, TwoRuns DEF SecondWaits
      <3> QED BY <3>3 DEF SecondWaits
    <2>3. CASE r = AuthRun
      <3>1. \E label : Goto(r, label)
        BY <2>1 DEF RunStep, BuildInit, BuildAuth, Simulate, SimulateFails, SendAccepted,
           SendRejected, SendIgnored, PollFound, PollNotFound, PollError, RpcBreaks
      <3>2. pc'[InitRun] = pc[InitRun]
        BY <2>3, <3>1, DemoRunAssumption DEF Goto, CliBase, RunsTyped, CliTypeOK
      <3> QED BY <2>1, <2>3, <3>2, TwoRuns DEF SecondWaits, Before
    <2> QED BY <2>2, <2>3, TwoRuns
  <1>4. CASE Network
    BY <1>1, <1>4, NetworkKeeps
  <1>5. CASE UNCHANGED demoVars
    BY <1>1, <1>5 DEF demoVars, cliVars, runVars, scriptVars
  <1> QED BY <1>2, <1>3, <1>4, <1>5, DemoKinds

(* While it prepares its transaction the queue is empty, as the first      *)
(* run's has been applied.                                                 *)
LEMMA NothingQueued ==
  ASSUME SecondInv, pc[AuthRun] \in {"simulate", "send"}
  PROVE  pool = {}
  <1> SUFFICES ASSUME NEW t \in pool PROVE FALSE
    OBVIOUS
  <1>1. phase = "auth"
    BY DEF SecondInv, SecondWaits
  <1>2. PICK x \in results : x.tx = tx[InitRun]
    BY <1>1 DEF SecondInv, SummaryInv, InstalledFirst, InstalledBy
  <1>3. tx[InitRun] \notin pool
    BY <1>2, AppliedLeft DEF SecondInv, SummaryInv, CliState
  <1>4. PICK r \in Runs : SentBy(r, t)
    BY DEF SecondInv, SentInv
  <1>5. r = InitRun
    BY <1>4, TwoRuns DEF SentBy, Unsent
  <1> QED BY <1>3, <1>4, <1>5 DEF SentBy

(* The only step of the second run is one of the script's in its phase.    *)
LEMMA SecondsPhase ==
  ASSUME CliBase, [DemoNext]_demoVars, pc'[AuthRun] # pc[AuthRun]
  PROVE  phase = "auth"
  <1>1. ASSUME NEW r \in Runs, RunAuthorize(r) PROVE phase = "auth"
    <2>1. phase = PhaseOf(r) /\ RunStep(r)
      BY <1>1, RunKeeps
    <2>2. \E label : Goto(r, label)
      BY <2>1 DEF RunStep, BuildInit, BuildAuth, Simulate, SimulateFails, SendAccepted,
         SendRejected, SendIgnored, PollFound, PollNotFound, PollError, RpcBreaks
    <2>3. r = AuthRun
      BY <2>2, TwoRuns DEF Goto, CliBase, RunsTyped, CliTypeOK
    <2> QED BY <2>1, <2>3, TwoRuns
  <1>2. UNCHANGED pc => FALSE
    OBVIOUS
  <1> QED BY <1>1, <1>2, DemoKinds, MovesLeaveNetwork, NetworkKeeps
          DEF demoVars, cliVars, runVars

(* When the second run reads, one transaction has been applied: the first  *)
(* run's.                                                                  *)
LEMMA OneResult ==
  ASSUME SecondInv, pc[AuthRun] = "start", phase = "auth"
  PROVE  \E x \in results : x.tx = tx[InitRun] /\ x.at < ledger /\ results = {x}
  <1>1. PICK x \in results : x.tx = tx[InitRun] /\ x.at < ledger
    BY DEF SecondInv, SummaryInv, InstalledFirst, InstalledBy
  <1>2. ASSUME NEW y \in results PROVE y = x
    <2>1. PICK r \in Runs : SentBy(r, y.tx)
      BY DEF SecondInv, SentInv
    <2>2. r = InitRun
      BY <2>1, TwoRuns DEF SentBy, Unsent
    <2> QED BY <1>1, <2>1, <2>2 DEF SentBy, SecondInv, QueueInv
  <1> QED BY <1>1, <1>2

(* The number it reads is the last one taken, unless it is told of a       *)
(* ledger before that transaction was applied.                             *)
LEMMA SecondReads ==
  ASSUME SecondInv, phase = "auth", BuildAuth(AuthRun)
  PROVE  (InSequence(tx[AuthRun]) \/ Lagged)'
  <1> DEFINE a == AuthRun
  <1> USE TwoRuns
  <1>1. CliBase /\ TypeOK /\ RunsTyped /\ Source[a] \in Sources
    BY DEF SecondInv, SummaryInv, CliState, CliBase, Sources
  <1>2. PICK read \in AccountStates(Source[a]) :
          tx'[a].seq = read.seq + 1 /\ tx'[a].arg = EntryOf(a, read.latest)
    BY <1>1, Building
  <1>3. /\ read.seq \in Nat /\ read.latest \in Nat /\ ledger \in Nat
        /\ seqnum[Source[a]] \in Nat /\ read.seq <= seqnum[Source[a]]
        /\ read.latest + ReadLag >= ledger - 1
        /\ NumberAt(Source[a], read.latest, read.seq)
    BY <1>1, ReadTyped, AccountHostAssumption
  <1>4. /\ UNCHANGED <<ledger, results, seqnum>> /\ pc[a] = "start"
        /\ tx'[a].source = Source[a]
    BY <1>1, Building DEF BuildAuth, Sign, netVars
  <1>5. PICK x \in results : x.tx = tx[InitRun] /\ x.at < ledger /\ results = {x}
    BY <1>4, OneResult
  <1>6. x.at \in Nat /\ ReadLag \in Nat
    BY <1>1, ResultTyped, CliSystemAssumption
  <1>7. ReadAt(tx'[a]) = read.latest /\ ReadAt(tx[a])' = ReadAt(tx'[a])
    <2>1. ReadAt(tx'[a]) = read.latest
      BY <1>2, <1>3, EntryDated
    <2> QED BY <2>1 DEF ReadAt
  <1>8. tx'[InitRun] = tx[InitRun]
    BY <1>1, Building DEF ReplacesTx
  <1>9. CASE read.latest < x.at
    <2>1. x.at <= read.latest + ReadLag
      BY <1>3, <1>5, <1>6
    <2> QED BY <1>4, <1>5, <1>7, <1>8, <1>9, <2>1 DEF Lagged
  <1>10. CASE ~(read.latest < x.at)
    <2>1. read.seq = seqnum[Source[a]]
      <3>1. seqnum[Source[a]] > 0 => x.tx.source = Source[a] /\ x.tx.seq = seqnum[Source[a]]
        BY <1>1, <1>5 DEF SecondInv, SequencesTaken
      <3>2. x.tx.source = Source[a] => x.tx.seq <= read.seq
        BY <1>3, <1>6, <1>10 DEF NumberAt
      <3> QED BY <1>3, <3>1, <3>2
    <2> QED BY <1>2, <1>4, <2>1 DEF InSequence
  <1> QED BY <1>9, <1>10

(* What it was told does not change: the first run is done, and results    *)
(* stay.                                                                   *)
LEMMA LaggedStays ==
  ASSUME CliBase, SecondWaits, [CliNext]_cliVars, Lagged, pc[AuthRun] # "start",
         tx'[AuthRun].arg = tx[AuthRun].arg
  PROVE  Lagged'
  <1>1. tx'[InitRun] = tx[InitRun]
    BY SenderKeeps, TwoRuns DEF SecondWaits, Unsent
  <1>2. ReadAt(tx[AuthRun])' = ReadAt(tx[AuthRun])
    BY DEF ReadAt
  <1> QED BY <1>1, <1>2, ResultsGrow DEF Lagged

(* Nothing is applied between what the second run reads and what it sends, *)
(* so a refusal is the fee's or what it read was old.                      *)
LEMMA SecondInTurnNext ==
  ASSUME SecondInv, [DemoNext]_demoVars
  PROVE  SecondInTurn'
  <1> DEFINE a == AuthRun
  <1> USE TwoRuns
  <1>0. [CliNext]_cliVars
    BY DemoSteps
  <1>1. CliBase /\ SecondInTurn /\ SecondWaits /\ TypeOK /\ RunsTyped
    BY DEF SecondInv, SummaryInv, CliState, CliBase
  <1>2. pc \in [Runs -> Labels] /\ seqnum \in [Sources -> Nat] /\ Source[a] \in Sources
    BY <1>1 DEF RunsTyped, CliTypeOK, Labels, Sources
  <1>3. \A label : Goto(a, label) => pc'[a] = label
    BY <1>2 DEF Goto
  <1>4. CASE BuildAuth(a)
    <2>1. pc[a] = "start" /\ pc'[a] = "simulate"
      BY <1>3, <1>4 DEF BuildAuth
    <2>2. phase = "auth"
      BY <1>1, <2>1, SecondsPhase
    <2> QED BY <1>4, <2>1, <2>2, SecondReads DEF SecondInTurn
  <1>5. CASE Simulate(a)
    <2>1. Own(a)
      BY <1>1, <1>5 DEF Simulate, CliBase, OwnTransactions, Built
    <2>2. /\ tx'[a].source = tx[a].source /\ tx'[a].seq = tx[a].seq
          /\ tx'[a].arg = tx[a].arg
      BY <1>1, <1>5, <2>1, Simulating DEF Own
    <2>3. UNCHANGED seqnum /\ pc[a] = "simulate" /\ pc'[a] = "send"
      BY <1>3, <1>5 DEF Simulate, netVars
    <2>4. Lagged => Lagged'
      BY <1>0, <1>1, <2>2, <2>3, LaggedStays
    <2> QED BY <1>1, <2>2, <2>3, <2>4 DEF SecondInTurn, InSequence
  <1>6. CASE SendRejected(a)
    <2>1. pc[a] = "send" /\ pc'[a] = "rejected" /\ tx' = tx
      BY <1>3, <1>6 DEF SendRejected
    <2>2. ~Affordable(tx[a]) \/ Lagged
      BY <1>1, <1>6, <2>1 DEF SendRejected, SecondInTurn
    <2>3. tx[a].fee \in Nat /\ tx[a].resources \in Nat
      BY <1>1, <2>1 DEF CliBase, OwnTransactions, Built, Own, Transactions
    <2>4. tx[a].fee # tx[a].resources + 1000 \/ Lagged
      BY <2>2, <2>3 DEF Affordable, BASE_FEE
    <2>5. Lagged => Lagged'
      BY <1>0, <1>1, <2>1, LaggedStays
    <2> QED BY <2>1, <2>4, <2>5 DEF SecondInTurn
  <1>7. CASE ~BuildAuth(a) /\ ~Simulate(a) /\ ~SendRejected(a)
    <2>1. ~BuildInit(a)
      BY DEF BuildInit
    <2>2. tx'[a] = tx[a]
      BY <1>0, <1>1, <1>7, <2>1, TransactionSteps
    <2>3. pc'[a] \in {"simulate", "send", "rejected"} => pc'[a] = pc[a]
      <3>1. SendAccepted(a) \/ Moves(a) => pc'[a] \notin {"simulate", "send", "rejected"}
        BY <1>3, <1>7 DEF SendAccepted, Moves, SimulateFails, SendIgnored,
           PollFound, PollNotFound, PollError, RpcBreaks
      <3> QED BY <1>0, <1>1, <1>7, <2>1, <3>1, LabelSteps
    <2>4. pc[a] \in {"simulate", "send"} => UNCHANGED seqnum
      BY <1>0, NothingQueued, StepKinds, MovesGo, ElsewhereKeeps
         DEF BuildInit, BuildAuth, Simulate, SendAccepted, netVars
    <2>5. pc[a] # "start" /\ Lagged => Lagged'
      BY <1>0, <1>1, <2>2, LaggedStays
    <2> QED BY <1>1, <2>2, <2>3, <2>4, <2>5 DEF SecondInTurn, InSequence
  <1> QED BY <1>4, <1>5, <1>6, <1>7

(* An authorised call is the second run's.                                 *)
LEMMA SecondSends ==
  ASSUME CliBase, NEW t \in Transactions, NEW r \in Runs, SentBy(r, t),
         t.function = "protected"
  PROVE  r = AuthRun
  <1>1. Own(r)
    <2>1. tx[r] # None
      BY CliSystemAssumption DEF SentBy
    <2> QED BY <2>1 DEF CliBase, OwnTransactions, Built
  <1> QED BY <1>1, TwoRuns DEF Own, SentBy

(* Who executes is the second run, whose transaction then has its result.  *)
LEMMA OneCallNext ==
  ASSUME CliBase, SentInv, OneCall, [CliNext]_cliVars
  PROVE  OneCall'
  <1>1. CASE UNCHANGED execs
    <2>1. pc[AuthRun] \notin Unsent => pc'[AuthRun] \notin Unsent /\ tx'[AuthRun] = tx[AuthRun]
      BY SenderKeeps, TwoRuns
    <2> QED BY <1>1, <2>1, ResultsGrow DEF OneCall
  <1>2. ASSUME NEW t \in pool, Include(t), t.function = "protected",
               ProtectedSucceeds(t.account, t.arg)
        PROVE  OneCall'
    <2>1. t \in Transactions /\ UNCHANGED <<pc, tx>>
      BY <1>2, Including
    <2>2. PICK r \in Runs : SentBy(r, t)
      BY DEF SentInv
    <2>3. pc'[AuthRun] \notin Unsent /\ tx'[AuthRun] = t
      BY <1>2, <2>1, <2>2, SecondSends DEF SentBy
    <2>4. Outcome(t) = "Ok"
      BY <1>2, Applying DEF ProtectedSucceeds
    <2>5. \E x \in results' : x.tx = t /\ x.status = "SUCCESS"
      BY <1>2, <2>4, Including
    <2> QED BY <2>3, <2>5 DEF OneCall
  <1> QED BY <1>1, <1>2, ExecsChange

LEMMA SecondInductive ==
  /\ DemoInit => SecondInv
  /\ SecondInv /\ [DemoNext]_demoVars => SecondInv'
  <1>1. ASSUME DemoInit PROVE SecondInv
    <2>1. SummaryInv
      BY <1>1, SummaryInductive
    <2>2. /\ pool = {} /\ results = {} /\ phase = "toolchain" /\ nonces = {}
          /\ \A r \in Runs : pc[r] = "start"
          /\ execs = << >>
      BY <1>1 DEF DemoInit, CliInit, Init
    <2>3. QueueInv /\ SentInv /\ FailureInv
      BY <2>2 DEF QueueInv, SentInv, FailureInv, NoncesExecuted, FailuresExplained,
         SimulatedAccepts, Past
    <2>4. SecondWaits /\ SecondInTurn /\ OneCall
      BY <2>2, TwoRuns DEF SecondWaits, SecondInTurn, OneCall
    <2>5. SequencesTaken
      BY <1>1 DEF DemoInit, CliInit, SequencesTaken
    <2> QED BY <2>1, <2>3, <2>4, <2>5 DEF SecondInv
  <1>2. ASSUME SecondInv, [DemoNext]_demoVars PROVE SecondInv'
    <2>1. [CliNext]_cliVars
      BY <1>2, DemoSteps
    <2>2. SummaryInv'
      BY <1>2, SummaryInductive DEF SecondInv
    <2>3. CliBase /\ StoredIsOwner /\ TypeOK'
      BY <1>2, <2>2 DEF SecondInv, SummaryInv, CliState, CliBase, InductiveInv
    <2>4. QueueInv' /\ SentInv'
      BY <1>2, <2>1, <2>3, QueueNext, SentNext DEF SecondInv, FailureInv
    <2>5. FailureInv'
      BY <1>2, <2>1, <2>3, NoncesExecutedNext, FailuresExplainedNext, SimulatedAcceptsNext
         DEF SecondInv, FailureInv
    <2>6. SecondWaits' /\ SecondInTurn' /\ OneCall'
      BY <1>2, <2>1, <2>3, SecondWaitsNext, SecondInTurnNext, OneCallNext DEF SecondInv
    <2>7. SequencesTaken'
      BY <1>2, <2>1, <2>3, SequencesTakenNext DEF SecondInv
    <2> QED BY <2>2, <2>4, <2>5, <2>6, <2>7 DEF SecondInv
  <1> QED BY <1>1, <1>2

(* A refusal is explained, and a failure not another call's: the only      *)
(* execution there may be is the second run's own, which has one result.   *)
LEMMA SecondFollows ==
  ASSUME SecondInv
  PROVE  SecondRunExplained
  <1>1. CliBase
    BY DEF SecondInv, SummaryInv, CliState
  <1>2. SUFFICES ASSUME NEW x \in results, x.tx = tx[AuthRun], x.status = "FAILED",
                        ~(x.at > tx[AuthRun].arg.signature_expiration_ledger),
                        x.key = simKey[AuthRun]
                 PROVE  FALSE
    BY DEF SecondRunExplained, SecondInv, SecondInTurn, Lagged
  <1>3. x.tx \in Transactions
    BY <1>1 DEF CliBase, RunsTyped, CliTypeOK
  <1>4. Own(AuthRun)
    <2>1. tx[AuthRun] # None
      BY <1>2, <1>3, CliSystemAssumption
    <2> QED BY <1>1, <2>1, TwoRuns DEF CliBase, OwnTransactions, Built
  <1>5. x.tx.function = "protected" /\ x.tx.account = Account[AuthRun]
    BY <1>2, <1>4, TwoRuns DEF Own
  <1>6. PICK r \in Runs : SentBy(r, x.tx)
    BY DEF SecondInv, SentInv
  <1>7. Accepts(Account[AuthRun], simKey[AuthRun], x.tx.arg)
    BY <1>1, <1>3, <1>5, <1>6, SecondSends, TwoRuns DEF SentBy
  <1>8. /\ x.tx.arg.account = Account[AuthRun]
        /\ x.tx.arg.root_invocation = Protected(Account[AuthRun])
    <2>1. PICK l \in 0..MaxLedger : x.tx.arg = EntryOf(AuthRun, l)
      BY <1>2, <1>4, TwoRuns DEF Own
    <2> QED BY <2>1, BuiltEntry DEF EntryOf, RunPayload, Payload
  <1>9. Explained(x)
    BY <1>2, <1>5 DEF SecondInv, FailureInv, FailuresExplained
  <1>10. DOMAIN execs # {}
    BY <1>2, <1>5, <1>7, <1>8, <1>9 DEF Explained, Executed
  <1>11. PICK y \in results : y.tx = tx[AuthRun] /\ y.status = "SUCCESS"
    BY <1>10 DEF SecondInv, OneCall
  <1> QED BY <1>2, <1>11 DEF SecondInv, QueueInv

(* The second run is refused for its fee, or because it was told of a      *)
(* ledger before the first run's result; its call fails only when somebody *)
(* has replaced the key or its entry has expired (demo.sh, step 5).        *)
THEOREM SecondRunExplainedHolds == DemoSpec => []SecondRunExplained
  <1> QED BY SecondInductive, SecondFollows, PTL DEF DemoSpec

-----------------------------------------------------------------------------
(* To the ledger the demo, and everybody on its network, are clients like  *)
(* any other, so that what holds of accounts holds throughout it (demo.sh, *)
(* authorize).                                                             *)
THEOREM DemoIsSafe == DemoSpec => ImplementsHost /\ [](NoReplay /\ Consent)
  <1>1. DemoInit => Init /\ CliState
    BY CliStateInductive DEF DemoInit, CliInit
  <1>2. CliState /\ [DemoNext]_demoVars => CliState' /\ [Next]_vars
    <2> SUFFICES ASSUME CliState, [DemoNext]_demoVars PROVE CliState' /\ [Next]_vars
      OBVIOUS
    <2>1. [CliNext]_cliVars
      BY DemoSteps
    <2> QED BY <2>1, CliStateInductive, StepRefines DEF CliState, InductiveInv
  <1>3. DemoSpec => ImplementsHost
    BY <1>1, <1>2, PTL DEF DemoSpec, ImplementsHost, Spec
  <1> QED BY <1>3, NoReplayHolds, ConsentHolds, PTL DEF ImplementsHost

=============================================================================
