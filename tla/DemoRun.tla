-------------------------------- MODULE DemoRun --------------------------------
(***************************************************************************)
(* demo.sh: one shell script that checks the toolchain, runs the suites,   *)
(* makes a throwaway account, deploys both contracts, and then runs        *)
(* authorize twice and bench, each to its end, before it prints what just  *)
(* happened.  Under set -euo pipefail the first failure ends it, by way of *)
(* the EXIT trap once that is set.                                         *)
(*                                                                         *)
(* The runs of authorize are those of CliSystem, on the same network and   *)
(* with everybody else on it; bench is BenchRun.                           *)
(***************************************************************************)
EXTENDS CliSystem

CONSTANTS
  InitRun, AuthRun,    \* the two runs of authorize
  Costs, LEDGER_MAX_INSN, LEDGER_MAX_TX_COUNT, SweepLengths, Slopes

VARIABLES
  phase,               \* the step of the script, "summary" or "exited"
  keyStored,           \* the throwaway key is in the CLI's key store
  funded,              \* the throwaway account exists on the network
  deployed,            \* the contracts are there
  benchPc, rows, points, prev      \* bench

scriptVars == <<phase, keyStored, funded, deployed>>
tableVars  == <<benchPc, rows, points, prev>>

B == INSTANCE BenchRun WITH pc <- benchPc

demoVars == <<cliVars, scriptVars, tableVars>>

ASSUME DemoRunAssumption ==
  /\ Runs = {InitRun, AuthRun} /\ InitRun # AuthRun
  /\ Mode[InitRun] = "init" /\ Mode[AuthRun] = "auth"
  /\ Account[InitRun] = Account[AuthRun]
  /\ Program[InitRun] = "authorize" /\ Program[AuthRun] = "authorize"
  /\ SweepLengths \in Seq(Nat) /\ Len(SweepLengths) > 0

DemoInit ==
  /\ CliInit
  /\ benchPc = "start"
  /\ rows = << >> /\ points = << >> /\ prev = None
  /\ phase = "toolchain"
  /\ keyStored = FALSE /\ funded = FALSE /\ deployed = FALSE

-----------------------------------------------------------------------------
(* Faulty: the trap is set when the contracts have been deployed.          *)
TrapSetLate == phase \in {"init", "auth", "bench"}

TrapSet == phase \in {"deploy", "init", "auth", "bench"}

(* The script ends; the trap removes the key.                              *)
Leave(label) ==
  /\ phase' = label
  /\ keyStored' = (keyStored /\ ~TrapSet)
  /\ UNCHANGED <<funded, deployed>>

Fail == Leave("exited") /\ UNCHANGED <<cliVars, tableVars>>

Proceed(from, to) == phase = from /\ phase' = to

(* Steps 1 and 2: a missing tool or a failing suite ends the script.       *)
Toolchain ==
  /\ Proceed("toolchain", "conformance")
  /\ UNCHANGED <<keyStored, funded, deployed, cliVars, tableVars>>

Conformance ==
  /\ Proceed("conformance", "account")
  /\ UNCHANGED <<keyStored, funded, deployed, cliVars, tableVars>>

(* Step 3: a key, then friendbot; curl exits with 0 whatever the service   *)
(* answered, and after a pause the script says "funded" and sets its trap. *)
GenerateKey ==
  /\ Proceed("account", "fund")
  /\ keyStored' = TRUE
  /\ UNCHANGED <<funded, deployed, cliVars, tableVars>>

AskFriendbot ==
  /\ Proceed("fund", "settle")
  /\ funded' \in BOOLEAN
  /\ UNCHANGED <<keyStored, deployed, cliVars, tableVars>>

SetTrap ==
  /\ Proceed("settle", "deploy")
  /\ UNCHANGED <<keyStored, funded, deployed, cliVars, tableVars>>

(* Step 4: without an account there is nothing to deploy with.             *)
Deploy ==
  /\ funded
  /\ Proceed("deploy", "init")
  /\ deployed' = TRUE
  /\ UNCHANGED <<keyStored, funded, cliVars, tableVars>>

(* A command fails, times out or is interrupted, which ends the script; it *)
(* may have had its effect all the same.                                   *)
CommandFails ==
  /\ phase \in {"toolchain", "conformance", "account", "fund", "settle", "deploy"}
  /\ phase' = "exited"
  /\ keyStored' \in IF phase = "account" THEN BOOLEAN ELSE {keyStored /\ ~TrapSet}
  /\ funded' \in IF phase = "fund" THEN BOOLEAN ELSE {funded}
  /\ deployed' \in IF phase = "deploy" THEN {FALSE, funded} ELSE {deployed}
  /\ UNCHANGED <<cliVars, tableVars>>

(* Faulty: without pipefail, the last command of the pipeline decides.     *)
PassesAnyhow(r) == pc[r] \in Ended

(* authorize exits with 0 only if its last assertion holds.                *)
Passes(r) == pc[r] = "success"

(* Step 5.                                                                 *)
RunAuthorize(r) ==
  /\ phase = IF r = InitRun THEN "init" ELSE "auth"
  /\ RunStep(r)
  /\ UNCHANGED <<scriptVars, tableVars>>

AuthorizeEnds(r) ==
  /\ phase = IF r = InitRun THEN "init" ELSE "auth"
  /\ pc[r] \in Ended
  /\ IF Passes(r)
     THEN /\ phase' = IF r = InitRun THEN "auth" ELSE "bench"
          /\ UNCHANGED <<keyStored, funded, deployed, cliVars, tableVars>>
     ELSE Fail

(* Step 6 and the summary.                                                 *)
RunBench ==
  /\ phase = "bench"
  /\ B!BenchNext
  /\ UNCHANGED <<cliVars, scriptVars>>

BenchEnds ==
  /\ phase = "bench" /\ benchPc \in {"done", "trapped", "panicked"}
  /\ Leave(IF benchPc = "done" THEN "summary" ELSE "exited")
  /\ UNCHANGED <<cliVars, tableVars>>

Script ==
  \/ Toolchain \/ Conformance \/ GenerateKey \/ AskFriendbot
  \/ SetTrap \/ Deploy \/ CommandFails
  \/ \E r \in Runs : RunAuthorize(r) \/ AuthorizeEnds(r)
  \/ RunBench \/ BenchEnds

(* The network, and others, once the contracts are there.                  *)
Network ==
  /\ deployed
  /\ \/ \E t \in pool : Include(t) \/ Drop(t)
     \/ \E pubkey \in PubKeys : OtherInit(Account[InitRun], pubkey)
     \/ Close
  /\ UNCHANGED <<scriptVars, tableVars>>

DemoNext == Script \/ Network

(* Every command the script starts comes to an end; the network owes       *)
(* nothing.                                                                *)
DemoSpec == DemoInit /\ [][DemoNext]_demoVars /\ WF_demoVars(Script)

-----------------------------------------------------------------------------
(* The summary tells the truth: the account it names executed a call with  *)
(* the entry this demo's second run signed with the ML-DSA key, under that *)
(* very key and after this demo had installed it, although others may have *)
(* replaced the key before, between and since; and every table of bench    *)
(* has been printed (demo.sh, "What just happened").                       *)
SummaryIsTrue ==
  phase = "summary" =>
    /\ \E i \in DOMAIN execs :
         /\ execs[i].account = Account[AuthRun]
         /\ execs[i].key = Bytes(KeyLen, PublicKey(SEED))
         /\ execs[i].entry = tx[AuthRun].arg
         /\ \E res \in results :
              res.tx = tx[InitRun] /\ res.status = "SUCCESS" /\ res.at <= execs[i].at
    /\ Len(rows) = Len(B!Calls) /\ Len(points) = Len(SweepLengths)

(* The script starts its second run when the first has seen its result.    *)
(* So the second is refused only for its fee, or because the number it was *)
(* told is from before that result, no further back than a reply may lag;  *)
(* and no other use of its nonce can make its call fail: that takes        *)
(* somebody else's key or a ledger past the expiry (demo.sh, one run of    *)
(* authorize after the other under set -e and pipefail).                   *)
SecondRunExplained ==
  /\ pc[AuthRun] = "rejected" =>
       \/ tx[AuthRun].fee # tx[AuthRun].resources + 1000
       \/ \E res \in results :
            /\ res.tx = tx[InitRun]
            /\ ReadAt(tx[AuthRun]) < res.at
            /\ res.at <= ReadAt(tx[AuthRun]) + ReadLag
  /\ \A res \in results :
       res.tx = tx[AuthRun] /\ res.status = "FAILED" =>
         \/ res.at > tx[AuthRun].arg.signature_expiration_ledger
         \/ res.key # simKey[AuthRun]

(* A script that has ended leaves its secret key behind only if it got no  *)
(* further than the account: a key that deployed a contract, or that a run *)
(* of authorize was handed, is removed (demo.sh, the EXIT trap).           *)
KeyIsThrownAway ==
  phase \in {"summary", "exited"} /\ keyStored =>
    ~deployed /\ \A r \in Runs : pc[r] = "start"

(* Commands, RPCs and measurements the script may still go through.        *)
PhasesLeft ==
  CASE phase = "toolchain" -> 9 [] phase = "conformance" -> 8 [] phase = "account" -> 7
    [] phase = "fund" -> 6      [] phase = "settle" -> 5      [] phase = "deploy" -> 4
    [] phase = "init" -> 3      [] phase = "auth" -> 2        [] phase = "bench" -> 1
    [] OTHER -> 0

BenchLeft ==
  CASE benchPc = "start" -> 1 + Len(B!Calls) + Len(SweepLengths)
    [] benchPc = "rows"  -> Len(B!Calls) - Len(rows) + Len(SweepLengths)
    [] benchPc = "sweep" -> Len(SweepLengths) - Len(points)
    [] OTHER             -> 0

ScriptLeft == PhasesLeft + StepsLeft(InitRun) + StepsLeft(AuthRun) + BenchLeft

(* Whatever the script does brings its end nearer, and nothing that the    *)
(* network or others do meanwhile puts it off: no command is ever run      *)
(* again (demo.sh; its two runs of authorize and bench).                   *)
ScriptAdvances ==
  [][IF Script THEN ScriptLeft' < ScriptLeft ELSE ScriptLeft' = ScriptLeft]_demoVars

(* The script ends, in whatever way.                                       *)
DemoEnds == <>(phase \in {"summary", "exited"})

=============================================================================
