------------------------------ MODULE CliSystem ------------------------------
(***************************************************************************)
(* The programs authorize of crates/pq-cli and submit of phase0/harness    *)
(* against a live network.                                                 *)
(*                                                                         *)
(* Each run reads the account state over RPC, builds a transaction that    *)
(* calls init or protected, simulates it, sends it and polls for its       *)
(* result, one RPC at a time and concurrently with the other runs, with    *)
(* the network that includes, drops and applies transactions and closes    *)
(* ledgers, and with anybody who initialises an account again.             *)
(*                                                                         *)
(* Contracts and host are those of AccountHost.  The RPC service and the   *)
(* network are not in this repository; what they may answer is modelled    *)
(* from what rpc, simulate and submit distinguish.                         *)
(***************************************************************************)
EXTENDS AccountHost

CONSTANTS
  Runs,           \* the runs of the programs
  Program,        \* Program[r]: "authorize" or "submit"
  Mode,           \* Mode[r]: third argument of authorize; submit is "auth"
  Account,        \* Account[r]: its second argument
  Source,         \* Source[r]: its first argument, the paying account
  SEED,           \* the seed compiled into the program
  ExpiryWindow,   \* ledgers an authorisation stays valid (1000 in the code)
  MaxPolls,       \* MaxPolls[program]: polls before it gives up (40 and 30)
  Quotes,         \* what a simulation may say of the resource fee
  FeeRange,       \* values the fee field of a transaction holds (2^32)
  ReadLag         \* ledgers a read over RPC may be behind the last closed one

VARIABLES
  pc,             \* pc[r]: what run r does next, or how it ended
  tx,             \* tx[r]: the transaction it built
  polls,          \* polls[r]: times it was told NOT_FOUND
  simKey,         \* history: the account's key when r simulated
  seqnum,         \* seqnum[s]: sequence number of paying account s
  pool,           \* transactions accepted and not yet applied
  results         \* applied transactions [tx, status, at, key]

runVars == <<pc, tx, polls, simKey>>
netVars == <<seqnum, pool, results>>
cliVars == <<vars, runVars, netVars>>

Sources == {Source[r] : r \in Runs}

(* How a run ends: with the status SUCCESS or another one, refused by the  *)
(* network, after too many polls, or because some RPC answer is unusable.  *)
Ended == {"success", "not_success", "rejected", "timed_out", "broken"}

-----------------------------------------------------------------------------
AuthorizeContext == Bytes(13, "pq-account-v1")

(* submit was written for the prototype, which knows no contexts.          *)
RunContext(r) ==
  IF Program[r] = "submit" THEN EmptyContext ELSE AuthorizeContext

(* Faulty: both programs derive the same nonce.                            *)
NonceShared(r, latest) == latest * 1000003 + 29

NonceOf(r, latest) ==
  latest * 1000003 + (IF Program[r] = "submit" THEN 17 ELSE 29)

(* The payload an auth run signs, from the latest closed ledger.           *)
RunPayload(r, latest) ==
  Payload(Passphrase, NonceOf(r, latest), latest + ExpiryWindow, Account[r])

(* The sequence number an account had when ledger l was closed.            *)
NumberAt(source, l, number) ==
  /\ \/ number = 0
     \/ \E res \in results :
          res.tx.source = source /\ res.tx.seq = number /\ res.at <= l
  /\ \A res \in results :
       res.tx.source = source /\ res.at <= l => res.tx.seq <= number

(* Faulty: number and ledger are taken from replies of their own.          *)
AccountStatesTorn(source) ==
  [seq : {seqnum[source]}, latest : {ledger - 1}]

(* account_state: a reply gives sequence number and number of one closed   *)
(* ledger, by up to ReadLag not the last; it may be older than what a poll *)
(* has shown already.                                                      *)
AccountStates(source) ==
  {read \in [seq : 0..seqnum[source], latest : 0..(ledger - 1)] :
     /\ read.latest + ReadLag >= ledger - 1
     /\ NumberAt(source, read.latest, read.seq)}

(* Faulty: uses the source's current sequence number, not the next.        *)
TransactionStale(r, number, function, arg) ==
  [source |-> Source[r], seq |-> number, account |-> Account[r],
   function |-> function, arg |-> arg, fee |-> 1000000, resources |-> 0]

Transaction(r, number, function, arg) ==
  [source    |-> Source[r],
   seq       |-> number + 1,
   account   |-> Account[r],
   function  |-> function,
   arg       |-> arg,
   fee       |-> 1000000,
   resources |-> 0]

(* Faulty: keeps build_tx's fee when the simulation names none.            *)
TxFeeKept(quote) ==
  IF quote.reported = None THEN 1000000 ELSE (quote.reported + 1000) % FeeRange

(* SimResult.min_fee and the fee submit sets: a missing quote counts as    *)
(* zero, and i64 is cast to u32.                                           *)
TxFee(quote) ==
  ((IF quote.reported = None THEN 0 ELSE quote.reported) + 1000) % FeeRange

CliInit ==
  /\ Init
  /\ pc = [r \in Runs |-> "start"]
  /\ tx = [r \in Runs |-> None]
  /\ polls = [r \in Runs |-> 0]
  /\ simKey = [r \in Runs |-> None]
  /\ seqnum = [s \in Sources |-> 0]
  /\ pool = {}
  /\ results = {}

Goto(r, label) == pc' = [pc EXCEPT ![r] = label]

(* account_state, then the transaction of either mode; in auth mode the    *)
(* entry is signed here.                                                   *)
BuildInit(r) ==
  /\ pc[r] = "start" /\ Mode[r] = "init"
  /\ \E read \in AccountStates(Source[r]) :
       tx' = [tx EXCEPT ![r] = Transaction(r, read.seq, "init",
                EncodeVerifyingKey(SCHEME, PublicKey(SEED)).val)]
  /\ Goto(r, "simulate")
  /\ UNCHANGED <<vars, polls, simKey, netVars>>

BuildAuth(r) ==
  /\ pc[r] = "start" /\ Mode[r] = "auth"
  /\ \E read \in AccountStates(Source[r]) :
       LET p     == RunPayload(r, read.latest)
           built == BuildAuthEntry(SCHEME, Account[r], SEED, p, RunContext(r))
       IN  /\ Sign(SEED, Account[r], p, RunContext(r))
           /\ tx' = [tx EXCEPT ![r] = Transaction(r, read.seq, "protected", built.val)]
  /\ Goto(r, "simulate")
  /\ UNCHANGED <<polls, simKey, netVars>>

(* What applying a transaction to the current state answers; a simulation  *)
(* that enforces authorisation answers the same.                           *)
Outcome(t) ==
  IF t.function = "init" THEN InitialiseOf(t.account, t.arg).res
                         ELSE RequireAuth(t.account, t.arg)

(* The resources of the simulation are attached and the fee is set.        *)
AttachResources(r) ==
  \E quote \in Quotes :
    /\ Program[r] = "submit" => quote.reported # None    \* unwrap
    /\ tx' = [tx EXCEPT ![r] = [@ EXCEPT !.fee = TxFee(quote),
                                         !.resources = quote.resources]]

(* Faulty: the simulation records authorisations instead of checking them. *)
SimulateRecording(r) ==
  /\ pc[r] = "simulate"
  /\ AttachResources(r)
  /\ simKey' = [simKey EXCEPT ![r] = owner[Account[r]]]
  /\ Goto(r, "send")
  /\ UNCHANGED <<vars, polls, netVars>>

(* Faulty: the simulated call uses up its nonce.                           *)
SimulateConsuming(r) ==
  /\ pc[r] = "simulate"
  /\ Outcome(tx[r]) = "Ok"
  /\ simKey' = [simKey EXCEPT ![r] = owner[Account[r]]]
  /\ nonces' = IF tx[r].function = "init" THEN nonces
               ELSE nonces \cup {NonceEntry(tx[r].arg)}
  /\ AttachResources(r)
  /\ Goto(r, "send")
  /\ UNCHANGED <<ledger, stored, owner, requests, reply, execs, polls, netVars>>

(* simulate with authMode "enforce"; an error ends the run.                *)
Simulate(r) ==
  /\ pc[r] = "simulate"
  /\ Outcome(tx[r]) = "Ok"
  /\ AttachResources(r)
  /\ simKey' = [simKey EXCEPT ![r] = owner[Account[r]]]
  /\ Goto(r, "send")
  /\ UNCHANGED <<vars, polls, netVars>>

SimulateFails(r) ==
  /\ pc[r] = "simulate"
  /\ Outcome(tx[r]) # "Ok"
  /\ Goto(r, "broken")
  /\ UNCHANGED <<vars, tx, polls, simKey, netVars>>

-----------------------------------------------------------------------------
(* submit: sendTransaction.                                                *)

InSequence(t) == t.seq = seqnum[t.source] + 1

(* What is offered beyond the resource fee has to reach the base fee.      *)
BASE_FEE == 100
Affordable(t) == t.fee >= t.resources + BASE_FEE

Queued(source) == \E t \in pool : t.source = source

(* PENDING; the answer itself may be lost, which ends the run.             *)
SendAccepted(r) ==
  /\ pc[r] = "send"
  /\ InSequence(tx[r]) /\ Affordable(tx[r]) /\ ~Queued(Source[r])
  /\ pool' = pool \cup {tx[r]}
  /\ Goto(r, "poll") \/ Goto(r, "broken")
  /\ UNCHANGED <<vars, tx, polls, simKey, seqnum, results>>

(* An errorResultXdr: the sequence number has been used, or the fee is too *)
(* small.                                                                  *)
SendRejected(r) ==
  /\ pc[r] = "send"
  /\ ~InSequence(tx[r]) \/ ~Affordable(tx[r])
  /\ Goto(r, "rejected")
  /\ UNCHANGED <<vars, tx, polls, simKey, netVars>>

(* DUPLICATE, TRY_AGAIN_LATER or a JSON-RPC error carries no               *)
(* errorResultXdr: the run starts to poll although nothing was queued.     *)
SendIgnored(r) ==
  /\ pc[r] = "send"
  /\ Goto(r, "poll")
  /\ UNCHANGED <<vars, tx, polls, simKey, netVars>>

(* submit: getTransaction, polled until the status is not NOT_FOUND.       *)
Visible(t) == {res \in results : res.tx = t /\ res.at < ledger}

(* A reply behind the last closed ledger does not have a result yet.       *)
Overlooked(t) == \A res \in Visible(t) : res.at + ReadLag >= ledger

(* Faulty: takes any result for a success.                                 *)
PollFoundAny(r) ==
  /\ pc[r] = "poll"
  /\ Visible(tx[r]) # {}
  /\ Goto(r, "success")
  /\ UNCHANGED <<vars, tx, polls, simKey, netVars>>

PollFound(r) ==
  /\ pc[r] = "poll"
  /\ \E res \in Visible(tx[r]) :
       Goto(r, IF res.status = "SUCCESS" THEN "success" ELSE "not_success")
  /\ UNCHANGED <<vars, tx, polls, simKey, netVars>>

(* Faulty: counts round and round, and never gives up.                     *)
PollNotFoundForever(r) ==
  /\ pc[r] = "poll"
  /\ Overlooked(tx[r])
  /\ polls' = [polls EXCEPT ![r] = (@ + 1) % MaxPolls[Program[r]]]
  /\ UNCHANGED <<vars, pc, tx, simKey, netVars>>

PollNotFound(r) ==
  /\ pc[r] = "poll"
  /\ Overlooked(tx[r])
  /\ polls' = [polls EXCEPT ![r] = @ + 1]
  /\ Goto(r, IF polls[r] + 1 = MaxPolls[Program[r]] THEN "timed_out" ELSE "poll")
  /\ UNCHANGED <<vars, tx, simKey, netVars>>

(* A reply without result.status is not NOT_FOUND: polling ends, and the   *)
(* assertion of authorize on SUCCESS fails.                                *)
PollError(r) ==
  /\ pc[r] = "poll"
  /\ Goto(r, "not_success")
  /\ UNCHANGED <<vars, tx, polls, simKey, netVars>>

(* curl fails, times out, or prints something that is not JSON; or the     *)
(* reply to a read or a simulation lacks what is expected of it, for       *)
(* submit also the fee.                                                    *)
RpcBreaks(r) ==
  /\ pc[r] \in {"start", "simulate", "send", "poll"}
  /\ Goto(r, "broken")
  /\ UNCHANGED <<vars, tx, polls, simKey, netVars>>

RunStep(r) ==
  \/ BuildInit(r) \/ BuildAuth(r)
  \/ Simulate(r) \/ SimulateFails(r)
  \/ SendAccepted(r) \/ SendRejected(r) \/ SendIgnored(r)
  \/ PollFound(r) \/ PollNotFound(r) \/ PollError(r)
  \/ RpcBreaks(r)

-----------------------------------------------------------------------------
(* The network.                                                            *)

Apply(t) ==
  IF t.function = "init"
  THEN InvokeInit(t.account, t.arg)
  ELSE ProtectedSucceeds(t.account, t.arg) \/ ProtectedFails(t.account, t.arg)

Include(t) ==
  /\ InSequence(t)
  /\ Apply(t)
  /\ seqnum' = [seqnum EXCEPT ![t.source] = t.seq]
  /\ pool' = pool \ {t}
  /\ results' = results \cup
       {[tx     |-> t,
         status |-> IF Outcome(t) = "Ok" THEN "SUCCESS" ELSE "FAILED",
         at     |-> ledger,
         key    |-> owner[t.account]]}
  /\ UNCHANGED runVars

Drop(t) ==
  /\ pool' = pool \ {t}
  /\ UNCHANGED <<vars, runVars, seqnum, results>>

Close ==
  /\ CloseLedger
  /\ UNCHANGED <<runVars, netVars>>

(* init asks for no authorisation: some other client replaces the key.     *)
OtherInit(a, pubkey) ==
  /\ InvokeInit(a, pubkey)
  /\ UNCHANGED <<runVars, netVars>>

CliNext ==
  \/ \E r \in Runs : RunStep(r)
  \/ \E t \in pool : Include(t) \/ Drop(t)
  \/ \E a \in Accounts, pubkey \in PubKeys : OtherInit(a, pubkey)
  \/ Close

(* A run is a sequential program that is never blocked.                    *)
CliSpec ==
  CliInit /\ [][CliNext]_cliVars /\ \A r \in Runs : WF_cliVars(RunStep(r))

-----------------------------------------------------------------------------
(* What runs build and the network applies.                                *)
Transactions ==
  [source : Sources, seq : Nat \ {0}, account : Accounts,
   function : {"init"}, arg : PubKeys, fee : Nat, resources : Nat]
  \cup
  [source : Sources, seq : Nat \ {0}, account : Accounts,
   function : {"protected"}, arg : Entries, fee : Nat, resources : Nat]

ASSUME CliSystemAssumption ==
  /\ Program \in [Runs -> {"authorize", "submit"}]
  /\ Mode \in [Runs -> {"init", "auth"}]
  /\ \A r \in Runs : Program[r] = "submit" => Mode[r] = "auth"
  /\ Account \in [Runs -> Accounts]
  /\ SEED \in Seeds
  /\ ExpiryWindow \in Nat /\ MaxPolls \in [{"authorize", "submit"} -> Nat \ {0}]
  /\ \A quote \in Quotes :
       quote.resources \in Nat /\ quote.reported \in {quote.resources, None}
  /\ FeeRange \in Nat \ {0}
  /\ ReadLag \in Nat
  /\ Passphrase \in Passphrases
  /\ \A r \in Runs : RunContext(r) \in Contexts
  /\ \A r \in Runs, l \in 0..MaxLedger :
       NonceOf(r, l) \in Nonces /\ l + ExpiryWindow \in Expiries
  /\ EncodeVerifyingKey(SCHEME, PublicKey(SEED)).val \in PubKeys
  /\ None \notin Transactions

(* The state of runs and network is well typed (authorize, submit).        *)
CliTypeOK ==
  /\ pc \in [Runs -> Ended \cup {"start", "simulate", "send", "poll"}]
  /\ tx \in [Runs -> Transactions \cup {None}]
  /\ polls \in [Runs -> Nat] /\ \A r \in Runs : polls[r] <= MaxPolls[Program[r]]
  /\ simKey \in [Runs -> Slots]
  /\ seqnum \in [Sources -> Nat]
  /\ pool \subseteq Transactions
  /\ results \subseteq [tx : Transactions, status : {"SUCCESS", "FAILED"},
                        at : 1..MaxLedger, key : Slots]

-----------------------------------------------------------------------------
(* An auth run that reports success has had its call executed, with the    *)
(* entry it signed, and no execution is reported by two transactions       *)
(* (authorize, the final assertion; submit, what it returns).              *)
Succeeded(r) == Mode[r] = "auth" /\ pc[r] = "success"

SuccessIsAnExecution ==
  /\ \A r \in Runs : Succeeded(r) =>
       \E i \in DOMAIN execs :
         execs[i].account = Account[r] /\ execs[i].entry = tx[r].arg
  /\ \A r, q \in Runs :
       Succeeded(r) /\ Succeeded(q) /\ tx[r] # tx[q] => tx[r].arg # tx[q].arg

(* A call that simulated with enforcement and still fails on the ledger    *)
(* was overtaken: its entry expired, the account got another key, or an    *)
(* execution used its nonce first.  Contract, client and simulation never  *)
(* disagree otherwise (authorize, simulate with "enforce").                *)
FailureExplained ==
  \A r \in Runs, res \in results :
    (/\ Mode[r] = "auth"
     /\ pc[r] \in {"send", "poll", "success", "not_success", "timed_out"}
     /\ res.tx = tx[r] /\ res.status = "FAILED")
      => \/ res.at > tx[r].arg.signature_expiration_ledger
         \/ res.key # simKey[r]
         \/ \E i \in DOMAIN execs :
              /\ execs[i].account = Account[r]
              /\ execs[i].entry.nonce = tx[r].arg.nonce
              /\ execs[i].at <= res.at

(* A transaction on its way to the ledger pays for the resources it asks   *)
(* for and never more than 1000 stroops above, although the quote may have *)
(* been missing and the cast to 32 bits may have wrapped (simulate,        *)
(* submit).                                                                *)
FairFees ==
  \A t \in pool \cup {res.tx : res \in results} :
    t.fee >= t.resources /\ t.fee <= t.resources + 1000

(* The last ledger the run that built a transaction had seen closed: its   *)
(* entry is dated from it.                                                 *)
ReadAt(t) == t.arg.signature_expiration_ledger - ExpiryWindow

(* A run is refused by the network only because a transaction of its       *)
(* source had its sequence number, of a later ledger than the one the run  *)
(* read, or because its fee is not the quoted one and 1000 stroops         *)
(* (account_state, submit).                                                *)
RejectionExplained ==
  \A r \in Runs : pc[r] = "rejected" =>
    \/ tx[r].fee # tx[r].resources + 1000
    \/ \E res \in results :
         /\ res.tx.source = Source[r] /\ res.tx.seq >= tx[r].seq
         /\ Mode[r] = "auth" => res.at > ReadAt(tx[r])

(* A retry does not pass a transaction that is still pending: where two    *)
(* transactions of a source are applied, the second one's run read a       *)
(* ledger in which the first was applied already, so a caller that checks  *)
(* its account in that ledger knows what became of the first, whether its  *)
(* run gave up on it or broke (account_state; submit, "timed out waiting   *)
(* for inclusion").                                                        *)
AppliedBeforeRead ==
  \A x, y \in results :
    (/\ x.tx.source = y.tx.source /\ x.tx.seq < y.tx.seq
     /\ y.tx.function = "protected")
      => x.at <= ReadAt(y.tx)

(* Runs that end up with one nonce for one account hold the very same      *)
(* entry, and so the same grant: programs of two kinds never collide       *)
(* (nonces of authorize and submit).                                       *)
CollisionsAreDuplicates ==
  \A r, q \in Runs :
    (/\ Account[r] = Account[q] /\ Mode[r] = "auth" /\ Mode[q] = "auth"
     /\ tx[r] # None /\ tx[q] # None
     /\ tx[r].arg.nonce = tx[q].arg.nonce)
      => tx[r].arg = tx[q].arg

(* Whatever the network and the RPC service do, every run ends (submit     *)
(* polls a bounded number of times).                                       *)
RunsEnd == \A r \in Runs : <>(pc[r] \in Ended)

(* RPCs that run r may still make.                                         *)
StepsLeft(r) ==
  CASE pc[r] = "start"    -> 3 + MaxPolls[Program[r]]
    [] pc[r] = "simulate" -> 2 + MaxPolls[Program[r]]
    [] pc[r] = "send"     -> 1 + MaxPolls[Program[r]]
    [] pc[r] = "poll"     -> MaxPolls[Program[r]] - polls[r]
    [] OTHER              -> 0

(* Each step of a run brings its end nearer, and nothing that network,     *)
(* RPC service or other runs do puts it off or stands in for it: a run     *)
(* makes 43 RPCs at most for authorize and 33 for submit (rpc, submit).     *)
RunsAdvance ==
  [][\A r \in Runs : IF RunStep(r) THEN StepsLeft(r)' < StepsLeft(r)
                                   ELSE StepsLeft(r)' = StepsLeft(r)]_cliVars

(* A run of a program that was not written for the contract of its account *)
(* ends without sending anything, since it signs under another context and *)
(* simulates with enforcement (authorize on a prototype, submit on a       *)
(* pq-account).                                                            *)
WrongProgramStopsEarly ==
  \A r \in Runs :
    Mode[r] = "auth" /\ RunContext(r) # ClientContext(Account[r])
      => pc[r] \in {"start", "simulate", "broken"}

(* Runs, RPC and network together do nothing to the ledger that clients,   *)
(* host and contracts of AccountHost would not do: a failed transaction    *)
(* leaves no trace but its sequence number.                                *)
ImplementsHost == Spec

-----------------------------------------------------------------------------
(* payload.rs:13 has the nonce "unique per account": two runs that sign    *)
(* for one account sign different nonces (authorize).                      *)
NonceUniquePerAccount ==
  \A r, q \in Runs :
    (/\ r # q /\ Account[r] = Account[q]
     /\ Mode[r] = "auth" /\ Mode[q] = "auth"
     /\ tx[r] # None /\ tx[q] # None)
      => tx[r].arg.nonce # tx[q].arg.nonce

(* pq-cli lib.rs:123 has submit "poll to completion": when it has returned *)
(* a status to its caller the transaction is no longer pending.            *)
SubmitPollsToCompletion ==
  \A r \in Runs : pc[r] \in {"success", "not_success"} => tx[r] \notin pool

=============================================================================
