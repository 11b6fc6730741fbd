-------------------------- MODULE CliOutcomes_proofs --------------------------
(***************************************************************************)
(* Machine-checked proofs of what a user may conclude from how a run of    *)
(* authorize or submit ended, for any runs, bounds, quotes and behaviour   *)
(* of RPC service and network.                                             *)
(***************************************************************************)
EXTENDS CliSystem_proofs

(* The moves of a run that read or send and change nothing but its label   *)
(* and its count of polls.                                                 *)
Moves(r) ==
  \/ SimulateFails(r) \/ SendRejected(r) \/ SendIgnored(r)
  \/ PollFound(r) \/ PollNotFound(r) \/ PollError(r) \/ RpcBreaks(r)

(* The steps of everybody else.                                            *)
Elsewhere ==
  \/ \E t \in pool : Drop(t)
  \/ \E a \in Accounts, pubkey \in PubKeys : OtherInit(a, pubkey)
  \/ Close

(* Every step is one of these.                                             *)
LEMMA StepKinds ==
  ASSUME [CliNext]_cliVars
  PROVE  \/ \E r \in Runs : BuildInit(r) \/ BuildAuth(r) \/ Simulate(r)
                              \/ SendAccepted(r) \/ Moves(r)
         \/ \E t \in pool : Include(t)
         \/ Elsewhere
         \/ UNCHANGED cliVars
  BY Zenon DEF CliNext, RunStep, Moves, Elsewhere

(* A move gives the run another label.                                     *)
LEMMA MovesGo ==
  ASSUME NEW r \in Runs, Moves(r)
  PROVE  /\ UNCHANGED <<vars, tx, simKey, seqnum, pool, results>>
         /\ \E label : Goto(r, label)
  BY DEF Moves, SimulateFails, SendRejected, SendIgnored, PollFound,
     PollNotFound, PollError, RpcBreaks, netVars

(* What the others leave alone.                                            *)
LEMMA ElsewhereKeeps ==
  ASSUME Elsewhere \/ UNCHANGED cliVars
  PROVE  /\ UNCHANGED <<pc, tx, polls, simKey, seqnum, results>>
         /\ pool' \subseteq pool
  BY DEF Elsewhere, Drop, OtherInit, Close, cliVars, runVars, netVars

-----------------------------------------------------------------------------
(* Types.                                                                  *)

(* The remainder of a number is no larger than the number.                 *)
LEMMA Remainder ==
  ASSUME NEW n \in Nat, NEW m \in Nat \ {0}
  PROVE  n % m \in Nat /\ n % m <= n
  <1> DEFINE q == n \div m
  <1>1. q \in Nat /\ n = m * q + (n % m) /\ n % m \in Nat
    OBVIOUS
  <1> HIDE DEF q
  <1>2. m * q \in Nat
    BY <1>1
  <1> QED BY <1>1, <1>2

(* The fee that is set is at most 1000 stroops above the resources.        *)
LEMMA FeeBound ==
  ASSUME NEW quote \in Quotes
  PROVE  /\ quote.resources \in Nat
         /\ TxFee(quote) \in Nat
         /\ TxFee(quote) <= quote.resources + 1000
  <1> DEFINE n == (IF quote.reported = None THEN 0 ELSE quote.reported) + 1000
  <1>1. quote.resources \in Nat /\ quote.reported \in {quote.resources, None}
    BY CliSystemAssumption
  <1>2. n \in Nat /\ n <= quote.resources + 1000
    BY <1>1
  <1>3. TxFee(quote) = n % FeeRange
    BY DEF TxFee
  <1>4. FeeRange \in Nat \ {0}
    BY CliSystemAssumption
  <1> HIDE DEF n
  <1> QED BY <1>1, <1>2, <1>3, <1>4, Remainder

(* A run that has not ended may still poll.                                *)
RunsTyped ==
  /\ CliTypeOK
  /\ \A r \in Runs : pc[r] \notin Ended => polls[r] < MaxPolls[Program[r]]

Labels == Ended \cup {"start", "simulate", "send", "poll"}

(* Initially nothing has been built, polled or applied.                    *)
LEMMA InitTyped == CliInit => RunsTyped
  <1> SUFFICES ASSUME CliInit PROVE RunsTyped
    OBVIOUS
  <1>1. pool = {} /\ results = {} /\ seqnum \in [Sources -> Nat]
    BY DEF CliInit
  <1>2. /\ pc \in [Runs -> Ended \cup {"start", "simulate", "send", "poll"}]
        /\ tx \in [Runs -> Transactions \cup {None}]
        /\ simKey \in [Runs -> Slots]
    BY DEF CliInit, Slots
  <1>3. \A r \in Runs : /\ polls[r] = 0
                        /\ MaxPolls[Program[r]] \in Nat \ {0}
    BY CliSystemAssumption DEF CliInit
  <1>4. /\ polls \in [Runs -> Nat]
        /\ \A r \in Runs : /\ polls[r] <= MaxPolls[Program[r]]
                          /\ polls[r] < MaxPolls[Program[r]]
    BY <1>3 DEF CliInit
  <1> QED BY <1>1, <1>2, <1>4 DEF RunsTyped, CliTypeOK

(* A run that has not ended goes on, or ends, without a poll.              *)
LEMMA GotoTyped ==
  ASSUME RunsTyped, NEW r \in Runs, NEW label \in Labels, Goto(r, label),
         pc[r] \notin Ended, UNCHANGED polls
  PROVE  /\ pc' \in [Runs -> Labels]
         /\ polls' \in [Runs -> Nat]
         /\ \A q \in Runs : /\ polls'[q] <= MaxPolls[Program[q]]
                            /\ pc'[q] \notin Ended => polls'[q] < MaxPolls[Program[q]]
  <1>1. pc \in [Runs -> Labels]
    BY DEF RunsTyped, CliTypeOK, Labels
  <1>2. pc' = [pc EXCEPT ![r] = label]
    BY DEF Goto
  <1>3. pc' \in [Runs -> Labels]
    BY <1>1, <1>2
  <1>4. \A q \in Runs : pc'[q] = IF q = r THEN label ELSE pc[q]
    BY <1>1, <1>2
  <1> QED BY <1>3, <1>4 DEF RunsTyped, CliTypeOK

(* What a run may be told of its source: a number it has or had, and a     *)
(* ledger that was closed, no further back than ReadLag.                   *)
LEMMA ReadTyped ==
  ASSUME TypeOK, RunsTyped, NEW s \in Sources, NEW read \in AccountStates(s)
  PROVE  /\ read.seq \in Nat /\ seqnum[s] \in Nat /\ read.seq <= seqnum[s]
         /\ read.latest \in 0..MaxLedger
         /\ ledger \in Nat /\ read.latest <= ledger - 1
         /\ read.latest + ReadLag >= ledger - 1
         /\ NumberAt(s, read.latest, read.seq)
  <1>1. /\ read \in [seq : 0..seqnum[s], latest : 0..(ledger - 1)]
        /\ read.latest + ReadLag >= ledger - 1
        /\ NumberAt(s, read.latest, read.seq)
    BY DEF AccountStates
  <1>2. ledger \in 1..MaxLedger /\ MaxLedger \in Nat
    BY AccountHostAssumption DEF TypeOK
  <1>3. seqnum[s] \in Nat
    BY DEF RunsTyped, CliTypeOK
  <1> QED BY <1>1, <1>2, <1>3

(* A transaction that is built has the type of one.                        *)
LEMMA TransactionTyped ==
  ASSUME NEW r \in Runs, NEW number \in Nat, NEW arg,
         NEW function \in {"init", "protected"},
         arg \in IF function = "init" THEN PubKeys ELSE Entries
  PROVE  Transaction(r, number, function, arg) \in Transactions
  <1>1. Source[r] \in Sources /\ number + 1 \in Nat \ {0}
    BY DEF Sources
  <1>2. Account[r] \in Accounts
    BY CliSystemAssumption
  <1> QED BY <1>1, <1>2 DEF Transaction, Transactions

(* What a transaction is built of.                                         *)
LEMMA TransactionFields ==
  ASSUME NEW r, NEW number, NEW function, NEW arg, NEW t,
         t = Transaction(r, number, function, arg)
  PROVE  /\ t.source = Source[r] /\ t.account = Account[r]
         /\ t.seq = number + 1
         /\ t.function = function /\ t.arg = arg
  BY DEF Transaction

(* The entry a run signs, from what it read.                               *)
EntryOf(r, latest) ==
  BuildAuthEntry(SCHEME, Account[r], SEED, RunPayload(r, latest), RunContext(r)).val

(* It is an entry of the run's account with the nonce of the ledger.       *)
LEMMA EntryTyped ==
  ASSUME NEW r \in Runs, NEW latest \in 0..MaxLedger
  PROVE  EntryOf(r, latest) \in Entries
  <1> USE CliSystemAssumption
  <1> DEFINE p == RunPayload(r, latest)
  <1>1. NonceOf(r, latest) \in Nonces /\ latest + ExpiryWindow \in Expiries
    OBVIOUS
  <1>2. p \in Payloads /\ p.invocation = Protected(Account[r])
    BY <1>1, PayloadType DEF RunPayload
  <1> HIDE DEF p
  <1>3. BuildAuthEntry(SCHEME, Account[r], SEED, p, RunContext(r)).val \in Entries
    BY <1>2, SignedEntry
  <1> QED BY <1>3 DEF EntryOf, p

(* Replacing the transaction of one run leaves the others theirs.          *)
ReplacesTx(r) ==
  /\ tx' \in [Runs -> Transactions \cup {None}]
  /\ tx'[r] \in Transactions
  /\ \A q \in Runs : q # r => tx'[q] = tx[q]

(* EXCEPT replaces it that way.                                            *)
LEMMA Replacing ==
  ASSUME RunsTyped, NEW r \in Runs, NEW t \in Transactions,
         tx' = [tx EXCEPT ![r] = t]
  PROVE  ReplacesTx(r) /\ tx'[r] = t
  <1>1. tx \in [Runs -> Transactions \cup {None}]
    BY DEF RunsTyped, CliTypeOK
  <1> QED BY <1>1 DEF ReplacesTx

(* What a building run puts into its transaction.                          *)
LEMMA Building ==
  ASSUME TypeOK, RunsTyped, NEW r \in Runs, BuildInit(r) \/ BuildAuth(r)
  PROVE  /\ ReplacesTx(r)
         /\ tx'[r].source = Source[r] /\ tx'[r].account = Account[r]
         /\ tx'[r].function = IF Mode[r] = "init" THEN "init" ELSE "protected"
         /\ \E read \in AccountStates(Source[r]) :
              /\ tx'[r].seq = read.seq + 1
              /\ Mode[r] = "auth" => tx'[r].arg = EntryOf(r, read.latest)
  <1>1. Source[r] \in Sources
    BY DEF Sources
  <1>2. CASE BuildInit(r)
    <2> DEFINE key == EncodeVerifyingKey(SCHEME, PublicKey(SEED)).val
    <2>1. key \in PubKeys
      BY CliSystemAssumption
    <2>2. /\ \E read \in AccountStates(Source[r]) :
               tx' = [tx EXCEPT ![r] = Transaction(r, read.seq, "init", key)]
          /\ Mode[r] = "init"
      BY <1>2 DEF BuildInit
    <2> HIDE DEF key
    <2>3. PICK read \in AccountStates(Source[r]) :
            tx' = [tx EXCEPT ![r] = Transaction(r, read.seq, "init", key)]
      BY <2>2
    <2>4. Transaction(r, read.seq, "init", key) \in Transactions
      BY <1>1, <2>1, ReadTyped, TransactionTyped
    <2>5. ReplacesTx(r) /\ tx'[r] = Transaction(r, read.seq, "init", key)
      BY <2>3, <2>4, Replacing
    <2> QED BY <2>2, <2>5, TransactionFields
  <1>3. CASE BuildAuth(r)
    <2>1. PICK read \in AccountStates(Source[r]) :
            tx' = [tx EXCEPT ![r] =
                     Transaction(r, read.seq, "protected", EntryOf(r, read.latest))]
      BY <1>3 DEF BuildAuth, EntryOf
    <2>2. Mode[r] = "auth"
      BY <1>3 DEF BuildAuth
    <2>3. read.seq \in Nat /\ read.latest \in 0..MaxLedger
      BY <1>1, ReadTyped
    <2>4. Transaction(r, read.seq, "protected", EntryOf(r, read.latest)) \in Transactions
      BY <2>3, TransactionTyped, EntryTyped
    <2>5. ReplacesTx(r)
          /\ tx'[r] = Transaction(r, read.seq, "protected", EntryOf(r, read.latest))
      BY <2>1, <2>4, Replacing
    <2> QED BY <2>2, <2>5, TransactionFields
  <1> QED BY <1>2, <1>3

(* What a simulation puts into it: fee and resources.                      *)
LEMMA Simulating ==
  ASSUME RunsTyped, NEW r \in Runs, Simulate(r), tx[r] \in Transactions
  PROVE  /\ ReplacesTx(r)
         /\ tx'[r].source = tx[r].source /\ tx'[r].account = tx[r].account
         /\ tx'[r].seq = tx[r].seq /\ tx'[r].function = tx[r].function
         /\ tx'[r].arg = tx[r].arg
         /\ tx'[r].fee <= tx'[r].resources + 1000
  <1>1. PICK quote \in Quotes :
          tx' = [tx EXCEPT ![r] = [@ EXCEPT !.fee = TxFee(quote),
                                            !.resources = quote.resources]]
    BY DEF Simulate, AttachResources
  <1> DEFINE t == [tx[r] EXCEPT !.fee = TxFee(quote), !.resources = quote.resources]
  <1>2. tx' = [tx EXCEPT ![r] = t]
    BY <1>1 DEF RunsTyped, CliTypeOK
  <1>3. /\ quote.resources \in Nat /\ TxFee(quote) \in Nat
        /\ TxFee(quote) <= quote.resources + 1000
    BY FeeBound
  <1>4. t \in Transactions /\ t.fee = TxFee(quote) /\ t.resources = quote.resources
    BY <1>3 DEF Transactions
  <1>5. /\ t.source = tx[r].source /\ t.account = tx[r].account
        /\ t.seq = tx[r].seq /\ t.function = tx[r].function /\ t.arg = tx[r].arg
    BY DEF Transactions
  <1> HIDE DEF t
  <1> QED BY <1>2, <1>3, <1>4, <1>5, Replacing

-----------------------------------------------------------------------------
(* A run that has built a transaction holds one of its own, with a         *)
(* sequence number its source had not yet reached when it was read.        *)
Built(r) == tx[r] # None \/ pc[r] \notin {"start", "broken"}

Own(r) ==
  /\ tx[r] \in Transactions
  /\ tx[r].source = Source[r] /\ tx[r].account = Account[r]
  /\ tx[r].seq <= seqnum[Source[r]] + 1
  /\ tx[r].function = IF Mode[r] = "init" THEN "init" ELSE "protected"
  /\ Mode[r] = "auth" => \E l \in 0..MaxLedger : tx[r].arg = EntryOf(r, l)

OwnTransactions == \A r \in Runs : Built(r) => Own(r)

CliBase == TypeOK /\ RunsTyped /\ OwnTransactions

(* What is applied is well typed.                                          *)
LEMMA Including ==
  ASSUME CliBase, NEW t \in pool, Include(t)
  PROVE  /\ UNCHANGED <<pc, tx, polls, simKey>>
         /\ t \in Transactions /\ t.source \in Sources
         /\ t.seq = seqnum[t.source] + 1
         /\ seqnum' = [seqnum EXCEPT ![t.source] = t.seq]
         /\ pool' \subseteq pool
         /\ \E x \in [tx : Transactions, status : {"SUCCESS", "FAILED"},
                       at : 1..MaxLedger, key : Slots] :
              /\ results' = results \cup {x}
              /\ x.tx = t /\ x.at = ledger /\ x.key = owner[t.account]
              /\ x.status = IF Outcome(t) = "Ok" THEN "SUCCESS" ELSE "FAILED"
  <1>1. t \in Transactions
    BY DEF CliBase, RunsTyped, CliTypeOK
  <1>2. t.source \in Sources /\ t.account \in Accounts
    BY <1>1 DEF Transactions
  <1>3. ledger \in 1..MaxLedger /\ owner[t.account] \in Slots
    BY <1>2 DEF CliBase, TypeOK
  <1> DEFINE x == [tx |-> t, status |-> IF Outcome(t) = "Ok" THEN "SUCCESS" ELSE "FAILED",
                   at |-> ledger, key |-> owner[t.account]]
  <1>4. results' = results \cup {x}
    BY DEF Include
  <1>5. x \in [tx : Transactions, status : {"SUCCESS", "FAILED"},
               at : 1..MaxLedger, key : Slots]
    BY <1>1, <1>3
  <1>6. /\ x.tx = t /\ x.at = ledger /\ x.key = owner[t.account]
        /\ x.status = IF Outcome(t) = "Ok" THEN "SUCCESS" ELSE "FAILED"
    OBVIOUS
  <1> HIDE DEF x
  <1> QED BY <1>1, <1>2, <1>4, <1>5, <1>6 DEF Include, InSequence, runVars

(* Sequence numbers never decrease.                                        *)
LEMMA SequencesGrow ==
  ASSUME CliBase, [CliNext]_cliVars
  PROVE  \A s \in Sources : seqnum'[s] \in Nat /\ seqnum[s] \in Nat /\ seqnum'[s] >= seqnum[s]
  <1>1. seqnum \in [Sources -> Nat]
    BY DEF CliBase, RunsTyped, CliTypeOK
  <1>2. CASE UNCHANGED seqnum
    BY <1>1, <1>2
  <1>3. ASSUME NEW t \in pool, Include(t)
        PROVE  \A s \in Sources : seqnum'[s] \in Nat /\ seqnum'[s] >= seqnum[s]
    <2>1. /\ t.source \in Sources /\ t.seq = seqnum[t.source] + 1
          /\ seqnum' = [seqnum EXCEPT ![t.source] = t.seq]
      BY <1>3, Including
    <2> QED BY <1>1, <2>1
  <1>4. (\E t \in pool : Include(t)) \/ UNCHANGED seqnum
    BY StepKinds, MovesGo, ElsewhereKeeps DEF BuildInit, BuildAuth, Simulate, SendAccepted, netVars
  <1> QED BY <1>1, <1>2, <1>3, <1>4

(* Every step of a run keeps the types of labels, polls and transactions.  *)
LEMMA TypedNext == CliBase /\ TypeOK' /\ [CliNext]_cliVars => RunsTyped'
  <1> SUFFICES ASSUME CliBase, TypeOK', [CliNext]_cliVars PROVE RunsTyped'
    OBVIOUS
  <1>1. /\ RunsTyped /\ TypeOK
        /\ pc \in [Runs -> Labels] /\ tx \in [Runs -> Transactions \cup {None}]
        /\ simKey \in [Runs -> Slots] /\ seqnum \in [Sources -> Nat]
        /\ pool \subseteq Transactions
        /\ results \subseteq [tx : Transactions, status : {"SUCCESS", "FAILED"},
                              at : 1..MaxLedger, key : Slots]
    BY DEF CliBase, RunsTyped, CliTypeOK, Labels
  <1>2. ASSUME NEW r \in Runs, NEW label \in Labels, Goto(r, label),
               pc[r] \notin Ended, UNCHANGED <<polls, seqnum, results>>,
               tx' \in [Runs -> Transactions \cup {None}], simKey' \in [Runs -> Slots],
               pool' \subseteq Transactions
        PROVE  RunsTyped'
    <2>1. /\ pc' \in [Runs -> Labels]
          /\ polls' \in [Runs -> Nat]
          /\ \A q \in Runs : /\ polls'[q] <= MaxPolls[Program[q]]
                             /\ pc'[q] \notin Ended => polls'[q] < MaxPolls[Program[q]]
      BY <1>1, <1>2, GotoTyped
    <2> QED BY <1>1, <1>2, <2>1 DEF RunsTyped, CliTypeOK, Labels, Transactions, Executions
  <1>3. ASSUME NEW r \in Runs, BuildInit(r) \/ BuildAuth(r) PROVE RunsTyped'
    <2>2. tx' \in [Runs -> Transactions \cup {None}]
      BY <1>1, <1>3, Building DEF ReplacesTx
    <2>3. /\ Goto(r, "simulate") /\ pc[r] = "start"
          /\ UNCHANGED <<polls, simKey, seqnum, pool, results>>
      BY <1>3 DEF BuildInit, BuildAuth, netVars
    <2> QED BY <1>1, <1>2, <2>2, <2>3 DEF Labels, Ended
  <1>4. ASSUME NEW r \in Runs, Simulate(r) PROVE RunsTyped'
    <2>1. /\ Goto(r, "send") /\ pc[r] = "simulate"
          /\ UNCHANGED <<polls, seqnum, pool, results>>
          /\ simKey' = [simKey EXCEPT ![r] = owner[Account[r]]]
      BY <1>4 DEF Simulate, netVars
    <2>2. tx[r] \in Transactions
      BY <2>1 DEF CliBase, OwnTransactions, Built, Own
    <2>4. tx' \in [Runs -> Transactions \cup {None}]
      BY <1>1, <1>4, <2>2, Simulating DEF ReplacesTx
    <2>5. owner[Account[r]] \in Slots
      BY <1>1, CliSystemAssumption DEF TypeOK
    <2>6. simKey' \in [Runs -> Slots]
      BY <1>1, <2>1, <2>5
    <2> QED BY <1>1, <1>2, <2>1, <2>4, <2>6 DEF Labels, Ended
  <1>5. ASSUME NEW r \in Runs, SendAccepted(r) PROVE RunsTyped'
    <2>1. /\ pc[r] = "send" /\ pool' = pool \cup {tx[r]}
          /\ Goto(r, "poll") \/ Goto(r, "broken")
          /\ UNCHANGED <<tx, polls, simKey, seqnum, results>>
      BY <1>5 DEF SendAccepted
    <2>2. tx[r] \in Transactions
      BY <2>1 DEF CliBase, OwnTransactions, Built, Own
    <2> QED BY <1>1, <1>2, <2>1, <2>2 DEF Labels, Ended
  <1>6. ASSUME NEW r \in Runs, PollNotFound(r) PROVE RunsTyped'
    <2> DEFINE m == MaxPolls[Program[r]]
               label == IF polls[r] + 1 = m THEN "timed_out" ELSE "poll"
    <2>1. /\ pc[r] = "poll" /\ pc' = [pc EXCEPT ![r] = label]
          /\ polls' = [polls EXCEPT ![r] = @ + 1]
          /\ UNCHANGED <<tx, simKey, seqnum, pool, results>>
      BY <1>6 DEF PollNotFound, Goto, netVars
    <2>2. /\ polls[r] < m /\ polls \in [Runs -> Nat]
          /\ \A q \in Runs : polls[q] <= MaxPolls[Program[q]]
      BY <1>1, <2>1 DEF RunsTyped, CliTypeOK, Ended
    <2>3. m \in Nat
      BY CliSystemAssumption
    <2>4. pc' \in [Runs -> Labels]
      BY <1>1, <2>1 DEF Labels, Ended
    <2>5. /\ pc'[r] = label
          /\ \A q \in Runs : q # r => pc'[q] = pc[q] /\ polls'[q] = polls[q]
      BY <1>1, <2>1
    <2>6. polls'[r] = polls[r] + 1 /\ polls' \in [Runs -> Nat]
      BY <2>1, <2>2
    <2>8. pc'[r] \notin Ended => polls[r] + 1 # m
      BY <2>5 DEF Ended
    <2>7. polls'[r] <= m /\ (pc'[r] \notin Ended => polls'[r] < m)
      BY <2>2, <2>3, <2>6, <2>8
    <2> HIDE DEF label
    <2> QED BY <1>1, <2>1, <2>2, <2>4, <2>5, <2>6, <2>7 
            DEF RunsTyped, CliTypeOK, Labels, Transactions
  <1>7. ASSUME NEW r \in Runs, Moves(r), ~PollNotFound(r) PROVE RunsTyped'
    <2>1. UNCHANGED <<vars, tx, simKey, seqnum, pool, results>>
      BY <1>7, MovesGo
    <2>2. /\ UNCHANGED polls /\ pc[r] \notin Ended
          /\ \E label \in Labels : Goto(r, label)
      BY <1>7 DEF Moves, SimulateFails, SendRejected, SendIgnored, PollFound,
         PollError, RpcBreaks, Labels, Ended
    <2> QED BY <1>1, <1>2, <2>1, <2>2
  <1>8. ASSUME NEW t \in pool, Include(t) PROVE RunsTyped'
    <2>1. /\ UNCHANGED <<pc, tx, polls, simKey>>
          /\ seqnum' = [seqnum EXCEPT ![t.source] = t.seq]
          /\ t \in Transactions
          /\ pool' \subseteq pool
      BY <1>8, Including
    <2>2. results' \subseteq [tx : Transactions, status : {"SUCCESS", "FAILED"},
                             at : 1..MaxLedger, key : Slots]
      BY <1>1, <1>8, Including
    <2>3. seqnum' \in [Sources -> Nat]
      BY <1>1, <2>1 DEF Transactions
    <2> QED BY <1>1, <2>1, <2>2, <2>3 DEF RunsTyped, CliTypeOK, Transactions
  <1>9. CASE Elsewhere \/ UNCHANGED cliVars
    <2>1. /\ UNCHANGED <<pc, tx, polls, simKey, seqnum, results>>
          /\ pool' \subseteq pool
      BY <1>9, ElsewhereKeeps
    <2> QED BY <1>1, <2>1 DEF RunsTyped, CliTypeOK, Transactions
  <1> QED BY <1>3, <1>4, <1>5, <1>6, <1>7, <1>8, <1>9, StepKinds

(* What a step does to the transaction of a run: nothing, unless the run   *)
(* builds it or sets its fee.                                              *)
LEMMA TransactionSteps ==
  ASSUME CliBase, [CliNext]_cliVars, NEW r \in Runs
  PROVE  \/ BuildInit(r) \/ BuildAuth(r)
         \/ Simulate(r)
         \/ tx'[r] = tx[r] /\ (Built(r)' => Built(r))
  <1>1. pc \in [Runs -> Labels] /\ RunsTyped /\ TypeOK
    BY DEF CliBase, RunsTyped, CliTypeOK, Labels
  <1>2. ASSUME NEW q \in Runs, BuildInit(q) \/ BuildAuth(q), q # r
        PROVE  tx'[r] = tx[r] /\ pc'[r] = pc[r]
    BY <1>1, <1>2, Building DEF ReplacesTx, BuildInit, BuildAuth, Goto
  <1>3. ASSUME NEW q \in Runs, Simulate(q), q # r
        PROVE  tx'[r] = tx[r] /\ pc'[r] = pc[r]
    <2>1. pc[q] = "simulate" /\ Goto(q, "send")
      BY <1>3 DEF Simulate
    <2>2. tx[q] \in Transactions
      BY <2>1 DEF CliBase, OwnTransactions, Built, Own
    <2> QED BY <1>1, <1>3, <2>1, <2>2, Simulating DEF ReplacesTx, Goto
  <1>4. ASSUME NEW q \in Runs, SendAccepted(q) \/ Moves(q)
        PROVE  tx'[r] = tx[r] /\ (Built(r)' => Built(r))
    <2>1. UNCHANGED tx
      BY <1>4, MovesGo DEF SendAccepted
    <2>2. \E label \in Labels :
            /\ Goto(q, label)
            /\ pc[q] \in {"start", "broken"} => label \in {"start", "broken"}
      BY <1>4 DEF Moves, SendAccepted, SimulateFails, SendRejected, SendIgnored,
         PollFound, PollNotFound, PollError, RpcBreaks, Labels, Ended
    <2>3. pc[r] \in {"start", "broken"} => pc'[r] \in {"start", "broken"}
      BY <1>1, <2>2 DEF Goto
    <2> QED BY <2>1, <2>3 DEF Built
  <1>5. CASE (\E t \in pool : Include(t)) \/ Elsewhere \/ UNCHANGED cliVars
    <2>1. UNCHANGED <<pc, tx>>
      BY <1>5, Including, ElsewhereKeeps
    <2> QED BY <2>1 DEF Built
  <1> QED BY <1>2, <1>3, <1>4, <1>5, StepKinds DEF Built

(* How a run gets to a label: by its own steps only.                       *)
LEMMA LabelSteps ==
  ASSUME CliBase, [CliNext]_cliVars, NEW r \in Runs
  PROVE  \/ pc'[r] = pc[r]
         \/ BuildInit(r) \/ BuildAuth(r) \/ Simulate(r) \/ SendAccepted(r) \/ Moves(r)
  <1>1. pc \in [Runs -> Labels]
    BY DEF CliBase, RunsTyped, CliTypeOK, Labels
  <1>2. ASSUME NEW q \in Runs, q # r,
               \/ BuildInit(q) \/ BuildAuth(q) \/ Simulate(q) \/ SendAccepted(q) \/ Moves(q)
        PROVE  pc'[r] = pc[r]
    <2>1. \E label : Goto(q, label)
      BY <1>2, MovesGo DEF BuildInit, BuildAuth, Simulate, SendAccepted
    <2> QED BY <1>1, <1>2, <2>1 DEF Goto
  <1>3. CASE (\E t \in pool : Include(t)) \/ Elsewhere \/ UNCHANGED cliVars
    BY <1>3, Including, ElsewhereKeeps
  <1> QED BY <1>2, <1>3, StepKinds

(* A run comes to send by simulating.                                      *)
LEMMA OnlySimulateSends ==
  ASSUME CliBase, [CliNext]_cliVars, NEW r \in Runs, pc'[r] = "send", ~Simulate(r)
  PROVE  pc[r] = "send" /\ tx'[r] = tx[r]
  <1>1. pc \in [Runs -> Labels]
    BY DEF CliBase, RunsTyped, CliTypeOK, Labels
  <1>2. \A label : Goto(r, label) => pc'[r] = label
    BY <1>1 DEF Goto
  <1>3. ~BuildInit(r) /\ ~BuildAuth(r) /\ ~SendAccepted(r)
    BY <1>2 DEF BuildInit, BuildAuth, SendAccepted
  <1>4. ~Moves(r)
    BY <1>2 DEF Moves, SimulateFails, SendRejected, SendIgnored, PollFound,
       PollNotFound, PollError, RpcBreaks
  <1> QED BY <1>3, <1>4, LabelSteps, TransactionSteps

(* Every run goes on holding a transaction of its own.                     *)
LEMMA OwnNext == CliBase /\ [CliNext]_cliVars => OwnTransactions'
  <1> SUFFICES ASSUME CliBase, [CliNext]_cliVars, NEW r \in Runs, Built(r)'
               PROVE  Own(r)'
    BY DEF OwnTransactions
  <1>1. RunsTyped /\ TypeOK /\ Source[r] \in Sources
    BY DEF CliBase, Sources
  <1>2. /\ seqnum[Source[r]] \in Nat /\ seqnum'[Source[r]] \in Nat
        /\ seqnum'[Source[r]] >= seqnum[Source[r]]
    BY <1>1, SequencesGrow
  <1>3. CASE BuildInit(r) \/ BuildAuth(r)
    <2>1. PICK read \in AccountStates(Source[r]) :
            /\ tx'[r].seq = read.seq + 1
            /\ Mode[r] = "auth" => tx'[r].arg = EntryOf(r, read.latest)
      BY <1>1, <1>3, Building
    <2>2. /\ read.seq \in Nat /\ read.seq <= seqnum[Source[r]]
          /\ read.latest \in 0..MaxLedger
      BY <1>1, ReadTyped
    <2>3. tx'[r].seq <= seqnum'[Source[r]] + 1
      BY <1>2, <2>1, <2>2
    <2> QED BY <1>1, <1>3, <2>1, <2>2, <2>3, Building DEF Own, ReplacesTx
  <1>4. CASE Simulate(r)
    <2>1. Own(r)
      BY <1>4 DEF Simulate, CliBase, OwnTransactions, Built
    <2>2. tx[r].seq \in Nat
      BY <2>1 DEF Own, Transactions
    <2> QED BY <1>1, <1>2, <1>4, <2>1, <2>2, Simulating DEF Own, ReplacesTx
  <1>5. CASE tx'[r] = tx[r] /\ (Built(r)' => Built(r))
    <2>1. Own(r)
      BY <1>5 DEF CliBase, OwnTransactions
    <2>2. tx[r].seq \in Nat
      BY <2>1 DEF Own, Transactions
    <2> QED BY <1>2, <1>5, <2>1, <2>2 DEF Own
  <1> QED BY <1>3, <1>4, <1>5, TransactionSteps

(* The base invariant holds initially.                                     *)
LEMMA InitBase == CliInit => CliBase
  <1> SUFFICES ASSUME CliInit PROVE CliBase
    OBVIOUS
  <1>1. TypeOK
    BY InitTypeOK DEF CliInit
  <1>2. \A r \in Runs : ~Built(r)
    BY DEF CliInit, Built
  <1> QED BY <1>1, <1>2, InitTyped DEF CliBase, OwnTransactions

(* So does every step, from the host's type invariant.                     *)
LEMMA NextBase == CliBase /\ TypeOK' /\ [CliNext]_cliVars => CliBase'
  BY TypedNext, OwnNext DEF CliBase

(* The host's invariant and this one hold in every state.                  *)
LEMMA BaseHolds == CliSpec => []InductiveInv /\ []CliBase
  <1>1. CliSpec => []InductiveInv
    BY CliImplementsHost, InductiveInvHolds, PTL DEF ImplementsHost
  <1>2. InductiveInv => TypeOK
    BY DEF InductiveInv
  <1> QED BY <1>1, <1>2, InitBase, NextBase, PTL DEF CliSpec

(* Runs, fees, sequence numbers, pool and results are well typed, for any  *)
(* runs, quotes and bounds (CliTypeOK).                                    *)
THEOREM CliTypeCorrect == CliSpec => []CliTypeOK
  <1>1. CliBase => CliTypeOK
    BY DEF CliBase, RunsTyped
  <1> QED BY <1>1, BaseHolds, PTL

-----------------------------------------------------------------------------
(* Nonces.                                                                 *)

(* The nonce of an entry gives away the ledger and the program.            *)
LEMMA NoncesTell ==
  ASSUME NEW r \in Runs, NEW q \in Runs, NEW l \in Nat, NEW k \in Nat,
         NonceOf(r, l) = NonceOf(q, k)
  PROVE  l = k /\ RunContext(r) = RunContext(q)
  <1> DEFINE m == IF Program[r] = "submit" THEN 17 ELSE 29
             n == IF Program[q] = "submit" THEN 17 ELSE 29
  <1>1. m \in {17, 29} /\ n \in {17, 29}
    OBVIOUS
  <1>2. l * 1000003 + m = k * 1000003 + n
    BY DEF NonceOf
  <1>3. m = n => (Program[r] = "submit" <=> Program[q] = "submit")
    OBVIOUS
  <1> HIDE DEF m, n
  <1>4. l = k /\ m = n
    BY <1>1, <1>2
  <1> QED BY <1>3, <1>4 DEF RunContext

(* Equal nonces for one account mean equal entries, whichever programs     *)
(* derived them (nonces of authorize and submit).                          *)
THEOREM CollisionsAreDuplicatesHolds == CliSpec => []CollisionsAreDuplicates
  <1>1. CliBase => CollisionsAreDuplicates
    <2> SUFFICES ASSUME CliBase, NEW r \in Runs, NEW q \in Runs,
                        Account[r] = Account[q], Mode[r] = "auth", Mode[q] = "auth",
                        tx[r] # None, tx[q] # None, tx[r].arg.nonce = tx[q].arg.nonce
                 PROVE  tx[r].arg = tx[q].arg
      BY DEF CollisionsAreDuplicates
    <2>1. Own(r) /\ Own(q)
      BY DEF CliBase, OwnTransactions, Built
    <2>2. PICK l \in 0..MaxLedger : tx[r].arg = EntryOf(r, l)
      BY <2>1 DEF Own
    <2>3. PICK k \in 0..MaxLedger : tx[q].arg = EntryOf(q, k)
      BY <2>1 DEF Own
    <2>4. EntryOf(r, l).nonce = NonceOf(r, l) /\ EntryOf(q, k).nonce = NonceOf(q, k)
      BY BuiltEntry DEF EntryOf, RunPayload, Payload
    <2>5. l = k /\ RunContext(r) = RunContext(q) /\ NonceOf(r, l) = NonceOf(q, k)
      BY <2>2, <2>3, <2>4, NoncesTell
    <2>6. RunPayload(r, l) = RunPayload(q, k)
      BY <2>5 DEF RunPayload
    <2> QED BY <2>2, <2>3, <2>5, <2>6 DEF EntryOf
  <1> QED BY <1>1, BaseHolds, PTL

-----------------------------------------------------------------------------
(* Fees.                                                                   *)

(* What a run is about to send is not above its quote and 1000 stroops;    *)
(* that it pays for the resources, the network sees to.                    *)
FeesInv ==
  /\ FairFees
  /\ \A r \in Runs : pc[r] = "send" => tx[r].fee <= tx[r].resources + 1000

(* Transactions that are pending or applied were so before, or were sent   *)
(* at a fee the network took.                                              *)
LEMMA FeesNext == CliBase /\ CliBase' /\ FeesInv /\ [CliNext]_cliVars => FeesInv'
  <1> SUFFICES ASSUME CliBase, CliBase', FeesInv, [CliNext]_cliVars
               PROVE  FeesInv'
    OBVIOUS
  <1> DEFINE Fair(t) == t.fee >= t.resources /\ t.fee <= t.resources + 1000
             Sent == pool \cup {x.tx : x \in results}
  <1>1. \A t \in Sent : Fair(t)
    BY DEF FeesInv, FairFees
  <1>2. ASSUME \A t \in Sent' : Fair(t) PROVE FairFees'
    BY <1>2 DEF FairFees
  <1>3. Sent' \subseteq Sent \/ \E r \in Runs : SendAccepted(r) /\ Sent' = Sent \cup {tx[r]}
    <2>1. ASSUME NEW r \in Runs, BuildInit(r) \/ BuildAuth(r) \/ Simulate(r) \/ Moves(r)
          PROVE  Sent' = Sent
      BY <2>1, MovesGo DEF BuildInit, BuildAuth, Simulate, netVars
    <2>2. ASSUME NEW r \in Runs, SendAccepted(r) PROVE Sent' = Sent \cup {tx[r]}
      BY <2>2 DEF SendAccepted
    <2>3. ASSUME NEW t \in pool, Include(t) PROVE Sent' \subseteq Sent
      <3>1. pool' \subseteq pool
        BY <2>3, Including
      <3>2. PICK x : results' = results \cup {x} /\ x.tx = t
        BY <2>3, Including
      <3> QED BY <3>1, <3>2
    <2>4. CASE Elsewhere \/ UNCHANGED cliVars
      BY <2>4, ElsewhereKeeps
    <2> QED BY <2>1, <2>2, <2>3, <2>4, StepKinds
  <1>4. ASSUME NEW r \in Runs, SendAccepted(r) PROVE Fair(tx[r])
    <2>1. pc[r] = "send" /\ Affordable(tx[r])
      BY <1>4 DEF SendAccepted
    <2>2. tx[r].fee \in Nat /\ tx[r].resources \in Nat
      BY <2>1 DEF CliBase, OwnTransactions, Built, Own, Transactions
    <2> QED BY <2>1, <2>2 DEF FeesInv, Affordable, BASE_FEE
  <1> HIDE DEF Fair
  <1>5. FairFees'
    <2>1. \A t \in Sent' : Fair(t)
      BY <1>1, <1>3, <1>4
    <2> HIDE DEF Sent
    <2> QED BY <1>2, <2>1
  <1>6. ASSUME NEW r \in Runs, pc'[r] = "send"
        PROVE  tx'[r].fee <= tx'[r].resources + 1000
    <2>1. CASE Simulate(r)
      <3>1. tx[r] \in Transactions
        BY <2>1 DEF Simulate, CliBase, OwnTransactions, Built, Own
      <3> QED BY <2>1, <3>1, Simulating DEF CliBase
    <2>2. CASE ~Simulate(r)
      <3>1. pc[r] = "send" /\ tx'[r] = tx[r]
        BY <1>6, <2>2, OnlySimulateSends
      <3> QED BY <3>1 DEF FeesInv
    <2> QED BY <2>1, <2>2
  <1> QED BY <1>5, <1>6 DEF FeesInv

(* Whatever the simulation quoted, or did not, and however the cast fell,  *)
(* nothing is queued or applied for less than its resources or for more    *)
(* than 1000 stroops above (simulate, submit).                             *)
THEOREM FairFeesHolds == CliSpec => []FairFees
  <1>1. CliInit => FeesInv
    BY DEF CliInit, FeesInv, FairFees
  <1>2. FeesInv => FairFees
    BY DEF FeesInv
  <1> QED BY <1>1, <1>2, BaseHolds, FeesNext, PTL DEF CliSpec

-----------------------------------------------------------------------------
(* Successes.                                                              *)

(* Results are never withdrawn.                                            *)
LEMMA ResultsGrow ==
  ASSUME CliBase, [CliNext]_cliVars
  PROVE  results \subseteq results'
  BY StepKinds, MovesGo, ElsewhereKeeps, Including
     DEF BuildInit, BuildAuth, Simulate, SendAccepted, netVars

(* A call of protected is applied as the host decides.                     *)
LEMMA Applying ==
  ASSUME NEW t \in pool, Include(t), t.function = "protected"
  PROVE  /\ Outcome(t) = RequireAuth(t.account, t.arg)
         /\ Outcome(t) = "Ok" => ProtectedSucceeds(t.account, t.arg)
         /\ Outcome(t) # "Ok" => UNCHANGED <<ledger, nonces, execs>>
  <1>1. Outcome(t) = RequireAuth(t.account, t.arg)
    BY DEF Outcome
  <1>2. ProtectedSucceeds(t.account, t.arg) \/ ProtectedFails(t.account, t.arg)
    BY DEF Include, Apply
  <1>3. ProtectedFails(t.account, t.arg) =>
          /\ RequireAuth(t.account, t.arg) # "Ok"
          /\ UNCHANGED <<ledger, nonces, execs>>
    BY DEF ProtectedFails
  <1>4. ProtectedSucceeds(t.account, t.arg) => RequireAuth(t.account, t.arg) = "Ok"
    BY DEF ProtectedSucceeds
  <1> QED BY <1>1, <1>2, <1>3, <1>4

(* Only the application of a call of protected executes anything.          *)
LEMMA ExecsChange ==
  ASSUME CliBase, [CliNext]_cliVars
  PROVE  \/ UNCHANGED execs /\ nonces' \subseteq nonces /\ ledger' \in {ledger, ledger + 1}
         \/ \E t \in pool : /\ Include(t) /\ t.function = "protected"
                            /\ t.account \in Accounts
                            /\ ProtectedSucceeds(t.account, t.arg)
  <1>1. ASSUME NEW r \in Runs,
               BuildInit(r) \/ BuildAuth(r) \/ Simulate(r) \/ SendAccepted(r) \/ Moves(r)
        PROVE  UNCHANGED <<execs, nonces, ledger>>
    BY <1>1, MovesGo DEF BuildInit, BuildAuth, Sign, Simulate, SendAccepted, vars
  <1>2. ASSUME NEW t \in pool, Include(t), t.function = "init"
        PROVE  UNCHANGED <<execs, nonces, ledger>>
    BY <1>2 DEF Include, Apply, InvokeInit
  <1>3. ASSUME NEW t \in pool, Include(t), t.function = "protected"
        PROVE  \/ ProtectedSucceeds(t.account, t.arg) /\ t.account \in Accounts
               \/ UNCHANGED <<execs, nonces, ledger>>
    <2>1. t.account \in Accounts
      BY <1>3, Including DEF Transactions
    <2> QED BY <1>3, <2>1, Applying
  <1>4. ASSUME NEW t \in pool, Include(t) PROVE t.function \in {"init", "protected"}
    BY <1>4, Including DEF Transactions
  <1>5. ASSUME Elsewhere \/ UNCHANGED cliVars
        PROVE  /\ UNCHANGED execs /\ nonces' \subseteq nonces
               /\ ledger' \in {ledger, ledger + 1}
    BY <1>5 DEF Elsewhere, Drop, OtherInit, InvokeInit, Close, CloseLedger, cliVars, vars
  <1> QED BY <1>1, <1>2, <1>3, <1>4, <1>5, StepKinds

(* A result has the numbers of ledger and transaction.                     *)
LEMMA ResultTyped ==
  ASSUME CliBase, NEW x \in results
  PROVE  /\ x.at \in Nat /\ x.tx \in Transactions
         /\ x.tx.source \in Sources /\ x.tx.seq \in Nat \ {0}
         /\ seqnum[x.tx.source] \in Nat
  <1>1. x \in [tx : Transactions, status : {"SUCCESS", "FAILED"},
               at : 1..MaxLedger, key : Slots]
    BY DEF CliBase, RunsTyped, CliTypeOK
  <1>2. x.tx \in Transactions /\ x.at \in Nat
    BY <1>1, AccountHostAssumption
  <1>3. x.tx.source \in Sources /\ x.tx.seq \in Nat \ {0}
    BY <1>2 DEF Transactions
  <1> QED BY <1>2, <1>3 DEF CliBase, RunsTyped, CliTypeOK

(* The ledger only moves on.                                               *)
LEMMA LedgerSteps ==
  ASSUME CliBase, [CliNext]_cliVars
  PROVE  ledger \in Nat /\ ledger' \in {ledger, ledger + 1}
  <1>1. ledger \in Nat
    BY AccountHostAssumption DEF CliBase, TypeOK
  <1>2. ASSUME NEW t \in pool, NEW a, ProtectedSucceeds(a, t.arg)
        PROVE  ledger' = ledger
    BY <1>2 DEF ProtectedSucceeds
  <1> QED BY <1>1, <1>2, ExecsChange

(* Executions are never undone.                                            *)
LEMMA ExecsGrow ==
  ASSUME CliBase, [CliNext]_cliVars
  PROVE  \A i \in DOMAIN execs : i \in DOMAIN execs' /\ execs'[i] = execs[i]
  <1>1. ASSUME NEW t \in pool, t.account \in Accounts, ProtectedSucceeds(t.account, t.arg)
        PROVE  \A i \in DOMAIN execs : i \in DOMAIN execs' /\ execs'[i] = execs[i]
    <2>1. /\ DOMAIN execs = 1..Len(execs) /\ Len(execs) \in Nat
          /\ DOMAIN execs' = 1..(Len(execs) + 1)
          /\ \A i \in DOMAIN execs : execs'[i] = execs[i]
      BY <1>1, AppendedExec DEF CliBase
    <2> QED BY <2>1
  <1> QED BY <1>1, ExecsChange

(* A result that reports success of an authorised call.                    *)
Success(x) == x.status = "SUCCESS" /\ x.tx.function = "protected"

(* Each such result stands for an execution, different transactions carry  *)
(* different entries, and a run that reports success has seen a result.    *)
SuccessesExecuted ==
  \A x \in results : Success(x) =>
    \E i \in DOMAIN execs :
      execs[i].account = x.tx.account /\ execs[i].entry = x.tx.arg

SuccessesDiffer ==
  \A x, y \in results : Success(x) /\ Success(y) /\ x.tx # y.tx => x.tx.arg # y.tx.arg

SuccessesSeen ==
  \A r \in Runs : pc[r] = "success" =>
    \E x \in results : x.tx = tx[r] /\ x.status = "SUCCESS" /\ x.at < ledger

SuccessInv == SuccessesExecuted /\ SuccessesDiffer /\ SuccessesSeen

(* What a step adds to the successes: at most one, and its execution.      *)
LEMMA NewSuccess ==
  ASSUME CliBase, [CliNext]_cliVars, NEW x \in results', x \notin results, Success(x)
  PROVE  /\ \A y \in results' : y \in results \/ y = x
         /\ x.tx.account \in Accounts
         /\ ProtectedSucceeds(x.tx.account, x.tx.arg)
  <1>1. PICK t \in pool : Include(t)
    BY StepKinds, MovesGo, ElsewhereKeeps
       DEF BuildInit, BuildAuth, Simulate, SendAccepted, netVars
  <1>2. PICK y : /\ results' = results \cup {y} /\ y.tx = t
                 /\ y.status = IF Outcome(t) = "Ok" THEN "SUCCESS" ELSE "FAILED"
    BY <1>1, Including
  <1>3. x = y
    BY <1>2
  <1>4. t.function = "protected" /\ Outcome(t) = "Ok"
    BY <1>2, <1>3 DEF Success
  <1>5. t.account \in Accounts
    BY <1>1, Including DEF Transactions
  <1> QED BY <1>1, <1>2, <1>3, <1>4, <1>5, Applying

(* The execution behind a success is never withdrawn.                      *)
LEMMA SuccessesExecutedNext ==
  ASSUME CliBase, SuccessesExecuted, [CliNext]_cliVars
  PROVE  SuccessesExecuted'
  <1> SUFFICES ASSUME NEW x \in results', Success(x)
               PROVE  \E i \in DOMAIN execs' :
                        execs'[i].account = x.tx.account /\ execs'[i].entry = x.tx.arg
    BY DEF SuccessesExecuted, Success
  <1>1. CASE x \in results
    BY <1>1, ExecsGrow DEF SuccessesExecuted
  <1>2. CASE x \notin results
    <2>1. x.tx.account \in Accounts /\ ProtectedSucceeds(x.tx.account, x.tx.arg)
      BY <1>2, NewSuccess
    <2>2. /\ Len(execs) \in Nat /\ DOMAIN execs' = 1..(Len(execs) + 1)
          /\ execs'[Len(execs) + 1] = [account |-> x.tx.account, key |-> owner[x.tx.account],
                                       entry |-> x.tx.arg, at |-> ledger]
      BY <2>1, AppendedExec DEF CliBase
    <2> QED BY <2>2
  <1> QED BY <1>1, <1>2

(* A second success with the same entry would be a second execution of it. *)
LEMMA SuccessesDifferNext ==
  ASSUME CliBase, NoReplay', SuccessesExecuted, SuccessesDiffer, [CliNext]_cliVars
  PROVE  SuccessesDiffer'
  <1>1. ASSUME NEW x \in results', NEW y \in results, Success(x), Success(y),
               x \notin results, x.tx.arg = y.tx.arg
        PROVE  FALSE
    <2>1. x.tx.account \in Accounts /\ ProtectedSucceeds(x.tx.account, x.tx.arg)
      BY <1>1, NewSuccess
    <2> DEFINE n == Len(execs) + 1
    <2>2. /\ DOMAIN execs = 1..Len(execs) /\ Len(execs) \in Nat
          /\ DOMAIN execs' = 1..n
          /\ \A i \in DOMAIN execs : execs'[i] = execs[i]
          /\ execs'[n] = [account |-> x.tx.account, key |-> owner[x.tx.account],
                          entry |-> x.tx.arg, at |-> ledger]
      BY <2>1, AppendedExec DEF CliBase
    <2>3. PICK i \in DOMAIN execs : execs[i].entry = y.tx.arg
      BY <1>1 DEF SuccessesExecuted
    <2>4. i # n /\ i \in DOMAIN execs' /\ n \in DOMAIN execs'
      BY <2>2
    <2>5. execs'[i].entry = execs'[n].entry
      BY <1>1, <2>2, <2>3
    <2> QED BY <2>4, <2>5 DEF NoReplay
  <1> SUFFICES ASSUME NEW x \in results', NEW y \in results', Success(x), Success(y),
                      x.tx # y.tx, x.tx.arg = y.tx.arg
               PROVE  FALSE
    BY DEF SuccessesDiffer, Success
  <1>2. CASE x \in results /\ y \in results
    BY <1>2 DEF SuccessesDiffer
  <1>3. CASE x \notin results
    <2>1. y \in results
      BY <1>3, NewSuccess
    <2> QED BY <1>1, <1>3, <2>1
  <1>4. CASE y \notin results
    <2>1. x \in results
      BY <1>4, NewSuccess
    <2> QED BY <1>1, <1>4, <2>1
  <1> QED BY <1>2, <1>3, <1>4

(* A run turns to success when it sees the result, which stays.            *)
LEMMA SuccessesSeenNext ==
  ASSUME CliBase, SuccessesSeen, [CliNext]_cliVars
  PROVE  SuccessesSeen'
  <1> SUFFICES ASSUME NEW r \in Runs, pc'[r] = "success"
               PROVE  \E x \in results' :
                        x.tx = tx'[r] /\ x.status = "SUCCESS" /\ x.at < ledger'
    BY DEF SuccessesSeen
  <1>1. pc \in [Runs -> Labels]
    BY DEF CliBase, RunsTyped, CliTypeOK, Labels
  <1>2. \A label : Goto(r, label) => pc'[r] = label
    BY <1>1 DEF Goto
  <1>3. /\ ~BuildInit(r) /\ ~BuildAuth(r) /\ ~Simulate(r) /\ ~SendAccepted(r)
        /\ Moves(r) => PollFound(r)
    BY <1>2 DEF BuildInit, BuildAuth, Simulate, SendAccepted, Moves, SimulateFails,
       SendRejected, SendIgnored, PollNotFound, PollError, RpcBreaks
  <1>4. tx'[r] = tx[r] /\ results \subseteq results'
    BY <1>3, TransactionSteps, ResultsGrow
  <1>5. CASE pc[r] = "success"
    <2>1. PICK x \in results : x.tx = tx[r] /\ x.status = "SUCCESS" /\ x.at < ledger
      BY <1>5 DEF SuccessesSeen
    <2>2. x.at < ledger'
      BY <2>1, LedgerSteps, ResultTyped
    <2> QED BY <1>4, <2>1, <2>2
  <1>6. CASE PollFound(r)
    <2>1. PICK x \in Visible(tx[r]) :
            Goto(r, IF x.status = "SUCCESS" THEN "success" ELSE "not_success")
      BY <1>6 DEF PollFound
    <2>2. x \in results /\ x.tx = tx[r] /\ x.at < ledger
      BY <2>1 DEF Visible
    <2>3. x.status = "SUCCESS"
      BY <1>2, <2>1
    <2>4. UNCHANGED ledger
      BY <1>6 DEF PollFound, vars
    <2> QED BY <1>4, <2>2, <2>3, <2>4
  <1> QED BY <1>3, <1>5, <1>6, LabelSteps

(* An auth run that reports success has had its entry executed, and no     *)
(* execution is reported by two transactions (authorize, submit).          *)
THEOREM SuccessIsAnExecutionHolds == CliSpec => []SuccessIsAnExecution
  <1>1. CliInit => SuccessInv
    BY DEF CliInit, SuccessInv, SuccessesExecuted, SuccessesDiffer, SuccessesSeen
  <1>2. CliBase /\ NoReplay' /\ SuccessInv /\ [CliNext]_cliVars => SuccessInv'
    BY SuccessesExecutedNext, SuccessesDifferNext, SuccessesSeenNext DEF SuccessInv
  <1>3. CliBase /\ SuccessInv => SuccessIsAnExecution
    <2> SUFFICES ASSUME CliBase, SuccessInv PROVE SuccessIsAnExecution
      OBVIOUS
    <2>1. ASSUME NEW r \in Runs, Succeeded(r)
          PROVE  \E x \in results : x.tx = tx[r] /\ Success(x) /\ x.tx.account = Account[r]
      <3>1. pc[r] = "success" /\ Mode[r] = "auth"
        BY <2>1 DEF Succeeded
      <3>2. Own(r)
        BY <3>1 DEF CliBase, OwnTransactions, Built
      <3>3. tx[r].function = "protected" /\ tx[r].account = Account[r]
        BY <3>1, <3>2 DEF Own
      <3> QED BY <3>1, <3>3 DEF SuccessInv, SuccessesSeen, Success
    <2>2. ASSUME NEW r \in Runs, Succeeded(r)
          PROVE  \E i \in DOMAIN execs :
                   execs[i].account = Account[r] /\ execs[i].entry = tx[r].arg
      BY <2>1, <2>2 DEF SuccessInv, SuccessesExecuted
    <2>3. ASSUME NEW r \in Runs, NEW q \in Runs, Succeeded(r), Succeeded(q), tx[r] # tx[q]
          PROVE  tx[r].arg # tx[q].arg
      BY <2>1, <2>3 DEF SuccessInv, SuccessesDiffer
    <2> QED BY <2>2, <2>3 DEF SuccessIsAnExecution
  <1> QED BY <1>1, <1>2, <1>3, BaseHolds, CliIsSafe, PTL DEF CliSpec

-----------------------------------------------------------------------------
(* Failures.                                                               *)

(* __check_auth of account a, had it this key.                             *)
Accepts(a, key, entry) ==
  (IF Version[a] = "v1" THEN CheckAuth(key, HostPayload(entry), entry.signature)
                        ELSE Phase0CheckAuth(key, HostPayload(entry), entry.signature))
    = "Ok"

(* An execution on account a with this nonce, no later than ledger l.      *)
Executed(a, nonce, l) ==
  \E i \in DOMAIN execs :
    execs[i].account = a /\ execs[i].entry.nonce = nonce /\ execs[i].at <= l

(* Only executions leave nonces behind.                                    *)
NoncesExecuted == \A n \in nonces : Executed(n.account, n.nonce, ledger)

(* Why the host has refused what a result reports.                         *)
Explained(x) ==
  LET entry == x.tx.arg IN
  \/ entry.account # x.tx.account \/ entry.root_invocation # Protected(x.tx.account)
  \/ x.at > entry.signature_expiration_ledger
  \/ Executed(x.tx.account, entry.nonce, x.at)
  \/ ~Accepts(x.tx.account, x.key, entry)

FailuresExplained ==
  \A x \in results :
    x.status = "FAILED" /\ x.tx.function = "protected" => Explained(x)

(* A run past its simulation holds an entry that the key it met accepts.   *)
Past == {"send", "poll", "success", "not_success", "timed_out"}

SimulatedAccepts ==
  \A r \in Runs : Mode[r] = "auth" /\ pc[r] \in Past =>
    Accepts(Account[r], simKey[r], tx[r].arg)

FailureInv == NoncesExecuted /\ FailuresExplained /\ SimulatedAccepts

(* require_auth asks the contract with the installed key.                  *)
LEMMA AcceptsIs ==
  ASSUME StoredIsOwner, NEW a, NEW entry
  PROVE  CheckAuthOf(a, HostPayload(entry), entry.signature) = "Ok"
           <=> Accepts(a, owner[a], entry)
  BY DEF StoredIsOwner, CheckAuthOf, Accepts

(* What is refused has one of four reasons.                                *)
LEMMA Refusal ==
  ASSUME StoredIsOwner, NEW a, NEW entry, RequireAuth(a, entry) # "Ok"
  PROVE  \/ entry.account # a \/ entry.root_invocation # Protected(a)
         \/ ~(entry.signature_expiration_ledger >= ledger)
         \/ NonceLive(a, entry.nonce)
         \/ ~Accepts(a, owner[a], entry)
  <1>1. RequireAuth(a, entry) = "Ok" <=>
          /\ entry.account = a /\ entry.root_invocation = Protected(a)
          /\ entry.signature_expiration_ledger >= ledger
          /\ ~NonceLive(a, entry.nonce)
          /\ CheckAuthOf(a, HostPayload(entry), entry.signature) = "Ok"
    BY ThenOk DEF RequireAuth, Require
  <1> QED BY <1>1, AcceptsIs

(* An execution stays one, at ledgers to come too.                         *)
LEMMA ExecutedGrows ==
  ASSUME CliBase, [CliNext]_cliVars, NEW a, NEW nonce, NEW l \in Nat, NEW k \in Nat,
         l <= k, Executed(a, nonce, l)
  PROVE  Executed(a, nonce, k)'
  <1>1. PICK i \in DOMAIN execs :
          execs[i].account = a /\ execs[i].entry.nonce = nonce /\ execs[i].at <= l
    BY DEF Executed
  <1>2. i \in DOMAIN execs' /\ execs'[i] = execs[i]
    BY <1>1, ExecsGrow
  <1>3. execs[i].at \in Nat
    <2>1. execs[i] \in Executions
      BY <1>1, LedgerNumbers DEF CliBase
    <2>2. MaxLedger \in Nat
      BY AccountHostAssumption
    <2> QED BY <2>1, <2>2 DEF Executions
  <1>4. execs'[i].at <= k
    BY <1>1, <1>2, <1>3
  <1> QED BY <1>1, <1>2, <1>4 DEF Executed

(* A nonce enters the host's storage together with its execution.          *)
LEMMA NoncesExecutedNext ==
  ASSUME CliBase, TypeOK', NoncesExecuted, [CliNext]_cliVars
  PROVE  NoncesExecuted'
  <1> SUFFICES ASSUME NEW n \in nonces'
               PROVE  Executed(n.account, n.nonce, ledger)'
    BY DEF NoncesExecuted
  <1>1. ledger \in Nat /\ ledger' \in Nat
    BY DEF CliBase, TypeOK
  <1>2. CASE n \in nonces /\ ledger' \in {ledger, ledger + 1}
    BY <1>1, <1>2, ExecutedGrows DEF NoncesExecuted
  <1>3. ASSUME NEW t \in pool, t.account \in Accounts, ProtectedSucceeds(t.account, t.arg),
               n \notin nonces
        PROVE  Executed(n.account, n.nonce, ledger)'
    <2>1. n = NonceEntry(t.arg) /\ ledger' = ledger
      BY <1>3 DEF ProtectedSucceeds
    <2>2. t.arg.account = t.account
      BY <1>3, RequireAuthOk DEF ProtectedSucceeds
    <2>3. n.account = t.account /\ n.nonce = t.arg.nonce
      BY <2>1, <2>2 DEF NonceEntry
    <2> DEFINE m == Len(execs) + 1
    <2>4. /\ m \in DOMAIN execs'
          /\ execs'[m] = [account |-> t.account, key |-> owner[t.account],
                          entry |-> t.arg, at |-> ledger]
      <3>1. /\ Len(execs) \in Nat /\ DOMAIN execs' = 1..(Len(execs) + 1)
            /\ execs'[Len(execs) + 1] = [account |-> t.account, key |-> owner[t.account],
                                         entry |-> t.arg, at |-> ledger]
        BY <1>3, AppendedExec DEF CliBase
      <3> QED BY <3>1
    <2> HIDE DEF m
    <2> QED BY <1>1, <2>1, <2>3, <2>4 DEF Executed
  <1>4. ASSUME NEW t \in pool, ProtectedSucceeds(t.account, t.arg)
        PROVE  ledger' = ledger
    BY <1>4 DEF ProtectedSucceeds
  <1> QED BY <1>2, <1>3, <1>4, ExecsChange

(* A result that is added reports the host's verdict.                      *)
LEMMA FailuresExplainedNext ==
  ASSUME CliBase, StoredIsOwner, NoncesExecuted, FailuresExplained, [CliNext]_cliVars
  PROVE  FailuresExplained'
  <1> SUFFICES ASSUME NEW x \in results', x.status = "FAILED", x.tx.function = "protected"
               PROVE  Explained(x)'
    BY DEF FailuresExplained
  <1>1. CASE x \in results
    <2>1. x.at \in Nat
      BY <1>1 DEF CliBase, RunsTyped, CliTypeOK
    <2>2. Explained(x)
      BY <1>1 DEF FailuresExplained
    <2> QED BY <2>1, <2>2, ExecutedGrows DEF Explained, Accepts, HostPayload
  <1>2. CASE x \notin results
    <2>1. PICK t \in pool : Include(t)
      BY <1>2, StepKinds, MovesGo, ElsewhereKeeps
         DEF BuildInit, BuildAuth, Simulate, SendAccepted, netVars
    <2>2. /\ x.tx = t /\ x.at = ledger /\ x.key = owner[t.account]
          /\ x.status = IF Outcome(t) = "Ok" THEN "SUCCESS" ELSE "FAILED"
      BY <1>2, <2>1, Including
    <2>3. RequireAuth(t.account, t.arg) # "Ok"
      BY <2>1, <2>2, Applying
    <2>4. ledger \in Nat /\ t.arg.signature_expiration_ledger \in Nat
      <3>1. t.arg \in Entries
        BY <2>1, <2>2, Including DEF Transactions
      <3> QED BY <3>1, LedgerNumbers DEF CliBase
    <2>5. CASE NonceLive(t.account, t.arg.nonce)
      <3>1. Executed(t.account, t.arg.nonce, ledger)
        BY <2>5 DEF NonceLive, NoncesExecuted
      <3> QED BY <2>2, <2>4, <3>1, ExecutedGrows DEF Explained
    <2>6. CASE ~NonceLive(t.account, t.arg.nonce)
      <3>1. \/ t.arg.account # t.account \/ t.arg.root_invocation # Protected(t.account)
            \/ ~(t.arg.signature_expiration_ledger >= ledger)
            \/ ~Accepts(t.account, owner[t.account], t.arg)
        BY <2>3, <2>6, Refusal
      <3> QED BY <2>2, <2>4, <3>1 DEF Explained, Accepts, HostPayload
    <2> QED BY <2>5, <2>6
  <1> QED BY <1>1, <1>2

(* A simulation with enforcement accepts what the host would accept.       *)
LEMMA SimulatedAcceptsNext ==
  ASSUME CliBase, StoredIsOwner, SimulatedAccepts, [CliNext]_cliVars
  PROVE  SimulatedAccepts'
  <1> SUFFICES ASSUME NEW r \in Runs, Mode[r] = "auth", pc'[r] \in Past
               PROVE  Accepts(Account[r], simKey'[r], tx'[r].arg)
    BY DEF SimulatedAccepts, Past, Accepts, HostPayload
  <1>1. /\ pc \in [Runs -> Labels] /\ simKey \in [Runs -> Slots] /\ RunsTyped
        /\ Account[r] \in Accounts
    BY CliSystemAssumption DEF CliBase, RunsTyped, CliTypeOK, Labels
  <1>2. \A label : Goto(r, label) => pc'[r] = label
    BY <1>1 DEF Goto
  <1>3. ~BuildInit(r) /\ ~BuildAuth(r)
    BY <1>2 DEF BuildInit, BuildAuth, Past
  <1>4. CASE Simulate(r)
    <2>1. Own(r)
      BY <1>4 DEF Simulate, CliBase, OwnTransactions, Built
    <2>2. /\ tx[r].function = "protected" /\ tx[r].account = Account[r]
          /\ tx[r] \in Transactions
      BY <2>1 DEF Own
    <2>3. RequireAuth(Account[r], tx[r].arg) = "Ok"
      BY <1>4, <2>2 DEF Simulate, Outcome
    <2>4. Accepts(Account[r], owner[Account[r]], tx[r].arg)
      BY <1>1, <2>3, RequireAuthOk, AcceptsIs
    <2>5. tx'[r].arg = tx[r].arg
      BY <1>1, <1>4, <2>2, Simulating
    <2>6. simKey'[r] = owner[Account[r]]
      BY <1>1, <1>4 DEF Simulate
    <2> QED BY <2>4, <2>5, <2>6
  <1>5. CASE ~Simulate(r)
    <2>1. tx'[r] = tx[r]
      BY <1>3, <1>5, TransactionSteps
    <2>2. simKey'[r] = simKey[r]
      <3>1. ASSUME NEW q \in Runs, Simulate(q) PROVE simKey'[r] = simKey[r]
        BY <1>1, <1>5, <3>1 DEF Simulate
      <3> QED BY <3>1, StepKinds, MovesGo, ElsewhereKeeps, Including
              DEF BuildInit, BuildAuth, SendAccepted
    <2>3. pc[r] \in Past
      <3>1. (SendAccepted(r) \/ Moves(r)) => pc[r] \in Past
        BY <1>2 DEF SendAccepted, Moves, SimulateFails, SendRejected, SendIgnored,
           PollFound, PollNotFound, PollError, RpcBreaks, Past
      <3> QED BY <1>3, <1>5, <3>1, LabelSteps
    <2> QED BY <2>1, <2>2, <2>3 DEF SimulatedAccepts
  <1> QED BY <1>4, <1>5

(* An authorised call that simulated and yet failed was overtaken: by its  *)
(* expiry, by another key, or by an execution with its nonce (authorize,   *)
(* simulate).                                                              *)
THEOREM FailureExplainedHolds == CliSpec => []FailureExplained
  <1>1. CliInit => FailureInv
    BY DEF CliInit, Init, FailureInv, NoncesExecuted, FailuresExplained, SimulatedAccepts, Past
  <1>2. /\ CliBase /\ CliBase' /\ InductiveInv /\ FailureInv /\ [CliNext]_cliVars
        => FailureInv'
    BY NoncesExecutedNext, FailuresExplainedNext, SimulatedAcceptsNext
       DEF FailureInv, InductiveInv, CliBase
  <1>3. CliBase /\ FailureInv => FailureExplained
    <2> SUFFICES ASSUME CliBase, FailureInv, NEW r \in Runs, NEW x \in results,
                        Mode[r] = "auth", pc[r] \in Past,
                        x.tx = tx[r], x.status = "FAILED",
                        ~(x.at > tx[r].arg.signature_expiration_ledger),
                        x.key = simKey[r]
                 PROVE  Executed(Account[r], tx[r].arg.nonce, x.at)
      BY DEF FailureExplained, Past, Executed
    <2>1. Own(r)
      BY DEF CliBase, OwnTransactions, Built, Past
    <2>2. tx[r].function = "protected" /\ tx[r].account = Account[r]
      BY <2>1 DEF Own
    <2>3. PICK l \in 0..MaxLedger : tx[r].arg = EntryOf(r, l)
      BY <2>1 DEF Own
    <2>4. EntryOf(r, l).account = Account[r] /\ EntryOf(r, l).root_invocation = Protected(Account[r])
      BY BuiltEntry DEF EntryOf, RunPayload, Payload
    <2>5. Explained(x) /\ Accepts(Account[r], simKey[r], tx[r].arg)
      BY <2>2 DEF FailureInv, FailuresExplained, SimulatedAccepts
    <2> QED BY <2>2, <2>3, <2>4, <2>5 DEF Explained
  <1> QED BY <1>1, <1>2, <1>3, BaseHolds, PTL DEF CliSpec

-----------------------------------------------------------------------------
(* The way to the end.                                                     *)

(* A step of a run brings it to a label closer to the end, or polls.       *)
LEMMA OwnStepAdvances ==
  ASSUME CliBase, NEW r \in Runs, RunStep(r)
  PROVE  StepsLeft(r)' < StepsLeft(r)
  <1> DEFINE m == MaxPolls[Program[r]]
  <1>1. /\ pc \in [Runs -> Labels] /\ polls \in [Runs -> Nat] /\ m \in Nat
        /\ polls[r] <= m
        /\ pc[r] \notin Ended => polls[r] < m
    BY CliSystemAssumption DEF CliBase, RunsTyped, CliTypeOK, Labels
  <1>2. \A label : Goto(r, label) => pc'[r] = label
    BY <1>1 DEF Goto
  <1>3. /\ StepsLeft(r) = CASE pc[r] = "start"    -> 3 + m
                            [] pc[r] = "simulate" -> 2 + m
                            [] pc[r] = "send"     -> 1 + m
                            [] pc[r] = "poll"     -> m - polls[r]
                            [] OTHER              -> 0
        /\ StepsLeft(r)' = CASE pc'[r] = "start"    -> 3 + m
                             [] pc'[r] = "simulate" -> 2 + m
                             [] pc'[r] = "send"     -> 1 + m
                             [] pc'[r] = "poll"     -> m - polls'[r]
                             [] OTHER               -> 0
    BY DEF StepsLeft
  <1> HIDE DEF m
  <1>4. CASE BuildInit(r) \/ BuildAuth(r) \/ Simulate(r)
    <2>1. \/ pc[r] = "start" /\ pc'[r] = "simulate"
          \/ pc[r] = "simulate" /\ pc'[r] = "send"
      BY <1>2, <1>4 DEF BuildInit, BuildAuth, Simulate
    <2> QED BY <1>1, <1>3, <2>1
  <1>5. CASE SendAccepted(r) \/ SendIgnored(r)
    <2>1. pc[r] = "send" /\ pc'[r] \in {"poll", "broken"} /\ polls' = polls
      BY <1>2, <1>5 DEF SendAccepted, SendIgnored
    <2> QED BY <1>1, <1>3, <2>1
  <1>6. CASE PollNotFound(r)
    <2>1. /\ pc[r] = "poll" /\ pc'[r] \in {"poll", "timed_out"}
          /\ polls'[r] = polls[r] + 1
      BY <1>1, <1>2, <1>6 DEF PollNotFound
    <2> QED BY <1>1, <1>3, <2>1 DEF Ended
  <1>7. CASE SimulateFails(r) \/ SendRejected(r) \/ PollFound(r) \/ PollError(r) \/ RpcBreaks(r)
    <2>1. /\ pc[r] \in {"start", "simulate", "send", "poll"}
          /\ pc'[r] \in Ended
      BY <1>2, <1>7 DEF SimulateFails, SendRejected, PollFound, PollError, RpcBreaks, Ended
    <2> QED BY <1>1, <1>3, <2>1 DEF Ended
  <1> QED BY <1>4, <1>5, <1>6, <1>7 DEF RunStep

(* Nobody else moves a run.                                                *)
LEMMA OthersKeep ==
  ASSUME CliBase, [CliNext]_cliVars, NEW r \in Runs, ~RunStep(r)
  PROVE  pc'[r] = pc[r] /\ polls'[r] = polls[r]
  <1>1. pc'[r] = pc[r]
    BY LabelSteps DEF RunStep, Moves
  <1>2. ASSUME NEW q \in Runs, RunStep(q) PROVE polls'[r] = polls[r]
    <2>1. q # r /\ polls \in [Runs -> Nat]
      BY <1>2 DEF CliBase, RunsTyped, CliTypeOK
    <2> QED BY <1>2, <2>1 DEF RunStep, BuildInit, BuildAuth, Simulate, SimulateFails,
               SendAccepted, SendRejected, SendIgnored, PollFound, PollNotFound,
               PollError, RpcBreaks
  <1>3. CASE (\E t \in pool : Include(t)) \/ Elsewhere \/ UNCHANGED cliVars
    BY <1>3, Including, ElsewhereKeeps
  <1>4. \/ \E q \in Runs : RunStep(q)
        \/ (\E t \in pool : Include(t)) \/ Elsewhere \/ UNCHANGED cliVars
    BY StepKinds DEF RunStep, Moves
  <1> QED BY <1>1, <1>2, <1>3, <1>4

(* Every step of a run, and no other, brings its end nearer: whatever the  *)
(* others do, it makes no more RPCs than its program allows (rpc, submit). *)
THEOREM RunsAdvanceHolds == CliSpec => RunsAdvance
  <1> DEFINE A == \A r \in Runs : IF RunStep(r) THEN StepsLeft(r)' < StepsLeft(r)
                                                ELSE StepsLeft(r)' = StepsLeft(r)
  <1>1. CliBase /\ [CliNext]_cliVars => A
    BY OwnStepAdvances, OthersKeep DEF StepsLeft
  <1>2. RunsAdvance <=> [][A]_cliVars
    BY DEF RunsAdvance
  <1> HIDE DEF A
  <1> QED BY <1>1, <1>2, BaseHolds, PTL DEF CliSpec

-----------------------------------------------------------------------------
(* The wrong program.                                                      *)

(* What passes a simulation with enforcement was signed under the context  *)
(* of the account's contract.                                              *)
LEMMA SimulatedContext ==
  ASSUME CliBase, NEW r \in Runs, Mode[r] = "auth", Simulate(r)
  PROVE  RunContext(r) = ClientContext(Account[r])
  <1>1. Own(r)
    BY DEF Simulate, CliBase, OwnTransactions, Built
  <1>2. PICK l \in 0..MaxLedger : tx[r].arg = EntryOf(r, l)
    BY <1>1 DEF Own
  <1>3. Account[r] \in Accounts /\ RequireAuth(Account[r], tx[r].arg) = "Ok"
    BY <1>1, CliSystemAssumption DEF Simulate, Outcome, Own
  <1>4. tx[r].arg.signature.body = Signature(SCHEME, stored[Account[r]].body,
                                             ClientContext(Account[r]), HostPayload(tx[r].arg))
    BY <1>3, RequireAuthOk, CheckAuthOk
  <1>5. EntryOf(r, l).signature.body = Signature(SCHEME, PublicKey(SEED), RunContext(r),
                                                 SignaturePayload(RunPayload(r, l)))
    BY BuiltEntry DEF EntryOf
  <1> QED BY <1>2, <1>4, <1>5 DEF Signature

(* A run of the wrong program for its account never sends anything.        *)
THEOREM WrongProgramStopsEarlyHolds == CliSpec => []WrongProgramStopsEarly
  <1>1. CliInit => WrongProgramStopsEarly
    BY DEF CliInit, WrongProgramStopsEarly
  <1>2. CliBase /\ WrongProgramStopsEarly /\ [CliNext]_cliVars => WrongProgramStopsEarly'
    <2> SUFFICES ASSUME CliBase, WrongProgramStopsEarly, [CliNext]_cliVars, NEW r \in Runs,
                        Mode[r] = "auth", RunContext(r) # ClientContext(Account[r])
                 PROVE  pc'[r] \in {"start", "simulate", "broken"}
      BY DEF WrongProgramStopsEarly, RunContext, ClientContext
    <2>1. pc[r] \in {"start", "simulate", "broken"}
      BY DEF WrongProgramStopsEarly
    <2>2. \A label : Goto(r, label) => pc'[r] = label
      BY DEF CliBase, RunsTyped, CliTypeOK, Goto
    <2>3. ~Simulate(r)
      BY SimulatedContext
    <2>4. CASE BuildInit(r) \/ BuildAuth(r) \/ SendAccepted(r) \/ Moves(r)
      BY <2>1, <2>2, <2>4 DEF BuildInit, BuildAuth, SendAccepted, Moves, SimulateFails,
         SendRejected, SendIgnored, PollFound, PollNotFound, PollError, RpcBreaks
    <2> QED BY <2>1, <2>3, <2>4, LabelSteps
  <1> QED BY <1>1, <1>2, BaseHolds, PTL DEF CliSpec

-----------------------------------------------------------------------------
(* What is sent.                                                           *)

(* A queued transaction stays the next of its source until it is applied,  *)
(* as no other of that source is queued, and it is applied once.           *)
QueueInv ==
  /\ \A t \in pool : InSequence(t)
  /\ \A t, u \in pool : t.source = u.source => t = u
  /\ \A x \in results : x.tx.seq <= seqnum[x.tx.source]
  /\ \A x, y \in results : x.tx = y.tx => x = y

Unsent == {"start", "simulate", "send"}

(* What is queued or applied was sent by a run that will not change it; an *)
(* authorised call met a key that accepted it when it was simulated.       *)
SentBy(r, t) ==
  /\ pc[r] \notin Unsent /\ t = tx[r]
  /\ Mode[r] = "auth" => Accepts(Account[r], simKey[r], t.arg)

SentInv ==
  /\ \A t \in pool : \E r \in Runs : SentBy(r, t)
  /\ \A x \in results : \E r \in Runs : SentBy(r, x.tx)

(* What has been applied is not queued.                                    *)
LEMMA AppliedLeft ==
  ASSUME CliBase, QueueInv, NEW x \in results
  PROVE  x.tx \notin pool
  <1>1. x.tx \in Transactions /\ seqnum \in [Sources -> Nat]
    BY DEF CliBase, RunsTyped, CliTypeOK
  <1>2. x.tx.source \in Sources /\ x.tx.seq \in Nat
    BY <1>1 DEF Transactions
  <1>3. seqnum[x.tx.source] \in Nat /\ x.tx.seq <= seqnum[x.tx.source]
    BY <1>1, <1>2 DEF QueueInv
  <1> QED BY <1>2, <1>3 DEF QueueInv, InSequence

(* The network takes the next transaction of a source and keeps that one.  *)
LEMMA QueueNext ==
  ASSUME CliBase, QueueInv, [CliNext]_cliVars
  PROVE  QueueInv'
  <1>1. /\ seqnum \in [Sources -> Nat] /\ pool \subseteq Transactions
        /\ \A x \in results : x.tx \in Transactions
        /\ \A t \in Transactions : t.source \in Sources /\ t.seq \in Nat
    BY DEF CliBase, RunsTyped, CliTypeOK, Transactions
  <1>2. CASE UNCHANGED <<seqnum, results>> /\ pool' \subseteq pool
    BY <1>2 DEF QueueInv, InSequence
  <1>3. ASSUME NEW r \in Runs, SendAccepted(r) PROVE QueueInv'
    <2>1. /\ UNCHANGED <<seqnum, results>> /\ pool' = pool \cup {tx[r]}
          /\ InSequence(tx[r]) /\ \A t \in pool : t.source # Source[r]
      BY <1>3 DEF SendAccepted, Queued
    <2>2. tx[r].source = Source[r]
      BY <1>3 DEF SendAccepted, CliBase, OwnTransactions, Built, Own
    <2> QED BY <2>1, <2>2 DEF QueueInv, InSequence
  <1>4. ASSUME NEW t \in pool, Include(t) PROVE QueueInv'
    <2>1. /\ seqnum' = [seqnum EXCEPT ![t.source] = t.seq]
          /\ t.source \in Sources /\ t.seq = seqnum[t.source] + 1
          /\ pool' = pool \ {t}
      BY <1>4, Including DEF Include
    <2>2. PICK y : results' = results \cup {y} /\ y.tx = t
      BY <1>4, Including
    <2>3. \A u \in pool' : u.source # t.source /\ u \in Transactions
      BY <1>1, <2>1 DEF QueueInv
    <2>4. \A u \in pool' : InSequence(u)'
      BY <1>1, <2>1, <2>3 DEF QueueInv, InSequence
    <2>5. \A x \in results : x.tx # t
      BY <1>4, AppliedLeft
    <2>6. \A x \in results : x.tx.seq <= seqnum'[x.tx.source]
      <3> SUFFICES ASSUME NEW x \in results PROVE x.tx.seq <= seqnum'[x.tx.source]
        OBVIOUS
      <3>1. x.tx.source \in Sources /\ x.tx.seq \in Nat /\ x.tx.seq <= seqnum[x.tx.source]
        BY <1>1 DEF QueueInv
      <3> QED BY <1>1, <2>1, <3>1
    <2>7. t.seq <= seqnum'[t.source]
      BY <1>1, <2>1
    <2> QED BY <2>1, <2>2, <2>4, <2>5, <2>6, <2>7 DEF QueueInv
  <1>5. \/ UNCHANGED <<seqnum, results>> /\ pool' \subseteq pool
        \/ \E r \in Runs : SendAccepted(r)
        \/ \E t \in pool : Include(t)
    BY StepKinds, MovesGo, ElsewhereKeeps DEF BuildInit, BuildAuth, Simulate, netVars
  <1> QED BY <1>2, <1>3, <1>4, <1>5

(* Who has sent a transaction keeps it, and the key it was simulated with. *)
LEMMA SenderKeeps ==
  ASSUME CliBase, [CliNext]_cliVars, NEW r \in Runs, pc[r] \notin Unsent
  PROVE  pc'[r] \notin Unsent /\ tx'[r] = tx[r] /\ simKey'[r] = simKey[r]
  <1>1. pc \in [Runs -> Labels] /\ simKey \in [Runs -> Slots]
    BY DEF CliBase, RunsTyped, CliTypeOK, Labels
  <1>2. \A label : Goto(r, label) => pc'[r] = label
    BY <1>1 DEF Goto
  <1>3. ~BuildInit(r) /\ ~BuildAuth(r) /\ ~Simulate(r) /\ ~SendAccepted(r)
    BY DEF BuildInit, BuildAuth, Simulate, SendAccepted, Unsent
  <1>4. tx'[r] = tx[r]
    BY <1>3, TransactionSteps
  <1>5. pc'[r] \notin Unsent
    <2>1. Moves(r) => pc'[r] \notin Unsent
      BY <1>2 DEF Moves, SimulateFails, SendRejected, SendIgnored, PollFound,
         PollNotFound, PollError, RpcBreaks, Unsent
    <2> QED BY <1>3, <2>1, LabelSteps
  <1>6. simKey'[r] = simKey[r]
    <2>1. ASSUME NEW q \in Runs, Simulate(q) PROVE simKey'[r] = simKey[r]
      BY <1>1, <1>3, <2>1 DEF Simulate
    <2> QED BY <2>1, StepKinds, MovesGo, ElsewhereKeeps, Including
            DEF BuildInit, BuildAuth, SendAccepted
  <1> QED BY <1>4, <1>5, <1>6

(* A run sends what passed its simulation; the network applies what is     *)
(* queued.                                                                 *)
LEMMA SentNext ==
  ASSUME CliBase, SentInv, SimulatedAccepts, [CliNext]_cliVars
  PROVE  SentInv'
  <1>1. ASSUME NEW r \in Runs, NEW t, SentBy(r, t) PROVE SentBy(r, t)'
    BY <1>1, SenderKeeps DEF SentBy, Accepts, HostPayload
  <1>2. ASSUME NEW r \in Runs, SendAccepted(r), NEW t, t = tx[r] PROVE SentBy(r, t)'
    <2>1. /\ pc[r] = "send" /\ UNCHANGED <<tx, simKey>>
          /\ Goto(r, "poll") \/ Goto(r, "broken")
      BY <1>2 DEF SendAccepted
    <2>2. pc'[r] \notin Unsent
      BY <2>1 DEF Goto, Unsent, CliBase, RunsTyped, CliTypeOK
    <2>3. Mode[r] = "auth" => Accepts(Account[r], simKey[r], tx[r].arg)
      BY <2>1 DEF SimulatedAccepts, Past
    <2> QED BY <1>2, <2>1, <2>2, <2>3 DEF SentBy, Accepts, HostPayload
  <1>3. \A t \in pool' : t \in pool \/ \E r \in Runs : SendAccepted(r) /\ t = tx[r]
    <2>1. \/ pool' \subseteq pool
          \/ \E r \in Runs : SendAccepted(r) /\ pool' = pool \cup {tx[r]}
      BY StepKinds, MovesGo, ElsewhereKeeps, Including
         DEF BuildInit, BuildAuth, Simulate, SendAccepted, netVars
    <2> QED BY <2>1
  <1>4. \A x \in results' : x \in results \/ x.tx \in pool
    <2>1. UNCHANGED results \/ \E t \in pool : Include(t)
      BY StepKinds, MovesGo, ElsewhereKeeps
         DEF BuildInit, BuildAuth, Simulate, SendAccepted, netVars
    <2>2. ASSUME NEW t \in pool, Include(t)
          PROVE  \A x \in results' : x \in results \/ x.tx \in pool
      <3>1. PICK y : results' = results \cup {y} /\ y.tx = t
        BY <2>2, Including
      <3> QED BY <3>1
    <2> QED BY <2>1, <2>2
  <1>5. \A t \in pool' : \E r \in Runs : SentBy(r, t)'
    BY <1>1, <1>2, <1>3 DEF SentInv
  <1>6. \A x \in results' : \E r \in Runs : SentBy(r, x.tx)'
    BY <1>1, <1>4 DEF SentInv
  <1> QED BY <1>5, <1>6 DEF SentInv

-----------------------------------------------------------------------------
(* What is read.                                                           *)

(* Applied transactions were applied in this ledger or an earlier one.     *)
ResultsPast == \A x \in results : x.at <= ledger

(* A source's transactions are applied in the order of their numbers.      *)
InTurn ==
  \A x, y \in results :
    x.tx.source = y.tx.source /\ x.tx.seq <= y.tx.seq => x.at <= y.at

(* What a run read it read of a closed ledger: before its transaction come *)
(* those that were applied by then, and no others.                         *)
ReadOf(r) ==
  LET t == tx[r] IN
  /\ ReadAt(t) \in Nat /\ ReadAt(t) < ledger
  /\ \A x \in results :
       x.tx.source = Source[r] => (x.tx.seq < t.seq <=> x.at <= ReadAt(t))

Reads == \A r \in Runs : Mode[r] = "auth" /\ Built(r) => ReadOf(r)

ReadsInv == ResultsPast /\ InTurn /\ Reads

(* What is applied is applied now, and is the last of its source so far.   *)
LEMMA NewResult ==
  ASSUME CliBase, [CliNext]_cliVars, NEW x \in results', x \notin results
  PROVE  /\ x.at = ledger /\ x.tx.source \in Sources
         /\ x.tx.seq = seqnum[x.tx.source] + 1
         /\ \A y \in results' : y \in results \/ y = x
  <1>1. PICK t \in pool : Include(t)
    BY StepKinds, MovesGo, ElsewhereKeeps
       DEF BuildInit, BuildAuth, Simulate, SendAccepted, netVars
  <1>2. PICK y : results' = results \cup {y} /\ y.tx = t /\ y.at = ledger
    BY <1>1, Including
  <1>3. x = y
    BY <1>2
  <1>4. t.source \in Sources /\ t.seq = seqnum[t.source] + 1
    BY <1>1, Including
  <1> QED BY <1>2, <1>3, <1>4

LEMMA ResultsPastNext ==
  ASSUME CliBase, ResultsPast, [CliNext]_cliVars
  PROVE  ResultsPast'
  <1> SUFFICES ASSUME NEW x \in results' PROVE x.at <= ledger'
    BY DEF ResultsPast
  <1>1. ledger \in Nat /\ ledger' \in {ledger, ledger + 1}
    BY LedgerSteps
  <1>2. CASE x \in results
    BY <1>1, <1>2, ResultTyped DEF ResultsPast
  <1> QED BY <1>1, <1>2, NewResult

LEMMA InTurnNext ==
  ASSUME CliBase, QueueInv, ResultsPast, InTurn, [CliNext]_cliVars
  PROVE  InTurn'
  <1> SUFFICES ASSUME NEW x \in results', NEW y \in results',
                      x.tx.source = y.tx.source, x.tx.seq <= y.tx.seq
               PROVE  x.at <= y.at
    BY DEF InTurn
  <1>1. ledger \in Nat
    BY LedgerSteps
  <1>2. CASE x \in results /\ y \in results
    BY <1>2 DEF InTurn
  <1>3. CASE x \in results /\ y \notin results
    BY <1>3, NewResult DEF ResultsPast
  <1>4. CASE x \notin results /\ y \in results
    <2>1. x.tx.seq = seqnum[y.tx.source] + 1
      BY <1>4, NewResult
    <2>2. y.tx.seq <= seqnum[y.tx.source]
      BY <1>4 DEF QueueInv
    <2> QED BY <1>4, <2>1, <2>2, ResultTyped
  <1>5. CASE x \notin results /\ y \notin results
    BY <1>1, <1>5, NewResult
  <1> QED BY <1>2, <1>3, <1>4, <1>5

(* An entry is dated from the ledger that was read.                        *)
LEMMA EntryDated ==
  ASSUME NEW r \in Runs, NEW l \in Nat, NEW t, t.arg = EntryOf(r, l)
  PROVE  ReadAt(t) = l
  <1>1. EntryOf(r, l).signature_expiration_ledger = l + ExpiryWindow
    BY BuiltEntry DEF EntryOf, RunPayload, Payload
  <1> QED BY <1>1, CliSystemAssumption DEF ReadAt

(* A run reads number and ledger of one reply.                             *)
LEMMA BuiltReads ==
  ASSUME CliBase, InTurn, NEW r \in Runs, Mode[r] = "auth", BuildAuth(r)
  PROVE  ReadOf(r)'
  <1>1. TypeOK /\ RunsTyped /\ Source[r] \in Sources
    BY DEF CliBase, Sources
  <1>2. PICK read \in AccountStates(Source[r]) :
          tx'[r].seq = read.seq + 1 /\ tx'[r].arg = EntryOf(r, read.latest)
    BY <1>1, Building
  <1>3. /\ read.seq \in Nat /\ read.latest \in Nat
        /\ ledger \in Nat /\ read.latest <= ledger - 1
        /\ NumberAt(Source[r], read.latest, read.seq)
    BY <1>1, ReadTyped, AccountHostAssumption
  <1>4. UNCHANGED <<ledger, results>>
    BY DEF BuildAuth, Sign, netVars
  <1>5. ReadAt(tx'[r]) = read.latest
    BY <1>2, <1>3, EntryDated
  <1>6. ASSUME NEW x \in results, x.tx.source = Source[r]
        PROVE  x.tx.seq < read.seq + 1 <=> x.at <= read.latest
    <2>1. x.at \in Nat /\ x.tx.seq \in Nat \ {0}
      BY ResultTyped
    <2>2. x.at <= read.latest => x.tx.seq <= read.seq
      BY <1>3, <1>6 DEF NumberAt
    <2>3. ASSUME x.tx.seq <= read.seq PROVE x.at <= read.latest
      <3>1. PICK y \in results : /\ y.tx.source = Source[r] /\ y.tx.seq = read.seq
                                 /\ y.at <= read.latest
        BY <1>3, <2>1, <2>3 DEF NumberAt
      <3>2. x.at <= y.at /\ y.at \in Nat
        BY <1>6, <2>3, <3>1, ResultTyped DEF InTurn
      <3> QED BY <1>3, <2>1, <3>1, <3>2
    <2> QED BY <1>3, <2>1, <2>2, <2>3
  <1>7. ReadAt(tx[r])' = ReadAt(tx'[r])
    BY DEF ReadAt
  <1> QED BY <1>2, <1>3, <1>4, <1>5, <1>6, <1>7 DEF ReadOf

(* What comes to be applied afterwards comes after the run's transaction,  *)
(* or instead of it.                                                       *)
LEMMA ReadsStay ==
  ASSUME CliBase, QueueInv, [CliNext]_cliVars, NEW r \in Runs, ReadOf(r), Own(r),
         tx'[r].arg = tx[r].arg, tx'[r].seq = tx[r].seq
  PROVE  ReadOf(r)'
  <1>1. ledger \in Nat /\ ledger' \in {ledger, ledger + 1}
    BY LedgerSteps
  <1>2. ReadAt(tx[r])' = ReadAt(tx[r])
    BY DEF ReadAt
  <1>3. /\ tx[r].seq \in Nat /\ seqnum[Source[r]] \in Nat
        /\ tx[r].seq <= seqnum[Source[r]] + 1
    BY DEF Own, Transactions, CliBase, RunsTyped, CliTypeOK, Sources
  <1>4. ASSUME NEW x \in results', x.tx.source = Source[r]
        PROVE  x.tx.seq < tx[r].seq <=> x.at <= ReadAt(tx[r])
    <2>1. CASE x \in results
      BY <1>4, <2>1 DEF ReadOf
    <2>2. CASE x \notin results
      <3>1. x.at = ledger /\ x.tx.seq = seqnum[Source[r]] + 1
        BY <1>4, <2>2, NewResult
      <3> QED BY <1>1, <1>3, <3>1 DEF ReadOf
    <2> QED BY <2>1, <2>2
  <1>5. ReadAt(tx[r]) \in Nat /\ ReadAt(tx[r]) < ledger'
    BY <1>1 DEF ReadOf
  <1> QED BY <1>2, <1>4, <1>5 DEF ReadOf

LEMMA ReadsNext ==
  ASSUME CliBase, QueueInv, ReadsInv, [CliNext]_cliVars
  PROVE  ReadsInv'
  <1>1. ResultsPast' /\ InTurn'
    BY ResultsPastNext, InTurnNext DEF ReadsInv
  <1>2. ASSUME NEW r \in Runs, Mode[r] = "auth", Built(r)' PROVE ReadOf(r)'
    <2>1. CASE BuildInit(r) \/ BuildAuth(r)
      BY <1>2, <2>1, BuiltReads DEF BuildInit, ReadsInv
    <2>2. CASE Simulate(r)
      <3>1. Built(r)
        BY <2>2 DEF Simulate, Built
      <3>2. Own(r) /\ ReadOf(r)
        BY <1>2, <3>1 DEF CliBase, OwnTransactions, ReadsInv, Reads
      <3>3. tx'[r].arg = tx[r].arg /\ tx'[r].seq = tx[r].seq
        BY <2>2, <3>2, Simulating DEF CliBase, Own
      <3> QED BY <3>2, <3>3, ReadsStay
    <2>3. CASE tx'[r] = tx[r] /\ (Built(r)' => Built(r))
      <3>1. Own(r) /\ ReadOf(r)
        BY <1>2, <2>3 DEF CliBase, OwnTransactions, ReadsInv, Reads
      <3> QED BY <2>3, <3>1, ReadsStay
    <2> QED BY <2>1, <2>2, <2>3, TransactionSteps
  <1>3. Reads'
    BY <1>2 DEF Reads
  <1> QED BY <1>1, <1>3 DEF ReadsInv

(* Everything a refusal or an application is explained by.                 *)
NetworkInv == QueueInv /\ SentInv /\ SimulatedAccepts /\ ReadsInv

LEMMA NetworkInvHolds == CliSpec => []NetworkInv
  <1>1. CliInit => NetworkInv
    <2> SUFFICES ASSUME CliInit PROVE NetworkInv
      OBVIOUS
    <2>1. /\ pool = {} /\ results = {}
          /\ \A r \in Runs : pc[r] = "start" /\ ~Built(r)
      BY DEF CliInit, Built
    <2> QED BY <2>1 DEF NetworkInv, QueueInv, SentInv, SimulatedAccepts, Past,
            ReadsInv, ResultsPast, InTurn, Reads
  <1>2. CliBase /\ InductiveInv /\ NetworkInv /\ [CliNext]_cliVars => NetworkInv'
    BY QueueNext, SentNext, SimulatedAcceptsNext, ReadsNext DEF NetworkInv, InductiveInv
  <1> QED BY <1>1, <1>2, BaseHolds, PTL DEF CliSpec

(* A later transaction of a source is numbered by a run that read a ledger *)
(* with the earlier one in it: nothing is passed while it is pending       *)
(* (account_state, submit).                                                *)
THEOREM AppliedBeforeReadHolds == CliSpec => []AppliedBeforeRead
  <1>1. CliBase /\ NetworkInv => AppliedBeforeRead
    <2> SUFFICES ASSUME CliBase, NetworkInv, NEW x \in results, NEW y \in results,
                        x.tx.source = y.tx.source, x.tx.seq < y.tx.seq,
                        y.tx.function = "protected"
                 PROVE  x.at <= ReadAt(y.tx)
      BY DEF AppliedBeforeRead
    <2>1. PICK r \in Runs : pc[r] \notin Unsent /\ y.tx = tx[r]
      BY DEF NetworkInv, SentInv, SentBy
    <2>2. Built(r)
      <3>1. y.tx \in Transactions
        BY ResultTyped
      <3>2. pc[r] = "broken" \/ pc[r] \notin {"start", "broken"}
        BY <2>1 DEF Unsent
      <3> QED BY <2>1, <3>1, <3>2, CliSystemAssumption DEF Built
    <2>3. Own(r)
      BY <2>2 DEF CliBase, OwnTransactions
    <2>4. Mode[r] = "auth"
      BY <2>1, <2>3, CliSystemAssumption DEF Own
    <2> QED BY <2>1, <2>2, <2>3, <2>4 DEF NetworkInv, ReadsInv, Reads, ReadOf, Own
  <1> QED BY <1>1, BaseHolds, NetworkInvHolds, PTL

-----------------------------------------------------------------------------
(* Refusals.                                                               *)

(* Whoever has raised a source's sequence number has left a result.        *)
SequencesTaken ==
  \A s \in Sources : seqnum[s] > 0 =>
    \E x \in results : x.tx.source = s /\ x.tx.seq = seqnum[s]

RejectionInv == NetworkInv /\ SequencesTaken /\ RejectionExplained

(* A transaction that is applied takes the number it has.                  *)
LEMMA SequencesTakenNext ==
  ASSUME CliBase, SequencesTaken, [CliNext]_cliVars
  PROVE  SequencesTaken'
  <1> SUFFICES ASSUME NEW s \in Sources, seqnum'[s] > 0
               PROVE  \E x \in results' : x.tx.source = s /\ x.tx.seq = seqnum'[s]
    BY DEF SequencesTaken
  <1>1. CASE seqnum'[s] = seqnum[s]
    BY <1>1, ResultsGrow DEF SequencesTaken
  <1>2. CASE seqnum'[s] # seqnum[s]
    <2>1. PICK t \in pool : Include(t)
      BY <1>2, StepKinds, MovesGo, ElsewhereKeeps
         DEF BuildInit, BuildAuth, Simulate, SendAccepted, netVars
    <2>2. /\ seqnum' = [seqnum EXCEPT ![t.source] = t.seq]
          /\ \E x : results' = results \cup {x} /\ x.tx = t
      BY <2>1, Including
    <2>3. s = t.source /\ seqnum'[s] = t.seq
      BY <1>2, <2>2 DEF CliBase, RunsTyped, CliTypeOK
    <2> QED BY <2>2, <2>3
  <1> QED BY <1>1, <1>2

(* A refused transaction has lost its number to one that was applied after *)
(* its run had read, or does not reach the base fee above its resources.   *)
LEMMA RejectionNext ==
  ASSUME CliBase, RejectionInv, [CliNext]_cliVars
  PROVE  RejectionExplained'
  <1> DEFINE Taken(r, t, x) == /\ x.tx.source = Source[r] /\ x.tx.seq >= t.seq
                               /\ Mode[r] = "auth" => x.at > ReadAt(t)
  <1> SUFFICES ASSUME NEW r \in Runs, pc'[r] = "rejected"
               PROVE  \/ tx'[r].fee # tx'[r].resources + 1000
                      \/ \E x \in results' : Taken(r, tx'[r], x)
    BY DEF RejectionExplained, ReadAt
  <1>1. pc \in [Runs -> Labels] /\ Source[r] \in Sources
    BY DEF CliBase, RunsTyped, CliTypeOK, Labels, Sources
  <1>2. \A label : Goto(r, label) => pc'[r] = label
    BY <1>1 DEF Goto
  <1>3. ~BuildInit(r) /\ ~BuildAuth(r) /\ ~Simulate(r)
    BY <1>2 DEF BuildInit, BuildAuth, Simulate
  <1>4. tx'[r] = tx[r]
    BY <1>3, TransactionSteps
  <1>5. CASE pc[r] = "rejected"
    <2>1. \/ tx[r].fee # tx[r].resources + 1000
          \/ \E x \in results : Taken(r, tx[r], x)
      BY <1>5 DEF RejectionInv, RejectionExplained
    <2> HIDE DEF Taken
    <2> QED BY <1>4, <2>1, ResultsGrow
  <1>6. CASE SendRejected(r)
    <2>1. /\ pc[r] = "send" /\ UNCHANGED results
          /\ ~InSequence(tx[r]) \/ ~Affordable(tx[r])
      BY <1>6 DEF SendRejected, netVars
    <2>2. Own(r) /\ Built(r)
      BY <2>1 DEF CliBase, OwnTransactions, Built
    <2>3. /\ tx[r].fee \in Nat /\ tx[r].resources \in Nat
          /\ tx[r].seq \in Nat \ {0} /\ seqnum[Source[r]] \in Nat
      BY <1>1, <2>2 DEF Own, Transactions, CliBase, RunsTyped, CliTypeOK
    <2>4. CASE ~InSequence(tx[r])
      <3>1. tx[r].seq <= seqnum[Source[r]] /\ seqnum[Source[r]] > 0
        BY <2>2, <2>3, <2>4 DEF InSequence, Own
      <3>2. PICK x \in results : x.tx.source = Source[r] /\ x.tx.seq = seqnum[Source[r]]
        BY <1>1, <3>1 DEF RejectionInv, SequencesTaken
      <3>3. x.tx.seq >= tx[r].seq /\ x.at \in Nat
        BY <3>1, <3>2, ResultTyped
      <3>4. Mode[r] = "auth" => x.at > ReadAt(tx[r])
        <4> SUFFICES ASSUME Mode[r] = "auth" PROVE x.at > ReadAt(tx[r])
          OBVIOUS
        <4>1. ReadOf(r)
          BY <2>2 DEF RejectionInv, NetworkInv, ReadsInv, Reads
        <4>2. ReadAt(tx[r]) \in Nat /\ ~(x.at <= ReadAt(tx[r]))
          BY <2>3, <3>1, <3>2, <4>1 DEF ReadOf
        <4> QED BY <3>3, <4>2
      <3> QED BY <1>4, <2>1, <3>2, <3>3, <3>4
    <2>5. CASE ~Affordable(tx[r])
      BY <1>4, <2>3, <2>5 DEF Affordable, BASE_FEE
    <2> QED BY <2>1, <2>4, <2>5
  <1>7. pc[r] = "rejected" \/ SendRejected(r)
    <2>1. ~SendAccepted(r)
      BY <1>2 DEF SendAccepted
    <2>2. Moves(r) => SendRejected(r)
      BY <1>2 DEF Moves, SimulateFails, SendIgnored, PollFound,
         PollNotFound, PollError, RpcBreaks
    <2> QED BY <1>3, <2>1, <2>2, LabelSteps
  <1> QED BY <1>5, <1>6, <1>7

(* A run is refused only because its sequence number was taken after it    *)
(* had read it, or because of its fee (account_state, submit).             *)
THEOREM RejectionExplainedHolds == CliSpec => []RejectionExplained
  <1>1. CliInit => SequencesTaken /\ RejectionExplained
    BY DEF CliInit, SequencesTaken, RejectionExplained
  <1>2. CliBase /\ RejectionInv /\ [CliNext]_cliVars
        => SequencesTaken' /\ RejectionExplained'
    BY SequencesTakenNext, RejectionNext DEF RejectionInv
  <1>3. RejectionInv <=> NetworkInv /\ SequencesTaken /\ RejectionExplained
    BY DEF RejectionInv
  <1> QED BY <1>1, <1>2, <1>3, BaseHolds, NetworkInvHolds, PTL DEF CliSpec

=============================================================================
