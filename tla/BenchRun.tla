------------------------------- MODULE BenchRun -------------------------------
(***************************************************************************)
(* The bench program of crates/pq-cli: it simulates one call of            *)
(* pq-verifier after another, keeps what each costs and prints tables.     *)
(* It never looks at what a call answers, so whether a row measures what   *)
(* its label says is between bench and the contract.                       *)
(*                                                                         *)
(* What a simulation costs is the network's to say, anew for every         *)
(* measurement: two of the same call may differ, and nothing is assumed of *)
(* how the cost of a verification grows with its message.                  *)
(***************************************************************************)
EXTENDS PqVerifier, LedgerPacking, Integers, Sequences

CONSTANTS
  SEED,             \* the seed of both key pairs
  Costs,            \* what the network may charge for a call, by its function
  LEDGER_MAX_INSN,  \* 580 000 000 in the code
  LEDGER_MAX_TX_COUNT,
  SweepLengths,     \* message lengths of the sweep, in order
  Slopes            \* the marginal costs a reader may compare the sweep with

VARIABLES
  pc,               \* "start", "rows", "sweep", "done", "trapped", "panicked"
  rows,             \* the table [label, insns], and the answer, which the
                    \* program does not see
  points,           \* the sweep [len, net, slope], and the answer
  prev              \* the point before [len, net]

benchVars == <<pc, rows, points, prev>>

ASSUME BenchRunAssumption ==
  /\ Costs \in [{"noop", "ed25519", "secp256r1", "decode", "verify"} -> SUBSET (Nat \ {0})]
  /\ LEDGER_MAX_INSN \in Nat /\ LEDGER_MAX_TX_COUNT \in Nat
  /\ SweepLengths \in Seq(Nat) /\ Len(SweepLengths) > 0
  /\ \A i, j \in DOMAIN SweepLengths : i < j => SweepLengths[i] < SweepLengths[j]
  /\ \A i \in DOMAIN SweepLengths : SweepLengths[i] <= MSG_LEN
  /\ Slopes \subseteq Int
  /\ None \notin [len : Nat, net : Nat]

-----------------------------------------------------------------------------
(* The vectors: a message, the key and a signature under no context.       *)
Message(n) == Bytes(n, [kind |-> "message"])

Vk(s) == WriteVerifyingKey(s, PublicKey(SEED), VERIFYING_KEY_LEN[s]).val

Sig(s, msg) == SignInto(s, SEED, msg, EmptyContext, SIGNATURE_LEN[s]).val

(* The host functions' vectors; p256 signs a digest.                       *)
ClassicPk(f) == Bytes(CLASSIC_LEN[f].pk, [kind |-> "classic key", scheme |-> f])

ClassicSig(f, msg) ==
  Bytes(CLASSIC_LEN[f].sig,
        ClassicSignature(f, ClassicPk(f).body,
                         IF f = "secp256r1" THEN Sha256(msg) ELSE msg))

(* The calls, in the order of the table.                                   *)
VerifyCall(s, n) == [function |-> "verify", scheme |-> s, msg |-> Message(n)]
DecodeCall(s)    == [function |-> "decode", scheme |-> s]
ClassicCall(f)   == [function |-> f, msg |-> Message(32)]

Calls ==
  << [function |-> "noop"], ClassicCall("ed25519"), ClassicCall("secp256r1"),
     DecodeCall("ML-DSA-44"), VerifyCall("ML-DSA-44", 32),
     DecodeCall("ML-DSA-65"), VerifyCall("ML-DSA-65", 32) >>

(* What the contract answers, if it does not trap.                         *)
AnswerOf(call) ==
  CASE call.function = "verify" ->
         VerifyAnswer(call.scheme, Vk(call.scheme), call.msg,
                      Sig(call.scheme, call.msg))
    [] call.function = "decode" -> DecodeAnswer(call.scheme, Vk(call.scheme))
    [] OTHER -> TRUE

Traps(call) ==
  /\ call.function \in {"ed25519", "secp256r1"}
  /\ ClassicTraps(call.function, ClassicPk(call.function), call.msg,
                  ClassicSig(call.function, call.msg))

-----------------------------------------------------------------------------
(* The program.                                                            *)
(* The first row of the table is the baseline.                             *)
Noop == rows[1].insns

Net(insns) == IF insns > Noop THEN insns - Noop ELSE 0

(* Faulty: the next cost is compared with what includes the baseline.      *)
RememberGross(len, insns) == [len |-> len, net |-> insns]

(* What is kept of a point for the slope of the next.                      *)
Remember(len, insns) == [len |-> len, net |-> Net(insns)]

BenchInit ==
  /\ pc = "start"
  /\ rows = << >> /\ points = << >>
  /\ prev = None

(* account_state.                                                          *)
Start ==
  /\ pc = "start"
  /\ pc' = "rows"
  /\ UNCHANGED <<rows, points, prev>>

(* measure, for the next row of the table; a trap fails the simulation and *)
(* the program panics.                                                     *)
MeasureRow ==
  LET call == Calls[Len(rows) + 1] IN
  /\ pc = "rows"
  /\ IF Traps(call)
     THEN UNCHANGED rows
     ELSE \E insns \in Costs[call.function] :
            rows' = Append(rows, [call   |-> call, insns |-> insns,
                                  answer |-> AnswerOf(call)])
  /\ pc' = IF Traps(call) THEN "trapped"
           ELSE IF Len(rows') = Len(Calls) THEN "sweep" ELSE "rows"
  /\ UNCHANGED <<points, prev>>

(* The next point of the sweep, which costs insns, and its slope from the  *)
(* one before, as the quotient the code rounds for print.                  *)
Point(len, insns) ==
  LET net == Net(insns) IN
  [len    |-> len,
   net    |-> net,
   slope  |-> IF prev = None THEN None
              ELSE [rise |-> net - prev.net, run |-> len - prev.len],
   answer |-> AnswerOf(VerifyCall("ML-DSA-65", len))]

MeasurePoint ==
  LET len == SweepLengths[Len(points) + 1] IN
  /\ pc = "sweep"
  /\ \E insns \in Costs["verify"] :
       /\ points' = Append(points, Point(len, insns))
       /\ prev' = Remember(len, insns)
  /\ pc' = IF Len(points') = Len(SweepLengths) THEN "done" ELSE "sweep"
  /\ UNCHANGED rows

(* A simulation fails for another reason or a reply is unusable.           *)
Panic ==
  /\ pc \in {"start", "rows", "sweep"}
  /\ pc' = "panicked"
  /\ UNCHANGED <<rows, points, prev>>

BenchNext == Start \/ MeasureRow \/ MeasurePoint \/ Panic

BenchSpec == BenchInit /\ [][BenchNext]_benchVars

-----------------------------------------------------------------------------
(* The tables.                                                             *)

(* Every cost printed is that of a call that did what its label says: no   *)
(* row and no point of the sweep, up to the longest message, measures a    *)
(* call the contract turned down, and none makes it trap (bench, measure;  *)
(* pq-verifier, verify65 and secp256r1).                                   *)
AcceptedCallsOnly ==
  /\ pc # "trapped"
  /\ \A i \in DOMAIN rows : rows[i].answer
  /\ \A i \in DOMAIN points : points[i].answer

(* Flat marginal costs across the sweep do support the linear model the    *)
(* program says they support: where every slope printed up to a point      *)
(* stays below a cost per byte, the whole rise in cost from the first      *)
(* point stays below the line of that slope, and likewise above, however   *)
(* each measurement came out (bench, the sweep).                           *)
FlatSweepIsLinear ==
  \A c \in Slopes, k \in DOMAIN points :
    LET line == c * (points[k].len - points[1].len)
        cost == points[k].net - points[1].net
        slope(i) == points[i].slope
    IN  /\ (\A i \in 2..k : slope(i).rise <= c * slope(i).run) => cost <= line
        /\ (\A i \in 2..k : slope(i).rise >= c * slope(i).run) => cost >= line

(* The throughput printed for a row is attained by a schedule, and no      *)
(* schedule attains more (bench, LEDGER THROUGHPUT).                       *)
CountsAreOptimal ==
  \A i \in DOMAIN rows :
    LET Fit(n) == Admits(LEDGER_MAX_INSN, LEDGER_MAX_TX_COUNT, rows[i].insns, n)
        count  == PerLedger(LEDGER_MAX_INSN, LEDGER_MAX_TX_COUNT, rows[i].insns)
    IN  Fit(count) /\ ~Fit(count + 1)

=============================================================================
