---------------------------- MODULE BenchRun_proofs ----------------------------
(***************************************************************************)
(* Machine-checked proofs about the throughput arithmetic of bench, and    *)
(* that what it tabulates are costs of accepted calls, one compared with   *)
(* the next.                                                               *)
(***************************************************************************)
EXTENDS BenchRun, FiniteSetTheorems, SequenceTheorems, TLAPS

(* The quotient is the largest number of calls that stay within the limit. *)
LEMMA Quotient ==
  ASSUME NEW limit \in Nat, NEW insns \in Nat \ {0}, NEW k \in Nat
  PROVE  /\ Sequential(limit, insns) \in Nat
         /\ k * insns <= limit <=> k <= Sequential(limit, insns)
  <1> DEFINE q == limit \div insns
  <1>1. Sequential(limit, insns) = q
    BY DEF Sequential
  <1>2. q \in Nat /\ q * insns <= limit /\ limit < (q + 1) * insns
    OBVIOUS
  <1> HIDE DEF q
  <1>3. CASE k <= q
    <2>1. k * insns <= q * insns
      BY <1>2, <1>3
    <2> QED BY <1>1, <1>2, <1>3, <2>1
  <1>4. CASE q < k
    <2>1. (q + 1) * insns <= k * insns
      BY <1>2, <1>4
    <2> QED BY <1>1, <1>2, <1>4, <2>1
  <1> QED BY <1>2, <1>3, <1>4

(* A schedule puts every call into one of the two clusters.                *)
LEMMA TwoClusters ==
  ASSUME NEW n \in Nat, NEW f \in [1..n -> 1..CLUSTERS]
  PROVE  /\ Cardinality(Members(f, 1)) \in Nat
         /\ Cardinality(Members(f, 2)) \in Nat
         /\ n = Cardinality(Members(f, 1)) + Cardinality(Members(f, 2))
  <1> DEFINE A == Members(f, 1)
             B == Members(f, 2)
  <1>1. IsFiniteSet(1..n) /\ Cardinality(1..n) = n
    BY FS_Interval
  <1>2. A \subseteq 1..n /\ B \subseteq 1..n /\ A \cup B = 1..n /\ A \cap B = {}
    BY DEF CLUSTERS, Members
  <1> HIDE DEF A, B
  <1>3. IsFiniteSet(A) /\ IsFiniteSet(B)
    BY <1>1, <1>2, FS_Subset
  <1>4. Cardinality(A) \in Nat /\ Cardinality(B) \in Nat
    BY <1>3, FS_CardinalityType
  <1>5. Cardinality(A \cap B) = 0
    BY <1>2, FS_EmptySet
  <1>6. Cardinality(A \cup B) = Cardinality(A) + Cardinality(B) - 0
    BY <1>3, <1>5, FS_Union, Zenon
  <1>7. Cardinality(A \cup B) = n
    BY <1>1, <1>2, Zenon
  <1>8. n = Cardinality(A) + Cardinality(B)
    BY <1>4, <1>6, <1>7
  <1> QED BY <1>4, <1>8 DEF A, B

(* Twice the quotient can be scheduled: the first calls in one cluster,    *)
(* the others in the other.                                                *)
LEMMA HalfEach ==
  ASSUME NEW q \in Nat, NEW n \in Nat, n <= CLUSTERS * q
  PROVE  \E f \in [1..n -> 1..CLUSTERS] :
           \A c \in 1..CLUSTERS :
             /\ Cardinality(Members(f, c)) \in Nat
             /\ Cardinality(Members(f, c)) <= q
  <1> DEFINE f == [i \in 1..n |-> IF i <= q THEN 1 ELSE 2]
  <1>1. f \in [1..n -> 1..CLUSTERS]
    BY DEF CLUSTERS
  <1>2. ASSUME NEW S, NEW a \in Nat, NEW b \in Nat, S \subseteq a..b,
               b - a + 1 <= q
        PROVE  Cardinality(S) \in Nat /\ Cardinality(S) <= q
    <2>1. IsFiniteSet(a..b) /\ Cardinality(a..b) = IF a > b THEN 0 ELSE b - a + 1
      BY FS_Interval
    <2>2. IsFiniteSet(S) /\ Cardinality(S) <= Cardinality(a..b)
      BY <1>2, <2>1, FS_Subset
    <2>3. Cardinality(S) \in Nat
      BY <2>2, FS_CardinalityType
    <2> QED BY <1>2, <2>1, <2>2, <2>3
  <1>3. Members(f, 1) \subseteq 1..q /\ Members(f, 2) \subseteq (q + 1)..n
    BY DEF Members
  <1> HIDE DEF f
  <1>4. Cardinality(Members(f, 1)) \in Nat /\ Cardinality(Members(f, 1)) <= q
    BY <1>2, <1>3
  <1>5. n - (q + 1) + 1 <= q /\ q + 1 \in Nat
    BY DEF CLUSTERS
  <1>6. Cardinality(Members(f, 2)) \in Nat /\ Cardinality(Members(f, 2)) <= q
    BY <1>2, <1>3, <1>5
  <1>7. \A c \in 1..CLUSTERS : c = 1 \/ c = 2
    BY DEF CLUSTERS
  <1> QED BY <1>1, <1>4, <1>6, <1>7

(* The count bench prints is exactly the largest number of calls that fits *)
(* into a ledger, for every budget, cap and cost of a call (bench, LEDGER  *)
(* THROUGHPUT).                                                            *)
THEOREM PerLedgerIsOptimal ==
  ASSUME NEW limit \in Nat, NEW cap \in Nat, NEW insns \in Nat \ {0}, NEW n \in Nat
  PROVE  Admits(limit, cap, insns, n) <=> n <= PerLedger(limit, cap, insns)
  <1> DEFINE q == Sequential(limit, insns)
  <1>1. q \in Nat
    BY Quotient
  <1>2. n <= PerLedger(limit, cap, insns) <=> n <= cap /\ n <= CLUSTERS * q
    BY <1>1 DEF PerLedger, CLUSTERS
  <1>3. \A k \in Nat : k * insns <= limit <=> k <= q
    BY Quotient
  <1> HIDE DEF q
  <1>4. ASSUME Admits(limit, cap, insns, n) PROVE n <= cap /\ n <= CLUSTERS * q
    <2>1. PICK f \in [1..n -> 1..CLUSTERS] :
            \A c \in 1..CLUSTERS : Load(f, c, insns) <= limit
      BY <1>4 DEF Admits
    <2> DEFINE a == Cardinality(Members(f, 1))
               b == Cardinality(Members(f, 2))
    <2>2. a \in Nat /\ b \in Nat /\ n = a + b
      BY TwoClusters
    <2>3. a * insns <= limit /\ b * insns <= limit
      BY <2>1 DEF Load, CLUSTERS
    <2> HIDE DEF a, b
    <2>4. a <= q /\ b <= q
      BY <1>3, <2>2, <2>3
    <2> QED BY <1>1, <1>4, <2>2, <2>4 DEF Admits, CLUSTERS
  <1>5. ASSUME n <= cap, n <= CLUSTERS * q PROVE Admits(limit, cap, insns, n)
    <2>1. PICK f \in [1..n -> 1..CLUSTERS] :
            \A c \in 1..CLUSTERS :
              /\ Cardinality(Members(f, c)) \in Nat
              /\ Cardinality(Members(f, c)) <= q
      BY <1>1, <1>5, HalfEach
    <2>2. \A c \in 1..CLUSTERS : Load(f, c, insns) <= limit
      BY <1>3, <2>1 DEF Load
    <2> QED BY <1>5, <2>2 DEF Admits
  <1> QED BY <1>2, <1>4, <1>5

-----------------------------------------------------------------------------
(* A row of the table: what the network charges for a call is positive.    *)
Row == [call : {Calls[i] : i \in 1..7}, insns : Nat \ {0},
        answer : {AnswerOf(Calls[i]) : i \in 1..7}]

(* Every row has a cost to divide by, and until all rows are measured there *)
(* is a call left to measure; the sweep has the baseline to subtract.      *)
RowsMeasured ==
  /\ rows \in Seq(Row)
  /\ pc \in {"start", "rows"} => Len(rows) < 7
  /\ pc = "sweep" => Len(rows) = 7

(* There are seven calls in the table.                                     *)
LEMMA SevenCalls == Len(Calls) = 7
  BY DEF Calls

(* Every call of the table costs at least an instruction, whatever the     *)
(* network charges.                                                        *)
LEMMA CallsCost ==
  ASSUME NEW i \in 1..7
  PROVE  Costs[Calls[i].function] \subseteq Nat \ {0}
  <1>1. Calls[i].function \in {"noop", "ed25519", "secp256r1", "decode", "verify"}
    BY DEF Calls, ClassicCall, DecodeCall, VerifyCall
  <1> QED BY <1>1, BenchRunAssumption

(* Only measuring a row changes the table, and it adds a row.              *)
LEMMA RowsMeasuredInductive ==
  /\ BenchInit => RowsMeasured
  /\ RowsMeasured /\ [BenchNext]_benchVars => RowsMeasured'
  <1>1. BenchInit => RowsMeasured
    BY DEF BenchInit, RowsMeasured
  <1>2. ASSUME RowsMeasured, [BenchNext]_benchVars PROVE RowsMeasured'
    <2>1. CASE Start
      BY <1>2, <2>1 DEF Start, RowsMeasured
    <2>2. CASE MeasureRow
      <3> DEFINE i == Len(rows) + 1
                 trap == Traps(Calls[i])
      <3>1. i \in 1..7
        BY <1>2, <2>2 DEF RowsMeasured, MeasureRow
      <3>2. pc' = IF trap THEN "trapped"
                  ELSE IF Len(rows') = Len(Calls) THEN "sweep" ELSE "rows"
        BY <2>2 DEF MeasureRow
      <3>3. CASE trap
        <4>1. rows' = rows
          BY <2>2, <3>3 DEF MeasureRow
        <4> QED BY <1>2, <3>2, <3>3, <4>1 DEF RowsMeasured
      <3>4. CASE ~trap
        <4>1. PICK insns \in Costs[Calls[i].function] :
                rows' = Append(rows, [call   |-> Calls[i], insns |-> insns,
                                      answer |-> AnswerOf(Calls[i])])
          BY <2>2, <3>4 DEF MeasureRow
        <4> DEFINE row == [call   |-> Calls[i], insns |-> insns,
                           answer |-> AnswerOf(Calls[i])]
        <4>2. row \in Row
          BY <3>1, CallsCost DEF Row
        <4> HIDE DEF row
        <4>3. rows' \in Seq(Row) /\ Len(rows') = i
          BY <1>2, <4>1, <4>2 DEF RowsMeasured, row
        <4>4. pc' = IF i = 7 THEN "sweep" ELSE "rows"
          BY <3>2, <3>4, <4>3, SevenCalls
        <4> QED BY <3>1, <4>3, <4>4 DEF RowsMeasured
      <3> QED BY <3>3, <3>4
    <2>3. CASE MeasurePoint
      BY <1>2, <2>3 DEF MeasurePoint, RowsMeasured
    <2>4. CASE Panic
      BY <1>2, <2>4 DEF Panic, RowsMeasured
    <2>5. CASE UNCHANGED benchVars
      BY <1>2, <2>5 DEF benchVars, RowsMeasured
    <2> QED BY <1>2, <2>1, <2>2, <2>3, <2>4, <2>5 DEF BenchNext
  <1> QED BY <1>1, <1>2

(* In every run, whatever the network charges and however the ledger is    *)
(* bounded, the throughput printed for a row is the best a schedule can do *)
(* (bench, LEDGER THROUGHPUT).                                             *)
THEOREM CountsOptimal == BenchSpec => []CountsAreOptimal
  <1>1. RowsMeasured => CountsAreOptimal
    <2> SUFFICES ASSUME RowsMeasured, NEW i \in DOMAIN rows
                 PROVE  LET count == PerLedger(LEDGER_MAX_INSN, LEDGER_MAX_TX_COUNT,
                                               rows[i].insns)
                            Fit(n) == Admits(LEDGER_MAX_INSN, LEDGER_MAX_TX_COUNT,
                                             rows[i].insns, n)
                        IN  Fit(count) /\ ~Fit(count + 1)
      BY DEF CountsAreOptimal
    <2> DEFINE k == rows[i].insns
               count == PerLedger(LEDGER_MAX_INSN, LEDGER_MAX_TX_COUNT, k)
    <2>1. k \in Nat \ {0}
      <3>1. rows[i] \in Row
        BY ElementOfSeq DEF RowsMeasured
      <3> QED BY <3>1 DEF Row
    <2>2. Sequential(LEDGER_MAX_INSN, k) \in Nat
      BY <2>1, Quotient, BenchRunAssumption
    <2>3. count \in Nat
      BY <2>2, BenchRunAssumption DEF PerLedger, CLUSTERS
    <2> HIDE DEF k, count
    <2>4. \A n \in Nat : Admits(LEDGER_MAX_INSN, LEDGER_MAX_TX_COUNT, k, n) <=> n <= count
      BY <2>1, PerLedgerIsOptimal, BenchRunAssumption DEF count
    <2>5. /\ Admits(LEDGER_MAX_INSN, LEDGER_MAX_TX_COUNT, k, count)
          /\ ~Admits(LEDGER_MAX_INSN, LEDGER_MAX_TX_COUNT, k, count + 1)
      BY <2>3, <2>4
    <2> QED BY <2>5 DEF count, k
  <1> QED BY <1>1, RowsMeasuredInductive, PTL DEF BenchSpec

-----------------------------------------------------------------------------
(* What the contract answers.                                              *)

(* A genuine signature verifies, and the contract has room for a message   *)
(* of up to MSG_LEN bytes.                                                 *)
LEMMA VerifyCallsPass ==
  ASSUME NEW s \in Schemes, NEW n \in Nat, n <= MSG_LEN
  PROVE  /\ Fits(s, Vk(s), Message(n), Sig(s, Message(n)))
         /\ VerifyAnswer(s, Vk(s), Message(n), Sig(s, Message(n)))
  <1> DEFINE vk  == Vk(s)
             msg == Message(n)
             sig == Sig(s, msg)
  <1>1. vk.len = VERIFYING_KEY_LEN[s] /\ vk.body = PublicKey(SEED)
    BY DEF Vk, WriteVerifyingKey, Bytes
  <1>2. /\ sig.len = SIGNATURE_LEN[s]
        /\ sig.body = Signature(s, PublicKey(SEED), EmptyContext, msg)
    BY DEF Sig, SignInto, Bytes
  <1>3. msg.len = n
    BY DEF Message, Bytes
  <1> HIDE DEF vk, msg, sig
  <1>4. Fits(s, vk, msg, sig)
    BY <1>1, <1>2, <1>3 DEF Fits
  <1>5. sig.body.kind # MalformedSignature.kind
    BY <1>2 DEF Signature, MalformedSignature
  <1>6. CheckContext(EmptyContext) = "Ok"
    BY DEF CheckContext, EmptyContext, Bytes, Require, MAX_CONTEXT_LEN
  <1>7. Verify(s, PublicKey(SEED), msg, EmptyContext, sig) = "Ok"
    BY <1>2, <1>5, <1>6 DEF Verify, CheckLen, Require, ??
  <1>8. /\ VerifyingKeyFromBytes(s, vk).res = "Ok"
        /\ VerifyingKeyFromBytes(s, vk).val = PublicKey(SEED)
    BY <1>1 DEF VerifyingKeyFromBytes, CheckLen, Require
  <1>9. VerifyAnswer(s, vk, msg, sig)
    BY <1>4, <1>7, <1>8 DEF VerifyAnswer
  <1> QED BY <1>4, <1>9 DEF vk, msg, sig

(* A genuine key decodes.                                                  *)
LEMMA DecodeCallsPass ==
  ASSUME NEW s \in Schemes
  PROVE  DecodeAnswer(s, Vk(s))
  <1>1. Vk(s).len = VERIFYING_KEY_LEN[s]
    BY DEF Vk, WriteVerifyingKey, Bytes
  <1> QED BY <1>1 DEF DecodeAnswer, VerifyingKeyFromBytes, CheckLen, Require

(* The host functions are called with vectors made for them.               *)
LEMMA ClassicCallsPass ==
  ASSUME NEW f \in {"ed25519", "secp256r1"}, NEW msg
  PROVE  ~ClassicTraps(f, ClassicPk(f), msg, ClassicSig(f, msg))
  <1>1. /\ ClassicPk(f).len = CLASSIC_LEN[f].pk
        /\ ClassicSig(f, msg).len = CLASSIC_LEN[f].sig
    BY DEF ClassicPk, ClassicSig, Bytes
  <1>2. ClassicSig(f, msg).body = ClassicSignature(f, ClassicPk(f).body, HandedOn(f, msg))
    BY DEF ClassicSig, HandedOn, Bytes
  <1> QED BY <1>1, <1>2 DEF ClassicTraps

(* No call of the table is turned down, and none traps.                    *)
LEMMA TableCallsPass ==
  ASSUME NEW i \in 1..7
  PROVE  AnswerOf(Calls[i]) /\ ~Traps(Calls[i])
  <1>1. CASE i = 1
    <2>1. Calls[i] = [function |-> "noop"]
      BY <1>1 DEF Calls
    <2> QED BY <2>1 DEF AnswerOf, Traps
  <1>2. ASSUME NEW f \in {"ed25519", "secp256r1"}, Calls[i] = ClassicCall(f)
        PROVE  AnswerOf(Calls[i]) /\ ~Traps(Calls[i])
    <2>1. Calls[i].function = f
      BY <1>2 DEF ClassicCall
    <2> QED BY <2>1, ClassicCallsPass DEF AnswerOf, Traps
  <1>3. ASSUME NEW s \in Schemes, Calls[i] = DecodeCall(s)
        PROVE  AnswerOf(Calls[i]) /\ ~Traps(Calls[i])
    <2>1. Calls[i].function = "decode" /\ Calls[i].scheme = s
      BY <1>3 DEF DecodeCall
    <2> QED BY <2>1, DecodeCallsPass DEF AnswerOf, Traps
  <1>4. ASSUME NEW s \in Schemes, Calls[i] = VerifyCall(s, 32)
        PROVE  AnswerOf(Calls[i]) /\ ~Traps(Calls[i])
    <2>1. /\ Calls[i].function = "verify" /\ Calls[i].scheme = s
          /\ Calls[i].msg = Message(32)
      BY <1>4 DEF VerifyCall
    <2>2. 32 \in Nat /\ 32 <= MSG_LEN
      BY DEF MSG_LEN
    <2> QED BY <2>1, <2>2, VerifyCallsPass DEF AnswerOf, Traps
  <1>5. \/ i = 1
        \/ \E f \in {"ed25519", "secp256r1"} : Calls[i] = ClassicCall(f)
        \/ \E s \in Schemes : Calls[i] = DecodeCall(s)
        \/ \E s \in Schemes : Calls[i] = VerifyCall(s, 32)
    BY DEF Calls, Schemes
  <1> QED BY <1>1, <1>2, <1>3, <1>4, <1>5

-----------------------------------------------------------------------------
(* The tables.                                                             *)

(* A point of the sweep.                                                   *)
PointType ==
  [len    : Nat,
   net    : Nat,
   slope  : {None} \cup [rise : Int, run : Int],
   answer : {AnswerOf(VerifyCall("ML-DSA-65", n)) : n \in Nat}]

(* The points measured so far, of which prev is the last.                  *)
SweepSoFar ==
  /\ points \in Seq(PointType)
  /\ pc \in {"start", "rows"} => Len(points) = 0
  /\ pc = "sweep" => Len(points) < Len(SweepLengths)
  /\ prev = IF Len(points) = 0 THEN None
            ELSE [len |-> points[Len(points)].len, net |-> points[Len(points)].net]

TablesInv == RowsMeasured /\ AcceptedCallsOnly /\ SweepSoFar /\ FlatSweepIsLinear

(* A row that is added is that of the next call.                           *)
LEMMA MeasureRowKeeps ==
  ASSUME TablesInv, MeasureRow
  PROVE  TablesInv'
  <1> DEFINE i == Len(rows) + 1
  <1>1. rows \in Seq(Row) /\ i \in 1..7
    BY DEF TablesInv, RowsMeasured, MeasureRow
  <1>2. AnswerOf(Calls[i]) /\ ~Traps(Calls[i])
    BY <1>1, TableCallsPass
  <1>3. PICK insns \in Costs[Calls[i].function] :
          rows' = Append(rows, [call   |-> Calls[i], insns |-> insns,
                                answer |-> AnswerOf(Calls[i])])
    BY <1>2 DEF MeasureRow
  <1>4. /\ pc = "rows" /\ pc' \in {"sweep", "rows"}
        /\ points' = points /\ prev' = prev
    BY <1>2 DEF MeasureRow
  <1> DEFINE row == [call   |-> Calls[i], insns |-> insns, answer |-> AnswerOf(Calls[i])]
  <1>5. row \in Row /\ row.answer
    BY <1>1, <1>2, CallsCost DEF Row
  <1> HIDE DEF row
  <1>6. /\ DOMAIN rows' = 1..i /\ rows'[i] = row
        /\ \A j \in 1..i : j # i => j \in DOMAIN rows /\ rows'[j] = rows[j]
    BY <1>1, <1>3, <1>5 DEF row
  <1>7. RowsMeasured'
    BY RowsMeasuredInductive DEF TablesInv, BenchNext
  <1>8. AcceptedCallsOnly'
    BY <1>4, <1>5, <1>6 DEF TablesInv, AcceptedCallsOnly
  <1>9. SweepSoFar'
    BY <1>4, BenchRunAssumption DEF TablesInv, SweepSoFar, PointType, AnswerOf, Vk, Sig,
       VerifyCall, Message
  <1>10. FlatSweepIsLinear'
    BY <1>4 DEF TablesInv, FlatSweepIsLinear
  <1> QED BY <1>7, <1>8, <1>9, <1>10 DEF TablesInv

(* What is left of a cost without the baseline is a number.                *)
LEMMA NetTyped ==
  ASSUME RowsMeasured, pc = "sweep", NEW insns \in Nat
  PROVE  Net(insns) \in Nat
  <1>1. rows \in Seq(Row) /\ Len(rows) = 7 /\ 1 \in 1..7
    BY DEF RowsMeasured
  <1>2. rows[1] \in Row
    BY <1>1, ElementOfSeq
  <1> QED BY <1>2 DEF Net, Noop, Row

(* The line through the first point is drawn on by one slope: what the     *)
(* costs and the lengths gain adds up.                                     *)
LEMMA OneMoreSlope ==
  ASSUME NEW c \in Int, NEW cost \in Int, NEW run \in Int,
         NEW rise \in Int, NEW step \in Int
  PROVE  /\ cost <= c * run /\ rise <= c * step => cost + rise <= c * (run + step)
         /\ cost >= c * run /\ rise >= c * step => cost + rise >= c * (run + step)
  <1>1. c * (run + step) = c * run + c * step
    OBVIOUS
  <1>2. c * run \in Int /\ c * step \in Int
    OBVIOUS
  <1> DEFINE a == c * run
             b == c * step
             d == c * (run + step)
  <1> HIDE DEF a, b, d
  <1>3. d = a + b /\ a \in Int /\ b \in Int
    BY <1>1, <1>2 DEF a, b, d
  <1>4. /\ cost <= a /\ rise <= b => cost + rise <= d
        /\ cost >= a /\ rise >= b => cost + rise >= d
    BY <1>3
  <1> QED BY <1>4 DEF a, b, d

(* A point that is added is compared with the last.                        *)
LEMMA MeasurePointKeeps ==
  ASSUME TablesInv, MeasurePoint
  PROVE  TablesInv'
  <1> DEFINE k == Len(points) + 1
             len == SweepLengths[k]
  <1>1. PICK insns \in Costs["verify"] :
          points' = Append(points, Point(len, insns)) /\ prev' = Remember(len, insns)
    BY DEF MeasurePoint
  <1>2. /\ points \in Seq(PointType) /\ k \in DOMAIN SweepLengths /\ pc = "sweep"
        /\ Len(points) \in Nat /\ rows' = rows
        /\ pc' = IF Len(points') = Len(SweepLengths) THEN "done" ELSE "sweep"
    BY BenchRunAssumption DEF TablesInv, SweepSoFar, MeasurePoint
  <1>3. len \in Nat /\ len <= MSG_LEN
    BY <1>2, BenchRunAssumption
  <1>4. AnswerOf(VerifyCall("ML-DSA-65", len))
    <2> DEFINE call == VerifyCall("ML-DSA-65", len)
    <2>1. /\ call.function = "verify" /\ call.scheme = "ML-DSA-65"
          /\ call.msg = Message(len)
      BY DEF VerifyCall
    <2>2. "ML-DSA-65" \in Schemes
      BY DEF Schemes
    <2> HIDE DEF call, len
    <2>3. AnswerOf(call)
      BY <2>1, <2>2, <1>3, VerifyCallsPass DEF AnswerOf
    <2> QED BY <2>3 DEF call
  <1> DEFINE net == Net(insns)
             point == Point(len, insns)
             last == points[Len(points)]
  <1>5. net \in Nat
    BY <1>2, NetTyped, BenchRunAssumption DEF TablesInv
  <1>6. /\ point.len = len /\ point.net = net
        /\ point.answer = AnswerOf(VerifyCall("ML-DSA-65", len))
        /\ point.slope = IF prev = None THEN None
                         ELSE [rise |-> net - prev.net, run |-> len - prev.len]
        /\ point = [len |-> len, net |-> net, slope |-> point.slope,
                    answer |-> AnswerOf(VerifyCall("ML-DSA-65", len))]
    BY DEF Point
  <1>7. k > 1 => /\ last \in PointType /\ last.len \in Nat /\ last.net \in Nat
                 /\ prev = [len |-> last.len, net |-> last.net] /\ prev # None
    <2> SUFFICES ASSUME k > 1
                 PROVE  /\ last \in PointType /\ last.len \in Nat /\ last.net \in Nat
                        /\ prev = [len |-> last.len, net |-> last.net] /\ prev # None
      OBVIOUS
    <2>1. last \in PointType
      BY <1>2, ElementOfSeq
    <2>2. last.len \in Nat /\ last.net \in Nat
      BY <2>1 DEF PointType
    <2>3. prev = [len |-> last.len, net |-> last.net]
      BY <1>2 DEF TablesInv, SweepSoFar
    <2>4. prev \in [len : Nat, net : Nat]
      BY <2>2, <2>3
    <2> QED BY <2>1, <2>2, <2>3, <2>4, BenchRunAssumption
  <1>8. k = 1 => prev = None
    BY <1>2 DEF TablesInv, SweepSoFar
  <1>9. k > 1 => point.slope = [rise |-> net - last.net, run |-> len - last.len]
    BY <1>6, <1>7
  <1> HIDE DEF net, point, last, len
  <1>10. point.slope \in {None} \cup [rise : Int, run : Int]
    <2>1. CASE k = 1
      BY <1>6, <1>8, <2>1
    <2>2. CASE k > 1
      BY <1>3, <1>5, <1>7, <1>9, <2>2
    <2> QED BY <1>2, <2>1, <2>2
  <1>11. point \in PointType
    <2> DEFINE slope == point.slope
    <2> HIDE DEF slope
    <2>1. point = [len |-> len, net |-> net, slope |-> slope,
                   answer |-> AnswerOf(VerifyCall("ML-DSA-65", len))]
      BY <1>6 DEF slope
    <2> QED BY <1>3, <1>5, <1>10, <2>1 DEF PointType, slope
  <1>12. /\ points' \in Seq(PointType) /\ Len(points') = k /\ points'[k] = point
         /\ DOMAIN points' = 1..k
         /\ \A j \in 1..k : j # k => j \in DOMAIN points /\ points'[j] = points[j]
    BY <1>1, <1>2, <1>11 DEF point, len
  <1>13. RowsMeasured'
    BY RowsMeasuredInductive DEF TablesInv, BenchNext
  <1>14. AcceptedCallsOnly'
    BY <1>2, <1>4, <1>6, <1>12 DEF TablesInv, AcceptedCallsOnly
  <1>15. SweepSoFar'
    <2>1. prev' = [len |-> point.len, net |-> point.net]
      BY <1>1, <1>6 DEF Remember, net, len
    <2>2. Len(SweepLengths) \in Nat /\ k <= Len(SweepLengths)
      BY <1>2, BenchRunAssumption
    <2> QED BY <1>2, <1>12, <2>1, <2>2
            DEF SweepSoFar, PointType, AnswerOf, Vk, Sig, VerifyCall, Message
  <1>16. FlatSweepIsLinear'
    <2> SUFFICES ASSUME NEW c \in Slopes, NEW j \in 1..k
                 PROVE  LET line == c * (points'[j].len - points'[1].len)
                            cost == points'[j].net - points'[1].net
                            slope(i) == points'[i].slope
                        IN  /\ (\A i \in 2..j : slope(i).rise <= c * slope(i).run)
                                 => cost <= line
                            /\ (\A i \in 2..j : slope(i).rise >= c * slope(i).run)
                                 => cost >= line
      BY <1>12 DEF FlatSweepIsLinear
    <2>1. c \in Int
      BY BenchRunAssumption
    <2>2. CASE j < k
      <3>1. /\ j \in DOMAIN points /\ points'[j] = points[j] /\ points'[1] = points[1]
            /\ \A i \in 2..j : points'[i] = points[i]
        BY <1>2, <1>12, <2>2
      <3> QED BY <3>1 DEF TablesInv, FlatSweepIsLinear
    <2>3. CASE j = k /\ k = 1
      <3>1. c * 0 = 0
        BY <2>1
      <3>2. point.len - point.len = 0 /\ point.net - point.net = 0
        BY <1>3, <1>5, <1>6
      <3> QED BY <1>12, <2>3, <3>1, <3>2
    <2>4. CASE j = k /\ k > 1
      <3> DEFINE m == Len(points)
                 first == points[1]
      <3>1. /\ m \in DOMAIN points /\ last = points[m] /\ k = m + 1 /\ m \in 1..k
            /\ points'[1] = first /\ first \in PointType
            /\ \A i \in 2..m : points'[i] = points[i]
        BY <1>2, <1>12, <2>4, ElementOfSeq DEF last
      <3>2. /\ first.len \in Nat /\ first.net \in Nat
        BY <3>1 DEF PointType
      <3> HIDE DEF m, first
      <3> DEFINE run == last.len - first.len
                 cost == last.net - first.net
                 step == len - last.len
                 rise == net - last.net
      <3>3. run \in Int /\ cost \in Int /\ step \in Int /\ rise \in Int
        BY <1>3, <1>5, <1>7, <2>4, <3>2
      <3>4. points'[k].slope.rise = rise /\ points'[k].slope.run = step
        BY <1>9, <1>12, <2>4
      <3>5. /\ points'[k].len - points'[1].len = run + step
            /\ points'[k].net - points'[1].net = cost + rise
        BY <1>3, <1>5, <1>6, <1>7, <1>12, <2>4, <3>1, <3>2
      <3>6. /\ (\A i \in 2..m : points[i].slope.rise <= c * points[i].slope.run)
                 => cost <= c * run
            /\ (\A i \in 2..m : points[i].slope.rise >= c * points[i].slope.run)
                 => cost >= c * run
        BY <3>1 DEF TablesInv, FlatSweepIsLinear, first
      <3> HIDE DEF run, cost, step, rise
      <3>7. /\ cost <= c * run /\ rise <= c * step => cost + rise <= c * (run + step)
            /\ cost >= c * run /\ rise >= c * step => cost + rise >= c * (run + step)
        BY <2>1, <3>3, OneMoreSlope
      <3>8. /\ k \in 2..k /\ 2..m \subseteq 2..k
        BY <1>2, <2>4, <3>1
      <3>9. ASSUME \A i \in 2..k : points'[i].slope.rise <= c * points'[i].slope.run
            PROVE  cost + rise <= c * (run + step)
        <4>1. rise <= c * step
          BY <3>4, <3>8, <3>9
        <4>2. \A i \in 2..m : points[i].slope.rise <= c * points[i].slope.run
          BY <3>1, <3>8, <3>9
        <4> QED BY <3>6, <3>7, <4>1, <4>2
      <3>10. ASSUME \A i \in 2..k : points'[i].slope.rise >= c * points'[i].slope.run
             PROVE  cost + rise >= c * (run + step)
        <4>1. rise >= c * step
          BY <3>4, <3>8, <3>10
        <4>2. \A i \in 2..m : points[i].slope.rise >= c * points[i].slope.run
          BY <3>1, <3>8, <3>10
        <4> QED BY <3>6, <3>7, <4>1, <4>2
      <3> QED BY <2>4, <3>5, <3>9, <3>10
    <2> QED BY <1>2, <2>2, <2>3, <2>4
  <1> QED BY <1>13, <1>14, <1>15, <1>16 DEF TablesInv

(* The tables stay right in every step.                                    *)
LEMMA TablesInductive ==
  /\ BenchInit => TablesInv
  /\ TablesInv /\ [BenchNext]_benchVars => TablesInv'
  <1>1. BenchInit => TablesInv
    BY RowsMeasuredInductive, BenchRunAssumption
       DEF BenchInit, TablesInv, AcceptedCallsOnly, SweepSoFar, FlatSweepIsLinear
  <1>2. ASSUME TablesInv, Start \/ Panic \/ UNCHANGED benchVars PROVE TablesInv'
    <2>1. RowsMeasured'
      BY <1>2, RowsMeasuredInductive DEF TablesInv, BenchNext
    <2>2. /\ UNCHANGED <<rows, points, prev>>
          /\ pc' \in {pc, "panicked"} \/ (pc = "start" /\ pc' = "rows")
      BY <1>2 DEF Start, Panic, benchVars
    <2>3. AcceptedCallsOnly' /\ FlatSweepIsLinear'
      BY <1>2, <2>2 DEF TablesInv, AcceptedCallsOnly, FlatSweepIsLinear
    <2>4. SweepSoFar'
      BY <1>2, <2>2 DEF TablesInv, SweepSoFar
    <2> QED BY <2>1, <2>3, <2>4 DEF TablesInv
  <1> QED BY <1>1, <1>2, MeasureRowKeeps, MeasurePointKeeps DEF BenchNext

(* No row and no point measures a call that was turned down, and none      *)
(* traps, whatever the network charges and whatever ascending lengths that *)
(* fit are swept (bench, measure).                                         *)
THEOREM AcceptedCallsOnlyHolds == BenchSpec => []AcceptedCallsOnly
  <1>1. TablesInv => AcceptedCallsOnly
    BY DEF TablesInv
  <1> QED BY <1>1, TablesInductive, PTL DEF BenchSpec

(* Slopes that stay below, or above, any whole cost per byte bound the     *)
(* cost of every length swept by that line, whatever the network charges   *)
(* for each measurement (bench, the sweep).                                *)
THEOREM FlatSweepIsLinearHolds == BenchSpec => []FlatSweepIsLinear
  <1>1. TablesInv => FlatSweepIsLinear
    BY DEF TablesInv
  <1> QED BY <1>1, TablesInductive, PTL DEF BenchSpec

=============================================================================
