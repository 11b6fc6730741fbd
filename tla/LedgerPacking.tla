---------------------------- MODULE LedgerPacking ----------------------------
(***************************************************************************)
(* How many equal transactions fit into a ledger: the arithmetic of bench  *)
(* (and of the phase0 harness), and what it is meant to compute.           *)
(*                                                                         *)
(* A ledger runs its transactions in CLUSTERS parallel clusters; each      *)
(* cluster's instructions are bounded by limit, the number of transactions *)
(* by cap.                                                                 *)
(***************************************************************************)
EXTENDS Naturals, FiniteSets

CLUSTERS == 2

(* Integer division by the cost of one call, which is taken to be at least *)
(* one instruction.                                                        *)
Sequential(limit, insns) == limit \div (IF insns > 1 THEN insns ELSE 1)

(* Faulty: pools the clusters' budgets before dividing.                    *)
PooledPerLedger(limit, cap, insns) ==
  LET pooled == Sequential(CLUSTERS * limit, insns) IN
  IF pooled < cap THEN pooled ELSE cap

PerLedger(limit, cap, insns) ==
  LET parallel == CLUSTERS * Sequential(limit, insns) IN
  IF parallel < cap THEN parallel ELSE cap

-----------------------------------------------------------------------------
(* What is meant: n transactions can be put into clusters so that no       *)
(* cluster exceeds the limit.                                              *)

Members(f, c) == {i \in DOMAIN f : f[i] = c}

Load(f, c, insns) == Cardinality(Members(f, c)) * insns

Admits(limit, cap, insns, n) ==
  /\ n <= cap
  /\ \E f \in [1..n -> 1..CLUSTERS] :
       \A c \in 1..CLUSTERS : Load(f, c, insns) <= limit

=============================================================================
