------------------------------ MODULE MCBenchRun ------------------------------
(* A small instance of BenchRun for TLC: the code's lengths, a ledger that *)
(* holds between no and six calls, and costs of the same call that differ  *)
(* from one measurement to the next.                                       *)
EXTENDS BenchRun

CONSTANT seed

MCCosts ==
  [noop |-> {450, 660}, ed25519 |-> {700}, secp256r1 |-> {999},
   decode |-> {667, 1001}, verify |-> {600, 1000, 2001}]

MCSweepLengths == <<32, 256, 1024, 4096, 8192>>

MCSlopes == -4..4
=============================================================================
