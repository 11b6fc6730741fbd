------------------------------- MODULE MCDemoRun -------------------------------
(* A small instance of DemoRun for TLC: one account, the demo's key and    *)
(* somebody else's, and a short bench.                                     *)
EXTENDS DemoRun

CONSTANTS mine, other, acct, i1, a1

MCVersion  == [a \in Accounts |-> "v1"]
MCProgram  == [r \in Runs |-> "authorize"]
MCMode     == [r \in Runs |-> IF r = i1 THEN "init" ELSE "auth"]
MCAccount  == [r \in Runs |-> acct]
MCSource   == [r \in Runs |-> "GA"]
MCContexts == {Bytes(13, "pq-account-v1")}
MCPubKeys  == {Bytes(1952, PublicKey(s)) : s \in Seeds}
MCNonces   == {NonceOf(r, l) : r \in Runs, l \in 0..MaxLedger}
MCExpiries == {l + ExpiryWindow : l \in 0..MaxLedger}
MCMaxPolls == [program \in {"authorize", "submit"} |-> 2]

MCQuotes == {[resources |-> 2000, reported |-> 2000], [resources |-> 2000, reported |-> None]}

MCCosts ==
  [noop |-> {45}, ed25519 |-> {50}, secp256r1 |-> {50}, decode |-> {50}, verify |-> {90}]

MCSlopes == {}
MCSweepLengths == <<32, 8192>>
=============================================================================
