----------------------------- MODULE MCCliSystem -----------------------------
(* Small instances of CliSystem for TLC: a pq-account and a prototype, a   *)
(* run that initialises, runs of authorize and runs of submit.             *)
EXTENDS CliSystem

CONSTANTS mine, other, acct, proto, i1, a1, a2, a3, s1, s2

MCVersion  == [a \in Accounts |-> IF a = proto THEN "phase0" ELSE "v1"]
MCProgram  == [r \in Runs |-> IF r \in {s1, s2} THEN "submit" ELSE "authorize"]
MCMode     == [r \in Runs |-> IF r = i1 THEN "init" ELSE "auth"]
MCAccount  == [r \in Runs |-> acct]
MCProto    == [r \in Runs |-> proto]
MCContexts == {Bytes(13, "pq-account-v1"), EmptyContext}
MCPubKeys  == {Bytes(1952, PublicKey(s)) : s \in Seeds}
MCNonces   == {NonceOf(r, l) : r \in Runs, l \in 0..MaxLedger}
MCExpiries == {l + ExpiryWindow : l \in 0..MaxLedger}

MCMaxPolls1 == [program \in {"authorize", "submit"} |-> 1]
MCMaxPolls2 == [program \in {"authorize", "submit"} |-> IF program = "submit" THEN 1 ELSE 2]

(* A quote that fits in 12 bits with 1000 stroops on top, one that wraps,  *)
(* and two that are missing, for more than the fee then set and for less.  *)
MCQuotes == {[resources |-> 2000, reported |-> 2000]}
MCQuotesAll ==
  MCQuotes \cup {[resources |-> 3500, reported |-> 3500],
                 [resources |-> 3500, reported |-> None],
                 [resources |-> 500, reported |-> None]}

(* Run a2 is paid for by one account, the others by another.               *)
MCSource == [r \in Runs |-> IF r = a2 THEN "GB" ELSE "GA"]
=============================================================================
