------------------------------ MODULE MCProbeRun ------------------------------
(* A small instance of ProbeRun for TLC: the program's key, another one,   *)
(* and a window of one ledger.                                             *)
EXTENDS ProbeRun

CONSTANTS mine, other, proto

MCVersion  == [a \in Accounts |-> "phase0"]
MCContexts == {EmptyContext}
MCPubKeys  == {Bytes(1952, PublicKey(s)) : s \in Seeds} \cup {Bytes(1312, UnknownKey)}
MCNonces   == {l * 7 + 13 : l \in 0..MaxLedger}
MCExpiries == {l + ExpiryWindow : l \in 0..MaxLedger}
=============================================================================
