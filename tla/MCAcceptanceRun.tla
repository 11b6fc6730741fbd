---------------------------- MODULE MCAcceptanceRun ----------------------------
(* The one instance of AcceptanceRun, with the program's own numbers.      *)
EXTENDS AcceptanceRun

CONSTANTS mine, proto

MCVersion  == [a \in Accounts |-> "phase0"]
MCContexts == {EmptyContext}
MCPubKeys  == {Bytes(1952, PublicKey(s)) : s \in Seeds}
MCNonces   == {51966, 48879}
=============================================================================
