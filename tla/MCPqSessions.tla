---------------------------- MODULE MCPqSessions ----------------------------
(* A small instance of PqSessions for TLC: one buffer that holds anything  *)
(* and one with just the room for a signature of ML-DSA-44.                *)
EXTENDS PqSessions

CONSTANTS s1, s2, b1, b2

MCSize     == [b \in Buffers |-> IF b = b1 THEN 4032 ELSE 2420]
MCContexts == {EmptyContext, Bytes(255, "c"), Bytes(256, "c")}
=============================================================================
