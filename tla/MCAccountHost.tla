---------------------------- MODULE MCAccountHost ----------------------------
(* Small instances of AccountHost for TLC.                                 *)
EXTENDS AccountHost, TLC

CONSTANTS s1, s2, v1, p0, n1, n2

MCVersion == [a \in Accounts |-> IF a = v1 THEN "v1" ELSE "phase0"]

MCContexts == {Bytes(13, "pq-account-v1"), EmptyContext}

MCV1Context == {Bytes(13, "pq-account-v1")}

(* The keys of both seeds, of the right length; bytes of nobody's key; and *)
(* an ML-DSA-44 key.                                                       *)
MCPubKeys ==
  {Bytes(1952, PublicKey(s)) : s \in Seeds}
    \cup {Bytes(1952, UnknownKey), Bytes(1312, PublicKey(s1))}

MCSymmetry == Permutations(Nonces)
=============================================================================
