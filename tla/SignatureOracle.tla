--------------------------- MODULE SignatureOracle ---------------------------
(***************************************************************************)
(* What a signature scheme promises its callers, without keys in memory,   *)
(* encodings or buffers: a claim (that the holder of a key signed a        *)
(* message under a context) is accepted only after it has been signed.     *)
(***************************************************************************)
CONSTANT Claims

VARIABLES
  signed,     \* the claims signed so far
  verdict     \* answer to the last claim put forward

vars == <<signed, verdict>>

NoVerdict == [accepted |-> FALSE]

Init == signed = {} /\ verdict = NoVerdict

Sign(claim) == signed' = signed \cup {claim} /\ verdict' = NoVerdict

Accept(claim) ==
  /\ claim \in signed
  /\ verdict' = [accepted |-> TRUE, claim |-> claim]
  /\ UNCHANGED signed

Reject == verdict' = NoVerdict /\ UNCHANGED signed

Next ==
  \/ \E claim \in Claims : Sign(claim) \/ Accept(claim)
  \/ Reject

Spec == Init /\ [][Next]_vars

=============================================================================
