---------------------------- MODULE OneTimeGrants ----------------------------
(***************************************************************************)
(* What contract accounts guarded by a signing key promise, without        *)
(* payloads, signatures or a store of nonces: every execution uses up one  *)
(* grant.  A grant names its signer, its account, a nonce and the last     *)
(* ledger it is good for; it is used at most once, no later than that      *)
(* ledger, and only while its signer's key guards the account.             *)
(***************************************************************************)
EXTENDS Naturals, Sequences

CONSTANTS
  Keys,       \* what can guard an account
  Grants,     \* records [signer, account, nonce, expiry]
  KeyOf       \* KeyOf[signer]: the key by which an account trusts the signer

VARIABLES
  now,        \* the current ledger
  guard,      \* guard[a]: the key guarding account a
  granted,    \* the grants signed so far
  used        \* the grants executed, in order

vars == <<now, guard, granted, used>>

Init ==
  /\ now = 1
  /\ granted = {}
  /\ used = << >>

Install(a, k) ==
  /\ guard' = [guard EXCEPT ![a] = k]
  /\ UNCHANGED <<now, granted, used>>

Grant(g) ==
  /\ granted' = granted \cup {g}
  /\ UNCHANGED <<now, guard, used>>

Use(g) ==
  /\ g \in granted
  /\ \A i \in DOMAIN used : used[i] # g
  /\ now <= g.expiry
  /\ guard[g.account] = KeyOf[g.signer]
  /\ used' = Append(used, g)
  /\ UNCHANGED <<now, guard, granted>>

Tick ==
  /\ now' = now + 1
  /\ UNCHANGED <<guard, granted, used>>

Next ==
  \/ \E a \in DOMAIN guard, k \in Keys : Install(a, k)
  \/ \E g \in Grants : Grant(g) \/ Use(g)
  \/ Tick

Spec == Init /\ [][Next]_vars

=============================================================================
