---------------------------- MODULE ReceiptsDocs ----------------------------
(***************************************************************************)
(* What the comments say of confirmed successes and the code does not do.  *)
(***************************************************************************)
EXTENDS MCReceipts

\* "If a provider confirmed it, the failure contradicts an established fact:
\* surface Conflict, never silently downgrade" (legal_transition).
ConfirmedNeverFails ==
  [][action # "failed" /\ action' = "failed"
       => ~\E i \in DOMAIN filed : filed[i].proof]_vars
=============================================================================
