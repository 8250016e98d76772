----------------------------- MODULE OutboxDocs -----------------------------
(***************************************************************************)
(* What comments of the repository say of deliveries and the code does not *)
(* do.  Each run of this module ends in a counterexample.                  *)
(***************************************************************************)
EXTENDS Outbox

\* A resolution whose lease is still held can be committed.  AttemptOutcome::
\* Ambiguous: "The outbox delivery is dead (transport gave up), but the linked
\* autopilot action transitions to `unknown`" (outbox/model.rs:50).
HeldResolutionCanCommit ==
  \A t \in tasks :
    t.stage = "done" /\ HoldsDelivery(t) /\ AttemptKeyFree(t) => ENABLED Finish(t)
=============================================================================
