-------------------------- MODULE OutboxRefinement --------------------------
(***************************************************************************)
(* Outbox implements AtLeastOnce: the row's status, with the lease and the *)
(* attempts forgotten, and whether any request was carried out.            *)
(***************************************************************************)
EXTENDS Outbox

StateOf(d) ==
  CASE delivery[d].status = "absent" -> "none"
    [] delivery[d].status \in {"pending", "processing"} -> "open"
    [] OTHER -> delivery[d].status

Promise == INSTANCE AtLeastOnce
             WITH Item <- Delivery,
                  state <- [d \in Delivery |-> StateOf(d)],
                  carried <- [d \in Delivery |-> received[d] # {}]

\* The outbox keeps the promise of AtLeastOnce for every delivery: opened by
\* one fan-out, concluded once, delivered only if the endpoint carried it out
\* (materialize_deliveries_batch, claim_deliveries, finish_delivery).
KeepsPromise == Promise!Spec
=============================================================================
