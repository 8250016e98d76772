------------------------------ MODULE PushDocs ------------------------------
(***************************************************************************)
(* What a doc comment of the repository says of push campaigns and the     *)
(* code does otherwise.                                                    *)
(***************************************************************************)
EXTENDS PushDelivery

\* enqueue_push_campaign "materializes a scheduled push campaign into the same
\* durable device delivery ledger": a call that enters the fan into the
\* campaign's own ledger leaves her with a delivery row for a device.
EnqueuedIsQueued ==
  [][Enqueue /\ ledger' = "claimed" => \E d \in Device : row'[d].status # "none"]_vars
=============================================================================
