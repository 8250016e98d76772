------------------------------ MODULE MCOutbox ------------------------------
(* Small instances of Outbox for TLC. *)
EXTENDS OutboxLiveness, OutboxDocs, TLC

CONSTANTS e1, e2, p1, p2, w1, w2, a1

\* e2 is subscribed by p1 only, and belongs to the action of e1.
MCSubscribed == {<<e1, p1>>, <<e1, p2>>, <<e2, p1>>} \cap (Event \X Endpoint)

MCActionOf == [e \in Linked |-> a1]

WorkerSymmetry == Permutations(Worker)
=============================================================================
