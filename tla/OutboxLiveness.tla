--------------------------- MODULE OutboxLiveness ---------------------------
(***************************************************************************)
(* What the outbox eventually does, and the scheduling it needs for that.  *)
(* OutboxWorker::run polls for ever, so a step that is possible again and  *)
(* again is eventually taken: processes may crash, databases may refuse    *)
(* and endpoints may come and go for ever, only not always at the same     *)
(* step.                                                                   *)
(***************************************************************************)
EXTENDS OutboxRefinement

\* The next local step of a live process, whatever phase it is in.
Proceed(w) ==
  \/ \E t \in tasks : t.worker = w /\ TaskStep(t)
  \/ \E e \in Event : Release(w, e)
  \/ MaterializeFails(w) \/ ClaimDeliveries(w) \/ EndCycle(w) \/ StopCycle(w)
  \/ stopping[w] /\ phase[w] = "idle" /\ Restart(w)

\* Weak fairness: live processes, and the clock.  Strong fairness:
\* transactions, which crashes, other workers and operators can disable (of
\* claims, those that no operator disturbs: nobody can count on a switch).
\* ORDER BY available_at lets every row have its turn, for a claim leaves no
\* row it has selected as it was.
WorkerFairness(w) ==
  /\ WF_vars(Proceed(w))
  /\ SF_vars(ClaimEvents(w) /\ phase'[w] # "idle")

EventFairness(e) ==
  /\ WF_vars(EventLeaseExpires(e))
  /\ SF_vars(\E w \in Worker : ClaimEvents(w) /\ event'[e] # event[e])
  /\ SF_vars(\E w \in Worker : e \in batch[w] /\ Materialize(w))

DeliveryFairness(d) ==
  /\ WF_vars(DeliveryLeaseExpires(d))
  /\ SF_vars(\E w \in Worker : /\ ClaimUnder(w, active, active)
                              /\ delivery'[d] # delivery[d])

LiveSpec ==
  /\ Spec
  /\ \A w \in Worker : WorkerFairness(w)
  /\ \A e \in Event : EventFairness(e)
  /\ \A d \in Delivery : DeliveryFairness(d)

\* Every event is fanned out or dead-lettered, although fail_outbox_event
\* refunds the attempt of every failed batch (run_cycle, release_failed_outbox).
\* Every materialized delivery is delivered, dead-lettered or cancelled.  No
\* sequence of crashes, lost answers and deactivations leaves either waiting.
\* (What is settled stays settled, and no delivery becomes absent again: to be
\* there again and again is to get there.)
Settles ==
  /\ \A e \in Event : []<>(event[e].status \in {"delivered", "dead"})
  /\ \A d \in Delivery :
       []<>(delivery[d].status \in {"absent", "delivered", "dead", "cancelled"})
=============================================================================
