------------------------- MODULE LifecycleLiveness -------------------------
(***************************************************************************)
(* What becomes of an action in the end, and the scheduling it needs.      *)
(* Worker loops poll for ever; processes may crash, transactions may time  *)
(* out and executors may come and go at any step, only not always at the   *)
(* same one.                                                               *)
(***************************************************************************)
EXTENDS ActionLifecycle

\* A live loop goes on with what it has read or claimed.
LoopFairness(w) ==
  WF_vars(\/ \E h \in held[w] :
               Execute(w, h) \/ ExecuteFails(w, h) \/ FailAction(w, h)
          \/ \E a \in Action : SweepCancel(w, a))

\* Hands a out, reaps it or parks it: more than sweeping it as lapsed.
Serve(w, a) ==
  /\ Candidate(a) \/ Reaped(a)
  /\ Claim(w)
  /\ action'[a] # action[a]
  /\ action'[a].status # "cancelled"

\* Rows that are passed over take up a whole batch: ORDER BY available_at
\* brings the same ones again, and a younger candidate is not reached.
Crowded == Cardinality({a \in Action : PassedOver(a)}) >= BatchSize

\* The clock; and, as long as there is room in the batch, its turn for every
\* candidate and every row of the reaper: what else a claim selects it moves.
RowFairness(a) ==
  /\ WF_vars(BecomeDue(a) \/ BecomeStale(a))
  /\ SF_vars(~Crowded /\ \E w \in Worker : Serve(w, a))

LiveSpec ==
  /\ Spec
  /\ \A w \in Worker : LoopFairness(w)
  /\ \A a \in Action \ Gated : RowFairness(a)

\* An approved action that needs no executor ends, unless rows nobody can run
\* crowd it out again and again: lost workers, timeouts and retries use up its
\* attempts and never strand it (claim_due_actions, fail_action and the reaper
\* share MaxAttempts between them).  What has ended is never approved again, so
\* to be out of the queue again and again is to end.
Settles ==
  \A a \in Action \ Gated :
    []<>\/ action[a].status \in {"awaiting_approval", "succeeded", "failed",
                                 "cancelled", "unknown"}
        \/ Crowded
=============================================================================
