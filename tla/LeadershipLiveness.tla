------------------------- MODULE LeadershipLiveness -------------------------
(***************************************************************************)
(* Leadership under the scheduling of the processes: a candidate polls     *)
(* every two seconds, and its answers are not lost for ever (SF); a        *)
(* renewal ticks; a drain is cut off by a timeout; a lease its leader does *)
(* not renew runs out after 60 seconds.                                    *)
(***************************************************************************)
EXTENDS Leadership

\* The leader's renewal is gone, so nothing extends the lease.
Abandoned == \A w \in Worker : lease.leader = w => ~renewing[w]

LiveSpec ==
  /\ Spec
  /\ \A w \in Worker : SF_vars(Acquire(w)) /\ WF_vars(Renew(w)) /\ WF_vars(Release(w))
  /\ WF_vars(Abandoned /\ Lapse)

\* A leader that crashed, or could not release its lease, does not strand the
\* others: while a candidate waits, somebody leads in the end (leadership.rs,
\* "a crashed worker does not strand leadership indefinitely").
Succession ==
  \A w \in Worker :
    state[w] = "waiting" ~> (state[w] = "down" \/ \E v \in Worker : Runs(v))
=============================================================================
