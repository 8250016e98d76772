---------------------------- MODULE PushLiveness ----------------------------
(***************************************************************************)
(* What becomes of a push in the end.  The worker polls every five seconds *)
(* for ever: its sweep and, while nothing pauses them, its claims come     *)
(* round again and again, a task's calls time out, and the clock passes    *)
(* every deadline.                                                         *)
(***************************************************************************)
EXTENDS PushRefinement

FairSpec ==
  /\ Spec
  /\ \A d \in Device : /\ WF_vars(Maintain(Device) /\ row'[d] # row[d])
                       /\ WF_vars(Claim(d))
  /\ WF_vars(\E t \in task : StartProvider(t) \/ Send(t) \/ Record(t) \/ Lose(t))

\* Nobody takes it up: in quiet hours, with the flag off, or when it was claimed
\* for the last time and lost before the provider was called.
Waits(d) ==
  /\ row[d].status \in {"queued", "retry_wait"}
  /\ paused \/ row[d].tries = MaxAttempts

\* Once the fan and the administrator leave their settings alone, every push
\* ends or waits in the open: lost workers, lost answers and silent devices
\* never keep it with a worker, with the provider or with the device
\* (claim_due, start_provider, terminal, maintain).
RowsEnd ==
  <>[][UNCHANGED fan]_vars =>
    \A d \in Device : []<>(row[d].status \notin Open \/ Waits(d))
=============================================================================
