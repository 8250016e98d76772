-------------------------- MODULE ReceiptsLiveness --------------------------
(***************************************************************************)
(* What the reconciliation cycle gets done.  The worker runs it on a       *)
(* ticker: what the sweeps go on returning they are eventually run with,   *)
(* and a cycle ends.  It may time out, but not every time (strong fairness *)
(* of the writes).                                                         *)
(***************************************************************************)
EXTENDS Receipts

Cycle == ReadGaps \/ ReadReceipts \/ ReadDeliveries \/ Abandon

FairSpec ==
  /\ Spec
  /\ WF_vars(Cycle)
  /\ SF_vars(FlagGap \/ Resolve)

\* A receipt lost on the way does not leave the action looking succeeded
\* forever: a report is filed in the end, or the gap becomes visible - unless
\* the gap sweep's limit or a person hides the action from it again and again.
\* An unknown action with a terminal receipt on file does not stay unknown,
\* nor one with a delivery that went through, unless a person holds it.
\* (Reports and delivered deliveries are for ever: what is not as it should be
\* is not so for ever.)
Reconciled ==
  /\ []<>(action # "succeeded" \/ OnFile \/ "gaps" \in hidden)
  /\ []<>(action # "unknown" \/ ~OnFile)
  /\ []<>(action # "unknown" \/ ~DeliveredSomewhere \/ "deliveries" \in hidden)
=============================================================================
