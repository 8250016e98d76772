---------------------------- MODULE ActionLedger ----------------------------
(***************************************************************************)
(* The state machine of an autopilot action: which moves the ledger        *)
(* trigger lets through, and what an observation of the outside world does *)
(* to an action.  Everything here is a pure operator on states;            *)
(* ActionLifecycle is the system that moves them.                          *)
(***************************************************************************)

\* The values of autopilot_actions.status.
Status == {"awaiting_approval", "queued", "processing", "succeeded", "failed",
           "cancelled", "unknown"}

State == {"PLANNED", "AUTHORIZED", "QUEUED", "RUNNING", "SUCCEEDED", "FAILED",
          "UNKNOWN", "RECONCILING", "CANCELLED", "REVOKED"}

\* ActionState::from_action_status, and the CASE of action_ledger_sync.
StateOf == [awaiting_approval |-> "AUTHORIZED",
            queued            |-> "QUEUED",
            processing        |-> "RUNNING",
            succeeded         |-> "SUCCEEDED",
            failed            |-> "FAILED",
            cancelled         |-> "CANCELLED",
            unknown           |-> "UNKNOWN"]

\* The transitions the trigger action_ledger_sync lets through; any other
\* raises check_violation and the transaction is lost.
Successor ==
  [PLANNED     |-> {"AUTHORIZED", "CANCELLED", "REVOKED"},
   AUTHORIZED  |-> {"QUEUED", "CANCELLED", "REVOKED"},
   QUEUED      |-> {"RUNNING", "CANCELLED", "FAILED"},
   RUNNING     |-> {"SUCCEEDED", "FAILED", "UNKNOWN", "QUEUED"},
   UNKNOWN     |-> {"RECONCILING", "SUCCEEDED", "FAILED"},
   RECONCILING |-> {"SUCCEEDED", "FAILED", "UNKNOWN"},
   SUCCEEDED   |-> {"FAILED", "UNKNOWN"},
   FAILED      |-> {},
   CANCELLED   |-> {},
   REVOKED     |-> {}]

\* ActionState::can_transition_to.
CanTransitionTo(s, t) == t \in Successor[s]

\* A status update the trigger accepts.
LedgerAccepts(old, new) ==
  old = new \/ CanTransitionTo(StateOf[old], StateOf[new])

-----------------------------------------------------------------------------

\* What a receipt or the outbox says of the outside world.
Observed == {"Executed", "Failed", "Unknown"}

\* What a success on file is worth.
SuccessEvidence == {"Premature", "ProviderConfirmed"}

\* States an observation may move.
Open == {"RUNNING", "UNKNOWN", "RECONCILING"}

Verdict(observed) == IF observed = "Executed" THEN "SUCCEEDED" ELSE "FAILED"

\* legal_transition: the states it may apply (one, or none for NoChange and
\* Conflict).
Applied(current, observed, evidence) ==
  IF observed = "Unknown"
  THEN IF current = "RUNNING" THEN {"UNKNOWN"} ELSE {}
  ELSE IF current \in Open \/ (current = "SUCCEEDED" /\ evidence = "Premature")
  THEN {Verdict(observed)}
  ELSE {}
=============================================================================
