------------------------------ MODULE Receipts ------------------------------
(***************************************************************************)
(* What became of an action that left the building: the executors that     *)
(* claim it, carry it out and report back, the webhook deliveries that     *)
(* brought it to them, and the reconciliation cycle that settles what      *)
(* neither has settled.                                                    *)
(*                                                                         *)
(* One dispatched action that owes a receipt, and one of its events in     *)
(* full; what its other events come to is a free choice.  Every handler    *)
(* transaction takes the row lock of the action before it decides, so a    *)
(* handler is one step; a sweep of the reconciliation reads its candidates *)
(* without a lock and is two.  A report that finds its key filed, or its   *)
(* token replaced, changes nothing and is not a step.                      *)
(***************************************************************************)
EXTENDS ActionLedger, Naturals, Sequences

CONSTANTS
  Executor,      \* executors, one webhook endpoint each
  Careful,       \* the ones that ask for a claim before they act
  MaxToken,      \* bound: claims one executor is granted
  MaxMoment,     \* bound: moments a report may say it happened at
  MaxFiled       \* bound: reports filed by executors

ASSUME ReceiptsAssumption ==
  /\ Careful \subseteq Executor
  /\ MaxToken \in Nat /\ MaxMoment \in Nat \ {0} /\ MaxFiled \in Nat
  /\ "receipt_reconciliation" \notin Executor

VARIABLES
  action,        \* autopilot_actions.status
  assignment,    \* experiment_assignments.execution_status
  learned,       \* the success side effects were committed
  claim,         \* autopilot_execution_claims, per executor
  event,         \* the action's outbox event
  delivery,      \* its webhook delivery to each executor
  hidden,        \* sweeps whose SELECT does not return the action
  cycle,         \* what a reconciliation sweep has read and not yet written
  filed,         \* autopilot_execution_reports with a terminal status
  reached,       \* executors a request has got through to
  work           \* what each executor did under each token

vars == <<action, assignment, learned, claim, event, delivery, cycle, filed,
          reached, work, hidden>>

Synthesized == "receipt_reconciliation"
Token == 0..MaxToken          \* attempt_number stands for its token; 0: none
Moment == 1..MaxMoment
Verdicts == {"succeeded", "failed"}

\* lost: dead with an error that proves nothing; rejected: with one that does
DeliveryStatus == {"none", "pending", "delivered", "rejected", "lost", "cancelled"}

\* The gap sweep reads the SWEEP_BATCH_LIMIT oldest candidates, and those that
\* owe no receipt or cannot be parsed it skips and reads again: they may hide
\* the action from it.  An open operator claim hides it from the outbox sweep
\* as well.
Hidings == {{}, {"gaps"}, {"gaps", "deliveries"}}

Report == [executor : Executor \cup {Synthesized}, token : Token,
           status : Verdicts, proof : BOOLEAN, at : Moment]

Idle == [sweep |-> "none", verdict |-> "Unknown"]

Init ==
  /\ action = "succeeded"
  /\ assignment = "dispatched"
  /\ learned = FALSE
  /\ claim = [e \in Executor |-> [status |-> "none", token |-> 0]]
  /\ event = "pending"
  /\ delivery = [e \in Executor |-> "none"]
  /\ hidden \in Hidings
  /\ cycle = Idle
  /\ filed = << >>
  /\ reached = {}
  /\ work = [e \in Executor |-> [t \in Token |-> "none"]]

-----------------------------------------------------------------------------
(* The outbox, as far as it concerns this action.                          *)

\* The event becomes one delivery per subscribed endpoint that is active, or
\* dies with no request made.
Materialize ==
  /\ event = "pending"
  /\ \/ event' = "delivered" /\ delivery' \in [Executor -> {"none", "pending"}]
     \/ event' \in {"rejected", "lost"} /\ UNCHANGED delivery
  /\ UNCHANGED <<action, assignment, learned, claim, cycle, filed, reached,
                 work, hidden>>

\* A request arrives, perhaps after its sender gave up.  Its answer may be
\* lost and the request tried again.
Reach(e) ==
  /\ delivery[e] # "none"
  /\ reached' = reached \cup {e}
  /\ UNCHANGED <<action, assignment, learned, claim, event, delivery, cycle,
                 filed, work, hidden>>

\* The last attempt is answered, refused for good, or given up on without
\* proof (lost); or the endpoint is deactivated between two attempts.
Ends(e) ==
  /\ delivery[e] = "pending"
  /\ delivery'[e] \in {"rejected", "lost", "cancelled"}
                        \cup IF e \in reached THEN {"delivered"} ELSE {}

\* One transaction may end several deliveries.  A last lease that ran out makes
\* the action unknown with it, whether of this event, of another event of the
\* action or of the notice that asked for its approval; a last attempt that
\* failed does not.
Conclude ==
  /\ delivery' \in [Executor -> DeliveryStatus]
  /\ \A e \in Executor : delivery'[e] = delivery[e] \/ Ends(e)
  /\ \/ delivery' # delivery /\ UNCHANGED action
     \/ action \in {"succeeded", "processing"} /\ action' = "unknown"
  /\ UNCHANGED <<assignment, learned, claim, event, cycle, filed, reached,
                 work, hidden>>

\* Other actions finish and are settled; a person takes the action, or lets go.
Hide ==
  /\ hidden' \in Hidings
  /\ UNCHANGED <<action, assignment, learned, claim, event, delivery,
                 cycle, filed, reached, work>>

-----------------------------------------------------------------------------
(* An executor.                                                            *)

\* Wrong: a claim nobody answered for is taken over.
ClaimableAmbiguous(e) == claim[e].status \in {"none", "claimed", "failed"}

\* claim_execution grants a token: a first claim, or one after a failure.
\* A claim that is held or has succeeded is never taken over.
Claimable(e) == claim[e].status \in {"none", "failed"}

ClaimExecution(e) ==
  /\ e \in Careful \cap reached
  /\ Claimable(e)
  /\ claim[e].token < MaxToken
  /\ claim' = [claim EXCEPT ![e] = [status |-> "claimed",
                                    token  |-> @.token + 1]]
  /\ work' = [work EXCEPT ![e][claim[e].token + 1] = "granted"]
  /\ UNCHANGED <<action, assignment, learned, event, delivery, cycle, filed,
                 reached, hidden>>

\* The executor carries the action out, or the provider refuses it.  One that
\* never claims runs once, under no token.
Run(e, t) ==
  /\ IF e \in Careful THEN work[e][t] = "granted"
     ELSE e \in reached /\ t = 0 /\ work[e][0] = "none"
  /\ \E outcome \in {"done", "refused"} :
       work' = [work EXCEPT ![e][t] = outcome]
  /\ UNCHANGED <<action, assignment, learned, claim, event, delivery, cycle,
                 filed, reached, hidden>>

-----------------------------------------------------------------------------
(* record_execution_report.                                                *)

\* A terminal report for this action is on file.
OnFile == filed # << >>

\* Wrong: only the report at hand is looked at.
EvidenceAtHand == "Premature"

\* success_evidence_for, for a report that is not on file yet.
Evidence ==
  IF \E i \in DOMAIN filed : filed[i].status = "succeeded" /\ filed[i].proof
  THEN "ProviderConfirmed" ELSE "Premature"

Observation == [succeeded |-> "Executed", failed |-> "Failed"]
Realized == [succeeded |-> "executed", failed |-> "failed"]

\* Whether the observation moves the action.
Applies(status) ==
  Applied(StateOf[action], Observation[status], Evidence) # {}

\* With no claim row every token passes.
TokenHolds(e, t) == claim[e].status = "none" \/ claim[e].token = t

\* Wrong: the last report wins.
ReportedClaimLast(e, status) ==
  IF claim[e].status = "none" THEN claim[e].status ELSE status

\* The claim's status after a report: success is monotonic.
ReportedClaim(e, status) ==
  IF \/ claim[e].status = "none"
     \/ claim[e].status = "succeeded" /\ status = "failed"
  THEN claim[e].status ELSE status

\* Wrong: the dispatch already said succeeded, so there is nothing to learn.
TeachesChange(status) == status = "succeeded" /\ action = "unknown"

\* Success side effects: not when the success contradicts a failure.
Teaches(status) == status = "succeeded" /\ action # "failed"

\* The executor reports what it knows, at any later time; a workflow may also
\* report a failure after the provider call went through.
CanSay(e, t, status) ==
  work[e][t] \in (IF status = "succeeded" THEN {"done"}
                  ELSE {"done", "refused"})

NewKey(e, t, status, proof) ==
  \A i \in DOMAIN filed :
    ~(/\ filed[i].executor = e /\ filed[i].token = t
      /\ filed[i].status = status /\ filed[i].proof = proof)

FileReport(e, t, status, proof, at) ==
  /\ CanSay(e, t, status) /\ (proof => status = "succeeded")
  /\ NewKey(e, t, status, proof)
  /\ Len(filed) < MaxFiled
  /\ TokenHolds(e, t)
  /\ filed' = Append(filed, [executor |-> e, token |-> t, status |-> status,
                             proof |-> proof, at |-> at])
  /\ claim' = [claim EXCEPT ![e].status = ReportedClaim(e, status)]
  /\ action' = IF Applies(status) THEN status ELSE action
  /\ assignment' =
       IF Applies(status) /\ assignment \in {"dispatched", "unknown"}
       THEN Realized[status] ELSE assignment
  /\ learned' = (learned \/ Teaches(status))
  /\ UNCHANGED <<event, delivery, cycle, reached, work, hidden>>

-----------------------------------------------------------------------------
(* Receipt reconciliation.                                                 *)

\* deliveries_to_evidence, resolved.
DeliveredSomewhere == \E e \in Executor : delivery[e] = "delivered"

NeverDelivered ==
  \/ event = "rejected"
  \/ /\ event # "lost"
     /\ \A e \in Executor : delivery[e] \notin {"pending", "lost"}
     /\ \E e \in Executor : delivery[e] \in {"rejected", "cancelled"}

\* Each event is evidence of its own, and a delivered one decides before the
\* others: short of that, another event may prove anything.
DeliveryVerdicts ==
  IF DeliveredSomewhere THEN {"Executed"}
  ELSE IF NeverDelivered THEN {"Executed", "Failed"}
  ELSE {"Executed", "Failed", "Unknown"}

\* The order of reports: occurred_at, then the order they were filed in.
Before(i, j) == \/ filed[i].at < filed[j].at
                \/ filed[i].at = filed[j].at /\ i < j

\* resolve_from_receipts: the latest report decides, unless its own executor
\* has reported a success before it.
ReceiptVerdict ==
  LET last == CHOOSE i \in DOMAIN filed :
                \A j \in DOMAIN filed \ {i} : Before(j, i)
      prior == \E j \in DOMAIN filed :
                 /\ Before(j, last)
                 /\ filed[j].executor = filed[last].executor
                 /\ filed[j].status = "succeeded"
  IN IF prior \/ filed[last].status = "succeeded" THEN "Executed" ELSE "Failed"

Settled(verdict) == IF verdict = "Executed" THEN "succeeded" ELSE "failed"

\* Wrong: the assignment takes the action's own word.
FollowedByStatus(before, verdict) ==
  IF before = "unknown" THEN Settled(verdict) ELSE before

\* Wrong: a resolved action counts as treated.
FollowedByExecuted(before, verdict) ==
  IF before = "unknown" THEN "executed" ELSE before

\* transition_assignment: a resolution moves only an unknown assignment.
FollowedBy(before, verdict) ==
  IF before = "unknown" THEN Realized[Settled(verdict)] ELSE before

\* resolve_action, the assignment being as given.
ResolveAction(verdict, before) ==
  /\ action' = Settled(verdict)
  /\ assignment' = FollowedBy(before, verdict)
  /\ IF OnFile THEN UNCHANGED filed
     ELSE \E at \in Moment :
            filed' = Append(filed, [executor |-> Synthesized, token |-> 0,
                                    status |-> Settled(verdict),
                                    proof |-> FALSE, at |-> at])

\* Wrong: a failure on file is left to a person.
ReceiptCandidateSuccess ==
  action = "unknown" /\ OnFile /\ filed[Len(filed)].status = "succeeded"

\* What each sweep selects.
GapCandidate == action = "succeeded" /\ ~OnFile /\ "gaps" \notin hidden

ReceiptCandidate == action = "unknown" /\ OnFile

DeliveryCandidate ==
  action = "unknown" /\ ~OnFile /\ "deliveries" \notin hidden

\* A sweep reads its candidates.
Read(sweep, verdict) ==
  /\ cycle = Idle
  /\ cycle' = [sweep |-> sweep, verdict |-> verdict]
  /\ UNCHANGED <<action, assignment, learned, claim, event, delivery, filed,
                 reached, work, hidden>>

ReadGaps == GapCandidate /\ Read("gaps", "Unknown")

ReadReceipts == ReceiptCandidate /\ Read("receipts", ReceiptVerdict)

ReadDeliveries ==
  /\ DeliveryCandidate
  /\ \E verdict \in DeliveryVerdicts \ {"Unknown"} : Read("deliveries", verdict)

\* Wrong: the resolving sweeps ran before the gap sweep.
SeenAfterGapBefore == {"Unknown"}

\* The sweeps after the gap sweep see the action unknown and what is on file
\* by now.
SeenAfterGap ==
  IF OnFile THEN {ReceiptVerdict}
  ELSE IF "deliveries" \in hidden THEN {"Unknown"} ELSE DeliveryVerdicts

\* The gap is written; the row stays locked, so the later sweeps of the same
\* transaction decide before anybody else.
FlagGap ==
  LET before == IF assignment = "dispatched" THEN "unknown" ELSE assignment
  IN /\ cycle.sweep = "gaps" /\ action = "succeeded"
     /\ \E verdict \in SeenAfterGap :
          IF verdict = "Unknown"
          THEN /\ action' = "unknown"
               /\ assignment' = before
               /\ UNCHANGED filed
          ELSE ResolveAction(verdict, before)
     /\ cycle' = Idle
     /\ UNCHANGED <<learned, claim, event, delivery, reached, work, hidden>>

\* A resolution is written, if the action is still unknown.
Resolve ==
  /\ cycle.sweep \in {"receipts", "deliveries"} /\ action = "unknown"
  /\ ResolveAction(cycle.verdict, assignment)
  /\ cycle' = Idle
  /\ UNCHANGED <<learned, claim, event, delivery, reached, work, hidden>>

\* The update meets no row, or the cycle times out and rolls back.
Abandon ==
  /\ cycle # Idle
  /\ cycle' = Idle
  /\ UNCHANGED <<action, assignment, learned, claim, event, delivery, filed,
                 reached, work, hidden>>

-----------------------------------------------------------------------------

Next ==
  \/ Materialize \/ Conclude \/ Hide
  \/ \E e \in Executor :
       \/ Reach(e)
       \/ ClaimExecution(e)
       \/ \E t \in Token :
            \/ Run(e, t)
            \/ \E s \in Verdicts, p \in BOOLEAN, at \in Moment :
                 FileReport(e, t, s, p, at)
  \/ ReadGaps \/ ReadReceipts \/ ReadDeliveries
  \/ FlagGap \/ Resolve \/ Abandon

Spec == Init /\ [][Next]_vars

-----------------------------------------------------------------------------
(* Properties.                                                             *)

TypeOK ==
  /\ action \in {"succeeded", "failed", "unknown"}
  /\ assignment \in {"dispatched", "unknown", "executed", "failed"}
  /\ learned \in BOOLEAN
  /\ claim \in [Executor ->
       [status : {"none", "claimed", "succeeded", "failed"}, token : Token]]
  /\ event \in {"pending", "delivered", "rejected", "lost"}
  /\ delivery \in [Executor -> DeliveryStatus]
  /\ hidden \in Hidings
  /\ cycle \in [sweep : {"none", "gaps", "receipts", "deliveries"},
                verdict : Observed]
  /\ filed \in Seq(Report)
  /\ reached \subseteq Executor
  /\ work \in [Executor -> [Token -> {"none", "granted", "done", "refused"}]]

\* A report on file from executor e under token t.
Said(e, t, status) ==
  \E i \in DOMAIN filed :
    filed[i].executor = e /\ filed[i].token = t /\ filed[i].status = status

\* claim_execution fences executions: an executor that claims is handed a
\* later token only after it reported the earlier one failed, whatever it did
\* in between, crashed included.
LaterRunNeedsFailure ==
  \A e \in Careful : \A t, u \in Token \ {0} :
    t < u /\ work[e][u] # "none" => Said(e, t, "failed")

\* The claim row always tells the newest token's story: succeeded exactly when
\* a success under it is on file, and a delayed failure never takes that back.
ClaimTellsReports ==
  \A e \in Careful :
    LET t == claim[e].token
    IN /\ claim[e].status = "succeeded" <=> t # 0 /\ Said(e, t, "succeeded")
       /\ claim[e].status = "failed" <=>
            t # 0 /\ Said(e, t, "failed") /\ ~Said(e, t, "succeeded")

\* The learner counts an intervention as treatment, or as failure, only with
\* a report on file that says so; an action that failed has some report on file.
\* (Not always of a failure: a delivery verdict read before an executor's success
\* was filed is still written when another event has made the action unknown.)
VerdictHasReport ==
  /\ assignment = "executed" =>
       \E i \in DOMAIN filed : filed[i].status = "succeeded"
  /\ assignment = "failed" =>
       \E i \in DOMAIN filed : filed[i].status = "failed"
  /\ action = "failed" => OnFile

\* No learning sample is lost: where an executor's success is on file and the
\* action stands as a success, the side effects of success were committed.
SuccessIsLearned ==
  action = "succeeded" =>
    \A i \in DOMAIN filed :
      filed[i].executor # Synthesized /\ filed[i].status = "succeeded"
        => learned

\* The gap sweep reads its candidates without a lock.  Still no committed
\* cycle turns a success into unknown while a terminal receipt is on file.
GapIsReal ==
  [][cycle.sweep = "gaps" /\ cycle' = Idle
       /\ action = "succeeded" /\ action' = "unknown" => ~OnFile']_vars

\* While it stands as succeeded, a success one executor confirmed with a
\* provider reference is not turned into a failure by that executor's delayed
\* reports, nor by a sweep that read its candidates before them.
ConfirmedStands ==
  [][\A e \in Executor :
       /\ action = "succeeded" /\ action' = "failed"
       /\ \E i \in DOMAIN filed : filed[i].proof
       => ~(\A i \in DOMAIN filed' : filed'[i].executor \in {e, Synthesized})]_vars
=============================================================================
