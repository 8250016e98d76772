------------------------------- MODULE Outbox -------------------------------
(***************************************************************************)
(* The transactional outbox of CrowdRelay: PostgreSQL rows, the worker     *)
(* processes that lease them, and the webhook endpoints they call.         *)
(*                                                                         *)
(* An event is claimed under a lease, fanned out into one delivery per     *)
(* endpoint, and every delivery is then claimed, dispatched over HTTP and  *)
(* finished.  One action of this module is one transaction of              *)
(* outbox/repository.rs or one local step of outbox/worker.rs.  The clock  *)
(* is abstracted: a lease may be found expired at any moment after it was  *)
(* granted, and a back-off may end at any moment, so a claim takes any     *)
(* subset of the rows that are not leased.                                 *)
(*                                                                         *)
(* A definition introduced by "Wrong:" is no part of the specification; it *)
(* is the definition after it with a plausible mistake, with which TLC     *)
(* finds a property violated.                                              *)
(***************************************************************************)
EXTENDS Naturals, FiniteSets

CONSTANTS
  Event,                \* rows of outbox_events
  Endpoint,             \* rows of webhook_endpoints
  Worker,               \* worker processes (config.worker_id)
  Subscribed,           \* <<event, endpoint>> pairs event_types lets through
  AuthEvent,            \* fan.confirmation_requested, fan.session_requested
  Action,               \* rows of autopilot_actions
  Linked,               \* events whose action_id is set
  ActionOf,             \* ActionOf[e]: the action_id of a linked event
  Notice,               \* linked events that only ask for approval
  MaxEventAttempts,     \* outbox_events.max_attempts
  MaxDeliveryAttempts,  \* webhook_deliveries.max_attempts
  BatchSize,            \* config.outbox_batch_size
  Concurrency,          \* config.max_concurrent_deliveries
  Nobody                \* lock_owner IS NULL

ASSUME OutboxAssumption ==
  /\ Subscribed \subseteq Event \X Endpoint
  /\ AuthEvent \subseteq Event
  /\ Linked \subseteq Event
  /\ ActionOf \in [Linked -> Action]
  /\ Notice \subseteq Linked
  /\ MaxEventAttempts \in Nat \ {0}
  /\ MaxDeliveryAttempts \in Nat \ {0}
  /\ BatchSize \in Nat \ {0}
  /\ Concurrency \in Nat \ {0}
  /\ Nobody \notin Worker

VARIABLES
  event,      \* event[e]: the outbox_events row
  delivery,   \* delivery[d]: the webhook_deliveries row of d = <<event, endpoint>>
  attempt,    \* attempt[d][n]: outcome in webhook_delivery_attempts
  action,     \* action[a]: status of the autopilot action
  active,     \* active[p]: webhook_endpoints.active
  phase,      \* phase[w]: where run_cycle of worker w stands
  batch,      \* batch[w]: the event claims run_cycle still holds
  stopping,   \* stopping[w]: the shutdown watch of w
  tasks,      \* the dispatch_one tasks of all workers
  wire,       \* wire[d]: attempts whose request may still reach the endpoint
  received    \* received[d]: attempts whose request the endpoint carried out

rows   == <<event, delivery, attempt, action>>
locals == <<phase, batch, stopping, tasks>>
net    == <<wire, received>>
vars   == <<event, delivery, attempt, action, active, phase, batch, stopping,
            tasks, wire, received>>

Delivery == Event \X Endpoint

-----------------------------------------------------------------------------
(* Rows.  Lease columns are NULL exactly when the status is not processing. *)

EventStatus    == {"pending", "processing", "delivered", "dead"}
DeliveryStatus == {"absent", "pending", "processing", "delivered", "dead",
                   "cancelled"}
AttemptOutcome == {"none", "delivered", "retry", "dead", "ambiguous",
                   "cancelled"}
ActionStatus   == {"succeeded", "unknown"}
Phase          == {"idle", "materialize", "release", "claim", "dispatch"}
Disposition    == {"pending", "delivered", "retryable", "secret", "permanent",
                   "ambiguous"}

\* error abstracts last_error_kind of a dead row; other rows keep "none".
ErrorKind == {"none", "definitive", "transient", "lost"}

EventRow == [status: EventStatus, attempts: 0..MaxEventAttempts,
             owner: Worker \cup {Nobody}, expired: BOOLEAN,
             error: ErrorKind \ {"transient"}]

DeliveryRow == [status: DeliveryStatus, count: 0..MaxDeliveryAttempts,
                owner: Worker \cup {Nobody}, expired: BOOLEAN,
                error: ErrorKind]

Task == [worker: Worker, delivery: Delivery, number: 1..MaxDeliveryAttempts,
         stage: {"held", "sent", "done"}, disposition: Disposition]

\* An events row that is not leased.
IdleEvent(status, attempts, error) ==
  [status |-> status, attempts |-> attempts, owner |-> Nobody,
   expired |-> FALSE, error |-> error]

LeasedEvent(w, attempts) ==
  [status |-> "processing", attempts |-> attempts, owner |-> w,
   expired |-> FALSE, error |-> "none"]

\* A deliveries row that is not leased.
IdleDelivery(status, count, error) ==
  [status |-> status, count |-> count, owner |-> Nobody, expired |-> FALSE,
   error |-> error]

LeasedDelivery(w, count) ==
  [status |-> "processing", count |-> count, owner |-> w, expired |-> FALSE,
   error |-> "none"]

TypeOK ==
  /\ event \in [Event -> EventRow]
  /\ delivery \in [Delivery -> DeliveryRow]
  /\ attempt \in [Delivery -> [1..MaxDeliveryAttempts -> AttemptOutcome]]
  /\ action \in [Action -> ActionStatus]
  /\ active \in [Endpoint -> BOOLEAN]
  /\ phase \in [Worker -> Phase]
  /\ batch \in [Worker -> SUBSET Event]
  /\ stopping \in [Worker -> BOOLEAN]
  /\ tasks \subseteq Task
  /\ wire \in [Delivery -> SUBSET (1..MaxDeliveryAttempts)]
  /\ received \in [Delivery -> SUBSET (1..MaxDeliveryAttempts)]

\* execute_action commits the events it emits, each under a key of its own,
\* together with the action's 'succeeded'.
Init ==
  /\ event = [e \in Event |-> IdleEvent("pending", 0, "none")]
  /\ delivery = [d \in Delivery |-> IdleDelivery("absent", 0, "none")]
  /\ attempt = [d \in Delivery |-> [n \in 1..MaxDeliveryAttempts |-> "none"]]
  /\ action = [a \in Action |-> "succeeded"]
  /\ active \in [Endpoint -> BOOLEAN]
  /\ phase = [w \in Worker |-> "idle"]
  /\ batch = [w \in Worker |-> {}]
  /\ stopping = [w \in Worker |-> FALSE]
  /\ tasks = {}
  /\ wire = [d \in Delivery |-> {}]
  /\ received = [d \in Delivery |-> {}]

-----------------------------------------------------------------------------
(* Events: claim, materialize, release.                                    *)

EventExpired(e) == event[e].status = "processing" /\ event[e].expired

\* mark_exhausted_outbox_leases_dead: the sweep every claim begins with.
SweptEvent(e) ==
  IF EventExpired(e) /\ event[e].attempts >= MaxEventAttempts
  THEN IdleEvent("dead", event[e].attempts, "lost")
  ELSE event[e]

\* Wrong: attempts are not bounded.
EventClaimableForever(e) == event[e].status = "pending" \/ EventExpired(e)

EventClaimable(e) ==
  /\ event[e].status = "pending" \/ EventExpired(e)
  /\ event[e].attempts < MaxEventAttempts

\* claim_outbox_events.  The second disjunct is the database_call timeout
\* that fires after the commit: the rows are leased, the worker holds nothing.
ClaimEvents(w) ==
  /\ phase[w] = "idle"
  /\ ~stopping[w]
  /\ \E S \in SUBSET {e \in Event : EventClaimable(e)} :
       /\ Cardinality(S) <= BatchSize
       /\ event' = [e \in Event |->
                      IF e \in S THEN LeasedEvent(w, event[e].attempts + 1)
                                 ELSE SweptEvent(e)]
       /\ \/ /\ phase' = [phase EXCEPT ![w] =
                            IF S = {} THEN "claim" ELSE "materialize"]
             /\ batch' = [batch EXCEPT ![w] = S]
          \/ UNCHANGED <<phase, batch>>
  /\ UNCHANGED <<delivery, attempt, action, active, stopping, tasks, net>>

\* The guard of materialize_deliveries_batch and of fail_outbox_event.
HoldsEvent(w, e) == event[e].status = "processing" /\ event[e].owner = w

Route(d) == active[d[2]] /\ d \in Subscribed

\* Wrong: an inactive endpoint counts as a route.
HasRouteInactive(e) == \E p \in Endpoint : <<e, p>> \in Subscribed

HasRoute(e) == \E p \in Endpoint : Route(<<e, p>>)

\* The row the fan-out leaves: endpoint_missing_route proves that no request
\* was made.
Materialized(e) ==
  IF e \in AuthEvent /\ ~HasRoute(e)
  THEN IdleEvent("dead", event[e].attempts, "definitive")
  ELSE IdleEvent("delivered", event[e].attempts, "none")

\* materialize_deliveries_batch: the whole batch or, when one lease is lost,
\* nothing.  phase "release" is the timeout that fires after the commit.
Materialize(w) ==
  /\ phase[w] = "materialize"
  /\ \A e \in batch[w] : HoldsEvent(w, e)
  /\ event' = [e \in Event |->
                 IF e \in batch[w] THEN Materialized(e) ELSE event[e]]
  /\ delivery' = [d \in Delivery |->
                    IF /\ d[1] \in batch[w]
                       /\ Route(d)
                       /\ delivery[d].status = "absent"
                    THEN IdleDelivery("pending", 0, "none")
                    ELSE delivery[d]]
  /\ \/ /\ phase' = [phase EXCEPT ![w] = "claim"]
        /\ batch' = [batch EXCEPT ![w] = {}]
     \/ /\ phase' = [phase EXCEPT ![w] = "release"]
        /\ UNCHANGED batch
  /\ UNCHANGED <<attempt, action, active, stopping, tasks, net>>

\* The batch rolls back: a lost lease, or the database failed.
MaterializeFails(w) ==
  /\ phase[w] = "materialize"
  /\ phase' = [phase EXCEPT ![w] = "release"]
  /\ UNCHANGED <<rows, active, batch, stopping, tasks, net>>

\* fail_outbox_event(retryable, refund_attempt): GREATEST(attempts - 1, 0).
Refunded(e) ==
  IdleEvent("pending", IF event[e].attempts > 0 THEN event[e].attempts - 1 ELSE 0,
            "none")

\* One release task; it may find the lease gone, or fail in the database.
Release(w, e) ==
  /\ phase[w] = "release"
  /\ ~stopping[w]
  /\ e \in batch[w]
  /\ \/ HoldsEvent(w, e) /\ event' = [event EXCEPT ![e] = Refunded(e)]
     \/ UNCHANGED event
  /\ batch' = [batch EXCEPT ![w] = @ \ {e}]
  /\ phase' = [phase EXCEPT ![w] = IF batch[w] = {e} THEN "claim" ELSE "release"]
  /\ UNCHANGED <<delivery, attempt, action, active, stopping, tasks, net>>

-----------------------------------------------------------------------------
(* Deliveries: the sweeps and the claim of claim_deliveries.               *)
(*                                                                         *)
(* Its four statements - file the lost attempts, cancel, dead-letter,      *)
(* claim - are one READ COMMITTED transaction.  Three of them read         *)
(* webhook_endpoints.active, each from a snapshot of its own: the first is *)
(* `active` of this module, the others are the operators' parameters.      *)

Expired(d) == delivery[d].status = "processing" /\ delivery[d].expired

\* Wrong: every lost attempt is filed as a retry.
ExpiredOutcomeRetry(d) == "retry"

\* record_expired_delivery_attempts: the outcome it files for the lost attempt.
ExpiredOutcome(d) ==
  IF ~active[d[2]] THEN "cancelled"
  ELSE IF delivery[d].count >= MaxDeliveryAttempts THEN "dead"
  ELSE "retry"

\* Wrong: only exhausted leases are filed.
SweptAttemptsExhausted(d) ==
  IF Expired(d) /\ delivery[d].count >= MaxDeliveryAttempts
  THEN [attempt[d] EXCEPT ![delivery[d].count] = ExpiredOutcome(d)]
  ELSE attempt[d]

\* ... ON CONFLICT DO NOTHING: a row already there stays.
SweptAttempts(d) ==
  IF Expired(d) /\ attempt[d][delivery[d].count] = "none"
  THEN [attempt[d] EXCEPT ![delivery[d].count] = ExpiredOutcome(d)]
  ELSE attempt[d]

\* Wrong: pending deliveries of an inactive endpoint are forgotten.
DroppedLeased(d, cancelling) == ~cancelling[d[2]] /\ Expired(d)

\* The WHERE clause of cancel_inactive_endpoint_deliveries.
Dropped(d, cancelling) ==
  /\ ~cancelling[d[2]]
  /\ delivery[d].status = "pending" \/ Expired(d)

\* The WHERE clause of mark_exhausted_delivery_leases_dead, which asks for no
\* endpoint: what the statement before it has not cancelled.
Exhausted(d, cancelling) ==
  /\ Expired(d)
  /\ ~Dropped(d, cancelling)
  /\ delivery[d].count >= MaxDeliveryAttempts

\* cancel_inactive_endpoint_deliveries, then
\* mark_exhausted_delivery_leases_dead.
SweptDelivery(d, cancelling) ==
  IF Dropped(d, cancelling)
  THEN IdleDelivery("cancelled", delivery[d].count, "none")
  ELSE IF Exhausted(d, cancelling)
  THEN IdleDelivery("dead", delivery[d].count, "lost")
  ELSE delivery[d]

\* d is a delivery of an event that carries the id of action a.
Concerns(d, a) == d[1] \in Linked /\ ActionOf[d[1]] = a

\* Wrong: any expired lease makes the action unknown.
SweptActionEager(a, cancelling) ==
  IF action[a] = "succeeded" /\ \E d \in Delivery : Concerns(d, a) /\ Expired(d)
  THEN "unknown"
  ELSE action[a]

\* ... which also moves the linked actions, WHERE status IN
\* ('succeeded', 'processing').
SweptAction(a, cancelling) ==
  IF /\ action[a] = "succeeded"
     /\ \E d \in Delivery : Concerns(d, a) /\ Exhausted(d, cancelling)
  THEN "unknown"
  ELSE action[a]

DeliveryClaimable(d, claiming) ==
  /\ claiming[d[2]]
  /\ delivery[d].status = "pending" \/ Expired(d)
  /\ delivery[d].count < MaxDeliveryAttempts

\* Wrong: taking over an expired lease does not count as an attempt.
NextAttemptKept(d) ==
  IF Expired(d) THEN delivery[d].count ELSE delivery[d].count + 1

NextAttempt(d) == delivery[d].count + 1

NewTask(w, d) ==
  [worker |-> w, delivery |-> d, number |-> NextAttempt(d),
   stage |-> "held", disposition |-> "pending"]

\* claim_deliveries.  The last disjunct is again the timeout after the commit.
ClaimUnder(w, cancelling, claiming) ==
  /\ phase[w] = "claim"
  /\ ~stopping[w]
  /\ \E S \in SUBSET {d \in Delivery : /\ DeliveryClaimable(d, claiming)
                                      /\ ~Dropped(d, cancelling)} :
       /\ Cardinality(S) <= Concurrency
       /\ delivery' = [d \in Delivery |->
                         IF d \in S THEN LeasedDelivery(w, NextAttempt(d))
                                    ELSE SweptDelivery(d, cancelling)]
       /\ \/ /\ phase' = [phase EXCEPT ![w] = "dispatch"]
             /\ tasks' = tasks \cup {NewTask(w, d) : d \in S}
          \/ /\ phase' = [phase EXCEPT ![w] = "idle"]
             /\ UNCHANGED tasks
  /\ attempt' = [d \in Delivery |-> SweptAttempts(d)]
  /\ action' = [a \in Action |-> SweptAction(a, cancelling)]
  /\ active' = claiming
  /\ UNCHANGED <<event, batch, stopping, net>>

\* An operator may switch endpoints between its statements.
ClaimDeliveries(w) ==
  \E cancelling, claiming \in [Endpoint -> BOOLEAN] :
    ClaimUnder(w, cancelling, claiming)

\* The claim rolls back or times out before it commits: run_cycle returns.
ClaimDeliveriesFails(w) ==
  /\ phase[w] = "claim"
  /\ phase' = [phase EXCEPT ![w] = "idle"]
  /\ UNCHANGED <<rows, active, batch, stopping, tasks, net>>

-----------------------------------------------------------------------------
(* One dispatch_one task: eligibility and secret, request, answer, finish. *)

Sent(t) == [t EXCEPT !.stage = "sent"]

Resolved(t, d) == [t EXCEPT !.stage = "done", !.disposition = d]

Replace(t, u) == tasks' = (tasks \ {t}) \cup {u}

\* resolve_and_dispatch gives up before the request leaves: the recipient is
\* ineligible or the secret is invalid (permanent), eligibility could not be
\* read (retryable), or the secret provider did not answer (secret_timeout,
\* secret_unavailable).
PreDispatchFails(t) ==
  /\ t.stage = "held"
  /\ ~stopping[t.worker]
  /\ \E r \in {"permanent", "retryable", "secret"} : Replace(t, Resolved(t, r))
  /\ UNCHANGED <<rows, active, phase, batch, stopping, net>>

Send(t) ==
  /\ t.stage = "held"
  /\ ~stopping[t.worker]
  /\ Replace(t, Sent(t))
  /\ wire' = [wire EXCEPT ![t.delivery] = @ \cup {t.number}]
  /\ UNCHANGED <<rows, active, phase, batch, stopping, received>>

\* The endpoint carries a request out, possibly long after its sender gave up.
EndpointAccepts(d) ==
  /\ \E n \in wire[d] :
       /\ wire' = [wire EXCEPT ![d] = @ \ {n}]
       /\ received' = [received EXCEPT ![d] = @ \cup {n}]
  /\ UNCHANGED <<rows, active, locals>>

\* classify_http_status and classify_transport_error.  A 2xx comes from an
\* endpoint that carried the request out.  Any other status may come from one
\* that did, or from one that did not and, like a refused connection, will not.
Answer(t) ==
  /\ t.stage = "sent"
  /\ ~stopping[t.worker]
  /\ \/ /\ t.number \in received[t.delivery]
        /\ Replace(t, Resolved(t, "delivered"))
        /\ UNCHANGED wire
     \/ /\ t.number \in wire[t.delivery] \cup received[t.delivery]
        /\ \E r \in {"permanent", "retryable"} : Replace(t, Resolved(t, r))
        /\ wire' = [wire EXCEPT ![t.delivery] = @ \ {t.number}]
  /\ UNCHANGED <<rows, active, phase, batch, stopping, received>>

\* transport_timeout, transport_request: no answer came back.
Timeout(t) ==
  /\ t.stage = "sent"
  /\ ~stopping[t.worker]
  /\ Replace(t, Resolved(t, "ambiguous"))
  /\ UNCHANGED <<rows, active, phase, batch, stopping, net>>

\* The biased select of resolve_and_dispatch: 'worker_shutdown', retryable,
\* even when the request is already on the wire.
ShutdownTask(t) ==
  /\ t.stage \in {"held", "sent"}
  /\ stopping[t.worker]
  /\ Replace(t, Resolved(t, "retryable"))
  /\ UNCHANGED <<rows, active, phase, batch, stopping, net>>

\* Wrong: a lost answer to the last attempt counts as an answer.
FinalOutcomeHopeful(disposition, number) ==
  CASE disposition = "delivered" -> "delivered"
    [] disposition \in {"retryable", "secret"} ->
         IF number < MaxDeliveryAttempts THEN "retry" ELSE "dead"
    [] disposition = "permanent" -> "dead"
    [] OTHER -> IF number < MaxDeliveryAttempts THEN "retry" ELSE "delivered"

FinalOutcome(disposition, number) ==
  CASE disposition = "delivered" -> "delivered"
    [] disposition \in {"retryable", "secret"} ->
         IF number < MaxDeliveryAttempts THEN "retry" ELSE "dead"
    [] disposition = "permanent" -> "dead"
    [] OTHER -> IF number < MaxDeliveryAttempts THEN "retry" ELSE "ambiguous"

\* AttemptOutcome::delivery_status.
StatusOf(outcome) ==
  CASE outcome = "delivered" -> "delivered"
    [] outcome = "retry" -> "pending"
    [] OTHER -> "dead"

\* The error kind a dead row keeps, in the three classes that
\* provider_delivery_failure_is_definitive and the transport tell apart.
ErrorOf(disposition) ==
  CASE disposition \in {"permanent", "secret"} -> "definitive"
    [] disposition = "ambiguous" -> "lost"
    [] OTHER -> "transient"

\* WHERE status = 'processing' AND lock_owner = $3 AND attempt_count = $4.
HoldsDelivery(t) ==
  LET row == delivery[t.delivery] IN
  /\ row.status = "processing"
  /\ row.owner = t.worker
  /\ row.count = t.number

\* CHECK ((status = 'dead') = (dead_at IS NOT NULL)), where finish_delivery
\* sets dead_at only for the outcome 'dead'.
DeadAtCheck(outcome) == (StatusOf(outcome) = "dead") <=> (outcome = "dead")

\* Wrong: a second row for the attempt replaces the first.
AttemptKeyIgnored(t) == TRUE

\* UNIQUE (workspace_id, delivery_id, attempt_number).
AttemptKeyFree(t) == attempt[t.delivery][t.number] = "none"

\* finish_delivery commits.
Finish(t) ==
  LET outcome == FinalOutcome(t.disposition, t.number)
      d == t.delivery IN
  /\ t.stage = "done"
  /\ HoldsDelivery(t)
  /\ DeadAtCheck(outcome)
  /\ AttemptKeyFree(t)
  /\ delivery' = [delivery EXCEPT ![d] =
                    IdleDelivery(StatusOf(outcome), @.count,
                                 IF StatusOf(outcome) = "dead"
                                 THEN ErrorOf(t.disposition) ELSE "none")]
  /\ attempt' = [attempt EXCEPT ![d][t.number] = outcome]
  /\ action' = [a \in Action |->
                  IF /\ outcome = "ambiguous"
                     /\ Concerns(d, a)
                     /\ action[a] = "succeeded"
                  THEN "unknown" ELSE action[a]]
  /\ tasks' = tasks \ {t}
  /\ UNCHANGED <<event, active, phase, batch, stopping, net>>

\* finish_delivery does not commit: the lease is lost, a constraint or the
\* database refuses.  The task ends; the lease is left to expire.
FinishFails(t) ==
  /\ t.stage = "done"
  /\ tasks' = tasks \ {t}
  /\ UNCHANGED <<rows, active, phase, batch, stopping, net>>

-----------------------------------------------------------------------------
(* The worker process and its surroundings.                                *)

\* run_cycle returns once every task has joined.
EndCycle(w) ==
  /\ phase[w] = "dispatch"
  /\ \A t \in tasks : t.worker # w
  /\ phase' = [phase EXCEPT ![w] = "idle"]
  /\ UNCHANGED <<rows, active, batch, stopping, tasks, net>>

\* run_cycle sees the shutdown between its database calls.
StopCycle(w) ==
  /\ stopping[w]
  /\ phase[w] \in {"release", "claim"}
  /\ phase' = [phase EXCEPT ![w] = "idle"]
  /\ batch' = [batch EXCEPT ![w] = {}]
  /\ UNCHANGED <<rows, active, stopping, tasks, net>>

Shutdown(w) ==
  /\ ~stopping[w]
  /\ stopping' = [stopping EXCEPT ![w] = TRUE]
  /\ UNCHANGED <<rows, active, phase, batch, tasks, net>>

\* The process crashes, or run has returned, and a new process takes its
\* place.  Every claim the old one held stays in the database.
Restart(w) ==
  /\ phase' = [phase EXCEPT ![w] = "idle"]
  /\ batch' = [batch EXCEPT ![w] = {}]
  /\ stopping' = [stopping EXCEPT ![w] = FALSE]
  /\ tasks' = {t \in tasks : t.worker # w}
  /\ UNCHANGED <<rows, active, net>>

EventLeaseExpires(e) ==
  /\ event[e].status = "processing"
  /\ ~event[e].expired
  /\ event' = [event EXCEPT ![e].expired = TRUE]
  /\ UNCHANGED <<delivery, attempt, action, active, locals, net>>

DeliveryLeaseExpires(d) ==
  /\ delivery[d].status = "processing"
  /\ ~delivery[d].expired
  /\ delivery' = [delivery EXCEPT ![d].expired = TRUE]
  /\ UNCHANGED <<event, attempt, action, active, locals, net>>

\* The operator activates or deactivates an endpoint.
ToggleEndpoint(p) ==
  /\ active' = [active EXCEPT ![p] = ~@]
  /\ UNCHANGED <<rows, locals, net>>

TaskStep(t) ==
  \/ PreDispatchFails(t) \/ Send(t) \/ Answer(t) \/ Timeout(t)
  \/ ShutdownTask(t) \/ Finish(t) \/ FinishFails(t)

WorkerStep(w) ==
  \/ ClaimEvents(w) \/ Materialize(w) \/ MaterializeFails(w)
  \/ \E e \in Event : Release(w, e)
  \/ ClaimDeliveries(w) \/ ClaimDeliveriesFails(w)
  \/ EndCycle(w) \/ StopCycle(w)

Next ==
  \/ \E w \in Worker : WorkerStep(w) \/ Shutdown(w) \/ Restart(w)
  \/ \E t \in tasks : TaskStep(t)
  \/ \E e \in Event : EventLeaseExpires(e)
  \/ \E d \in Delivery : DeliveryLeaseExpires(d) \/ EndpointAccepts(d)
  \/ \E p \in Endpoint : ToggleEndpoint(p)

Spec == Init /\ [][Next]_vars

-----------------------------------------------------------------------------
(* Safety.                                                                 *)

\* The lease fence: one attempt of a delivery is worked on by one task only,
\* however many claims, expiries and restarts lie between, and the task whose
\* number is current is the one the row names as its owner.  claim_deliveries
\* and the guard of finish_delivery rely on it.
SingleDispatcher ==
  /\ \A t, u \in tasks :
       t.delivery = u.delivery /\ t.number = u.number => t = u
  /\ \A t \in tasks :
       LET row == delivery[t.delivery] IN
       /\ t.number <= row.count
       /\ t.number = row.count /\ row.status = "processing" =>
            row.owner = t.worker

\* webhook_delivery_attempts has no hole: every attempt that was ever claimed
\* has its outcome on file as soon as it is no longer the leased one, whoever
\* lost it (record_expired_delivery_attempts against finish_delivery).
AttemptLedgerComplete ==
  \A d \in Delivery : \A n \in 1..MaxDeliveryAttempts :
    /\ n < delivery[d].count => attempt[d][n] # "none"
    /\ n > delivery[d].count => attempt[d][n] = "none"
    /\ n = delivery[d].count /\ delivery[d].status # "processing" =>
         attempt[d][n] # "none"

\* What the attempt ledger says of the last attempt and what the delivery row
\* says fit together: a lease that was filed as lost is never also finished by
\* its late holder.  Where they differ, an operator switched the endpoint
\* between two statements of one claim: the attempt filed 'cancelled' of a row
\* that is then dead-lettered or claimed again, or 'dead' of one cancelled.
LastOutcome(d) ==
  IF delivery[d].count = 0 THEN "none" ELSE attempt[d][delivery[d].count]

LedgerAgrees(d) ==
  /\ delivery[d].status = "absent" => LastOutcome(d) = "none"
  /\ delivery[d].status = "pending" => LastOutcome(d) \in {"none", "retry"}
  /\ delivery[d].status = "processing" =>
       \/ LastOutcome(d) = "none"
       \/ LastOutcome(d) \in {"retry", "cancelled"} /\ delivery[d].expired
  /\ delivery[d].status = "delivered" => LastOutcome(d) = "delivered"
  /\ delivery[d].status = "dead" =>
       \/ LastOutcome(d) \in {"dead", "ambiguous"}
       \/ LastOutcome(d) = "cancelled" /\ delivery[d].error = "lost"
  /\ delivery[d].status = "cancelled" =>
       \/ LastOutcome(d) \in {"none", "retry", "cancelled"}
       \/ LastOutcome(d) = "dead" /\ delivery[d].count = MaxDeliveryAttempts

LedgerAgreesWithStatus == \A d \in Delivery : LedgerAgrees(d)

\* A delivery is 'delivered' only if the endpoint carried out the very attempt
\* the row counts last (DispatchDisposition::Delivered needs a 2xx).
DeliveredWasReceived ==
  \A d \in Delivery :
    delivery[d].status = "delivered" => delivery[d].count \in received[d]

\* An action is 'unknown' exactly when a delivery of one of its events died
\* without an answer: both writes of mark_exhausted_delivery_leases_dead (and
\* of finish_delivery) happen together, whatever its other events came to.
UnknownMatchesLostAnswers ==
  \A a \in Action :
    action[a] = "unknown" <=>
      \E d \in Delivery : /\ Concerns(d, a)
                          /\ delivery[d].status = "dead"
                          /\ delivery[d].error = "lost"

\* "calling that delivered strands the fan in pending forever"
\* (materialize_deliveries_batch): authentication mail that counts as
\* delivered has at least one delivery row.
AuthHasDelivery ==
  \A e \in AuthEvent :
    event[e].status = "delivered" =>
      \E p \in Endpoint : delivery[<<e, p>>].status # "absent"

\* What is settled stays settled: no late task, release or sweep reopens a
\* delivered, dead or cancelled row, and nobody rewrites an outcome that
\* webhook_delivery_attempts already has on file.
SettledStays ==
  [][/\ \A e \in Event :
          event[e].status \in {"delivered", "dead"} => event'[e] = event[e]
     /\ \A d \in Delivery :
          delivery[d].status \in {"delivered", "dead", "cancelled"} =>
            delivery'[d] = delivery[d]
     /\ \A d \in Delivery : \A n \in 1..MaxDeliveryAttempts :
          attempt[d][n] # "none" => attempt'[d][n] = attempt[d][n]]_vars
=============================================================================
