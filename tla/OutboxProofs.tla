---------------------------- MODULE OutboxProofs ----------------------------
(***************************************************************************)
(* Proofs about Outbox for every set of events, endpoints and workers and  *)
(* every bound on attempts.                                                *)
(***************************************************************************)
EXTENDS OutboxRefinement, TLAPS

USE OutboxAssumption

-----------------------------------------------------------------------------
(* Types.                                                                  *)

\* What final_outcome can answer.
LEMMA FinalOutcomeType ==
  ASSUME NEW disposition, NEW number
  PROVE  FinalOutcome(disposition, number)
           \in {"delivered", "retry", "dead", "ambiguous"}
  BY DEF FinalOutcome

\* What AttemptOutcome::delivery_status can answer.
LEMMA StatusOfType ==
  ASSUME NEW outcome
  PROVE  StatusOf(outcome) \in {"delivered", "pending", "dead"}
  BY DEF StatusOf

\* The expiry sweep of a claim keeps deliveries in their domain.
LEMMA SweptDeliveryType ==
  ASSUME TypeOK, NEW d \in Delivery, NEW cancelling
  PROVE  SweptDelivery(d, cancelling) \in DeliveryRow
  BY DEF TypeOK, SweptDelivery, DeliveryRow, IdleDelivery, DeliveryStatus,
         ErrorKind

\* It keeps their attempts in theirs.
LEMMA SweptAttemptsType ==
  ASSUME TypeOK, NEW d \in Delivery
  PROVE  SweptAttempts(d) \in [1..MaxDeliveryAttempts -> AttemptOutcome]
  BY DEF TypeOK, SweptAttempts, ExpiredOutcome, AttemptOutcome

\* A claim of the deliveries S, under what its statements see of the endpoints.
Claimed(w, cancelling, claiming, S) ==
  /\ \A d \in S : DeliveryClaimable(d, claiming) /\ ~Dropped(d, cancelling)
  /\ delivery' = [d \in Delivery |->
                    IF d \in S THEN LeasedDelivery(w, NextAttempt(d))
                               ELSE SweptDelivery(d, cancelling)]
  /\ \/ /\ phase' = [phase EXCEPT ![w] = "dispatch"]
        /\ tasks' = tasks \cup {NewTask(w, d) : d \in S}
     \/ /\ phase' = [phase EXCEPT ![w] = "idle"]
        /\ UNCHANGED tasks
  /\ attempt' = [d \in Delivery |-> SweptAttempts(d)]
  /\ action' = [a \in Action |-> SweptAction(a, cancelling)]
  /\ active' = claiming
  /\ UNCHANGED <<event, batch, stopping, net>>

\* Every claim is one.
LEMMA ClaimTakes ==
  ASSUME NEW w, ClaimDeliveries(w)
  PROVE  \E cancelling \in [Endpoint -> BOOLEAN], claiming \in [Endpoint -> BOOLEAN],
            S \in SUBSET Delivery : Claimed(w, cancelling, claiming, S)
  <1>1. PICK cancelling \in [Endpoint -> BOOLEAN], claiming \in [Endpoint -> BOOLEAN] :
          ClaimUnder(w, cancelling, claiming)
    BY DEF ClaimDeliveries
  <1>2. PICK S \in SUBSET {d \in Delivery : /\ DeliveryClaimable(d, claiming)
                                          /\ ~Dropped(d, cancelling)} :
          /\ delivery' = [d \in Delivery |->
                            IF d \in S THEN LeasedDelivery(w, NextAttempt(d))
                                       ELSE SweptDelivery(d, cancelling)]
          /\ \/ /\ phase' = [phase EXCEPT ![w] = "dispatch"]
                /\ tasks' = tasks \cup {NewTask(w, d) : d \in S}
             \/ /\ phase' = [phase EXCEPT ![w] = "idle"]
                /\ UNCHANGED tasks
    BY <1>1 DEF ClaimUnder
  <1>3. /\ attempt' = [d \in Delivery |-> SweptAttempts(d)]
        /\ action' = [a \in Action |-> SweptAction(a, cancelling)]
        /\ active' = claiming
        /\ UNCHANGED <<event, batch, stopping, net>>
    BY <1>1 DEF ClaimUnder
  <1>4. /\ S \in SUBSET Delivery
        /\ \A d \in S : DeliveryClaimable(d, claiming) /\ ~Dropped(d, cancelling)
    OBVIOUS
  <1>5. Claimed(w, cancelling, claiming, S)
    BY <1>2, <1>3, <1>4 DEF Claimed
  <1> QED BY <1>4, <1>5

\* A claim keeps every column of the deliveries in its type.
LEMMA ClaimDeliveriesType ==
  ASSUME TypeOK, NEW w \in Worker, ClaimDeliveries(w)
  PROVE  TypeOK'
  <1>0. PICK cancelling \in [Endpoint -> BOOLEAN], claiming \in [Endpoint -> BOOLEAN],
             S \in SUBSET Delivery : Claimed(w, cancelling, claiming, S)
    BY ClaimTakes
  <1>1. /\ \A d \in S : DeliveryClaimable(d, claiming)
        /\ delivery' = [d \in Delivery |->
                          IF d \in S THEN LeasedDelivery(w, NextAttempt(d))
                                     ELSE SweptDelivery(d, cancelling)]
        /\ \/ /\ phase' = [phase EXCEPT ![w] = "dispatch"]
              /\ tasks' = tasks \cup {NewTask(w, d) : d \in S}
           \/ /\ phase' = [phase EXCEPT ![w] = "idle"]
              /\ UNCHANGED tasks
        /\ attempt' = [d \in Delivery |-> SweptAttempts(d)]
        /\ action' = [a \in Action |-> SweptAction(a, cancelling)]
        /\ active' = claiming
        /\ UNCHANGED <<event, batch, stopping, net>>
    BY <1>0 DEF Claimed
  <1>2. \A d \in S : NextAttempt(d) \in 1..MaxDeliveryAttempts
    BY <1>1 DEF TypeOK, DeliveryClaimable, NextAttempt, DeliveryRow
  <1>3. delivery' \in [Delivery -> DeliveryRow]
    <2>1. \A d \in S : LeasedDelivery(w, NextAttempt(d)) \in DeliveryRow
      BY <1>2 DEF LeasedDelivery, DeliveryRow, DeliveryStatus, ErrorKind
    <2> QED BY <1>1, <2>1, SweptDeliveryType
  <1>4. tasks' \subseteq Task
    <2>1. \A d \in S : NewTask(w, d) \in Task
      BY <1>2 DEF NewTask, Task, Disposition
    <2> QED BY <1>1, <2>1 DEF TypeOK
  <1>5. attempt' \in [Delivery -> [1..MaxDeliveryAttempts -> AttemptOutcome]]
    BY <1>1, SweptAttemptsType
  <1>6. action' \in [Action -> ActionStatus] /\ active' \in [Endpoint -> BOOLEAN]
    BY <1>1 DEF TypeOK, SweptAction, ActionStatus
  <1>7. phase' \in [Worker -> Phase]
    BY <1>1 DEF TypeOK, Phase
  <1> QED
    BY <1>1, <1>3, <1>4, <1>5, <1>6, <1>7 DEF TypeOK, net

\* Claiming events keeps the types.
LEMMA ClaimEventsType ==
  ASSUME TypeOK, NEW w \in Worker, ClaimEvents(w)
  PROVE  TypeOK'
  <1>1. PICK S \in SUBSET {e \in Event : EventClaimable(e)} :
          /\ event' = [e \in Event |->
                         IF e \in S THEN LeasedEvent(w, event[e].attempts + 1)
                                    ELSE SweptEvent(e)]
          /\ \/ /\ phase' = [phase EXCEPT ![w] =
                               IF S = {} THEN "claim" ELSE "materialize"]
                /\ batch' = [batch EXCEPT ![w] = S]
             \/ UNCHANGED <<phase, batch>>
    BY DEF ClaimEvents
  <1>2. \A e \in S : LeasedEvent(w, event[e].attempts + 1) \in EventRow
    BY DEF TypeOK, EventClaimable, LeasedEvent, EventRow, EventStatus, ErrorKind
  <1>3. \A e \in Event : SweptEvent(e) \in EventRow
    BY DEF TypeOK, SweptEvent, IdleEvent, EventRow, EventStatus, ErrorKind
  <1>4. event' \in [Event -> EventRow]
    BY <1>1, <1>2, <1>3
  <1>5. phase' \in [Worker -> Phase] /\ batch' \in [Worker -> SUBSET Event]
    BY <1>1 DEF TypeOK, Phase
  <1> QED
    BY <1>4, <1>5 DEF ClaimEvents, TypeOK, net

\* Fan-out keeps the types.
LEMMA MaterializeType ==
  ASSUME TypeOK, NEW w \in Worker, Materialize(w)
  PROVE  TypeOK'
  <1>1. \A e \in Event : Materialized(e) \in EventRow
    BY DEF TypeOK, IdleEvent, Materialized, EventRow, EventStatus, ErrorKind
  <1>2. IdleDelivery("pending", 0, "none") \in DeliveryRow
    BY DEF IdleDelivery, DeliveryRow, DeliveryStatus, ErrorKind
  <1>3. phase' \in [Worker -> Phase] /\ batch' \in [Worker -> SUBSET Event]
    BY DEF Materialize, TypeOK, Phase
  <1>4. event' \in [Event -> EventRow] /\ delivery' \in [Delivery -> DeliveryRow]
    BY <1>1, <1>2 DEF Materialize, TypeOK
  <1> QED
    BY <1>3, <1>4 DEF Materialize, TypeOK, net

\* Handing an event back keeps the types.
LEMMA ReleaseType ==
  ASSUME TypeOK, NEW w \in Worker, NEW e \in Event, Release(w, e)
  PROVE  TypeOK'
  <1>1. Refunded(e) \in EventRow
    BY DEF TypeOK, Refunded, IdleEvent, EventRow, EventStatus, ErrorKind
  <1> QED
    BY <1>1 DEF Release, TypeOK, Phase, net

\* Writing a result keeps the types.
LEMMA FinishType ==
  ASSUME TypeOK, NEW t \in tasks, Finish(t)
  PROVE  TypeOK'
  <1> DEFINE outcome == FinalOutcome(t.disposition, t.number)
             d == t.delivery
             row == IdleDelivery(StatusOf(outcome), delivery[d].count,
                                 IF StatusOf(outcome) = "dead"
                                 THEN ErrorOf(t.disposition) ELSE "none")
  <1>1. d \in Delivery /\ t.number \in 1..MaxDeliveryAttempts
    BY DEF TypeOK, Task
  <1>2. row \in DeliveryRow
    BY <1>1, StatusOfType
       DEF TypeOK, IdleDelivery, DeliveryRow, DeliveryStatus, ErrorKind, ErrorOf
  <1>3. delivery' = [delivery EXCEPT ![d] = row]
    BY DEF Finish
  <1>4. attempt' \in [Delivery -> [1..MaxDeliveryAttempts -> AttemptOutcome]]
    BY <1>1, FinalOutcomeType DEF Finish, TypeOK, AttemptOutcome
  <1>5. action' \in [Action -> ActionStatus]
    BY <1>1 DEF Finish, TypeOK, ActionStatus
  <1> QED
    BY <1>1, <1>2, <1>3, <1>4, <1>5 DEF Finish, TypeOK, net

\* The steps of a task between its claim and finish_delivery.
LEMMA TaskStepType ==
  ASSUME TypeOK, NEW t \in tasks,
         \/ PreDispatchFails(t) \/ Send(t) \/ Answer(t) \/ Timeout(t)
         \/ ShutdownTask(t) \/ FinishFails(t)
  PROVE  TypeOK'
  <1>1. t \in Task /\ t.delivery \in Delivery
        /\ t.number \in 1..MaxDeliveryAttempts
    BY DEF TypeOK, Task
  <1>2. \A r \in Disposition : Resolved(t, r) \in Task
    BY <1>1 DEF Resolved, Task
  <1>3. CASE PreDispatchFails(t)
    BY <1>2, <1>3 DEF PreDispatchFails, Replace, Disposition, TypeOK, rows, net
  <1>4. CASE Send(t)
    <2>1. Sent(t) \in Task
      BY <1>1 DEF Sent, Task
    <2> QED BY <1>1, <1>4, <2>1 DEF Send, Replace, TypeOK, rows
  <1>5. CASE Answer(t)
    <2>1. tasks' \subseteq Task
      BY <1>2, <1>5 DEF Answer, Replace, Disposition, TypeOK
    <2>2. wire' \in [Delivery -> SUBSET (1..MaxDeliveryAttempts)]
      BY <1>1, <1>5 DEF Answer, TypeOK
    <2> QED BY <1>5, <2>1, <2>2 DEF Answer, TypeOK, rows
  <1>6. CASE Timeout(t)
    BY <1>2, <1>6 DEF Timeout, Replace, Disposition, TypeOK, rows, net
  <1>7. CASE ShutdownTask(t)
    BY <1>2, <1>7 DEF ShutdownTask, Replace, Disposition, TypeOK, rows, net
  <1>8. CASE FinishFails(t)
    BY <1>8 DEF FinishFails, TypeOK, rows, net
  <1> QED
    BY <1>3, <1>4, <1>5, <1>6, <1>7, <1>8

\* The local steps of a worker, and what its surroundings do to it.
LEMMA LocalStepType ==
  ASSUME TypeOK, NEW w \in Worker,
         \/ MaterializeFails(w) \/ ClaimDeliveriesFails(w) \/ EndCycle(w)
         \/ StopCycle(w) \/ Shutdown(w) \/ Restart(w)
  PROVE  TypeOK'
  BY DEF MaterializeFails, ClaimDeliveriesFails, EndCycle, StopCycle, Shutdown,
         Restart, TypeOK, Phase, rows, net

\* Leases, routes and receivers keep the types.
LEMMA SurroundingsType ==
  ASSUME TypeOK,
         \/ \E e \in Event : EventLeaseExpires(e)
         \/ \E d \in Delivery : DeliveryLeaseExpires(d) \/ EndpointAccepts(d)
         \/ \E p \in Endpoint : ToggleEndpoint(p)
  PROVE  TypeOK'
  <1>1. ASSUME NEW e \in Event, EventLeaseExpires(e) PROVE TypeOK'
    <2>1. [event[e] EXCEPT !.expired = TRUE] \in EventRow
      <3>1. event[e] \in EventRow
        BY DEF TypeOK
      <3> QED BY <3>1 DEF EventRow
    <2> QED BY <1>1, <2>1 DEF EventLeaseExpires, TypeOK, locals, net
  <1>2. ASSUME NEW d \in Delivery, DeliveryLeaseExpires(d) PROVE TypeOK'
    <2>1. [delivery[d] EXCEPT !.expired = TRUE] \in DeliveryRow
      <3>1. delivery[d] \in DeliveryRow
        BY DEF TypeOK
      <3> QED BY <3>1 DEF DeliveryRow
    <2> QED BY <1>2, <2>1 DEF DeliveryLeaseExpires, TypeOK, locals, net
  <1>3. CASE \E d \in Delivery : EndpointAccepts(d)
    BY <1>3 DEF EndpointAccepts, TypeOK, rows, locals
  <1>4. CASE \E p \in Endpoint : ToggleEndpoint(p)
    BY <1>4 DEF ToggleEndpoint, TypeOK, rows, locals, net
  <1> QED BY <1>1, <1>2, <1>3, <1>4

\* The initial state is well typed.
LEMMA InitType == Init => TypeOK
  <1> SUFFICES ASSUME Init PROVE TypeOK
    OBVIOUS
  <1>1. event \in [Event -> EventRow]
    BY DEF Init, IdleEvent, EventRow, EventStatus, ErrorKind
  <1>2. delivery \in [Delivery -> DeliveryRow]
    BY DEF Init, IdleDelivery, DeliveryRow, DeliveryStatus, ErrorKind
  <1> QED
    BY <1>1, <1>2 DEF Init, TypeOK, AttemptOutcome, ActionStatus, Phase

\* Every step keeps the types.
LEMMA NextType == TypeOK /\ [Next]_vars => TypeOK'
  <1> SUFFICES ASSUME TypeOK, [Next]_vars PROVE TypeOK'
    OBVIOUS
  <1>1. ASSUME NEW w \in Worker, WorkerStep(w) PROVE TypeOK'
    BY <1>1, ClaimEventsType, MaterializeType, ReleaseType,
       ClaimDeliveriesType, LocalStepType DEF WorkerStep
  <1>2. ASSUME NEW t \in tasks, TaskStep(t) PROVE TypeOK'
    BY <1>2, TaskStepType, FinishType DEF TaskStep
  <1>3. CASE UNCHANGED vars
    BY <1>3 DEF vars, TypeOK
  <1> QED
    BY <1>1, <1>2, <1>3, LocalStepType, SurroundingsType DEF Next

\* Every column keeps its type: attempt counts stay within max_attempts (the
\* CHECK of webhook_deliveries) through every claim, sweep and release.
THEOREM TypeCorrect == Spec => []TypeOK
  BY InitType, NextType, PTL DEF Spec

-----------------------------------------------------------------------------
(* Four actions write the delivery rows; all others leave them alone and   *)
(* at most drop tasks or move one of them on.                              *)

SameClaim(t, u) ==
  u.worker = t.worker /\ u.delivery = t.delivery /\ u.number = t.number

\* One task moves on, and is resolved as delivered only after its request
\* was carried out.
TaskMoves ==
  \E t \in tasks : \E u \in Task :
    /\ SameClaim(t, u)
    /\ tasks' = (tasks \ {t}) \cup {u}
    /\ u.disposition = "delivered" =>
         t.disposition = "delivered" \/ t.number \in received[t.delivery]

RowsStill ==
  /\ UNCHANGED <<delivery, attempt, action>>
  /\ tasks' \subseteq tasks \/ TaskMoves

\* A task that moves on keeps its claim.
LEMMA MovedTask ==
  ASSUME TypeOK, NEW t \in tasks
  PROVE  /\ \A r \in Disposition :
              /\ Resolved(t, r) \in Task
              /\ SameClaim(t, Resolved(t, r))
              /\ Resolved(t, r).disposition = r
         /\ Sent(t) \in Task
         /\ SameClaim(t, Sent(t))
         /\ Sent(t).disposition = t.disposition
  <1>1. t \in Task
    BY DEF TypeOK
  <1>2. Sent(t) \in Task
    BY <1>1 DEF Sent, Task
  <1>3. /\ SameClaim(t, Sent(t))
        /\ Sent(t).disposition = t.disposition
    BY <1>1 DEF Sent, Task, SameClaim
  <1>4. ASSUME NEW r \in Disposition
        PROVE  /\ Resolved(t, r) \in Task
               /\ SameClaim(t, Resolved(t, r))
               /\ Resolved(t, r).disposition = r
    <2>1. Resolved(t, r) \in Task
      BY <1>1 DEF Task, Resolved
    <2>2. SameClaim(t, Resolved(t, r))
      BY <1>1 DEF Task, Resolved, SameClaim
    <2>3. Resolved(t, r).disposition = r
      BY <1>1 DEF Task, Resolved
    <2> QED BY <2>1, <2>2, <2>3
  <1> QED BY <1>2, <1>3, <1>4

\* A task that works moves no row.
LEMMA TaskStepStill ==
  ASSUME TypeOK, NEW t \in tasks,
         \/ PreDispatchFails(t) \/ Send(t) \/ Answer(t) \/ Timeout(t)
         \/ ShutdownTask(t) \/ FinishFails(t)
  PROVE  RowsStill
  <1> USE MovedTask
  <1>1. CASE PreDispatchFails(t)
    BY <1>1 DEF PreDispatchFails, Replace, Disposition, RowsStill, TaskMoves, rows
  <1>2. CASE Send(t)
    BY <1>2 DEF Send, Replace, RowsStill, TaskMoves, rows
  <1>3. CASE Answer(t)
    <2>1. CASE t.number \in received[t.delivery] /\ Replace(t, Resolved(t, "delivered"))
      BY <1>3, <2>1 DEF Answer, Replace, Disposition, RowsStill, TaskMoves, rows
    <2>2. CASE \E r \in {"permanent", "retryable"} : Replace(t, Resolved(t, r))
      BY <1>3, <2>2 DEF Answer, Replace, Disposition, RowsStill, TaskMoves, rows
    <2> QED BY <1>3, <2>1, <2>2 DEF Answer
  <1>4. CASE Timeout(t)
    BY <1>4 DEF Timeout, Replace, Disposition, RowsStill, TaskMoves, rows
  <1>5. CASE ShutdownTask(t)
    BY <1>5 DEF ShutdownTask, Replace, Disposition, RowsStill, TaskMoves, rows
  <1>6. CASE FinishFails(t)
    BY <1>6 DEF FinishFails, RowsStill, rows
  <1> QED BY <1>1, <1>2, <1>3, <1>4, <1>5, <1>6

\* The steps that move a delivery, and the others.
LEMMA DeliverySteps ==
  ASSUME TypeOK, [Next]_vars
  PROVE  \/ \E w \in Worker : Materialize(w)
         \/ \E w \in Worker : ClaimDeliveries(w)
         \/ \E t \in tasks : Finish(t)
         \/ \E d \in Delivery : DeliveryLeaseExpires(d)
         \/ RowsStill
  <1>1. ASSUME NEW w \in Worker,
               \/ ClaimEvents(w) \/ (\E e \in Event : Release(w, e))
               \/ MaterializeFails(w) \/ ClaimDeliveriesFails(w)
               \/ EndCycle(w) \/ StopCycle(w) \/ Shutdown(w) \/ Restart(w)
        PROVE  RowsStill
    BY <1>1 DEF ClaimEvents, Release, MaterializeFails, ClaimDeliveriesFails,
                EndCycle, StopCycle, Shutdown, Restart, RowsStill, rows
  <1>2. CASE \E e \in Event : EventLeaseExpires(e)
    BY <1>2 DEF EventLeaseExpires, RowsStill, locals
  <1>3. CASE \E d \in Delivery : EndpointAccepts(d)
    BY <1>3 DEF EndpointAccepts, RowsStill, rows, locals
  <1>4. CASE \E p \in Endpoint : ToggleEndpoint(p)
    BY <1>4 DEF ToggleEndpoint, RowsStill, rows, locals
  <1>5. CASE UNCHANGED vars
    BY <1>5 DEF vars, RowsStill
  <1>6. ASSUME NEW w \in Worker, WorkerStep(w) \/ Shutdown(w) \/ Restart(w)
        PROVE  Materialize(w) \/ ClaimDeliveries(w) \/ RowsStill
    BY <1>1, <1>6 DEF WorkerStep
  <1>7. ASSUME NEW t \in tasks, TaskStep(t) PROVE Finish(t) \/ RowsStill
    BY <1>7, TaskStepStill DEF TaskStep
  <1> QED
    BY <1>2, <1>3, <1>4, <1>5, <1>6, <1>7 DEF Next

\* The clock writes the expired flag and nothing else.
LEMMA ExpiryKeeps ==
  ASSUME TypeOK, NEW c \in Delivery, DeliveryLeaseExpires(c)
  PROVE  /\ UNCHANGED <<event, attempt, action, tasks, wire, received>>
         /\ delivery[c].status = "processing"
         /\ delivery'[c].expired
         /\ \A d \in Delivery : d # c => delivery'[d] = delivery[d]
         /\ \A d \in Delivery :
              /\ delivery'[d].status = delivery[d].status
              /\ delivery'[d].count = delivery[d].count
              /\ delivery'[d].owner = delivery[d].owner
              /\ delivery'[d].error = delivery[d].error
  <1>1. \A row \in DeliveryRow :
          LET later == [row EXCEPT !.expired = TRUE] IN
          /\ later.status = row.status
          /\ later.count = row.count
          /\ later.owner = row.owner
          /\ later.error = row.error
          /\ later.expired
    BY DEF DeliveryRow
  <1>2. delivery \in [Delivery -> DeliveryRow]
    BY DEF TypeOK
  <1>3. delivery' = [delivery EXCEPT ![c] = [delivery[c] EXCEPT !.expired = TRUE]]
    BY DEF DeliveryLeaseExpires
  <1>4. \A d \in Delivery : d # c => delivery'[d] = delivery[d]
    BY <1>2, <1>3
  <1>5. delivery'[c] = [delivery[c] EXCEPT !.expired = TRUE]
    BY <1>2, <1>3
  <1>6. /\ delivery'[c].status = delivery[c].status
        /\ delivery'[c].count = delivery[c].count
        /\ delivery'[c].owner = delivery[c].owner
        /\ delivery'[c].error = delivery[c].error
        /\ delivery'[c].expired
    BY <1>1, <1>2, <1>5
  <1> QED
    BY <1>4, <1>6 DEF DeliveryLeaseExpires, locals, net

-----------------------------------------------------------------------------
(* The lease fence.  That no two tasks share an attempt is inductive only  *)
(* together with the bound of every task's number by the row's count, and  *)
(* with the count of a row that is not there yet.                          *)

AbsentIsFresh ==
  \A d \in Delivery : delivery[d].status = "absent" => delivery[d].count = 0

Fence == SingleDispatcher /\ AbsentIsFresh

\* A claim of deliveries keeps the fence.
LEMMA FenceClaim ==
  ASSUME TypeOK, Fence, NEW w \in Worker, ClaimDeliveries(w)
  PROVE  Fence'
  <1>0. PICK cancelling \in [Endpoint -> BOOLEAN], claiming \in [Endpoint -> BOOLEAN],
             S \in SUBSET Delivery : Claimed(w, cancelling, claiming, S)
    BY ClaimTakes
  <1>1. /\ S \subseteq {d \in Delivery : DeliveryClaimable(d, claiming)}
        /\ delivery' = [d \in Delivery |->
                          IF d \in S THEN LeasedDelivery(w, NextAttempt(d))
                                     ELSE SweptDelivery(d, cancelling)]
        /\ \/ tasks' = tasks \cup {NewTask(w, d) : d \in S}
           \/ UNCHANGED tasks
    BY <1>0 DEF Claimed
  <1>2. \A d \in S : /\ delivery'[d].count = delivery[d].count + 1
                     /\ delivery'[d].status = "processing"
                     /\ delivery'[d].owner = w
    BY <1>1 DEF LeasedDelivery, NextAttempt
  <1>3. \A d \in Delivery \ S :
          /\ delivery'[d].count = delivery[d].count
          /\ delivery'[d].status = "processing" =>
               delivery'[d] = delivery[d]
          /\ delivery'[d].status = "absent" =>
               delivery[d].status = "absent"
    BY <1>1 DEF SweptDelivery, IdleDelivery
  <1>4. \A d \in Delivery : delivery[d].count \in Nat
    BY DEF TypeOK, DeliveryRow
  <1>5. \A t \in tasks : t.delivery \in Delivery /\ t.number \in Nat
    BY DEF TypeOK, Task
  <1>6. \A d \in S : /\ NewTask(w, d).delivery = d
                     /\ NewTask(w, d).worker = w
                     /\ NewTask(w, d).number = delivery[d].count + 1
    BY DEF NewTask, NextAttempt
  <1>7. \A t, u \in tasks' :
          t.delivery = u.delivery /\ t.number = u.number => t = u
    <2>1. \A t \in tasks : \A d \in S : t.delivery = d => t.number # delivery[d].count + 1
      BY <1>4, <1>5 DEF Fence, SingleDispatcher
    <2> QED BY <1>1, <1>6, <2>1 DEF Fence, SingleDispatcher
  <1>8. \A t \in tasks' :
          /\ t.number <= delivery'[t.delivery].count
          /\ t.number = delivery'[t.delivery].count
             /\ delivery'[t.delivery].status = "processing" =>
               delivery'[t.delivery].owner = t.worker
    <2>1. ASSUME NEW t \in tasks
          PROVE  /\ t.number <= delivery'[t.delivery].count
                 /\ t.number = delivery'[t.delivery].count
                    /\ delivery'[t.delivery].status = "processing" =>
                      delivery'[t.delivery].owner = t.worker
      <3>1. CASE t.delivery \in S
        BY <3>1, <1>2, <1>4, <1>5 DEF Fence, SingleDispatcher
      <3>2. CASE t.delivery \notin S
        BY <3>2, <1>3, <1>4, <1>5 DEF Fence, SingleDispatcher
      <3> QED BY <3>1, <3>2
    <2>2. ASSUME NEW d \in S, NEW t, t = NewTask(w, d)
          PROVE  /\ t.number <= delivery'[t.delivery].count
                 /\ delivery'[t.delivery].owner = t.worker
      BY <2>2, <1>2, <1>4, <1>6
    <2> QED BY <1>1, <2>1, <2>2
  <1>9. AbsentIsFresh'
    BY <1>2, <1>3 DEF Fence, AbsentIsFresh
  <1> QED BY <1>7, <1>8, <1>9 DEF Fence, SingleDispatcher

\* Steps that move no row keep the fence.
LEMMA FenceStill ==
  ASSUME TypeOK, Fence, RowsStill
  PROVE  Fence'
  <1>1. CASE tasks' \subseteq tasks
    BY <1>1 DEF RowsStill, Fence, SingleDispatcher, AbsentIsFresh
  <1>2. CASE TaskMoves
    <2>1. PICK t \in tasks, u \in Task :
            SameClaim(t, u) /\ tasks' = (tasks \ {t}) \cup {u}
      BY <1>2 DEF TaskMoves
    <2>2. \A a, b \in tasks' :
            a.delivery = b.delivery /\ a.number = b.number => a = b
      BY <2>1 DEF Fence, SingleDispatcher, SameClaim
    <2> QED
      BY <2>1, <2>2 DEF RowsStill, Fence, SingleDispatcher, AbsentIsFresh, SameClaim
  <1> QED BY <1>1, <1>2 DEF RowsStill

\* Every step keeps the fence.
LEMMA FenceStep == TypeOK /\ Fence /\ [Next]_vars => Fence'
  <1> SUFFICES ASSUME TypeOK, Fence, [Next]_vars PROVE Fence'
    OBVIOUS
  <1>1. ASSUME NEW w \in Worker, Materialize(w) PROVE Fence'
    <2>1. \A d \in Delivery :
            /\ delivery'[d].count = delivery[d].count
            /\ delivery'[d] = delivery[d] \/ delivery'[d].status = "pending"
      BY <1>1 DEF Materialize, TypeOK, Fence, AbsentIsFresh, IdleDelivery
    <2>2. UNCHANGED tasks /\ tasks \subseteq Task
      BY <1>1 DEF Materialize, TypeOK
    <2> QED
      BY <2>1, <2>2 DEF Fence, SingleDispatcher, AbsentIsFresh, Task
  <1>2. ASSUME NEW t \in tasks, Finish(t) PROVE Fence'
    <2>1. \A d \in Delivery :
            /\ delivery'[d].count = delivery[d].count
            /\ delivery'[d] = delivery[d]
               \/ delivery'[d].status \notin {"processing", "absent"}
      BY <1>2, StatusOfType DEF Finish, TypeOK, IdleDelivery
    <2>2. tasks' \subseteq tasks /\ tasks \subseteq Task
      BY <1>2 DEF Finish, TypeOK
    <2> QED
      BY <2>1, <2>2 DEF Fence, SingleDispatcher, AbsentIsFresh, Task
  <1>3. ASSUME NEW c \in Delivery, DeliveryLeaseExpires(c) PROVE Fence'
    <2>1. \A t \in tasks : t.delivery \in Delivery
      BY DEF TypeOK, Task
    <2> QED
      BY <1>3, <2>1, ExpiryKeeps DEF Fence, SingleDispatcher, AbsentIsFresh
  <1> QED
    BY <1>1, <1>2, <1>3, FenceClaim, FenceStill, DeliverySteps

\* The fence holds at the start.
LEMMA InitFence == Init => Fence
  BY DEF Init, Fence, SingleDispatcher, AbsentIsFresh, IdleDelivery

\* The lease fence holds in every reachable state: one attempt of a delivery
\* is worked on by one task at most, and the current one by the row's owner.
THEOREM FenceHolds == Spec => []SingleDispatcher
  <1>1. Fence => SingleDispatcher
    BY DEF Fence
  <1> QED
    BY <1>1, InitFence, FenceStep, TypeCorrect, PTL DEF Spec

-----------------------------------------------------------------------------
(* The attempt ledger.  Its agreement with the row is inductive only when  *)
(* a lease filed as 'retry' is known to have attempts left: otherwise the  *)
(* next sweep could kill the row and find the outcome already on file.     *)

FiledLeaseHasAttempts ==
  \A d \in Delivery :
    delivery[d].status = "processing" /\ LastOutcome(d) = "retry" =>
      delivery[d].count < MaxDeliveryAttempts

Ledger ==
  /\ AttemptLedgerComplete
  /\ LedgerAgreesWithStatus
  /\ FiledLeaseHasAttempts

\* The three fates of a row in the sweeps of claim_deliveries.
SweptKept(d, cancelling) ==
  /\ SweptDelivery(d, cancelling) = delivery[d]
  /\ Expired(d) => delivery[d].count < MaxDeliveryAttempts

SweptCancelled(d, cancelling) ==
  /\ SweptDelivery(d, cancelling).status = "cancelled"
  /\ delivery[d].status = "pending" \/ Expired(d)

SweptDead(d, cancelling) ==
  /\ SweptDelivery(d, cancelling).status = "dead"
  /\ SweptDelivery(d, cancelling).error = "lost"
  /\ Exhausted(d, cancelling)

\* A claim of deliveries keeps the ledger of attempts.
LEMMA LedgerClaim ==
  ASSUME TypeOK, AbsentIsFresh, Ledger, NEW w \in Worker, ClaimDeliveries(w)
  PROVE  Ledger'
  <1>0. PICK cancelling \in [Endpoint -> BOOLEAN], claiming \in [Endpoint -> BOOLEAN],
             S \in SUBSET Delivery : Claimed(w, cancelling, claiming, S)
    BY ClaimTakes
  <1>1. /\ S \subseteq {d \in Delivery : DeliveryClaimable(d, claiming)}
        /\ delivery' = [d \in Delivery |->
                          IF d \in S THEN LeasedDelivery(w, NextAttempt(d))
                                     ELSE SweptDelivery(d, cancelling)]
    BY <1>0 DEF Claimed
  <1>2. attempt' = [d \in Delivery |-> SweptAttempts(d)]
    BY <1>0 DEF Claimed
  <1>3. ASSUME NEW d \in Delivery
        PROVE  /\ delivery[d].count \in 0..MaxDeliveryAttempts
               /\ attempt[d] \in [1..MaxDeliveryAttempts -> AttemptOutcome]
               /\ delivery[d].status \in DeliveryStatus
    BY DEF TypeOK, DeliveryRow
  <1>4. ASSUME NEW d \in Delivery, NEW n \in 1..MaxDeliveryAttempts
        PROVE  /\ n # delivery[d].count => attempt'[d][n] = attempt[d][n]
               /\ n = delivery[d].count /\ Expired(d) => attempt'[d][n] # "none"
               /\ attempt[d][n] # "none" \/ ~Expired(d) =>
                    attempt'[d][n] = attempt[d][n]
               /\ n = delivery[d].count /\ Expired(d) /\ attempt[d][n] = "none" =>
                    attempt'[d][n] = ExpiredOutcome(d)
    BY <1>2, <1>3 DEF SweptAttempts, ExpiredOutcome
  <1>5. ASSUME NEW d \in S
        PROVE  /\ delivery'[d].count = delivery[d].count + 1
               /\ delivery'[d].count <= MaxDeliveryAttempts
               /\ delivery'[d].status = "processing"
               /\ delivery[d].status = "pending" \/ Expired(d)
    BY <1>1, <1>3 DEF LeasedDelivery, NextAttempt, DeliveryClaimable
  <1>6. ASSUME NEW d \in Delivery \ S
        PROVE  delivery'[d] = SweptDelivery(d, cancelling)
    BY <1>1
  <1>7. ASSUME NEW d \in Delivery
        PROVE  /\ SweptDelivery(d, cancelling).count = delivery[d].count
               /\ \/ SweptKept(d, cancelling) \/ SweptCancelled(d, cancelling) \/ SweptDead(d, cancelling)
    <2>1. CASE Dropped(d, cancelling)
      BY <2>1 DEF Dropped, SweptDelivery, IdleDelivery, SweptCancelled
    <2>2. CASE ~Dropped(d, cancelling) /\ Exhausted(d, cancelling)
      BY <2>2 DEF SweptDelivery, IdleDelivery, SweptDead
    <2>3. CASE ~Dropped(d, cancelling) /\ ~Exhausted(d, cancelling)
      BY <1>3, <2>3 DEF Exhausted, SweptDelivery, SweptKept
    <2> QED BY <2>1, <2>2, <2>3
  <1>8. AttemptLedgerComplete'
    <2> SUFFICES ASSUME NEW d \in Delivery, NEW n \in 1..MaxDeliveryAttempts
                 PROVE  /\ n < delivery'[d].count => attempt'[d][n] # "none"
                        /\ n > delivery'[d].count => attempt'[d][n] = "none"
                        /\ n = delivery'[d].count
                           /\ delivery'[d].status # "processing" =>
                             attempt'[d][n] # "none"
      BY DEF AttemptLedgerComplete
    <2>1. CASE d \in S
      BY <2>1, <1>3, <1>4, <1>5 DEF Ledger, AttemptLedgerComplete
    <2>2. CASE d \notin S
      BY <2>2, <1>3, <1>4, <1>6, <1>7
         DEF Ledger, AttemptLedgerComplete, Exhausted, SweptKept,
             SweptCancelled, SweptDead
    <2> QED BY <2>1, <2>2
  <1>9. ASSUME NEW d \in S PROVE LastOutcome(d)' = "none"
    <2>1. delivery'[d].count \in 1..MaxDeliveryAttempts
          /\ delivery'[d].count > delivery[d].count
      BY <1>3, <1>5
    <2> QED
      BY <2>1, <1>3, <1>4 DEF LastOutcome, Ledger, AttemptLedgerComplete
  <1>10. ASSUME NEW d \in Delivery \ S, delivery[d].count > 0
         PROVE  /\ LastOutcome(d)' = attempt'[d][delivery[d].count]
                /\ LastOutcome(d) = attempt[d][delivery[d].count]
    BY <1>3, <1>6, <1>7, <1>10 DEF LastOutcome
  <1>11. ASSUME NEW d \in Delivery \ S, delivery[d].count = 0
         PROVE  LastOutcome(d)' = "none" /\ LastOutcome(d) = "none"
    BY <1>3, <1>6, <1>7, <1>11 DEF LastOutcome
  <1>12. ASSUME NEW d \in Delivery
         PROVE  /\ LedgerAgrees(d)'
                /\ delivery'[d].status = "processing" /\ LastOutcome(d)' = "retry" =>
                     delivery'[d].count < MaxDeliveryAttempts
    <2>1. CASE d \in S
      BY <2>1, <1>5, <1>9 DEF LedgerAgrees
    <2>2. CASE d \notin S /\ delivery[d].count = 0
      <3>1. ~Exhausted(d, cancelling)
        BY <2>2 DEF Exhausted
      <3>2. \/ delivery'[d] = delivery[d]
            \/ delivery'[d].status = "cancelled"
        BY <2>2, <3>1, <1>6, <1>7 DEF SweptKept, SweptCancelled, SweptDead
      <3>3. LastOutcome(d)' = "none" /\ LastOutcome(d) = "none"
        BY <2>2, <1>11
      <3> QED
        BY <3>2, <3>3 DEF Ledger, LedgerAgreesWithStatus, LedgerAgrees
    <2>3. CASE d \notin S /\ delivery[d].count > 0
      <3> DEFINE n == delivery[d].count
      <3>1. n \in 1..MaxDeliveryAttempts
        BY <2>3, <1>3
      <3>2. LastOutcome(d)' = attempt'[d][n] /\ LastOutcome(d) = attempt[d][n]
        BY <2>3, <1>10
      <3>3. LedgerAgrees(d)
        BY DEF Ledger, LedgerAgreesWithStatus
      <3>4. CASE SweptKept(d, cancelling)
        <4> USE DEF SweptKept
        <4>1. CASE Expired(d)
          <5>1. ExpiredOutcome(d) \in {"retry", "cancelled"} /\ n < MaxDeliveryAttempts
            BY <3>1, <3>4, <4>1 DEF ExpiredOutcome
          <5>2. attempt'[d][n] \in {"retry", "cancelled", attempt[d][n]}
            BY <3>1, <4>1, <5>1, <1>4
          <5>3. attempt[d][n] \in {"none", "retry", "cancelled"}
            BY <3>2, <3>3, <4>1 DEF Expired, LedgerAgrees
          <5>4. attempt'[d][n] # "none"
            BY <3>1, <4>1, <1>4
          <5> QED
            BY <2>3, <3>2, <3>4, <4>1, <5>1, <5>2, <5>3, <5>4, <1>6
               DEF Expired, LedgerAgrees
        <4>2. CASE ~Expired(d)
          <5>1. attempt'[d][n] = attempt[d][n] /\ delivery'[d] = delivery[d]
            BY <2>3, <3>1, <3>4, <4>2, <1>4, <1>6
          <5> QED
            BY <3>2, <3>3, <5>1 DEF Ledger, FiledLeaseHasAttempts, LedgerAgrees
        <4> QED BY <4>1, <4>2
      <3>5. CASE SweptCancelled(d, cancelling)
        <4> USE DEF SweptCancelled
        <4>1. \/ attempt'[d][n] \in {"none", "retry", "cancelled"}
              \/ attempt'[d][n] = "dead" /\ n = MaxDeliveryAttempts
          <5>1. attempt[d][n] \in {"none", "retry", "cancelled"}
            BY <3>2, <3>3, <3>5 DEF Expired, LedgerAgrees
          <5>2. \/ ExpiredOutcome(d) \in {"retry", "cancelled"}
                \/ ExpiredOutcome(d) = "dead" /\ n = MaxDeliveryAttempts
            BY <3>1 DEF ExpiredOutcome
          <5> QED
            BY <3>1, <3>5, <5>1, <5>2, <1>4
        <4>2. delivery'[d].status = "cancelled" /\ delivery'[d].count = n
          BY <2>3, <3>5, <1>6, <1>7
        <4> QED BY <3>2, <4>1, <4>2 DEF LedgerAgrees
      <3>6. CASE SweptDead(d, cancelling)
        <4> USE DEF SweptDead
        <4>1. attempt[d][n] \in {"none", "cancelled"}
          BY <3>1, <3>2, <3>3, <3>6
             DEF Exhausted, Expired, Ledger, FiledLeaseHasAttempts, LedgerAgrees
        <4>2. attempt'[d][n] \in {"dead", "cancelled"}
          BY <3>1, <3>6, <4>1, <1>4 DEF ExpiredOutcome, Exhausted
        <4> QED BY <2>3, <3>2, <3>6, <4>2, <1>6 DEF LedgerAgrees
      <3> QED BY <3>4, <3>5, <3>6, <1>7
    <2> QED BY <2>1, <2>2, <2>3, <1>3
  <1> QED
    BY <1>8, <1>12 DEF Ledger, LedgerAgreesWithStatus, FiledLeaseHasAttempts

\* Writing a result keeps the ledger of attempts.
LEMMA LedgerFinish ==
  ASSUME TypeOK, Ledger, NEW t \in tasks, Finish(t)
  PROVE  Ledger'
  <1> DEFINE outcome == FinalOutcome(t.disposition, t.number)
             c == t.delivery
             k == t.number
  <1>1. /\ c \in Delivery
        /\ k \in 1..MaxDeliveryAttempts
        /\ delivery[c].count = k
        /\ delivery[c].status = "processing"
        /\ attempt[c][k] = "none"
    BY DEF TypeOK, Task, Finish, HoldsDelivery, AttemptKeyFree
  <1>2. /\ delivery'[c].count = k
        /\ delivery'[c].status = StatusOf(outcome)
        /\ attempt'[c][k] = outcome
        /\ \A n \in 1..MaxDeliveryAttempts : n # k => attempt'[c][n] = attempt[c][n]
        /\ \A d \in Delivery : d # c => /\ delivery'[d] = delivery[d]
                                       /\ attempt'[d] = attempt[d]
    BY <1>1 DEF Finish, TypeOK, IdleDelivery
  <1>3. \/ outcome = "delivered" /\ StatusOf(outcome) = "delivered"
        \/ outcome = "retry" /\ StatusOf(outcome) = "pending"
        \/ outcome \in {"dead", "ambiguous"} /\ StatusOf(outcome) = "dead"
    BY DEF FinalOutcome, StatusOf
  <1>4. AttemptLedgerComplete'
    BY <1>1, <1>2, <1>3 DEF Ledger, AttemptLedgerComplete
  <1>5. LastOutcome(c)' = outcome
    BY <1>1, <1>2 DEF LastOutcome
  <1>6. \A d \in Delivery : d # c => LastOutcome(d)' = LastOutcome(d)
    BY <1>2 DEF LastOutcome
  <1>7. LedgerAgrees(c)'
    BY <1>2, <1>3, <1>5 DEF LedgerAgrees
  <1>8. \A d \in Delivery : d # c => LedgerAgrees(d)'
    BY <1>2, <1>6 DEF Ledger, LedgerAgreesWithStatus, LedgerAgrees
  <1>9. FiledLeaseHasAttempts'
    BY <1>2, <1>3, <1>6 DEF Ledger, FiledLeaseHasAttempts
  <1> QED BY <1>4, <1>7, <1>8, <1>9 DEF Ledger, LedgerAgreesWithStatus

\* Every step keeps the ledger of attempts.
LEMMA LedgerStep == TypeOK /\ Fence /\ Ledger /\ [Next]_vars => Ledger'
  <1> SUFFICES ASSUME TypeOK, Fence, Ledger, [Next]_vars PROVE Ledger'
    OBVIOUS
  <1>1. ASSUME NEW w \in Worker, Materialize(w) PROVE Ledger'
    <2>1. UNCHANGED attempt
      BY <1>1 DEF Materialize
    <2>2. ASSUME NEW d \in Delivery
          PROVE  /\ delivery'[d].count = delivery[d].count
                 /\ \/ delivery'[d] = delivery[d]
                    \/ /\ delivery[d].status = "absent"
                       /\ delivery'[d].status = "pending"
      BY <1>1 DEF Materialize, TypeOK, Fence, AbsentIsFresh, IdleDelivery
    <2>3. ASSUME NEW d \in Delivery PROVE LastOutcome(d)' = LastOutcome(d)
      BY <2>1, <2>2 DEF LastOutcome
    <2>4. AttemptLedgerComplete'
      BY <2>1, <2>2 DEF Ledger, AttemptLedgerComplete
    <2>5. LedgerAgreesWithStatus'
      BY <2>2, <2>3 DEF Ledger, LedgerAgreesWithStatus, LedgerAgrees
    <2>6. FiledLeaseHasAttempts'
      BY <2>2, <2>3 DEF Ledger, FiledLeaseHasAttempts
    <2> QED BY <2>4, <2>5, <2>6 DEF Ledger
  <1>2. ASSUME NEW c \in Delivery, DeliveryLeaseExpires(c) PROVE Ledger'
    <2>1. UNCHANGED attempt
      BY <1>2, ExpiryKeeps
    <2>2. ASSUME NEW d \in Delivery PROVE LastOutcome(d)' = LastOutcome(d)
      BY <1>2, <2>1, ExpiryKeeps DEF LastOutcome
    <2>3. AttemptLedgerComplete'
      BY <1>2, <2>1, ExpiryKeeps DEF Ledger, AttemptLedgerComplete
    <2>4. LedgerAgreesWithStatus'
      BY <1>2, <2>2, ExpiryKeeps DEF Ledger, LedgerAgreesWithStatus, LedgerAgrees
    <2>5. FiledLeaseHasAttempts'
      BY <1>2, <2>2, ExpiryKeeps DEF Ledger, FiledLeaseHasAttempts
    <2> QED BY <2>3, <2>4, <2>5 DEF Ledger
  <1>3. CASE RowsStill
    BY <1>3 DEF RowsStill, Ledger, AttemptLedgerComplete,
                LedgerAgreesWithStatus, LedgerAgrees, FiledLeaseHasAttempts,
                LastOutcome
  <1> QED
    BY <1>1, <1>2, <1>3, LedgerClaim, LedgerFinish, DeliverySteps DEF Fence

\* The ledger of attempts is sound in every reachable state.
LEMMA LedgerInvariant == Spec => [](TypeOK /\ Fence /\ Ledger)
  <1>1. Init => Ledger
    <2> SUFFICES ASSUME Init PROVE Ledger
      OBVIOUS
    <2>1. \A d \in Delivery : /\ delivery[d].status = "absent"
                             /\ delivery[d].count = 0
                             /\ LastOutcome(d) = "none"
      BY DEF Init, IdleDelivery, LastOutcome
    <2>2. AttemptLedgerComplete
      BY <2>1 DEF Init, AttemptLedgerComplete
    <2> QED
      BY <2>1, <2>2 DEF Ledger, LedgerAgreesWithStatus, LedgerAgrees,
                        FiledLeaseHasAttempts
  <1> QED
    BY <1>1, InitFence, FenceStep, LedgerStep, TypeCorrect, PTL DEF Spec

\* Every attempt that was claimed and is no longer leased is on file, once.
THEOREM LedgerComplete == Spec => []AttemptLedgerComplete
  <1>1. Ledger => AttemptLedgerComplete
    BY DEF Ledger
  <1> QED BY <1>1, LedgerInvariant, PTL

\* The ledger's last word on a delivery is the one its status tells.
THEOREM LedgerAgreement == Spec => []LedgerAgreesWithStatus
  <1>1. Ledger => LedgerAgreesWithStatus
    BY DEF Ledger
  <1> QED BY <1>1, LedgerInvariant, PTL

-----------------------------------------------------------------------------
(* Settled rows, and what settles with them.                               *)

\* The steps that move an event.
LEMMA EventSteps ==
  ASSUME TypeOK, [Next]_vars
  PROVE  \/ \E w \in Worker : ClaimEvents(w) \/ Materialize(w) \/ \E e \in Event : Release(w, e)
         \/ \E e \in Event : EventLeaseExpires(e)
         \/ event' = event
  <1>1. ASSUME NEW w \in Worker,
               \/ MaterializeFails(w) \/ ClaimDeliveries(w) \/ ClaimDeliveriesFails(w)
               \/ EndCycle(w) \/ StopCycle(w) \/ Shutdown(w) \/ Restart(w)
        PROVE  event' = event
    BY <1>1 DEF MaterializeFails, ClaimDeliveries, ClaimUnder, ClaimDeliveriesFails, EndCycle, StopCycle,
                Shutdown, Restart, rows
  <1>2. ASSUME NEW t \in tasks, TaskStep(t)
        PROVE  event' = event
    BY <1>2 DEF TaskStep, PreDispatchFails, Send, Answer, Timeout, ShutdownTask, Finish,
                FinishFails, rows
  <1>3. ASSUME NEW d \in Delivery, DeliveryLeaseExpires(d) \/ EndpointAccepts(d)
        PROVE  event' = event
    BY <1>3 DEF DeliveryLeaseExpires, EndpointAccepts, rows
  <1>4. CASE \E p \in Endpoint : ToggleEndpoint(p)
    BY <1>4 DEF ToggleEndpoint, rows
  <1> QED BY <1>1, <1>2, <1>3, <1>4 DEF Next, WorkerStep, vars

\* An event is delivered by its fan-out only.
LEMMA EventMoves ==
  ASSUME TypeOK, [Next]_vars, NEW e \in Event
  PROVE  /\ event[e].status \in {"delivered", "dead"} => event'[e] = event[e]
         /\ event'[e].status = "delivered" =>
              \/ event[e].status = "delivered"
              \/ \E w \in Worker : Materialize(w) /\ e \in batch[w] /\ Materialized(e).status = "delivered"
  <1>0. event[e] \in EventRow
    BY DEF TypeOK
  <1>1. ASSUME NEW w \in Worker, ClaimEvents(w)
        PROVE  /\ event[e].status \in {"delivered", "dead"} => event'[e] = event[e]
               /\ event'[e].status = "delivered" => event[e].status = "delivered"
    <2>1. \/ EventClaimable(e) /\ event'[e] = LeasedEvent(w, event[e].attempts + 1)
          \/ event'[e] = SweptEvent(e)
      BY <1>1 DEF ClaimEvents
    <2> QED BY <1>0, <2>1 DEF EventClaimable, EventExpired, LeasedEvent, SweptEvent, IdleEvent
  <1>2. ASSUME NEW w \in Worker, Materialize(w)
        PROVE  /\ event[e].status \in {"delivered", "dead"} => event'[e] = event[e]
               /\ event'[e].status = "delivered" =>
                    \/ event[e].status = "delivered"
                    \/ e \in batch[w] /\ Materialized(e).status = "delivered"
    <2>1. event'[e] = IF e \in batch[w] THEN Materialized(e) ELSE event[e]
      BY <1>2 DEF Materialize
    <2>2. e \in batch[w] => event[e].status = "processing"
      BY <1>2 DEF Materialize, HoldsEvent
    <2> QED BY <2>1, <2>2 DEF IdleEvent
  <1>3. ASSUME NEW w \in Worker, NEW x \in Event, Release(w, x)
        PROVE  /\ event[e].status \in {"delivered", "dead"} => event'[e] = event[e]
               /\ event'[e].status = "delivered" => event[e].status = "delivered"
    <2>1. \/ event' = event
          \/ HoldsEvent(w, x) /\ event' = [event EXCEPT ![x] = Refunded(x)]
      BY <1>3 DEF Release
    <2> QED BY <2>1 DEF TypeOK, HoldsEvent, Refunded, IdleEvent
  <1>4. ASSUME NEW x \in Event, EventLeaseExpires(x)
        PROVE  /\ event[e].status \in {"delivered", "dead"} => event'[e] = event[e]
               /\ event'[e].status = "delivered" => event[e].status = "delivered"
    BY <1>0, <1>4 DEF EventLeaseExpires, TypeOK, EventRow
  <1> QED BY <1>1, <1>2, <1>3, <1>4, EventSteps

\* A delivery never disappears, and stays as it ended.
LEMMA DeliveryMoves ==
  ASSUME TypeOK, [Next]_vars, NEW d \in Delivery
  PROVE  /\ delivery[d].status \in {"delivered", "dead", "cancelled"} => delivery'[d] = delivery[d]
         /\ delivery[d].status # "absent" => delivery'[d].status # "absent"
         /\ \A n \in 1..MaxDeliveryAttempts : attempt[d][n] # "none" => attempt'[d][n] = attempt[d][n]
  <1>0. delivery[d] \in DeliveryRow /\ attempt[d] \in [1..MaxDeliveryAttempts -> AttemptOutcome]
    BY DEF TypeOK
  <1>1. CASE \E w \in Worker : Materialize(w)
    <2>1. /\ delivery'[d] = delivery[d] \/ (delivery[d].status = "absent" /\ delivery'[d] = IdleDelivery("pending", 0, "none"))
          /\ attempt' = attempt
      BY <1>1 DEF Materialize
    <2> QED BY <2>1
  <1>2. ASSUME NEW w \in Worker, ClaimDeliveries(w)
        PROVE  /\ delivery[d].status \in {"delivered", "dead", "cancelled"} => delivery'[d] = delivery[d]
               /\ delivery[d].status # "absent" => delivery'[d].status # "absent"
               /\ \A n \in 1..MaxDeliveryAttempts : attempt[d][n] # "none" => attempt'[d][n] = attempt[d][n]
    <2>0. PICK cancelling \in [Endpoint -> BOOLEAN], claiming \in [Endpoint -> BOOLEAN],
               S \in SUBSET Delivery : Claimed(w, cancelling, claiming, S)
      BY <1>2, ClaimTakes
    <2>1. \/ /\ DeliveryClaimable(d, claiming)
             /\ delivery'[d] = LeasedDelivery(w, NextAttempt(d))
          \/ delivery'[d] = SweptDelivery(d, cancelling)
      BY <2>0 DEF Claimed
    <2>2. attempt'[d] = SweptAttempts(d)
      BY <2>0 DEF Claimed
    <2>3. \A n \in 1..MaxDeliveryAttempts : attempt[d][n] # "none" => attempt'[d][n] = attempt[d][n]
      BY <1>0, <2>2 DEF SweptAttempts
    <2> QED BY <2>1, <2>3 
           DEF DeliveryClaimable, Dropped, Expired, Exhausted, LeasedDelivery, SweptDelivery,
               IdleDelivery
  <1>3. ASSUME NEW t \in tasks, Finish(t)
        PROVE  /\ delivery[d].status \in {"delivered", "dead", "cancelled"} => delivery'[d] = delivery[d]
               /\ delivery[d].status # "absent" => delivery'[d].status # "absent"
               /\ \A n \in 1..MaxDeliveryAttempts : attempt[d][n] # "none" => attempt'[d][n] = attempt[d][n]
    <2>1. PICK status \in {"delivered", "pending", "dead"} : \E error :
            delivery' = [delivery EXCEPT ![t.delivery] = IdleDelivery(status, @.count, error)]
      BY <1>3 DEF Finish, StatusOf
    <2>2. delivery[t.delivery].status = "processing" /\ attempt[t.delivery][t.number] = "none"
      BY <1>3 DEF Finish, HoldsDelivery, AttemptKeyFree
    <2>3. PICK outcome : attempt' = [attempt EXCEPT ![t.delivery][t.number] = outcome]
      BY <1>3 DEF Finish
    <2>4. \A n \in 1..MaxDeliveryAttempts : attempt[d][n] # "none" => attempt'[d][n] = attempt[d][n]
      BY <1>0, <2>2, <2>3 DEF TypeOK
    <2>5. delivery'[d] = delivery[d] \/ (d = t.delivery /\ delivery'[d].status = status)
      BY <2>1 DEF TypeOK, IdleDelivery
    <2> QED BY <2>2, <2>4, <2>5
  <1>4. CASE \E x \in Delivery : DeliveryLeaseExpires(x)
    BY <1>0, <1>4 DEF DeliveryLeaseExpires, TypeOK, DeliveryRow
  <1>5. CASE RowsStill
    BY <1>5 DEF RowsStill
  <1> QED BY <1>1, <1>2, <1>3, <1>4, <1>5, DeliverySteps

\* Nothing reopens a row that is settled, and no attempt on file is rewritten:
\* not a sweep, not a late answer, not a worker that lost its lease.
THEOREM SettledIsFinal == Spec => SettledStays
  <1> DEFINE Stays ==
               /\ \A e \in Event : event[e].status \in {"delivered", "dead"} => event'[e] = event[e]
               /\ \A d \in Delivery :
                    delivery[d].status \in {"delivered", "dead", "cancelled"} => delivery'[d] = delivery[d]
               /\ \A d \in Delivery : \A n \in 1..MaxDeliveryAttempts :
                    attempt[d][n] # "none" => attempt'[d][n] = attempt[d][n]
  <1>1. TypeOK /\ [Next]_vars => [Stays]_vars
    BY EventMoves, DeliveryMoves
  <1> QED BY <1>1, TypeCorrect, PTL DEF Spec, SettledStays

\* Authentication mail that counts as delivered had an endpoint to go to: the
\* route read by materialize_deliveries_batch is the one its deliveries take.
THEOREM AuthIsSent == Spec => []AuthHasDelivery
  <1>1. Init => AuthHasDelivery
    BY OutboxAssumption DEF Init, IdleEvent, AuthHasDelivery
  <1>2. TypeOK /\ AuthHasDelivery /\ [Next]_vars => AuthHasDelivery'
    <2> SUFFICES ASSUME TypeOK, AuthHasDelivery, [Next]_vars, NEW e \in AuthEvent,
                        event'[e].status = "delivered"
                 PROVE  \E p \in Endpoint : delivery'[<<e, p>>].status # "absent"
      BY DEF AuthHasDelivery
    <2>0. e \in Event /\ \A p \in Endpoint : <<e, p>> \in Delivery
      BY OutboxAssumption DEF Delivery
    <2>1. CASE event[e].status = "delivered"
      <3>1. PICK p \in Endpoint : delivery[<<e, p>>].status # "absent"
        BY <2>1 DEF AuthHasDelivery
      <3> QED BY <2>0, <3>1, DeliveryMoves
    <2>2. ASSUME NEW w \in Worker, Materialize(w), e \in batch[w], Materialized(e).status = "delivered"
          PROVE  \E p \in Endpoint : delivery'[<<e, p>>].status # "absent"
      <3>1. PICK p \in Endpoint : Route(<<e, p>>)
        BY <2>2 DEF Materialized, IdleEvent, HasRoute
      <3>2. delivery'[<<e, p>>] = IF delivery[<<e, p>>].status = "absent"
                                 THEN IdleDelivery("pending", 0, "none") ELSE delivery[<<e, p>>]
        BY <2>0, <2>2, <3>1 DEF Materialize
      <3> QED BY <3>2 DEF IdleDelivery
    <2> QED BY <2>0, <2>1, <2>2, EventMoves
  <1> QED BY <1>1, <1>2, TypeCorrect, PTL DEF Spec

\* The deliveries that ended without an answer to their last attempt.
Lost(d) == delivery[d].status = "dead" /\ delivery[d].error = "lost"

LinkSound ==
  \A a \in Action :
    action[a] = "unknown" <=> \E d \in Delivery : Concerns(d, a) /\ Lost(d)

\* finish_delivery never commits a lost last attempt: the row's CHECK refuses it.
LEMMA FinishLosesNothing ==
  ASSUME TypeOK, NEW t \in tasks, Finish(t)
  PROVE  action' = action /\ \A d \in Delivery : Lost(d)' <=> Lost(d)
  <1> DEFINE outcome == FinalOutcome(t.disposition, t.number)
  <1>1. outcome # "ambiguous"
    BY DEF Finish, DeadAtCheck, StatusOf
  <1>2. action' = action
    <2>1. action' = [a \in Action |-> action[a]]
      BY <1>1 DEF Finish
    <2> QED BY <2>1 DEF TypeOK
  <1>3. t.disposition = "ambiguous" => outcome = "retry"
    BY <1>1 DEF FinalOutcome
  <1>4. StatusOf(outcome) = "dead" => ErrorOf(t.disposition) # "lost"
    <2>1. t.disposition = "ambiguous" => StatusOf(outcome) = "pending"
      BY <1>3 DEF StatusOf
    <2> QED BY <2>1 DEF ErrorOf
  <1>5. PICK status, error :
          /\ delivery' = [delivery EXCEPT ![t.delivery] = IdleDelivery(status, @.count, error)]
          /\ status = "dead" => error # "lost"
    BY <1>4 DEF Finish
  <1>6. delivery[t.delivery].status = "processing"
    BY DEF Finish, HoldsDelivery
  <1> QED BY <1>2, <1>5, <1>6 DEF Lost, IdleDelivery, TypeOK

\* What one claim makes of the deliveries and of the actions behind them: both
\* are written from the same row, whatever the operator does meanwhile.
ClaimWith(cancelling) ==
  /\ \A d \in Delivery : Lost(d)' <=> Lost(d) \/ Exhausted(d, cancelling)
  /\ \A a \in Action : action'[a] = SweptAction(a, cancelling)

\* The sweep buries the exhausted leases and moves the actions behind them.
LEMMA ClaimLoses ==
  ASSUME TypeOK, NEW w \in Worker, ClaimDeliveries(w)
  PROVE  \E cancelling \in [Endpoint -> BOOLEAN] : ClaimWith(cancelling)
  <1>0. PICK cancelling \in [Endpoint -> BOOLEAN], claiming \in [Endpoint -> BOOLEAN],
             S \in SUBSET Delivery : Claimed(w, cancelling, claiming, S)
    BY ClaimTakes
  <1>1. /\ \A d \in S : DeliveryClaimable(d, claiming) /\ ~Dropped(d, cancelling)
        /\ delivery' = [d \in Delivery |->
                          IF d \in S THEN LeasedDelivery(w, NextAttempt(d))
                                     ELSE SweptDelivery(d, cancelling)]
        /\ action' = [a \in Action |-> SweptAction(a, cancelling)]
    BY <1>0 DEF Claimed
  <1>2. ASSUME NEW d \in Delivery
        PROVE  Lost(d)' <=> Lost(d) \/ Exhausted(d, cancelling)
    <2>0. delivery[d] \in DeliveryRow /\ MaxDeliveryAttempts \in Nat
      BY OutboxAssumption DEF TypeOK
    <2>1. CASE d \in S
      <3>1. delivery'[d].status = "processing"
        BY <1>1, <2>1 DEF LeasedDelivery
      <3>2. delivery[d].status # "dead" /\ ~Exhausted(d, cancelling)
        BY <1>1, <2>0, <2>1 DEF DeliveryClaimable, Exhausted, Expired, DeliveryRow
      <3> QED BY <3>1, <3>2 DEF Lost
    <2>2. CASE d \notin S
      <3>1. delivery'[d] = SweptDelivery(d, cancelling)
        BY <1>1, <2>2
      <3> QED BY <3>1 DEF SweptDelivery, IdleDelivery, Lost, Dropped, Exhausted, Expired
    <2> QED BY <2>1, <2>2
  <1>3. \A a \in Action : action'[a] = SweptAction(a, cancelling)
    BY <1>1
  <1> QED BY <1>2, <1>3 DEF ClaimWith

\* An action is unknown exactly when an answer to a last attempt was lost, over
\* all deliveries of all its events.
THEOREM UnknownIsLost == Spec => []UnknownMatchesLostAnswers
  <1>1. ASSUME Init PROVE LinkSound
    <2>1. \A d \in Delivery : ~Lost(d)
      BY <1>1 DEF Init, IdleDelivery, Lost
    <2>2. \A a \in Action : action[a] = "succeeded"
      BY <1>1 DEF Init
    <2> QED BY <2>1, <2>2 DEF LinkSound
  <1>2. TypeOK /\ LinkSound /\ [Next]_vars => LinkSound'
    <2> SUFFICES ASSUME TypeOK, LinkSound, [Next]_vars PROVE LinkSound'
      OBVIOUS
    <2>0. \A a \in Action : action[a] \in {"succeeded", "unknown"}
      BY DEF TypeOK, ActionStatus
    <2>1. ASSUME NEW w \in Worker, ClaimDeliveries(w)
          PROVE  LinkSound'
      <3>1. PICK cancelling \in [Endpoint -> BOOLEAN] : ClaimWith(cancelling)
        BY <2>1, ClaimLoses
      <3> SUFFICES ASSUME NEW a \in Action
                   PROVE  action'[a] = "unknown"
                            <=> \E d \in Delivery : Concerns(d, a) /\ Lost(d)'
        BY DEF LinkSound, Concerns
      <3>2. action'[a] = "unknown" <=>
              \/ action[a] = "unknown"
              \/ \E d \in Delivery : Concerns(d, a) /\ Exhausted(d, cancelling)
        BY <2>0, <3>1 DEF ClaimWith, SweptAction
      <3>3. \A d \in Delivery : Lost(d)' <=> Lost(d) \/ Exhausted(d, cancelling)
        BY <3>1 DEF ClaimWith
      <3> QED BY <3>2, <3>3 DEF LinkSound
    <2>2. CASE action' = action /\ \A d \in Delivery : Lost(d)' <=> Lost(d)
      BY <2>2 DEF LinkSound, Concerns
    <2>3. ASSUME NEW w \in Worker, Materialize(w)
          PROVE  action' = action /\ \A d \in Delivery : Lost(d)' <=> Lost(d)
      BY <2>3 DEF Materialize, Lost, IdleDelivery
    <2>4. ASSUME NEW d \in Delivery, DeliveryLeaseExpires(d)
          PROVE  action' = action /\ \A x \in Delivery : Lost(x)' <=> Lost(x)
      BY <2>4 DEF DeliveryLeaseExpires, Lost, TypeOK, DeliveryRow
    <2>5. CASE RowsStill
      BY <2>2, <2>5 DEF RowsStill, Lost
    <2> QED BY <2>1, <2>2, <2>3, <2>4, <2>5, DeliverySteps, FinishLosesNothing
  <1>3. LinkSound => UnknownMatchesLostAnswers
    BY DEF LinkSound, UnknownMatchesLostAnswers, Lost
  <1> QED BY <1>1, <1>2, <1>3, TypeCorrect, PTL DEF Spec
=============================================================================
