------------------------ MODULE OutboxPromiseProofs ------------------------
(***************************************************************************)
(* Proof that the outbox keeps the promise of AtLeastOnce: what it calls   *)
(* delivered was carried out by the endpoint; and that Receipts takes it   *)
(* for what it is.                                                         *)
(***************************************************************************)
EXTENDS OutboxProofs, OutboxView

-----------------------------------------------------------------------------
(* What the network may have done.  'delivered' is evidence only because a *)
(* task resolves as delivered no earlier than its request was carried out, *)
(* and because a request on the wire belongs to a claimed attempt.         *)

ResolvedWasReceived ==
  \A t \in tasks :
    t.disposition = "delivered" => t.number \in received[t.delivery]

WireWasClaimed ==
  \A d \in Delivery : \A n \in wire[d] : n <= delivery[d].count

Evidence ==
  /\ DeliveredWasReceived
  /\ ResolvedWasReceived
  /\ WireWasClaimed

\* What the endpoint carried out is never forgotten, and only a task puts a
\* request on the wire.
LEMMA NetSteps ==
  ASSUME TypeOK, [Next]_vars, NEW d \in Delivery
  PROVE  /\ received[d] \subseteq received'[d]
         /\ \A n \in wire'[d] :
              n \in wire[d] \/ \E t \in tasks : t.delivery = d /\ t.number = n
  <1> DEFINE Goal ==
        /\ received[d] \subseteq received'[d]
        /\ \A n \in wire'[d] :
             n \in wire[d] \/ \E t \in tasks : t.delivery = d /\ t.number = n
  <1> SUFFICES Goal
    OBVIOUS
  <1>1. CASE UNCHANGED net
    BY <1>1 DEF net
  <1>2. ASSUME NEW w \in Worker, WorkerStep(w) \/ Shutdown(w) \/ Restart(w)
        PROVE  UNCHANGED net
    BY <1>2 DEF WorkerStep, ClaimEvents, Materialize, MaterializeFails, Release,
                ClaimDeliveries, ClaimUnder, ClaimDeliveriesFails, EndCycle, StopCycle,
                Shutdown, Restart
  <1>3. ASSUME NEW t \in tasks, TaskStep(t) PROVE Goal
    <2>1. t.delivery \in Delivery /\ t.number \in 1..MaxDeliveryAttempts
      BY DEF TypeOK, Task
    <2>2. CASE Send(t)
      <3>1. received'[d] = received[d]
        BY <2>2 DEF Send
      <3>2. wire'[d] \subseteq wire[d]
               \cup (IF t.delivery = d THEN {t.number} ELSE {})
        BY <2>1, <2>2 DEF Send, TypeOK
      <3> QED BY <3>1, <3>2
    <2>3. CASE Answer(t)
      BY <2>1, <2>3 DEF Answer, TypeOK
    <2>4. CASE \/ PreDispatchFails(t) \/ Timeout(t) \/ ShutdownTask(t)
               \/ Finish(t) \/ FinishFails(t)
      BY <2>4, <1>1 DEF PreDispatchFails, Timeout, ShutdownTask, Finish,
                        FinishFails
    <2> QED BY <1>3, <2>2, <2>3, <2>4 DEF TaskStep
  <1>4. ASSUME NEW c \in Delivery, EndpointAccepts(c) PROVE Goal
    BY <1>4 DEF EndpointAccepts, TypeOK
  <1>5. ASSUME NEW e \in Event, EventLeaseExpires(e) PROVE UNCHANGED net
    BY <1>5 DEF EventLeaseExpires
  <1>6. ASSUME NEW c \in Delivery, DeliveryLeaseExpires(c) PROVE UNCHANGED net
    BY <1>6 DEF DeliveryLeaseExpires
  <1>7. ASSUME NEW p \in Endpoint, ToggleEndpoint(p) PROVE UNCHANGED net
    BY <1>7 DEF ToggleEndpoint
  <1>8. CASE UNCHANGED vars
    BY <1>1, <1>8 DEF vars, net
  <1> QED
    BY <1>1, <1>2, <1>3, <1>4, <1>5, <1>6, <1>7, <1>8 DEF Next

\* How one step may move one delivery row.
RowMoves(d) ==
  /\ delivery[d].count <= delivery'[d].count
  /\ \/ /\ StateOf(d)' = StateOf(d)
        /\ delivery'[d].status = "delivered" =>
             delivery'[d].count = delivery[d].count
     \/ StateOf(d) = "none" /\ StateOf(d)' = "open"
     \/ StateOf(d) = "open" /\ StateOf(d)' \in {"dead", "cancelled"}
     \/ /\ StateOf(d) = "open" /\ StateOf(d)' = "delivered"
        /\ delivery'[d].count \in received[d]

\* What one step can do to one delivery.
LEMMA RowSteps ==
  ASSUME TypeOK, Fence, Evidence, [Next]_vars, NEW d \in Delivery
  PROVE  RowMoves(d)
  <1>1. delivery[d].count \in Nat /\ delivery[d].status \in DeliveryStatus
    BY DEF TypeOK, DeliveryRow
  <1>2. ASSUME NEW w \in Worker, Materialize(w) PROVE RowMoves(d)
    <2>1. \/ delivery'[d] = delivery[d]
          \/ /\ delivery[d].status = "absent" /\ delivery[d].count = 0
             /\ delivery'[d].status = "pending" /\ delivery'[d].count = 0
      BY <1>2 DEF Materialize, Fence, AbsentIsFresh, IdleDelivery
    <2> QED BY <1>1, <2>1 DEF RowMoves, StateOf
  <1>3. ASSUME NEW w \in Worker, ClaimDeliveries(w) PROVE RowMoves(d)
    <2>0. PICK cancelling \in [Endpoint -> BOOLEAN], claiming \in [Endpoint -> BOOLEAN],
               S \in SUBSET Delivery : Claimed(w, cancelling, claiming, S)
      BY <1>3, ClaimTakes
    <2>1. /\ \A c \in S : DeliveryClaimable(c, claiming)
          /\ delivery' = [c \in Delivery |->
                            IF c \in S THEN LeasedDelivery(w, NextAttempt(c))
                                       ELSE SweptDelivery(c, cancelling)]
      BY <2>0 DEF Claimed
    <2>2. CASE d \in S
      <3>1. /\ delivery'[d].status = "processing"
            /\ delivery'[d].count = delivery[d].count + 1
            /\ delivery[d].status \in {"pending", "processing"}
        BY <2>1, <2>2 DEF LeasedDelivery, NextAttempt, DeliveryClaimable, Expired
      <3> QED BY <1>1, <3>1 DEF RowMoves, StateOf
    <2>3. CASE d \notin S
      <3> DEFINE row == SweptDelivery(d, cancelling)
      <3>1. delivery'[d] = row
        BY <2>1, <2>3
      <3>2. /\ row.count = delivery[d].count
            /\ \/ row = delivery[d]
               \/ /\ row.status \in {"cancelled", "dead"}
                  /\ delivery[d].status \in {"pending", "processing"}
        BY DEF SweptDelivery, IdleDelivery, Dropped, Expired, Exhausted
      <3> QED BY <1>1, <3>1, <3>2 DEF RowMoves, StateOf
    <2> QED BY <2>2, <2>3
  <1>4. ASSUME NEW t \in tasks, Finish(t) PROVE RowMoves(d)
    <2> DEFINE outcome == FinalOutcome(t.disposition, t.number)
    <2>1. t.delivery \in Delivery
      BY DEF TypeOK, Task
    <2>2. CASE d # t.delivery
      <3>1. delivery'[d] = delivery[d]
        BY <1>4, <2>2 DEF Finish, TypeOK
      <3> QED BY <1>1, <3>1 DEF RowMoves, StateOf
    <2>3. CASE d = t.delivery
      <3>1. /\ delivery[d].status = "processing"
            /\ delivery[d].count = t.number
            /\ delivery'[d].count = t.number
            /\ delivery'[d].status = StatusOf(outcome)
        BY <1>4, <2>1, <2>3 DEF Finish, HoldsDelivery, TypeOK, IdleDelivery
      <3>2. StatusOf(outcome) = "delivered" => t.disposition = "delivered"
        BY DEF StatusOf, FinalOutcome
      <3>3. t.disposition = "delivered" => t.number \in received[d]
        BY <2>3 DEF Evidence, ResolvedWasReceived
      <3> QED
        BY <1>1, <3>1, <3>2, <3>3, StatusOfType DEF RowMoves, StateOf
    <2> QED BY <2>2, <2>3
  <1>5. ASSUME NEW c \in Delivery, DeliveryLeaseExpires(c) PROVE RowMoves(d)
    BY <1>1, <1>5, ExpiryKeeps DEF RowMoves, StateOf
  <1>6. CASE RowsStill
    BY <1>1, <1>6 DEF RowsStill, RowMoves, StateOf
  <1> QED BY <1>2, <1>3, <1>4, <1>5, <1>6, DeliverySteps

\* A task resolved as delivered was received.
LEMMA TasksResolved ==
  ASSUME TypeOK, Evidence, [Next]_vars
  PROVE  ResolvedWasReceived'
  <1>1. \A t \in tasks : t.delivery \in Delivery /\ t.number \in 1..MaxDeliveryAttempts
    BY DEF TypeOK, Task
  <1>2. \A d \in Delivery : received[d] \subseteq received'[d]
    BY NetSteps
  <1>3. CASE tasks' \subseteq tasks
    BY <1>1, <1>2, <1>3 DEF Evidence, ResolvedWasReceived
  <1>4. CASE TaskMoves
    BY <1>1, <1>2, <1>4
       DEF TaskMoves, SameClaim, Evidence, ResolvedWasReceived
  <1>5. ASSUME NEW w \in Worker, ClaimDeliveries(w) PROVE ResolvedWasReceived'
    <2>0. PICK cancelling \in [Endpoint -> BOOLEAN], claiming \in [Endpoint -> BOOLEAN],
               S \in SUBSET Delivery : Claimed(w, cancelling, claiming, S)
      BY <1>5, ClaimTakes
    <2>1. \/ tasks' = tasks \cup {NewTask(w, d) : d \in S}
          \/ UNCHANGED tasks
      BY <2>0 DEF Claimed
    <2>2. \A d \in S : NewTask(w, d).disposition = "pending"
      BY DEF NewTask
    <2> QED
      BY <1>1, <1>2, <2>1, <2>2 DEF Evidence, ResolvedWasReceived
  <1>6. ASSUME NEW w \in Worker, Materialize(w) PROVE tasks' \subseteq tasks
    BY <1>6 DEF Materialize
  <1>7. ASSUME NEW t \in tasks, Finish(t) PROVE tasks' \subseteq tasks
    BY <1>7 DEF Finish
  <1>8. ASSUME NEW c \in Delivery, DeliveryLeaseExpires(c)
        PROVE  tasks' \subseteq tasks
    BY <1>8, ExpiryKeeps
  <1> QED
    BY <1>3, <1>4, <1>5, <1>6, <1>7, <1>8, DeliverySteps DEF RowsStill

\* Every step preserves the evidence.
LEMMA EvidenceStep == TypeOK /\ Fence /\ Evidence /\ [Next]_vars => Evidence'
  <1> SUFFICES ASSUME TypeOK, Fence, Evidence, [Next]_vars PROVE Evidence'
    OBVIOUS
  <1>1. ASSUME NEW d \in Delivery
        PROVE  /\ delivery[d].count \in Nat
               /\ delivery'[d].count \in Nat
               /\ delivery[d].count <= delivery'[d].count
               /\ wire'[d] \subseteq Nat
    <2>1. TypeOK'
      BY NextType
    <2> QED BY <2>1, RowSteps DEF TypeOK, DeliveryRow, RowMoves
  <1>2. ASSUME NEW d \in Delivery, delivery'[d].status = "delivered"
        PROVE  delivery'[d].count \in received'[d]
    <2>1. delivery[d].status \in DeliveryStatus
      BY DEF TypeOK, DeliveryRow
    <2>2. received[d] \subseteq received'[d]
      BY NetSteps
    <2>3. StateOf(d)' = "delivered"
      BY <1>2 DEF StateOf
    <2>4. StateOf(d) = "delivered" => delivery[d].status = "delivered"
      BY <2>1 DEF StateOf, DeliveryStatus
    <2> QED
      BY <1>2, <2>2, <2>3, <2>4, RowSteps
         DEF RowMoves, Evidence, DeliveredWasReceived
  <1>3. ASSUME NEW d \in Delivery, NEW n \in wire'[d]
        PROVE  n <= delivery'[d].count
    <2>1. n \in wire[d] \/ \E t \in tasks : t.delivery = d /\ t.number = n
      BY <1>3, NetSteps
    <2>2. n <= delivery[d].count
      BY <2>1 DEF Evidence, WireWasClaimed, Fence, SingleDispatcher
    <2> QED BY <2>2, <1>1
  <1> QED
    BY <1>2, <1>3, TasksResolved
       DEF Evidence, DeliveredWasReceived, WireWasClaimed

\* The evidence holds in every reachable state.
LEMMA EvidenceInvariant == Spec => [](TypeOK /\ Fence /\ Evidence)
  <1>1. Init => Evidence
    BY DEF Init, Evidence, DeliveredWasReceived, ResolvedWasReceived,
           WireWasClaimed, IdleDelivery
  <1> QED
    BY <1>1, InitFence, FenceStep, EvidenceStep, TypeCorrect, PTL DEF Spec

\* 'delivered' is never wrong: the endpoint carried out the attempt that the
\* row counts last, whoever finished it and however late.
THEOREM DeliveredIsTrue == Spec => []DeliveredWasReceived
  <1>1. Evidence => DeliveredWasReceived
    BY DEF Evidence
  <1> QED BY <1>1, EvidenceInvariant, PTL

-----------------------------------------------------------------------------
(* The refinement.                                                         *)

\* Only an endpoint carries a request out.
LEMMA ReceivedSteps ==
  ASSUME TypeOK, [Next]_vars
  PROVE  UNCHANGED received \/ \E c \in Delivery : EndpointAccepts(c)
  <1>1. ASSUME NEW w \in Worker, WorkerStep(w) \/ Shutdown(w) \/ Restart(w)
        PROVE  UNCHANGED received
    BY <1>1 DEF WorkerStep, ClaimEvents, Materialize, MaterializeFails,
                Release, ClaimDeliveries, ClaimUnder, ClaimDeliveriesFails, EndCycle,
                StopCycle, Shutdown, Restart, net
  <1>2. ASSUME NEW t \in tasks, TaskStep(t) PROVE UNCHANGED received
    BY <1>2 DEF TaskStep, PreDispatchFails, Send, Answer, Timeout,
                ShutdownTask, Finish, FinishFails, net
  <1>3. ASSUME NEW e \in Event, EventLeaseExpires(e) PROVE UNCHANGED received
    BY <1>3 DEF EventLeaseExpires, net
  <1>4. ASSUME NEW p \in Endpoint, ToggleEndpoint(p) PROVE UNCHANGED received
    BY <1>4 DEF ToggleEndpoint, net
  <1>5. ASSUME NEW d \in Delivery, DeliveryLeaseExpires(d)
        PROVE  UNCHANGED received
    BY <1>5, ExpiryKeeps
  <1> QED BY <1>1, <1>2, <1>3, <1>4, <1>5 DEF Next, vars

\* Every step of the outbox is a step of AtLeastOnce, or none.
LEMMA PromiseStep ==
  TypeOK /\ Fence /\ Evidence /\ [Next]_vars
    => [Promise!Next]_<<[d \in Delivery |-> StateOf(d)],
                        [d \in Delivery |-> received[d] # {}]>>
  <1> SUFFICES ASSUME TypeOK, Fence, Evidence, [Next]_vars
               PROVE  [Promise!Next]_<<[d \in Delivery |-> StateOf(d)],
                                       [d \in Delivery |-> received[d] # {}]>>
    OBVIOUS
  <1>1. CASE UNCHANGED received
    <2>1. TypeOK'
      BY NextType
    <2>2. \A d \in Delivery : StateOf(d)' \in Promise!State
      BY <2>1 DEF TypeOK, DeliveryRow, DeliveryStatus, StateOf, Promise!State
    <2>3. \A d \in Delivery :
            \/ StateOf(d)' = StateOf(d)
            \/ StateOf(d) = "none" /\ StateOf(d)' = "open"
            \/ StateOf(d) = "open" /\ StateOf(d)' \in {"dead", "cancelled"}
            \/ StateOf(d) = "open" /\ received[d] # {} /\ StateOf(d)' = "delivered"
      BY RowSteps DEF RowMoves
    <2>4. Promise!Advance
      BY <1>1, <2>2, <2>3 DEF Promise!Advance, Promise!Moves
    <2> QED BY <2>4 DEF Promise!Next
  <1>2. CASE \E c \in Delivery : EndpointAccepts(c)
    <2>1. PICK c \in Delivery : EndpointAccepts(c)
      BY <1>2
    <2>2. PICK n \in wire[c] :
            received' = [received EXCEPT ![c] = @ \cup {n}]
      BY <2>1 DEF EndpointAccepts
    <2>3. delivery[c].status # "absent"
      <3>1. n <= delivery[c].count /\ n \in 1..MaxDeliveryAttempts
        BY <2>2 DEF Evidence, WireWasClaimed, TypeOK
      <3> QED BY <3>1 DEF Fence, AbsentIsFresh
    <2>4. StateOf(c) # "none"
      BY <2>3 DEF StateOf, TypeOK, DeliveryRow, DeliveryStatus
    <2>5. UNCHANGED [d \in Delivery |-> StateOf(d)]
      BY <2>1 DEF EndpointAccepts, rows, StateOf
    <2>6. [d \in Delivery |-> received[d] # {}]'
            = [[d \in Delivery |-> received[d] # {}] EXCEPT ![c] = TRUE]
      BY <2>2 DEF TypeOK
    <2>7. Promise!CarryOut(c)
      BY <2>4, <2>5, <2>6 DEF Promise!CarryOut
    <2> QED BY <2>7 DEF Promise!Next
  <1> QED BY <1>1, <1>2, ReceivedSteps

\* The outbox implements AtLeastOnce, whatever the number of events,
\* endpoints, workers and attempts.
THEOREM PromiseKept == Spec => KeepsPromise
  <1>1. Init => Promise!Init
    <2> SUFFICES ASSUME Init PROVE Promise!Init
      OBVIOUS
    <2>1. \A d \in Delivery : StateOf(d) = "none" /\ received[d] = {}
      BY DEF Init, IdleDelivery, StateOf
    <2>2. [d \in Delivery |-> received[d] # {}] = [d \in Delivery |-> FALSE]
      BY <2>1
    <2> QED BY <2>1, <2>2 DEF Promise!Init
  <1> QED
    BY <1>1, PromiseStep, EvidenceInvariant, PTL
       DEF Spec, KeepsPromise, Promise!Spec

-----------------------------------------------------------------------------
(* What Receipts sees of the outbox.                                       *)

\* Only the fan-out opens deliveries.
Unfanned ==
  \A d \in Delivery : event[d[1]].status # "delivered" => delivery[d].status = "absent"

\* A claim, a sweep, a late answer or a release opens none.
LEMMA UnfannedStep == TypeOK /\ Unfanned /\ [Next]_vars => Unfanned'
  <1> SUFFICES ASSUME TypeOK, Unfanned, [Next]_vars,
                      NEW d \in Delivery, event'[d[1]].status # "delivered"
               PROVE  delivery'[d].status = "absent"
    BY DEF Unfanned
  <1>0. d[1] \in Event /\ d[2] \in Endpoint /\ d = <<d[1], d[2]>>
    BY DEF Delivery
  <1>1. delivery[d].status = "absent"
    BY <1>0, EventMoves DEF Unfanned
  <1>2. ASSUME NEW w \in Worker, Materialize(w)
        PROVE  delivery'[d] = delivery[d]
    <2>1. SUFFICES ASSUME d[1] \in batch[w], Route(d) PROVE FALSE
      BY <1>2 DEF Materialize
    <2>2. Materialized(d[1]).status = "delivered"
      BY <1>0, <2>1 DEF Materialized, IdleEvent, HasRoute
    <2>3. event'[d[1]] = Materialized(d[1])
      BY <1>0, <1>2, <2>1 DEF Materialize
    <2> QED BY <2>2, <2>3
  <1>3. ASSUME NEW w \in Worker, ClaimDeliveries(w)
        PROVE  delivery'[d] = delivery[d]
    <2>1. \A view : ~Dropped(d, view) /\ ~Exhausted(d, view) /\ ~DeliveryClaimable(d, view)
      BY <1>1 DEF Dropped, Expired, Exhausted, DeliveryClaimable
    <2>2. PICK cancelling \in [Endpoint -> BOOLEAN], claiming \in [Endpoint -> BOOLEAN],
               S \in SUBSET Delivery : Claimed(w, cancelling, claiming, S)
      BY <1>3, ClaimTakes
    <2>3. d \notin S /\ delivery'[d] = SweptDelivery(d, cancelling)
      BY <2>1, <2>2 DEF Claimed
    <2> QED BY <2>1, <2>3 DEF SweptDelivery
  <1>4. ASSUME NEW t \in tasks, Finish(t)
        PROVE  delivery'[d] = delivery[d]
    BY <1>1, <1>4 DEF Finish, HoldsDelivery, TypeOK
  <1>5. ASSUME NEW c \in Delivery, DeliveryLeaseExpires(c)
        PROVE  delivery'[d].status = delivery[d].status
    BY <1>5, ExpiryKeeps
  <1> QED BY <1>1, <1>2, <1>3, <1>4, <1>5, DeliverySteps DEF RowsStill

\* How one step may move a delivery, as Receipts sees it.
ViewMoves(d) ==
  \/ ViewedStatus(delivery[d])' = ViewedStatus(delivery[d])
  \/ /\ ViewedStatus(delivery[d]) = "pending"
     /\ ViewedStatus(delivery[d])' \in {"rejected", "lost", "cancelled"}
          \cup IF received[d] # {} THEN {"delivered"} ELSE {}

\* Sweeps and answers end a delivery once, as delivered only if it arrived.
LEMMA ViewRows ==
  ASSUME TypeOK, Fence, Evidence, [Next]_vars, NEW d \in Delivery,
         \A w \in Worker : ~Materialize(w)
  PROVE  ViewMoves(d)
  <1>0. /\ delivery[d].status \in DeliveryStatus /\ delivery'[d].status \in DeliveryStatus
    <2>1. TypeOK'
      BY NextType
    <2> QED BY <2>1 DEF TypeOK, DeliveryRow
  <1>1. ASSUME NEW w \in Worker, ClaimDeliveries(w)
        PROVE  ViewMoves(d)
    <2>1. ASSUME NEW claiming, DeliveryClaimable(d, claiming),
                 delivery'[d] = LeasedDelivery(w, NextAttempt(d))
          PROVE  ViewMoves(d)
      BY <2>1 DEF DeliveryClaimable, Expired, LeasedDelivery, ViewedStatus, ViewMoves
    <2>2. ASSUME NEW cancelling, delivery'[d] = SweptDelivery(d, cancelling)
          PROVE  ViewMoves(d)
      BY <2>2 DEF SweptDelivery, IdleDelivery, Dropped, Expired, Exhausted, ViewedStatus, ViewMoves
    <2>3. PICK cancelling \in [Endpoint -> BOOLEAN], claiming \in [Endpoint -> BOOLEAN],
               S \in SUBSET Delivery : Claimed(w, cancelling, claiming, S)
      BY <1>1, ClaimTakes
    <2>4. \/ /\ DeliveryClaimable(d, claiming)
             /\ delivery'[d] = LeasedDelivery(w, NextAttempt(d))
          \/ delivery'[d] = SweptDelivery(d, cancelling)
      BY <2>3 DEF Claimed
    <2> QED BY <2>1, <2>2, <2>4
  <1>2. ASSUME NEW t \in tasks, Finish(t)
        PROVE  ViewMoves(d)
    <2>1. CASE d # t.delivery
      BY <1>2, <2>1 DEF Finish, TypeOK, ViewMoves
    <2>2. CASE d = t.delivery
      <3>1. delivery[d].status = "processing"
        BY <1>2, <2>2 DEF Finish, HoldsDelivery
      <3>2. delivery'[d].status \in {"delivered", "pending", "dead"}
        BY <1>2, <2>2 DEF Finish, IdleDelivery, StatusOf, TypeOK
      <3>3. delivery'[d].status = "delivered" => received[d] # {}
        BY <3>1, RowSteps DEF RowMoves, StateOf
      <3> QED BY <3>1, <3>2, <3>3 DEF ViewedStatus, ViewMoves
    <2> QED BY <2>1, <2>2
  <1>3. ASSUME NEW c \in Delivery, DeliveryLeaseExpires(c)
        PROVE  ViewMoves(d)
    BY <1>3, ExpiryKeeps DEF ViewedStatus, ViewMoves
  <1>4. CASE RowsStill
    BY <1>4 DEF RowsStill, ViewMoves
  <1> QED BY <1>1, <1>2, <1>3, <1>4, DeliverySteps

\* Nothing opens a delivery but the fan-out of its event.
LEMMA ViewInvariant == Spec => [](TypeOK /\ Fence /\ Evidence /\ Unfanned)
  <1>1. Init => Unfanned
    BY DEF Init, IdleDelivery, Unfanned
  <1> QED BY <1>1, UnfannedStep, EvidenceInvariant, PTL DEF Spec

\* What one action sees of its deliveries and of the endpoints they reached.
Seen(e) == [p \in Endpoint |-> ViewedStatus(delivery[<<e, p>>])]

Reached(e) == {p \in Endpoint : received[<<e, p>>] # {}}

\* What a step that neither fans out nor buries may do to an action.
Settling(e) ==
  \/ action'[ActionOf[e]] = action[ActionOf[e]]
  \/ action[ActionOf[e]] = "succeeded" /\ action'[ActionOf[e]] = "unknown"

\* A step that changes nothing of what the action sees.
LEMMA ViewStill ==
  ASSUME NEW e \in Dispatched, action'[ActionOf[e]] = action[ActionOf[e]],
         ViewedEvent(event[e])' = ViewedEvent(event[e]),
         Seen(e)' = Seen(e), Reached(e)' = Reached(e)
  PROVE  UNCHANGED View(e)!vars
  BY DEF View!vars, Seen, Reached

\* The fan-out of a linked event opens deliveries, and does nothing else.
LEMMA ViewFansOut ==
  ASSUME TypeOK, Unfanned, NEW e \in Dispatched, NEW w \in Worker, Materialize(w)
  PROVE  [View(e)!Next]_(View(e)!vars)
  <1>0. e \in Event /\ \A p \in Endpoint : <<e, p>> \in Delivery
    BY OutboxAssumption DEF Dispatched, Delivery
  <1>1. action' = action /\ Reached(e)' = Reached(e)
    BY DEF Materialize, net, Reached
  <1>2. CASE e \notin batch[w]
    <2>1. event'[e] = event[e] /\ \A p \in Endpoint : delivery'[<<e, p>>] = delivery[<<e, p>>]
      BY <1>0, <1>2 DEF Materialize
    <2>2. ViewedEvent(event[e])' = ViewedEvent(event[e]) /\ Seen(e)' = Seen(e)
      BY <2>1 DEF ViewedEvent, ViewedStatus, Seen
    <2> QED BY <1>1, <2>2, ViewStill
  <1>3. CASE e \in batch[w]
    <2>1. event[e].status = "processing" /\ event'[e] = Materialized(e)
      BY <1>0, <1>3 DEF Materialize, HoldsEvent
    <2>2. ViewedEvent(event[e]) = "pending"
      BY <2>1 DEF ViewedEvent
    <2>3. CASE e \in AuthEvent /\ ~HasRoute(e)
      <3>1. ViewedEvent(event[e])' = "rejected"
        BY <2>1, <2>3 DEF Materialized, IdleEvent, ViewedEvent
      <3>2. \A p \in Endpoint : delivery'[<<e, p>>] = delivery[<<e, p>>]
        BY <1>0, <2>3 DEF Materialize, HasRoute
      <3>3. Seen(e)' = Seen(e)
        BY <3>2 DEF Seen, ViewedStatus
      <3>4. View(e)!Materialize
        BY <1>1, <2>2, <3>1, <3>3 DEF View!Materialize, Seen, Reached
      <3> QED BY <3>4 DEF View!Next
    <2>4. CASE ~(e \in AuthEvent /\ ~HasRoute(e))
      <3>1. ViewedEvent(event[e])' = "delivered"
        BY <2>1, <2>4 DEF Materialized, IdleEvent, ViewedEvent
      <3>2. \A p \in Endpoint : delivery'[<<e, p>>].status \in {"absent", "pending"}
        BY <1>0, <2>1 DEF Materialize, Unfanned, IdleDelivery
      <3>3. Seen(e)' \in [Endpoint -> {"none", "pending"}]
        BY <3>2 DEF Seen, ViewedStatus
      <3>4. View(e)!Materialize
        BY <1>1, <2>2, <3>1, <3>3 DEF View!Materialize, Seen, Reached
      <3> QED BY <3>4 DEF View!Next
    <2> QED BY <2>3, <2>4
  <1> QED BY <1>2, <1>3

\* Deliveries of the action end, with the action or without it.
LEMMA ViewConcludes ==
  ASSUME TypeOK, Fence, Evidence, [Next]_vars, NEW e \in Dispatched,
         \A w \in Worker : ~Materialize(w),
         UNCHANGED received,
         ViewedEvent(event[e])' = ViewedEvent(event[e]),
         Settling(e)
  PROVE  [View(e)!Next]_(View(e)!vars)
  <1>0. e \in Event /\ \A p \in Endpoint : <<e, p>> \in Delivery
    BY OutboxAssumption DEF Dispatched, Delivery
  <1>1. Reached(e)' = Reached(e)
    BY DEF Reached
  <1>2. \A p \in Endpoint : ViewMoves(<<e, p>>)
    BY <1>0, ViewRows
  <1>3. \A p \in Endpoint : Seen(e)[p] \in View(e)!DeliveryStatus
    BY <1>0 DEF Seen, ViewedStatus, View!DeliveryStatus, TypeOK, DeliveryRow, DeliveryStatus
  <1>4. \A p \in Endpoint : Seen(e)'[p] = Seen(e)[p] \/ View(e)!Ends(p)
    BY <1>2 DEF ViewMoves, View!Ends, Seen, Reached
  <1>5. Seen(e)' \in [Endpoint -> View(e)!DeliveryStatus]
    BY <1>3, <1>4 DEF View!Ends, View!DeliveryStatus, Seen
  <1>6. CASE action'[ActionOf[e]] = action[ActionOf[e]] /\ Seen(e)' = Seen(e)
    BY <1>1, <1>6, ViewStill
  <1>7. CASE action'[ActionOf[e]] = action[ActionOf[e]] /\ Seen(e)' # Seen(e)
    <2>1. View(e)!Conclude
      BY <1>1, <1>4, <1>5, <1>7 DEF View!Conclude, Seen, Reached
    <2> QED BY <2>1 DEF View!Next
  <1>8. CASE action'[ActionOf[e]] # action[ActionOf[e]]
    <2>1. View(e)!Conclude
      BY <1>1, <1>4, <1>5, <1>8 DEF Settling, View!Conclude, Seen, Reached
    <2> QED BY <2>1 DEF View!Next
  <1> QED BY <1>6, <1>7, <1>8

\* A request that gets through finds its delivery opened before.
LEMMA ViewReaches ==
  ASSUME TypeOK, Fence, Evidence, NEW e \in Dispatched,
         NEW c \in Delivery, EndpointAccepts(c)
  PROVE  [View(e)!Next]_(View(e)!vars)
  <1>0. /\ e \in Event /\ \A p \in Endpoint : <<e, p>> \in Delivery
        /\ c[1] \in Event /\ c[2] \in Endpoint /\ c = <<c[1], c[2]>>
    BY OutboxAssumption DEF Dispatched, Delivery
  <1>1. PICK n \in wire[c] : received' = [received EXCEPT ![c] = @ \cup {n}]
    BY DEF EndpointAccepts
  <1>2. UNCHANGED <<event, delivery, action>>
    BY DEF EndpointAccepts, rows
  <1>3. action'[ActionOf[e]] = action[ActionOf[e]] /\ ViewedEvent(event[e])' = ViewedEvent(event[e]) /\ Seen(e)' = Seen(e)
    BY <1>2 DEF ViewedEvent, ViewedStatus, Seen
  <1>4. CASE c[1] # e
    <2>1. \A p \in Endpoint : received'[<<e, p>>] = received[<<e, p>>]
      BY <1>0, <1>1, <1>4 DEF TypeOK
    <2>2. Reached(e)' = Reached(e)
      BY <2>1 DEF Reached
    <2> QED BY <1>3, <2>2, ViewStill
  <1>5. CASE c[1] = e
    <2>1. n <= delivery[c].count /\ n \in 1..MaxDeliveryAttempts
      BY <1>1 DEF Evidence, WireWasClaimed, TypeOK
    <2>2. delivery[c].status # "absent"
      BY <2>1 DEF Fence, AbsentIsFresh
    <2>3. Seen(e)[c[2]] # "none"
      BY <1>0, <1>5, <2>2 DEF Seen, ViewedStatus, TypeOK, DeliveryRow, DeliveryStatus
    <2>4. \A p \in Endpoint : received'[<<e, p>>] = IF p = c[2] THEN received[c] \cup {n} ELSE received[<<e, p>>]
      BY <1>0, <1>1, <1>5 DEF TypeOK
    <2>5. Reached(e)' = Reached(e) \cup {c[2]}
      BY <1>0, <1>5, <2>4 DEF Reached
    <2>6. View(e)!Reach(c[2])
      BY <1>0, <1>3, <2>3, <2>5 DEF View!Reach, Seen, Reached
    <2> QED BY <1>0, <2>6 DEF View!Next
  <1> QED BY <1>4, <1>5

\* The claim of events may bury the action's event, and opens nothing.
LEMMA ViewBuries ==
  ASSUME TypeOK, NEW e \in Dispatched, NEW w \in Worker, ClaimEvents(w)
  PROVE  [View(e)!Next]_(View(e)!vars)
  <1>0. e \in Event /\ event[e] \in EventRow
    BY OutboxAssumption DEF Dispatched, TypeOK
  <1>1. action'[ActionOf[e]] = action[ActionOf[e]] /\ Seen(e)' = Seen(e) /\ Reached(e)' = Reached(e)
    BY DEF ClaimEvents, net, Seen, Reached, ViewedStatus
  <1>2. \/ EventClaimable(e) /\ event'[e] = LeasedEvent(w, event[e].attempts + 1)
        \/ event'[e] = SweptEvent(e)
    BY <1>0 DEF ClaimEvents
  <1>3. \/ ViewedEvent(event[e])' = ViewedEvent(event[e])
        \/ ViewedEvent(event[e]) = "pending" /\ ViewedEvent(event[e])' = "lost"
    BY <1>2 DEF EventClaimable, EventExpired, LeasedEvent, SweptEvent, IdleEvent, ViewedEvent
  <1>4. CASE ViewedEvent(event[e])' = ViewedEvent(event[e])
    BY <1>1, <1>4, ViewStill
  <1>5. CASE ViewedEvent(event[e]) = "pending" /\ ViewedEvent(event[e])' = "lost"
    <2>1. View(e)!Materialize
      BY <1>1, <1>5 DEF View!Materialize, Seen, Reached
    <2> QED BY <2>1 DEF View!Next
  <1> QED BY <1>3, <1>4, <1>5

\* Claims, sweeps, answers and the clock leave what an action sees of its event,
\* and move the action to unknown at most.
LEMMA QuietSteps ==
  ASSUME TypeOK, [Next]_vars, NEW e \in Dispatched,
         \A w \in Worker : ~Materialize(w) /\ ~ClaimEvents(w)
  PROVE  ViewedEvent(event[e])' = ViewedEvent(event[e]) /\ Settling(e)
  <1>0. e \in Event /\ event[e] \in EventRow /\ \A p \in Endpoint : <<e, p>> \in Delivery
    BY OutboxAssumption DEF Dispatched, Delivery, TypeOK
  <1>1. ViewedEvent(event[e])' = ViewedEvent(event[e])
    <2>1. ASSUME NEW w \in Worker, NEW x \in Event, Release(w, x)
          PROVE  event'[e] = event[e] \/ (event[e].status = "processing" /\ event'[e].status = "pending")
      BY <1>0, <2>1 DEF Release, HoldsEvent, Refunded, IdleEvent, TypeOK
    <2>2. ASSUME NEW x \in Event, EventLeaseExpires(x)
          PROVE  event'[e].status = event[e].status /\ event'[e].error = event[e].error
      BY <1>0, <2>2 DEF EventLeaseExpires, TypeOK, EventRow
    <2> QED BY <2>1, <2>2, EventSteps DEF ViewedEvent
  <1>2. Settling(e)
    <2>0. ActionOf[e] \in Action /\ action[ActionOf[e]] \in {"succeeded", "unknown"}
      BY OutboxAssumption DEF Dispatched, TypeOK, ActionStatus
    <2>1. ASSUME NEW w \in Worker, ClaimDeliveries(w)
          PROVE  Settling(e)
      <3>1. PICK cancelling \in [Endpoint -> BOOLEAN] : ClaimWith(cancelling)
        BY <2>1, ClaimLoses
      <3>2. action'[ActionOf[e]] = SweptAction(ActionOf[e], cancelling)
        BY <2>0, <3>1 DEF ClaimWith
      <3> QED BY <3>2 DEF SweptAction, Settling
    <2>2. ASSUME NEW c \in Delivery, DeliveryLeaseExpires(c)
          PROVE  action' = action
      BY <2>2 DEF DeliveryLeaseExpires
    <2> QED BY <2>1, <2>2, FinishLosesNothing, DeliverySteps DEF RowsStill, Settling
  <1> QED BY <1>1, <1>2

\* Every step of the outbox is, seen through each event that dispatches an
\* action, a step of Receipts, or none.
LEMMA ViewStep ==
  ASSUME TypeOK, Fence, Evidence, Unfanned, [Next]_vars, NEW e \in Dispatched
  PROVE  [View(e)!Next]_(View(e)!vars)
  <1>0. e \in Event /\ event[e] \in EventRow /\ \A p \in Endpoint : <<e, p>> \in Delivery
    BY OutboxAssumption DEF Dispatched, Delivery, TypeOK
  <1>1. CASE \E w \in Worker : Materialize(w)
    BY <1>1, ViewFansOut
  <1>2. CASE \E w \in Worker : ClaimEvents(w)
    BY <1>2, ViewBuries
  <1>3. CASE \E c \in Delivery : EndpointAccepts(c)
    BY <1>3, ViewReaches
  <1>4. CASE /\ \A w \in Worker : ~Materialize(w) /\ ~ClaimEvents(w)
             /\ \A c \in Delivery : ~EndpointAccepts(c)
    <2>1. UNCHANGED received
      BY <1>4, ReceivedSteps
    <2>2. ViewedEvent(event[e])' = ViewedEvent(event[e]) /\ Settling(e)
      BY <1>4, QuietSteps
    <2> QED BY <1>4, <2>1, <2>2, ViewConcludes DEF Settling
  <1> QED BY <1>1, <1>2, <1>3, <1>4

\* Receipts reconciles over an outbox that does no more than the real one: for
\* every event that dispatches an action, whatever the outbox does is what
\* Receipts lets it do.
THEOREM OutboxServesReceipts == Spec => SeenByReceipts
  <1> SUFFICES ASSUME NEW e \in Dispatched PROVE Spec => View(e)!Spec
    BY DEF SeenByReceipts
  <1>1. Init => View(e)!Init
    <2> SUFFICES ASSUME Init PROVE View(e)!Init
      OBVIOUS
    <2>0. /\ e \in Event /\ ActionOf[e] \in Action
          /\ \A p \in Endpoint : <<e, p>> \in Delivery
      BY OutboxAssumption DEF Dispatched, Delivery
    <2>1. \A p \in Endpoint : /\ ViewedStatus(delivery[<<e, p>>]) = "none"
                              /\ received[<<e, p>>] = {}
      BY <2>0 DEF Init, IdleDelivery, ViewedStatus
    <2>2. action[ActionOf[e]] = "succeeded" /\ ViewedEvent(event[e]) = "pending"
      BY <2>0 DEF Init, IdleEvent, ViewedEvent
    <2> QED BY <2>1, <2>2 DEF View!Init, View!Idle, View!Hidings, View!Token
  <1>2. TypeOK /\ Fence /\ Evidence /\ Unfanned /\ [Next]_vars => [View(e)!Next]_(View(e)!vars)
    BY ViewStep
  <1> QED BY <1>1, <1>2, ViewInvariant, PTL DEF Spec, View!Spec

-----------------------------------------------------------------------------
(* What the operator lane sees of the outbox.                              *)

LaneStep(e) ==
  \/ Behind(e)!FanOut(e) \/ Behind(e)!CarryOut(e)
  \/ Behind(e)!Conclude(e) \/ Behind(e)!LostElsewhere(e)

Carried(e) == \E p \in Endpoint : received[<<e, p>>] # {}

\* A step that changes nothing of what the lane sees.
LEMMA LaneStill ==
  ASSUME NEW e \in Dispatched, action'[ActionOf[e]] = action[ActionOf[e]],
         ViewedEmission(e)' = ViewedEmission(e), Carried(e)' = Carried(e)
  PROVE  UNCHANGED Behind(e)!vars
  BY DEF Behind!vars, Behind!ledger, Behind!loops, Behind!routes, Behind!lane,
         Behind!outside, Carried

\* An event that is not fanned out has no delivery.
LEMMA QueuedIsBare ==
  ASSUME Unfanned, NEW e \in Event, event[e].status # "delivered"
  PROVE  \A p \in Endpoint : ViewedStatus(delivery[<<e, p>>]) = "none"
  BY DEF Unfanned, ViewedStatus, Delivery

\* The fan-out makes the emission live, or void.
LEMMA LaneFansOut ==
  ASSUME TypeOK, Unfanned, NEW e \in Dispatched, NEW w \in Worker, Materialize(w)
  PROVE  [LaneStep(e)]_(Behind(e)!vars)
  <1>0. e \in Event /\ \A p \in Endpoint : <<e, p>> \in Delivery
    BY OutboxAssumption DEF Dispatched, Delivery
  <1>1. action' = action /\ Carried(e)' = Carried(e)
    BY DEF Materialize, net, Carried
  <1>2. CASE e \notin batch[w]
    <2>1. event'[e] = event[e] /\ \A p \in Endpoint : delivery'[<<e, p>>] = delivery[<<e, p>>]
      BY <1>0, <1>2 DEF Materialize
    <2>2. ViewedEmission(e)' = ViewedEmission(e)
      BY <2>1 DEF ViewedEmission, ViewedStatus
    <2> QED BY <1>1, <2>2, LaneStill
  <1>3. CASE e \in batch[w]
    <2>1. event[e].status = "processing" /\ event'[e].status \in {"delivered", "dead"}
      BY <1>0, <1>3 DEF Materialize, HoldsEvent, Materialized, IdleEvent
    <2>2. \A p \in Endpoint : delivery'[<<e, p>>].status \in {"absent", "pending"}
      BY <1>0, <2>1 DEF Materialize, Unfanned, IdleDelivery
    <2>3. \A p \in Endpoint : ViewedStatus(delivery[<<e, p>>])' \in {"none", "pending"}
      BY <2>2 DEF ViewedStatus
    <2>4. ViewedEmission(e) = "queued" /\ ViewedEmission(e)' \in {"live", "void"}
      BY <2>1, <2>3 DEF ViewedEmission
    <2>5. Behind(e)!FanOut(e)
      BY <1>1, <2>4 DEF Behind!FanOut, Behind!ledger, Behind!loops, Behind!routes, Behind!lane, Carried
    <2> QED BY <2>5 DEF LaneStep
  <1> QED BY <1>2, <1>3

\* So does the claim that buries an event with no attempt left.
LEMMA LaneBuries ==
  ASSUME TypeOK, Unfanned, NEW e \in Dispatched, NEW w \in Worker, ClaimEvents(w)
  PROVE  [LaneStep(e)]_(Behind(e)!vars)
  <1>0. e \in Event /\ event[e] \in EventRow
    BY OutboxAssumption DEF Dispatched, TypeOK
  <1>1. /\ action'[ActionOf[e]] = action[ActionOf[e]] /\ Carried(e)' = Carried(e)
        /\ \A p \in Endpoint : ViewedStatus(delivery[<<e, p>>])' = ViewedStatus(delivery[<<e, p>>])
    BY DEF ClaimEvents, net, Carried, ViewedStatus
  <1>2. \/ EventClaimable(e) /\ event'[e] = LeasedEvent(w, event[e].attempts + 1)
        \/ event'[e] = SweptEvent(e)
    BY <1>0 DEF ClaimEvents
  <1>3. \/ event'[e].status = event[e].status
        \/ event[e].status \in {"pending", "processing"} /\ event'[e].status = "processing"
        \/ event[e].status = "processing" /\ event'[e].status = "dead"
    BY <1>2 DEF EventClaimable, EventExpired, LeasedEvent, SweptEvent, IdleEvent
  <1>4. CASE \/ event'[e].status = event[e].status
             \/ event[e].status \in {"pending", "processing"} /\ event'[e].status = "processing"
    <2>1. ViewedEmission(e)' = ViewedEmission(e)
      BY <1>1, <1>4 DEF ViewedEmission
    <2> QED BY <1>1, <2>1, LaneStill
  <1>5. CASE event[e].status = "processing" /\ event'[e].status = "dead"
    <2>1. ViewedEmission(e) = "queued" /\ ViewedEmission(e)' = "void"
      BY <1>0, <1>1, <1>5, QueuedIsBare DEF ViewedEmission
    <2>2. Behind(e)!FanOut(e)
      BY <1>1, <2>1 DEF Behind!FanOut, Behind!ledger, Behind!loops, Behind!routes, Behind!lane, Carried
    <2> QED BY <2>2 DEF LaneStep
  <1> QED BY <1>3, <1>4, <1>5

\* A request gets through to an emission that was fanned out, perhaps long ago.
LEMMA LaneReaches ==
  ASSUME TypeOK, Fence, Evidence, Unfanned, NEW e \in Dispatched,
         NEW c \in Delivery, EndpointAccepts(c)
  PROVE  [LaneStep(e)]_(Behind(e)!vars)
  <1>0. /\ e \in Event /\ \A p \in Endpoint : <<e, p>> \in Delivery
        /\ c[1] \in Event /\ c[2] \in Endpoint /\ c = <<c[1], c[2]>>
    BY OutboxAssumption DEF Dispatched, Delivery
  <1>1. PICK n \in wire[c] : received' = [received EXCEPT ![c] = @ \cup {n}]
    BY DEF EndpointAccepts
  <1>2. UNCHANGED <<event, delivery, action>>
    BY DEF EndpointAccepts, rows
  <1>3. action'[ActionOf[e]] = action[ActionOf[e]] /\ ViewedEmission(e)' = ViewedEmission(e)
    BY <1>2 DEF ViewedEmission, ViewedStatus
  <1>4. CASE c[1] # e
    <2>1. \A p \in Endpoint : received'[<<e, p>>] = received[<<e, p>>]
      BY <1>0, <1>1, <1>4 DEF TypeOK
    <2>2. Carried(e)' = Carried(e)
      BY <2>1 DEF Carried
    <2> QED BY <1>3, <2>2, LaneStill
  <1>5. CASE c[1] = e
    <2>1. n <= delivery[c].count /\ n \in 1..MaxDeliveryAttempts
      BY <1>1 DEF Evidence, WireWasClaimed, TypeOK
    <2>2. delivery[c].status # "absent"
      BY <2>1 DEF Fence, AbsentIsFresh
    <2>3. ViewedStatus(delivery[<<e, c[2]>>]) # "none"
      BY <1>0, <1>5, <2>2 DEF ViewedStatus, TypeOK, DeliveryRow, DeliveryStatus
    <2>4. event[e].status = "delivered"
      BY <1>5, <2>2 DEF Unfanned
    <2>5. ViewedEmission(e) \in {"live", "delivered", "dead"}
      BY <1>0, <2>3, <2>4 DEF ViewedEmission
    <2>6. received'[<<e, c[2]>>] # {}
      BY <1>0, <1>1, <1>5 DEF TypeOK
    <2>7. Carried(e)'
      BY <1>0, <2>6 DEF Carried
    <2>8. Behind(e)!CarryOut(e)
      BY <1>3, <2>5, <2>7 DEF Behind!CarryOut, Behind!ledger, Behind!loops, Behind!routes, Behind!lane, Carried
    <2> QED BY <2>8 DEF LaneStep
  <1> QED BY <1>4, <1>5

\* While a delivery is under way the others end; then nothing moves.
LEMMA LaneConcludes ==
  ASSUME TypeOK, Fence, Evidence, Unfanned, [Next]_vars, NEW e \in Dispatched,
         \A w \in Worker : ~Materialize(w),
         UNCHANGED received,
         ViewedEvent(event[e])' = ViewedEvent(event[e]),
         Settling(e)
  PROVE  [LaneStep(e)]_(Behind(e)!vars)
  <1>0. e \in Event /\ event[e] \in EventRow /\ \A p \in Endpoint : <<e, p>> \in Delivery
    BY OutboxAssumption DEF Dispatched, Delivery, TypeOK
  <1>1. Carried(e)' = Carried(e)
    BY DEF Carried
  <1>2. \A p \in Endpoint : ViewMoves(<<e, p>>)
    BY <1>0, ViewRows
  <1>3. event[e].status \in {"pending", "processing"} <=> event'[e].status \in {"pending", "processing"}
    BY DEF ViewedEvent
  <1>4. CASE \A p \in Endpoint : ViewedStatus(delivery[<<e, p>>]) # "pending"
    <2>1. \A p \in Endpoint : ViewedStatus(delivery[<<e, p>>])' = ViewedStatus(delivery[<<e, p>>])
      BY <1>2, <1>4 DEF ViewMoves
    <2>2. ViewedEmission(e)' = ViewedEmission(e)
      BY <1>3, <2>1 DEF ViewedEmission
    <2>3. CASE action'[ActionOf[e]] = action[ActionOf[e]]
      BY <1>1, <2>2, <2>3, LaneStill
    <2>4. CASE action'[ActionOf[e]] # action[ActionOf[e]]
      <3>1. Behind(e)!LostElsewhere(e)
        BY <1>1, <2>2, <2>4
           DEF Settling, Behind!LostElsewhere, Behind!Is, Behind!Ended, Behind!ledger, Behind!loops,
               Behind!routes, Behind!lane, Behind!outside, Carried
      <3> QED BY <3>1 DEF LaneStep
    <2> QED BY <2>3, <2>4
  <1>5. ASSUME NEW p \in Endpoint, ViewedStatus(delivery[<<e, p>>]) = "pending"
        PROVE  [LaneStep(e)]_(Behind(e)!vars)
    <2>1. event[e].status = "delivered"
      BY <1>0, <1>5, QueuedIsBare
    <2>2. ViewedEmission(e) = "live"
      BY <1>5, <2>1 DEF ViewedEmission
    <2>3. ViewedEmission(e)' \in {"live", "delivered", "dead"}
      <3>1. ViewedStatus(delivery[<<e, p>>])' # "none"
        BY <1>2, <1>5 DEF ViewMoves
      <3> QED BY <1>3, <2>1, <3>1 DEF ViewedEmission
    <2>4. ViewedEmission(e)' = "delivered" => Carried(e)
      <3>1. SUFFICES ASSUME NEW q \in Endpoint, ViewedStatus(delivery[<<e, q>>])' = "delivered"
                     PROVE  received[<<e, q>>] # {}
        BY <1>3, <2>1 DEF ViewedEmission, Carried
      <3>2. CASE ViewedStatus(delivery[<<e, q>>]) = "delivered"
        <4>1. delivery[<<e, q>>].status = "delivered"
          BY <1>0, <3>2 DEF ViewedStatus, TypeOK, DeliveryRow, DeliveryStatus
        <4> QED BY <1>0, <4>1 DEF Evidence, DeliveredWasReceived
      <3>3. CASE ViewedStatus(delivery[<<e, q>>]) # "delivered"
        BY <1>2, <3>1, <3>3 DEF ViewMoves
      <3> QED BY <3>2, <3>3
    <2>5. CASE action'[ActionOf[e]] = action[ActionOf[e]] /\ ViewedEmission(e)' = "live"
      BY <1>1, <2>2, <2>5, LaneStill
    <2>6. CASE ~(action'[ActionOf[e]] = action[ActionOf[e]] /\ ViewedEmission(e)' = "live")
      <3>1. Behind(e)!Conclude(e)
        BY <1>1, <2>2, <2>3, <2>4, <2>6
           DEF Settling, Behind!Conclude, Behind!Is, Behind!Ended, Behind!ledger, Behind!loops,
               Behind!routes, Behind!lane, Carried
      <3> QED BY <3>1 DEF LaneStep
    <2> QED BY <2>5, <2>6
  <1> QED BY <1>4, <1>5

\* Every step of the outbox is for each emission a step of the lane's
\* environment, or none.
LEMMA LaneMoves ==
  ASSUME TypeOK, Fence, Evidence, Unfanned, [Next]_vars, NEW e \in Dispatched
  PROVE  [LaneStep(e)]_(Behind(e)!vars)
  <1>1. CASE \E w \in Worker : Materialize(w)
    BY <1>1, LaneFansOut
  <1>2. CASE \E w \in Worker : ClaimEvents(w)
    BY <1>2, LaneBuries
  <1>3. CASE \E c \in Delivery : EndpointAccepts(c)
    BY <1>3, LaneReaches
  <1>4. CASE /\ \A w \in Worker : ~Materialize(w) /\ ~ClaimEvents(w)
             /\ \A c \in Delivery : ~EndpointAccepts(c)
    <2>1. UNCHANGED received
      BY <1>4, ReceivedSteps
    <2>2. ViewedEvent(event[e])' = ViewedEvent(event[e]) /\ Settling(e)
      BY <1>4, QuietSteps
    <2> QED BY <1>4, <2>1, <2>2, LaneConcludes
  <1> QED BY <1>1, <1>2, <1>3, <1>4

\* The operator lane guards itself against an outbox that does no more than the
\* real one: whatever happens to an emission after execute_action committed it
\* is what ActionLifecycle lets its environment do.
THEOREM OutboxServesLane == Spec => SeenByLane
  <1> SUFFICES ASSUME NEW e \in Dispatched
               PROVE  Spec => /\ action[ActionOf[e]] = "succeeded" /\ ViewedEmission(e) = "queued"
                              /\ [][LaneStep(e)]_(Behind(e)!vars)
    BY DEF SeenByLane, LaneStep
  <1>1. Init => action[ActionOf[e]] = "succeeded" /\ ViewedEmission(e) = "queued"
    <2>1. e \in Event /\ ActionOf[e] \in Action
      BY OutboxAssumption DEF Dispatched
    <2> QED BY <2>1 DEF Init, IdleEvent, ViewedEmission
  <1>2. TypeOK /\ Fence /\ Evidence /\ Unfanned /\ [Next]_vars => [LaneStep(e)]_(Behind(e)!vars)
    BY LaneMoves
  <1> QED BY <1>1, <1>2, ViewInvariant, PTL DEF Spec
=============================================================================
