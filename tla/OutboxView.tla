----------------------------- MODULE OutboxView -----------------------------
(***************************************************************************)
(* What one action, the reconciliation and the operator lane see of the    *)
(* outbox through one event of the action: the event and its deliveries    *)
(* without leases and attempts, and which endpoints a request has reached. *)
(* The action's other events are not in the view, only what they do to the *)
(* action's status.  Receipts and ActionLifecycle take the outbox for an   *)
(* environment with these variables; executors are the endpoints.  A view  *)
(* contains nothing that executors, claim loops, people or the             *)
(* reconciliation do: their variables stand still.                         *)
(***************************************************************************)
EXTENDS Outbox

\* transient and lost prove nothing of the endpoint, definitive does
ViewedStatus(row) ==
  CASE row.status = "absent" -> "none"
    [] row.status \in {"pending", "processing"} -> "pending"
    [] row.status = "dead" -> IF row.error = "definitive" THEN "rejected" ELSE "lost"
    [] OTHER -> row.status

\* a missing route is definitive, the end of a lease proves nothing
ViewedEvent(row) ==
  CASE row.status \in {"pending", "processing"} -> "pending"
    [] row.status = "dead" -> IF row.error = "definitive" THEN "rejected" ELSE "lost"
    [] OTHER -> row.status

View(e) ==
  INSTANCE Receipts
    WITH Executor <- Endpoint, Careful <- {}, MaxToken <- 0, MaxMoment <- 1, MaxFiled <- 0,
         action <- action[ActionOf[e]],
         event <- ViewedEvent(event[e]),
         delivery <- [p \in Endpoint |-> ViewedStatus(delivery[<<e, p>>])],
         reached <- {p \in Endpoint : received[<<e, p>>] # {}},
         assignment <- "dispatched", learned <- FALSE,
         claim <- [p \in Endpoint |-> [status |-> "none", token |-> 0]],
         cycle <- [sweep |-> "none", verdict |-> "Unknown"],
         hidden <- {},
         filed <- << >>,
         work <- [p \in Endpoint |-> [t \in 0..0 |-> "none"]]

\* Events that dispatch an action; a notice only asks an operator for approval.
Dispatched == Linked \ Notice

\* What the outbox does to an action that dispatched it is what Receipts lets
\* it do: it fans out once, reaches endpoints early or late, ends deliveries
\* once, and makes the action unknown only with a delivery that proves nothing,
\* of this event or of another event of the same action.
SeenByReceipts == \A e \in Dispatched : View(e)!Spec

\* The event and its deliveries, as emission_never_delivered and the lane tell
\* them apart.
ViewedEmission(e) ==
  LET Has(status) == \E p \in Endpoint : ViewedStatus(delivery[<<e, p>>]) = status
  IN IF event[e].status \in {"pending", "processing"} THEN "queued"
     ELSE IF Has("pending") THEN "live"
     ELSE IF Has("delivered") THEN "delivered"
     ELSE IF \A p \in Endpoint : ViewedStatus(delivery[<<e, p>>]) = "none" THEN "void"
     ELSE "dead"

Behind(e) ==
  INSTANCE ActionLifecycle
    WITH Action <- {e}, Worker <- {}, Gated <- {e}, Lane <- {e}, Asked <- {e},
         MaxAttempts <- 1, BatchSize <- 1, MaxPrepares <- 1,
         action <- [a \in {e} |-> [status |-> action[ActionOf[e]], attempts |-> 1, due |-> TRUE,
                                   stale |-> FALSE, parked |-> FALSE]],
         emission <- [a \in {e} |-> ViewedEmission(e)],
         carried <- [a \in {e} |-> \E p \in Endpoint : received[<<e, p>>] # {}],
         opened <- [a \in {e} |-> {1}], verdicts <- [a \in {e} |-> [n \in {1} |-> 1]],
         runs <- [a \in {e} |-> 1],
         held <- << >>, doomed <- << >>, registered <- FALSE, live <- FALSE,
         claim <- [a \in {e} |-> "none"], token <- [a \in {e} |-> 0], marks <- {},
         mailed <- [a \in {e} |-> FALSE], reported <- [a \in {e} |-> FALSE]

\* From the commit of execute_action on, the outbox does to an emission and its
\* action what the environment of ActionLifecycle does.
SeenByLane ==
  \A e \in Dispatched :
    /\ action[ActionOf[e]] = "succeeded" /\ ViewedEmission(e) = "queued"
    /\ [][\/ Behind(e)!FanOut(e) \/ Behind(e)!CarryOut(e)
          \/ Behind(e)!Conclude(e) \/ Behind(e)!LostElsewhere(e)]_(Behind(e)!vars)
=============================================================================
