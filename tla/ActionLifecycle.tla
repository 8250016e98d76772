-------------------------- MODULE ActionLifecycle --------------------------
(***************************************************************************)
(* The life of an autopilot action: approval, the queue, the attempts of   *)
(* the worker loops, and the lane in which a person sends a letter that no *)
(* executor can carry.                                                     *)
(*                                                                         *)
(* One action of this module is one transaction of infra/autopilot, or one *)
(* step of a worker loop between two transactions.  The clock is           *)
(* abstracted to three flags of a row: due (available_at has passed),      *)
(* stale (started_at is past the stale threshold) and, for the sweeps that *)
(* wait longer, to a free choice of the rows they take.  The outbox behind *)
(* an emission is the environment here, in the six states the lane can     *)
(* tell apart; Outbox models it in full.                                   *)
(*                                                                         *)
(* A definition introduced by "Wrong:" is no part of the specification; it *)
(* is the definition after it with a plausible mistake, with which TLC     *)
(* finds a property violated.                                              *)
(***************************************************************************)
EXTENDS Naturals, FiniteSets, ActionLedger

CONSTANTS
  Action,        \* rows of autopilot_actions
  Worker,        \* claim loops (autonomous or team mail) of all processes
  Gated,         \* actions whose payload needs an executor capability
  Lane,          \* gated actions of BEACON_ASK_KINDS
  Asked,         \* actions whose approval an event of their id asks for
  MaxAttempts,   \* 5 in the code
  BatchSize,     \* ACTION_BATCH_SIZE
  MaxPrepares    \* bound: how often a letter is prepared

ASSUME LifecycleAssumption ==
  /\ Gated \subseteq Action
  /\ Lane \subseteq Gated
  /\ Asked \subseteq Action
  /\ MaxAttempts \in Nat \ {0}
  /\ BatchSize \in Nat \ {0}
  /\ MaxPrepares \in Nat \ {0}

VARIABLES
  action,      \* action[a]: the autopilot_actions row
  opened,      \* opened[a]: attempts with a 'started' row
  verdicts,    \* verdicts[a][n]: number of terminal rows of attempt n
  held,        \* held[w]: the claimed attempts loop w has not finished
  doomed,      \* doomed[w]: rows cancel_unexecutable_actions has still to update
  registered,  \* executor_instances has a row
  live,        \* an unexpired row advertises it, no open circuit
  claim,       \* claim[a]: status of the operator-console execution claim
  token,       \* token[a]: its claim_token, numbered
  marks,       \* "sent" requests between their two transactions
  mailed,      \* mailed[a]: the person sent the letter
  reported,    \* reported[a]: the operator's receipt is on file
  emission,    \* emission[a]: the outbox event and its deliveries
  carried,     \* carried[a]: the executor carried the emission out
  runs         \* runs[a]: how often execute_action committed

ledger  == <<opened, verdicts>>
loops   == <<held, doomed>>
routes  == <<registered, live>>
lane    == <<claim, token, marks, mailed, reported>>
outside == <<emission, carried>>
vars    == <<action, ledger, loops, routes, lane, outside, runs>>

Number == 1..MaxAttempts
Token  == 1..MaxPrepares

Row == [status: Status, attempts: 0..MaxAttempts, due: BOOLEAN,
        stale: BOOLEAN, parked: BOOLEAN]

\* A row nobody works on.  parked: last_error_kind is 'awaiting_executor'.
Waiting(status, attempts, due, parked) ==
  [status |-> status, attempts |-> attempts, due |-> due, stale |-> FALSE,
   parked |-> parked]

Running(attempts) ==
  [status |-> "processing", attempts |-> attempts, due |-> TRUE,
   stale |-> FALSE, parked |-> FALSE]

\* started_at is past the stale threshold.
Overdue(attempts) ==
  [status |-> "processing", attempts |-> attempts, due |-> TRUE,
   stale |-> TRUE, parked |-> FALSE]

Ended(status, attempts) ==
  [status |-> status, attempts |-> attempts, due |-> TRUE, stale |-> FALSE,
   parked |-> FALSE]

\* The outbox event of an action: not fanned out, never to be (void), with a
\* delivery under way (live), or ended with or without one delivered.
Emission == {"none", "queued", "void", "live", "delivered", "dead"}

\* An attempt a loop holds; failed: execute_action returned an error.
Attempt == [action: Action, number: Number, failed: BOOLEAN]

Held(a, n, failed) == [action |-> a, number |-> n, failed |-> failed]

TypeOK ==
  /\ action \in [Action -> Row]
  /\ opened \in [Action -> SUBSET Number]
  /\ verdicts \in [Action -> [Number -> Nat]]
  /\ held \in [Worker -> SUBSET Attempt]
  /\ doomed \in [Worker -> SUBSET Action]
  /\ registered \in BOOLEAN
  /\ live \in BOOLEAN
  /\ claim \in [Action -> {"none", "claimed", "succeeded", "failed"}]
  /\ token \in [Action -> 0..MaxPrepares]
  /\ marks \subseteq Action \X Token
  /\ mailed \in [Action -> BOOLEAN]
  /\ reported \in [Action -> BOOLEAN]
  /\ emission \in [Action -> Emission]
  /\ carried \in [Action -> BOOLEAN]
  /\ runs \in [Action -> Nat]

Is(a, status) == action[a].status = status

\* A decision creates its actions waiting for approval or already queued.
Init ==
  /\ action \in [Action ->
                   {Waiting("awaiting_approval", 0, TRUE, FALSE),
                    Waiting("queued", 0, TRUE, FALSE)}]
  /\ \A a \in Asked : Is(a, "awaiting_approval")
  /\ opened = [a \in Action |-> {}]
  /\ verdicts = [a \in Action |-> [n \in Number |-> 0]]
  /\ held = [w \in Worker |-> {}]
  /\ doomed = [w \in Worker |-> {}]
  /\ registered \in BOOLEAN
  /\ live = FALSE
  /\ claim = [a \in Action |-> "none"]
  /\ token = [a \in Action |-> 0]
  /\ marks = {}
  /\ mailed = [a \in Action |-> FALSE]
  /\ reported = [a \in Action |-> FALSE]
  /\ emission = [a \in Action |-> "none"]
  /\ carried = [a \in Action |-> FALSE]
  /\ runs = [a \in Action |-> 0]

\* An open claim of the operator console.
Fenced(a) == claim[a] = "claimed"

Free(w) == held[w] = {} /\ doomed[w] = {}

\* One more terminal row for attempt n of a.
WithVerdict(a, n) == [verdicts[a] EXCEPT ![n] = @ + 1]

-----------------------------------------------------------------------------
(* Approval, and what people cancel.                                       *)

\* control_action_transition to 'queued'; an outward send waits out its hold
\* window first.
Approve(a) ==
  /\ Is(a, "awaiting_approval")
  /\ \E due \in BOOLEAN :
       action' = [action EXCEPT ![a] = Waiting("queued", @.attempts, due, @.parked)]
  /\ UNCHANGED <<ledger, loops, routes, lane, outside, runs>>

\* The guard of control_action_transition to 'cancelled'.
Cancellable(a) ==
  \/ Is(a, "awaiting_approval")
  \/ /\ Is(a, "queued")
     /\ action[a].attempts = 0
     /\ ~action[a].due

Cancelled(a) == Ended("cancelled", action[a].attempts)

Cancel(a) ==
  /\ Cancellable(a)
  /\ action' = [action EXCEPT ![a] = Cancelled(a)]
  /\ UNCHANGED <<ledger, loops, routes, lane, outside, runs>>

\* revoke_relay_ladder, revoke_show_ladder, revoke_community_relay.
Revoke(a) ==
  /\ Is(a, "queued")
  /\ action' = [action EXCEPT ![a] = Cancelled(a)]
  /\ UNCHANGED <<ledger, loops, routes, lane, outside, runs>>

-----------------------------------------------------------------------------
(* cancel_unexecutable_actions: reads, then one update per row.            *)

\* The two reads, taken together: approved long ago, and no live capability.
\* The sweep reads advertisements only, the claim an open circuit breaker too:
\* with the breaker open the code has fewer rows to cancel than allowed here.
SweepRead(w) ==
  /\ Free(w)
  /\ ~live
  /\ \E S \in SUBSET {a \in Gated : Is(a, "queued") /\ ~Fenced(a)} :
       doomed' = [doomed EXCEPT ![w] = S]
  /\ UNCHANGED <<action, ledger, held, routes, lane, outside, runs>>

\* Wrong: the update trusts what the sweep has read.
StillDoomedAsRead(a) == TRUE

\* The WHERE clause of the update.
StillDoomed(a) == Is(a, "queued")

SweepCancel(w, a) ==
  /\ a \in doomed[w]
  /\ action' = IF StillDoomed(a) THEN [action EXCEPT ![a] = Cancelled(a)]
                                 ELSE action
  /\ doomed' = [doomed EXCEPT ![w] = @ \ {a}]
  /\ UNCHANGED <<ledger, held, routes, lane, outside, runs>>

-----------------------------------------------------------------------------
(* claim_due_actions_filtered: one transaction.                            *)

\* Asks that lapsed, letters of members who opted out, rungs of a dead
\* ladder: each of the sweeps before the claim takes rows of one status.
Lapsable(a) == Is(a, "awaiting_approval") \/ Is(a, "queued")

Stale(a) == Is(a, "processing") /\ action[a].stale

\* Its last attempt was lost with its worker.
Reaped(a) == Stale(a) /\ action[a].attempts >= MaxAttempts

\* Wrong: an open operator claim counts as a dead lease.
CandidateUnfenced(a) ==
  /\ action[a].attempts < MaxAttempts
  /\ (Is(a, "queued") /\ action[a].due) \/ Stale(a)

\* Wrong: attempts are not bounded.
CandidateUnbounded(a) ==
  /\ (Is(a, "queued") /\ action[a].due) \/ Stale(a)
  /\ ~Fenced(a)

Candidate(a) ==
  /\ action[a].attempts < MaxAttempts
  /\ (Is(a, "queued") /\ action[a].due) \/ Stale(a)
  /\ ~Fenced(a)

\* partition_by_executor_capability: an empty registry gates nothing.
Runnable(a) == a \notin Gated \/ ~registered \/ live

\* Wrong: the interrupted attempt is forgotten.
InterruptedNever(a) == FALSE

\* close_interrupted_attempts.
Interrupted(a) ==
  /\ Is(a, "processing")
  /\ action[a].attempts > 0
  /\ verdicts[a][action[a].attempts] = 0

\* Wrong: taking over a stale attempt does not count as one.
NextNumberKept(a) ==
  IF Stale(a) THEN action[a].attempts ELSE action[a].attempts + 1

NextNumber(a) == action[a].attempts + 1

\* park_gated_actions leaves it in 'processing', and it keeps its place.
PassedOver(a) == Candidate(a) /\ Stale(a) /\ ~Runnable(a)

ClaimedRow(a, S, lapsed) ==
  IF a \in lapsed THEN Cancelled(a)
  ELSE IF Reaped(a) THEN Ended("failed", action[a].attempts)
  ELSE IF a \in S /\ Runnable(a) THEN Running(NextNumber(a))
  ELSE IF a \in S /\ Is(a, "queued")      \* park_gated_actions
  THEN Waiting("queued", action[a].attempts, FALSE, TRUE)
  ELSE action[a]

ClaimedVerdicts(a, S) ==
  IF Reaped(a) \/ (a \in S /\ Runnable(a) /\ Interrupted(a))
  THEN WithVerdict(a, action[a].attempts)
  ELSE verdicts[a]

ClaimedOpened(a, S) ==
  IF a \in S /\ Runnable(a) THEN opened[a] \cup {NextNumber(a)} ELSE opened[a]

\* S is what the SELECT returns: of a crowd of candidates the oldest, less the
\* rows another loop has locked.  Stale rows whose capability is gone are among
\* them: they take up the LIMIT and stay as they are.  The last disjunct is the
\* timeout of bounded() after the commit: the rows are claimed, the loop holds
\* nothing.
Claim(w) ==
  /\ Free(w)
  /\ \E lapsed \in SUBSET {a \in Action : Lapsable(a)} :
     \E S \in SUBSET ({a \in Action : Candidate(a)} \ lapsed) :
       /\ Cardinality(S) <= BatchSize
       /\ action' = [a \in Action |-> ClaimedRow(a, S, lapsed)]
       /\ verdicts' = [a \in Action |-> ClaimedVerdicts(a, S)]
       /\ opened' = [a \in Action |-> ClaimedOpened(a, S)]
       /\ \/ held' = [held EXCEPT ![w] =
                        {Held(a, NextNumber(a), FALSE) :
                           a \in {b \in S : Runnable(b)}}]
          \/ UNCHANGED held
  /\ UNCHANGED <<doomed, routes, lane, outside, runs>>

-----------------------------------------------------------------------------
(* execute_action and fail_action: the loop over the claimed actions.      *)

\* Wrong: only the number of the attempt is compared.
CurrentNumber(h) == action[h.action].attempts = h.number

\* lock_current_attempt, and the WHERE clause of fail_action.
Current(h) ==
  /\ Is(h.action, "processing")
  /\ action[h.action].attempts = h.number

\* The emission key lets an action enqueue its event once.
Emitted(a) ==
  IF a \in Gated /\ emission[a] = "none" THEN "queued" ELSE emission[a]

\* execute_action commits.  The last disjunct: its caller sees a timeout.
Execute(w, h) ==
  /\ h \in held[w]
  /\ ~h.failed
  /\ Current(h)
  /\ Runnable(h.action)
  /\ action' = [action EXCEPT ![h.action] = Ended("succeeded", @.attempts)]
  /\ verdicts' = [verdicts EXCEPT ![h.action] = WithVerdict(h.action, h.number)]
  /\ emission' = [emission EXCEPT ![h.action] = Emitted(h.action)]
  /\ runs' = [runs EXCEPT ![h.action] = @ + 1]
  /\ \/ held' = [held EXCEPT ![w] = @ \ {h}]
     \/ held' = [held EXCEPT ![w] =
                   (@ \ {h}) \cup {Held(h.action, h.number, TRUE)}]
  /\ UNCHANGED <<opened, doomed, routes, lane, carried>>

\* execute_action rolls back: the fence, a precondition, the database.
ExecuteFails(w, h) ==
  /\ h \in held[w]
  /\ ~h.failed
  /\ held' = [held EXCEPT ![w] =
                (@ \ {h}) \cup {Held(h.action, h.number, TRUE)}]
  /\ UNCHANGED <<action, ledger, doomed, routes, lane, outside, runs>>

\* Wrong: a retry is granted without end.
FailedRowForever(a, retryable) ==
  IF retryable THEN Waiting("queued", action[a].attempts, FALSE, FALSE)
               ELSE Ended("failed", action[a].attempts)

FailedRow(a, retryable) ==
  IF retryable /\ action[a].attempts < MaxAttempts
  THEN Waiting("queued", action[a].attempts, FALSE, FALSE)
  ELSE Ended("failed", action[a].attempts)

\* fail_action; it may find another attempt, or fail in the database.
FailAction(w, h) ==
  /\ h \in held[w]
  /\ h.failed
  /\ \/ /\ Current(h)
        /\ \E retryable \in BOOLEAN :
             action' = [action EXCEPT ![h.action] = FailedRow(h.action, retryable)]
        /\ verdicts' =
             [verdicts EXCEPT ![h.action] = WithVerdict(h.action, h.number)]
     \/ UNCHANGED <<action, verdicts>>
  /\ held' = [held EXCEPT ![w] = @ \ {h}]
  /\ UNCHANGED <<opened, doomed, routes, lane, outside, runs>>

\* The process dies; whatever its loop held is forgotten.
Crash(w) ==
  /\ ~Free(w)
  /\ held' = [held EXCEPT ![w] = {}]
  /\ doomed' = [doomed EXCEPT ![w] = {}]
  /\ UNCHANGED <<action, ledger, routes, lane, outside, runs>>

-----------------------------------------------------------------------------
(* The human lane of beacon asks.                                          *)

\* emission_never_delivered: no delivery is pending, processing or delivered.
NeverDelivered(a) == emission[a] \in {"queued", "void", "dead"}

\* Wrong: any queued ask may be taken by hand.
PreparableQueued(a) ==
  \/ Is(a, "queued")
  \/ Is(a, "processing")
  \/ /\ Is(a, "succeeded") \/ Is(a, "unknown")
     /\ claim[a] /= "succeeded"
     /\ NeverDelivered(a)

\* The eligibility match of prepare_beacon_ask.
Preparable(a) ==
  \/ Is(a, "queued") /\ (action[a].parked \/ Fenced(a))
  \/ Is(a, "processing") /\ Fenced(a)
  \/ /\ Is(a, "succeeded") \/ Is(a, "unknown")
     /\ claim[a] /= "succeeded"
     /\ NeverDelivered(a)

\* 'queued' becomes 'processing' without an attempt.
Taken(a) ==
  IF Is(a, "queued") THEN Running(action[a].attempts) ELSE action[a]

\* prepare_beacon_ask: the claim opens under a new token.
Prepare(a) ==
  /\ a \in Lane
  /\ Preparable(a)
  /\ claim[a] /= "succeeded"
  /\ token[a] < MaxPrepares
  /\ action' = [action EXCEPT ![a] = Taken(a)]
  /\ claim' = [claim EXCEPT ![a] = "claimed"]
  /\ token' = [token EXCEPT ![a] = @ + 1]
  /\ UNCHANGED <<ledger, loops, routes, marks, mailed, reported, outside, runs>>

\* The person sends a letter that was prepared.
Mail(a) ==
  /\ token[a] > 0
  /\ mailed' = [mailed EXCEPT ![a] = TRUE]
  /\ UNCHANGED <<action, ledger, loops, routes, claim, token, marks, reported,
                 outside, runs>>

\* "sent", first transaction: beacon_ask_send_claim.
MarkSent(a) ==
  /\ mailed[a]
  /\ \/ /\ claim[a] = "succeeded"
        /\ UNCHANGED action
     \/ /\ Fenced(a)
        /\ action[a].status \in {"queued", "processing", "succeeded", "unknown"}
        /\ action' = [action EXCEPT ![a] = Taken(a)]
  /\ marks' = marks \cup {<<a, token[a]>>}
  /\ UNCHANGED <<ledger, loops, routes, claim, token, mailed, reported, outside,
                 runs>>

\* legal_transition for a success receipt; the operator's carries no provider
\* reference, so it counts as Premature until an executor confirms.
Received(a) ==
  IF Applied(StateOf[action[a].status], "Executed", "Premature") = {"SUCCEEDED"}
  THEN Ended("succeeded", action[a].attempts)
  ELSE action[a]

\* record_execution_report: the claim_token of the receipt is the claim's.
TokenHolds(m) == token[m[1]] = m[2]

\* "sent", second transaction: record_execution_report of the operator's
\* receipt; a stale token is refused, a receipt on file is replayed.
ReportSent(m) ==
  /\ m \in marks
  /\ IF TokenHolds(m) /\ ~reported[m[1]]
     THEN /\ reported' = [reported EXCEPT ![m[1]] = TRUE]
          /\ claim' = [claim EXCEPT ![m[1]] = "succeeded"]
          /\ action' = [action EXCEPT ![m[1]] = Received(m[1])]
     ELSE UNCHANGED <<reported, claim, action>>
  /\ marks' = marks \ {m}
  /\ UNCHANGED <<ledger, loops, routes, token, mailed, outside, runs>>

\* The API process dies between the two transactions.
DropMark(m) ==
  /\ m \in marks
  /\ marks' = marks \ {m}
  /\ UNCHANGED <<action, ledger, loops, routes, claim, token, mailed, reported,
                 outside, runs>>

\* Wrong: a claim older than the grace is closed whatever the action does.
AbandonedAlways(a) == Fenced(a)

\* The WHERE clause of settle_abandoned_execution_claims.
Abandoned(a) ==
  Fenced(a) /\ action[a].status \in {"succeeded", "failed", "cancelled"}

\* settle_abandoned_execution_claims, for the claims it finds old enough.
SettleClaim(a) ==
  /\ Abandoned(a)
  /\ claim' = [claim EXCEPT ![a] =
                 IF Is(a, "succeeded") THEN "succeeded" ELSE "failed"]
  /\ UNCHANGED <<action, ledger, loops, routes, token, marks, mailed, reported,
                 outside, runs>>

-----------------------------------------------------------------------------
(* The environment: time, executors, and the outbox behind an emission.    *)

BecomeDue(a) ==
  /\ Is(a, "queued")
  /\ ~action[a].due
  /\ action' = [action EXCEPT ![a] = Waiting("queued", @.attempts, TRUE, @.parked)]
  /\ UNCHANGED <<ledger, loops, routes, lane, outside, runs>>

BecomeStale(a) ==
  /\ Is(a, "processing")
  /\ ~action[a].stale
  /\ action' = [action EXCEPT ![a] = Overdue(@.attempts)]
  /\ UNCHANGED <<ledger, loops, routes, lane, outside, runs>>

\* An executor registers and advertises, or its advertisement expires.
Advertise ==
  /\ live' = ~live
  /\ registered' = TRUE
  /\ UNCHANGED <<action, ledger, loops, lane, outside, runs>>

\* The outbox fans the event out; with no route, or no attempt left, it
\* concludes it and no delivery exists.
FanOut(a) ==
  /\ emission[a] = "queued"
  /\ \E next \in {"live", "void"} :
       emission' = [emission EXCEPT ![a] = next]
  /\ UNCHANGED <<action, ledger, loops, routes, lane, carried, runs>>

\* A request may arrive after its delivery ended.
CarryOut(a) ==
  /\ emission[a] \in {"live", "delivered", "dead"}
  /\ carried' = [carried EXCEPT ![a] = TRUE]
  /\ UNCHANGED <<action, ledger, loops, routes, lane, emission, runs>>

\* Some of its deliveries end, delivered only if carried out; when the answer
\* of one was lost the action becomes unknown, whatever the others do.
Conclude(a) ==
  /\ emission[a] = "live"
  /\ \E next \in {"live", "dead"} \cup IF carried[a] THEN {"delivered"} ELSE {} :
       /\ emission' = [emission EXCEPT ![a] = next]
       /\ \/ next # "live" /\ UNCHANGED action
          \/ /\ Is(a, "succeeded") \/ Is(a, "processing")
             /\ action' = [action EXCEPT ![a] = Ended("unknown", @.attempts)]
  /\ UNCHANGED <<ledger, loops, routes, lane, carried, runs>>

\* The last lease of another event with the action's id runs out: of the notice
\* that asked for approval, or of a further emission.
LostElsewhere(a) ==
  /\ a \in Asked
  /\ Is(a, "succeeded") \/ Is(a, "processing")
  /\ action' = [action EXCEPT ![a] = Ended("unknown", @.attempts)]
  /\ UNCHANGED <<ledger, loops, routes, lane, outside, runs>>

-----------------------------------------------------------------------------

Loop(w) ==
  \/ SweepRead(w)
  \/ \E a \in Action : SweepCancel(w, a)
  \/ Claim(w)
  \/ \E h \in held[w] : Execute(w, h) \/ ExecuteFails(w, h) \/ FailAction(w, h)
  \/ Crash(w)

People(a) ==
  Approve(a) \/ Cancel(a) \/ Revoke(a) \/ Prepare(a) \/ Mail(a) \/ MarkSent(a)

Environment(a) ==
  \/ SettleClaim(a) \/ BecomeDue(a) \/ BecomeStale(a)
  \/ FanOut(a) \/ CarryOut(a) \/ Conclude(a) \/ LostElsewhere(a)

Next ==
  \/ \E w \in Worker : Loop(w)
  \/ \E a \in Action : People(a) \/ Environment(a)
  \/ \E m \in marks : ReportSent(m) \/ DropMark(m)
  \/ Advertise

Spec == Init /\ [][Next]_vars

-----------------------------------------------------------------------------
(* Safety.                                                                 *)

\* The attempt under way belongs to a worker loop, not to a person.
MachineRuns(a) == Is(a, "processing") /\ ~Fenced(a)

\* The outbox took the action from its worker, because a notice got lost.
TakenAway(a) ==
  a \in Asked /\ Is(a, "unknown") /\ runs[a] = 0 /\ token[a] = 0

\* The attempt ledger is whole: every attempt that was opened, and no other,
\* has exactly one terminal row as soon as it is over.  Success rates are
\* calibrated on these rows; the reaper, the recovery of a stale claim,
\* fail_action and execute_action each write some of them.  Only the attempt a
\* lost approval notice interrupts is never closed.
AttemptsAddUp ==
  \A a \in Action :
    /\ opened[a] = 1..action[a].attempts
    /\ \A n \in Number :
         verdicts[a][n] =
           IF /\ n <= action[a].attempts
              /\ ~(n = action[a].attempts /\ (MachineRuns(a) \/ TakenAway(a)))
           THEN 1 ELSE 0

\* No attempt is ever worked on by two loops: what claim_due_actions hands out
\* is new.
SingleRunner ==
  \A w, v \in Worker : \A h \in held[w], g \in held[v] :
    h.action = g.action /\ h.number = g.number => (w = v /\ h = g)

\* An action's effects are committed at most once, however often its attempts
\* time out, go stale or are taken over (execute_action).
RanAtMostOnce == \A a \in Action : runs[a] <= 1

\* What the operator sees as cancelled did not happen and never will: no loop
\* committed its effects, its letter was not sent by hand, and nothing of it
\* waits in the outbox (control_action_transition and the sweeps cancel without
\* looking at claims, attempts or emissions).
CancelledNeverSent ==
  \A a \in Action :
    Is(a, "cancelled") => runs[a] = 0 /\ ~mailed[a] /\ emission[a] = "none"

\* While a person holds a running ask, nothing but the receipt moves it: no
\* sweep, no claim and no late worker (the claim is the lane's only lock; only
\* the outbox, for an ask whose approval notice got lost, does not look at it).
OperatorHolds ==
  [][\A a \in Action \ Asked :
       /\ Fenced(a)
       /\ Is(a, "processing")
       /\ ~(reported'[a] /\ ~reported[a])
       => /\ claim'[a] = "claimed"
          /\ action'[a].status = "processing"
          /\ action'[a].attempts = action[a].attempts]_vars

\* Once a letter was prepared, no loop commits the action any more: a person
\* and an executor never both carry out an ask that was parked.
HandIsFinal ==
  [][\A a \in Action : runs'[a] /= runs[a] => token[a] = 0]_vars

\* No transaction of the dispatch side runs into the ledger trigger, whose
\* exception would take every other row of the statement down with it.
LedgerNeverRefuses ==
  [][\A a \in Action :
       LedgerAccepts(action[a].status, action'[a].status)]_vars
=============================================================================
