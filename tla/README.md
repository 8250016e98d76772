# CrowdRelay: a verification project

CrowdRelay runs audience growth for bands: it decides what to do next, asks for
approval where it must, carries actions out through executors it does not control
(webhooks, n8n, in-process platform executors, or a person with a mail client),
and learns from what came of them. Everything durable is in PostgreSQL. Several
API and worker processes work on the same rows; what keeps them apart is leases,
counters compared in `WHERE` clauses, unique keys and one trigger. This project
models that machinery in TLA+, checks it with TLC and proves its safety with
TLAPS.

Paths below are relative to the repository unless they name a module.

## 1. The system

| Component | State it keeps | Operations | What is hard | What makes it correct |
|---|---|---|---|---|
| **Outbox** (`crowdrelay-worker/src/outbox/`) | `outbox_events`, `webhook_deliveries`, `webhook_delivery_attempts`, endpoint flags, the tasks of a running cycle | claim events, fan out, release, sweep and claim deliveries, dispatch, file the outcome, shut down | leases that run out under their holder, crashes between commit and answer, lost HTTP answers, batches that fail as a whole | one dispatcher per attempt; a complete attempt ledger that agrees with the row; nothing delivered that was not carried out; everything settles |
| **Action lifecycle** (`crowdrelay-infra/src/autopilot/actions*.rs`, `action_recovery.rs`, `control_mutations.rs`) | `autopilot_actions`, `autopilot_action_attempts` | approve, cancel, revoke, sweep, reap, claim, park, execute, fail | two claim loops per process, stale takeovers, a timeout after a commit, read-then-update sweeps | effects commit once; each attempt is closed once; a cancelled action has no effect; actions end |
| **Operator lane** (`beacon_lane.rs`, `crowdrelay-api/src/beacon_asks.rs`) | `autopilot_execution_claims` of the operator console | prepare, send by hand, report in two transactions, settle abandoned claims | the lane takes over rows that loops and the outbox also touch | a prepared letter is never executed by a loop; only a receipt moves a held row |
| **Action ledger** (`crowdrelay-domain/src/action_ledger.rs`, trigger of migration 0346) | `action_ledger` | project a status, accept or refuse a transition, resolve an observation | two encodings of one state machine | they agree; no writer runs into the trigger |
| **Leadership** (`crowdrelay-worker/src/leadership.rs`, `main.rs`, `scripts/deploy-bluegreen.sh`) | `worker_leadership`, the processes | acquire, renew, drain, release, hand over | outages and pauses longer than the lease, lost answers, a slow drain | two generations overlap only after a lease ran out; a dead leader strands nobody |
| **Executor claims and reports** (`autopilot/runtime.rs`, `success_evidence.rs`) | `autopilot_execution_claims`, `autopilot_execution_reports`, experiment assignments | claim, report success or failure, apply the side effects of success | late, duplicated, contradicting and reordered receipts; a claim asked for twice | a later token only after a reported failure; the claim row tells the reports; no learning sample is lost |
| **Receipt reconciliation** (`receipt_reconciliation.rs`) | gaps and resolutions on the same rows | find gaps, resolve from receipts, resolve from the outbox | candidates read without row locks against receipts that land meanwhile | no gap over a receipt on file, no verdict without one; nothing stays unknown that could be settled |
| Capabilities and circuit (`execution_capabilities.rs`, `executor_circuit.rs`) | executor rows, failure counts | register, advertise, open, close | claim and sweep disagree on what "live" means | nothing is cancelled that could run |
| Approvals (`waves.rs`, `lapsed_sweep.rs`, `standing_approvals.rs`) | holds, waves, expiry | hold, lapse, sweep | clocks against operators | nothing lapses after approval |
| Agent outcomes (`agent_outcomes.rs`) | `agent_outcomes` hand-off rows | take, map, reset stale | a row reset while it is processed | one decision per outcome |
| **Push delivery** (`push_delivery.rs`, `push_delivery/`, `crowdrelay-api/src/push.rs`, `audience/delivery_handlers.rs`) | `fan_push_deliveries`, endpoints, consent and preferences, the campaign's ledger | enqueue, claim, call the provider, record the answer, acknowledge, sweep, reconcile, retry by hand | answers guarded by status and not by claim, acknowledgements of earlier attempts, opt-outs at any moment | delivered means displayed; one push per queuing; what was muted stays ended; no push stays under way for ever |
| **Commerce inventory and prize stock** (`crowdrelay-api/src/commerce/`, `commerce_inventory.rs`, `draws.rs`) | movements, order and campaign reservations, fulfilments, stocktakes, activation | reserve, commit, release, expire, adjust, count, draw, fulfil | sums on a snapshot older than the row lock, payments after expiry, several row locks per request | an order's units leave once; what is promised beyond the stock is accounted for; no circle of locks |
| Reminders, event sync, retention (`crowdrelay-worker/src/`) | leased queues and their rows | enqueue, pull, delete | as the outbox | once per offset; only settled rows are deleted |
| Draw selection, referrals, admission, AREA | reward, pass and game rows | draw, grant, redeem | two gates, one pass | no double grant |
| Fan identity, consent, privacy (of which a push sees withdrawals and grants) | fans, consents, tokens, erasure | confirm, withdraw, erase | consent read before a send | no send after withdrawal |
| Brain, measurement, objectives | beliefs and scores | update, rank | floating-point numerics | monotonicity, calibration |
| API, console, docs, bootstrap, proofs, n8n, deployment tooling | - | routing, validation, I/O | - | - |

How they interact. A decision creates actions. A worker loop claims an approved
action and runs `execute_action`, which commits the action's effects, marks it
`succeeded` and enqueues an outbox event **in one transaction**. The outbox fans
the event out and delivers it. When the last
answer of a delivery is lost, the outbox moves the linked action to `unknown`. An executor, or the operator through the lane,
later files a receipt, which `legal_transition` turns into a verdict. What no
receipt settles, the reconciliation cycle settles from what the deliveries say.
Push campaigns and inventory share no rows with this chain; they have
their own queue, their own sweep and their own locks. Every write of
`autopilot_actions.status` passes the trigger `action_ledger_sync`, which
refuses illegal steps. Leadership decides which worker process runs the loops
at all; the claims are written so as not to depend on it, and the models of the
outbox and of the lifecycle accordingly admit any number of workers at once.

`PROJECT.json` lists every component with its status, the hazards at their
lines, and for each definition the lines it translates.

## 2. The modules

```
Outbox ──── OutboxRefinement ──── OutboxLiveness ──┐
   │             │   (AtLeastOnce)                 ├── MCOutbox
   ├── OutboxDocs ─────────────────────────────────┘
   ├── OutboxView (Receipts, ActionLifecycle) ──┐
   └── OutboxProofs ────────────────────────────┴── OutboxPromiseProofs

ActionLedger ─┬─ ActionLifecycle ── LifecycleLiveness ── LifecycleDocs ── MCActionLifecycle
              │        └── LifecycleProofs
              └─ Receipts ── ReceiptsLiveness ── MCReceipts ── ReceiptsDocs
                       └── ReceiptsProofs

Leadership ── LeadershipLiveness ── MCLeadership
      └── LeadershipProofs

PushDelivery ─┬─ PushRefinement ─┬─ PushLiveness ── MCPush
              │   (AtLeastOnce)  └─ PushProofs
              └─ PushDocs
Inventory ── MCInventory
      └── InventoryProofs ── StockProofs
```

A definition that a comment introduces with "Wrong:" is not part of a
specification. It is the definition after it with a plausible mistake (a dropped
guard, an off-by-one, a missing reset), and shows that TLC would notice.

### Outbox

One action is one transaction of `outbox/repository.rs` or one local step of
`outbox/worker.rs`.

| Model | Code |
|---|---|
| `event`, `delivery`, `attempt` | rows of `outbox_events`, `webhook_deliveries`, `webhook_delivery_attempts` |
| `action`, `ActionOf`, `Notice` | status of the autopilot action behind an event; an action may emit several events under keys of their own, and the event that asks a person to approve it carries its id too |
| `phase`, `batch`, `stopping`, `tasks` | locals of `run_cycle`, the shutdown watch, the spawned `dispatch_one` tasks |
| `wire`, `received` | requests that may still arrive; requests the endpoint carried out (history) |
| `ClaimEvents`, `Materialize`, `MaterializeFails`, `Release` | `claim_outbox_events` with its sweep, `materialize_deliveries_batch`, `fail_outbox_event` |
| `ClaimDeliveries`, `ClaimDeliveriesFails` | `claim_deliveries`: file the lost attempts, cancel, dead-letter, claim. The four statements are one transaction but each has its own snapshot, so each sees the endpoint flags an operator may have switched since the one before |
| `PreDispatchFails`, `Send`, `Answer`, `Timeout`, `ShutdownTask`, `Finish`, `FinishFails` | `dispatch_one` and `finish_delivery` |
| `Shutdown`, `StopCycle`, `Restart`, `EventLeaseExpires`, `DeliveryLeaseExpires`, `ToggleEndpoint` | process life, the clock, the operator |

The clock is abstracted. A granted lease may be found expired at any later
step, and a back-off may end at any step, so a claim takes any subset of the
rows that are not leased. A `database_call` that times out after its commit is
a disjunct of the action: the rows change and the worker learns nothing. An endpoint
may carry a request out and still answer with an error (`Answer`).

`AtLeastOnce` is what the outbox (and push delivery) promises a delivery, without leases, workers or
attempts: opened once, carried out while open or later (by a request nobody
waits for any more), concluded at most once, and concluded as delivered only if
it was carried out. `OutboxRefinement` maps the rows to it.

`OutboxView` says what other components see of it. `View(e)` reads the rows of one
event an action emitted as the outbox variables of `Receipts`, `Behind(e)` as those of
`ActionLifecycle`; what executors, loops, people and the reconciliation do stands
still in it. What the other events of the action, and the notice that asked for its approval, may
do to the action is a free step in both (`Conclude` of `Receipts`, `LostElsewhere`). `SeenByReceipts` and `SeenByLane` state that all the outbox ever does is
what those two modules allow their environment.

### ActionLedger and ActionLifecycle

`ActionLedger` holds the pure part: the projection of a status to a ledger state
(`StateOf`, `Status`), the trigger's transition table (`Successor`,
`LedgerAccepts`), the domain's `CanTransitionTo`, and `legal_transition`
(`Verdict`, `Applied`).

| Model of `ActionLifecycle` | Code |
|---|---|
| `action` | `autopilot_actions`: status, `attempt_count`, and the flags due (`available_at` has passed), stale (`started_at` is past the threshold), parked (`last_error_kind = 'awaiting_executor'`) |
| `opened`, `verdicts` | `autopilot_action_attempts`: `started` rows and the **number** of terminal rows per attempt, for the table has no unique key |
| `held`, `doomed` | what a claim loop, or its sweep, has read and not yet acted on |
| `registered`, `live` | whether the executor registry is in use; whether a capability is advertised and its circuit closed |
| `claim`, `token`, `marks`, `mailed`, `reported` | the operator's claim, its token, "sent" requests between their two transactions, the letter, the receipt |
| `emission`, `carried`, `runs` | the outbox behind the emission as the lane sees it; history of effects |
| `Claim` | `claim_due_actions_filtered`: the lapse sweeps, the reaper, up to `BatchSize` candidates of which those without a capability take up room and are passed over, parking, interrupted attempts, in one transaction |
| `SweepRead`, `SweepCancel` | `cancel_unexecutable_actions`: two reads, then one update per row |
| `Execute`, `ExecuteFails`, `FailAction` | `execute_action`, `fail_action` |
| `Approve`, `Cancel`, `Revoke` | `control_action_transition`, the ladder revocations |
| `Prepare`, `MarkSent`, `ReportSent`, `DropMark`, `SettleClaim` | `prepare_beacon_ask`, the two transactions of `beacon_ask_sent`, `settle_abandoned_execution_claims` |
| `FanOut`, `CarryOut`, `Conclude`, `LostElsewhere`, `Advertise` | environment: `Outbox` in the states the lane can tell apart (`Emission`), the answers lost by other events with the action's id (the approval notice of the actions in `Asked`), and the executors |

What an action kind does inside `execute_action` is one step that emits or does
not. Wave windows, expiry and serviceability guards of an approval are a free
choice of the rows it takes; so are the time limits of the sweeps.

### Leadership

`lease` is the row of `worker_leadership`; `state` is how far each process has come;
`renewing` is its renewal task; `lapsed` is a history variable; `stopped` and
`verified` are the deployment's. `Acquire`, `AcquireLost`, `Renew`, `Release`
are `try_acquire` with and without its answer, a tick of `renew_loop`, and
`LeadershipLease::release`. `Lapse` is the clock. `Deploy` and `Verify` are section
4b of `deploy-bluegreen.sh`. The generation number is only logged and is left
out: two candidates can read the same one, because it is read in a statement of its own.

### Receipts

One dispatched action that owes a receipt, with its executors, its webhook
deliveries and the reconciliation cycle. A handler takes the row lock of the
action before it decides, so a handler is one step; a sweep reads its candidates
without a lock, so a sweep is two.

| Model | Code |
|---|---|
| `action`, `assignment`, `learned` | status of the action; `execution_status` of its experiment assignment; the success side effects have been committed |
| `claim`, `filed` | `autopilot_execution_claims`; the terminal rows of `autopilot_execution_reports`, in the order they were filed |
| `event`, `delivery`, `reached` | one event of the action as the cycle reads it; executors a request got through to. The verdict the other events support is a free choice (`DeliveryVerdicts`) |
| `hidden` | sweeps that do not return the action although it qualifies: the gap sweep because its limit of 500 is used up by older rows, it and the outbox sweep because a person holds the action |
| `work` | what an executor did under a token (outside the code: it may crash, run and stay silent, or report late) |
| `cycle` | what a sweep has read and not yet written |
| `ClaimExecution`, `FileReport` | `claim_execution`; `record_execution_report`: replay and token checks, claim, `legal_transition`, assignment, side effects |
| `ReadGaps`/`FlagGap`, `ReadReceipts`, `ReadDeliveries`/`Resolve`, `Abandon` | `detect_receipt_gaps` and the two resolving sweeps; `transition_assignment`; a cycle that times out |
| `ReceiptVerdict`, `DeliveryVerdict` | `resolve_from_receipts`; `deliveries_to_evidence` |
| `Materialize`, `Reach`, `Conclude` | `Outbox`, in the states `deliveries_to_evidence` tells apart: fan-out to the endpoints that are active, a request that arrives early or late, one transaction that ends some deliveries |

### Inventory

A request that needs variants locks them one by one. The statement that takes
the lock also adds up stock and reservations, on the snapshot from **before** it
waited (PostgreSQL at READ COMMITTED), so `Read` and `Lock` are two steps.

| Model | Code |
|---|---|
| `ledger`, `order`, `due` | `inventory_ledger`; the order reservations; the ones whose `expires_at` has passed |
| `draw`, `prize`, `winner` | `reward_draws`, the campaign's reservation, its fulfilments |
| `request` | what an API request has locked, read and swept |
| `late`, `stale` | history: units sold to payments nothing was reserved for; units by which a decision's sums were ahead of the rows |
| `BeginReserve` … `Reserve`, `Replay`, `CommitOrder`, `ReleaseOrder` | `reserve_inventory_inner` with `expire_due_reservations`, `commit_inventory_inner`, `release_inventory_inner` |
| `CreateCampaign`, `CancelCampaign`, `CompleteDraw`, `DeliverPrize`, `CancelPrize` | reward campaigns, the draw worker, `fulfill_reward_inner` |
| `Adjust`, `Stocktake`, `MarkReady` | manual movements, stocktakes, the activation of the shop |
| `Timeout` | `operation_timeout`: the transaction is dropped |

### PushDelivery

| Model | Code |
|---|---|
| `row`, `made`, `asked` | `fan_push_deliveries`; how often a row was claimed and sent again by an operator (`made` names the claim token) |
| `task`, `wire`, `shown` | a claimed row on its way through a worker; pushes the provider has; pushes displayed |
| `crossed` | history: rows that a late answer of another attempt has changed |
| `ledger` | `communication_campaign_deliveries` of the fan |
| `paused` | the fan's quiet hours, or `push_delivery_enabled` switched off: no claim takes a row (`Due`); the sweep goes on |
| `Enqueue`, `ReconcileCampaigns` | `enqueue_push_campaign`, `reconcile_campaigns` |
| `ClaimRecipient`, `ReportRecipient`, `ExpireClaim` | the other writers of the entry: `claim_campaign_delivery`, `report_campaign_delivery`, and the watchdog, which fails what was claimed 15 minutes ago (so do two handlers) |
| `Claim`, `StartProvider`, `Send`, `Record`, `Lose` | `claim_due`, `start_provider`, the provider call with its five outcomes, `provider_accepted`, `retry_later`, `terminal` |
| `Maintain` | `maintain`: the sweep over inactive endpoints, missing consent, muted categories and overdue rows |
| `Acknowledge`, `OperatorRetry` | the device's acknowledgement; the retry of `ops/handlers.rs` |
| `Withdraw`, `Grant`, `OptOut`, `OptIn`, `Register`, `Unregister`, `Pause` | the fan, the clock and the administrator |

`PushRefinement` maps it to `AtLeastOnce`: an item is a row together with how often an operator asked for it
again, and carried out means displayed. What the fan's preference ended is cancelled for good,
which no acknowledgement, opting in or retry undoes. The campaign's own status is a count over its ledger
and left out: `Enqueue` reads it in a statement before the insert, so it may have changed by then.

## 3. What TLC checks

| Run | Instance | Shows |
|---|---|---|
| `outbox_one` | 1 event (authentication mail), 1 endpoint, 2 workers, 1 attempt of the event and 2 of the delivery, an operator between the statements of a claim, under fairness; 85 416 states | `SingleDispatcher`, `AttemptLedgerComplete`, `LedgerAgreesWithStatus`, `DeliveredWasReceived`, `AuthHasDelivery`, `SettledStays`, `KeepsPromise` (the refinement), `Settles`, `TypeOK` |
| `outbox_batch` | 2 events of one action in one batch, 2 endpoints, 1 worker, 1 attempt of each kind; 1 385 904 | `UnknownMatchesLostAnswers` over all deliveries of all events of an action |
| `lifecycle` | a gated ask of the lane and an action that needs no executor and was approved through a notice, 2 loops, batches of 1, 2 attempts, 1 preparation, under fairness; 298 071 | `AttemptsAddUp`, `SingleRunner`, `RanAtMostOnce`, `CancelledNeverSent`, `OperatorHolds`, `HandIsFinal`, `LedgerNeverRefuses`, `Settles`, `TypeOK` |
| `leadership` | 3 processes and 1 deployment, under fairness; 8 910 | `OverlapNeedsLapse`, `Succession`, `TypeOK` |
| `receipts` | an executor that claims and one that does not, 2 tokens, 2 reports of executors, 2 moments, under fairness; 514 425 | `LaterRunNeedsFailure`, `ClaimTellsReports`, `VerdictHasReport`, `SuccessIsLearned`, `GapIsReal`, `ConfirmedStands`, `Reconciled`, `TypeOK` |
| `inventory` | 2 variants (one sold without stock), 2 requests, 2 orders of both (2 units of the one with stock), a campaign with 2 winners, a stocktake that counts 2, a manual movement of -2; 694 162 up to symmetry | `PaidOnce`, `ShortageAccounted`, `PrizesBalance`, `SortedRequestsNeverCircle`, `TypeOK` |
| `push` | 1 device, 2 attempts, 1 operator retry, under fairness; 388 096 | `DeliveredWasShown`, `NoBlindResend`, `PushKeepsPromise` (the refinement), `RowsEnd`, `TypeOK` |
| `doc_*` | small | one documented sentence each that the code does not keep (section 6) |

**Bounds, and why they are enough.** Two workers are what it takes for a lease
to be lost to somebody; the fences compare one row with one holder, so a third
adds no comparison (the proofs admit any number). Two attempts give every
transition of a delivery a retry, a last attempt and a take-over of each. The
event itself has one attempt in the outbox runs, to keep them short; with
`MaxEventAttempts = 2` TLC confirms `outbox_one` too (181 912 states). Two endpoints are
needed for deliveries of one action to end differently, two events for a batch
to fail because of a neighbour. `MaxPrepares` bounds the letters per ask; the run has one, and what a second
preparation (a rotated token) may do is left to the proofs, which have no bound on it. A batch of 1
is full as soon as one row is passed over. In `Receipts`, `MaxToken` 2 gives a token and its successor,
`MaxMoment` 2 lets reports arrive in the order they happened, reversed, or
with equal times, and `MaxFiled` 2 is what a success and its contradiction
need; what the reconciliation files comes on top. In `Inventory`, two requests that lock two variants are the
smallest instance in which a circle could close and a sum could be out of date;
an order takes the whole stock, so that whoever comes second finds nothing. In `PushDelivery`, `MaxAsked`
bounds the operator's retries; the number of claims follows from it.
The code's own limits (5 action attempts, `max_attempts`, `MAX_ATTEMPTS`) are constants of
the modules. `CHECK_DEADLOCK FALSE` is set where everything may have ended: the
processes of `Leadership`, the receipts of `Receipts`, the orders and movements of
`Inventory`, a push with its retries used up. Symmetry is used in safety runs only
(the requests and the two equal orders of `inventory`, the workers of `doc_ambiguous`).

**Fairness, and why the code justifies it.** The outbox and action loops poll for ever and
processes are restarted, so a step of a live process is weakly fair. A
transaction that a crash, a competitor or an operator can disable is strongly
fair: it is tried again at each poll, `ORDER BY available_at` gives each row its
turn, and a process does not crash at the same step every time. For the claims of the outbox this
needs that a claim moves every row it has selected, which it does; and it is asked only of claims no operator disturbs
between their statements. For those of the lifecycle it does not hold: rows whose capability is gone
are selected first, stay as they are and count against the batch. So the fairness there
is that of a claim with room in its batch, and `Settles` excuses the states in which passed-over rows fill it
(`Crowded`). It is stated only for the actions `Settles` speaks of.

The push worker polls every five seconds. Its sweep comes first in each poll and takes every row it finds overdue, so it is
weakly fair. A claim needs more: a fit row, no quiet hours, the flag on. It is weakly fair, so
that it must come only if none of that changes any more; `RowsEnd` asks what becomes of the pushes once fan
and administrator leave their settings alone, and excuses a row nobody may take (`Waits`: paused, or recovered on
its last attempt, section 6). Calls have timeouts. The reconciliation runs on a
ticker: what its sweeps go on returning they are run with, and the write does not time
out every time. But the gap sweep does not return every candidate (its limit, section 6): `hidden` says
which sweeps do not, and `Reconciled` excuses an action that is hidden again and again. Nothing external is fair: no endpoint or device has to answer, no
executor has to report or advertise, no person has to act. For leadership, a candidate polls
every two seconds and its answers are not lost for ever; a lease nobody renews runs out.

## 4. What TLAPS proves

Eight proof modules, for every set of events, endpoints, workers, actions,
executors, orders and devices and every bound; assumptions are only the named `ASSUME`s on the
constants (positive limits, subsets, no two variants at one place, "nobody" is no worker, the synthesized
reporter is no executor).

**`OutboxProofs`, `OutboxPromiseProofs`.** `TypeCorrect`, `FenceHolds`,
`LedgerComplete`, `LedgerAgreement`, `SettledIsFinal`, `AuthIsSent`,
`UnknownIsLost`, `DeliveredIsTrue`, and `PromiseKept`
(the outbox implements `AtLeastOnce`). None of the invariants is inductive by
itself. The fence needs `AbsentIsFresh` (a delivery that does not exist has no
attempts) and that no task's number exceeds its row's. The ledger
needs `FiledLeaseHasAttempts`: a lease that a sweep has already filed as lost,
but which nobody re-claimed because the claim was full, still has attempts left.
`UnknownIsLost` rests on `FinishLosesNothing`: `finish_delivery` never commits a
lost last attempt (section 6), so only the sweep moves an action and its delivery, and
it moves both. `LedgerAgreement` says what a claim under four snapshots leaves true: attempt
and row agree, except that an operator who switches the endpoint between two statements can leave
'cancelled' on the attempt of a row that is then dead-lettered or about to be claimed again, or 'dead' on that of a cancelled row. The
truth of "delivered" needs `ResolvedWasReceived` (a task resolves as delivered
only after the endpoint acted) and `WireWasClaimed` (a request on the wire
belongs to a claimed attempt). The refinement then maps the rows step by step.

`OutboxServesReceipts` and `OutboxServesLane` prove `SeenByReceipts` and `SeenByLane`: what `Receipts` and
`ActionLifecycle` prove about reconciliation and lane, against environments of a few lines, is
proved against the outbox in full. They need `Unfanned` (only the fan-out opens deliveries: no claim, sweep or
late answer makes one exist) and `ViewRows`, which says how one step may move a delivery; `LaneConcludes` and
`ViewConcludes` then follow the other deliveries of the action. The proofs failed at first, and
for a reason: the environments allowed too little. `Receipts` fanned out to every executor or
to none, let a request arrive only while its delivery was pending, and ended one delivery at a time;
`ActionLifecycle` let nothing arrive late and made an action unknown only with the end of its emission, where the
outbox does it with the first lost delivery of several. Both now allow what the outbox does, and
all their properties hold as before. An event dies in two ways
that reconciliation tells apart, so the event row keeps its error: authentication mail, as `confirmation_recovery`
sends it, finds no route (`endpoint_missing_route`, which proves that nobody was asked), any event
runs out of leases (which proves nothing). What the views do
not cover is the converse, that other writers of the action's row leave the outbox alone: it
reads the row nowhere but in the guard of its one update.

**`LifecycleProofs`.** `TypeCorrect`, `AttemptsWhole`, `OneRunner`, `RunOnce`,
`CancelledIsVoid`, `HandFinal`, `OperatorKeeps`, `LedgerLetsThrough` (no status
update meets the trigger), and `ResolverIsLegal` about the
pure ledger rules (what `legal_transition` lets a caller apply, the trigger
accepts). One inductive invariant carries all of them: `RowSound` (a waiting row has an
attempt to spend; effects belong to actions that succeeded or whose success is in
doubt), `LaneSound` (claim, token and row agree on who has the action; a person
never holds a running row on its last attempt, so the reaper never takes it), `AttemptsSound`
(the attempt ledger; `AttemptsWhole` and it exempt the attempt that a lost approval notice takes away, `TakenAway`, as
`OperatorKeeps` does the actions of `Asked`) and `HoldSound` (what a loop holds is a past attempt or the one
under way, never that of a waiting row or of one a person has taken).

**`LeadershipProofs`.** `TypeCorrect` and `OverlapOnlyByLapse`, from: a running
worker whose lease has not run out since it last extended it still holds a live
lease. Two of them would be the same leader.

**`ReceiptsProofs`.** `TypeCorrect`, `TokensFence`, `ClaimIsTrue`, `VerdictsAreBacked`,
`NoSampleLost`, `GapsAreReal`, `ConfirmationStands`. The invariant has four parts.
`ClaimSound`: no work and no report outside the tokens an executor was granted, a reported
failure under each token but the last, a claim row that tells the last one's story.
`FiledSound`: what a report on file says of action and side effects. `HasLatest`: among the reports
there is a latest one. `CycleSound`: what a sweep that has read its candidates may
still rely on; without it a verdict read from the outbox could be written
over a receipt that landed meanwhile.

**`InventoryProofs`.** `OrderPaidOnce`, `SortedRequestsDoNotDeadlock`, `PrizesAreAccounted`. What could undo the first
is a request that has swept an
expired order and not committed while the payment arrives; the row lock of its update makes
the payment wait, which is `ExpiringUnpaid`. The second rests on `LocksAscend`: what a request has
locked comes, in SKU order, before what it still needs. In a circle the request that asks
for the highest variant would wait for one that asks for a higher one.

For the third, `PrizesBalance` speaks of drawn campaigns; `PrizeSound`
adds what holds before: the reservation is whole, no rank has a fulfilment and the
ledger no row. Then the draw establishes the balance and each fulfilment keeps it.

**`StockProofs`.** `ShortageIsAccounted`, `InventoryTyped`, `LocksHold`. Stock and reservations are sums
over the rows of a table. The first part proves what is needed of them: `SumFunction` over a finite set
exists, does not depend on the order in which it is taken, and changes by what one summand changes
(`SumDiffers`). The library's induction over finite sets takes a property as a parameter, which the
provers cannot instantiate; here a set of numbers takes its place (`NatSetInduction`, and
`SubsetInduction` over the subsets of a finite set). `ShortageAccounted` is not inductive: a request decides on
sums it read before its lock was granted and writes later. `StockInv` carries over what it knows
meanwhile. `RequestsSound`: what it has locked it has read, what it read affords what
it wants, the key it will file its stocktake under is still free. `LedgerSound` and `RowsSound`: finitely many
rows of the right kind, and what falls due was placed. Each action then
changes the three sums of `Available` by known amounts, and `Excess` makes up for outdated sums. Since `stale` is
history that the model itself keeps, `LocksHold` says how far it can reach: while a request holds a
variant's row, no other request, payment, draw or prize takes of the variant (`LockHolds`), so a decision can be
wrong only about what happened while it waited. It rests on `LocksExclusive`. `LockHolds`
is no property of a run, but can be added to `Inventory.cfg`, where TLC confirms it.

**`PushProofs`.** `TypeCorrect`, `SentOnlyOnce`, `DeliveredIsShown`, `PromiseKept` (push delivery implements
`AtLeastOnce`), `MutedStays`. The invariant
counts claims against attempts and retries (`RowSound`), gives every task its push
to itself (`TaskSound`), and says that of the pushes that may reach the provider there is one per queuing and
the row knows of it (`SentOnce`, `SentKnown`), unless a late answer of another
attempt has changed the row. The refinement needs no such exception: `RowMoves` says what a step may do
to a row, and an acknowledged push is of the row's present asking because its claim is the row's
token (`PushSound`). `Fresh` (a row that does not exist was never claimed) lets a retry open
a new item.

**Only model-checked.** Liveness (`Settles` of the outbox and of the lifecycle,
`Succession`, `Reconciled`, `RowsEnd`) is out of the prover's reach, and so
is everything with `ENABLED`. Every other property of the runs is a theorem.
`SeenByReceipts` and `SeenByLane` take the event as a parameter of `INSTANCE`, which TLC cannot
evaluate in a temporal property; with the event `e1` of `outbox_batch` written in its place it confirms both
on that instance.

## 5. Hazards

`PROJECT.json` lists them with their lines and the property that guards each. Some have none, with the
reason in their note: consent is read once per batch (the consent tables are not
modelled), and in four places the models have the step and the code rules nothing out: a request
carried out after its delivery was concluded, a lost approval notice, a late answer that falls on another attempt
of a push, and a campaign entry failed while its push can still be acknowledged. What some properties
excuse (`Crowded`, `hidden`, `Waits`) stands in the notes of their hazards.

## 6. Where the code and its text disagree

Each of the first five has a run that ends in a counterexample.

- `doc_ambiguous` (a bug). `finish_delivery` writes status `dead` for the
  outcome `ambiguous` but `dead_at` only for `dead`. The table's `CHECK` refuses the
  row and the transaction, the action's move to `unknown` included, rolls back. The
  lease sweep files the delivery later, as a lost attempt. (`HeldResolutionCanCommit`)
- `doc_second_send`. Between its emission and its fan-out an ask looks
  undelivered, can be prepared and mailed by hand, and is carried out as well. (`NeverSecondSend`)
- `doc_passed_over`. `actions.rs:571-575` says that a stale `processing` row whose capability is gone will be reaped.
  The claim that would raise its counter passes it over at every poll (`Candidate`, `Runnable`, `Reaped`), under the fairest
  scheduling and with room in the batch. Because such rows are selected first and count against the limit of 32, enough of them
  starve every younger action, those that need no executor included. (`PassedOverIsReaped`)
- `doc_confirmed`. A success that a provider confirmed becomes `unknown` when the last
  answer of its webhook delivery is lost; a delayed failure is then a legal verdict. What
  does hold is `ConfirmedStands`. (`ConfirmedNeverFails`)
- `doc_enqueue` (a bug). `enqueue_push_campaign` fills the campaign's ledger and the device
  ledger in one statement; the second `INSERT` does not see what the first one
  writes, so the first call creates no delivery. A second call repairs it only within the
  15 minutes after which the watchdog fails the entry. (`EnqueuedIsQueued`)

Noted while modelling, visible in the definitions, without a run:

- `leadership.rs:5` says only one worker generation runs background loops at any
  time: a worker whose lease was taken stops renewing and keeps its loops running
  (`Renew`). What does hold is `OverlapNeedsLapse`.
- `deploy-bluegreen.sh:496` verifies that the candidate holds the lease: its query accepts
  any unexpired lease, that of the worker it has just stopped included (`Verify`).
- `main.rs:278` speaks of proceeding best-effort; `acquire_leadership` waits for ever in
  both modes.
- `actions.rs:571-575` also calls `RUNNING` to `QUEUED` illegal, which `fail_action` does and the trigger allows.
- `outbox/repository.rs:576-581` keeps queued actions out of the move to `unknown`, since an event that hangs off a
  queued action is the notice that asks for approval, and its loss "says nothing about an external side effect". A notice
  whose last answer is lost after the approval finds the action running or succeeded and moves it
  all the same (`LostElsewhere`, `SweptAction`); its loop's commit then finds no row to finish, and the attempt is never closed.
- `claim_deliveries` takes its endpoint flags from a snapshot per statement: an operator who switches an
  endpoint in between leaves an attempt filed as 'dead' on a row that is cancelled, or as 'cancelled' on one that is dead
  or claimed again (`LedgerAgrees` names these cases and no other).
- `receipt_reconciliation.rs:102` says of the batch limit that a large backlog drains progressively. The gap sweep skips rows
  that owe no receipt, or do not parse, only after the limit; they stay the oldest candidates, and 500 of
  them hide every later gap (`hidden`).
- `resolve_from_outbox` reads without a lock and asks on writing only whether the action is still `unknown`: what it read of an
  earlier doubt may decide a later one (`ReadDeliveries`, `Resolve`).
- A push whose claim is recovered on its last attempt is queued with its counter at the limit: no claim takes it,
  no sweep ends it, and the operator's retry refuses it (`Overdue`, `Due`, `Retriable`).
- A campaign's ledger entry expires after the same 15 minutes that a device has to acknowledge: it can be failed while the push
  is still displayed and acknowledged, and then stays failed (`ExpireClaim`, `Settled`).
- `settle_abandoned_execution_claims` can close a claim as succeeded without a
  receipt (`SettleClaim`), which `beacon_lane.rs:832` rules out.
- A delivery cancelled for its inactive endpoint, or dead with a definitive error
  kind, may have been carried out by an earlier attempt (`SweptDelivery`, `ErrorOf`,
  `Ends` of `Receipts`), which `receipt_reconciliation.rs:1129` and `:1165` ("provably never left the
  building") and `action_ledger.rs:357` rule out.
- `receipt_reconciliation.rs:46` has assignments follow the action through every
  transition: a resolution moves only an assignment that is itself `unknown` (`FollowedBy`).
- Stock can be promised twice by two buyers that waited for the same variant, because
  the locking statement of `lock_variant_availability` adds up before it waits (`Read`, `Lock`). `ShortageAccounted`
  is what holds: beyond such outdated sums and late payments nothing is oversold.

## 7. Plan

Done: `Outbox`, `ActionLedger`, `ActionLifecycle`, `Leadership`, `Receipts`, `Inventory` and
`PushDelivery`, with liveness, refinement, documented sentences and proofs. Next,
in this order:

1. `AgentOutcomes`: take, map, and the stale reset that measures from `created_at`.
2. `ExecutorRegistry`: heartbeats, expiry, the circuit breaker with its ordering by
   `last_failure_at`; refines the flags `registered` and `live` of `ActionLifecycle`.
3. `Admission`: two gates and one pass.
4. A composition of `ActionLifecycle` and `Receipts`: one action from approval to verdict. That the outbox
   fits the environments of both is proved; that the lane and the executors fit each other's is not.
5. Fan privacy: erasure and withdrawal against sends that are queued or under way.
6. `Draws`: the weighted selection as an operator against a reference definition.

Theorems next: the composition of point 4, from the invariants of its parts.

## 8. Not modelled, and why

Scoring and learning (`crowdrelay-brain`) is floating-point numerics. Provider
synchronisation, proof anchoring and attestation are I/O and cryptographic content.
Formatting, drafting, routing and configuration have no concurrent state. In
modelled components the following is left out: what each success side effect
writes; wave windows and expiry dates (a free choice of the rows approved); heartbeats
and progress reports; the status of push campaigns, back-off times, essential, staff and nearby-concert pushes; beacon-release
campaigns, catalogue edits and admission prizes. The rest
of the table in section 1 is ordinary transactional code that the plan reaches
later or that has one writer per row.

## Running it

`tlc -config <X>.cfg <M>.tla` with `MCOutbox` (`OutboxOne`, `OutboxBatch`, `DocAmbiguous`),
`MCActionLifecycle` (`Lifecycle`, `DocSecondSend`, `DocPassedOver`), `MCLeadership` (`Leadership`), `MCReceipts`
(`Receipts`), `ReceiptsDocs` (`DocConfirmed`), `MCInventory` (`Inventory`), `MCPush` (`Push`)
and `PushDocs` (`DocEnqueue`); `tlapm <P>.tla` with each of the modules whose
name ends in `Proofs`.
