---------------------------- MODULE PushDelivery ----------------------------
(***************************************************************************)
(* A push campaign to one fan: a delivery row for each of the fan's        *)
(* devices, the workers that claim a row and hand it to the push provider, *)
(* the device that acknowledges what it displayed, the maintenance sweep,  *)
(* and the campaign ledger that is settled from the rows.                  *)
(*                                                                         *)
(* A claimed row is carried by a task of its own.  The writes a task makes *)
(* after the provider answered name the row and its status and not the     *)
(* claim, so they are steps of the task that may fall on a later attempt:  *)
(* two worker processes overlap while leadership changes hands, and the    *)
(* one that sweeps need not be the one whose task is still waiting.        *)
(*                                                                         *)
(* The campaign's own status is a count over its ledger and left out: all  *)
(* that depends on it is whether an executor may still claim the fan.      *)
(***************************************************************************)
EXTENDS Naturals, FiniteSets

CONSTANTS
  Device,       \* the fan's push endpoints
  MaxAttempts,  \* MAX_ATTEMPTS
  MaxAsked      \* bound: operator retries of one row

ASSUME PushAssumption == MaxAttempts \in Nat \ {0} /\ MaxAsked \in Nat

VARIABLES
  row,       \* fan_push_deliveries, one per device
  endpoint,  \* devices whose endpoint is active
  consent,   \* the fan's latest marketing consent is granted
  wanted,    \* the fan's preference for the campaign's category
  paused,    \* the fan's quiet hours, or the flag push_delivery_enabled is off
  task,      \* claimed rows on their way through a worker
  made,      \* claims made of each row; the last of them names its token
  asked,     \* operator retries of each row
  wire,      \* pushes the provider has taken over
  shown,     \* pushes the device has displayed
  crossed,   \* history: rows some late answer of another attempt changed
  ledger     \* communication_campaign_deliveries.status of the fan

vars == <<row, endpoint, consent, wanted, paused, task, made, asked, wire, shown,
          crossed, ledger>>

fan == <<endpoint, consent, wanted, paused>>
device == <<wire, shown>>

Open == {"queued", "retry_wait", "claimed", "provider_started", "provider_accepted"}
Outcomes == {"accepted", "retry", "failed", "gone", "ambiguous"}

Claims == 0..MaxAttempts * (MaxAsked + 1)   \* 0: no token

Row == [status : {"none", "delivered", "failed", "ambiguous"} \cup Open,
        tries : 0..MaxAttempts,
        token : Claims, ack : Claims, muted : BOOLEAN]

\* the push of claim n of a row, made after so many operator retries
Push == [device : Device, claim : Claims \ {0}, asked : 0..MaxAsked]

Task == [push : Push, stage : {"claimed", "sending"} \cup Outcomes]

Blank == [status |-> "none", tries |-> 0, token |-> 0, ack |-> 0, muted |-> FALSE]

Init ==
  /\ row = [d \in Device |-> Blank]
  /\ endpoint \in SUBSET Device
  /\ consent \in BOOLEAN /\ wanted \in BOOLEAN
  /\ paused \in BOOLEAN
  /\ task = {}
  /\ made = [d \in Device |-> 0] /\ asked = [d \in Device |-> 0]
  /\ wire = {} /\ shown = {} /\ crossed = {}
  /\ ledger = "none"

-----------------------------------------------------------------------------
(* The fan.                                                                *)

Withdraw ==
  /\ consent /\ consent' = FALSE
  /\ UNCHANGED <<row, endpoint, wanted, paused, task, made, asked, device, crossed,
                 ledger>>

OptOut ==
  /\ wanted /\ wanted' = FALSE
  /\ UNCHANGED <<row, endpoint, consent, paused, task, made, asked, device, crossed,
                 ledger>>

\* opting in again must not wake what was ended
OptIn ==
  /\ ~wanted /\ wanted' = TRUE
  /\ UNCHANGED <<row, endpoint, consent, paused, task, made, asked, device, crossed,
                 ledger>>

\* consent and endpoints may come back as well as go
Grant ==
  /\ ~consent /\ consent' = TRUE
  /\ UNCHANGED <<row, endpoint, wanted, paused, task, made, asked, device, crossed,
                 ledger>>

Register(d) ==
  /\ consent /\ d \notin endpoint /\ endpoint' = endpoint \cup {d}
  /\ UNCHANGED <<row, consent, wanted, paused, task, made, asked, device, crossed,
                 ledger>>

Unregister(d) ==
  /\ d \in endpoint /\ endpoint' = endpoint \ {d}
  /\ UNCHANGED <<row, consent, wanted, paused, task, made, asked, device, crossed,
                 ledger>>

\* Quiet hours begin or end, by the clock or as the fan sets them (hours that
\* end where they start never do), or an administrator turns the flag.  A poll
\* reads the flag before it claims: a claim that still saw it on comes before
\* this step.
Pause ==
  /\ paused' = ~paused
  /\ UNCHANGED <<row, endpoint, consent, wanted, task, made, asked, device, crossed,
                 ledger>>

Display(p) ==
  /\ p \in wire \ shown /\ shown' = shown \cup {p}
  /\ UNCHANGED <<row, fan, task, made, asked, wire, crossed, ledger>>

\* Wrong: any token.
AckMatchesAny(p) == p \in shown

\* the token in the push names the attempt
AckMatches(p) == row[p.device].ack = p.claim

\* Wrong: a late display revives what was given up.
AwaitsAckLate == {"provider_started", "provider_accepted", "failed"}

\* a late display does not revive what was given up
AwaitsAck == {"provider_started", "provider_accepted"}

Acknowledge(p) ==
  /\ p \in shown
  /\ AckMatches(p) /\ row[p.device].status \in AwaitsAck
  /\ row' = [row EXCEPT ![p.device].status = "delivered"]
  /\ UNCHANGED <<fan, task, made, asked, device, crossed, ledger>>

-----------------------------------------------------------------------------
(* The campaign.                                                           *)

\* Both INSERTs of the one statement see the ledger as it was before it.  What
\* the handler checks before, the flag and the campaign's status, are reads of
\* their own: either may have changed since.
Enqueue ==
  /\ row' = [d \in Device |->
       IF ledger = "claimed" /\ consent /\ d \in endpoint /\ row[d].status = "none"
       THEN [row[d] EXCEPT !.status = "queued"] ELSE row[d]]
  /\ ledger' = IF ledger # "none" THEN ledger
               ELSE IF consent /\ endpoint # {} THEN "claimed" ELSE "failed"
  /\ UNCHANGED <<fan, task, made, asked, device, crossed>>

Settled ==
  LET rows == {row[d].status : d \in Device} \ {"none"}
  IN IF ledger # "claimed" \/ rows = {} THEN ledger
     ELSE IF "delivered" \in rows THEN "delivered"
     ELSE IF rows \cap Open = {} THEN "failed" ELSE ledger

\* an executor of campaigns claims the fan for a send of its own
ClaimRecipient ==
  /\ ledger = "none" /\ consent
  /\ ledger' = "claimed"
  /\ UNCHANGED <<row, fan, task, made, asked, device, crossed>>

\* whoever has the entry's attempt_key reports what became of it
ReportRecipient ==
  /\ ledger = "claimed"
  /\ ledger' \in {"delivered", "failed"}
  /\ UNCHANGED <<row, fan, task, made, asked, device, crossed>>

\* the watchdog and two handlers fail an entry claimed a quarter of an hour
\* ago, whatever its pushes are doing
ExpireClaim ==
  /\ ledger = "claimed"
  /\ ledger' = "failed"
  /\ UNCHANGED <<row, fan, task, made, asked, device, crossed>>

\* a transaction of its own behind every sweep and every terminal answer
ReconcileCampaigns ==
  /\ ledger' = Settled
  /\ ledger' # ledger
  /\ UNCHANGED <<row, fan, task, made, asked, device, crossed>>

-----------------------------------------------------------------------------
(* Workers.                                                                *)

\* Wrong: the attempts are not counted.
DueUnlimited(d) ==
  /\ row[d].status \in {"queued", "retry_wait"}
  /\ d \in endpoint /\ consent /\ wanted /\ ~paused

Due(d) ==
  /\ row[d].status \in {"queued", "retry_wait"}
  /\ row[d].tries < MaxAttempts
  /\ d \in endpoint /\ consent /\ wanted /\ ~paused

Claim(d) ==
  /\ Due(d)
  /\ made' = [made EXCEPT ![d] = @ + 1]
  /\ row' = [row EXCEPT ![d].status = "claimed", ![d].tries = @ + 1, ![d].token = made'[d]]
  /\ task' = task \cup {[push |-> [device |-> d, claim |-> made'[d], asked |-> asked[d]],
                         stage |-> "claimed"]}
  /\ UNCHANGED <<fan, asked, device, crossed, ledger>>

StartProvider(t) ==
  LET d == t.push.device IN
  /\ t.stage = "claimed"
  /\ IF row[d].status = "claimed" /\ row[d].token = t.push.claim
     THEN /\ row' = [row EXCEPT ![d].status = "provider_started", ![d].ack = t.push.claim]
          /\ task' = (task \ {t}) \cup {[t EXCEPT !.stage = "sending"]}
     ELSE row' = row /\ task' = task \ {t}
  /\ UNCHANGED <<fan, made, asked, device, crossed, ledger>>

\* a transport error or a 5xx leaves open whether the push is on its way
OnItsWay(outcome) ==
  CASE outcome = "accepted"  -> {TRUE}
    [] outcome = "ambiguous" -> BOOLEAN
    [] OTHER                 -> {FALSE}

Send(t) ==
  /\ t.stage = "sending"
  /\ \E outcome \in Outcomes : \E taken \in OnItsWay(outcome) :
       /\ task' = (task \ {t}) \cup {[t EXCEPT !.stage = outcome]}
       /\ wire' = IF taken THEN wire \cup {t.push} ELSE wire
  /\ UNCHANGED <<row, fan, made, asked, shown, crossed, ledger>>

\* what an answer makes of the row it finds
Answered(r, outcome) ==
  CASE outcome = "accepted" /\ r.status = "provider_started" ->
         [r EXCEPT !.status = "provider_accepted"]
    [] outcome = "retry" /\ r.status = "provider_started" ->
         [r EXCEPT !.status = IF r.tries >= MaxAttempts THEN "failed" ELSE "retry_wait",
                   !.token = 0, !.ack = 0]
    [] outcome \in {"failed", "gone"} /\ r.status \in {"claimed", "provider_started", "provider_accepted"} ->
         [r EXCEPT !.status = "failed"]
    [] outcome = "ambiguous" /\ r.status \in {"claimed", "provider_started", "provider_accepted"} ->
         [r EXCEPT !.status = "ambiguous"]
    [] OTHER -> r

Record(t) ==
  LET d == t.push.device IN
  /\ t.stage \in Outcomes
  /\ row' = [row EXCEPT ![d] = Answered(@, t.stage)]
  /\ endpoint' = IF t.stage = "gone" /\ row'[d] # row[d] THEN endpoint \ {d} ELSE endpoint
  /\ crossed' = IF row'[d] # row[d] /\ row[d].token # t.push.claim THEN crossed \cup {d} ELSE crossed
  /\ task' = task \ {t}
  /\ UNCHANGED <<consent, wanted, paused, made, asked, device, ledger>>

\* the process dies, or the statement times out
Lose(t) ==
  /\ task' = task \ {t}
  /\ UNCHANGED <<row, fan, made, asked, device, crossed, ledger>>

\* Wrong: a push whose worker was lost is sent again.
OverdueResent(r) ==
  IF r.status \in {"claimed", "provider_started"}
  THEN [r EXCEPT !.status = "queued", !.token = 0] ELSE r

\* Wrong: a device may take for ever to answer.
OverdueOpen(r) ==
  CASE r.status = "claimed"           -> [r EXCEPT !.status = "queued", !.token = 0]
    [] r.status = "provider_started"  -> [r EXCEPT !.status = "ambiguous"]
    [] OTHER                          -> r

\* a claim whose worker went missing is free again, a push that may be on its
\* way is left in doubt, and a silent device is given up
Overdue(r) ==
  CASE r.status = "claimed"           -> [r EXCEPT !.status = "queued", !.token = 0]
    [] r.status = "provider_started"  -> [r EXCEPT !.status = "ambiguous"]
    [] r.status = "provider_accepted" -> [r EXCEPT !.status = "failed"]
    [] OTHER                          -> r

Maintained(d, old) ==
  LET r == row[d] IN
  IF r.status \in {"queued", "retry_wait", "claimed"} /\ (d \notin endpoint \/ ~consent)
  THEN [r EXCEPT !.status = "failed"]
  ELSE IF r.status \in {"queued", "retry_wait"} /\ ~wanted
  THEN [r EXCEPT !.status = "failed", !.muted = TRUE]
  ELSE IF old THEN Overdue(r) ELSE r

\* old rows: claimed or started three timeouts ago, past their ack deadline
Maintain(old) ==
  /\ row' = [d \in Device |-> Maintained(d, d \in old)]
  /\ row' # row
  /\ UNCHANGED <<fan, task, made, asked, device, crossed, ledger>>

\* Wrong: whatever ended it.
RetriableAll(d) == row[d].status \in {"failed", "ambiguous"}

Retriable(d) == row[d].status \in {"failed", "ambiguous"} /\ ~row[d].muted

OperatorRetry(d) ==
  /\ Retriable(d)
  /\ asked[d] < MaxAsked
  /\ asked' = [asked EXCEPT ![d] = @ + 1]
  /\ row' = [row EXCEPT ![d] = [Blank EXCEPT !.status = "queued"]]
  /\ UNCHANGED <<fan, task, made, device, crossed, ledger>>

Next ==
  \/ Withdraw \/ Grant \/ OptOut \/ OptIn \/ Pause
  \/ Enqueue \/ ClaimRecipient \/ ReportRecipient \/ ExpireClaim \/ ReconcileCampaigns
  \/ \E d \in Device : Register(d) \/ Unregister(d) \/ Claim(d) \/ OperatorRetry(d)
  \/ \E p \in wire : Display(p) \/ Acknowledge(p)
  \/ \E t \in task : StartProvider(t) \/ Send(t) \/ Record(t) \/ Lose(t)
  \/ \E old \in SUBSET Device : Maintain(old)

Spec == Init /\ [][Next]_vars

-----------------------------------------------------------------------------
(* Properties.                                                             *)

\* Every row, task and ledger entry has the shape its schema gives it.
TypeOK ==
  /\ row \in [Device -> Row]
  /\ endpoint \subseteq Device /\ consent \in BOOLEAN /\ wanted \in BOOLEAN
  /\ paused \in BOOLEAN
  /\ task \subseteq Task
  /\ made \in [Device -> Claims] /\ asked \in [Device -> 0..MaxAsked]
  /\ wire \subseteq Push /\ shown \subseteq wire /\ crossed \subseteq Device
  /\ ledger \in {"none", "claimed", "delivered", "failed"}

\* "A device acknowledgement after display is required for the terminal
\* delivered state": whatever attempts, sweeps and operator retries went
\* before, the push that was displayed is the one the row was last sent with.
DeliveredWasShown ==
  \A d \in Device : row[d].status = "delivered" =>
    \E p \in shown : p.device = d /\ p.claim = row[d].token /\ p.asked = asked[d]

\* "Automatic resend suppressed": without an operator, and unless the answer
\* of an earlier attempt fell on a later one, the provider takes one push of
\* a delivery over, however often workers are lost and claims recovered.
NoBlindResend ==
  \A p, q \in wire :
    p.device = q.device /\ p.asked = q.asked /\ p.device \notin crossed => p = q

\* A delivery ended because its category was switched off never leaves again,
\* not when the fan opts in later and not by an operator's retry.
MutedStaysMuted ==
  [][\A d \in Device : row[d].muted => row'[d] = row[d]]_vars
=============================================================================
