----------------------------- MODULE PushProofs -----------------------------
(***************************************************************************)
(* Proofs about PushDelivery, for any devices, attempts and operator       *)
(* retries.                                                                *)
(*                                                                         *)
(* One inductive invariant.  Its first part counts: a row has no more      *)
(* claims behind it than its retries and attempts allow, and a push never  *)
(* names a claim that was not made.  Its second part says what the status  *)
(* of a row tells of its token.  Its third part says what a push that may  *)
(* reach the provider tells of its row, and is void for a row that a late  *)
(* answer of another attempt has changed.                                  *)
(***************************************************************************)
EXTENDS PushRefinement, TLAPS

\* The claims that so many queuings of a row allow.
Quota(n) == MaxAttempts * n

\* A queuing more allows MaxAttempts claims more.
LEMMA QuotaFacts ==
  ASSUME NEW n \in Nat
  PROVE  /\ Quota(n) \in Nat
         /\ Quota(n + 1) = Quota(n) + MaxAttempts
         /\ \A k \in Nat : k <= n => Quota(k) <= Quota(n)
<1> USE PushAssumption DEF Quota
<1>1. MaxAttempts \in Nat
  OBVIOUS
<1>2. MaxAttempts * n \in Nat
  BY <1>1
<1>3. MaxAttempts * (n + 1) = MaxAttempts * n + MaxAttempts
  BY <1>1
<1>4. ASSUME NEW k \in Nat, k <= n
      PROVE  MaxAttempts * k <= MaxAttempts * n
  <2>1. PICK j \in Nat : n = k + j
    BY <1>4
  <2>2. MaxAttempts * n = MaxAttempts * k + MaxAttempts * j
    BY <1>1, <2>1
  <2>3. MaxAttempts * j \in Nat /\ MaxAttempts * k \in Nat
    BY <1>1
  <2> QED BY <2>2, <2>3
<1> QED BY <1>2, <1>3, <1>4

\* The numbers a claim may have.
LEMMA ClaimsAre ==
  /\ Claims = 0..Quota(MaxAsked + 1)
  /\ Claims \subseteq Nat
  /\ 0 \in Claims
<1>1. MaxAsked + 1 \in Nat
  BY PushAssumption
<1>2. Quota(MaxAsked + 1) \in Nat
  BY <1>1, QuotaFacts
<1> QED BY <1>2 DEF Claims, Quota

\* What is known of every push, with the provider or on its way to it.
PushSound(p) ==
  /\ p.claim <= made[p.device] /\ p.asked <= asked[p.device]
  /\ p.claim = row[p.device].token => p.asked = asked[p.device]

\* What is known of every row.
RowSound(d) ==
  /\ row[d].token <= made[d]
  /\ made[d] <= Quota(asked[d]) + row[d].tries
  /\ row[d].status \in AwaitsAck => row[d].ack = row[d].token
  /\ row[d].muted => row[d].status = "failed"

\* A task has its push to itself, and hands it over once.
TaskSound(t) ==
  /\ \A s \in task : s.push = t.push => s = t
  /\ t.stage \notin {"accepted", "ambiguous"} => t.push \notin wire

\* The provider has the push, or a task is handing it over.
Live(p) == p \in wire \/ \E t \in task : t.stage = "sending" /\ t.push = p

Unsent == {"none", "queued", "retry_wait", "claimed"}

\* One live push for each retry of a row that no late answer has changed, and
\* the row knows of it.
SentOnce ==
  \A p, q \in Push :
    (Live(p) /\ Live(q) /\ p.device = q.device /\ p.asked = q.asked /\ p.device \notin crossed)
      => p = q

SentKnown ==
  \A p \in Push :
    (Live(p) /\ p.asked = asked[p.device] /\ p.device \notin crossed) =>
      /\ row[p.device].status \notin Unsent
      /\ row[p.device].status \in AwaitsAck => p.claim = row[p.device].token

Sound ==
  /\ \A d \in Device : RowSound(d)
  /\ \A p \in wire : PushSound(p)
  /\ \A t \in task : PushSound(t.push) /\ TaskSound(t)

IInv == TypeOK /\ Sound /\ SentOnce /\ SentKnown

-----------------------------------------------------------------------------
(* What the answers and the sweep make of a row.                           *)

\* An answer changes only a row in flight, and a row that waits again has no token.
LEMMA AnsweredRow ==
  ASSUME NEW r \in Row, NEW outcome \in Outcomes, NEW a, a = Answered(r, outcome), a # r
  PROVE  /\ a \in Row
         /\ a.tries = r.tries /\ a.muted = r.muted
         /\ r.status \in {"claimed", "provider_started", "provider_accepted"}
         /\ a.status \in {"provider_accepted", "retry_wait", "failed", "ambiguous"}
         /\ \/ a.token = r.token /\ a.ack = r.ack
            \/ a.token = 0 /\ a.status \in {"retry_wait", "failed"}
         /\ a.status = "provider_accepted" => r.status = "provider_started" /\ a.token = r.token /\ a.ack = r.ack
         /\ a.status = "retry_wait" => outcome = "retry" /\ r.status = "provider_started"
<1>1. CASE outcome = "accepted" /\ r.status = "provider_started"
  <2>1. a = [r EXCEPT !.status = "provider_accepted"]
    BY <1>1 DEF Answered
  <2> QED BY <1>1, <2>1 DEF Row, Open
<1>2. CASE outcome = "retry" /\ r.status = "provider_started"
  <2>1. a = [r EXCEPT !.status = IF r.tries >= MaxAttempts THEN "failed" ELSE "retry_wait",
                      !.token = 0, !.ack = 0]
    BY <1>2 DEF Answered
  <2> QED BY <1>2, <2>1, ClaimsAre DEF Row, Open
<1>3. CASE /\ outcome \in {"failed", "gone", "ambiguous"}
           /\ r.status \in {"claimed", "provider_started", "provider_accepted"}
  <2>1. a = [r EXCEPT !.status = IF outcome = "ambiguous" THEN "ambiguous" ELSE "failed"]
    BY <1>3 DEF Answered
  <2> QED BY <1>3, <2>1 DEF Row, Open
<1>4. \/ outcome = "accepted" /\ r.status = "provider_started"
      \/ outcome = "retry" /\ r.status = "provider_started"
      \/ /\ outcome \in {"failed", "gone", "ambiguous"}
         /\ r.status \in {"claimed", "provider_started", "provider_accepted"}
  BY DEF Answered, Outcomes
<1> QED BY <1>1, <1>2, <1>3, <1>4

\* The sweep queues a row again, ends it or leaves it in doubt.
LEMMA MaintainedRow ==
  ASSUME TypeOK, NEW d \in Device, NEW old \in SUBSET Device, NEW m,
         m = Maintained(d, d \in old), m # row[d]
  PROVE  /\ m \in Row
         /\ m.tries = row[d].tries
         /\ m.token \in {0, row[d].token}
         /\ row[d].status \in Open /\ m.status \in {"queued", "failed", "ambiguous"}
         /\ m.status = "queued" => row[d].status = "claimed"
         /\ m.muted => m.status = "failed" \/ row[d].muted
<1>0. row[d] \in Row
  BY DEF TypeOK
<1>1. CASE row[d].status \in {"queued", "retry_wait", "claimed"} /\ (d \notin endpoint \/ ~consent)
  <2>1. m = [row[d] EXCEPT !.status = "failed"]
    BY <1>1 DEF Maintained
  <2> QED BY <1>0, <1>1, <2>1 DEF Row, Open
<1>2. CASE /\ ~(row[d].status \in {"queued", "retry_wait", "claimed"} /\ (d \notin endpoint \/ ~consent))
           /\ row[d].status \in {"queued", "retry_wait"} /\ ~wanted
  <2>1. m = [row[d] EXCEPT !.status = "failed", !.muted = TRUE]
    BY <1>2 DEF Maintained
  <2> QED BY <1>0, <1>2, <2>1 DEF Row, Open
<1>3. CASE /\ ~(row[d].status \in {"queued", "retry_wait", "claimed"} /\ (d \notin endpoint \/ ~consent))
           /\ ~(row[d].status \in {"queued", "retry_wait"} /\ ~wanted)
  <2>1. m = Overdue(row[d])
    BY <1>3 DEF Maintained
  <2>2. CASE row[d].status = "claimed"
    <3>1. m = [row[d] EXCEPT !.status = "queued", !.token = 0]
      BY <2>1, <2>2 DEF Overdue
    <3> QED BY <1>0, <2>2, <3>1, ClaimsAre DEF Row, Open
  <2>3. CASE row[d].status = "provider_started"
    <3>1. m = [row[d] EXCEPT !.status = "ambiguous"]
      BY <2>1, <2>3 DEF Overdue
    <3> QED BY <1>0, <2>3, <3>1 DEF Row, Open
  <2>4. CASE row[d].status = "provider_accepted"
    <3>1. m = [row[d] EXCEPT !.status = "failed"]
      BY <2>1, <2>4 DEF Overdue
    <3> QED BY <1>0, <2>4, <3>1 DEF Row, Open
  <2> QED BY <2>1, <2>2, <2>3, <2>4 DEF Overdue
<1> QED BY <1>1, <1>2, <1>3

-----------------------------------------------------------------------------
(* The invariant.                                                          *)

\* Nothing was queued yet.
LEMMA InitSound == Init => IInv
<1> SUFFICES ASSUME Init PROVE IInv
  OBVIOUS
<1> USE ClaimsAre, PushAssumption
<1>1. Blank \in Row
  BY DEF Blank, Row
<1>2. TypeOK
  BY <1>1 DEF Init, TypeOK
<1>3. \A d \in Device : RowSound(d)
  <2>1. Quota(0) \in Nat
    BY QuotaFacts
  <2> QED BY <2>1 DEF Init, RowSound, Blank, AwaitsAck
<1>4. Sound /\ SentOnce /\ SentKnown
  BY <1>3 DEF Init, Sound, SentOnce, SentKnown, Live
<1> QED BY <1>2, <1>4 DEF IInv

\* A step that touches neither tasks nor pushes: each row stays, or ends, or
\* waits as it did.
Quiet(d) ==
  \/ row'[d] = row[d]
  \/ /\ row'[d].tries = row[d].tries
     /\ row'[d].token \in {0, row[d].token}
     /\ row'[d].status \notin AwaitsAck
     /\ row'[d].status \in Unsent => row[d].status \in Unsent
     /\ row'[d].muted => row'[d].status = "failed"

\* The pushes stay sound where no row is sent, claimed or asked for.
LEMMA QuietStep ==
  ASSUME IInv, UNCHANGED <<task, made, asked, wire, crossed>>,
         \A d \in Device : Quiet(d)
  PROVE  Sound' /\ SentOnce' /\ SentKnown'
<1> USE DEF IInv
<1>1. \A d \in Device : RowSound(d)'
  <2> SUFFICES ASSUME NEW d \in Device PROVE RowSound(d)'
    OBVIOUS
  <2>1. RowSound(d) /\ Quiet(d) /\ made[d] \in Nat
    BY ClaimsAre DEF Sound, TypeOK
  <2> QED BY <2>1 DEF RowSound, Quiet
<1>2. ASSUME NEW p \in Push, PushSound(p)
      PROVE  PushSound(p)'
  <2>1. Quiet(p.device) /\ p.claim # 0
    BY DEF Push
  <2> QED BY <1>2, <2>1 DEF PushSound, Quiet
<1>3. \A p \in wire : PushSound(p)'
  BY <1>2 DEF Sound, TypeOK
<1>4. \A t \in task : PushSound(t.push)' /\ TaskSound(t)'
  BY <1>2 DEF Sound, TypeOK, Task, TaskSound
<1>5. \A p : Live(p)' <=> Live(p)
  BY DEF Live
<1>6. SentOnce'
  BY <1>5 DEF SentOnce
<1>7. SentKnown'
  <2> SUFFICES ASSUME NEW p \in Push, Live(p)', p.asked = asked'[p.device], p.device \notin crossed'
               PROVE  /\ row'[p.device].status \notin Unsent
                      /\ row'[p.device].status \in AwaitsAck => p.claim = row'[p.device].token
    BY DEF SentKnown
  <2>1. Quiet(p.device)
    BY DEF Push
  <2>2. /\ row[p.device].status \notin Unsent
        /\ row[p.device].status \in AwaitsAck => p.claim = row[p.device].token
    BY <1>5 DEF SentKnown
  <2> QED BY <2>1, <2>2 DEF Quiet
<1> QED BY <1>1, <1>3, <1>4, <1>6, <1>7 DEF Sound

\* The fan, the ledger, the device and the sweep.
QuietNext ==
  \/ Withdraw \/ Grant \/ OptOut \/ OptIn \/ Pause
  \/ Enqueue \/ ClaimRecipient \/ ReportRecipient \/ ExpireClaim \/ ReconcileCampaigns
  \/ \E d \in Device : Register(d) \/ Unregister(d)
  \/ \E p \in wire : Display(p) \/ Acknowledge(p)
  \/ \E old \in SUBSET Device : Maintain(old)
  \/ UNCHANGED vars

\* Rows and ledgers keep their types.
LEMMA QuietNextType ==
  ASSUME TypeOK, QuietNext
  PROVE  TypeOK'
<1> USE DEF fan, device
<1>1. CASE Withdraw \/ Grant \/ OptOut \/ OptIn \/ Pause
  BY <1>1 DEF TypeOK, Withdraw, Grant, OptOut, OptIn, Pause
<1>2. CASE Enqueue
  <2>1. \A d \in Device : [row[d] EXCEPT !.status = "queued"] \in Row
    BY DEF TypeOK, Row, Open
  <2>2. row' \in [Device -> Row]
    BY <1>2, <2>1 DEF TypeOK, Enqueue
  <2> QED BY <1>2, <2>2 DEF TypeOK, Enqueue
<1>3. CASE ClaimRecipient \/ ReportRecipient \/ ExpireClaim \/ ReconcileCampaigns
  <2> USE DEF ClaimRecipient, ReportRecipient, ExpireClaim, ReconcileCampaigns
  <2>1. ledger' \in {"none", "claimed", "delivered", "failed"}
    BY <1>3 DEF TypeOK, Settled
  <2> QED BY <1>3, <2>1 DEF TypeOK
<1>4. CASE \E d \in Device : Register(d) \/ Unregister(d)
  BY <1>4 DEF TypeOK, Register, Unregister
<1>5. ASSUME NEW p \in wire, Display(p)
      PROVE  TypeOK'
  BY <1>5 DEF TypeOK, Display
<1>6. ASSUME NEW p \in wire, Acknowledge(p)
      PROVE  TypeOK'
  <2>1. p.device \in Device
    BY DEF TypeOK, Push
  <2>2. [row[p.device] EXCEPT !.status = "delivered"] \in Row
    BY <2>1 DEF TypeOK, Row
  <2>3. row' \in [Device -> Row]
    BY <1>6, <2>1, <2>2 DEF TypeOK, Acknowledge
  <2> QED BY <1>6, <2>3 DEF TypeOK, Acknowledge
<1>7. ASSUME NEW old \in SUBSET Device, Maintain(old)
      PROVE  TypeOK'
  <2>1. ASSUME NEW d \in Device PROVE row'[d] \in Row
    BY <1>7, MaintainedRow DEF TypeOK, Maintain
  <2>2. row' \in [Device -> Row]
    BY <1>7, <2>1 DEF Maintain
  <2> QED BY <1>7, <2>2 DEF TypeOK, Maintain
<1>8. CASE UNCHANGED vars
  BY <1>8 DEF TypeOK, vars
<1> QED BY <1>1, <1>2, <1>3, <1>4, <1>5, <1>6, <1>7, <1>8 DEF QuietNext

\* The fan, the ledger, the device and the sweep keep the invariant.
LEMMA QuietNextSound ==
  ASSUME IInv, QuietNext
  PROVE  IInv'
<1> USE DEF fan, device
<1>1. UNCHANGED <<task, made, asked, wire, crossed>>
  BY DEF QuietNext, Withdraw, Grant, OptOut, OptIn, Pause, Enqueue, ClaimRecipient,
         ReportRecipient, ExpireClaim, ReconcileCampaigns, Register, Unregister, Display,
         Acknowledge, Maintain, vars
<1>2. TypeOK /\ \A d \in Device : RowSound(d)
  BY DEF IInv, Sound
<1>3. ASSUME NEW d \in Device, row' # row PROVE Quiet(d)
  <2>1. CASE Enqueue
    <3>1. \/ row'[d] = row[d]
          \/ row[d].status = "none" /\ row'[d] = [row[d] EXCEPT !.status = "queued"]
      BY <2>1 DEF Enqueue
    <3> QED BY <1>2, <3>1 DEF Quiet, RowSound, TypeOK, Row, AwaitsAck, Unsent
  <2>2. ASSUME NEW p \in wire, Acknowledge(p)
        PROVE  Quiet(d)
    <3>1. \/ row'[d] = row[d]
          \/ /\ row[d].status \in AwaitsAck
             /\ row'[d] = [row[d] EXCEPT !.status = "delivered"]
      BY <1>2, <2>2 DEF Acknowledge, TypeOK, Row
    <3> QED BY <1>2, <3>1 DEF Quiet, RowSound, TypeOK, Row, AwaitsAck, Unsent
  <2>3. ASSUME NEW old \in SUBSET Device, Maintain(old)
        PROVE  Quiet(d)
    <3>1. row'[d] = Maintained(d, d \in old)
      BY <2>3 DEF Maintain
    <3>2. CASE row'[d] # row[d]
      <4>1. /\ row'[d].tries = row[d].tries
            /\ row'[d].token \in {0, row[d].token}
            /\ row[d].status \in Open /\ row'[d].status \in {"queued", "failed", "ambiguous"}
            /\ row'[d].status = "queued" => row[d].status = "claimed"
            /\ row'[d].muted => row'[d].status = "failed" \/ row[d].muted
        BY <1>2, <3>1, <3>2, MaintainedRow
      <4> QED BY <1>2, <4>1 DEF Quiet, RowSound, AwaitsAck, Unsent, Open
    <3> QED BY <3>2 DEF Quiet
  <2> QED BY <1>3, <2>1, <2>2, <2>3
        DEF QuietNext, Withdraw, Grant, OptOut, OptIn, Pause, ClaimRecipient, ReportRecipient,
            ExpireClaim, ReconcileCampaigns, Register, Unregister, Display, vars
<1>4. \A d \in Device : Quiet(d)
  BY <1>3 DEF Quiet
<1> QED BY <1>1, <1>2, <1>4, QuietNextType, QuietStep DEF IInv

\* The push a claim makes is new.
LEMMA ClaimSound ==
  ASSUME IInv, NEW d \in Device, Claim(d)
  PROVE  IInv'
<1>0. PICK p : p = [device |-> d, claim |-> made'[d], asked |-> asked[d]]
  OBVIOUS
<1> DEFINE new == [push |-> p, stage |-> "claimed"]
<1> USE DEF fan, device
<1>1. TypeOK /\ Sound
  BY DEF IInv
<1>2. /\ row[d].status \in {"queued", "retry_wait"} /\ row[d].tries < MaxAttempts
      /\ made' = [made EXCEPT ![d] = @ + 1]
      /\ row' = [row EXCEPT ![d].status = "claimed", ![d].tries = @ + 1, ![d].token = made'[d]]
      /\ task' = task \cup {new}
      /\ UNCHANGED <<endpoint, consent, wanted, paused, asked, wire, shown, crossed, ledger>>
  BY <1>0 DEF Claim, Due
<1>3. /\ made[d] \in Nat /\ row[d].tries \in Nat /\ asked[d] \in 0..MaxAsked
      /\ row[d] \in Row /\ MaxAttempts \in Nat /\ MaxAsked \in Nat
  BY <1>1, ClaimsAre, PushAssumption DEF TypeOK, Row
<1>4. /\ made'[d] = made[d] + 1
      /\ made'[d] <= Quota(asked[d]) + row'[d].tries
      /\ row'[d].tries = row[d].tries + 1 /\ row'[d].token = made'[d]
      /\ row'[d].status = "claimed" /\ row'[d].muted = row[d].muted
  <2>1. made[d] <= Quota(asked[d]) + row[d].tries
    BY <1>1 DEF Sound, RowSound
  <2>2. Quota(asked[d]) \in Nat
    <3>1. asked[d] \in Nat
      BY <1>3
    <3> QED BY <3>1, QuotaFacts
  <2>3. made'[d] = made[d] + 1
    BY <1>1, <1>2 DEF TypeOK
  <2>4. row'[d] = [row[d] EXCEPT !.status = "claimed", !.tries = @ + 1, !.token = made'[d]]
    BY <1>1, <1>2 DEF TypeOK
  <2>5. /\ row'[d].tries = row[d].tries + 1 /\ row'[d].token = made'[d]
        /\ row'[d].status = "claimed" /\ row'[d].muted = row[d].muted
    BY <1>3, <2>4 DEF Row
  <2> QED BY <1>3, <2>1, <2>2, <2>3, <2>5
<1>5. made'[d] \in Claims \ {0}
  <2>1. /\ Quota(asked[d]) \in Nat /\ Quota(asked[d] + 1) = Quota(asked[d]) + MaxAttempts
        /\ Quota(MaxAsked + 1) \in Nat /\ Quota(asked[d] + 1) <= Quota(MaxAsked + 1)
    <3>1. /\ asked[d] \in Nat /\ asked[d] + 1 \in Nat /\ MaxAsked + 1 \in Nat
          /\ asked[d] + 1 <= MaxAsked + 1
      BY <1>3
    <3> QED BY <3>1, QuotaFacts
  <2>2. row'[d].tries <= MaxAttempts /\ row'[d].tries \in Nat
    BY <1>2, <1>3, <1>4
  <2>3. made'[d] \in Nat /\ made'[d] # 0 /\ made'[d] <= Quota(MaxAsked + 1)
    BY <1>3, <1>4, <2>1, <2>2
  <2> QED BY <2>1, <2>3, ClaimsAre
<1>6. p \in Push /\ new \in Task
  BY <1>0, <1>3, <1>5 DEF Push, Task
<1>7. TypeOK'
  <2>1. row'[d] \in Row
    <3>1. row'[d] = [row[d] EXCEPT !.status = "claimed", !.tries = @ + 1, !.token = made'[d]]
      BY <1>1, <1>2 DEF TypeOK
    <3>2. row[d].tries + 1 \in 0..MaxAttempts
      BY <1>2, <1>3
    <3> QED BY <1>3, <1>5, <3>1, <3>2 DEF Row, Open
  <2>2. row' \in [Device -> Row] /\ made' \in [Device -> Claims]
    BY <1>1, <1>2, <1>5, <2>1 DEF TypeOK
  <2> QED BY <1>1, <1>2, <1>6, <2>2 DEF TypeOK
<1>8. \A c \in Device \ {d} : row'[c] = row[c] /\ made'[c] = made[c]
  BY <1>1, <1>2 DEF TypeOK
<1>9. \A c \in Device : RowSound(c)'
  <2>1. RowSound(d)'
    <3>1. ~row[d].muted
      BY <1>1, <1>2 DEF Sound, RowSound
    <3> QED BY <1>2, <1>3, <1>4, <3>1 DEF RowSound, AwaitsAck
  <2> QED BY <1>1, <1>2, <1>8, <2>1 DEF Sound, RowSound
<1>10. ASSUME NEW q \in Push, PushSound(q)
       PROVE  PushSound(q)' /\ q # p
  <2>1. q.claim \in Nat /\ q.device \in Device
    BY ClaimsAre DEF Push
  <2>2. CASE q.device = d
    BY <1>0, <1>2, <1>3, <1>4, <1>10, <2>1, <2>2 DEF PushSound
  <2>3. CASE q.device # d
    <3>1. row'[q.device] = row[q.device] /\ made'[q.device] = made[q.device] /\ asked' = asked
      BY <1>2, <1>8, <2>1, <2>3
    <3>2. q # p
      BY <1>0, <2>3
    <3> QED BY <1>10, <3>1, <3>2 DEF PushSound
  <2> QED BY <2>2, <2>3
<1>11. PushSound(p)'
  BY <1>0, <1>2, <1>3, <1>4 DEF PushSound
<1>12. p \notin wire /\ \A t \in task : t.push # p
  BY <1>1, <1>10 DEF Sound, TypeOK, Task
<1>13. Sound'
  <2>1. \A t \in task' : PushSound(t.push)'
    BY <1>1, <1>2, <1>10, <1>11 DEF Sound, TypeOK, Task
  <2>2. \A t \in task' : TaskSound(t)'
    BY <1>1, <1>2, <1>12 DEF Sound, TaskSound
  <2>3. \A q \in wire' : PushSound(q)'
    BY <1>1, <1>2, <1>10 DEF Sound, TypeOK
  <2> QED BY <1>9, <2>1, <2>2, <2>3 DEF Sound
<1>14. \A q : Live(q)' <=> Live(q)
  BY <1>2 DEF Live
<1>15. SentOnce'
  BY <1>2, <1>14 DEF IInv, SentOnce
<1>16. SentKnown'
  <2> SUFFICES ASSUME NEW q \in Push, Live(q)', q.asked = asked'[q.device], q.device \notin crossed'
               PROVE  /\ row'[q.device].status \notin Unsent
                      /\ row'[q.device].status \in AwaitsAck => q.claim = row'[q.device].token
    BY DEF SentKnown
  <2>1. /\ row[q.device].status \notin Unsent
        /\ row[q.device].status \in AwaitsAck => q.claim = row[q.device].token
    BY <1>2, <1>14 DEF IInv, SentKnown
  <2>2. q.device \in Device /\ q.device # d
    BY <1>2, <2>1 DEF Push, Unsent
  <2> QED BY <1>8, <2>1, <2>2
<1> QED BY <1>7, <1>13, <1>15, <1>16 DEF IInv

\* Only the task that still has the claim hands its push over, and then no
\* other push of the row is live.
LEMMA StartProviderSound ==
  ASSUME IInv, NEW t \in task, StartProvider(t)
  PROVE  IInv'
<1> DEFINE d == t.push.device
           s == [t EXCEPT !.stage = "sending"]
<1> USE DEF fan, device
<1>1. TypeOK /\ Sound
  BY DEF IInv
<1>2. /\ t \in Task /\ d \in Device /\ t.push \in Push /\ t.stage = "claimed"
      /\ row[d] \in Row /\ s \in Task /\ s.push = t.push /\ s.stage = "sending"
  BY <1>1 DEF TypeOK, Task, Push, StartProvider
<1>3. UNCHANGED <<endpoint, consent, wanted, paused, made, asked, wire, shown, crossed, ledger>>
  BY DEF StartProvider
<1>4. CASE ~(row[d].status = "claimed" /\ row[d].token = t.push.claim)
  <2>1. row' = row /\ task' = task \ {t}
    BY <1>4 DEF StartProvider
  <2>2. TypeOK'
    BY <1>1, <1>3, <2>1 DEF TypeOK
  <2>3. Sound'
    BY <1>1, <1>3, <2>1 DEF Sound, RowSound, PushSound, TaskSound
  <2>4. \A q : Live(q)' <=> Live(q)
    BY <1>2, <1>3, <2>1 DEF Live
  <2>5. SentOnce' /\ SentKnown'
    BY <1>3, <2>1, <2>4 DEF IInv, SentOnce, SentKnown
  <2> QED BY <2>2, <2>3, <2>5 DEF IInv
<1>5. CASE row[d].status = "claimed" /\ row[d].token = t.push.claim
  <2>1. /\ row' = [row EXCEPT ![d].status = "provider_started", ![d].ack = t.push.claim]
        /\ task' = (task \ {t}) \cup {s}
    BY <1>5 DEF StartProvider
  <2>2. row'[d] = [row[d] EXCEPT !.status = "provider_started", !.ack = t.push.claim]
    BY <1>1, <1>2, <2>1 DEF TypeOK
  <2>3. /\ row'[d].status = "provider_started" /\ row'[d].ack = t.push.claim
        /\ row'[d].token = t.push.claim /\ row'[d].tries = row[d].tries
        /\ row'[d].muted = row[d].muted /\ row'[d] \in Row
    BY <1>2, <1>5, <2>2 DEF Row, Push, Open
  <2>4. \A c \in Device \ {d} : row'[c] = row[c]
    BY <1>1, <1>2, <2>1 DEF TypeOK
  <2>5. TypeOK'
    <3>1. row' \in [Device -> Row]
      BY <1>1, <1>2, <2>1, <2>3 DEF TypeOK
    <3> QED BY <1>1, <1>2, <1>3, <2>1, <3>1 DEF TypeOK
  <2>6. \A c \in Device : RowSound(c)'
    <3>1. RowSound(d)'
      BY <1>1, <1>2, <1>3, <1>5, <2>3 DEF Sound, RowSound
    <3> QED BY <1>1, <1>3, <2>4, <3>1 DEF Sound, RowSound
  <2>7. \A q \in Push : PushSound(q) => PushSound(q)'
    <3> SUFFICES ASSUME NEW q \in Push, PushSound(q) PROVE PushSound(q)'
      OBVIOUS
    <3>1. row'[q.device].token = row[q.device].token
      BY <1>5, <2>3, <2>4 DEF Push
    <3> QED BY <1>3, <3>1 DEF PushSound
  <2>8. Sound'
    <3>1. \A q \in wire' : PushSound(q)'
      BY <1>1, <1>3, <2>7 DEF Sound, TypeOK
    <3>2. \A u \in task' : PushSound(u.push)'
      BY <1>1, <1>2, <2>1, <2>7 DEF Sound, TypeOK, Task
    <3>3. \A u \in task' : TaskSound(u)'
      BY <1>1, <1>2, <1>3, <2>1 DEF Sound, TaskSound
    <3> QED BY <2>6, <3>1, <3>2, <3>3 DEF Sound
  <2>9. \A q : Live(q)' => Live(q) \/ q = t.push
    BY <1>2, <1>3, <2>1 DEF Live
  <2>10. t.push.asked = asked[d]
    BY <1>1, <1>5 DEF Sound, PushSound
  <2>11. d \notin crossed => \A q \in Push : Live(q) /\ q.device = d => q.asked # asked[d]
    BY <1>5 DEF IInv, SentKnown, Unsent
  <2>12. SentOnce'
    BY <1>3, <2>9, <2>10, <2>11 DEF IInv, SentOnce
  <2>13. SentKnown'
    <3> SUFFICES ASSUME NEW q \in Push, Live(q)', q.asked = asked'[q.device], q.device \notin crossed'
                 PROVE  /\ row'[q.device].status \notin Unsent
                        /\ row'[q.device].status \in AwaitsAck => q.claim = row'[q.device].token
      BY DEF SentKnown
    <3>1. CASE q.device = d
      <4>1. q = t.push
        BY <1>3, <2>9, <2>11, <3>1
      <4> QED BY <2>3, <4>1 DEF Unsent
    <3>2. CASE q.device # d
      <4>1. Live(q) /\ q.device \in Device
        BY <2>9, <3>2 DEF Push
      <4> QED BY <1>3, <2>4, <3>2, <4>1 DEF IInv, SentKnown
    <3> QED BY <3>1, <3>2
  <2> QED BY <2>5, <2>8, <2>12, <2>13 DEF IInv
<1> QED BY <1>4, <1>5

\* The provider takes over what was live already.
LEMMA SendSound ==
  ASSUME IInv, NEW t \in task, Send(t)
  PROVE  IInv'
<1> USE DEF fan, device
<1>1. TypeOK /\ Sound
  BY DEF IInv
<1>a. PICK outcome \in Outcomes : \E taken \in OnItsWay(outcome) :
        /\ task' = (task \ {t}) \cup {[t EXCEPT !.stage = outcome]}
        /\ wire' = IF taken THEN wire \cup {t.push} ELSE wire
  BY DEF Send
<1>2. PICK taken \in OnItsWay(outcome) :
        /\ task' = (task \ {t}) \cup {[t EXCEPT !.stage = outcome]}
        /\ wire' = IF taken THEN wire \cup {t.push} ELSE wire
  BY <1>a
<1> DEFINE s == [t EXCEPT !.stage = outcome]
<1>3. /\ t \in Task /\ t.push \in Push /\ t.stage = "sending"
      /\ s \in Task /\ s.push = t.push /\ s.stage = outcome
  BY <1>1 DEF TypeOK, Task, Send
<1>4. UNCHANGED <<row, endpoint, consent, wanted, paused, made, asked, shown, crossed, ledger>>
  BY DEF Send
<1>5. wire \subseteq wire' /\ wire' \subseteq wire \cup {t.push}
  BY <1>2
<1>6. taken => outcome \in {"accepted", "ambiguous"}
  BY <1>2 DEF OnItsWay, Outcomes
<1>7. TypeOK'
  BY <1>1, <1>2, <1>3, <1>4, <1>5 DEF TypeOK
<1>8. Sound'
  <2>1. \A d \in Device : RowSound(d)'
    BY <1>1, <1>4 DEF Sound, RowSound
  <2>2. \A q : PushSound(q) => PushSound(q)'
    BY <1>4 DEF PushSound
  <2>3. \A q \in wire' : PushSound(q)'
    BY <1>1, <1>5, <2>2 DEF Sound
  <2>4. \A u \in task' : PushSound(u.push)'
    BY <1>1, <1>2, <1>3, <2>2 DEF Sound
  <2>5. ASSUME NEW u \in task' PROVE TaskSound(u)'
    <3>1. \A v \in task' : v.push = u.push => v = u
      BY <1>1, <1>2, <1>3 DEF Sound, TaskSound
    <3>2. CASE u \in task \ {t}
      <4>1. u.push # t.push
        BY <1>1, <3>2 DEF Sound, TaskSound
      <4> QED BY <1>1, <1>5, <3>1, <3>2, <4>1 DEF Sound, TaskSound
    <3>3. CASE u = s
      <4>1. s.stage \notin {"accepted", "ambiguous"} => wire' = wire
        BY <1>2, <1>3, <1>6
      <4>2. t.push \notin wire
        BY <1>1, <1>3 DEF Sound, TaskSound
      <4> QED BY <1>3, <3>1, <3>3, <4>1, <4>2 DEF TaskSound
    <3> QED BY <1>2, <3>2, <3>3
  <2> QED BY <2>1, <2>3, <2>4, <2>5 DEF Sound
<1>9. \A q : Live(q)' => Live(q)
  <2>1. "sending" \notin Outcomes
    BY DEF Outcomes
  <2> QED BY <1>2, <1>3, <1>5, <2>1 DEF Live
<1>10. SentOnce' /\ SentKnown'
  BY <1>4, <1>9 DEF IInv, SentOnce, SentKnown
<1> QED BY <1>7, <1>8, <1>10 DEF IInv

\* An answer of the attempt the row is in settles that attempt; any other
\* answer that has an effect marks the row.
LEMMA RecordSound ==
  ASSUME IInv, NEW t \in task, Record(t)
  PROVE  IInv'
<1> DEFINE d == t.push.device
<1> USE DEF fan, device
<1>1. TypeOK /\ Sound
  BY DEF IInv
<1>2. /\ t \in Task /\ d \in Device /\ t.push \in Push /\ row[d] \in Row /\ t.stage \in Outcomes
      /\ t.push.claim \in Nat \ {0}
  BY <1>1, ClaimsAre DEF TypeOK, Task, Push, Record
<1>3. /\ row' = [row EXCEPT ![d] = Answered(@, t.stage)] /\ task' = task \ {t}
      /\ crossed' = IF row'[d] # row[d] /\ row[d].token # t.push.claim THEN crossed \cup {d} ELSE crossed
      /\ endpoint' \subseteq endpoint
      /\ UNCHANGED <<consent, wanted, paused, made, asked, wire, shown, ledger>>
  BY DEF Record
<1>4. row'[d] = Answered(row[d], t.stage) /\ \A c \in Device \ {d} : row'[c] = row[c]
  BY <1>1, <1>2, <1>3 DEF TypeOK
<1>5. row'[d] # row[d] =>
        /\ row'[d] \in Row
        /\ row'[d].tries = row[d].tries /\ row'[d].muted = row[d].muted
        /\ row[d].status \in {"claimed", "provider_started", "provider_accepted"}
        /\ row'[d].status \in {"provider_accepted", "retry_wait", "failed", "ambiguous"}
        /\ \/ row'[d].token = row[d].token /\ row'[d].ack = row[d].ack
           \/ row'[d].token = 0 /\ row'[d].status \in {"retry_wait", "failed"}
        /\ row'[d].status = "provider_accepted" =>
             row[d].status = "provider_started" /\ row'[d].token = row[d].token /\ row'[d].ack = row[d].ack
        /\ row'[d].status = "retry_wait" => t.stage = "retry" /\ row[d].status = "provider_started"
  BY <1>2, <1>4, AnsweredRow
<1>6. TypeOK'
  <2>1. row' \in [Device -> Row]
    BY <1>1, <1>2, <1>3, <1>5 DEF TypeOK
  <2> QED BY <1>1, <1>2, <1>3, <2>1 DEF TypeOK
<1>7. \A c \in Device : row'[c].token \in {0, row[c].token}
  BY <1>2, <1>4, <1>5
<1>8. \A q \in Push : PushSound(q) => PushSound(q)'
  <2> SUFFICES ASSUME NEW q \in Push, PushSound(q) PROVE PushSound(q)'
    OBVIOUS
  <2>1. q.claim # 0 /\ row'[q.device].token \in {0, row[q.device].token}
    BY <1>7 DEF Push
  <2> QED BY <1>3, <2>1 DEF PushSound
<1>9. Sound'
  <2>1. RowSound(d)'
    <3>1. RowSound(d) /\ made[d] \in Nat
      BY <1>1, <1>2, ClaimsAre DEF Sound, TypeOK
    <3>2. CASE row'[d] = row[d]
      BY <1>3, <3>1, <3>2 DEF RowSound
    <3>3. CASE row'[d] # row[d]
      BY <1>3, <1>5, <3>1, <3>3 DEF RowSound, AwaitsAck
    <3> QED BY <3>2, <3>3
  <2>2. \A c \in Device : RowSound(c)'
    BY <1>1, <1>3, <1>4, <2>1 DEF Sound, RowSound
  <2>3. \A q \in wire' : PushSound(q)'
    BY <1>1, <1>3, <1>8 DEF Sound, TypeOK
  <2>4. \A u \in task' : PushSound(u.push)' /\ TaskSound(u)'
    BY <1>1, <1>3, <1>8 DEF Sound, TypeOK, Task, TaskSound
  <2> QED BY <2>2, <2>3, <2>4 DEF Sound
<1>10. \A q : Live(q)' => Live(q)
  BY <1>3 DEF Live
<1>11. crossed \subseteq crossed'
  BY <1>3
<1>12. SentOnce'
  BY <1>10, <1>11 DEF IInv, SentOnce
<1>13. SentKnown'
  <2> SUFFICES ASSUME NEW q \in Push, Live(q)', q.asked = asked'[q.device], q.device \notin crossed'
               PROVE  /\ row'[q.device].status \notin Unsent
                      /\ row'[q.device].status \in AwaitsAck => q.claim = row'[q.device].token
    BY DEF SentKnown
  <2>1. /\ row[q.device].status \notin Unsent
        /\ row[q.device].status \in AwaitsAck => q.claim = row[q.device].token
    BY <1>3, <1>10, <1>11 DEF IInv, SentKnown
  <2>2. CASE row'[q.device] = row[q.device]
    BY <2>1, <2>2
  <2>3. CASE row'[q.device] # row[q.device]
    <3>1. q.device = d /\ row[d].token = t.push.claim
      BY <1>3, <1>4, <2>3 DEF Push
    <3>2. row'[d].status # "retry_wait"
      <4> SUFFICES ASSUME row'[d].status = "retry_wait" PROVE FALSE
        OBVIOUS
      <4>1. t.stage = "retry" /\ row[d].status = "provider_started"
        BY <1>5, <2>3, <3>1
      <4>2. q.claim = t.push.claim
        BY <2>1, <3>1, <4>1 DEF AwaitsAck
      <4>3. t.push.asked = asked[d]
        BY <1>1, <3>1 DEF Sound, PushSound
      <4>4. q = t.push
        BY <1>2, <1>3, <3>1, <4>2, <4>3 DEF Push
      <4>5. t.push \notin wire
        BY <1>1, <4>1 DEF Sound, TaskSound
      <4>6. PICK u \in task : u.stage = "sending" /\ u.push = t.push
        BY <1>10, <4>4, <4>5 DEF Live
      <4> QED BY <1>1, <4>1, <4>6 DEF Sound, TaskSound
    <3> QED BY <1>5, <2>1, <2>3, <3>1, <3>2 DEF Unsent, AwaitsAck
  <2> QED BY <2>2, <2>3
<1> QED BY <1>6, <1>9, <1>12, <1>13 DEF IInv

\* A lost task leaves only its row behind.
LEMMA LoseSound ==
  ASSUME IInv, NEW t \in task, Lose(t)
  PROVE  IInv'
<1> USE DEF fan, device
<1>1. /\ task' = task \ {t}
      /\ UNCHANGED <<row, endpoint, consent, wanted, paused, made, asked, wire, shown, crossed, ledger>>
  BY DEF Lose
<1>2. TypeOK'
  BY <1>1 DEF IInv, TypeOK
<1>3. Sound'
  BY <1>1 DEF IInv, Sound, RowSound, PushSound, TaskSound
<1>4. \A q : Live(q)' => Live(q)
  BY <1>1 DEF Live
<1>5. SentOnce' /\ SentKnown'
  BY <1>1, <1>4 DEF IInv, SentOnce, SentKnown
<1> QED BY <1>2, <1>3, <1>5 DEF IInv

\* After the operator's retry no live push carries the row's number of retries.
LEMMA OperatorRetrySound ==
  ASSUME IInv, NEW d \in Device, OperatorRetry(d)
  PROVE  IInv'
<1> USE DEF fan, device
<1>1. TypeOK /\ Sound
  BY DEF IInv
<1>2. /\ asked[d] < MaxAsked
      /\ asked' = [asked EXCEPT ![d] = @ + 1]
      /\ row' = [row EXCEPT ![d] = [Blank EXCEPT !.status = "queued"]]
      /\ UNCHANGED <<endpoint, consent, wanted, paused, task, made, wire, shown, crossed, ledger>>
  BY DEF OperatorRetry
<1>3. /\ asked[d] \in Nat /\ MaxAsked \in Nat /\ MaxAttempts \in Nat
      /\ made[d] \in Nat /\ row[d].tries \in 0..MaxAttempts
  BY <1>1, ClaimsAre, PushAssumption DEF TypeOK, Row
<1>4. /\ asked'[d] = asked[d] + 1 /\ row'[d] = [Blank EXCEPT !.status = "queued"]
      /\ \A c \in Device \ {d} : row'[c] = row[c] /\ asked'[c] = asked[c]
  BY <1>1, <1>2 DEF TypeOK
<1>5. /\ row'[d].status = "queued" /\ row'[d].tries = 0 /\ row'[d].token = 0
      /\ row'[d].muted = FALSE /\ row'[d] \in Row
  <2>1. row'[d] = [status |-> "queued", tries |-> 0, token |-> 0, ack |-> 0, muted |-> FALSE]
    BY <1>4 DEF Blank
  <2> QED BY <1>3, <2>1, ClaimsAre DEF Row, Open
<1>6. TypeOK'
  <2>1. row' \in [Device -> Row] /\ asked' \in [Device -> 0..MaxAsked]
    BY <1>1, <1>2, <1>3, <1>5 DEF TypeOK
  <2> QED BY <1>1, <1>2, <2>1 DEF TypeOK
<1>7. \A c \in Device : RowSound(c)'
  <2>1. RowSound(d)'
    <3>1. /\ Quota(asked[d]) \in Nat /\ Quota(asked[d] + 1) = Quota(asked[d]) + MaxAttempts
      BY <1>3, QuotaFacts
    <3>2. made[d] <= Quota(asked[d]) + row[d].tries
      BY <1>1 DEF Sound, RowSound
    <3>3. made[d] <= Quota(asked'[d]) + row'[d].tries
      BY <1>3, <1>4, <1>5, <3>1, <3>2
    <3> QED BY <1>2, <1>3, <1>5, <3>3 DEF RowSound, AwaitsAck
  <2> QED BY <1>1, <1>2, <1>4, <2>1 DEF Sound, RowSound
<1>8. ASSUME NEW q \in Push, PushSound(q)
      PROVE  PushSound(q)' /\ (q.device = d => q.asked # asked'[d])
  <2>1. q.claim # 0 /\ q.asked \in Nat /\ q.device \in Device
    BY DEF Push
  <2>2. CASE q.device = d
    BY <1>2, <1>3, <1>4, <1>5, <1>8, <2>1, <2>2 DEF PushSound
  <2>3. CASE q.device # d
    <3>1. row'[q.device] = row[q.device] /\ asked'[q.device] = asked[q.device] /\ made' = made
      BY <1>2, <1>4, <2>1, <2>3
    <3> QED BY <1>8, <2>3, <3>1 DEF PushSound
  <2> QED BY <2>2, <2>3
<1>9. Sound'
  <2>1. \A q \in wire' : PushSound(q)'
    BY <1>1, <1>2, <1>8 DEF Sound, TypeOK
  <2>2. \A u \in task' : PushSound(u.push)' /\ TaskSound(u)'
    BY <1>1, <1>2, <1>8 DEF Sound, TypeOK, Task, TaskSound
  <2> QED BY <1>7, <2>1, <2>2 DEF Sound
<1>10. \A q : Live(q)' <=> Live(q)
  BY <1>2 DEF Live
<1>11. SentOnce'
  BY <1>2, <1>10 DEF IInv, SentOnce
<1>12. SentKnown'
  <2> SUFFICES ASSUME NEW q \in Push, Live(q)', q.asked = asked'[q.device], q.device \notin crossed'
               PROVE  /\ row'[q.device].status \notin Unsent
                      /\ row'[q.device].status \in AwaitsAck => q.claim = row'[q.device].token
    BY DEF SentKnown
  <2>1. PushSound(q) /\ q.device \in Device
    BY <1>1, <1>10 DEF Sound, Live, Push
  <2>2. q.device # d
    BY <1>8, <2>1
  <2> QED BY <1>2, <1>4, <1>10, <2>1, <2>2 DEF IInv, SentKnown
<1> QED BY <1>6, <1>9, <1>11, <1>12 DEF IInv

\* Every step keeps the invariant.
LEMMA NextSound ==
  ASSUME IInv, [Next]_vars
  PROVE  IInv'
<1>1. CASE QuietNext
  BY <1>1, QuietNextSound
<1>2. CASE \E d \in Device : Claim(d) \/ OperatorRetry(d)
  BY <1>2, ClaimSound, OperatorRetrySound
<1>3. CASE \E t \in task : StartProvider(t) \/ Send(t) \/ Record(t) \/ Lose(t)
  BY <1>3, StartProviderSound, SendSound, RecordSound, LoseSound
<1> QED BY <1>1, <1>2, <1>3 DEF Next, QuietNext

-----------------------------------------------------------------------------
(* What follows.                                                           *)

\* The inductive invariant holds in every reachable state.
THEOREM Invariance == Spec => []IInv
<1> QED BY InitSound, NextSound, PTL DEF Spec

\* Rows, tasks and pushes keep their types; no row is claimed more often than
\* its attempts and the operator's retries allow.
THEOREM TypeCorrect == Spec => []TypeOK
<1>1. IInv => TypeOK
  BY DEF IInv
<1> QED BY Invariance, <1>1, PTL

\* "Automatic resend suppressed": however many devices, attempts and retries
\* there are, one delivery hands the provider one push for each time an operator
\* asked, as long as no late answer of another attempt changed its row.
THEOREM SentOnlyOnce == Spec => []NoBlindResend
<1>1. IInv => NoBlindResend
  BY DEF IInv, TypeOK, SentOnce, Live, NoBlindResend
<1> QED BY Invariance, <1>1, PTL

\* A row becomes delivered by an acknowledgement, and then stays as it is.
LEMMA DeliveredStep ==
  ASSUME IInv, [Next]_vars, NEW d \in Device, row'[d].status = "delivered"
  PROVE  \/ row'[d] = row[d] /\ asked'[d] = asked[d] /\ shown \subseteq shown'
         \/ \E p \in wire : Acknowledge(p) /\ p.device = d
<1> USE DEF fan, device
<1>1. TypeOK /\ row[d] \in Row
  BY DEF IInv, TypeOK
<1>2. CASE Withdraw \/ Grant \/ OptOut \/ OptIn \/ Pause \/ ClaimRecipient
             \/ ReportRecipient \/ ExpireClaim \/ ReconcileCampaigns \/ UNCHANGED vars
  BY <1>2 DEF Withdraw, Grant, OptOut, OptIn, Pause, ClaimRecipient, ReportRecipient,
              ExpireClaim, ReconcileCampaigns, vars
<1>3. CASE Enqueue
  BY <1>1, <1>3 DEF Enqueue, Row
<1>4. CASE \E c \in Device : Register(c) \/ Unregister(c)
  BY <1>4 DEF Register, Unregister
<1>5. ASSUME NEW c \in Device, Claim(c)
      PROVE  row'[d] = row[d] /\ asked'[d] = asked[d] /\ shown \subseteq shown'
  <2>1. c # d
    BY <1>1, <1>5 DEF Claim, TypeOK, Row
  <2> QED BY <1>1, <1>5, <2>1 DEF Claim, TypeOK
<1>6. ASSUME NEW c \in Device, OperatorRetry(c)
      PROVE  row'[d] = row[d] /\ asked'[d] = asked[d] /\ shown \subseteq shown'
  <2>1. c # d
    BY <1>1, <1>6 DEF OperatorRetry, TypeOK, Blank
  <2> QED BY <1>1, <1>6, <2>1 DEF OperatorRetry, TypeOK
<1>7. ASSUME NEW p \in wire, Display(p)
      PROVE  row'[d] = row[d] /\ asked'[d] = asked[d] /\ shown \subseteq shown'
  BY <1>7 DEF Display
<1>8. ASSUME NEW p \in wire, Acknowledge(p), p.device # d
      PROVE  row'[d] = row[d] /\ asked'[d] = asked[d] /\ shown \subseteq shown'
  BY <1>1, <1>8 DEF Acknowledge, TypeOK, Push
<1>9. ASSUME NEW t \in task, StartProvider(t)
      PROVE  row'[d] = row[d] /\ asked'[d] = asked[d] /\ shown \subseteq shown'
  <2>1. row' # row => t.push.device # d /\ row' = [row EXCEPT ![t.push.device].status = "provider_started",
                                                          ![t.push.device].ack = t.push.claim]
    BY <1>1, <1>9 DEF StartProvider, TypeOK, Row
  <2> QED BY <1>1, <1>9, <2>1 DEF StartProvider, TypeOK
<1>10. ASSUME NEW t \in task, Send(t) \/ Lose(t)
       PROVE  row'[d] = row[d] /\ asked'[d] = asked[d] /\ shown \subseteq shown'
  BY <1>10 DEF Send, Lose
<1>11. ASSUME NEW t \in task, Record(t)
       PROVE  row'[d] = row[d] /\ asked'[d] = asked[d] /\ shown \subseteq shown'
  <2>1. t.stage \in Outcomes /\ row' = [row EXCEPT ![t.push.device] = Answered(@, t.stage)]
    BY <1>11 DEF Record
  <2>2. row'[d] = row[d] \/ row'[d] = Answered(row[d], t.stage)
    BY <1>1, <2>1 DEF TypeOK
  <2>3. row'[d] = row[d]
    BY <1>1, <2>1, <2>2, AnsweredRow
  <2> QED BY <1>11, <2>3 DEF Record
<1>12. ASSUME NEW old \in SUBSET Device, Maintain(old)
       PROVE  row'[d] = row[d] /\ asked'[d] = asked[d] /\ shown \subseteq shown'
  <2>1. row'[d] = row[d]
    BY <1>1, <1>12, MaintainedRow DEF Maintain
  <2> QED BY <1>12, <2>1 DEF Maintain
<1> QED BY <1>2, <1>3, <1>4, <1>5, <1>6, <1>7, <1>8, <1>9, <1>10, <1>11, <1>12 DEF Next

\* "A device acknowledgement after display is required for the terminal
\* delivered state": the push that was displayed is the one the row was last
\* sent with, for any number of attempts and retries.
THEOREM DeliveredIsShown == Spec => []DeliveredWasShown
<1>1. Init => DeliveredWasShown
  BY DEF Init, Blank, DeliveredWasShown
<1>2. IInv /\ DeliveredWasShown /\ [Next]_vars => DeliveredWasShown'
  <2> SUFFICES ASSUME IInv, DeliveredWasShown, [Next]_vars, NEW d \in Device, row'[d].status = "delivered"
               PROVE  \E p \in shown' : p.device = d /\ p.claim = row'[d].token /\ p.asked = asked'[d]
    BY DEF DeliveredWasShown
  <2>1. CASE row'[d] = row[d] /\ asked'[d] = asked[d] /\ shown \subseteq shown'
    BY <2>1 DEF DeliveredWasShown
  <2>2. ASSUME NEW p \in wire, Acknowledge(p), p.device = d
        PROVE  p \in shown' /\ p.claim = row'[d].token /\ p.asked = asked'[d]
    <3>1. /\ p \in shown /\ row[d].ack = p.claim /\ row[d].status \in AwaitsAck
          /\ row' = [row EXCEPT ![d].status = "delivered"]
          /\ UNCHANGED <<shown, asked>>
      BY <2>2 DEF Acknowledge, AckMatches, device
    <3>2. row'[d].token = row[d].token
      BY <3>1 DEF IInv, TypeOK, Row
    <3>3. row[d].ack = row[d].token /\ PushSound(p)
      BY <3>1 DEF IInv, Sound, RowSound
    <3> QED BY <2>2, <3>1, <3>2, <3>3 DEF PushSound
  <2> QED BY <2>1, <2>2, DeliveredStep
<1> QED BY <1>1, <1>2, Invariance, PTL DEF Spec

\* A delivery ended because its category was switched off never changes again:
\* no claim, sweep, late answer or operator's retry reaches it.
THEOREM MutedStays == Spec => MutedStaysMuted
<1>1. ASSUME IInv, [Next]_vars, NEW d \in Device, row[d].muted
      PROVE  row'[d] = row[d]
  <2> USE DEF fan, device
  <2>1. TypeOK /\ row[d] \in Row /\ row[d].status = "failed"
    BY <1>1 DEF IInv, TypeOK, Sound, RowSound
  <2>2. CASE QuietNext
    <3>1. CASE Enqueue
      BY <2>1, <3>1 DEF Enqueue
    <3>2. ASSUME NEW p \in wire, Acknowledge(p) PROVE row'[d] = row[d]
      BY <2>1, <3>2 DEF Acknowledge, AwaitsAck, TypeOK
    <3>3. ASSUME NEW old \in SUBSET Device, Maintain(old) PROVE row'[d] = row[d]
      BY <2>1, <3>3, MaintainedRow DEF Maintain, Open
    <3> QED BY <2>2, <3>1, <3>2, <3>3
          DEF QuietNext, Withdraw, Grant, OptOut, OptIn, Pause, ClaimRecipient,
              ReportRecipient, ExpireClaim, ReconcileCampaigns, Register, Unregister,
              Display, vars
  <2>3. ASSUME NEW c \in Device, Claim(c) \/ OperatorRetry(c) PROVE row'[d] = row[d]
    <3>1. c # d
      BY <1>1, <2>1, <2>3 DEF Claim, Due, OperatorRetry, Retriable
    <3> QED BY <2>1, <2>3, <3>1 DEF Claim, OperatorRetry, TypeOK
  <2>4. ASSUME NEW t \in task, StartProvider(t) \/ Send(t) \/ Lose(t) PROVE row'[d] = row[d]
    BY <2>1, <2>4 DEF StartProvider, Send, Lose, TypeOK
  <2>5. ASSUME NEW t \in task, Record(t) PROVE row'[d] = row[d]
    <3>1. t.stage \in Outcomes /\ row' = [row EXCEPT ![t.push.device] = Answered(@, t.stage)]
      BY <2>5 DEF Record
    <3>2. row'[d] = row[d] \/ row'[d] = Answered(row[d], t.stage)
      BY <2>1, <3>1 DEF TypeOK
    <3> QED BY <2>1, <3>1, <3>2, AnsweredRow
  <2> QED BY <1>1, <2>2, <2>3, <2>4, <2>5 DEF Next, QuietNext
<1>2. IInv /\ [Next]_vars => [\A d \in Device : row[d].muted => row'[d] = row[d]]_vars
  BY <1>1
<1> QED BY Invariance, <1>2, PTL DEF Spec, MutedStaysMuted

-----------------------------------------------------------------------------
(* The refinement.                                                         *)

\* A row that does not exist was never claimed and never asked for again.
Fresh == \A d \in Device : row[d].status = "none" => made[d] = 0 /\ asked[d] = 0

Stays(d) == row'[d] = row[d] /\ asked'[d] = asked[d] /\ made'[d] = made[d]

Opens(d) == row[d].status = "none" /\ row'[d].status = "queued" /\ asked'[d] = asked[d]

Proceeds(d) ==
  /\ row[d].status \in Open /\ asked'[d] = asked[d]
  /\ row'[d].status \in Open \cup {"failed", "ambiguous"}

Arrives(d) ==
  /\ row[d].status \in Open /\ asked'[d] = asked[d]
  /\ row'[d].status = "delivered" /\ Displayed(d, asked[d])

Reopens(d) == Retriable(d) /\ row'[d].status = "queued" /\ asked'[d] = asked[d] + 1

\* What a step may do to a row.
LEMMA RowMoves ==
  ASSUME IInv, [Next]_vars, NEW d \in Device
  PROVE  Stays(d) \/ Opens(d) \/ Proceeds(d) \/ Arrives(d) \/ Reopens(d)
<1> DEFINE Goal == Stays(d) \/ Opens(d) \/ Proceeds(d) \/ Arrives(d) \/ Reopens(d)
<1> SUFFICES Goal
  OBVIOUS
<1> USE DEF fan, device
<1>1. /\ TypeOK /\ Sound /\ row[d] \in Row
      /\ row \in [Device -> Row] /\ made \in [Device -> Claims] /\ asked \in [Device -> 0..MaxAsked]
  BY DEF IInv, TypeOK
<1>2. CASE UNCHANGED <<row, asked, made>>
  BY <1>2 DEF Stays
<1>3. CASE Enqueue
  <2>1. UNCHANGED <<asked, made>>
    BY <1>3 DEF Enqueue
  <2>2. \/ row'[d] = row[d]
        \/ row[d].status = "none" /\ row'[d] = [row[d] EXCEPT !.status = "queued"]
    BY <1>3 DEF Enqueue
  <2> QED BY <1>1, <2>1, <2>2 DEF Stays, Opens, Row
<1>4. ASSUME NEW c \in Device, Claim(c)
      PROVE  Goal
  <2>1. CASE c # d
    BY <1>1, <1>4, <2>1 DEF Claim, Stays
  <2>2. CASE c = d
    <3>1. row'[d].status = "claimed" /\ asked' = asked /\ row[d].status \in {"queued", "retry_wait"}
      BY <1>1, <1>4, <2>2 DEF Claim, Due, Row
    <3> QED BY <3>1 DEF Proceeds, Open
  <2> QED BY <2>1, <2>2
<1>5. ASSUME NEW c \in Device, OperatorRetry(c)
      PROVE  Goal
  <2>1. CASE c # d
    BY <1>1, <1>5, <2>1 DEF OperatorRetry, Stays
  <2>2. CASE c = d
    <3>1. row'[d].status = "queued" /\ asked'[d] = asked[d] + 1 /\ Retriable(d)
      BY <1>1, <1>5, <2>2 DEF OperatorRetry, Blank
    <3> QED BY <3>1 DEF Reopens
  <2> QED BY <2>1, <2>2
<1>6. ASSUME NEW p \in wire, Acknowledge(p)
      PROVE  Goal
  <2>1. /\ p \in shown /\ row[p.device].ack = p.claim /\ row[p.device].status \in AwaitsAck
        /\ row' = [row EXCEPT ![p.device].status = "delivered"]
        /\ UNCHANGED <<shown, asked, made>>
    BY <1>6 DEF Acknowledge, AckMatches
  <2>2. CASE p.device # d
    BY <1>1, <2>1, <2>2 DEF Stays
  <2>3. CASE p.device = d
    <3>1. row[d].ack = row[d].token /\ PushSound(p)
      BY <1>1, <2>1, <2>3 DEF Sound, RowSound
    <3>2. Displayed(d, asked[d])
      BY <2>1, <2>3, <3>1 DEF PushSound, Displayed
    <3>3. row'[d].status = "delivered" /\ asked'[d] = asked[d]
      BY <1>1, <2>1, <2>3 DEF Row
    <3> QED BY <2>1, <2>3, <3>2, <3>3 DEF Arrives, AwaitsAck, Open
  <2> QED BY <2>2, <2>3
<1>7. ASSUME NEW t \in task, StartProvider(t)
      PROVE  Goal
  <2>1. UNCHANGED <<asked, made>>
    BY <1>7 DEF StartProvider
  <2>2. \/ row' = row
        \/ /\ row[t.push.device].status = "claimed"
           /\ row' = [row EXCEPT ![t.push.device].status = "provider_started",
                                 ![t.push.device].ack = t.push.claim]
    BY <1>7 DEF StartProvider
  <2> QED BY <1>1, <2>1, <2>2 DEF Stays, Proceeds, Open, Row
<1>8. ASSUME NEW t \in task, Record(t)
      PROVE  Goal
  <2>1. /\ t.stage \in Outcomes /\ row' = [row EXCEPT ![t.push.device] = Answered(@, t.stage)]
        /\ UNCHANGED <<asked, made>>
    BY <1>8 DEF Record
  <2>2. row'[d] = row[d] \/ row'[d] = Answered(row[d], t.stage)
    BY <1>1, <2>1
  <2>3. CASE row'[d] # row[d]
    <3>1. /\ row[d].status \in {"claimed", "provider_started", "provider_accepted"}
          /\ row'[d].status \in {"provider_accepted", "retry_wait", "failed", "ambiguous"}
      BY <1>1, <2>1, <2>2, <2>3, AnsweredRow
    <3> QED BY <2>1, <3>1 DEF Proceeds, Open
  <2> QED BY <2>1, <2>3 DEF Stays
<1>9. ASSUME NEW old \in SUBSET Device, Maintain(old)
      PROVE  Goal
  <2>1. row'[d] = Maintained(d, d \in old) /\ UNCHANGED <<asked, made>>
    BY <1>9 DEF Maintain
  <2>2. CASE row'[d] # row[d]
    <3>1. row[d].status \in Open /\ row'[d].status \in {"queued", "failed", "ambiguous"}
      BY <1>1, <2>1, <2>2, MaintainedRow
    <3> QED BY <2>1, <3>1 DEF Proceeds, Open
  <2> QED BY <2>1, <2>2 DEF Stays
<1>10. \/ UNCHANGED <<row, asked, made>> \/ Enqueue
       \/ \E c \in Device : Claim(c) \/ OperatorRetry(c)
       \/ \E p \in wire : Acknowledge(p)
       \/ \E t \in task : StartProvider(t) \/ Record(t)
       \/ \E old \in SUBSET Device : Maintain(old)
  BY DEF Next, vars, Withdraw, Grant, OptOut, OptIn, Pause, ClaimRecipient,
         ReportRecipient, ExpireClaim, ReconcileCampaigns, Register, Unregister,
         Display, Send, Lose
<1> QED BY <1>2, <1>3, <1>4, <1>5, <1>6, <1>7, <1>8, <1>9, <1>10

\* The rows that do not exist stay fresh.
LEMMA FreshStep ==
  ASSUME IInv, Fresh, [Next]_vars
  PROVE  Fresh'
<1> SUFFICES ASSUME NEW d \in Device, row'[d].status = "none"
             PROVE  made'[d] = 0 /\ asked'[d] = 0
  BY DEF Fresh
<1>1. Stays(d)
  BY RowMoves DEF Opens, Proceeds, Arrives, Reopens, Open
<1> QED BY <1>1 DEF Fresh, Stays

\* Each asking moves as AtLeastOnce says.
LEMMA AskingMoves ==
  ASSUME IInv, IInv', Fresh, [Next]_vars, NEW d \in Device, NEW n \in 0..MaxAsked
  PROVE  \/ StateOf(d, n)' = StateOf(d, n)
         \/ StateOf(d, n) = "none" /\ StateOf(d, n)' = "open"
         \/ StateOf(d, n) = "open" /\ StateOf(d, n)' \in {"dead", "cancelled"}
         \/ StateOf(d, n) = "open" /\ Displayed(d, n) /\ StateOf(d, n)' = "delivered"
<1> USE DEF StateOf
<1>1. /\ asked[d] \in Nat /\ asked'[d] \in Nat /\ n \in Nat
      /\ row[d].muted => row[d].status = "failed"
      /\ row'[d].muted => row'[d].status = "failed"
  BY PushAssumption DEF IInv, TypeOK, Sound, RowSound
<1>2. CASE Stays(d)
  BY <1>2 DEF Stays
<1>3. CASE Opens(d)
  BY <1>1, <1>3 DEF Opens, Fresh, Open
<1>4. CASE Proceeds(d)
  BY <1>1, <1>4 DEF Proceeds, Open
<1>5. CASE Arrives(d)
  BY <1>1, <1>5 DEF Arrives, Open
<1>6. CASE Reopens(d)
  BY <1>1, <1>6 DEF Reopens, Retriable, Open
<1> QED BY <1>2, <1>3, <1>4, <1>5, <1>6, RowMoves

\* A push is displayed for an asking that exists.
LEMMA DisplayCarriesOut ==
  ASSUME IInv, Fresh, NEW p \in wire, Display(p)
  PROVE  Promise!CarryOut(<<p.device, p.asked>>)
<1> DEFINE i == <<p.device, p.asked>>
<1>1. /\ p.device \in Device /\ p.asked \in 0..MaxAsked /\ p.claim \in Claims \ {0}
      /\ p.claim <= made[p.device] /\ p.asked <= asked[p.device] /\ asked[p.device] \in Nat
  BY PushAssumption DEF IInv, TypeOK, Sound, PushSound, Push
<1>2. i \in Asking /\ i[1] = p.device /\ i[2] = p.asked
  BY <1>1 DEF Asking
<1>3. shown' = shown \cup {p} /\ UNCHANGED <<row, asked>>
  BY DEF Display
<1>4. StateOf(p.device, p.asked) # "none"
  <2>1. row[p.device].status # "none"
    BY <1>1, ClaimsAre DEF Fresh
  <2>2. ~(p.asked > asked[p.device])
    BY <1>1
  <2> QED BY <2>1, <2>2 DEF StateOf
<1>5. UNCHANGED [j \in Asking |-> StateOf(j[1], j[2])]
  BY <1>3 DEF StateOf
<1>6. ASSUME NEW j \in Asking
      PROVE  Displayed(j[1], j[2])' = IF j = i THEN TRUE ELSE Displayed(j[1], j[2])
  <2>1. Displayed(j[1], j[2])' <=> Displayed(j[1], j[2]) \/ (p.device = j[1] /\ p.asked = j[2])
    BY <1>3 DEF Displayed
  <2>2. (p.device = j[1] /\ p.asked = j[2]) <=> j = i
    BY <1>1, <1>2 DEF Asking
  <2> QED BY <2>1, <2>2 DEF Displayed
<1>7. [j \in Asking |-> Displayed(j[1], j[2])]'
        = [[j \in Asking |-> Displayed(j[1], j[2])] EXCEPT ![i] = TRUE]
  BY <1>2, <1>6
<1> QED BY <1>2, <1>4, <1>5, <1>7 DEF Promise!CarryOut

\* Every step is a step of AtLeastOnce, or none.
LEMMA PromiseStep ==
  IInv /\ IInv' /\ Fresh /\ [Next]_vars
    => [Promise!Next]_<<[i \in Asking |-> StateOf(i[1], i[2])],
                        [i \in Asking |-> Displayed(i[1], i[2])]>>
<1> SUFFICES ASSUME IInv, IInv', Fresh, [Next]_vars
             PROVE  Promise!Next
  OBVIOUS
<1>1. ASSUME NEW p \in wire, Display(p)
      PROVE  Promise!Next
  <2>1. Promise!CarryOut(<<p.device, p.asked>>) /\ <<p.device, p.asked>> \in Asking
    BY <1>1, DisplayCarriesOut DEF IInv, TypeOK, Push, Asking
  <2> QED BY <2>1 DEF Promise!Next
<1>2. CASE UNCHANGED shown
  <2>1. ASSUME NEW i \in Asking
        PROVE  /\ StateOf(i[1], i[2])' \in Promise!State
               /\ \/ StateOf(i[1], i[2])' = StateOf(i[1], i[2])
                  \/ StateOf(i[1], i[2]) = "none" /\ StateOf(i[1], i[2])' = "open"
                  \/ StateOf(i[1], i[2]) = "open" /\ StateOf(i[1], i[2])' \in {"dead", "cancelled"}
                  \/ /\ StateOf(i[1], i[2]) = "open" /\ Displayed(i[1], i[2])
                     /\ StateOf(i[1], i[2])' = "delivered"
    <3>1. i[1] \in Device /\ i[2] \in 0..MaxAsked
      BY DEF Asking
    <3> QED BY <3>1, AskingMoves DEF StateOf, Promise!State
  <2>2. Promise!Advance
    BY <1>2, <2>1 DEF Promise!Advance, Promise!Moves, Displayed
  <2> QED BY <2>2 DEF Promise!Next
<1>3. (\E p \in wire : Display(p)) \/ UNCHANGED shown
  BY DEF Next, vars, device, Withdraw, Grant, OptOut, OptIn, Pause, Enqueue, ClaimRecipient,
         ReportRecipient, ExpireClaim, ReconcileCampaigns, Register, Unregister, Claim,
         OperatorRetry, Acknowledge, StartProvider, Send, Record, Lose, Maintain
<1> QED BY <1>1, <1>2, <1>3

\* Push delivery implements AtLeastOnce, for any devices, attempts and
\* retries: each asking is concluded once, as delivered only if a push of it
\* was displayed, and not even an operator wakes what the fan's preference
\* ended.
THEOREM PromiseKept == Spec => PushKeepsPromise
<1>1. Init => Promise!Init
  <2> SUFFICES ASSUME Init PROVE Promise!Init
    OBVIOUS
  <2>1. \A i \in Asking : StateOf(i[1], i[2]) = "none" /\ ~Displayed(i[1], i[2])
    <3> SUFFICES ASSUME NEW i \in Asking
                 PROVE  StateOf(i[1], i[2]) = "none" /\ ~Displayed(i[1], i[2])
      OBVIOUS
    <3>1. i[1] \in Device /\ i[2] \in Nat
      BY PushAssumption DEF Asking
    <3>2. /\ row[i[1]].status = "none" /\ row[i[1]].muted = FALSE
          /\ asked[i[1]] = 0 /\ shown = {}
      BY <3>1 DEF Init, Blank
    <3>3. StateOf(i[1], i[2]) = "none"
      BY <3>1, <3>2 DEF StateOf, Open
    <3> QED BY <3>2, <3>3 DEF Displayed
  <2>2. [i \in Asking |-> Displayed(i[1], i[2])] = [i \in Asking |-> FALSE]
    BY <2>1 DEF Displayed
  <2> QED BY <2>1, <2>2 DEF Promise!Init
<1>2. Init => Fresh
  BY DEF Init, Fresh
<1>3. IInv /\ Fresh /\ [Next]_vars => Fresh'
  BY FreshStep
<1> QED BY <1>1, <1>2, <1>3, Invariance, PromiseStep, PTL DEF Spec, PushKeepsPromise, Promise!Spec

=============================================================================
