-------------------------- MODULE LifecycleProofs --------------------------
(***************************************************************************)
(* Proofs about ActionLifecycle for every set of actions and worker loops  *)
(* and every bound on attempts: one inductive invariant, from which the    *)
(* safety properties follow.                                               *)
(***************************************************************************)
EXTENDS ActionLifecycle, TLAPS

USE LifecycleAssumption

\* A row waits with an attempt to spend, and effects belong to actions that
\* succeeded or whose success is in doubt; one that succeeded was run by a
\* loop or sent by hand.
RowSound(a) ==
  /\ Is(a, "awaiting_approval") => action[a].attempts = 0
  /\ Is(a, "queued") => action[a].attempts < MaxAttempts
  /\ runs[a] <= 1
  /\ runs[a] /= 0 \/ emission[a] /= "none" =>
       action[a].status \in {"succeeded", "unknown"}
  /\ runs[a] = 0 => /\ emission[a] = "none"
                    /\ Is(a, "succeeded") => token[a] /= 0

\* The operator's claim and the row agree on who has the action.
LaneSound(a) ==
  /\ claim[a] /= "failed"
  /\ token[a] = 0 <=> claim[a] = "none"
  /\ mailed[a] => token[a] /= 0
  /\ Fenced(a) =>
       /\ action[a].status \in {"processing", "succeeded", "unknown"}
       /\ Is(a, "processing") => action[a].attempts < MaxAttempts
  /\ claim[a] = "succeeded" => action[a].status \in {"succeeded", "unknown"}

\* A loop holds past attempts, or the one under way; never one of a row that
\* waits or that a person has taken.
HoldSound(h) ==
  /\ h.number <= action[h.action].attempts
  /\ h.number = action[h.action].attempts =>
       /\ ~Is(h.action, "awaiting_approval")
       /\ ~Is(h.action, "queued")
       /\ ~(Is(h.action, "processing") /\ Fenced(h.action))

\* The attempts of a as the ledger of attempts should have them.
AttemptsSound(a) ==
  /\ opened[a] = 1..action[a].attempts
  /\ \A n \in Number :
       verdicts[a][n] =
         IF /\ n <= action[a].attempts
            /\ ~(n = action[a].attempts /\ (MachineRuns(a) \/ TakenAway(a)))
         THEN 1 ELSE 0

IInv ==
  /\ TypeOK
  /\ \A a \in Action : RowSound(a) /\ LaneSound(a) /\ AttemptsSound(a)
  /\ \A w \in Worker : \A h \in held[w] : HoldSound(h)
  /\ SingleRunner

-----------------------------------------------------------------------------
(* Rows.                                                                   *)

\* What a waiting row holds.
LEMMA WaitingParts ==
  ASSUME NEW s \in Status, NEW n \in 0..MaxAttempts, NEW due \in BOOLEAN,
         NEW parked \in BOOLEAN
  PROVE  /\ Waiting(s, n, due, parked) \in Row
         /\ Waiting(s, n, due, parked).status = s
         /\ Waiting(s, n, due, parked).attempts = n
  BY DEF Waiting, Row

\* What a row that has ended holds.
LEMMA EndedParts ==
  ASSUME NEW s \in Status, NEW n \in 0..MaxAttempts
  PROVE  /\ Ended(s, n) \in Row
         /\ Ended(s, n).status = s
         /\ Ended(s, n).attempts = n
  BY DEF Ended, Row

\* What a row under way holds.
LEMMA RunningParts ==
  ASSUME NEW n \in 0..MaxAttempts
  PROVE  /\ Running(n) \in Row
         /\ Running(n).status = "processing"
         /\ Running(n).attempts = n
  BY DEF Running, Row, Status

\* What the constructors of a row put into it.
LEMMA Constructors ==
  ASSUME NEW s \in Status, NEW n \in 0..MaxAttempts, NEW due \in BOOLEAN,
         NEW parked \in BOOLEAN
  PROVE  /\ Waiting(s, n, due, parked) \in Row
         /\ Waiting(s, n, due, parked).status = s
         /\ Waiting(s, n, due, parked).attempts = n
         /\ Ended(s, n) \in Row
         /\ Ended(s, n).status = s
         /\ Ended(s, n).attempts = n
         /\ Running(n) \in Row
         /\ Running(n).status = "processing"
         /\ Running(n).attempts = n
         /\ Overdue(n) \in Row
         /\ Overdue(n).status = "processing"
         /\ Overdue(n).attempts = n
  BY DEF Waiting, Ended, Running, Overdue, Row, Status

\* A row has a status and a number of attempts.
LEMMA RowParts ==
  ASSUME TypeOK, NEW a \in Action
  PROVE  /\ action[a] \in Row
         /\ action[a].status \in Status
         /\ action[a].attempts \in 0..MaxAttempts
         /\ action[a].due \in BOOLEAN
         /\ action[a].parked \in BOOLEAN
  BY DEF TypeOK, Row

\* One row is written.
LEMMA RowWritten ==
  ASSUME TypeOK, NEW a \in Action, NEW r \in Row,
         action' = [action EXCEPT ![a] = r]
  PROVE  /\ action' \in [Action -> Row]
         /\ action'[a] = r
         /\ \A b \in Action \ {a} : action'[b] = action[b]
  BY DEF TypeOK

-----------------------------------------------------------------------------
(* Steps that only move a row.                                             *)

\* Waiting for approval, then queued, then perhaps cancelled; or the same
\* status at another time.
Moves(from, to) ==
  \/ from = to
  \/ from = "awaiting_approval" /\ to = "queued"
  \/ from \in {"awaiting_approval", "queued"} /\ to = "cancelled"

\* A row moves before anybody works on it.
LEMMA MoveKeeps ==
  ASSUME IInv, NEW a \in Action, NEW r \in Row,
         action' = [action EXCEPT ![a] = r],
         r.attempts = action[a].attempts,
         Moves(action[a].status, r.status),
         UNCHANGED <<ledger, held, routes, lane, outside, runs>>,
         doomed' \in [Worker -> SUBSET Action]
  PROVE  IInv'
  <1>1. TypeOK BY DEF IInv
  <1>2. /\ action' \in [Action -> Row]
        /\ action'[a].status = r.status
        /\ action'[a].attempts = action[a].attempts
        /\ \A b \in Action \ {a} : action'[b] = action[b]
    BY <1>1, RowWritten
  <1>3. TypeOK'
    BY <1>1, <1>2 DEF TypeOK, ledger, routes, lane, outside
  <1>4. \A b \in Action : RowSound(b)'
    BY <1>2 DEF IInv, RowSound, lane, outside, Is, Moves
  <1>5. \A b \in Action : LaneSound(b)'
    BY <1>2 DEF IInv, LaneSound, lane, Is, Fenced, Moves
  <1>6. \A b \in Action : AttemptsSound(b)'
    BY <1>2 DEF IInv, AttemptsSound, ledger, lane, MachineRuns, TakenAway,
                  Is, Fenced, Moves
  <1>7. \A w \in Worker : \A h \in held'[w] : HoldSound(h)'
    BY <1>1, <1>2
    DEF IInv, TypeOK, HoldSound, lane, Is, Fenced, Attempt, Moves
  <1>8. SingleRunner'
    BY DEF IInv, SingleRunner
  <1> QED BY <1>3, <1>4, <1>5, <1>6, <1>7, <1>8 DEF IInv

\* Approval queues the row.
LEMMA ApproveKeeps ==
  ASSUME IInv, NEW a \in Action, Approve(a)
  PROVE  IInv'
  <1>1. PICK due \in BOOLEAN :
          action' = [action EXCEPT ![a] =
                       Waiting("queued", action[a].attempts, due, action[a].parked)]
    BY DEF Approve
  <1> DEFINE r == Waiting("queued", action[a].attempts, due, action[a].parked)
  <1>2. r \in Row /\ r.status = "queued" /\ r.attempts = action[a].attempts
    <2>1. TypeOK /\ "queued" \in Status
      BY DEF IInv, Status
    <2>2. action[a].attempts \in 0..MaxAttempts /\ action[a].parked \in BOOLEAN
      BY <2>1, RowParts
    <2> QED BY <1>1, <2>1, <2>2, WaitingParts
  <1>3. Moves(action[a].status, r.status)
    BY <1>2 DEF Approve, Is, Moves
  <1>4. doomed' \in [Worker -> SUBSET Action]
    BY DEF IInv, TypeOK, Approve, loops
  <1> QED BY <1>1, <1>2, <1>3, <1>4, MoveKeeps DEF Approve, loops

\* Cancel, Revoke, and the update of the sweep when the row is still queued.
LEMMA CancelledKeeps ==
  ASSUME IInv, NEW a \in Action,
         Is(a, "awaiting_approval") \/ Is(a, "queued"),
         action' = [action EXCEPT ![a] = Cancelled(a)],
         UNCHANGED <<ledger, held, routes, lane, outside, runs>>,
         doomed' \in [Worker -> SUBSET Action]
  PROVE  IInv'
  <1> DEFINE r == Cancelled(a)
  <1>1. r \in Row /\ r.status = "cancelled" /\ r.attempts = action[a].attempts
    BY RowParts, Constructors DEF IInv, Status, Cancelled
  <1>2. Moves(action[a].status, r.status)
    BY <1>1 DEF Is, Moves
  <1> QED BY <1>1, <1>2, MoveKeeps

\* Cancelling and revoking take only rows that wait.
LEMMA CancelKeeps ==
  ASSUME IInv, NEW a \in Action, Cancel(a) \/ Revoke(a)
  PROVE  IInv'
  <1>1. doomed' \in [Worker -> SUBSET Action]
    BY DEF IInv, TypeOK, Cancel, Revoke, loops
  <1> QED BY <1>1, CancelledKeeps DEF Cancel, Cancellable, Revoke, loops

\* The sweep rechecks the status, so what it read may be stale.
LEMMA SweepCancelKeeps ==
  ASSUME IInv, NEW w \in Worker, NEW a \in Action, SweepCancel(w, a)
  PROVE  IInv'
  <1>1. doomed' \in [Worker -> SUBSET Action]
    BY DEF IInv, TypeOK, SweepCancel
  <1>2. CASE StillDoomed(a)
    BY <1>1, <1>2, CancelledKeeps DEF SweepCancel, StillDoomed
  <1>3. CASE ~StillDoomed(a)
    <2>1. action' = [action EXCEPT ![a] = action[a]]
      BY <1>3 DEF SweepCancel, IInv, TypeOK
    <2>2. action[a] \in Row /\ Moves(action[a].status, action[a].status)
      BY RowParts DEF IInv, Moves
    <2> QED BY <1>1, <2>1, <2>2, MoveKeeps DEF SweepCancel
  <1> QED BY <1>2, <1>3

\* Time changes no status.
LEMMA TimeKeeps ==
  ASSUME IInv, NEW a \in Action, BecomeDue(a) \/ BecomeStale(a)
  PROVE  IInv'
  <1>1. doomed' \in [Worker -> SUBSET Action]
    BY DEF IInv, TypeOK, BecomeDue, BecomeStale, loops
  <1>2. CASE BecomeDue(a)
    <2> DEFINE r(due) ==
                 Waiting("queued", action[a].attempts, due, action[a].parked)
    <2>1. \A due \in BOOLEAN :
            /\ r(due) \in Row
            /\ r(due).status = "queued"
            /\ r(due).attempts = action[a].attempts
      <3>1. action[a].attempts \in 0..MaxAttempts /\ action[a].parked \in BOOLEAN
        BY RowParts DEF IInv
      <3> QED BY <3>1, WaitingParts DEF Status
    <2>2. Moves(action[a].status, r(TRUE).status)
      BY <1>2, <2>1 DEF BecomeDue, Is, Moves
    <2> HIDE DEF r
    <2>3. action' = [action EXCEPT ![a] = r(TRUE)]
      BY <1>2 DEF BecomeDue, r
    <2> QED BY <1>1, <1>2, <2>1, <2>2, <2>3, MoveKeeps DEF BecomeDue, loops
  <1>3. CASE BecomeStale(a)
    <2> DEFINE r == Overdue(action[a].attempts)
    <2>1. r \in Row /\ r.status = "processing" /\ r.attempts = action[a].attempts
      BY RowParts, Constructors DEF IInv, Status
    <2>2. Moves(action[a].status, r.status)
      BY <1>3, <2>1 DEF BecomeStale, Is, Moves
    <2> QED BY <1>1, <1>3, <2>1, <2>2, MoveKeeps DEF BecomeStale, loops
  <1> QED BY <1>2, <1>3

-----------------------------------------------------------------------------
(* Steps that move no row.                                                 *)

\* A step that moves no row, opens no attempt and hands out none.
LEMMA QuietKeeps ==
  ASSUME IInv, TypeOK',
         UNCHANGED <<action, ledger, claim, token, runs>>,
         \A w \in Worker : held'[w] \subseteq held[w],
         \A a \in Action : mailed'[a] => token[a] /= 0,
         \A a \in Action : emission[a] = "none" => emission'[a] = "none"
  PROVE  IInv'
  <1>1. \A b \in Action : RowSound(b)'
    BY DEF IInv, RowSound, Is
  <1>2. \A b \in Action : LaneSound(b)'
    BY DEF IInv, LaneSound, Is, Fenced
  <1>3. \A b \in Action : AttemptsSound(b)'
    BY DEF IInv, AttemptsSound, ledger, MachineRuns, TakenAway, Is, Fenced
  <1>4. \A w \in Worker : \A h \in held'[w] : HoldSound(h)'
    BY DEF IInv, HoldSound, Is, Fenced
  <1>5. SingleRunner'
    BY DEF IInv, SingleRunner
  <1> QED BY <1>1, <1>2, <1>3, <1>4, <1>5 DEF IInv

\* A loop reads, or dies.
LEMMA LoopQuietKeeps ==
  ASSUME IInv, NEW w \in Worker, SweepRead(w) \/ Crash(w)
  PROVE  IInv'
  <1>1. /\ held' \in [Worker -> SUBSET Attempt]
        /\ doomed' \in [Worker -> SUBSET Action]
        /\ \A v \in Worker : held'[v] \subseteq held[v]
        /\ UNCHANGED <<action, ledger, routes, lane, outside, runs>>
    <2>1. CASE SweepRead(w)
      BY <2>1 DEF IInv, TypeOK, SweepRead
    <2>2. CASE Crash(w)
      BY <2>2 DEF IInv, TypeOK, Crash
    <2> QED BY <2>1, <2>2
  <1>2. TypeOK'
    BY <1>1 DEF IInv, TypeOK, ledger, routes, lane, outside
  <1> QED BY <1>1, <1>2, QuietKeeps DEF IInv, LaneSound, lane, outside

\* The outbox behind an emission.
LEMMA OutsideKeeps ==
  ASSUME IInv, NEW a \in Action, FanOut(a) \/ CarryOut(a)
  PROVE  IInv'
  <1>1. TypeOK'
    <2>1. UNCHANGED <<action, ledger, loops, routes, lane, runs>>
      BY DEF FanOut, CarryOut
    <2>2. emission' \in [Action -> Emission]
      BY DEF IInv, TypeOK, FanOut, CarryOut, Emission
    <2>3. carried' \in [Action -> BOOLEAN]
      BY DEF IInv, TypeOK, FanOut, CarryOut
    <2> QED
      BY <2>1, <2>2, <2>3 DEF IInv, TypeOK, ledger, loops, routes, lane
  <1>2. UNCHANGED <<action, ledger, loops, lane, runs>>
    BY DEF FanOut, CarryOut
  <1>3. \A b \in Action : emission[b] = "none" => emission'[b] = "none"
    BY DEF FanOut, CarryOut, IInv, TypeOK
  <1> QED BY <1>1, <1>2, <1>3, QuietKeeps DEF IInv, LaneSound, lane, loops

\* Executors come and go.
LEMMA AdvertiseKeeps ==
  ASSUME IInv, Advertise
  PROVE  IInv'
  <1>1. TypeOK'
    BY DEF IInv, TypeOK, Advertise, ledger, loops, lane, outside
  <1>2. UNCHANGED <<action, ledger, loops, lane, outside, runs>>
    BY DEF Advertise
  <1> QED BY <1>1, <1>2, QuietKeeps DEF IInv, LaneSound, lane, loops, outside

\* The person sends the letter.
LEMMA MailKeeps ==
  ASSUME IInv, NEW a \in Action, Mail(a)
  PROVE  IInv'
  <1>1. TypeOK'
    BY DEF IInv, TypeOK, Mail, ledger, loops, routes, outside
  <1>2. UNCHANGED <<action, ledger, loops, claim, token, outside, runs>>
    BY DEF Mail
  <1>3. \A b \in Action : mailed'[b] => token[b] /= 0
    BY DEF Mail, IInv, TypeOK, LaneSound
  <1> QED BY <1>1, <1>2, <1>3, QuietKeeps DEF loops, outside

\* A "sent" request is lost.
LEMMA DropMarkKeeps ==
  ASSUME IInv, NEW m \in marks, DropMark(m)
  PROVE  IInv'
  <1>1. TypeOK'
    BY DEF IInv, TypeOK, DropMark, ledger, loops, routes, outside
  <1>2. UNCHANGED <<action, ledger, loops, claim, token, mailed, outside, runs>>
    BY DEF DropMark
  <1> QED BY <1>1, <1>2, QuietKeeps DEF IInv, LaneSound, loops, outside

\* The sweep of abandoned claims only ever finds asks that succeeded.
LEMMA SettleClaimKeeps ==
  ASSUME IInv, NEW a \in Action, SettleClaim(a)
  PROVE  IInv'
  <1>1. Is(a, "succeeded") /\ Fenced(a)
    BY DEF SettleClaim, Abandoned, IInv, LaneSound, Is
  <1>2. claim' = [claim EXCEPT ![a] = "succeeded"]
    BY <1>1 DEF SettleClaim
  <1>3. UNCHANGED <<action, ledger, loops, routes, token, marks, mailed,
                    reported, outside, runs>>
    BY DEF SettleClaim
  <1>4. TypeOK'
    BY <1>2, <1>3 DEF IInv, TypeOK, ledger, loops, routes, outside
  <1>5. \A b \in Action : RowSound(b)'
    BY <1>3 DEF IInv, RowSound, Is, outside
  <1>6. \A b \in Action : LaneSound(b)'
    BY <1>1, <1>2, <1>3 DEF IInv, TypeOK, LaneSound, Is, Fenced
  <1>7. \A b \in Action : AttemptsSound(b)'
    BY <1>1, <1>2, <1>3
    DEF IInv, TypeOK, AttemptsSound, ledger, MachineRuns, TakenAway, Is, Fenced
  <1>8. \A w \in Worker : \A h \in held'[w] : HoldSound(h)'
    BY <1>1, <1>2, <1>3 DEF IInv, TypeOK, HoldSound, Is, Fenced, loops, Attempt
  <1>9. SingleRunner'
    BY <1>3 DEF IInv, SingleRunner, loops
  <1> QED BY <1>4, <1>5, <1>6, <1>7, <1>8, <1>9 DEF IInv

-----------------------------------------------------------------------------
(* The human lane.                                                         *)

\* The row after a person took it.
LEMMA TakenParts ==
  ASSUME TypeOK, NEW a \in Action
  PROVE  /\ Taken(a) \in Row
         /\ Taken(a).attempts = action[a].attempts
         /\ Taken(a).status = IF Is(a, "queued") THEN "processing"
                                                 ELSE action[a].status
  BY RowParts, Constructors DEF Taken, Is

\* Preparing a letter takes rows no loop can be working on.
LEMMA PrepareKeeps ==
  ASSUME IInv, NEW a \in Action, Prepare(a)
  PROVE  IInv'
  <1>1. TypeOK BY DEF IInv
  <1>2. /\ action' \in [Action -> Row]
        /\ action'[a].status =
             IF Is(a, "queued") THEN "processing" ELSE action[a].status
        /\ action'[a].attempts = action[a].attempts
        /\ \A b \in Action \ {a} : action'[b] = action[b]
    BY <1>1, TakenParts, RowWritten DEF Prepare
  <1>3. /\ claim' \in [Action -> {"none", "claimed", "succeeded", "failed"}]
        /\ claim'[a] = "claimed"
        /\ \A b \in Action \ {a} : claim'[b] = claim[b]
    BY <1>1 DEF Prepare, TypeOK
  <1>4. /\ token' \in [Action -> 0..MaxPrepares]
        /\ token'[a] /= 0
        /\ \A b \in Action \ {a} : token'[b] = token[b]
    BY <1>1 DEF Prepare, TypeOK
  <1>5. UNCHANGED <<ledger, loops, routes, marks, mailed, reported, outside, runs>>
    BY DEF Prepare
  <1>6. \/ Is(a, "queued")
        \/ Is(a, "processing") /\ Fenced(a)
        \/ action[a].status \in {"succeeded", "unknown"}
    BY DEF Prepare, Preparable, Is
  <1>7. TypeOK'
    BY <1>1, <1>2, <1>3, <1>4, <1>5
    DEF TypeOK, ledger, loops, routes, outside
  <1>8. \A b \in Action : RowSound(b)'
    BY <1>2, <1>4, <1>5, <1>6 DEF IInv, RowSound, Is, outside
  <1>9. \A b \in Action : LaneSound(b)'
    BY <1>2, <1>3, <1>4, <1>5, <1>6 DEF IInv, RowSound, LaneSound, Is, Fenced
  <1>10. \A b \in Action : AttemptsSound(b)'
    <2>1. \A b \in Action : /\ MachineRuns(b)' = MachineRuns(b)
                            /\ TakenAway(b)' = TakenAway(b)
      <3>1. ~MachineRuns(a) /\ ~MachineRuns(a)'
        BY <1>3, <1>6 DEF MachineRuns, Fenced, Is
      <3>2. ~TakenAway(a) /\ ~TakenAway(a)'
        BY <1>4 DEF Prepare, Preparable, NeverDelivered, IInv, RowSound,
                    TakenAway, Is
      <3> QED BY <1>2, <1>3, <1>4, <1>5, <3>1, <3>2
          DEF MachineRuns, TakenAway, Is, Fenced
    <2> QED BY <1>2, <1>5, <2>1 DEF IInv, AttemptsSound, ledger
  <1>11. \A w \in Worker : \A h \in held'[w] : HoldSound(h)'
    <2> SUFFICES ASSUME NEW w \in Worker, NEW h \in held[w]
                 PROVE  HoldSound(h)'
      BY <1>5 DEF loops
    <2>1. h.action \in Action /\ HoldSound(h)
      BY <1>1 DEF IInv, TypeOK, Attempt
    <2>2. CASE h.action = a
      BY <1>2, <1>6, <2>1, <2>2 DEF HoldSound, Is, Fenced
    <2>3. CASE h.action /= a
      BY <1>2, <1>3, <2>1, <2>3 DEF HoldSound, Is, Fenced
    <2> QED BY <2>2, <2>3
  <1>12. SingleRunner'
    BY <1>5 DEF IInv, SingleRunner, loops
  <1> QED BY <1>7, <1>8, <1>9, <1>10, <1>11, <1>12 DEF IInv

\* A claimed ask never waits, so "sent" has no row to take back: the branch of
\* beacon_ask_send_claim for a queued row is never needed.
LEMMA MarkSentKeeps ==
  ASSUME IInv, NEW a \in Action, MarkSent(a)
  PROVE  IInv'
  <1>1. UNCHANGED <<ledger, loops, routes, claim, token, mailed, reported,
                    outside, runs>>
    BY DEF MarkSent
  <1>2. action' = action
    <2>1. CASE Fenced(a)
      <3>1. ~Is(a, "queued")
        BY <2>1 DEF IInv, LaneSound, Is
      <3>2. Taken(a) = action[a]
        BY <3>1 DEF Taken
      <3> QED BY <3>2 DEF MarkSent, IInv, TypeOK
    <2>2. CASE ~Fenced(a)
      BY <2>2 DEF MarkSent
    <2> QED BY <2>1, <2>2
  <1>3. token[a] \in Token
    BY DEF MarkSent, IInv, TypeOK, LaneSound, Token
  <1>4. marks' \subseteq Action \X Token
    BY <1>3 DEF MarkSent, IInv, TypeOK
  <1>5. TypeOK'
    BY <1>1, <1>2, <1>4 DEF IInv, TypeOK, ledger, loops, routes, outside
  <1> QED BY <1>1, <1>2, <1>5, QuietKeeps DEF IInv, LaneSound, loops, outside

\* A success receipt closes whatever a claimed ask can be.
LEMMA ReceivedParts ==
  ASSUME NEW a \in Action,
         action[a].status \in {"processing", "succeeded", "unknown"}
  PROVE  Received(a) = Ended("succeeded", action[a].attempts)
  <1>1. StateOf[action[a].status] \in {"RUNNING", "SUCCEEDED", "UNKNOWN"}
    BY DEF StateOf
  <1>2. Applied(StateOf[action[a].status], "Executed", "Premature") = {"SUCCEEDED"}
    BY <1>1 DEF Applied, Open, Verdict
  <1> QED BY <1>2 DEF Received

\* The operator's receipt ends the action.
LEMMA ReceiptKeeps ==
  ASSUME IInv, NEW a \in Action, token[a] /= 0,
         action' = [action EXCEPT ![a] = Received(a)],
         claim' = [claim EXCEPT ![a] = "succeeded"],
         reported' = [reported EXCEPT ![a] = TRUE],
         marks' \subseteq marks,
         UNCHANGED <<ledger, loops, routes, token, mailed, outside, runs>>
  PROVE  IInv'
  <1>1. TypeOK BY DEF IInv
  <1>2. claim[a] \in {"claimed", "succeeded"}
    BY DEF IInv, TypeOK, LaneSound
  <1>3. /\ action[a].status \in {"processing", "succeeded", "unknown"}
        /\ Is(a, "processing") => Fenced(a)
    BY <1>2 DEF IInv, LaneSound, Fenced, Is
  <1>4. /\ action' \in [Action -> Row]
        /\ action'[a].status = "succeeded"
        /\ action'[a].attempts = action[a].attempts
        /\ \A b \in Action \ {a} : action'[b] = action[b]
    <2>1. /\ Received(a) \in Row
          /\ Received(a).status = "succeeded"
          /\ Received(a).attempts = action[a].attempts
      BY <1>1, <1>3, ReceivedParts, RowParts, Constructors DEF Status
    <2> QED BY <1>1, <2>1, RowWritten
  <1>5. /\ claim' \in [Action -> {"none", "claimed", "succeeded", "failed"}]
        /\ claim'[a] = "succeeded"
        /\ \A b \in Action \ {a} : claim'[b] = claim[b]
    BY <1>1 DEF TypeOK
  <1>6. TypeOK'
    BY <1>1, <1>4, <1>5 DEF TypeOK, ledger, loops, routes, outside
  <1>7. \A b \in Action : RowSound(b)'
    BY <1>4 DEF IInv, RowSound, Is, outside
  <1>8. \A b \in Action : LaneSound(b)'
    BY <1>2, <1>4, <1>5 DEF IInv, LaneSound, Is, Fenced
  <1>9. \A b \in Action : AttemptsSound(b)'
    BY <1>3, <1>4, <1>5 DEF IInv, AttemptsSound, ledger, MachineRuns, TakenAway, Is, Fenced
  <1>10. \A w \in Worker : \A h \in held'[w] : HoldSound(h)'
    <2> SUFFICES ASSUME NEW w \in Worker, NEW h \in held[w]
                 PROVE  HoldSound(h)'
      BY DEF loops
    <2>1. h.action \in Action /\ HoldSound(h)
      BY <1>1 DEF IInv, TypeOK, Attempt
    <2>2. CASE h.action = a
      BY <1>4, <2>1, <2>2 DEF HoldSound, Is, Fenced
    <2>3. CASE h.action /= a
      BY <1>4, <1>5, <2>1, <2>3 DEF HoldSound, Is, Fenced
    <2> QED BY <2>2, <2>3
  <1>11. SingleRunner'
    BY DEF IInv, SingleRunner, loops
  <1> QED BY <1>6, <1>7, <1>8, <1>9, <1>10, <1>11 DEF IInv

\* The second transaction of "sent", with or without effect.
LEMMA ReportSentKeeps ==
  ASSUME IInv, NEW m \in marks, ReportSent(m)
  PROVE  IInv'
  <1>1. TypeOK /\ m[1] \in Action /\ m[2] \in Token
    BY DEF IInv, TypeOK
  <1>2. /\ UNCHANGED <<ledger, loops, routes, token, mailed, outside, runs>>
        /\ marks' \subseteq marks
    BY DEF ReportSent
  <1>3. CASE ~(TokenHolds(m) /\ ~reported[m[1]])
    <2>1. UNCHANGED <<reported, claim, action>>
      BY <1>3 DEF ReportSent
    <2>2. TypeOK'
      BY <1>1, <1>2, <2>1 DEF TypeOK, ledger, loops, routes, outside
    <2> QED BY <1>2, <2>1, <2>2, QuietKeeps DEF IInv, LaneSound, loops, outside
  <1>4. CASE TokenHolds(m) /\ ~reported[m[1]]
    <2>1. token[m[1]] /= 0
      BY <1>1, <1>4 DEF TokenHolds, Token
    <2>2. /\ action' = [action EXCEPT ![m[1]] = Received(m[1])]
          /\ claim' = [claim EXCEPT ![m[1]] = "succeeded"]
          /\ reported' = [reported EXCEPT ![m[1]] = TRUE]
      BY <1>4 DEF ReportSent
    <2> QED BY <1>1, <1>2, <2>1, <2>2, ReceiptKeeps
  <1> QED BY <1>3, <1>4

\* Only an action that succeeded has an emission to conclude.
LEMMA ConcludeKeeps ==
  ASSUME IInv, NEW a \in Action, Conclude(a)
  PROVE  IInv'
  <1>1. TypeOK BY DEF IInv
  <1>2. UNCHANGED <<ledger, loops, routes, lane, carried, runs>>
    BY DEF Conclude
  <1>3. /\ emission[a] = "live"
        /\ emission' \in [Action -> Emission]
        /\ \A b \in Action : emission[b] = "none" => emission'[b] = "none"
    <2>1. emission[a] = "live"
      BY DEF Conclude
    <2>2. PICK next \in {"live", "delivered", "dead"} :
            emission' = [emission EXCEPT ![a] = next]
      BY DEF Conclude
    <2>3. emission \in [Action -> Emission]
      BY <1>1 DEF TypeOK
    <2> QED BY <2>1, <2>2, <2>3 DEF Emission
  <1>4. action[a].status \in {"succeeded", "unknown"} /\ runs[a] /= 0
    BY <1>3 DEF IInv, RowSound
  <1>5. CASE action' = action
    <2>1. TypeOK'
      BY <1>1, <1>2, <1>3, <1>5 DEF TypeOK, ledger, loops, routes, lane
    <2> QED
      BY <1>2, <1>3, <1>5, <2>1, QuietKeeps DEF IInv, LaneSound, lane, loops
  <1>6. CASE action' = [action EXCEPT ![a] = Ended("unknown", action[a].attempts)]
    <2>1. /\ action' \in [Action -> Row]
          /\ action'[a].status = "unknown"
          /\ action'[a].attempts = action[a].attempts
          /\ \A b \in Action \ {a} : action'[b] = action[b]
      <3> DEFINE r == Ended("unknown", action[a].attempts)
      <3>1. r \in Row /\ r.status = "unknown" /\ r.attempts = action[a].attempts
        BY <1>1, RowParts, Constructors DEF Status
      <3> HIDE DEF r
      <3> QED BY <1>1, <1>6, <3>1, RowWritten DEF r
    <2>2. TypeOK'
      BY <1>1, <1>2, <1>3, <2>1 DEF TypeOK, ledger, loops, routes, lane
    <2>3. \A b \in Action : RowSound(b)'
      BY <1>2, <1>3, <1>4, <2>1 DEF IInv, RowSound, Is, lane
    <2>4. \A b \in Action : LaneSound(b)'
      BY <1>2, <1>4, <2>1 DEF IInv, LaneSound, Is, Fenced, lane
    <2>5. \A b \in Action : AttemptsSound(b)'
      <3>1. \A b \in Action : /\ MachineRuns(b)' = MachineRuns(b)
                              /\ TakenAway(b)' = TakenAway(b)
        BY <1>2, <1>4, <2>1 DEF MachineRuns, TakenAway, Is, Fenced, lane
      <3> QED BY <1>2, <2>1, <3>1 DEF IInv, AttemptsSound, ledger
    <2>6. \A w \in Worker : \A h \in held'[w] : HoldSound(h)'
      <3> SUFFICES ASSUME NEW w \in Worker, NEW h \in held[w]
                   PROVE  HoldSound(h)'
        BY <1>2 DEF loops
      <3>1. h.action \in Action /\ HoldSound(h)
        BY <1>1 DEF IInv, TypeOK, Attempt
      <3>2. CASE h.action = a
        BY <2>1, <3>1, <3>2 DEF HoldSound, Is, Fenced, lane
      <3>3. CASE h.action /= a
        BY <1>2, <2>1, <3>1, <3>3 DEF HoldSound, Is, Fenced, lane
      <3> QED BY <3>2, <3>3
    <2>7. SingleRunner'
      BY <1>2 DEF IInv, SingleRunner, loops
    <2> QED BY <2>2, <2>3, <2>4, <2>5, <2>6, <2>7 DEF IInv
  <1> QED BY <1>5, <1>6 DEF Conclude

\* A lost notice makes the action unknown: the attempt of a worker stays open,
\* that of a person was closed before.
LEMMA LostElsewhereKeeps ==
  ASSUME IInv, NEW a \in Action, LostElsewhere(a)
  PROVE  IInv'
  <1>1. TypeOK /\ RowSound(a) /\ LaneSound(a) /\ AttemptsSound(a)
    BY DEF IInv
  <1>2. UNCHANGED <<ledger, loops, routes, lane, outside, runs>>
    BY DEF LostElsewhere
  <1>3. a \in Asked /\ action[a].status \in {"succeeded", "processing"}
    BY DEF LostElsewhere, Is
  <1>4. /\ action' \in [Action -> Row]
        /\ action'[a].status = "unknown"
        /\ action'[a].attempts = action[a].attempts
        /\ \A b \in Action \ {a} : action'[b] = action[b]
    <2> DEFINE r == Ended("unknown", action[a].attempts)
    <2>1. r \in Row /\ r.status = "unknown" /\ r.attempts = action[a].attempts
      BY <1>1, RowParts, Constructors DEF Status
    <2>2. action' = [action EXCEPT ![a] = r]
      BY DEF LostElsewhere
    <2> HIDE DEF r
    <2> QED BY <1>1, <2>1, <2>2, RowWritten
  <1>5. TypeOK'
    BY <1>1, <1>2, <1>4 DEF TypeOK, ledger, loops, routes, lane, outside
  <1>6. \A b \in Action : RowSound(b)'
    BY <1>2, <1>3, <1>4 DEF IInv, RowSound, Is, lane, outside
  <1>7. \A b \in Action : LaneSound(b)'
    BY <1>2, <1>3, <1>4 DEF IInv, LaneSound, Is, Fenced, lane
  <1>8. \A b \in Action : AttemptsSound(b)'
    <2>1. MachineRuns(a) \/ TakenAway(a) <=> MachineRuns(a)' \/ TakenAway(a)'
      <3>1. ~MachineRuns(a)' /\ ~TakenAway(a)
        BY <1>3, <1>4 DEF MachineRuns, TakenAway, Is
      <3>2. CASE Is(a, "processing") /\ ~Fenced(a)
        <4>1. claim[a] = "none"
          BY <1>1, <3>2 DEF TypeOK, LaneSound, Fenced, Is
        <4>2. runs[a] = 0 /\ token[a] = 0
          BY <1>1, <3>2, <4>1 DEF RowSound, LaneSound, Is
        <4> QED BY <1>2, <1>3, <1>4, <3>2, <4>2
            DEF MachineRuns, TakenAway, Is, lane
      <3>3. CASE ~(Is(a, "processing") /\ ~Fenced(a))
        <4>1. runs[a] /= 0 \/ token[a] /= 0
          BY <1>1, <1>3, <3>3 DEF RowSound, LaneSound, Fenced, Is
        <4> QED BY <1>2, <3>1, <3>3, <4>1 DEF MachineRuns, TakenAway, lane
      <3> QED BY <3>2, <3>3
    <2>2. \A b \in Action \ {a} : /\ MachineRuns(b)' = MachineRuns(b)
                                  /\ TakenAway(b)' = TakenAway(b)
      BY <1>2, <1>4 DEF MachineRuns, TakenAway, Is, Fenced, lane
    <2>3. UNCHANGED <<opened, verdicts>>
      BY <1>2 DEF ledger
    <2>4. AttemptsSound(a)'
      BY <1>1, <1>4, <2>1, <2>3 DEF AttemptsSound
    <2>5. \A b \in Action \ {a} : AttemptsSound(b)'
      BY <1>4, <2>2, <2>3 DEF IInv, AttemptsSound
    <2> QED BY <2>4, <2>5
  <1>9. \A w \in Worker : \A h \in held'[w] : HoldSound(h)'
    <2> SUFFICES ASSUME NEW w \in Worker, NEW h \in held[w]
                 PROVE  HoldSound(h)'
      BY <1>2 DEF loops
    <2>1. h.action \in Action /\ HoldSound(h)
      BY <1>1 DEF IInv, TypeOK, Attempt
    <2>2. CASE h.action = a
      BY <1>4, <2>1, <2>2 DEF HoldSound, Is, Fenced
    <2>3. CASE h.action /= a
      BY <1>2, <1>4, <2>1, <2>3 DEF HoldSound, Is, Fenced, lane
    <2> QED BY <2>2, <2>3
  <1>10. SingleRunner'
    BY <1>2 DEF IInv, SingleRunner, loops
  <1> QED BY <1>5, <1>6, <1>7, <1>8, <1>9, <1>10 DEF IInv

-----------------------------------------------------------------------------
(* The loop over the claimed actions.                                      *)

\* What a loop holds of the action h of its batch.
LEMMA HeldParts ==
  ASSUME NEW a \in Action, NEW n \in Number, NEW f \in BOOLEAN
  PROVE  /\ Held(a, n, f) \in Attempt
         /\ Held(a, n, f).action = a
         /\ Held(a, n, f).number = n
  BY DEF Held, Attempt

\* A loop lets go of an attempt, or keeps it as failed.
LetsGo(w, h) ==
  \/ held' = [held EXCEPT ![w] = @ \ {h}]
  \/ held' = [held EXCEPT ![w] = (@ \ {h}) \cup {Held(h.action, h.number, TRUE)}]

\* A loop that lets go of an attempt gains none.
LEMMA LetsGoParts ==
  ASSUME IInv, NEW w \in Worker, NEW h \in held[w], LetsGo(w, h)
  PROVE  /\ held' \in [Worker -> SUBSET Attempt]
         /\ SingleRunner'
         /\ \A v \in Worker : \A g \in held'[v] :
              \E k \in held[v] : k.action = g.action /\ k.number = g.number
  <1> DEFINE k == Held(h.action, h.number, TRUE)
  <1>1. h \in Attempt /\ h.action \in Action /\ h.number \in Number
    BY DEF IInv, TypeOK, Attempt
  <1>2. k \in Attempt /\ k.action = h.action /\ k.number = h.number
    BY <1>1, HeldParts
  <1> HIDE DEF k
  <1>3. /\ held \in [Worker -> SUBSET Attempt]
        /\ \/ held' = [held EXCEPT ![w] = held[w] \ {h}]
           \/ held' = [held EXCEPT ![w] = (held[w] \ {h}) \cup {k}]
    BY DEF LetsGo, IInv, TypeOK, k
  <1>4. held' \in [Worker -> SUBSET Attempt]
    BY <1>2, <1>3
  <1>5. /\ \A v \in Worker \ {w} : held'[v] = held[v]
        /\ held'[w] = held[w] \ {h} \/ held'[w] = (held[w] \ {h}) \cup {k}
    BY <1>3
  <1>6. SingleRunner'
    BY <1>2, <1>5 DEF IInv, SingleRunner
  <1> QED BY <1>2, <1>4, <1>5, <1>6

\* An execution that rolled back.
LEMMA ExecuteFailsKeeps ==
  ASSUME IInv, NEW w \in Worker, NEW h \in held[w], ExecuteFails(w, h)
  PROVE  IInv'
  <1>1. LetsGo(w, h) BY DEF ExecuteFails, LetsGo
  <1>2. UNCHANGED <<action, ledger, doomed, routes, lane, outside, runs>>
    BY DEF ExecuteFails
  <1>3. TypeOK'
    BY <1>1, <1>2, LetsGoParts DEF IInv, TypeOK, ledger, routes, lane, outside
  <1>4. \A b \in Action : RowSound(b)' /\ LaneSound(b)'
    BY <1>2 DEF IInv, RowSound, LaneSound, Is, Fenced, lane, outside
  <1>5. \A b \in Action : AttemptsSound(b)'
    BY <1>2 DEF IInv, AttemptsSound, MachineRuns, TakenAway, Is, Fenced, ledger, lane
  <1>6. \A v \in Worker : \A g \in held'[v] : HoldSound(g)'
    BY <1>1, <1>2, LetsGoParts DEF IInv, HoldSound, Is, Fenced, lane
  <1> QED BY <1>1, <1>3, <1>4, <1>5, <1>6, LetsGoParts DEF IInv

\* The attempt a loop may still finish is the one under way, and nobody but
\* the loop has the row.
LEMMA CurrentIsUnderWay ==
  ASSUME IInv, NEW w \in Worker, NEW h \in held[w], Current(h)
  PROVE  /\ h \in Attempt /\ h.action \in Action /\ h.number \in Number
         /\ Is(h.action, "processing")
         /\ action[h.action].attempts = h.number
         /\ MachineRuns(h.action)
         /\ claim[h.action] = "none"
         /\ token[h.action] = 0
         /\ verdicts[h.action][h.number] = 0
         /\ runs[h.action] = 0
         /\ emission[h.action] = "none"
  <1>1. h \in Attempt /\ h.action \in Action /\ h.number \in Number
    BY DEF IInv, TypeOK, Attempt
  <1>2. Is(h.action, "processing") /\ action[h.action].attempts = h.number
    BY DEF Current
  <1>3. HoldSound(h) /\ RowSound(h.action) /\ LaneSound(h.action)
        /\ AttemptsSound(h.action)
    BY <1>1 DEF IInv
  <1>4. ~Fenced(h.action)
    BY <1>2, <1>3 DEF HoldSound
  <1>5. MachineRuns(h.action)
    BY <1>2, <1>4 DEF MachineRuns
  <1>6. claim[h.action] = "none"
    BY <1>1, <1>2, <1>3, <1>4 DEF IInv, TypeOK, LaneSound, Fenced, Is
  <1>7. token[h.action] = 0
    BY <1>3, <1>6 DEF LaneSound
  <1>8. verdicts[h.action][h.number] = 0
    BY <1>1, <1>2, <1>3, <1>5 DEF AttemptsSound
  <1>9. runs[h.action] = 0 /\ emission[h.action] = "none"
    BY <1>2, <1>3 DEF RowSound, Is
  <1> QED BY <1>1, <1>2, <1>5, <1>6, <1>7, <1>8, <1>9

\* One more verdict.
LEMMA VerdictWritten ==
  ASSUME TypeOK, NEW a \in Action, NEW n \in Number,
         verdicts' = [verdicts EXCEPT ![a] = WithVerdict(a, n)]
  PROVE  /\ verdicts' \in [Action -> [Number -> Nat]]
         /\ verdicts'[a][n] = verdicts[a][n] + 1
         /\ \A k \in Number \ {n} : verdicts'[a][k] = verdicts[a][k]
         /\ \A b \in Action \ {a} : verdicts'[b] = verdicts[b]
  BY DEF TypeOK, WithVerdict

\* An attempt that was under way ends with its one verdict.
LEMMA AttemptClosed ==
  ASSUME IInv, NEW a \in Action, NEW n \in Number,
         action[a].attempts = n,
         MachineRuns(a),
         verdicts' = [verdicts EXCEPT ![a] = WithVerdict(a, n)],
         action'[a].attempts = n,
         action'[a].status \notin {"processing", "unknown"},
         \A b \in Action \ {a} : action'[b] = action[b] /\ runs'[b] = runs[b],
         UNCHANGED <<opened, claim, token>>
  PROVE  /\ verdicts' \in [Action -> [Number -> Nat]]
         /\ \A b \in Action : AttemptsSound(b)'
  <1>1. verdicts[a][n] = 0
    BY DEF IInv, AttemptsSound
  <1>2. /\ verdicts' \in [Action -> [Number -> Nat]]
        /\ verdicts'[a][n] = verdicts[a][n] + 1
        /\ \A k \in Number \ {n} : verdicts'[a][k] = verdicts[a][k]
        /\ \A b \in Action \ {a} : verdicts'[b] = verdicts[b]
    BY VerdictWritten DEF IInv
  <1>3. verdicts'[a][n] = 1
    BY <1>1, <1>2
  <1>4. AttemptsSound(a)'
    <2>1. ~MachineRuns(a)' /\ ~TakenAway(a)'
      BY DEF MachineRuns, TakenAway, Is
    <2>2. \A k \in Number \ {n} : verdicts[a][k] = IF k <= n THEN 1 ELSE 0
      BY DEF IInv, AttemptsSound
    <2>3. n \in Nat
      BY DEF Number
    <2> QED BY <1>2, <1>3, <2>1, <2>2, <2>3 DEF IInv, AttemptsSound
  <1>5. ASSUME NEW b \in Action \ {a}
        PROVE  AttemptsSound(b)'
    <2>1. /\ MachineRuns(b)' = MachineRuns(b)
          /\ TakenAway(b)' = TakenAway(b)
      BY DEF MachineRuns, TakenAway, Is, Fenced
    <2> QED BY <1>2, <2>1 DEF IInv, AttemptsSound
  <1> QED BY <1>2, <1>4, <1>5

\* The commit of execute_action.
LEMMA ExecuteKeeps ==
  ASSUME IInv, NEW w \in Worker, NEW h \in held[w], Execute(w, h)
  PROVE  IInv'
  <1> DEFINE a == h.action
  <1> DEFINE n == h.number
  <1>1. TypeOK BY DEF IInv
  <1>2. Current(h) /\ LetsGo(w, h)
    BY DEF Execute, LetsGo
  <1>3. /\ a \in Action /\ n \in Number
        /\ action[a].attempts = n
        /\ MachineRuns(a)
        /\ claim[a] = "none"
        /\ token[a] = 0
        /\ verdicts[a][n] = 0
        /\ runs[a] = 0
    BY <1>2, CurrentIsUnderWay
  <1>4. UNCHANGED <<opened, doomed, routes, lane, carried>>
    BY DEF Execute
  <1> DEFINE r == Ended("succeeded", action[a].attempts)
  <1>5. r \in Row /\ r.status = "succeeded" /\ r.attempts = action[a].attempts
    BY <1>1, <1>3, RowParts, Constructors DEF Status
  <1>6. action' = [action EXCEPT ![a] = r]
    BY DEF Execute
  <1>7. verdicts' = [verdicts EXCEPT ![a] = WithVerdict(a, n)]
    BY DEF Execute
  <1>8. /\ emission' = [emission EXCEPT ![a] = Emitted(a)]
        /\ runs' = [runs EXCEPT ![a] = @ + 1]
    BY DEF Execute
  <1> HIDE DEF r
  <1>9. /\ action' \in [Action -> Row]
        /\ action'[a].status = "succeeded"
        /\ action'[a].attempts = action[a].attempts
        /\ \A b \in Action \ {a} : action'[b] = action[b]
    BY <1>1, <1>3, <1>5, <1>6, RowWritten
  <1>10. /\ runs' \in [Action -> Nat]
         /\ runs'[a] = 1
         /\ \A b \in Action \ {a} : runs'[b] = runs[b]
    BY <1>1, <1>3, <1>8 DEF TypeOK
  <1>11. /\ verdicts' \in [Action -> [Number -> Nat]]
         /\ \A b \in Action : AttemptsSound(b)'
    BY <1>3, <1>4, <1>7, <1>9, <1>10, AttemptClosed DEF lane
  <1>12. /\ emission' \in [Action -> Emission]
         /\ \A b \in Action \ {a} : emission'[b] = emission[b]
    BY <1>1, <1>3, <1>8 DEF TypeOK, Emitted, Emission
  <1>13. held' \in [Worker -> SUBSET Attempt] /\ SingleRunner'
    BY <1>2, LetsGoParts
  <1> HIDE DEF a, n
  <1>14. TypeOK'
    BY <1>1, <1>4, <1>9, <1>10, <1>11, <1>12, <1>13 DEF TypeOK, routes, lane
  <1>15. \A b \in Action : RowSound(b)'
    BY <1>4, <1>9, <1>10, <1>12 DEF IInv, RowSound, Is, lane
  <1>16. \A b \in Action : LaneSound(b)'
    BY <1>3, <1>4, <1>9 DEF IInv, LaneSound, Is, Fenced, lane
  <1>17. \A v \in Worker : \A g \in held'[v] : HoldSound(g)'
    <2> SUFFICES ASSUME NEW v \in Worker, NEW g \in held'[v]
                 PROVE  HoldSound(g)'
      OBVIOUS
    <2>1. PICK k \in held[v] : k.action = g.action /\ k.number = g.number
      BY <1>2, LetsGoParts
    <2>2. k.action \in Action /\ HoldSound(k)
      BY <1>1 DEF IInv, TypeOK, Attempt
    <2>3. CASE g.action = a
      BY <1>9, <2>1, <2>2, <2>3 DEF HoldSound, Is, Fenced
    <2>4. CASE g.action /= a
      BY <1>4, <1>9, <2>1, <2>2, <2>4 DEF HoldSound, Is, Fenced, lane
    <2> QED BY <2>3, <2>4
  <1> QED BY <1>11, <1>13, <1>14, <1>15, <1>16, <1>17 DEF IInv

\* A failed action waits again only with an attempt left.
LEMMA FailedRowParts ==
  ASSUME TypeOK, NEW a \in Action, NEW retryable \in BOOLEAN
  PROVE  /\ FailedRow(a, retryable) \in Row
         /\ FailedRow(a, retryable).attempts = action[a].attempts
         /\ \/ FailedRow(a, retryable).status = "failed"
            \/ /\ FailedRow(a, retryable).status = "queued"
               /\ action[a].attempts < MaxAttempts
  <1>1. action[a].attempts \in 0..MaxAttempts
    BY RowParts
  <1>2. CASE retryable /\ action[a].attempts < MaxAttempts
    BY <1>1, <1>2 DEF FailedRow, Waiting, Row, Status
  <1>3. CASE ~(retryable /\ action[a].attempts < MaxAttempts)
    BY <1>1, <1>3 DEF FailedRow, Ended, Row, Status
  <1> QED BY <1>2, <1>3

\* fail_action, of this attempt or too late.
LEMMA FailActionKeeps ==
  ASSUME IInv, NEW w \in Worker, NEW h \in held[w], FailAction(w, h)
  PROVE  IInv'
  <1>1. TypeOK BY DEF IInv
  <1>2. UNCHANGED <<opened, doomed, routes, lane, outside, runs>>
    BY DEF FailAction
  <1>3. LetsGo(w, h) /\ held' = [held EXCEPT ![w] = @ \ {h}]
    BY DEF FailAction, LetsGo
  <1>4. held' \in [Worker -> SUBSET Attempt] /\ SingleRunner'
    BY <1>3, LetsGoParts
  <1>5. CASE UNCHANGED <<action, verdicts>>
    <2>1. TypeOK'
      BY <1>1, <1>2, <1>4, <1>5 DEF TypeOK, routes, lane, outside
    <2>2. \A v \in Worker : held'[v] \subseteq held[v]
      BY <1>1, <1>3 DEF TypeOK
    <2> QED
      BY <1>2, <1>5, <2>1, <2>2, QuietKeeps
      DEF IInv, LaneSound, ledger, lane, outside
  <1>6. CASE /\ Current(h)
             /\ \E retryable \in BOOLEAN :
                  action' = [action EXCEPT ![h.action] = FailedRow(h.action, retryable)]
             /\ verdicts' =
                  [verdicts EXCEPT ![h.action] = WithVerdict(h.action, h.number)]
    <2> DEFINE a == h.action
    <2> DEFINE n == h.number
    <2>1. /\ a \in Action /\ n \in Number
          /\ h \in Attempt
          /\ action[a].attempts = n
          /\ MachineRuns(a)
          /\ claim[a] = "none"
          /\ token[a] = 0
          /\ verdicts[a][n] = 0
          /\ runs[a] = 0
          /\ emission[a] = "none"
      BY <1>6, CurrentIsUnderWay
    <2>2. /\ action' \in [Action -> Row]
          /\ action'[a].attempts = action[a].attempts
          /\ \/ action'[a].status = "failed"
             \/ action'[a].status = "queued" /\ action[a].attempts < MaxAttempts
          /\ \A b \in Action \ {a} : action'[b] = action[b]
      <3>1. PICK retryable \in BOOLEAN :
              action' = [action EXCEPT ![a] = FailedRow(a, retryable)]
        BY <1>6
      <3>2. /\ action' \in [Action -> Row]
            /\ action'[a] = FailedRow(a, retryable)
            /\ \A b \in Action \ {a} : action'[b] = action[b]
        <4> DEFINE r == FailedRow(a, retryable)
        <4>1. r \in Row
          BY <1>1, <2>1, FailedRowParts
        <4>2. action' = [action EXCEPT ![a] = r]
          BY <3>1
        <4> HIDE DEF a, r
        <4>3. /\ action' \in [Action -> Row]
              /\ action'[a] = r
              /\ \A b \in Action \ {a} : action'[b] = action[b]
          BY <1>1, <2>1, <4>1, <4>2, RowWritten
        <4> QED BY <4>3 DEF a, r
      <3> QED BY <1>1, <2>1, <3>2, FailedRowParts
    <2>3. /\ verdicts' \in [Action -> [Number -> Nat]]
          /\ \A b \in Action : AttemptsSound(b)'
      <3>1. verdicts' = [verdicts EXCEPT ![a] = WithVerdict(a, n)]
        BY <1>6
      <3>2. UNCHANGED <<opened, claim, token, runs>>
        BY <1>2 DEF lane
      <3> QED BY <2>1, <2>2, <3>1, <3>2, AttemptClosed
    <2>4. TypeOK'
      BY <1>1, <1>2, <1>4, <2>2, <2>3 DEF TypeOK, routes, lane, outside
    <2>5. \A v \in Worker : \A g \in held'[v] : HoldSound(g)'
      <3> SUFFICES ASSUME NEW v \in Worker, NEW g \in held'[v]
                   PROVE  HoldSound(g)'
        OBVIOUS
      <3>1. g \in held[v] /\ ~(v = w /\ g = h)
        BY <1>1, <1>3 DEF TypeOK
      <3>2. g.action \in Action /\ HoldSound(g)
        BY <1>1, <3>1 DEF IInv, TypeOK, Attempt
      <3>3. CASE g.action = a
        <4>1. g.number /= n
          BY <3>1, <3>3 DEF IInv, SingleRunner
        <4> QED BY <2>1, <2>2, <3>2, <3>3, <4>1 DEF HoldSound
      <3>4. CASE g.action /= a
        BY <1>2, <2>2, <3>2, <3>4 DEF HoldSound, Is, Fenced, lane
      <3> QED BY <3>3, <3>4
    <2> HIDE DEF a, n
    <2>6. \A b \in Action : RowSound(b)'
      BY <1>2, <2>1, <2>2 DEF IInv, RowSound, Is, lane, outside
    <2>7. \A b \in Action : LaneSound(b)'
      BY <1>2, <2>1, <2>2 DEF IInv, LaneSound, Is, Fenced, lane
    <2> QED BY <1>4, <2>3, <2>4, <2>5, <2>6, <2>7 DEF IInv
  <1> QED BY <1>5, <1>6 DEF FailAction

-----------------------------------------------------------------------------
(* The claim, one action at a time.                                        *)

\* A row the claim leaves alone, as it is or parked.
LeftAlone(a, r, v, o) ==
  /\ r.status = action[a].status
  /\ r.attempts = action[a].attempts
  /\ v = verdicts[a]
  /\ o = opened[a]

\* A row its sweeps cancel.
SweptAway(a, r, v, o) ==
  /\ r.status = "cancelled"
  /\ r.attempts = action[a].attempts
  /\ Lapsable(a)
  /\ v = verdicts[a]
  /\ o = opened[a]

\* A row of the reaper.
GivenUp(a, r, v, o) ==
  /\ r.status = "failed"
  /\ r.attempts = action[a].attempts
  /\ Reaped(a)
  /\ v = WithVerdict(a, action[a].attempts)
  /\ o = opened[a]

\* A row handed out.
HandedOut(a, r, v, o) ==
  /\ r.status = "processing"
  /\ r.attempts = action[a].attempts + 1
  /\ action[a].attempts < MaxAttempts
  /\ Is(a, "queued") \/ Is(a, "processing")
  /\ ~Fenced(a)
  /\ v = IF Interrupted(a) THEN WithVerdict(a, action[a].attempts) ELSE verdicts[a]
  /\ o = opened[a] \cup {action[a].attempts + 1}

\* What the claim does to one action.
LEMMA ClaimCases ==
  ASSUME IInv, NEW a \in Action,
         NEW lapsed \in SUBSET {b \in Action : Lapsable(b)},
         NEW S \in SUBSET ({b \in Action : Candidate(b)} \ lapsed)
  PROVE  /\ ClaimedRow(a, S, lapsed) \in Row
         /\ IF a \in S /\ Runnable(a)
            THEN HandedOut(a, ClaimedRow(a, S, lapsed), ClaimedVerdicts(a, S),
                           ClaimedOpened(a, S))
            ELSE \/ LeftAlone(a, ClaimedRow(a, S, lapsed), ClaimedVerdicts(a, S),
                              ClaimedOpened(a, S))
                 \/ SweptAway(a, ClaimedRow(a, S, lapsed), ClaimedVerdicts(a, S),
                              ClaimedOpened(a, S))
                 \/ GivenUp(a, ClaimedRow(a, S, lapsed), ClaimedVerdicts(a, S),
                            ClaimedOpened(a, S))
  <1>1. /\ action[a] \in Row
        /\ action[a].status \in Status
        /\ action[a].attempts \in 0..MaxAttempts
        /\ action[a].due \in BOOLEAN /\ action[a].parked \in BOOLEAN
    BY RowParts DEF IInv
  <1>2. CASE a \in lapsed
    <2>1. Lapsable(a) /\ a \notin S /\ ~Reaped(a)
      BY <1>2 DEF Lapsable, Reaped, Stale, Is
    <2>2. ClaimedRow(a, S, lapsed) = Ended("cancelled", action[a].attempts)
      BY <1>2 DEF ClaimedRow, Cancelled
    <2>3. SweptAway(a, ClaimedRow(a, S, lapsed), verdicts[a], opened[a])
          /\ ClaimedRow(a, S, lapsed) \in Row
      BY <1>1, <2>1, <2>2, Constructors DEF SweptAway, Status
    <2> QED BY <2>1, <2>3 DEF ClaimedVerdicts, ClaimedOpened
  <1>3. CASE a \notin lapsed /\ Reaped(a)
    <2>1. a \notin S
      BY <1>1, <1>3 DEF Reaped, Candidate
    <2>2. ClaimedRow(a, S, lapsed) = Ended("failed", action[a].attempts)
      BY <1>3 DEF ClaimedRow
    <2>3. GivenUp(a, ClaimedRow(a, S, lapsed),
                  WithVerdict(a, action[a].attempts), opened[a])
          /\ ClaimedRow(a, S, lapsed) \in Row
      BY <1>1, <1>3, <2>2, Constructors DEF GivenUp, Status
    <2> QED BY <1>3, <2>1, <2>3 DEF ClaimedVerdicts, ClaimedOpened
  <1>4. CASE a \notin lapsed /\ ~Reaped(a) /\ a \in S /\ Runnable(a)
    <2>1. /\ action[a].attempts < MaxAttempts
          /\ Is(a, "queued") \/ Is(a, "processing")
          /\ ~Fenced(a)
      BY <1>4 DEF Candidate, Stale
    <2>2. ClaimedRow(a, S, lapsed) = Running(action[a].attempts + 1)
      BY <1>4 DEF ClaimedRow, NextNumber
    <2>3. action[a].attempts + 1 \in 0..MaxAttempts
      BY <1>1, <2>1
    <2>4. /\ ClaimedRow(a, S, lapsed) \in Row
          /\ ClaimedRow(a, S, lapsed).status = "processing"
          /\ ClaimedRow(a, S, lapsed).attempts = action[a].attempts + 1
      BY <2>2, <2>3, RunningParts
    <2>5. /\ ClaimedVerdicts(a, S) = IF Interrupted(a)
                                     THEN WithVerdict(a, action[a].attempts)
                                     ELSE verdicts[a]
          /\ ClaimedOpened(a, S) = opened[a] \cup {action[a].attempts + 1}
      BY <1>4 DEF ClaimedVerdicts, ClaimedOpened, NextNumber
    <2> QED BY <1>4, <2>1, <2>4, <2>5 DEF HandedOut
  <1>5. CASE a \notin lapsed /\ ~Reaped(a) /\ ~(a \in S /\ Runnable(a))
    <2>1. /\ ClaimedRow(a, S, lapsed) \in Row
          /\ ClaimedRow(a, S, lapsed).status = action[a].status
          /\ ClaimedRow(a, S, lapsed).attempts = action[a].attempts
      <3>1. CASE a \in S /\ Is(a, "queued")
        BY <1>1, <1>5, <3>1 DEF ClaimedRow, Waiting, Row, Status, Is
      <3>2. CASE ~(a \in S /\ Is(a, "queued"))
        BY <1>1, <1>5, <3>2 DEF ClaimedRow
      <3> QED BY <3>1, <3>2
    <2> QED BY <1>5, <2>1 DEF ClaimedVerdicts, ClaimedOpened, LeftAlone
  <1> QED BY <1>2, <1>3, <1>4, <1>5

\* One more verdict for an attempt of a.
LEMMA WithVerdictParts ==
  ASSUME TypeOK, NEW a \in Action, NEW n \in Number
  PROVE  /\ WithVerdict(a, n) \in [Number -> Nat]
         /\ WithVerdict(a, n)[n] = verdicts[a][n] + 1
         /\ \A k \in Number \ {n} : WithVerdict(a, n)[k] = verdicts[a][k]
  BY DEF TypeOK, WithVerdict

\* The invariant survives the claim at every action, and a loop may keep what
\* it holds of it.
LEMMA ClaimedSound ==
  ASSUME IInv, NEW a \in Action,
         LeftAlone(a, action'[a], verdicts'[a], opened'[a])
           \/ SweptAway(a, action'[a], verdicts'[a], opened'[a])
           \/ GivenUp(a, action'[a], verdicts'[a], opened'[a])
           \/ HandedOut(a, action'[a], verdicts'[a], opened'[a]),
         UNCHANGED <<lane, outside, runs>>
  PROVE  /\ verdicts'[a] \in [Number -> Nat]
         /\ opened'[a] \subseteq Number
         /\ RowSound(a)' /\ LaneSound(a)' /\ AttemptsSound(a)'
         /\ \A h \in Attempt : h.action = a /\ HoldSound(h) => HoldSound(h)'
  <1>1. TypeOK BY DEF IInv
  <1>2. /\ action[a].attempts \in 0..MaxAttempts
        /\ action[a].status \in Status
        /\ verdicts[a] \in [Number -> Nat]
        /\ opened[a] \subseteq Number
    BY <1>1, RowParts DEF TypeOK
  <1>3. RowSound(a) /\ LaneSound(a) /\ AttemptsSound(a)
    BY DEF IInv
  <1>4. UNCHANGED <<claim, token, mailed, emission, runs>>
    BY DEF lane, outside
  <1>5. CASE \/ LeftAlone(a, action'[a], verdicts'[a], opened'[a])
             \/ SweptAway(a, action'[a], verdicts'[a], opened'[a])
    <2>1. /\ action'[a].attempts = action[a].attempts
          /\ Moves(action[a].status, action'[a].status)
          /\ verdicts'[a] = verdicts[a]
          /\ opened'[a] = opened[a]
      BY <1>5 DEF LeftAlone, SweptAway, Lapsable, Is, Moves
    <2>2. RowSound(a)' /\ LaneSound(a)' /\ AttemptsSound(a)'
      BY <1>3, <1>4, <2>1
      DEF RowSound, LaneSound, AttemptsSound, MachineRuns, TakenAway, Is,
          Fenced, Moves
    <2>3. \A h \in Attempt : h.action = a /\ HoldSound(h) => HoldSound(h)'
      BY <1>4, <2>1 DEF HoldSound, Is, Fenced, Moves
    <2> QED BY <1>2, <2>1, <2>2, <2>3
  <1>6. CASE GivenUp(a, action'[a], verdicts'[a], opened'[a])
    <2> DEFINE n == action[a].attempts
    <2>1. Is(a, "processing") /\ n = MaxAttempts /\ n \in Number
      BY <1>2, <1>6 DEF GivenUp, Reaped, Stale, Number
    <2>2. ~Fenced(a) /\ MachineRuns(a)
      BY <1>2, <1>3, <2>1 DEF LaneSound, MachineRuns
    <2>3. /\ verdicts'[a] \in [Number -> Nat]
          /\ verdicts'[a][n] = verdicts[a][n] + 1
          /\ \A k \in Number \ {n} : verdicts'[a][k] = verdicts[a][k]
      BY <1>1, <1>6, <2>1, WithVerdictParts DEF GivenUp
    <2>4. /\ action'[a].status = "failed"
          /\ action'[a].attempts = action[a].attempts
          /\ opened'[a] = opened[a]
      BY <1>6 DEF GivenUp
    <2>5. RowSound(a)' /\ LaneSound(a)'
      BY <1>3, <1>4, <2>1, <2>2, <2>4 DEF RowSound, LaneSound, Is, Fenced
    <2>6. AttemptsSound(a)'
      BY <1>2, <1>3, <2>1, <2>2, <2>3, <2>4
      DEF AttemptsSound, MachineRuns, TakenAway, Is
    <2>7. \A h \in Attempt : h.action = a /\ HoldSound(h) => HoldSound(h)'
      BY <2>4 DEF HoldSound, Is
    <2> QED BY <1>2, <2>3, <2>4, <2>5, <2>6, <2>7
  <1>7. CASE HandedOut(a, action'[a], verdicts'[a], opened'[a])
    <2> DEFINE n == action[a].attempts
    <2>1. /\ action'[a].status = "processing"
          /\ action'[a].attempts = n + 1
          /\ n < MaxAttempts
          /\ Is(a, "queued") \/ Is(a, "processing")
          /\ ~Fenced(a)
          /\ opened'[a] = opened[a] \cup {n + 1}
      BY <1>7 DEF HandedOut
    <2>2. /\ n \in Nat /\ n + 1 \in Number
          /\ opened'[a] = 1..n + 1
          /\ opened'[a] \subseteq Number
      BY <1>2, <1>3, <2>1 DEF AttemptsSound, Number
    <2>3. ~TakenAway(a) /\ ~TakenAway(a)'
      BY <2>1 DEF TakenAway, Is
    <2>4. /\ verdicts'[a] \in [Number -> Nat]
          /\ \A k \in Number : verdicts'[a][k] = IF k <= n THEN 1 ELSE 0
      <3>1. CASE Interrupted(a)
        <4>1. n \in Number /\ MachineRuns(a)
          BY <1>2, <2>1, <3>1 DEF Interrupted, MachineRuns, Number
        <4>2. verdicts'[a] = WithVerdict(a, n)
          BY <1>7, <3>1 DEF HandedOut
        <4>3. /\ verdicts'[a] \in [Number -> Nat]
              /\ verdicts'[a][n] = verdicts[a][n] + 1
              /\ \A k \in Number \ {n} : verdicts'[a][k] = verdicts[a][k]
          BY <1>1, <4>1, <4>2, WithVerdictParts
        <4>4. \A k \in Number :
                verdicts[a][k] = IF k <= n /\ k /= n THEN 1 ELSE 0
          <5>1. \A k \in Number :
                  verdicts[a][k] = IF k <= n /\ ~(k = n /\ MachineRuns(a))
                                   THEN 1 ELSE 0
            BY <1>3, <2>3 DEF AttemptsSound
          <5> QED BY <4>1, <5>1
        <4>5. verdicts'[a][n] = 1
          <5>1. verdicts[a][n] = 0
            BY <4>1, <4>4
          <5> QED BY <4>3, <5>1
        <4>6. \A k \in Number \ {n} :
                verdicts'[a][k] = IF k <= n THEN 1 ELSE 0
          BY <2>2, <4>1, <4>3, <4>4 DEF Number
        <4> QED BY <2>2, <4>1, <4>3, <4>5, <4>6
      <3>2. CASE ~Interrupted(a)
        <4>1. verdicts'[a] = verdicts[a]
          BY <1>7, <3>2 DEF HandedOut
        <4>2. CASE n = 0
          BY <1>2, <1>3, <4>1, <4>2 DEF AttemptsSound, Number
        <4>3. CASE n /= 0
          <5>1. n \in Number
            BY <1>2, <4>3 DEF Number
          <5>2. ~MachineRuns(a)
            BY <1>3, <2>2, <3>2, <5>1
            DEF AttemptsSound, Interrupted, MachineRuns, Number
          <5> QED BY <1>2, <1>3, <2>3, <4>1, <5>1, <5>2 DEF AttemptsSound
        <4> QED BY <4>2, <4>3
      <3> QED BY <3>1, <3>2
    <2>5. RowSound(a)' /\ LaneSound(a)'
      BY <1>3, <1>4, <2>1 DEF RowSound, LaneSound, Is, Fenced
    <2>6. AttemptsSound(a)'
      <3>1. MachineRuns(a)'
        BY <1>4, <2>1 DEF MachineRuns, Is, Fenced
      <3>2. \A k \in Number : k <= n <=> k <= n + 1 /\ k /= n + 1
        BY <2>2 DEF Number
      <3> HIDE DEF n
      <3>3. opened'[a] = 1..action'[a].attempts
        BY <2>1, <2>2
      <3>4. \A k \in Number :
              verdicts'[a][k] = IF /\ k <= action'[a].attempts
                                   /\ ~(k = action'[a].attempts /\ MachineRuns(a)')
                                THEN 1 ELSE 0
        BY <2>1, <2>4, <3>1, <3>2
      <3> QED BY <2>3, <3>3, <3>4 DEF AttemptsSound
    <2>7. \A h \in Attempt : h.action = a /\ HoldSound(h) => HoldSound(h)'
      <3>1. \A h \in Attempt : h.number \in Nat
        BY DEF Attempt, Number
      <3> QED BY <2>1, <2>2, <3>1 DEF HoldSound
    <2> QED BY <2>2, <2>4, <2>5, <2>6, <2>7
  <1> QED BY <1>5, <1>6, <1>7

\* What a claim hands out is new: no loop holds that attempt.
LEMMA ClaimKeeps ==
  ASSUME IInv, NEW w \in Worker, Claim(w)
  PROVE  IInv'
  <1>1. TypeOK BY DEF IInv
  <1>2. UNCHANGED <<doomed, routes, lane, outside, runs>> /\ held[w] = {}
    BY DEF Claim, Free
  <1>3. PICK lapsed \in SUBSET {b \in Action : Lapsable(b)} :
          \E S \in SUBSET ({b \in Action : Candidate(b)} \ lapsed) :
            /\ action' = [b \in Action |-> ClaimedRow(b, S, lapsed)]
            /\ verdicts' = [b \in Action |-> ClaimedVerdicts(b, S)]
            /\ opened' = [b \in Action |-> ClaimedOpened(b, S)]
            /\ \/ held' = [held EXCEPT ![w] =
                             {Held(a, NextNumber(a), FALSE) :
                                a \in {b \in S : Runnable(b)}}]
               \/ UNCHANGED held
    BY DEF Claim
  <1>4. PICK S \in SUBSET ({b \in Action : Candidate(b)} \ lapsed) :
            /\ action' = [b \in Action |-> ClaimedRow(b, S, lapsed)]
            /\ verdicts' = [b \in Action |-> ClaimedVerdicts(b, S)]
            /\ opened' = [b \in Action |-> ClaimedOpened(b, S)]
            /\ \/ held' = [held EXCEPT ![w] =
                             {Held(a, NextNumber(a), FALSE) :
                                a \in {b \in S : Runnable(b)}}]
               \/ UNCHANGED held
    BY <1>3
  <1>5. ASSUME NEW a \in Action
        PROVE  /\ action'[a] \in Row
               /\ a \in S /\ Runnable(a) =>
                    HandedOut(a, action'[a], verdicts'[a], opened'[a])
               /\ verdicts'[a] \in [Number -> Nat]
               /\ opened'[a] \subseteq Number
               /\ RowSound(a)' /\ LaneSound(a)' /\ AttemptsSound(a)'
               /\ \A h \in Attempt : h.action = a /\ HoldSound(h) => HoldSound(h)'
    <2>1. /\ action'[a] = ClaimedRow(a, S, lapsed)
          /\ verdicts'[a] = ClaimedVerdicts(a, S)
          /\ opened'[a] = ClaimedOpened(a, S)
      BY <1>4
    <2>2. /\ action'[a] \in Row
          /\ IF a \in S /\ Runnable(a)
             THEN HandedOut(a, action'[a], verdicts'[a], opened'[a])
             ELSE \/ LeftAlone(a, action'[a], verdicts'[a], opened'[a])
                  \/ SweptAway(a, action'[a], verdicts'[a], opened'[a])
                  \/ GivenUp(a, action'[a], verdicts'[a], opened'[a])
      BY <2>1, ClaimCases
    <2>3. \/ LeftAlone(a, action'[a], verdicts'[a], opened'[a])
          \/ SweptAway(a, action'[a], verdicts'[a], opened'[a])
          \/ GivenUp(a, action'[a], verdicts'[a], opened'[a])
          \/ HandedOut(a, action'[a], verdicts'[a], opened'[a])
      BY <2>2
    <2> QED BY <1>2, <2>2, <2>3, ClaimedSound
  <1>6. \A v \in Worker : \A h \in held[v] :
          h \in Attempt /\ h.action \in Action /\ HoldSound(h) /\ HoldSound(h)'
    BY <1>1, <1>5 DEF IInv, TypeOK, Attempt
  <1>7. /\ action' \in [Action -> Row]
        /\ verdicts' \in [Action -> [Number -> Nat]]
        /\ opened' \in [Action -> SUBSET Number]
    BY <1>4, <1>5
  <1>8. CASE UNCHANGED held
    <2>1. TypeOK'
      BY <1>1, <1>2, <1>7, <1>8 DEF TypeOK, routes, lane, outside
    <2>2. SingleRunner'
      BY <1>8 DEF IInv, SingleRunner
    <2> QED BY <1>5, <1>6, <1>8, <2>1, <2>2 DEF IInv
  <1>9. CASE held' = [held EXCEPT ![w] =
                        {Held(a, NextNumber(a), FALSE) :
                           a \in {b \in S : Runnable(b)}}]
    <2>1. /\ held'[w] = {Held(a, NextNumber(a), FALSE) :
                           a \in {b \in S : Runnable(b)}}
          /\ \A v \in Worker \ {w} : held'[v] = held[v]
      BY <1>1, <1>9 DEF TypeOK
    <2>2. ASSUME NEW a \in S, Runnable(a)
          PROVE  /\ a \in Action
                 /\ Held(a, NextNumber(a), FALSE) \in Attempt
                 /\ Held(a, NextNumber(a), FALSE).action = a
                 /\ Held(a, NextNumber(a), FALSE).number = action[a].attempts + 1
                 /\ \A g : /\ g.action = a
                           /\ g.number = action[a].attempts + 1
                           => HoldSound(g)'
      <3>1. a \in Action
        OBVIOUS
      <3>2. /\ action'[a].status = "processing"
            /\ action'[a].attempts = action[a].attempts + 1
            /\ action[a].attempts < MaxAttempts
            /\ ~Fenced(a)
            /\ action[a].attempts \in Nat
        BY <1>1, <1>5, <2>2, <3>1, RowParts DEF HandedOut
      <3>3. NextNumber(a) = action[a].attempts + 1 /\ NextNumber(a) \in Number
        BY <1>1, <3>1, <3>2, RowParts DEF NextNumber, Number
      <3> DEFINE k == Held(a, NextNumber(a), FALSE)
      <3>4. k \in Attempt /\ k.action = a /\ k.number = NextNumber(a)
        BY <3>1, <3>3, HeldParts
      <3>5. ASSUME NEW g, g.action = a, g.number = action[a].attempts + 1
            PROVE  HoldSound(g)'
        BY <1>2, <3>2, <3>5 DEF HoldSound, Is, Fenced, lane
      <3> QED BY <3>1, <3>3, <3>4, <3>5
    <2>3. ASSUME NEW h \in held'[w]
          PROVE  /\ h \in Attempt /\ h.action \in Action
                 /\ h = Held(h.action, NextNumber(h.action), FALSE)
                 /\ h.number = action[h.action].attempts + 1
                 /\ HoldSound(h)'
      <3>1. PICK a \in S : Runnable(a) /\ h = Held(a, NextNumber(a), FALSE)
        BY <2>1
      <3> QED BY <2>2, <3>1
    <2>4. held' \in [Worker -> SUBSET Attempt]
      BY <1>1, <1>9, <2>1, <2>3 DEF TypeOK
    <2>5. TypeOK'
      BY <1>1, <1>2, <1>7, <2>4 DEF TypeOK, routes, lane, outside
    <2>6. \A v \in Worker : \A h \in held'[v] : HoldSound(h)'
      BY <1>6, <2>1, <2>3
    <2>7. SingleRunner'
      <3> SUFFICES ASSUME NEW u \in Worker, NEW v \in Worker,
                          NEW h \in held'[u], NEW g \in held'[v],
                          h.action = g.action, h.number = g.number
                   PROVE  u = v /\ h = g
        BY DEF SingleRunner
      <3>1. CASE u = w /\ v = w
        BY <2>3, <3>1
      <3>2. ASSUME NEW x \in Worker \ {w}, NEW k \in held[x], NEW f \in held'[w]
            PROVE  ~(k.action = f.action /\ k.number = f.number)
        <4>1. /\ k.number <= action[k.action].attempts
              /\ k.action \in Action /\ k.number \in Nat
          BY <1>6 DEF HoldSound, Attempt, Number
        <4>2. action[k.action].attempts \in Nat
          BY <1>1, <4>1, RowParts
        <4>3. f.number = action[f.action].attempts + 1
          BY <2>3
        <4> QED BY <4>1, <4>2, <4>3
      <3>3. CASE u /= w /\ v /= w
        BY <2>1, <3>3 DEF IInv, SingleRunner
      <3>4. CASE (u = w) /= (v = w)
        BY <2>1, <3>2, <3>4
      <3> QED BY <3>1, <3>3, <3>4
    <2> QED BY <1>5, <2>5, <2>6, <2>7 DEF IInv
  <1> QED BY <1>4, <1>8, <1>9

-----------------------------------------------------------------------------
(* The resolver and the trigger.                                           *)

\* Whatever legal_transition decides to apply, the trigger action_ledger_sync
\* lets through: the two encodings of the state machine agree.
THEOREM ResolverIsLegal ==
  ASSUME NEW current \in State, NEW observed \in Observed,
         NEW evidence \in SuccessEvidence,
         NEW target \in Applied(current, observed, evidence)
  PROVE  target = current \/ CanTransitionTo(current, target)
  <1>1. CASE observed = "Unknown"
    <2>1. current = "RUNNING" /\ target = "UNKNOWN"
      BY <1>1 DEF Applied
    <2> QED BY <2>1 DEF CanTransitionTo, Successor
  <1>2. CASE observed /= "Unknown"
    <2>1. /\ current \in {"RUNNING", "UNKNOWN", "RECONCILING", "SUCCEEDED"}
          /\ target \in {"SUCCEEDED", "FAILED"}
      BY <1>2 DEF Applied, Open, Verdict
    <2> QED BY <2>1 DEF CanTransitionTo, Successor
  <1> QED BY <1>1, <1>2

-----------------------------------------------------------------------------
(* The invariant, and what follows from it.                                *)

\* The initial rows wait with no attempt spent.
LEMMA InitKeeps == Init => IInv
  <1> SUFFICES ASSUME Init PROVE IInv
    OBVIOUS
  <1>1. \A a \in Action :
          /\ action[a] \in Row
          /\ action[a].status \in {"awaiting_approval", "queued"}
          /\ action[a].attempts = 0
    <2> SUFFICES ASSUME NEW a \in Action
                 PROVE  /\ action[a] \in Row
                        /\ action[a].status \in {"awaiting_approval", "queued"}
                        /\ action[a].attempts = 0
      OBVIOUS
    <2>1. \/ action[a] = Waiting("awaiting_approval", 0, TRUE, FALSE)
          \/ action[a] = Waiting("queued", 0, TRUE, FALSE)
      BY DEF Init
    <2>2. CASE action[a] = Waiting("awaiting_approval", 0, TRUE, FALSE)
      BY <2>2 DEF Waiting, Row, Status
    <2>3. CASE action[a] = Waiting("queued", 0, TRUE, FALSE)
      BY <2>3 DEF Waiting, Row, Status
    <2> QED BY <2>1, <2>2, <2>3
  <1> DEFINE R == {Waiting("awaiting_approval", 0, TRUE, FALSE),
                   Waiting("queued", 0, TRUE, FALSE)}
  <1>2. action \in [Action -> Row]
    <2>1. action \in [Action -> R]
      BY DEF Init
    <2> HIDE DEF R
    <2> QED BY <1>1, <2>1
  <1>3. TypeOK
    <2>1. opened \in [Action -> SUBSET Number] /\ verdicts \in [Action -> [Number -> Nat]]
      BY DEF Init
    <2>2. held \in [Worker -> SUBSET Attempt] /\ doomed \in [Worker -> SUBSET Action]
      BY DEF Init
    <2>3. registered \in BOOLEAN /\ live \in BOOLEAN
      BY DEF Init
    <2>4. /\ claim \in [Action -> {"none", "claimed", "succeeded", "failed"}]
          /\ token \in [Action -> 0..MaxPrepares]
          /\ marks \subseteq Action \X Token
      BY DEF Init
    <2>5. /\ mailed \in [Action -> BOOLEAN]
          /\ reported \in [Action -> BOOLEAN]
          /\ carried \in [Action -> BOOLEAN]
      BY DEF Init
    <2>6. /\ emission \in [Action -> Emission]
          /\ runs \in [Action -> Nat]
      BY DEF Init, Emission
    <2> QED BY <1>2, <2>1, <2>2, <2>3, <2>4, <2>5, <2>6 DEF TypeOK
  <1>4. \A a \in Action : RowSound(a)
    BY <1>1 DEF Init, RowSound, Is
  <1>5. \A a \in Action : LaneSound(a)
    BY DEF Init, LaneSound, Fenced
  <1>6. \A a \in Action : AttemptsSound(a)
    BY <1>1 DEF Init, AttemptsSound, Number
  <1>7. SingleRunner /\ \A w \in Worker : \A h \in held[w] : HoldSound(h)
    BY DEF Init, SingleRunner
  <1> QED BY <1>3, <1>4, <1>5, <1>6, <1>7 DEF IInv

\* Every step preserves the invariant.
LEMMA NextKeeps == IInv /\ [Next]_vars => IInv'
  <1> SUFFICES ASSUME IInv, [Next]_vars PROVE IInv'
    OBVIOUS
  <1>1. ASSUME NEW w \in Worker, Loop(w)
        PROVE  IInv'
    BY <1>1, LoopQuietKeeps, SweepCancelKeeps, ClaimKeeps, ExecuteKeeps,
       ExecuteFailsKeeps, FailActionKeeps DEF Loop
  <1>2. ASSUME NEW a \in Action, People(a)
        PROVE  IInv'
    BY <1>2, ApproveKeeps, CancelKeeps, PrepareKeeps, MailKeeps, MarkSentKeeps
    DEF People
  <1>3. ASSUME NEW a \in Action, Environment(a)
        PROVE  IInv'
    BY <1>3, SettleClaimKeeps, TimeKeeps, OutsideKeeps, ConcludeKeeps,
       LostElsewhereKeeps
    DEF Environment
  <1>4. ASSUME NEW m \in marks, ReportSent(m) \/ DropMark(m)
        PROVE  IInv'
    BY <1>4, ReportSentKeeps, DropMarkKeeps
  <1>5. CASE Advertise
    BY <1>5, AdvertiseKeeps
  <1>6. CASE UNCHANGED vars
    <2>1. TypeOK'
      BY <1>6 DEF IInv, TypeOK, vars, ledger, loops, routes, lane, outside
    <2> QED
      BY <1>6, <2>1, QuietKeeps
      DEF IInv, LaneSound, vars, ledger, loops, lane, outside
  <1> QED BY <1>1, <1>2, <1>3, <1>4, <1>5, <1>6 DEF Next

\* The inductive invariant holds in every reachable state.
THEOREM Invariance == Spec => []IInv
  BY InitKeeps, NextKeeps, PTL DEF Spec

\* Every field of a row, every claim, token and attempt stays in its domain:
\* no attempt number exceeds MaxAttempts.
THEOREM TypeCorrect == Spec => []TypeOK
  <1>1. IInv => TypeOK BY DEF IInv
  <1> QED BY <1>1, Invariance, PTL

\* The ledger of attempts is whole: execute_action, fail_action, the reaper and
\* the recovery of stale claims together give every attempt one terminal row.
THEOREM AttemptsWhole == Spec => []AttemptsAddUp
  <1>1. IInv => AttemptsAddUp BY DEF IInv, AttemptsSound, AttemptsAddUp
  <1> QED BY <1>1, Invariance, PTL

\* claim_due_actions never hands the same attempt to two loops.
THEOREM OneRunner == Spec => []SingleRunner
  <1>1. IInv => SingleRunner BY DEF IInv
  <1> QED BY <1>1, Invariance, PTL

\* execute_action commits the effects of an action at most once.
THEOREM RunOnce == Spec => []RanAtMostOnce
  <1>1. IInv => RanAtMostOnce BY DEF IInv, RowSound, RanAtMostOnce
  <1> QED BY <1>1, Invariance, PTL

\* A cancelled action has no effect, no letter and no emission, although the
\* statements that cancel look at none of the three.
THEOREM CancelledIsVoid == Spec => []CancelledNeverSent
  <1>1. IInv => CancelledNeverSent
    BY DEF IInv, TypeOK, RowSound, LaneSound, Is, Fenced, CancelledNeverSent
  <1> QED BY <1>1, Invariance, PTL

\* Only execute_action counts a run, and only of the attempt under way.
LEMMA RunsByExecute ==
  ASSUME IInv, [Next]_vars, NEW a \in Action, runs'[a] /= runs[a]
  PROVE  \E w \in Worker : \E h \in held[w] :
           h.action = a /\ Current(h)
  <1>1. ASSUME NEW w \in Worker, Loop(w)
        PROVE  \E h \in held[w] : Execute(w, h)
    BY <1>1 DEF Loop, SweepRead, SweepCancel, Claim, ExecuteFails, FailAction,
                Crash
  <1>2. ASSUME NEW b \in Action, People(b) \/ Environment(b)
        PROVE  FALSE
    BY <1>2 DEF People, Environment, Approve, Cancel, Revoke, Prepare, Mail,
                MarkSent, SettleClaim, BecomeDue, BecomeStale, FanOut, CarryOut,
                Conclude, LostElsewhere
  <1>3. ASSUME NEW m \in marks, ReportSent(m) \/ DropMark(m)
        PROVE  FALSE
    BY <1>3 DEF ReportSent, DropMark
  <1>4. ~Advertise /\ ~UNCHANGED vars
    BY DEF Advertise, vars
  <1>5. PICK w \in Worker : \E h \in held[w] : Execute(w, h)
    BY <1>1, <1>2, <1>3, <1>4 DEF Next
  <1>6. PICK h \in held[w] : Execute(w, h)
    BY <1>5
  <1>7. runs' = [runs EXCEPT ![h.action] = @ + 1] /\ Current(h)
    BY <1>6 DEF Execute
  <1>8. h.action = a
    BY <1>7 DEF IInv, TypeOK
  <1> QED BY <1>7, <1>8

\* Once a letter was prepared no loop commits its action: prepare_beacon_ask
\* only takes rows that execute_action cannot commit any more.
THEOREM HandFinal == Spec => HandIsFinal
  <1>1. IInv /\ [Next]_vars =>
          [\A a \in Action : runs'[a] /= runs[a] => token[a] = 0]_vars
    <2> SUFFICES ASSUME IInv, [Next]_vars, NEW a \in Action, runs'[a] /= runs[a]
                 PROVE  token[a] = 0
      OBVIOUS
    <2>1. PICK w \in Worker : \E h \in held[w] : h.action = a /\ Current(h)
      BY RunsByExecute
    <2>2. PICK h \in held[w] : h.action = a /\ Current(h)
      BY <2>1
    <2> QED BY <2>2, CurrentIsUnderWay
  <1> QED BY <1>1, Invariance, PTL DEF Spec, HandIsFinal

\* A running ask stays where the operator has it.
StaysInHand(a) ==
  /\ claim'[a] = "claimed"
  /\ action'[a].status = "processing"
  /\ action'[a].attempts = action[a].attempts

\* No loop takes a claimed row that is running.
LEMMA LoopLeavesHand ==
  ASSUME IInv, NEW a \in Action, Fenced(a), Is(a, "processing"),
         NEW w \in Worker, Loop(w)
  PROVE  StaysInHand(a)
  <1>1. TypeOK /\ LaneSound(a) BY DEF IInv
  <1>2. claim' = claim
    BY DEF Loop, SweepRead, SweepCancel, Claim, Execute, ExecuteFails,
           FailAction, Crash, lane
  <1>3. SUFFICES action'[a] = action[a]
    BY <1>2 DEF StaysInHand, Fenced, Is
  <1>4. CASE SweepRead(w) \/ Crash(w)
    BY <1>4 DEF SweepRead, Crash
  <1>5. CASE \E b \in Action : SweepCancel(w, b)
    BY <1>1, <1>5 DEF SweepCancel, StillDoomed, Is, TypeOK
  <1>6. CASE Claim(w)
    <2>1. ~Lapsable(a) /\ ~Reaped(a) /\ ~Candidate(a)
      BY <1>1, RowParts DEF LaneSound, Lapsable, Reaped, Candidate, Is
    <2>2. PICK lapsed \in SUBSET {b \in Action : Lapsable(b)} :
            \E S \in SUBSET ({b \in Action : Candidate(b)} \ lapsed) :
              action' = [b \in Action |-> ClaimedRow(b, S, lapsed)]
      BY <1>6 DEF Claim
    <2>3. PICK S \in SUBSET ({b \in Action : Candidate(b)} \ lapsed) :
            action' = [b \in Action |-> ClaimedRow(b, S, lapsed)]
      BY <2>2
    <2>4. a \notin lapsed /\ a \notin S
      BY <2>1
    <2> QED BY <2>1, <2>3, <2>4 DEF ClaimedRow
  <1>7. ASSUME NEW h \in held[w],
               Execute(w, h) \/ ExecuteFails(w, h) \/ FailAction(w, h)
        PROVE  action'[a] = action[a]
    <2>1. CASE Current(h)
      <3>1. h.action \in Action /\ h.action /= a
        BY <2>1, CurrentIsUnderWay DEF MachineRuns
      <3> QED BY <1>1, <1>7, <3>1 DEF Execute, ExecuteFails, FailAction, TypeOK
    <2>2. CASE ~Current(h)
      BY <1>7, <2>2 DEF Execute, ExecuteFails, FailAction
    <2> QED BY <2>1, <2>2
  <1> QED BY <1>4, <1>5, <1>6, <1>7 DEF Loop

\* Nor do people: they prepare it again, or mark it sent.
LEMMA PeopleLeaveHand ==
  ASSUME IInv, NEW a \in Action, Fenced(a), Is(a, "processing"),
         NEW b \in Action, People(b)
  PROVE  StaysInHand(a)
  <1>1. TypeOK BY DEF IInv
  <1>2. CASE Approve(b) \/ Cancel(b) \/ Revoke(b)
    <2>1. claim' = claim /\ b /= a
      BY <1>2 DEF Approve, Cancel, Cancellable, Revoke, lane, Is
    <2> QED BY <1>1, <1>2, <2>1
        DEF Approve, Cancel, Revoke, TypeOK, StaysInHand, Fenced, Is
  <1>3. CASE Mail(b)
    BY <1>3 DEF Mail, StaysInHand, Fenced, Is
  <1>4. CASE Prepare(b) \/ MarkSent(b)
    <2>1. claim'[a] = "claimed"
      BY <1>1, <1>4 DEF Prepare, MarkSent, TypeOK, Fenced
    <2>2. Taken(a) = action[a]
      BY DEF Taken, Is
    <2>3. action'[a] = action[a]
      BY <1>1, <1>4, <2>2 DEF Prepare, MarkSent, TypeOK
    <2> QED BY <2>1, <2>3 DEF StaysInHand, Is
  <1> QED BY <1>2, <1>3, <1>4 DEF People

\* Time passes over it, and its outbox has nothing to conclude.
LEMMA WorldLeavesHand ==
  ASSUME IInv, NEW a \in Action \ Asked, Fenced(a), Is(a, "processing"),
         NEW b \in Action, Environment(b)
  PROVE  StaysInHand(a)
  <1>1. TypeOK /\ RowSound(a) BY DEF IInv
  <1>2. CASE SettleClaim(b)
    <2>1. b /= a
      BY <1>2 DEF SettleClaim, Abandoned, Is
    <2> QED BY <1>1, <1>2, <2>1 DEF SettleClaim, TypeOK, StaysInHand, Fenced, Is
  <1>3. CASE BecomeDue(b) \/ FanOut(b) \/ CarryOut(b)
    <2>1. claim' = claim
      BY <1>3 DEF BecomeDue, FanOut, CarryOut, lane
    <2>2. action'[a] = action[a]
      BY <1>1, <1>3 DEF BecomeDue, FanOut, CarryOut, TypeOK, Is
    <2> QED BY <2>1, <2>2 DEF StaysInHand, Fenced, Is
  <1>4. CASE BecomeStale(b)
    <2>1. claim' = claim /\ action' = [action EXCEPT ![b] = Overdue(action[b].attempts)]
      BY <1>4 DEF BecomeStale, lane
    <2>2. action'[a] = action[a] \/ action'[a] = Overdue(action[a].attempts)
      BY <1>1, <2>1 DEF TypeOK
    <2>3. /\ action'[a].status = "processing"
          /\ action'[a].attempts = action[a].attempts
      BY <2>2 DEF Overdue, Is
    <2> QED BY <2>1, <2>3 DEF StaysInHand, Fenced
  <1>5. CASE Conclude(b)
    <2>1. b /= a /\ claim' = claim
      BY <1>1, <1>5 DEF Conclude, RowSound, Is, lane
    <2>2. action'[a] = action[a]
      BY <1>1, <1>5, <2>1 DEF Conclude, TypeOK
    <2> QED BY <2>1, <2>2 DEF StaysInHand, Fenced, Is
  <1>6. CASE LostElsewhere(b)
    <2>1. b /= a /\ claim' = claim
      BY <1>6 DEF LostElsewhere, lane
    <2>2. action'[a] = action[a]
      BY <1>1, <1>6, <2>1 DEF LostElsewhere, TypeOK
    <2> QED BY <2>1, <2>2 DEF StaysInHand, Fenced, Is
  <1> QED BY <1>2, <1>3, <1>4, <1>5, <1>6 DEF Environment

\* While a person holds a running ask nothing but the receipt moves it, which
\* is what the candidate query of claim_due_actions_filtered and the WHERE
\* clauses of the sweeps are for.
THEOREM OperatorKeeps == Spec => OperatorHolds
  <1>1. ASSUME IInv, [Next]_vars, NEW a \in Action \ Asked, Fenced(a),
               Is(a, "processing"), ~(reported'[a] /\ ~reported[a])
        PROVE  StaysInHand(a)
    <2>1. ASSUME NEW m \in marks, ReportSent(m)
          PROVE  StaysInHand(a)
      <3>1. TypeOK /\ m[1] \in Action
        <4>1. TypeOK BY <1>1 DEF IInv
        <4>2. m \in Action \X Token BY <4>1 DEF TypeOK
        <4> QED BY <4>1, <4>2
      <3>2. CASE TokenHolds(m) /\ ~reported[m[1]]
        <4>1. /\ reported' = [reported EXCEPT ![m[1]] = TRUE]
              /\ claim' = [claim EXCEPT ![m[1]] = "succeeded"]
              /\ action' = [action EXCEPT ![m[1]] = Received(m[1])]
          BY <2>1, <3>2 DEF ReportSent
        <4>2. m[1] /= a
          BY <1>1, <3>1, <3>2, <4>1 DEF TypeOK
        <4> QED BY <1>1, <3>1, <4>1, <4>2 DEF TypeOK, StaysInHand, Fenced, Is
      <3>3. CASE ~(TokenHolds(m) /\ ~reported[m[1]])
        BY <1>1, <2>1, <3>3 DEF ReportSent, StaysInHand, Fenced, Is
      <3> QED BY <3>2, <3>3
    <2>2. ASSUME NEW m \in marks, DropMark(m)
          PROVE  StaysInHand(a)
      BY <1>1, <2>2 DEF DropMark, StaysInHand, Fenced, Is
    <2>3. CASE Advertise \/ UNCHANGED vars
      BY <1>1, <2>3 DEF Advertise, vars, lane, StaysInHand, Fenced, Is
    <2> QED BY <1>1, <2>1, <2>2, <2>3, LoopLeavesHand, PeopleLeaveHand,
               WorldLeavesHand DEF Next
  <1>2. IInv /\ [Next]_vars =>
          [\A a \in Action \ Asked :
             /\ Fenced(a)
             /\ Is(a, "processing")
             /\ ~(reported'[a] /\ ~reported[a])
             => /\ claim'[a] = "claimed"
                /\ action'[a].status = "processing"
                /\ action'[a].attempts = action[a].attempts]_vars
    BY <1>1 DEF StaysInHand
  <1> QED BY <1>2, Invariance, PTL DEF Spec, OperatorHolds

-----------------------------------------------------------------------------
(* The ledger trigger.                                                     *)

\* The trigger lets the step write the status of a.
LetThrough(a) == LedgerAccepts(action[a].status, action'[a].status)

\* The status updates of this module that the trigger knows.
LEMMA LegalUpdates ==
  /\ \A s \in Status : LedgerAccepts(s, s)
  /\ LedgerAccepts("awaiting_approval", "queued")
  /\ LedgerAccepts("awaiting_approval", "cancelled")
  /\ LedgerAccepts("queued", "processing")
  /\ LedgerAccepts("queued", "cancelled")
  /\ LedgerAccepts("processing", "queued")
  /\ LedgerAccepts("processing", "succeeded")
  /\ LedgerAccepts("processing", "failed")
  /\ LedgerAccepts("processing", "unknown")
  /\ LedgerAccepts("succeeded", "unknown")
  /\ LedgerAccepts("unknown", "succeeded")
  BY DEF LedgerAccepts, CanTransitionTo, StateOf, Successor

\* One row is written, and its update is legal.
LEMMA OneLetThrough ==
  ASSUME TypeOK, NEW a \in Action, NEW r \in Row,
         action' = [action EXCEPT ![a] = r],
         LedgerAccepts(action[a].status, r.status),
         NEW b \in Action
  PROVE  LetThrough(b)
  BY LegalUpdates, RowParts, RowWritten DEF LetThrough

\* No row is written.
LEMMA NoneWritten ==
  ASSUME TypeOK, action' = action, NEW b \in Action
  PROVE  LetThrough(b)
  BY LegalUpdates, RowParts DEF LetThrough

\* The batch of a claim: what it hands out, parks, lapses and reaps.
LEMMA ClaimLetThrough ==
  ASSUME IInv, NEW w \in Worker, Claim(w), NEW a \in Action
  PROVE  LetThrough(a)
  <1>1. PICK lapsed \in SUBSET {b \in Action : Lapsable(b)} :
          \E S \in SUBSET ({b \in Action : Candidate(b)} \ lapsed) :
            action' = [b \in Action |-> ClaimedRow(b, S, lapsed)]
    BY DEF Claim
  <1>2. PICK S \in SUBSET ({b \in Action : Candidate(b)} \ lapsed) :
          action' = [b \in Action |-> ClaimedRow(b, S, lapsed)]
    BY <1>1
  <1>3. action'[a] = ClaimedRow(a, S, lapsed)
    BY <1>2
  <1> DEFINE r == ClaimedRow(a, S, lapsed)
             v == ClaimedVerdicts(a, S)
             o == ClaimedOpened(a, S)
  <1>4. HandedOut(a, r, v, o) \/ LeftAlone(a, r, v, o) \/ SweptAway(a, r, v, o)
        \/ GivenUp(a, r, v, o)
    BY ClaimCases
  <1> HIDE DEF r, v, o
  <1>5. action[a].status \in Status
    BY RowParts DEF IInv
  <1>6. LedgerAccepts(action[a].status, r.status)
    <2>1. CASE HandedOut(a, r, v, o)
      BY <2>1, LegalUpdates DEF HandedOut, Is, Status
    <2>2. CASE LeftAlone(a, r, v, o)
      BY <2>2, <1>5, LegalUpdates DEF LeftAlone
    <2>3. CASE SweptAway(a, r, v, o)
      BY <2>3, LegalUpdates DEF SweptAway, Lapsable, Is
    <2>4. CASE GivenUp(a, r, v, o)
      BY <2>4, LegalUpdates DEF GivenUp, Reaped, Stale, Is
    <2> QED BY <1>4, <2>1, <2>2, <2>3, <2>4
  <1> QED BY <1>3, <1>6 DEF r, LetThrough

\* The steps of a loop.
LEMMA LoopLetThrough ==
  ASSUME IInv, NEW w \in Worker, Loop(w), NEW b \in Action
  PROVE  LetThrough(b)
  <1>1. TypeOK BY DEF IInv
  <1>2. CASE SweepRead(w) \/ Crash(w)
    BY <1>1, <1>2, NoneWritten DEF SweepRead, Crash
  <1>3. ASSUME NEW a \in Action, SweepCancel(w, a)
        PROVE  LetThrough(b)
    <2>1. Cancelled(a) \in Row /\ Cancelled(a).status = "cancelled"
      BY <1>1, RowParts, EndedParts DEF Cancelled, Status
    <2>2. CASE StillDoomed(a)
      <3>1. LedgerAccepts(action[a].status, Cancelled(a).status)
        BY <2>1, <2>2, LegalUpdates DEF StillDoomed, Is
      <3>2. action' = [action EXCEPT ![a] = Cancelled(a)]
        BY <1>3, <2>2 DEF SweepCancel
      <3> QED BY <1>1, <2>1, <3>1, <3>2, OneLetThrough
    <2>3. CASE ~StillDoomed(a)
      BY <1>1, <1>3, <2>3, NoneWritten DEF SweepCancel
    <2> QED BY <2>2, <2>3
  <1>4. ASSUME NEW h \in held[w],
               Execute(w, h) \/ ExecuteFails(w, h) \/ FailAction(w, h)
        PROVE  LetThrough(b)
    <2>1. h.action \in Action
      BY <1>1, <1>4 DEF TypeOK, Attempt
    <2>2. action[h.action].attempts \in 0..MaxAttempts
      BY <1>1, <2>1, RowParts
    <2>3. CASE Execute(w, h)
      <3> DEFINE r == Ended("succeeded", action[h.action].attempts)
      <3>1. r \in Row /\ r.status = "succeeded"
        BY <2>2, EndedParts DEF Status
      <3>2. action' = [action EXCEPT ![h.action] = r]
        BY <2>3 DEF Execute
      <3>3. action[h.action].status = "processing"
        BY <2>3 DEF Execute, Current, Is
      <3> HIDE DEF r
      <3>4. LedgerAccepts(action[h.action].status, r.status)
        BY <3>1, <3>3, LegalUpdates
      <3> QED BY <1>1, <2>1, <3>1, <3>2, <3>4, OneLetThrough
    <2>4. CASE ExecuteFails(w, h)
      BY <1>1, <2>4, NoneWritten DEF ExecuteFails
    <2>5. CASE FailAction(w, h)
      <3>1. CASE action' = action
        BY <1>1, <3>1, NoneWritten
      <3>2. CASE action' /= action
        <4>1. Current(h) /\ \E retryable \in BOOLEAN :
                action' = [action EXCEPT ![h.action] = FailedRow(h.action, retryable)]
          BY <2>5, <3>2 DEF FailAction
        <4>2. PICK retryable \in BOOLEAN :
                action' = [action EXCEPT ![h.action] = FailedRow(h.action, retryable)]
          BY <4>1
        <4> DEFINE r == FailedRow(h.action, retryable)
        <4>3. r \in Row /\ r.status \in {"queued", "failed"}
          BY <1>1, <2>1, FailedRowParts
        <4>4. action[h.action].status = "processing"
          BY <4>1 DEF Current, Is
        <4>5. action' = [action EXCEPT ![h.action] = r]
          BY <4>2
        <4> HIDE DEF r
        <4>6. LedgerAccepts(action[h.action].status, r.status)
          BY <4>3, <4>4, LegalUpdates
        <4> QED BY <1>1, <2>1, <4>3, <4>5, <4>6, OneLetThrough
      <3> QED BY <3>1, <3>2
    <2> QED BY <1>4, <2>3, <2>4, <2>5
  <1> QED BY <1>2, <1>3, <1>4, ClaimLetThrough DEF Loop

\* The steps of people.
LEMMA PeopleLetThrough ==
  ASSUME IInv, NEW a \in Action, People(a), NEW b \in Action
  PROVE  LetThrough(b)
  <1>1. /\ TypeOK
        /\ action[a] \in Row
        /\ action[a].status \in Status
        /\ action[a].attempts \in 0..MaxAttempts
        /\ action[a].parked \in BOOLEAN
    BY RowParts DEF IInv
  <1>2. CASE Approve(a)
    <2>1. PICK due \in BOOLEAN :
            action' = [action EXCEPT ![a] =
                         Waiting("queued", action[a].attempts, due, action[a].parked)]
      BY <1>2 DEF Approve
    <2> DEFINE r == Waiting("queued", action[a].attempts, due, action[a].parked)
    <2>2. r \in Row /\ r.status = "queued"
      BY <1>1, WaitingParts DEF Status
    <2>3. action' = [action EXCEPT ![a] = r]
      BY <2>1
    <2> HIDE DEF r
    <2>4. LedgerAccepts(action[a].status, r.status)
      BY <1>2, <2>2, LegalUpdates DEF Approve, Is
    <2> QED BY <1>1, <2>2, <2>3, <2>4, OneLetThrough
  <1>3. CASE Cancel(a) \/ Revoke(a)
    <2>1. Cancelled(a) \in Row /\ Cancelled(a).status = "cancelled"
      BY <1>1, EndedParts DEF Cancelled, Status
    <2>2. action[a].status \in {"awaiting_approval", "queued"}
      BY <1>3 DEF Cancel, Cancellable, Revoke, Is
    <2>3. LedgerAccepts(action[a].status, Cancelled(a).status)
      BY <2>1, <2>2, LegalUpdates
    <2>4. action' = [action EXCEPT ![a] = Cancelled(a)]
      BY <1>3 DEF Cancel, Revoke
    <2> QED BY <1>1, <2>1, <2>3, <2>4, OneLetThrough
  <1>4. CASE Prepare(a) \/ MarkSent(a)
    <2>1. action' = action \/ action' = [action EXCEPT ![a] = Taken(a)]
      BY <1>4 DEF Prepare, MarkSent
    <2>2. Taken(a) \in Row /\ LedgerAccepts(action[a].status, Taken(a).status)
      <3>1. CASE Is(a, "queued")
        <4>1. Taken(a) = Running(action[a].attempts)
          BY <3>1 DEF Taken
        <4> QED BY <1>1, <3>1, <4>1, RunningParts, LegalUpdates DEF Is
      <3>2. CASE ~Is(a, "queued")
        BY <1>1, <3>2, LegalUpdates DEF Taken
      <3> QED BY <3>1, <3>2
    <2> QED BY <1>1, <2>1, <2>2, OneLetThrough, NoneWritten
  <1>5. CASE Mail(a)
    BY <1>1, <1>5, NoneWritten DEF Mail
  <1> QED BY <1>2, <1>3, <1>4, <1>5 DEF People

\* The clock, the sweep of claims and the outbox.
LEMMA WorldLetThrough ==
  ASSUME IInv, NEW a \in Action, Environment(a), NEW b \in Action
  PROVE  LetThrough(b)
  <1>1. /\ TypeOK
        /\ action[a].status \in Status
        /\ action[a].attempts \in 0..MaxAttempts
        /\ action[a].parked \in BOOLEAN
    BY RowParts DEF IInv
  <1>2. CASE action' = action
    BY <1>1, <1>2, NoneWritten
  <1>3. CASE BecomeDue(a)
    <2> DEFINE r == Waiting("queued", action[a].attempts, TRUE, action[a].parked)
    <2>1. r \in Row /\ r.status = "queued"
      BY <1>1 DEF Waiting, Row, Status
    <2>2. action' = [action EXCEPT ![a] = r] /\ action[a].status = "queued"
      BY <1>3 DEF BecomeDue, Is
    <2> HIDE DEF r
    <2>3. LedgerAccepts(action[a].status, r.status)
      BY <1>1, <2>1, <2>2, LegalUpdates
    <2> QED BY <1>1, <2>1, <2>2, <2>3, OneLetThrough
  <1>4. CASE BecomeStale(a)
    <2> DEFINE r == Overdue(action[a].attempts)
    <2>1. r \in Row /\ r.status = "processing"
      BY <1>1 DEF Overdue, Row, Status
    <2>2. action' = [action EXCEPT ![a] = r] /\ action[a].status = "processing"
      BY <1>4 DEF BecomeStale, Is
    <2> HIDE DEF r
    <2>3. LedgerAccepts(action[a].status, r.status)
      BY <1>1, <2>1, <2>2, LegalUpdates
    <2> QED BY <1>1, <2>1, <2>2, <2>3, OneLetThrough
  <1>5. CASE (Conclude(a) \/ LostElsewhere(a)) /\ action' /= action
    <2> DEFINE r == Ended("unknown", action[a].attempts)
    <2>1. r \in Row /\ r.status = "unknown"
      BY <1>1, EndedParts DEF Status
    <2>2. /\ action' = [action EXCEPT ![a] = r]
          /\ action[a].status \in {"succeeded", "processing"}
      BY <1>5 DEF Conclude, LostElsewhere, Is
    <2> HIDE DEF r
    <2>3. LedgerAccepts(action[a].status, r.status)
      BY <2>1, <2>2, LegalUpdates
    <2> QED BY <1>1, <2>1, <2>2, <2>3, OneLetThrough
  <1>6. SettleClaim(a) \/ FanOut(a) \/ CarryOut(a) => action' = action
    BY DEF SettleClaim, FanOut, CarryOut
  <1> QED BY <1>2, <1>3, <1>4, <1>5, <1>6 DEF Environment

\* The second transaction of "sent".
LEMMA ReceiptLetThrough ==
  ASSUME IInv, NEW m \in marks, ReportSent(m) \/ DropMark(m), NEW b \in Action
  PROVE  LetThrough(b)
  <1>1. TypeOK /\ m[1] \in Action
    <2>1. TypeOK BY DEF IInv
    <2>2. m \in Action \X Token BY <2>1 DEF TypeOK
    <2> QED BY <2>1, <2>2
  <1>2. PICK a \in Action : a = m[1]
    BY <1>1
  <1>3. action' = action \/ action' = [action EXCEPT ![a] = Received(a)]
    BY <1>2 DEF ReportSent, DropMark
  <1>4. /\ action[a] \in Row
        /\ action[a].status \in Status
        /\ action[a].attempts \in 0..MaxAttempts
    BY <1>1, RowParts
  <1>5. Received(a) \in Row /\ LedgerAccepts(action[a].status, Received(a).status)
    <2>1. CASE Received(a) = action[a]
      BY <1>4, <2>1, LegalUpdates
    <2>2. CASE Received(a) /= action[a]
      <3> DEFINE r == Ended("succeeded", action[a].attempts)
      <3>1. /\ Received(a) = r
            /\ Applied(StateOf[action[a].status], "Executed", "Premature") = {"SUCCEEDED"}
        BY <2>2 DEF Received
      <3>2. r \in Row /\ r.status = "succeeded"
        BY <1>4, EndedParts DEF Status
      <3> HIDE DEF r
      <3>3. StateOf[action[a].status] \in {"RUNNING", "UNKNOWN", "RECONCILING", "SUCCEEDED"}
        BY <3>1 DEF Applied, Open
      <3>4. action[a].status \in {"processing", "unknown", "succeeded"}
        BY <1>4, <3>3 DEF StateOf, Status
      <3> QED BY <1>4, <3>1, <3>2, <3>4, LegalUpdates
    <2> QED BY <2>1, <2>2
  <1> QED BY <1>1, <1>3, <1>5, OneLetThrough, NoneWritten

\* No transaction of the dispatch side runs into the trigger action_ledger_sync:
\* each of its updates of a status is guarded so that the trigger knows it.
THEOREM LedgerLetsThrough == Spec => LedgerNeverRefuses
  <1>1. ASSUME IInv, [Next]_vars, NEW a \in Action
        PROVE  LetThrough(a)
    <2>1. TypeOK BY <1>1 DEF IInv
    <2>2. CASE Advertise \/ UNCHANGED vars
      BY <2>1, <2>2, NoneWritten DEF Advertise, vars
    <2> QED BY <1>1, <2>2, LoopLetThrough, PeopleLetThrough, WorldLetThrough,
               ReceiptLetThrough DEF Next
  <1>2. IInv /\ [Next]_vars =>
          [\A a \in Action :
             LedgerAccepts(action[a].status, action'[a].status)]_vars
    BY <1>1 DEF LetThrough
  <1> QED BY <1>2, Invariance, PTL DEF Spec, LedgerNeverRefuses
=============================================================================
