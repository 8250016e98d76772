--------------------------- MODULE ReceiptsProofs ---------------------------
(***************************************************************************)
(* Proofs about Receipts, for any executors, tokens and number of reports. *)
(*                                                                         *)
(* One inductive invariant.  ClaimSound says what a claim row, the work    *)
(* done under its tokens and the reports on file tell of each other;       *)
(* FiledSound what the reports tell of the action; HasLatest that the      *)
(* receipt sweep always finds a latest report; CycleSound what a sweep     *)
(* that has read its candidates may still rely on when it writes.          *)
(***************************************************************************)
EXTENDS Receipts, TLAPS

\* What is known of an executor that claims: no work and no report outside the
\* tokens it was granted, a reported failure under each token but the last, and
\* a claim row that tells the last token's story.
ClaimSound(e) ==
  /\ claim[e].status = "none" <=> claim[e].token = 0
  /\ work[e][0] = "none"
  /\ \A t \in Token : work[e][t] # "none" => t <= claim[e].token
  /\ \A i \in DOMAIN filed : filed[i].executor = e =>
       filed[i].token # 0 /\ filed[i].token <= claim[e].token
  /\ \A t \in Token \ {0} : t < claim[e].token => Said(e, t, "failed")
  /\ claim[e].status = "succeeded" <=>
       claim[e].token # 0 /\ Said(e, claim[e].token, "succeeded")
  /\ claim[e].status = "failed" <=>
       /\ claim[e].token # 0 /\ Said(e, claim[e].token, "failed")
       /\ ~Said(e, claim[e].token, "succeeded")

\* What is known of a report on file.
ReportSound(i) ==
  /\ filed[i].proof => filed[i].status = "succeeded" /\ filed[i].executor # Synthesized
  /\ filed[i].executor = Synthesized /\ filed[i].status = "failed" => action = "failed"
  /\ filed[i].executor # Synthesized /\ filed[i].status = "succeeded" /\ action # "failed"
       => learned

FiledSound == \A i \in DOMAIN filed : ReportSound(i)

\* Some report is later than all the others.
HasLatest ==
  OnFile => \E i \in DOMAIN filed : \A j \in DOMAIN filed \ {i} : Before(j, i)

\* Some report says so.
Reported(status) == \E i \in DOMAIN filed : filed[i].status = status

\* A sweep's reading stays good enough to write: reports are never taken back,
\* and a delivery verdict that a report has overtaken finds the assignment
\* settled.
CycleSound ==
  /\ cycle.sweep = "receipts" =>
       cycle.verdict \in {"Executed", "Failed"} /\ Reported(Settled(cycle.verdict))
  /\ cycle.sweep = "deliveries" =>
       /\ cycle.verdict \in {"Executed", "Failed"}
       /\ IF OnFile THEN assignment # "unknown" ELSE action = "unknown"

Sound ==
  /\ \A e \in Careful : ClaimSound(e)
  /\ FiledSound
  /\ HasLatest
  /\ VerdictHasReport
  /\ CycleSound

IInv == TypeOK /\ Sound

-----------------------------------------------------------------------------
(* Reports and how they grow.                                              *)

\* A new report goes behind the others and leaves them as they are.
LEMMA FiledGrows ==
  ASSUME TypeOK, NEW r \in Report, filed' = Append(filed, r)
  PROVE  /\ filed' \in Seq(Report) /\ OnFile'
         /\ Len(filed) + 1 \notin DOMAIN filed
         /\ DOMAIN filed' = DOMAIN filed \cup {Len(filed) + 1}
         /\ filed'[Len(filed) + 1] = r
         /\ \A i \in DOMAIN filed : filed'[i] = filed[i]
<1>1. filed \in Seq(Report)
  BY DEF TypeOK
<1> QED BY <1>1 DEF OnFile

\* What an executor has said is what it had said, and the new report.
LEMMA SaidGrows ==
  ASSUME TypeOK, NEW r \in Report, filed' = Append(filed, r)
  PROVE  /\ \A e \in Executor, t \in Token, s \in Verdicts :
              Said(e, t, s)' <=> \/ Said(e, t, s)
                                 \/ r.executor = e /\ r.token = t /\ r.status = s
         /\ \A s \in Verdicts : Reported(s)' <=> Reported(s) \/ r.status = s
<1>1. /\ DOMAIN filed' = DOMAIN filed \cup {Len(filed) + 1}
      /\ filed'[Len(filed) + 1] = r
      /\ \A i \in DOMAIN filed : filed'[i] = filed[i]
  BY FiledGrows
<1>2. ASSUME NEW e \in Executor, NEW t \in Token, NEW s \in Verdicts
      PROVE  Said(e, t, s)' <=> \/ Said(e, t, s)
                                \/ r.executor = e /\ r.token = t /\ r.status = s
  BY <1>1 DEF Said
<1>3. ASSUME NEW s \in Verdicts
      PROVE  Reported(s)' <=> Reported(s) \/ r.status = s
  BY <1>1 DEF Reported
<1> QED BY <1>2, <1>3

\* A latest report is overtaken only by a later one.
LEMMA LatestGrows ==
  ASSUME TypeOK, HasLatest, NEW r \in Report, filed' = Append(filed, r)
  PROVE  HasLatest'
<1>0. PICK n \in Nat : n = Len(filed) + 1
  BY DEF TypeOK
<1>1. /\ DOMAIN filed' = DOMAIN filed \cup {n}
      /\ n \notin DOMAIN filed
      /\ filed'[n] = r
      /\ \A i \in DOMAIN filed : filed'[i] = filed[i]
  BY <1>0, FiledGrows
<1>2. /\ r.at \in Nat /\ n \in Nat
      /\ \A i \in DOMAIN filed : filed[i].at \in Nat /\ i \in Nat /\ i < n
  <2>1. filed \in Seq(Report) /\ \A m \in Report : m.at \in Nat
    BY DEF TypeOK, Report, Moment
  <2> QED BY <1>0, <2>1
<1>3. CASE ~OnFile
  <2>1. DOMAIN filed = {}
    BY <1>3 DEF OnFile
  <2>2. DOMAIN filed' = {n}
    BY <1>1, <2>1
  <2> QED BY <2>2 DEF HasLatest
<1>4. CASE OnFile
  <2>1. PICK i \in DOMAIN filed : \A j \in DOMAIN filed \ {i} : Before(j, i)
    BY <1>4 DEF HasLatest
  <2>2. CASE filed[i].at <= r.at
    <3>1. ASSUME NEW j \in DOMAIN filed
          PROVE  Before(j, n)'
      <4>1. filed[j].at <= filed[i].at
        BY <1>2, <2>1 DEF Before
      <4> QED BY <1>1, <1>2, <2>2, <4>1 DEF Before
    <3>2. n \in DOMAIN filed' /\ \A j \in DOMAIN filed' \ {n} : Before(j, n)'
      BY <1>1, <3>1
    <3> QED BY <3>2 DEF HasLatest
  <2>3. CASE r.at < filed[i].at
    <3>1. ASSUME NEW j \in DOMAIN filed' \ {i}
          PROVE  Before(j, i)'
      <4>1. CASE j = n
        BY <1>1, <2>3, <4>1 DEF Before
      <4>2. CASE j \in DOMAIN filed \ {i}
        BY <1>1, <2>1, <4>2 DEF Before
      <4> QED BY <1>1, <4>1, <4>2
    <3>2. i \in DOMAIN filed'
      BY <1>1
    <3> QED BY <3>1, <3>2 DEF HasLatest
  <2> QED BY <1>2, <2>2, <2>3
<1> QED BY <1>3, <1>4

\* resolve_from_receipts decides by the latest report: success if that is one,
\* or if its own executor has reported one before.
LEMMA ReceiptVerdictIs ==
  ASSUME TypeOK, HasLatest, OnFile
  PROVE  \E last \in DOMAIN filed :
           /\ \A j \in DOMAIN filed \ {last} : Before(j, last)
           /\ \/ ReceiptVerdict = "Executed" /\ Reported("succeeded")
              \/ /\ ReceiptVerdict = "Failed" /\ filed[last].status = "failed"
                 /\ \A j \in DOMAIN filed : Before(j, last) =>
                      ~(filed[j].executor = filed[last].executor /\ filed[j].status = "succeeded")
<1> DEFINE last == CHOOSE i \in DOMAIN filed : \A j \in DOMAIN filed \ {i} : Before(j, i)
           prior == \E j \in DOMAIN filed :
                      /\ Before(j, last)
                      /\ filed[j].executor = filed[last].executor
                      /\ filed[j].status = "succeeded"
<1>1. last \in DOMAIN filed /\ \A j \in DOMAIN filed \ {last} : Before(j, last)
  BY DEF HasLatest
<1>2. ReceiptVerdict = IF prior \/ filed[last].status = "succeeded" THEN "Executed" ELSE "Failed"
  BY Zenon DEF ReceiptVerdict
<1> HIDE DEF last
<1>3. filed[last].status \in Verdicts
  <2>1. filed[last] \in Report
    BY <1>1 DEF TypeOK
  <2> QED BY <2>1 DEF Report
<1>4. CASE prior \/ filed[last].status = "succeeded"
  BY <1>1, <1>2, <1>4 DEF Reported
<1>5. CASE ~prior /\ filed[last].status # "succeeded"
  BY <1>1, <1>2, <1>3, <1>5 DEF Verdicts
<1> QED BY <1>4, <1>5

\* A verdict of the receipts is one that some report has.
LEMMA ReceiptVerdictIsReported ==
  ASSUME TypeOK, HasLatest, OnFile
  PROVE  /\ ReceiptVerdict \in {"Executed", "Failed"}
         /\ Reported(Settled(ReceiptVerdict))
BY ReceiptVerdictIs DEF Settled, Reported

-----------------------------------------------------------------------------
(* Types.                                                                  *)

\* An executor's report.
LEMMA ReportTyped ==
  ASSUME TypeOK, NEW e \in Executor, NEW t \in Token, NEW s \in Verdicts, NEW p \in BOOLEAN,
         NEW at \in Moment, FileReport(e, t, s, p, at)
  PROVE  TypeOK'
<1>1. PICK r \in Report : filed' = Append(filed, r)
  BY DEF FileReport, Report
<1>2. filed' \in Seq(Report)
  BY <1>1, FiledGrows
<1>3. claim' \in [Executor -> [status : {"none", "claimed", "succeeded", "failed"}, token : Token]]
  <2>1. claim \in [Executor -> [status : {"none", "claimed", "succeeded", "failed"}, token : Token]]
    BY DEF TypeOK
  <2>2. ReportedClaim(e, s) \in {"none", "claimed", "succeeded", "failed"}
    BY <2>1 DEF ReportedClaim, Verdicts
  <2>3. claim' = [claim EXCEPT ![e].status = ReportedClaim(e, s)]
    BY DEF FileReport
  <2> QED BY <2>1, <2>2, <2>3
<1>4. /\ action' \in {"succeeded", "failed", "unknown"}
      /\ assignment' \in {"dispatched", "unknown", "executed", "failed"}
  BY DEF FileReport, TypeOK, Verdicts, Realized
<1>5. learned' \in BOOLEAN
  BY DEF FileReport, TypeOK
<1> QED BY <1>2, <1>3, <1>4, <1>5 DEF FileReport, TypeOK

\* A resolution of the reconciliation.
LEMMA ResolutionTyped ==
  ASSUME TypeOK, NEW verdict, NEW before \in {"dispatched", "unknown", "executed", "failed"},
         ResolveAction(verdict, before)
  PROVE  /\ action' \in {"succeeded", "failed", "unknown"}
         /\ assignment' \in {"dispatched", "unknown", "executed", "failed"}
         /\ filed' \in Seq(Report)
<1>1. Settled(verdict) \in Verdicts
  BY DEF Settled, Verdicts
<1>2. CASE OnFile
  BY <1>1, <1>2 DEF ResolveAction, TypeOK, FollowedBy, Realized, Verdicts
<1>3. CASE ~OnFile
  <2>0. 0 \in Token
    BY ReceiptsAssumption DEF Token
  <2>1. PICK r \in Report : filed' = Append(filed, r)
    <3>1. PICK at \in Moment :
            filed' = Append(filed, [executor |-> Synthesized, token |-> 0,
                                    status |-> Settled(verdict), proof |-> FALSE, at |-> at])
      BY <1>3 DEF ResolveAction
    <3>2. [executor |-> Synthesized, token |-> 0, status |-> Settled(verdict),
           proof |-> FALSE, at |-> at] \in Report
      BY <1>1, <2>0 DEF Report
    <3> QED BY <3>1, <3>2
  <2>2. filed' \in Seq(Report)
    BY <2>1, FiledGrows
  <2> QED BY <1>1, <1>3, <2>2 DEF ResolveAction, TypeOK, FollowedBy, Realized, Verdicts
<1> QED BY <1>2, <1>3

\* What the sweeps read are observations.
LEMMA VerdictsObserved ==
  /\ DeliveryVerdicts \subseteq Observed /\ ReceiptVerdict \in Observed
  /\ SeenAfterGap \subseteq Observed
  /\ Idle \in [sweep : {"none", "gaps", "receipts", "deliveries"}, verdict : Observed]
<1>1. DeliveryVerdicts \subseteq Observed /\ ReceiptVerdict \in Observed
  BY Zenon DEF DeliveryVerdicts, ReceiptVerdict, Observed
<1> QED BY <1>1 DEF SeenAfterGap, Observed, Idle

\* Every step keeps the types.
LEMMA TypeStep ==
  ASSUME TypeOK, Next
  PROVE  TypeOK'
<1>1. CASE Materialize
  BY <1>1 DEF Materialize, DeliveryStatus, TypeOK
<1>2. CASE Conclude \/ \E e \in Executor : Reach(e)
  BY <1>2 DEF Reach, Conclude, TypeOK
<1>10. CASE Hide
  BY <1>10 DEF Hide, TypeOK
<1>3. ASSUME NEW e \in Executor, ClaimExecution(e)
      PROVE  TypeOK'
  <2>1. claim[e].token + 1 \in Token
    BY <1>3, ReceiptsAssumption DEF ClaimExecution, TypeOK, Token
  <2> QED BY <1>3, <2>1 DEF ClaimExecution, TypeOK
<1>4. ASSUME NEW e \in Executor, NEW t \in Token, Run(e, t)
      PROVE  TypeOK'
  BY <1>4 DEF Run, TypeOK
<1>5. ASSUME NEW e \in Executor, NEW t \in Token, NEW s \in Verdicts, NEW p \in BOOLEAN,
             NEW at \in Moment, FileReport(e, t, s, p, at)
      PROVE  TypeOK'
  BY <1>5, ReportTyped
<1>6. CASE ReadGaps \/ ReadReceipts \/ ReadDeliveries
  <2>1. PICK sweep \in {"gaps", "receipts", "deliveries"}, verdict \in Observed : Read(sweep, verdict)
    BY <1>6, VerdictsObserved DEF ReadGaps, ReadReceipts, ReadDeliveries, Observed
  <2> QED BY <2>1 DEF Read, TypeOK
<1>7. CASE FlagGap
  <2>1. PICK before \in {"dispatched", "unknown", "executed", "failed"}, verdict \in Observed :
          IF verdict = "Unknown" THEN action' = "unknown" /\ assignment' = before /\ UNCHANGED filed
          ELSE ResolveAction(verdict, before)
    BY <1>7, VerdictsObserved DEF FlagGap, TypeOK
  <2>2. /\ action' \in {"succeeded", "failed", "unknown"}
        /\ assignment' \in {"dispatched", "unknown", "executed", "failed"}
        /\ filed' \in Seq(Report)
    <3>1. CASE verdict = "Unknown"
      BY <2>1, <3>1 DEF TypeOK
    <3>2. CASE verdict # "Unknown"
      BY <2>1, <3>2, ResolutionTyped
    <3> QED BY <3>1, <3>2
  <2> QED BY <1>7, <2>2, VerdictsObserved DEF FlagGap, TypeOK
<1>8. CASE Resolve
  <2>1. assignment \in {"dispatched", "unknown", "executed", "failed"}
    BY DEF TypeOK
  <2>2. /\ action' \in {"succeeded", "failed", "unknown"}
        /\ assignment' \in {"dispatched", "unknown", "executed", "failed"}
        /\ filed' \in Seq(Report)
    BY <1>8, <2>1, ResolutionTyped DEF Resolve
  <2> QED BY <1>8, <2>2, VerdictsObserved DEF Resolve, TypeOK
<1>9. CASE Abandon
  BY <1>9, VerdictsObserved DEF Abandon, TypeOK
<1> QED BY <1>1, <1>2, <1>3, <1>4, <1>5, <1>6, <1>7, <1>8, <1>9, <1>10 DEF Next

-----------------------------------------------------------------------------
(* What an executor's report keeps.                                        *)

\* A claim goes on telling its last token's story.
LEMMA ReportKeepsClaims ==
  ASSUME IInv, NEW e \in Executor, NEW t \in Token, NEW s \in Verdicts, NEW p \in BOOLEAN,
         NEW at \in Moment, FileReport(e, t, s, p, at), NEW c \in Careful
  PROVE  ClaimSound(c)'
<1> DEFINE r == [executor |-> e, token |-> t, status |-> s, proof |-> p, at |-> at]
<1>1. /\ r \in Report /\ filed' = Append(filed, r)
      /\ r.executor = e /\ r.token = t /\ r.status = s
  BY DEF FileReport, Report
<1> HIDE DEF r
<1>2. /\ DOMAIN filed' = DOMAIN filed \cup {Len(filed) + 1}
      /\ filed'[Len(filed) + 1] = r
      /\ \A i \in DOMAIN filed : filed'[i] = filed[i]
  BY <1>1, FiledGrows DEF IInv
<1>3. \A u \in Token, v \in Verdicts :
        Said(c, u, v)' <=> Said(c, u, v) \/ (e = c /\ t = u /\ s = v)
  BY <1>1, SaidGrows, ReceiptsAssumption DEF IInv
<1>4. ClaimSound(c) /\ c \in Executor /\ claim[c].token \in Token /\ 0 \in Token
  BY ReceiptsAssumption DEF IInv, Sound, TypeOK, Token
<1>5. work' = work /\ claim'[c].token = claim[c].token
  BY <1>4 DEF FileReport, IInv, TypeOK
<1>6. CASE c # e
  <2>1. claim'[c] = claim[c]
    BY <1>4, <1>6 DEF FileReport, IInv, TypeOK
  <2>2. \A u \in Token, v \in Verdicts : Said(c, u, v)' <=> Said(c, u, v)
    BY <1>3, <1>6
  <2>3. \A i \in DOMAIN filed' : filed'[i].executor = c =>
          filed'[i].token # 0 /\ filed'[i].token <= claim[c].token
    BY <1>1, <1>2, <1>4, <1>6 DEF ClaimSound
  <2> QED BY <1>4, <1>5, <2>1, <2>2, <2>3 DEF ClaimSound, Verdicts
<1>7. CASE c = e
  <2>1. work[c][t] # "none"
    BY <1>7 DEF FileReport, CanSay
  <2>2. t # 0 /\ t <= claim[c].token
    BY <1>4, <2>1 DEF ClaimSound
  <2>3. claim[c].status # "none" /\ t = claim[c].token
    BY <1>4, <1>7, <2>2, ReceiptsAssumption DEF FileReport, TokenHolds, ClaimSound, Token
  <2>4. claim'[c].status =
          IF claim[c].status = "succeeded" /\ s = "failed" THEN "succeeded" ELSE s
    BY <1>4, <1>7, <2>3 DEF FileReport, ReportedClaim, IInv, TypeOK
  <2>5. \A i \in DOMAIN filed' : filed'[i].executor = c =>
          filed'[i].token # 0 /\ filed'[i].token <= claim[c].token
    BY <1>1, <1>2, <1>4, <2>2 DEF ClaimSound
  <2>6. \A u \in Token \ {0} : u < claim[c].token => Said(c, u, "failed")'
    BY <1>3, <1>4 DEF ClaimSound, Verdicts
  <2>7. /\ claim'[c].status = "succeeded" <=> Said(c, claim[c].token, "succeeded")'
        /\ claim'[c].status = "failed" <=>
             Said(c, claim[c].token, "failed")' /\ ~Said(c, claim[c].token, "succeeded")'
        /\ claim'[c].status # "none"
    BY <1>3, <1>4, <1>5, <1>7, <2>2, <2>3, <2>4 DEF ClaimSound, Verdicts
  <2> QED BY <1>4, <1>5, <2>2, <2>3, <2>5, <2>6, <2>7 DEF ClaimSound
<1> QED BY <1>6, <1>7

\* A failed action never moves again.
LEMMA FailureMovesNothing ==
  ASSUME action = "failed", NEW s \in Verdicts
  PROVE  ~Applies(s)
BY DEF Applies, Applied, StateOf, Open, Observation, Verdicts

\* An unknown action moves with any report.
LEMMA UnknownMoves ==
  ASSUME action = "unknown", NEW s \in Verdicts
  PROVE  Applies(s)
BY DEF Applies, Applied, StateOf, Open, Observation, Verdicts

\* A failure does not move a success that was confirmed.
LEMMA ConfirmedDoesNotMove ==
  ASSUME TypeOK, action = "succeeded", NEW i \in DOMAIN filed, filed[i].proof,
         filed[i].status = "succeeded", NEW s \in Verdicts
  PROVE  ~Applies(s)
BY DEF Applies, Applied, StateOf, Open, Observation, Verdicts, Evidence

\* Reports and the verdicts drawn from them.
LEMMA ReportKeepsFiled ==
  ASSUME IInv, NEW e \in Executor, NEW t \in Token, NEW s \in Verdicts, NEW p \in BOOLEAN,
         NEW at \in Moment, FileReport(e, t, s, p, at)
  PROVE  FiledSound' /\ HasLatest' /\ VerdictHasReport'
<1> DEFINE r == [executor |-> e, token |-> t, status |-> s, proof |-> p, at |-> at]
<1>1. /\ r \in Report /\ filed' = Append(filed, r)
      /\ r.executor = e /\ r.status = s /\ r.proof = p
  BY DEF FileReport, Report
<1>2. e # Synthesized /\ (p => s = "succeeded")
  BY ReceiptsAssumption DEF Synthesized, FileReport
<1> HIDE DEF r
<1>3. /\ DOMAIN filed' = DOMAIN filed \cup {Len(filed) + 1}
      /\ filed'[Len(filed) + 1] = r
      /\ \A i \in DOMAIN filed : filed'[i] = filed[i]
  BY <1>1, FiledGrows DEF IInv
<1>4. \A v \in Verdicts : Reported(v)' <=> Reported(v) \/ s = v
  BY <1>1, SaidGrows DEF IInv
<1>5. /\ action' = IF Applies(s) THEN s ELSE action
      /\ assignment' = IF Applies(s) /\ assignment \in {"dispatched", "unknown"}
                       THEN Realized[s] ELSE assignment
      /\ learned' = (learned \/ Teaches(s))
  BY DEF FileReport
<1>6. action = "failed" => action' = "failed"
  BY <1>5, FailureMovesNothing
<1>7. HasLatest'
  BY <1>1, LatestGrows DEF IInv, Sound
<1>8. FiledSound'
  <2>1. ASSUME NEW i \in DOMAIN filed
        PROVE  ReportSound(i)'
    <3>1. ReportSound(i) /\ filed'[i] = filed[i]
      BY <1>3 DEF IInv, Sound, FiledSound
    <3>2. learned => learned'
      BY <1>5
    <3> QED BY <1>5, <1>6, <3>1, <3>2 DEF ReportSound
  <2>2. ASSUME NEW i, i = Len(filed) + 1
        PROVE  /\ filed'[i].proof => filed'[i].status = "succeeded" /\ filed'[i].executor # Synthesized
               /\ filed'[i].executor # Synthesized
               /\ filed'[i].status = "succeeded" /\ action' # "failed" => learned'
    BY <1>1, <1>2, <1>3, <1>5, <1>6, <2>2 DEF Teaches
  <2> QED BY <1>3, <2>1, <2>2 DEF FiledSound, ReportSound
<1>9. VerdictHasReport'
  <2>1. /\ assignment = "executed" => Reported("succeeded")
        /\ assignment = "failed" => Reported("failed")
    BY DEF IInv, Sound, VerdictHasReport, Reported
  <2>2. /\ assignment' = "executed" => assignment = "executed" \/ s = "succeeded"
        /\ assignment' = "failed" => assignment = "failed" \/ s = "failed"
    BY <1>5 DEF Realized, Verdicts
  <2>3. /\ assignment' = "executed" => Reported("succeeded")'
        /\ assignment' = "failed" => Reported("failed")'
    BY <1>4, <2>1, <2>2 DEF Verdicts
  <2>4. OnFile'
    BY <1>1, FiledGrows DEF IInv
  <2> QED BY <2>3, <2>4 DEF VerdictHasReport, Reported
<1> QED BY <1>7, <1>8, <1>9

\* A sweep that has read its candidates may rely on them when the report lands.
LEMMA ReportKeepsCycle ==
  ASSUME IInv, NEW e \in Executor, NEW t \in Token, NEW s \in Verdicts, NEW p \in BOOLEAN,
         NEW at \in Moment, FileReport(e, t, s, p, at)
  PROVE  CycleSound'
<1> DEFINE r == [executor |-> e, token |-> t, status |-> s, proof |-> p, at |-> at]
<1>1. r \in Report /\ filed' = Append(filed, r)
  BY DEF FileReport, Report
<1> HIDE DEF r
<1>2. OnFile'
  BY <1>1, FiledGrows DEF IInv
<1>3. cycle' = cycle
  BY DEF FileReport
<1>4. \A v \in Verdicts : Reported(v) => Reported(v)'
  BY <1>1, SaidGrows DEF IInv
<1>5. /\ action' = IF Applies(s) THEN s ELSE action
      /\ assignment' = IF Applies(s) /\ assignment \in {"dispatched", "unknown"}
                       THEN Realized[s] ELSE assignment
  BY DEF FileReport
<1>6. CASE cycle.sweep = "receipts"
  <2>1. cycle.verdict \in {"Executed", "Failed"} /\ Reported(Settled(cycle.verdict))
    BY <1>6 DEF IInv, Sound, CycleSound
  <2>2. PICK v \in Verdicts : v = Settled(cycle.verdict)
    BY DEF Settled, Verdicts
  <2>3. Reported(v)'
    BY <1>4, <2>1, <2>2
  <2>4. Reported(Settled(cycle.verdict))'
    BY <1>3, <2>2, <2>3 DEF Reported, Settled
  <2> QED BY <1>3, <1>6, <2>1, <2>4 DEF CycleSound
<1>7. CASE cycle.sweep = "deliveries"
  <2>1. /\ cycle.verdict \in {"Executed", "Failed"}
        /\ IF OnFile THEN assignment # "unknown" ELSE action = "unknown"
    BY <1>7 DEF IInv, Sound, CycleSound
  <2>2. action = "unknown" => Applies(s)
    BY UnknownMoves
  <2>3. Realized[s] # "unknown" /\ s # "unknown"
    BY DEF Realized, Verdicts
  <2>4. assignment' # "unknown"
    BY <1>5, <2>1, <2>2, <2>3
  <2> QED BY <1>2, <1>3, <1>7, <2>1, <2>4 DEF CycleSound
<1> QED BY <1>3, <1>6, <1>7 DEF CycleSound

-----------------------------------------------------------------------------
(* What the reconciliation keeps.                                          *)

\* A report that no executor filed changes nothing in what executors have said.
LEMMA SilenceKeepsClaims ==
  ASSUME IInv, UNCHANGED <<claim, work>>,
         \/ filed' = filed
         \/ \E r \in Report : r.executor = Synthesized /\ filed' = Append(filed, r),
         NEW c \in Careful
  PROVE  ClaimSound(c)'
<1>1. ClaimSound(c) /\ c \in Executor /\ c # Synthesized /\ claim[c].token \in Token
  BY ReceiptsAssumption DEF IInv, Sound, TypeOK, Synthesized
<1>2. CASE filed' = filed
  BY <1>1, <1>2 DEF ClaimSound, Said
<1>3. CASE filed' # filed
  <2>1. PICK r \in Report : r.executor = Synthesized /\ filed' = Append(filed, r)
    BY <1>3
  <2>2. /\ DOMAIN filed' = DOMAIN filed \cup {Len(filed) + 1}
        /\ filed'[Len(filed) + 1] = r
        /\ \A i \in DOMAIN filed : filed'[i] = filed[i]
    BY <2>1, FiledGrows DEF IInv
  <2>3. \A u \in Token, v \in Verdicts : Said(c, u, v)' <=> Said(c, u, v)
    BY <1>1, <2>1, SaidGrows DEF IInv
  <2>4. \A i \in DOMAIN filed' : filed'[i].executor = c =>
          filed'[i].token # 0 /\ filed'[i].token <= claim[c].token
    BY <1>1, <2>1, <2>2 DEF ClaimSound
  <2> QED BY <1>1, <2>3, <2>4 DEF ClaimSound, Verdicts
<1> QED BY <1>2, <1>3

\* resolve_action, wherever the verdict comes from, if a report backs it up or
\* the assignment has been settled before.
LEMMA ResolutionKeeps ==
  ASSUME IInv, NEW verdict \in {"Executed", "Failed"},
         NEW before \in {"dispatched", "unknown", "executed", "failed"},
         ResolveAction(verdict, before), action # "failed",
         UNCHANGED <<learned, claim, event, delivery, reached, work>>, cycle' = Idle,
         before # "unknown" => before = assignment,
         OnFile => Reported(Settled(verdict)) \/ before # "unknown"
  PROVE  Sound'
<1>1. PICK s \in Verdicts : s = Settled(verdict) /\ (verdict = "Executed" => s = "succeeded")
  BY DEF Settled, Verdicts
<1>2. action' = s /\ assignment' = IF before = "unknown" THEN Realized[s] ELSE before
  BY <1>1 DEF ResolveAction, FollowedBy
<1>3. CycleSound'
  BY DEF CycleSound, Idle
<1>4. /\ assignment = "executed" => Reported("succeeded")
      /\ assignment = "failed" => Reported("failed")
      /\ \A i \in DOMAIN filed : ReportSound(i)
  BY DEF IInv, Sound, VerdictHasReport, Reported, FiledSound
<1>5. CASE OnFile
  <2>1. filed' = filed
    BY <1>5 DEF ResolveAction
  <2>2. \A c \in Careful : ClaimSound(c)'
    BY <2>1, SilenceKeepsClaims
  <2>3. HasLatest'
    BY <2>1 DEF IInv, Sound, HasLatest, OnFile, Before
  <2>4. \A i \in DOMAIN filed : ReportSound(i)'
    BY <1>2, <1>4, <2>1 DEF ReportSound
  <2>5. VerdictHasReport'
    <3>1. OnFile'
      BY <1>5, <2>1 DEF OnFile
    <3>2. /\ assignment' = "executed" => Reported("succeeded")
          /\ assignment' = "failed" => Reported("failed")
      BY <1>1, <1>2, <1>4, <1>5 DEF Verdicts, Realized
    <3> QED BY <2>1, <3>1, <3>2 DEF VerdictHasReport, Reported
  <2> QED BY <1>3, <2>1, <2>2, <2>3, <2>4, <2>5 DEF Sound, FiledSound
<1>6. CASE ~OnFile
  <2>1. PICK r \in Report : /\ filed' = Append(filed, r) /\ r.executor = Synthesized
                            /\ r.status = s /\ ~r.proof
    <3>1. PICK at \in Moment :
            filed' = Append(filed, [executor |-> Synthesized, token |-> 0,
                                    status |-> s, proof |-> FALSE, at |-> at])
      BY <1>1, <1>6 DEF ResolveAction
    <3>2. [executor |-> Synthesized, token |-> 0, status |-> s,
           proof |-> FALSE, at |-> at] \in Report
      BY ReceiptsAssumption DEF Report, Token
    <3> QED BY <3>1, <3>2
  <2>2. \A c \in Careful : ClaimSound(c)'
    BY <2>1, SilenceKeepsClaims
  <2>3. HasLatest'
    BY <2>1, LatestGrows DEF IInv, Sound
  <2>4. /\ DOMAIN filed' = DOMAIN filed \cup {Len(filed) + 1}
        /\ filed'[Len(filed) + 1] = r
        /\ \A i \in DOMAIN filed : filed'[i] = filed[i]
    BY <2>1, FiledGrows DEF IInv
  <2>5. DOMAIN filed = {}
    BY <1>6 DEF OnFile
  <2>6. FiledSound'
    BY <1>2, <2>1, <2>4, <2>5 DEF FiledSound, ReportSound
  <2>7. VerdictHasReport'
    <3>1. Reported(s)'
      BY <2>1, <2>4 DEF Reported
    <3>2. ~Reported("succeeded") /\ ~Reported("failed")
      BY <2>5 DEF Reported
    <3>3. /\ assignment' = "executed" => s = "succeeded"
          /\ assignment' = "failed" => s = "failed"
      BY <1>2, <1>4, <3>2 DEF Realized, Verdicts
    <3>4. OnFile'
      BY <2>1, FiledGrows DEF IInv
    <3> QED BY <3>1, <3>3, <3>4 DEF VerdictHasReport, Reported
  <2> QED BY <1>3, <2>2, <2>3, <2>6, <2>7 DEF Sound
<1> QED BY <1>5, <1>6

\* The gap sweep, and what the later sweeps of its transaction decide.
LEMMA FlagGapKeeps ==
  ASSUME IInv, FlagGap
  PROVE  Sound'
<1>1. PICK before \in {"dispatched", "unknown", "executed", "failed"}, verdict \in SeenAfterGap :
        /\ before = IF assignment = "dispatched" THEN "unknown" ELSE assignment
        /\ IF verdict = "Unknown" THEN action' = "unknown" /\ assignment' = before /\ UNCHANGED filed
           ELSE ResolveAction(verdict, before)
  BY DEF FlagGap, IInv, TypeOK
<1>2. /\ UNCHANGED <<learned, claim, event, delivery, reached, work>> /\ cycle' = Idle
      /\ action = "succeeded"
  BY DEF FlagGap
<1>3. CASE verdict = "Unknown"
  <2>1. ~OnFile
    <3>1. OnFile => verdict = ReceiptVerdict
      BY DEF SeenAfterGap
    <3> QED BY <1>3, <3>1, ReceiptVerdictIsReported DEF IInv, Sound
  <2>2. filed' = filed /\ action' = "unknown" /\ DOMAIN filed = {}
    BY <1>1, <1>3, <2>1 DEF OnFile
  <2>3. \A c \in Careful : ClaimSound(c)'
    BY <1>2, <2>2, SilenceKeepsClaims
  <2>4. assignment' = "executed" => assignment = "executed"
    BY <1>1, <1>3
  <2>5. assignment' = "failed" => assignment = "failed"
    BY <1>1, <1>3
  <2>6. VerdictHasReport'
    BY <1>2, <2>2, <2>4, <2>5 DEF IInv, Sound, VerdictHasReport, OnFile
  <2>7. HasLatest' /\ FiledSound'
    BY <2>1, <2>2 DEF HasLatest, FiledSound, OnFile
  <2>8. CycleSound'
    BY <1>2 DEF CycleSound, Idle
  <2> QED BY <2>3, <2>6, <2>7, <2>8 DEF Sound
<1>4. CASE verdict # "Unknown"
  <2>1. verdict \in {"Executed", "Failed"}
    BY <1>4, VerdictsObserved DEF Observed
  <2>2. OnFile => Reported(Settled(verdict))
    <3>1. OnFile => verdict = ReceiptVerdict
      BY DEF SeenAfterGap
    <3> QED BY <2>1, <3>1, ReceiptVerdictIsReported DEF IInv, Sound
  <2>3. ResolveAction(verdict, before)
    BY <1>1, <1>4, <2>1
  <2> QED BY <1>1, <1>2, <2>1, <2>2, <2>3, ResolutionKeeps
<1> QED BY <1>3, <1>4

\* A resolution written from what a sweep had read before.
LEMMA ResolveKeeps ==
  ASSUME IInv, Resolve
  PROVE  Sound'
<1>1. PICK verdict \in {"Executed", "Failed"} :
        /\ verdict = cycle.verdict
        /\ OnFile => Reported(Settled(verdict)) \/ assignment # "unknown"
  BY DEF Resolve, IInv, Sound, CycleSound
<1>2. assignment \in {"dispatched", "unknown", "executed", "failed"}
  BY DEF IInv, TypeOK
<1>3. /\ ResolveAction(verdict, assignment) /\ action = "unknown" /\ cycle' = Idle
      /\ UNCHANGED <<learned, claim, event, delivery, reached, work>>
  BY <1>1 DEF Resolve
<1> QED BY <1>1, <1>2, <1>3, ResolutionKeeps

\* A sweep reads what it may rely on.
LEMMA ReadKeeps ==
  ASSUME IInv, ReadGaps \/ ReadReceipts \/ ReadDeliveries
  PROVE  Sound'
<1>1. UNCHANGED <<action, assignment, learned, claim, event, delivery, filed, reached, work>>
  BY DEF ReadGaps, ReadReceipts, ReadDeliveries, Read
<1>2. \A c \in Careful : ClaimSound(c)'
  BY <1>1, SilenceKeepsClaims
<1>3. HasLatest' /\ VerdictHasReport'
  BY <1>1 DEF IInv, Sound, HasLatest, OnFile, Before, VerdictHasReport
<1>4. FiledSound'
  BY <1>1 DEF IInv, Sound, FiledSound, ReportSound
<1>5. ASSUME ReadGaps
      PROVE  CycleSound'
  <2>1. cycle'.sweep = "gaps"
    BY <1>5 DEF ReadGaps, Read
  <2> QED BY <2>1 DEF CycleSound
<1>6. ASSUME ReadReceipts
      PROVE  CycleSound'
  <2>1. PICK verdict \in {"Executed", "Failed"} : verdict = ReceiptVerdict /\ Reported(Settled(verdict))
    BY <1>6, ReceiptVerdictIsReported DEF ReadReceipts, ReceiptCandidate, IInv, Sound
  <2>2. cycle'.sweep = "receipts" /\ cycle'.verdict = verdict
    BY <1>6, <2>1 DEF ReadReceipts, Read
  <2>3. Reported(Settled(verdict))'
    BY <1>1, <2>1 DEF Reported, Settled
  <2> QED BY <2>2, <2>3 DEF CycleSound
<1>7. ASSUME ReadDeliveries
      PROVE  CycleSound'
  <2>1. /\ cycle'.sweep = "deliveries" /\ cycle'.verdict \in {"Executed", "Failed"}
        /\ action = "unknown" /\ ~OnFile
    BY <1>7, VerdictsObserved DEF ReadDeliveries, DeliveryCandidate, Read, Observed
  <2>2. ~OnFile'
    BY <1>1, <2>1 DEF OnFile
  <2> QED BY <1>1, <2>1, <2>2 DEF CycleSound
<1>8. CycleSound'
  BY <1>5, <1>6, <1>7
<1> QED BY <1>2, <1>3, <1>4, <1>8 DEF Sound

-----------------------------------------------------------------------------
(* What the deliveries and the claims keep.                                *)

\* The outbox, whichever event of the action it works on.
LEMMA OutboxKeeps ==
  ASSUME IInv,
         Materialize \/ Conclude \/ Hide \/ \E e \in Executor : Reach(e)
  PROVE  Sound'
<1>1. /\ UNCHANGED <<assignment, learned, claim, cycle, filed, work>>
      /\ action' \in {action, "unknown"} /\ (action = "failed" => action' = "failed")
  BY DEF Materialize, Reach, Conclude, Hide
<1>2. \A c \in Careful : ClaimSound(c)'
  BY <1>1, SilenceKeepsClaims
<1>3. HasLatest' /\ VerdictHasReport'
  BY <1>1 DEF IInv, Sound, HasLatest, OnFile, Before, VerdictHasReport
<1>4. FiledSound'
  <2> SUFFICES ASSUME NEW i \in DOMAIN filed PROVE ReportSound(i)'
    BY <1>1 DEF FiledSound
  <2>1. ReportSound(i)
    BY DEF IInv, Sound, FiledSound
  <2>2. action' # "failed" => action # "failed"
    BY <1>1
  <2> QED BY <1>1, <2>1, <2>2 DEF ReportSound
<1>6. CycleSound'
  <2>1. cycle.sweep = "receipts" =>
          cycle'.verdict \in {"Executed", "Failed"} /\ Reported(Settled(cycle.verdict))'
    BY <1>1 DEF IInv, Sound, CycleSound, Reported, Settled
  <2>2. OnFile' <=> OnFile
    BY <1>1 DEF OnFile
  <2>4. action = "unknown" => action' = "unknown"
    BY <1>1
  <2> QED BY <1>1, <2>1, <2>2, <2>4 DEF IInv, Sound, CycleSound
<1> QED BY <1>2, <1>3, <1>4, <1>6 DEF Sound

\* A later token starts a story of its own, after a reported failure.
LEMMA ClaimKeeps ==
  ASSUME IInv, NEW e \in Executor, ClaimExecution(e)
  PROVE  Sound'
<1>1. /\ UNCHANGED <<action, assignment, learned, event, delivery, cycle, filed, reached>>
      /\ e \in Careful
  BY DEF ClaimExecution
<1>2. HasLatest' /\ VerdictHasReport' /\ CycleSound'
  BY <1>1 DEF IInv, Sound, HasLatest, OnFile, Before, VerdictHasReport, CycleSound,
              Reported, Settled
<1>3. FiledSound'
  BY <1>1 DEF IInv, Sound, FiledSound, ReportSound
<1>4. ASSUME NEW c \in Careful
      PROVE  ClaimSound(c)'
  <2>1. ClaimSound(c) /\ c \in Executor
    BY ReceiptsAssumption DEF IInv, Sound
  <2>2. PICK k \in Token : k = claim[e].token
    BY DEF IInv, TypeOK
  <2>3. \A u, v : Said(c, u, v)' <=> Said(c, u, v)
    BY <1>1 DEF Said
  <2>4. CASE c # e
    <3>1. claim'[c] = claim[c] /\ work'[c] = work[c]
      BY <2>1, <2>4 DEF ClaimExecution, IInv, TypeOK
    <3> QED BY <1>1, <2>1, <2>3, <3>1 DEF ClaimSound
  <2>5. CASE c = e
    <3>1. /\ claim'[c] = [status |-> "claimed", token |-> k + 1]
          /\ work'[c] = [work[c] EXCEPT ![k + 1] = "granted"]
          /\ work[c] \in [Token -> {"none", "granted", "done", "refused"}]
          /\ claim[c].status \in {"none", "failed"}
      BY <2>1, <2>2, <2>5 DEF ClaimExecution, Claimable, IInv, TypeOK
    <3>2. k \in Nat /\ \A u \in Token : u \in Nat
      BY ReceiptsAssumption DEF Token
    <3>3. k # 0 => Said(c, k, "failed")
      BY <2>1, <2>2, <2>5, <3>1 DEF ClaimSound
    <3>4. \A u \in Token \ {0} : u < k + 1 => Said(c, u, "failed")
      BY <2>1, <2>2, <2>5, <3>2, <3>3 DEF ClaimSound
    <3>5. \A i \in DOMAIN filed : filed[i].executor = c =>
            filed[i].token # 0 /\ filed[i].token <= k
      BY <2>1, <2>2, <2>5 DEF ClaimSound
    <3>6. \A i \in DOMAIN filed : filed[i].token \in Nat
      <4>1. \A i \in DOMAIN filed : filed[i] \in Report
        BY DEF IInv, TypeOK
      <4> QED BY <3>2, <4>1 DEF Report
    <3>7. \A v : ~Said(c, k + 1, v)
      BY <3>2, <3>5, <3>6 DEF Said
    <3>8. \A i \in DOMAIN filed' : filed'[i].executor = c =>
            filed'[i].token # 0 /\ filed'[i].token <= k + 1
      BY <1>1, <3>2, <3>5, <3>6
    <3>9. work'[c][0] = "none" /\ \A u \in Token : work'[c][u] # "none" => u <= k + 1
      BY <2>1, <2>2, <2>5, <3>1, <3>2 DEF ClaimSound
    <3>10. claim'[c].status = "claimed" /\ claim'[c].token = k + 1 /\ k + 1 # 0
      BY <3>1, <3>2
    <3>11. \A u \in Token \ {0} : u < k + 1 => Said(c, u, "failed")'
      BY <2>3, <3>4
    <3> QED BY <2>3, <3>7, <3>8, <3>9, <3>10, <3>11 DEF ClaimSound
  <2> QED BY <2>4, <2>5
<1> QED BY <1>2, <1>3, <1>4 DEF Sound

\* Work moves on under a token that was granted.
LEMMA RunKeeps ==
  ASSUME IInv, NEW e \in Executor, NEW t \in Token, Run(e, t)
  PROVE  Sound'
<1>1. UNCHANGED <<action, assignment, learned, claim, event, delivery, cycle, filed, reached>>
  BY DEF Run
<1>2. HasLatest' /\ VerdictHasReport' /\ CycleSound'
  BY <1>1 DEF IInv, Sound, HasLatest, OnFile, Before, VerdictHasReport, CycleSound,
              Reported, Settled
<1>3. FiledSound'
  BY <1>1 DEF IInv, Sound, FiledSound, ReportSound
<1>4. ASSUME NEW c \in Careful
      PROVE  ClaimSound(c)'
  <2>1. ClaimSound(c) /\ c \in Executor /\ 0 \in Token
    BY ReceiptsAssumption DEF IInv, Sound, Token
  <2>2. \A u \in Token : work'[c][u] # "none" => work[c][u] # "none"
    BY <2>1 DEF Run, IInv, TypeOK
  <2> QED BY <1>1, <2>1, <2>2 DEF ClaimSound, Said
<1> QED BY <1>2, <1>3, <1>4 DEF Sound

\* A rolled back sweep, and a step of nobody.
LEMMA NothingKeeps ==
  ASSUME IInv, Abandon \/ UNCHANGED vars
  PROVE  Sound'
<1>1. /\ UNCHANGED <<action, assignment, learned, claim, event, delivery, filed, reached, work>>
      /\ cycle' = Idle \/ cycle' = cycle
  BY DEF Abandon, vars
<1>2. \A c \in Careful : ClaimSound(c)'
  BY <1>1, SilenceKeepsClaims
<1>3. HasLatest' /\ VerdictHasReport'
  BY <1>1 DEF IInv, Sound, HasLatest, OnFile, Before, VerdictHasReport
<1>4. CycleSound'
  BY <1>1 DEF IInv, Sound, CycleSound, Reported, Settled, OnFile, Idle
<1>5. FiledSound'
  BY <1>1 DEF IInv, Sound, FiledSound, ReportSound
<1> QED BY <1>2, <1>3, <1>4, <1>5 DEF Sound

-----------------------------------------------------------------------------
(* What follows.                                                           *)

\* The first state.
LEMMA InitSound == Init => IInv
<1> SUFFICES ASSUME Init PROVE IInv
  OBVIOUS
<1>1. TypeOK
  <2>1. 0 \in Token
    BY ReceiptsAssumption DEF Token
  <2>2. cycle \in [sweep : {"none", "gaps", "receipts", "deliveries"}, verdict : Observed]
    BY VerdictsObserved DEF Init
  <2>3. filed \in Seq(Report)
    BY DEF Init
  <2>4. claim \in [Executor ->
          [status : {"none", "claimed", "succeeded", "failed"}, token : Token]]
    BY <2>1 DEF Init
  <2>5. work \in [Executor -> [Token -> {"none", "granted", "done", "refused"}]]
    BY DEF Init
  <2> QED BY <2>2, <2>3, <2>4, <2>5 DEF Init, TypeOK, DeliveryStatus
<1>2. filed = << >> /\ DOMAIN filed = {} /\ ~OnFile
  BY DEF Init, OnFile
<1>3. FiledSound /\ HasLatest /\ VerdictHasReport /\ CycleSound
  BY <1>2 DEF Init, FiledSound, HasLatest, VerdictHasReport, CycleSound, Idle, OnFile
<1>4. ASSUME NEW c \in Careful
      PROVE  ClaimSound(c)
  <2>1. c \in Executor /\ 0 \in Token
    BY ReceiptsAssumption DEF Token
  <2>2. claim[c].status = "none" /\ claim[c].token = 0 /\ \A t \in Token : work[c][t] = "none"
    BY <2>1 DEF Init
  <2>3. \A t \in Token : ~(t < 0)
    BY ReceiptsAssumption DEF Token
  <2> QED BY <1>2, <2>1, <2>2, <2>3 DEF ClaimSound, Said
<1> QED BY <1>1, <1>3, <1>4 DEF IInv, Sound

\* Every step.
LEMMA Step == IInv /\ [Next]_vars => IInv'
<1> SUFFICES ASSUME IInv, [Next]_vars PROVE IInv'
  OBVIOUS
<1>1. TypeOK'
  <2>1. CASE Next
    BY <2>1, TypeStep DEF IInv
  <2>2. CASE UNCHANGED vars
    BY <2>2 DEF IInv, TypeOK, vars
  <2> QED BY <2>1, <2>2
<1>2. CASE Materialize \/ Conclude \/ Hide \/ \E e \in Executor : Reach(e)
  BY <1>1, <1>2, OutboxKeeps DEF IInv
<1>3. ASSUME NEW e \in Executor, ClaimExecution(e)
      PROVE  IInv'
  BY <1>1, <1>3, ClaimKeeps DEF IInv
<1>4. ASSUME NEW e \in Executor, NEW t \in Token, Run(e, t)
      PROVE  IInv'
  BY <1>1, <1>4, RunKeeps DEF IInv
<1>5. ASSUME NEW e \in Executor, NEW t \in Token, NEW s \in Verdicts, NEW p \in BOOLEAN,
             NEW at \in Moment, FileReport(e, t, s, p, at)
      PROVE  IInv'
  <2>2. \A c \in Careful : ClaimSound(c)'
    BY <1>5, ReportKeepsClaims
  <2> QED BY <1>1, <1>5, <2>2, ReportKeepsFiled, ReportKeepsCycle DEF IInv, Sound
<1>6. CASE ReadGaps \/ ReadReceipts \/ ReadDeliveries
  BY <1>1, <1>6, ReadKeeps DEF IInv
<1>7. CASE FlagGap \/ Resolve
  BY <1>1, <1>7, FlagGapKeeps, ResolveKeeps DEF IInv
<1>8. CASE Abandon \/ UNCHANGED vars
  BY <1>1, <1>8, NothingKeeps DEF IInv
<1> QED BY <1>2, <1>3, <1>4, <1>5, <1>6, <1>7, <1>8 DEF Next

\* The inductive invariant holds in every reachable state.
THEOREM Invariance == Spec => []IInv
BY InitSound, Step, PTL DEF Spec

\* Rows, reports and sweeps keep their types.
THEOREM TypeCorrect == Spec => []TypeOK
<1>1. IInv => TypeOK
  BY DEF IInv
<1> QED BY <1>1, Invariance, PTL

\* claim_execution fences executions: whatever an executor did under a token,
\* crashed included, it is handed a later one only after a failure was reported
\* under this one.
THEOREM TokensFence == Spec => []LaterRunNeedsFailure
<1>1. IInv => LaterRunNeedsFailure
  <2> SUFFICES ASSUME IInv, NEW e \in Careful, NEW t \in Token \ {0}, NEW u \in Token \ {0},
                      t < u, work[e][u] # "none"
               PROVE  Said(e, t, "failed")
    BY DEF LaterRunNeedsFailure
  <2>1. ClaimSound(e) /\ claim[e].token \in Token
    BY ReceiptsAssumption DEF IInv, Sound, TypeOK
  <2>2. t < claim[e].token
    BY <2>1, ReceiptsAssumption DEF ClaimSound, Token
  <2> QED BY <2>1, <2>2 DEF ClaimSound
<1> QED BY <1>1, Invariance, PTL

\* The claim row of record_execution_report tells what is on file under the
\* newest token; a delayed failure takes no success back.
THEOREM ClaimIsTrue == Spec => []ClaimTellsReports
<1>1. IInv => ClaimTellsReports
  BY DEF IInv, Sound, ClaimSound, ClaimTellsReports
<1> QED BY <1>1, Invariance, PTL

\* No verdict without a report: reconciliation files what it concludes, and a
\* sweep that was overtaken by a report writes nothing the reports do not say.
THEOREM VerdictsAreBacked == Spec => []VerdictHasReport
<1>1. IInv => VerdictHasReport
  BY DEF IInv, Sound
<1> QED BY <1>1, Invariance, PTL

\* The success side effects of record_execution_report are committed with the
\* first success, also when the outbox or a sweep moved the action before.
THEOREM NoSampleLost == Spec => []SuccessIsLearned
<1>1. IInv => SuccessIsLearned
  BY DEF IInv, Sound, FiledSound, ReportSound, SuccessIsLearned
<1> QED BY <1>1, Invariance, PTL

\* No committed cycle leaves an action unknown over a receipt on file: the
\* later sweeps of the transaction that flags a gap see what landed meanwhile.
THEOREM GapsAreReal == Spec => GapIsReal
<1> DEFINE Flags == /\ cycle.sweep = "gaps" /\ cycle' = Idle
                    /\ action = "succeeded" /\ action' = "unknown"
<1>1. IInv /\ Next /\ Flags => ~OnFile'
  <2> SUFFICES ASSUME IInv, Next, Flags PROVE ~OnFile'
    OBVIOUS
  <2>1. cycle # Idle /\ cycle' # cycle /\ action' # action
    BY DEF Idle
  <2>2. FlagGap
    <3>1. ~(Materialize \/ Conclude \/ Hide)
      BY <2>1 DEF Materialize, Conclude, Hide
    <3>2. ~(ReadGaps \/ ReadReceipts \/ ReadDeliveries)
      BY <2>1 DEF ReadGaps, ReadReceipts, ReadDeliveries, Read
    <3>3. ~Resolve /\ ~Abandon
      BY <2>1 DEF Resolve, Abandon
    <3>4. \A e \in Executor : ~Reach(e) /\ ~ClaimExecution(e) /\ \A t \in Token : ~Run(e, t)
      BY <2>1 DEF Reach, ClaimExecution, Run
    <3>5. \A e \in Executor, t \in Token, u \in Verdicts, p \in BOOLEAN, at \in Moment :
            ~FileReport(e, t, u, p, at)
      BY <2>1 DEF FileReport
    <3> QED BY <3>1, <3>2, <3>3, <3>4, <3>5 DEF Next
  <2>3. "Unknown" \in SeenAfterGap /\ filed' = filed
    <3>1. \A v, b : ResolveAction(v, b) => action' # "unknown"
      BY DEF ResolveAction, Settled
    <3> QED BY <2>2, <3>1 DEF FlagGap
  <2>4. OnFile => "Unknown" = ReceiptVerdict
    BY <2>3 DEF SeenAfterGap
  <2>5. ~OnFile
    BY <2>4, ReceiptVerdictIsReported DEF IInv, Sound
  <2> QED BY <2>3, <2>5 DEF OnFile
<1>2. IInv /\ [Next]_vars => [Flags => ~OnFile']_vars
  BY <1>1
<1> QED BY <1>2, Invariance, PTL DEF Spec, GapIsReal

\* A success confirmed with a provider reference outlives the delayed failures
\* of its own executor, reported late or read late by a sweep: the latest report
\* is no failure of an executor that has confirmed before.
THEOREM ConfirmationStands == Spec => ConfirmedStands
<1> DEFINE Stands(e) ==
             /\ action = "succeeded" /\ action' = "failed"
             /\ \E i \in DOMAIN filed : filed[i].proof
             => ~(\A i \in DOMAIN filed' : filed'[i].executor \in {e, Synthesized})
<1>1. ASSUME IInv, Next, NEW e \in Executor
      PROVE  Stands(e)
  <2> SUFFICES ASSUME action = "succeeded", action' = "failed",
                      NEW k \in DOMAIN filed, filed[k].proof,
                      \A i \in DOMAIN filed' : filed'[i].executor \in {e, Synthesized}
               PROVE  FALSE
    OBVIOUS
  <2>1. /\ \A i \in DOMAIN filed : ReportSound(i)
        /\ TypeOK /\ HasLatest /\ OnFile
    <3>1. filed # << >>
      OBVIOUS
    <3> QED BY <1>1, <3>1 DEF IInv, Sound, FiledSound, OnFile
  <2>2. filed[k].status = "succeeded" /\ filed[k].executor # Synthesized
    BY <2>1 DEF ReportSound
  <2>3. ASSUME NEW c \in Executor, NEW t \in Token, NEW s \in Verdicts, NEW p \in BOOLEAN,
               NEW at \in Moment, FileReport(c, t, s, p, at)
        PROVE  FALSE
    <3>1. ~Applies(s)
      BY <2>1, <2>2, ConfirmedDoesNotMove
    <3> QED BY <2>3, <3>1 DEF FileReport
  <2>4. ~Conclude
    BY DEF Conclude
  <2>5. FlagGap
    BY <1>1, <2>3, <2>4 DEF Next, Materialize, Reach, Hide, ClaimExecution, Run, ReadGaps,
                      ReadReceipts, ReadDeliveries, Read, Resolve, Abandon
  <2>6. ReceiptVerdict = "Failed" /\ filed' = filed
    <3>1. SeenAfterGap = {ReceiptVerdict}
      BY <2>1 DEF SeenAfterGap
    <3>2. ReceiptVerdict \in {"Executed", "Failed"}
      BY <2>1, ReceiptVerdictIsReported
    <3>3. \A v, b : ResolveAction(v, b) => action' = Settled(v) /\ filed' = filed
      BY <2>1 DEF ResolveAction
    <3> QED BY <2>5, <3>1, <3>2, <3>3 DEF FlagGap, Settled
  <2>7. PICK last \in DOMAIN filed :
          /\ \A j \in DOMAIN filed \ {last} : Before(j, last)
          /\ filed[last].status = "failed"
          /\ \A j \in DOMAIN filed : Before(j, last) =>
               ~(filed[j].executor = filed[last].executor /\ filed[j].status = "succeeded")
    BY <2>1, <2>6, ReceiptVerdictIs
  <2>8. filed[last].executor # Synthesized
    BY <2>1, <2>7 DEF ReportSound
  <2>9. filed[last].executor = filed[k].executor
    BY <2>2, <2>6, <2>7, <2>8
  <2>10. k # last /\ Before(k, last)
    BY <2>2, <2>7
  <2> QED BY <2>2, <2>7, <2>9, <2>10
<1>2. IInv /\ [Next]_vars => [\A e \in Executor : Stands(e)]_vars
  BY <1>1
<1> QED BY <1>2, Invariance, PTL DEF Spec, ConfirmedStands

=============================================================================
