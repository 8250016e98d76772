-------------------------- MODULE LeadershipProofs --------------------------
(***************************************************************************)
(* The overlap of two leaders, for any number of workers.  The invariant:  *)
(* a running worker whose lease has not run out since it last extended it  *)
(* still holds a live lease.  Two such workers would hold the same row.    *)
(***************************************************************************)
EXTENDS Leadership, TLAPS

LeaseHeld(w) == Runs(w) /\ ~lapsed[w] => lease.live /\ lease.leader = w

IInv == TypeOK /\ \A w \in Worker : LeaseHeld(w)

\* The migration's row and processes not yet started.
LEMMA InitIInv == Init => IInv
<1>. SUFFICES ASSUME Init PROVE IInv
  OBVIOUS
<1>1. lease \in [leader: Worker \cup {Nobody}, live: BOOLEAN]
  BY DEF Init
<1>2. renewing \in [Worker -> BOOLEAN] /\ lapsed \in [Worker -> BOOLEAN]
  BY DEF Init
<1>3. state \in [Worker -> {"new", "waiting", "leading", "draining", "down"}]
  BY DEF Init
<1>4. ASSUME NEW w \in Worker PROVE ~Runs(w)
  BY DEF Init, Runs
<1>5. stopped \in Worker \cup {Nobody} /\ verified \in BOOLEAN
  BY DEF Init
<1>. QED
  BY <1>1, <1>2, <1>3, <1>4, <1>5 DEF IInv, TypeOK, LeaseHeld

\* A step of one process keeps the invariant.
LEMMA ProcessIInv ==
  ASSUME IInv, NEW w \in Worker, Process(w) \/ Deploy(w)
  PROVE  IInv'
<1>. USE LeadershipAssumption DEF IInv, TypeOK, LeaseHeld, Runs, deployment
<1>1. CASE Start(w)
  BY <1>1 DEF Start
<1>2. CASE Acquire(w)
  BY <1>2 DEF Acquire, Vacant
<1>3. CASE AcquireLost(w)
  BY <1>3 DEF AcquireLost, Vacant
<1>4. CASE Renew(w)
  BY <1>4 DEF Renew
<1>5. CASE Shutdown(w)
  BY <1>5 DEF Shutdown
<1>6. CASE Release(w)
  BY <1>6 DEF Release, Released
<1>7. CASE Crash(w)
  BY <1>7 DEF Crash
<1>8. CASE Deploy(w)
  BY <1>8 DEF Deploy
<1>. QED
  BY <1>1, <1>2, <1>3, <1>4, <1>5, <1>6, <1>7, <1>8 DEF Process

\* So does the verification of a deployment, the end of a lease and a stutter.
LEMMA OtherIInv ==
  ASSUME IInv, Verify \/ Lapse \/ UNCHANGED vars
  PROVE  IInv'
<1>. USE LeadershipAssumption DEF IInv, TypeOK, LeaseHeld, Runs, deployment
<1>1. CASE Verify
  BY <1>1 DEF Verify
<1>2. CASE Lapse
  <2>1. TypeOK'
    BY <1>2 DEF Lapse
  <2>2. ASSUME NEW w \in Worker PROVE LeaseHeld(w)'
    BY <1>2 DEF Lapse
  <2>. QED
    BY <2>1, <2>2
<1>3. CASE UNCHANGED vars
  BY <1>3 DEF vars
<1>. QED
  BY <1>1, <1>2, <1>3

\* The inductive invariant holds in every reachable state.
THEOREM Invariance == Spec => []IInv
<1>1. IInv /\ [Next]_vars => IInv'
  BY ProcessIInv, OtherIInv DEF Next
<1>. QED
  BY InitIInv, <1>1, PTL DEF Spec

\* The lease row and the processes keep their types.
THEOREM TypeCorrect == Spec => []TypeOK
<1>1. IInv => TypeOK
  BY DEF IInv
<1>. QED
  BY Invariance, <1>1, PTL

\* Two generations of the worker overlap only after a lease ran out while its
\* leader was running: no release, lost answer or slow drain is enough.
THEOREM OverlapOnlyByLapse == Spec => []OverlapNeedsLapse
<1>1. IInv => OverlapNeedsLapse
  BY DEF IInv, LeaseHeld, OverlapNeedsLapse
<1>. QED
  BY Invariance, <1>1, PTL
=============================================================================
