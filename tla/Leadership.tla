----------------------------- MODULE Leadership -----------------------------
(***************************************************************************)
(* The lease that makes one worker process run the background loops, and   *)
(* the hand-over of a blue-green deployment.                               *)
(*                                                                         *)
(* A worker is one process: its id is drawn when it starts and never used  *)
(* again.  Time is abstracted to the flag live of the lease (expires_at    *)
(* lies ahead); it may fall at any step, as it does after an outage of the *)
(* database, a paused process or a drain of more than 60 seconds.  The     *)
(* generation number of the row is only logged and is left out, and with   *)
(* it the statement that reads it.  A statement the database refuses is no *)
(* step: the worker polls again.                                           *)
(***************************************************************************)

CONSTANTS
  Worker,     \* processes, each started at most once
  Nobody      \* the leader_id 'bootstrap' of the migration

ASSUME LeadershipAssumption == Nobody \notin Worker

VARIABLES
  lease,      \* the row of worker_leadership
  state,      \* state[w]: how far the process has come
  renewing,   \* renewing[w]: its renewal task lives
  lapsed,     \* history: w's lease ran out since w last extended it
  stopped,    \* the worker the deployment has told to stop
  verified    \* the deployment found its new leader

deployment == <<stopped, verified>>
vars == <<lease, state, renewing, lapsed, deployment>>

\* The rows keep their columns' types.
TypeOK ==
  /\ lease \in [leader: Worker \cup {Nobody}, live: BOOLEAN]
  /\ state \in [Worker -> {"new", "waiting", "leading", "draining", "down"}]
  /\ renewing \in [Worker -> BOOLEAN]
  /\ lapsed \in [Worker -> BOOLEAN]
  /\ stopped \in Worker \cup {Nobody}
  /\ verified \in BOOLEAN

Init ==
  /\ lease = [leader |-> Nobody, live |-> FALSE]
  /\ state = [w \in Worker |-> "new"]
  /\ renewing = [w \in Worker |-> FALSE]
  /\ lapsed = [w \in Worker |-> FALSE]
  /\ stopped = Nobody
  /\ verified = FALSE

\* The background loops of w run, until the drain of a shutdown is over.
Runs(w) == state[w] \in {"leading", "draining"}

Start(w) ==
  /\ state[w] = "new"
  /\ state' = [state EXCEPT ![w] = "waiting"]
  /\ UNCHANGED <<lease, renewing, lapsed, deployment>>

\* Wrong: the lease of a leader that left without releasing it stays taken.
VacantReleased(w) == lease.leader \in {Nobody, w}

\* Wrong: any candidate takes the lease.
VacantAlways(w) == TRUE

\* The WHERE clause of try_acquire.
Vacant(w) == ~lease.live \/ lease.leader = w

\* acquire_leadership returns; the renewal task is spawned.
Acquire(w) ==
  /\ state[w] = "waiting"
  /\ Vacant(w)
  /\ lease' = [leader |-> w, live |-> TRUE]
  /\ state' = [state EXCEPT ![w] = "leading"]
  /\ renewing' = [renewing EXCEPT ![w] = TRUE]
  /\ lapsed' = [lapsed EXCEPT ![w] = FALSE]
  /\ UNCHANGED deployment

\* The update commits, but its answer is lost or the read of expires_at fails.
AcquireLost(w) ==
  /\ state[w] = "waiting"
  /\ Vacant(w)
  /\ lease' = [leader |-> w, live |-> TRUE]
  /\ UNCHANGED <<state, renewing, lapsed, deployment>>

\* One tick of renew_loop; a tick under way when the shutdown comes is the
\* last.  A leader that finds its lease taken stops renewing, and runs on.
Renew(w) ==
  /\ Runs(w)
  /\ renewing[w]
  /\ IF lease.leader = w
     THEN /\ lease' = [lease EXCEPT !.live = TRUE]
          /\ lapsed' = [lapsed EXCEPT ![w] = FALSE]
     ELSE UNCHANGED <<lease, lapsed>>
  /\ renewing' = [renewing EXCEPT ![w] = state[w] = "leading" /\ lease.leader = w]
  /\ UNCHANGED <<state, deployment>>

Lapse ==
  /\ lease.live
  /\ lease' = [lease EXCEPT !.live = FALSE]
  /\ lapsed' = [lapsed EXCEPT ![lease.leader] = TRUE]
  /\ UNCHANGED <<state, renewing, deployment>>

\* A signal, or a loop that ended unexpectedly.
Shutdown(w) ==
  /\ state[w] = "leading"
  /\ state' = [state EXCEPT ![w] = "draining"]
  /\ UNCHANGED <<lease, renewing, lapsed, deployment>>

\* Wrong: the release expires the lease of whoever holds it.
ReleasedAnyway(w) == [lease EXCEPT !.live = FALSE]

\* Wrong: the release clears the leader's id.
ReleasedBlank(w) ==
  IF lease.leader = w THEN [leader |-> "", live |-> FALSE] ELSE lease

Released(w) == IF lease.leader = w THEN [lease EXCEPT !.live = FALSE] ELSE lease

\* The loops are drained or aborted; the release may fail in the database.
Release(w) ==
  /\ state[w] = "draining"
  /\ state' = [state EXCEPT ![w] = "down"]
  /\ renewing' = [renewing EXCEPT ![w] = FALSE]
  /\ lease' \in {Released(w), lease}
  /\ UNCHANGED <<lapsed, deployment>>

\* The process dies, or "docker stop" kills it after 30 seconds.
Crash(w) ==
  /\ state[w] \notin {"new", "down"}
  /\ state' = [state EXCEPT ![w] = "down"]
  /\ renewing' = [renewing EXCEPT ![w] = FALSE]
  /\ UNCHANGED <<lease, lapsed, deployment>>

\* deploy-bluegreen.sh signals the old worker once a candidate stands by.
Deploy(w) ==
  /\ stopped = Nobody
  /\ state[w] = "leading"
  /\ \E v \in Worker : state[v] = "waiting"
  /\ stopped' = w
  /\ state' = [state EXCEPT ![w] = "draining"]
  /\ UNCHANGED <<lease, renewing, lapsed, verified>>

\* "docker stop" is over, the candidate's container runs, the lease is live.
Verify ==
  /\ stopped # Nobody
  /\ ~verified
  /\ state[stopped] = "down"
  /\ \E v \in Worker : state[v] \in {"waiting", "leading"}
  /\ lease.live
  /\ verified' = TRUE
  /\ UNCHANGED <<lease, state, renewing, lapsed, stopped>>

Process(w) ==
  \/ Start(w) \/ Acquire(w) \/ AcquireLost(w) \/ Renew(w)
  \/ Shutdown(w) \/ Release(w) \/ Crash(w)

Next ==
  \/ \E w \in Worker : Process(w) \/ Deploy(w)
  \/ Verify
  \/ Lapse

Spec == Init /\ [][Next]_vars

-----------------------------------------------------------------------------

\* Two processes run their loops at once only after the lease of one of them
\* ran out while it was running: neither a release, nor a lost answer, nor a
\* slow drain lets a second leader in (try_acquire, renew_loop, release).
OverlapNeedsLapse ==
  \A w, v \in Worker :
    w # v /\ Runs(w) /\ Runs(v) => lapsed[w] \/ lapsed[v]
=============================================================================
