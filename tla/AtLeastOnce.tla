---------------------------- MODULE AtLeastOnce ----------------------------
(***************************************************************************)
(* What a queue promises about each of its deliveries, without leases,     *)
(* workers or attempts: a delivery is opened once, may be carried out      *)
(* while it is open and - by a request nobody waits for any more - after   *)
(* it was given up, is concluded at most once, and is concluded as         *)
(* delivered only if it was carried out.  The outbox and the push delivery *)
(* implement it (OutboxRefinement, PushRefinement).                        *)
(***************************************************************************)
CONSTANT Item

VARIABLES
  state,    \* state[i]: what the row of i says
  carried   \* carried[i]: the receiver carried i out at least once

State == {"none", "open", "delivered", "dead", "cancelled"}

Init ==
  /\ state = [i \in Item |-> "none"]
  /\ carried = [i \in Item |-> FALSE]

\* One transaction may move several items; each moves by one of these.
Moves(i) ==
  \/ state'[i] = state[i]
  \/ state[i] = "none" /\ state'[i] = "open"
  \/ state[i] = "open" /\ state'[i] \in {"dead", "cancelled"}
  \/ state[i] = "open" /\ carried[i] /\ state'[i] = "delivered"

CarryOut(i) ==
  /\ state[i] # "none"
  /\ carried' = [carried EXCEPT ![i] = TRUE]
  /\ UNCHANGED state

Advance ==
  /\ state' \in [Item -> State]
  /\ \A i \in Item : Moves(i)
  /\ UNCHANGED carried

Next == Advance \/ \E i \in Item : CarryOut(i)

Spec == Init /\ [][Next]_<<state, carried>>
=============================================================================
