--------------------------- MODULE LifecycleDocs ---------------------------
(***************************************************************************)
(* What comments of the repository say of actions and the code does not    *)
(* do.                                                                     *)
(***************************************************************************)
EXTENDS LifecycleLiveness

\* prepare_beacon_ask, of an ask emitted but not delivered: "preparing it for
\* a human send is the correction - never a second send".
NeverSecondSend == \A a \in Action : ~(mailed[a] /\ carried[a])

\* Gated actions get their turn like the others.
FairSpec == LiveSpec /\ \A a \in Gated : RowFairness(a)

\* park_gated_actions, of a stale attempt whose capability is gone: "The
\* stale-recovery sweep will reap it after `attempt_count` reaches 5".
PassedOverIsReaped == \A a \in Action : []<>~PassedOver(a)
=============================================================================
