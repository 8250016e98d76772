--------------------------- MODULE PushRefinement ---------------------------
(***************************************************************************)
(* PushDelivery implements AtLeastOnce.  An item of the abstraction is a   *)
(* delivery row together with how often an operator asked for it again: a  *)
(* retry opens a new item, and the one before it stays given up.           *)
(***************************************************************************)
EXTENDS PushDelivery

Asking == Device \X (0..MaxAsked)

\* An ending by the fan's preference is final, for operators too.
StateOf(d, n) ==
  CASE n > asked[d] \/ row[d].status = "none"             -> "none"
    [] n = asked[d] /\ row[d].status \in Open             -> "open"
    [] n = asked[d] /\ row[d].status = "delivered"        -> "delivered"
    [] n = asked[d] /\ row[d].muted                       -> "cancelled"
    [] OTHER                                              -> "dead"

\* some push of this asking was displayed
Displayed(d, n) == \E p \in shown : p.device = d /\ p.asked = n

Promise == INSTANCE AtLeastOnce
             WITH Item <- Asking,
                  state <- [i \in Asking |-> StateOf(i[1], i[2])],
                  carried <- [i \in Asking |-> Displayed(i[1], i[2])]

\* Whatever workers are lost and however late answers and acknowledgements
\* come: each asking is concluded once, as delivered only if the device
\* displayed a push of this asking and never after it was given up, and what
\* the fan's preference ended stays ended (provider_accepted, terminal,
\* maintain, the acknowledgement and the retry of ops/handlers.rs).
PushKeepsPromise == Promise!Spec
=============================================================================
