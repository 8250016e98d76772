----------------------------- MODULE MCInventory -----------------------------
EXTENDS Inventory, TLC

CONSTANTS s1, s2, o1, o2, c1, k1, m1, p1, p2

MCSku == {s1, s2}
MCByName == s1 :> 1 @@ s2 :> 2
MCById == s1 :> 2 @@ s2 :> 1
MCWants == (o1 :> (s1 :> 2 @@ s2 :> 1)) @@ (o2 :> (s1 :> 2 @@ s2 :> 1))
MCPrize == c1 :> [sku |-> s1, winners |-> 2, units |-> 1]
MCTarget == k1 :> (s1 :> 2 @@ s2 :> 0)
MCSession == {p1, p2}
MCOrder == {o1, o2}
MCSymmetry == Permutations(MCSession) \cup Permutations(MCOrder)
MCMove == m1 :> [sku |-> s1, delta |-> -2]
==============================================================================
