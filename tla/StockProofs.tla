----------------------------- MODULE StockProofs -----------------------------
(***************************************************************************)
(* Proofs about Inventory: what the shop has promised beyond what it owns  *)
(* is accounted for, and every row and every sum has its type.             *)
(*                                                                         *)
(* Stock and reservations are sums over the rows of a table, and a step    *)
(* adds rows or changes one.  The first part shows that a sum over a       *)
(* finite set is the one its definition suggests: it exists, it depends on *)
(* the summands only, and any one of them can be taken out first.  The     *)
(* induction is over the subsets of a finite set, on a set of those that   *)
(* are right already instead of on a property of them.                     *)
(*                                                                         *)
(* ShortageAccounted is not inductive: a request decides on sums it read   *)
(* before its lock was granted and writes later.  StockInv adds what it    *)
(* knows meanwhile: what it has locked it has read, what it read affords   *)
(* what it wants, and the key it will file its rows under is still free.   *)
(***************************************************************************)
EXTENDS InventoryProofs

\* A set of numbers that has 0 and with each number the next has them all.
LEMMA NatSetInduction ==
  ASSUME NEW P, 0 \in P, \A n \in Nat : n \in P => n + 1 \in P
  PROVE  Nat \subseteq P
<1> SUFFICES ASSUME NEW m \in Nat \ P PROVE FALSE
  OBVIOUS
<1>1. PICK least \in Nat \ P : \A n \in Nat \ P : least <= n
  <2>1. Nat \ P \subseteq Nat /\ Nat \ P # {}
    OBVIOUS
  <2> QED BY <2>1, Least
<1>2. least \in Nat /\ least # 0
  OBVIOUS
<1>3. least - 1 \in Nat /\ (least - 1) + 1 = least /\ ~(least <= least - 1)
  BY <1>2
<1>4. least - 1 \in P
  BY <1>1, <1>3
<1> QED BY <1>3, <1>4

-----------------------------------------------------------------------------
(* Sums over a finite set.                                                 *)

\* One unfolding of the sum of f over s, when g has the sums of the smaller sets.
Unfolded(f, g, s) ==
  IF s = {} THEN 0 ELSE LET x == CHOOSE x \in s : TRUE IN f[x] + g[s \ {x}]

IsSum(f, g, S) == g = [s \in SUBSET S |-> Unfolded(f, g, s)]

LEMMA SumIsChosen ==
  ASSUME NEW f, NEW S
  PROVE  SumFunctionOnSet(f, S) = (CHOOSE g : IsSum(f, g, S))[S]
BY DEF SumFunctionOnSet, FoldFunctionOnSet, MapThenFoldSet, IsSum, Unfolded

\* A subset of a finite set has a size, and one less without an element.
LEMMA SizeFacts ==
  ASSUME NEW S, IsFiniteSet(S), NEW s \in SUBSET S
  PROVE  /\ IsFiniteSet(s) /\ Cardinality(s) \in Nat
         /\ Cardinality(s) = 0 <=> s = {}
         /\ \A x \in s : /\ s \ {x} \in SUBSET S
                         /\ Cardinality(s \ {x}) = Cardinality(s) - 1
<1>1. IsFiniteSet(s)
  BY FS_Subset
<1>2. Cardinality(s) \in Nat /\ (Cardinality(s) = 0 <=> s = {})
  BY <1>1, FS_CardinalityType, FS_EmptySet
<1>3. \A x \in s : Cardinality(s \ {x}) = Cardinality(s) - 1
  BY <1>1, FS_RemoveElement
<1> QED BY <1>1, <1>2, <1>3

\* What holds of a set whenever it holds of the set without any one element
\* holds of every subset of a finite set.
LEMMA SubsetInduction ==
  ASSUME NEW S, IsFiniteSet(S), NEW P,
         \A s \in SUBSET S : (\A x \in s : s \ {x} \in P) => s \in P
  PROVE  SUBSET S \subseteq P
<1> DEFINE Sizes == {n \in Nat : \A s \in SUBSET S : Cardinality(s) = n => s \in P}
<1>1. 0 \in Sizes
  BY SizeFacts
<1>2. ASSUME NEW n \in Nat, n \in Sizes PROVE n + 1 \in Sizes
  <2>1. ASSUME NEW s \in SUBSET S, Cardinality(s) = n + 1 PROVE s \in P
    <3>1. ASSUME NEW x \in s PROVE s \ {x} \in P
      <4>1. s \ {x} \in SUBSET S /\ Cardinality(s \ {x}) = n
        BY <2>1, SizeFacts
      <4> QED BY <1>2, <4>1
    <3> QED BY <3>1
  <2> QED BY <2>1
<1>3. Nat \subseteq Sizes
  <2> HIDE DEF Sizes
  <2> QED BY <1>1, <1>2, NatSetInduction
<1>4. \A s \in SUBSET S : Cardinality(s) \in Nat
  BY SizeFacts
<1> QED BY <1>3, <1>4

\* The unfolding looks at g only on smaller sets.
LEMMA UnfoldedBelow ==
  ASSUME NEW f, NEW g, NEW h, NEW s,
         \A x \in s : g[s \ {x}] = h[s \ {x}]
  PROVE  Unfolded(f, g, s) = Unfolded(f, h, s)
<1> DEFINE x == CHOOSE x \in s : TRUE
<1>1. s # {} => x \in s
  OBVIOUS
<1> HIDE DEF x
<1>2. s # {} => g[s \ {x}] = h[s \ {x}]
  BY <1>1
<1>3. \A k : Unfolded(f, k, s) = IF s = {} THEN 0 ELSE f[x] + k[s \ {x}]
  BY DEF Unfolded, x
<1> QED BY <1>2, <1>3

\* There is a function with the sums.
LEMMA SumExists ==
  ASSUME NEW f, NEW S, IsFiniteSet(S)
  PROVE  \E g : IsSum(f, g, S)
<1> DEFINE UpTo(n) == {s \in SUBSET S : Cardinality(s) <= n}
           P == {n \in Nat : \E g : \A s \in UpTo(n) : g[s] = Unfolded(f, g, s)}
<1>1. 0 \in P
  <2> DEFINE g == [s \in SUBSET S |-> 0]
  <2>1. \A s \in UpTo(0) : s = {} /\ g[s] = 0
    BY SizeFacts
  <2>2. \A s \in UpTo(0) : g[s] = Unfolded(f, g, s)
    BY <2>1 DEF Unfolded
  <2> HIDE DEF g
  <2> QED BY <2>2
<1>2. ASSUME NEW n \in Nat, n \in P PROVE n + 1 \in P
  <2>1. PICK g : \A s \in UpTo(n) : g[s] = Unfolded(f, g, s)
    BY <1>2
  <2> DEFINE h == [s \in SUBSET S |-> IF s \in UpTo(n) THEN g[s] ELSE Unfolded(f, g, s)]
  <2>2. \A s \in SUBSET S : h[s] = Unfolded(f, g, s)
    BY <2>1
  <2>3. \A s \in UpTo(n) : h[s] = g[s]
    OBVIOUS
  <2> HIDE DEF h
  <2>4. ASSUME NEW s \in UpTo(n + 1) PROVE h[s] = Unfolded(f, h, s)
    <3>1. ASSUME NEW x \in s PROVE s \ {x} \in UpTo(n)
      BY <3>1, SizeFacts
    <3>2. Unfolded(f, h, s) = Unfolded(f, g, s)
      BY <2>3, <3>1, UnfoldedBelow
    <3> QED BY <2>2, <3>2
  <2>5. \E g_ : \A s \in UpTo(n + 1) : g_[s] = Unfolded(f, g_, s)
    BY <2>4
  <2> HIDE DEF UpTo
  <2> QED BY <2>5
<1>3. PICK g : \A s \in UpTo(Cardinality(S)) : g[s] = Unfolded(f, g, s)
  <2>1. Cardinality(S) \in Nat
    BY FS_CardinalityType
  <2>2. Cardinality(S) \in P
    <3> HIDE DEF P
    <3> QED BY <1>1, <1>2, <2>1, NatSetInduction
  <2> QED BY <2>2
<1>4. \A s \in SUBSET S : s \in UpTo(Cardinality(S))
  BY FS_Subset
<1> DEFINE h == [s \in SUBSET S |-> g[s]]
<1>5. \A s \in SUBSET S : h[s] = Unfolded(f, h, s)
  <2>1. ASSUME NEW s \in SUBSET S PROVE Unfolded(f, h, s) = Unfolded(f, g, s)
    <3>1. \A x \in s : h[s \ {x}] = g[s \ {x}]
      OBVIOUS
    <3> HIDE DEF h
    <3> QED BY <3>1, UnfoldedBelow
  <2>2. \A s \in SUBSET S : h[s] = g[s]
    OBVIOUS
  <2> HIDE DEF h
  <2> QED BY <1>3, <1>4, <2>1, <2>2
<1>6. IsSum(f, h, S)
  <2>1. h = [s \in SUBSET S |-> h[s]]
    OBVIOUS
  <2> HIDE DEF h
  <2>2. [s \in SUBSET S |-> h[s]] = [s \in SUBSET S |-> Unfolded(f, h, s)]
    BY <1>5
  <2> QED BY <2>1, <2>2 DEF IsSum
<1> HIDE DEF h
<1> QED BY <1>6

\* Two such functions agree where they are both defined.
LEMMA SumsAgree ==
  ASSUME NEW f, NEW S, IsFiniteSet(S), NEW T \in SUBSET S,
         NEW g, IsSum(f, g, S), NEW h, IsSum(f, h, T)
  PROVE  \A s \in SUBSET T : g[s] = h[s]
<1> DEFINE P == {s \in SUBSET T : g[s] = h[s]}
<1>1. ASSUME NEW s \in SUBSET T, \A x \in s : s \ {x} \in P PROVE s \in P
  <2>1. g[s] = Unfolded(f, g, s) /\ h[s] = Unfolded(f, h, s)
    BY DEF IsSum
  <2>2. Unfolded(f, g, s) = Unfolded(f, h, s)
    BY <1>1, UnfoldedBelow
  <2> QED BY <2>1, <2>2
<1>2. IsFiniteSet(T)
  BY FS_Subset
<1>3. SUBSET T \subseteq P
  <2> HIDE DEF P
  <2> QED BY <1>1, <1>2, SubsetInduction
<1> QED BY <1>3

\* The sum unfolds.
LEMMA SumUnfolds ==
  ASSUME NEW f, NEW S, IsFiniteSet(S)
  PROVE  /\ SumFunctionOnSet(f, {}) = 0
         /\ S # {} => \E x \in S : SumFunctionOnSet(f, S) = f[x] + SumFunctionOnSet(f, S \ {x})
<1>1. ASSUME NEW T \in SUBSET S
      PROVE  \A g : IsSum(f, g, S) => SumFunctionOnSet(f, T) = g[T]
  <2>1. IsFiniteSet(T)
    BY FS_Subset
  <2> DEFINE chosen == CHOOSE h : IsSum(f, h, T)
  <2>2. IsSum(f, chosen, T)
    BY <2>1, SumExists
  <2>3. SumFunctionOnSet(f, T) = chosen[T]
    BY SumIsChosen
  <2> HIDE DEF chosen
  <2>4. ASSUME NEW g, IsSum(f, g, S) PROVE chosen[T] = g[T]
    BY <2>2, <2>4, SumsAgree
  <2> QED BY <2>3, <2>4
<1>2. PICK g : IsSum(f, g, S)
  BY SumExists
<1>3. SumFunctionOnSet(f, {}) = 0
  <2>1. SumFunctionOnSet(f, {}) = g[{}]
    BY <1>1, <1>2
  <2>2. g[{}] = Unfolded(f, g, {})
    BY <1>2 DEF IsSum
  <2> QED BY <2>1, <2>2 DEF Unfolded
<1>4. ASSUME S # {} PROVE \E x \in S : SumFunctionOnSet(f, S) = f[x] + SumFunctionOnSet(f, S \ {x})
  <2>1. g[S] = Unfolded(f, g, S)
    BY <1>2 DEF IsSum
  <2>2. PICK x \in S : Unfolded(f, g, S) = f[x] + g[S \ {x}]
    BY <1>4 DEF Unfolded
  <2>3. SumFunctionOnSet(f, S \ {x}) = g[S \ {x}] /\ SumFunctionOnSet(f, S) = g[S]
    BY <1>1, <1>2
  <2> QED BY <2>1, <2>2, <2>3
<1> QED BY <1>3, <1>4

\* A sum of whole numbers is one, and a sum of natural numbers is one.
LEMMA SumTyped ==
  ASSUME NEW f, NEW S, IsFiniteSet(S), NEW N \in {Nat, Int}, \A x \in S : f[x] \in N
  PROVE  SumFunctionOnSet(f, S) \in N
<1> DEFINE P == {s \in SUBSET S : SumFunctionOnSet(f, s) \in N}
<1>1. ASSUME NEW s \in SUBSET S, \A x \in s : s \ {x} \in P PROVE s \in P
  <2>1. IsFiniteSet(s)
    BY FS_Subset
  <2>2. CASE s = {}
    <3>1. SumFunctionOnSet(f, s) = 0
      BY <2>1, <2>2, SumUnfolds
    <3> QED BY <3>1
  <2>3. CASE s # {}
    <3>1. PICK x \in s : SumFunctionOnSet(f, s) = f[x] + SumFunctionOnSet(f, s \ {x})
      BY <2>1, <2>3, SumUnfolds
    <3>2. SumFunctionOnSet(f, s \ {x}) \in N
      BY <1>1
    <3> QED BY <3>1, <3>2
  <2> QED BY <2>2, <2>3
<1>2. SUBSET S \subseteq P
  <2> HIDE DEF P
  <2> QED BY <1>1, SubsetInduction
<1> QED BY <1>2

\* Any element can be taken out of a sum first.
LEMMA SumTakesOut ==
  ASSUME NEW f, NEW S, IsFiniteSet(S), \A x \in S : f[x] \in Int
  PROVE  \A x \in S : SumFunctionOnSet(f, S) = f[x] + SumFunctionOnSet(f, S \ {x})
<1> DEFINE Sum(s) == SumFunctionOnSet(f, s)
           Fine(s) == \A x \in s : Sum(s) = f[x] + Sum(s \ {x})
           P == {s \in SUBSET S : Fine(s)}
<1>1. ASSUME NEW s \in SUBSET S, \A x \in s : s \ {x} \in P, NEW x \in s
      PROVE  Sum(s) = f[x] + Sum(s \ {x})
  <2>1. IsFiniteSet(s)
    BY FS_Subset
  <2>2. PICK first \in s : Sum(s) = f[first] + Sum(s \ {first})
    BY <2>1, SumUnfolds
  <2>3. ASSUME x # first PROVE Sum(s) = f[x] + Sum(s \ {x})
    <3> DEFINE rest == (s \ {x}) \ {first}
    <3>1. (s \ {first}) \ {x} = rest
      OBVIOUS
    <3>2. Sum(s \ {first}) = f[x] + Sum(rest)
      BY <1>1, <2>3, <3>1
    <3>3. Sum(s \ {x}) = f[first] + Sum(rest)
      BY <1>1, <2>3
    <3>4. Sum(rest) \in Int /\ f[x] \in Int /\ f[first] \in Int
      <4>1. IsFiniteSet(rest)
        BY FS_Subset
      <4> QED BY <4>1, SumTyped
    <3> HIDE DEF Sum, rest
    <3> QED BY <2>2, <3>2, <3>3, <3>4
  <2> QED BY <2>2, <2>3
<1>2. \A s \in SUBSET S : (\A x \in s : s \ {x} \in P) => s \in P
  BY <1>1
<1>3. SUBSET S \subseteq P
  <2> HIDE DEF P
  <2> QED BY <1>2, SubsetInduction
<1>4. Fine(S)
  <2> HIDE DEF Fine
  <2> QED BY <1>3
<1> QED BY <1>4

\* A sum depends on the summands only.
LEMMA SumSame ==
  ASSUME NEW f, NEW g, NEW S, IsFiniteSet(S), \A x \in S : f[x] \in Int /\ g[x] = f[x]
  PROVE  SumFunctionOnSet(f, S) = SumFunctionOnSet(g, S)
<1> DEFINE P == {s \in SUBSET S : SumFunctionOnSet(f, s) = SumFunctionOnSet(g, s)}
<1>1. ASSUME NEW s \in SUBSET S, \A x \in s : s \ {x} \in P PROVE s \in P
  <2>1. IsFiniteSet(s)
    BY FS_Subset
  <2>2. CASE s = {}
    BY <2>1, <2>2, SumUnfolds
  <2>3. ASSUME NEW x \in s PROVE s \in P
    <3>1. SumFunctionOnSet(f, s \ {x}) = SumFunctionOnSet(g, s \ {x})
      BY <1>1
    <3>2. SumFunctionOnSet(f, s) = f[x] + SumFunctionOnSet(f, s \ {x})
      BY <2>1, SumTakesOut
    <3>3. SumFunctionOnSet(g, s) = g[x] + SumFunctionOnSet(g, s \ {x})
      BY <2>1, SumTakesOut
    <3> QED BY <3>1, <3>2, <3>3
  <2> QED BY <2>2, <2>3
<1>2. SUBSET S \subseteq P
  <2> HIDE DEF P
  <2> QED BY <1>1, SubsetInduction
<1> QED BY <1>2

\* The value of f at x, counting nothing where f has none.
At(f, x) == IF x \in DOMAIN f THEN f[x] ELSE 0

\* Two sums that differ in one summand.
LEMMA SumDiffers ==
  ASSUME NEW f, NEW g, IsFiniteSet(DOMAIN f), IsFiniteSet(DOMAIN g),
         \A y \in DOMAIN f : f[y] \in Int, \A y \in DOMAIN g : g[y] \in Int,
         NEW x, (DOMAIN f) \ {x} = (DOMAIN g) \ {x},
         \A y \in (DOMAIN f) \ {x} : f[y] = g[y]
  PROVE  SumFunction(g) = SumFunction(f) - At(f, x) + At(g, x)
<1>1. ASSUME NEW h, IsFiniteSet(DOMAIN h), \A y \in DOMAIN h : h[y] \in Int
      PROVE  /\ SumFunction(h) = At(h, x) + SumFunctionOnSet(h, (DOMAIN h) \ {x})
             /\ SumFunctionOnSet(h, (DOMAIN h) \ {x}) \in Int /\ At(h, x) \in Int
  <2>1. IsFiniteSet((DOMAIN h) \ {x})
    BY <1>1, FS_Subset
  <2>2. SumFunctionOnSet(h, (DOMAIN h) \ {x}) \in Int
    BY <1>1, <2>1, SumTyped
  <2>3. CASE x \in DOMAIN h
    BY <1>1, <2>2, <2>3, SumTakesOut DEF At, SumFunction
  <2>4. CASE x \notin DOMAIN h
    <3>1. (DOMAIN h) \ {x} = DOMAIN h
      BY <2>4
    <3> QED BY <2>2, <2>4, <3>1 DEF At, SumFunction
  <2> QED BY <2>2, <2>3, <2>4
<1>2. SumFunctionOnSet(f, (DOMAIN f) \ {x}) = SumFunctionOnSet(g, (DOMAIN f) \ {x})
  <2>1. IsFiniteSet((DOMAIN f) \ {x})
    BY FS_Subset
  <2> QED BY <2>1, SumSame
<1> QED BY <1>1, <1>2

-----------------------------------------------------------------------------
(* The inductive invariant.                                                *)

\* The manual movements on file.
Filed == {c \in Change : HasRow(<<"adjust", c>>)}

\* What a request read of a variant suffices for what it wants of it.
Affords(op, id, s, seen, filed) ==
  /\ op = "reserve" => seen.onHand - seen.reserved >= Wants[id][s]
  /\ op = "campaign" => seen.onHand - seen.reserved >= Prize[id].winners * Prize[id].units
  /\ op = "stocktake" => Target[id][s] >= seen.reserved
  /\ op = "adjust" => \/ id \in filed \/ Move[id].delta >= 0
                      \/ seen.onHand + Move[id].delta >= seen.reserved

\* A request knows what it asks for; what it has locked it has read, and what it
\* read suffices; the orders it has swept were due.
RequestSound(t, overdue, filed, counted) ==
  t = Idle \/
    /\ t.op \in Ops \ {"none"}
    /\ t.op = "reserve" => t.id \in Order
    /\ t.op = "campaign" => t.id \in Campaign
    /\ t.op = "stocktake" => t.id \in Count \ counted
    /\ t.op = "adjust" => t.id \in Change
    /\ t.expiring \subseteq overdue
    /\ \A s \in DOMAIN t.view : s \in Sku /\ t.view[s] \in [onHand : Int, reserved : Nat]
    /\ t.op # "ready" =>
         \A s \in SkusOf(t.op, t.id) \ t.todo :
           s \in DOMAIN t.view /\ (s \notin Unlimited => Affords(t.op, t.id, s, t.view[s], filed))

\* The unique key of the stocktake's header keeps a second one out.
OneStocktake ==
  \A p, q \in Session :
    request[p].op = "stocktake" /\ request[q].op = "stocktake" /\ request[p].id = request[q].id
      => p = q

RequestsSound ==
  OneStocktake /\ \A p \in Session : RequestSound(request[p], due, Filed, taken)

\* A stocktake files its rows once.
LedgerSound ==
  /\ ledger \subseteq Movement /\ IsFiniteSet(ledger)
  /\ \A m \in ledger : m.key[1] = "stocktake" => m.key[2] \in taken

\* Finitely many orders and campaigns were ever placed, and only what was placed
\* falls due.
RowsSound ==
  /\ IsFiniteSet({o \in Order : order[o] # "none"})
  /\ \A o \in due : order[o] # "none"
  /\ IsFiniteSet({c \in Campaign : prize[c].status # "none"})
  /\ draw \in [Campaign -> {"none", "scheduled", "cancelled", "completed"}]
  /\ prize \in [Campaign -> [status : {"none", "active", "released", "committed"}, quantity : Nat]]
  /\ activation \in {"preparing", "ready"}
  /\ taken \subseteq Count
  /\ late \in [Sku -> Nat] /\ stale \in [Sku -> Nat]

StockInv ==
  /\ IInv /\ PrizeInv /\ LocksAscend
  /\ LedgerSound /\ RowsSound /\ RequestsSound
  /\ ShortageAccounted

-----------------------------------------------------------------------------
(* The sums of the shop.                                                   *)

\* The summands of OnHand, and of the two parts of Reserved.
Deltas(s) == [m \in {x \in ledger : x.sku = s} |-> m.delta]
Bought(s) == [o \in {x \in Order : Counts(x) /\ s \in DOMAIN Wants[x]} |-> Wants[o][s]]
Promised(s) == [c \in {x \in Campaign : prize[x].status = "active" /\ Prize[x].sku = s} |->
                  prize[c].quantity]

\* What one order and one campaign hold of a variant.
Holds(o, s) == IF Counts(o) /\ s \in DOMAIN Wants[o] THEN Wants[o][s] ELSE 0
Keeps(c, s) == IF prize[c].status = "active" /\ Prize[c].sku = s THEN prize[c].quantity ELSE 0

\* The sums are of finitely many numbers.
LEMMA Summands ==
  ASSUME LedgerSound, RowsSound, OrderTyped, NEW s \in Sku
  PROVE  /\ IsFiniteSet(DOMAIN Deltas(s)) /\ \A m \in DOMAIN Deltas(s) : Deltas(s)[m] \in Int
         /\ IsFiniteSet(DOMAIN Bought(s)) /\ \A o \in DOMAIN Bought(s) : Bought(s)[o] \in Nat
         /\ IsFiniteSet(DOMAIN Promised(s)) /\ \A c \in DOMAIN Promised(s) : Promised(s)[c] \in Nat
<1>1. IsFiniteSet(DOMAIN Deltas(s))
  BY FS_Subset DEF Deltas, LedgerSound
<1>2. \A m \in DOMAIN Deltas(s) : Deltas(s)[m] \in Int
  BY DEF Deltas, LedgerSound, Movement
<1>3. IsFiniteSet(DOMAIN Bought(s))
  <2>1. DOMAIN Bought(s) \subseteq {o \in Order : order[o] # "none"}
    BY DEF Bought, Counts
  <2> QED BY <2>1, FS_Subset DEF RowsSound
<1>4. \A o \in DOMAIN Bought(s) : Bought(s)[o] \in Nat
  BY InventoryAssumption DEF Bought
<1>5. IsFiniteSet(DOMAIN Promised(s))
  <2>1. DOMAIN Promised(s) \subseteq {c \in Campaign : prize[c].status # "none"}
    BY DEF Promised
  <2> QED BY <2>1, FS_Subset DEF RowsSound
<1>6. \A c \in DOMAIN Promised(s) : Promised(s)[c] \in Nat
  BY DEF Promised, RowsSound
<1> QED BY <1>1, <1>2, <1>3, <1>4, <1>5, <1>6

\* Stock is a number, and what is reserved of it a natural one.
LEMMA SumsTyped ==
  ASSUME LedgerSound, RowsSound, OrderTyped, NEW s \in Sku
  PROVE  /\ OnHand(s) \in Int
         /\ SumFunction(Bought(s)) \in Nat /\ SumFunction(Promised(s)) \in Nat
         /\ Reserved(s) = SumFunction(Bought(s)) + SumFunction(Promised(s))
         /\ Reserved(s) \in Nat /\ Available(s) \in Int
<1>1. OnHand(s) \in Int
  BY Summands, SumTyped DEF OnHand, Deltas, SumFunction
<1>2. SumFunction(Bought(s)) \in Nat /\ SumFunction(Promised(s)) \in Nat
  BY Summands, SumTyped DEF SumFunction
<1>3. Reserved(s) = SumFunction(Bought(s)) + SumFunction(Promised(s))
  BY DEF Reserved, Bought, Promised
<1> QED BY <1>1, <1>2, <1>3 DEF Available

\* A row is filed; one that is there already changes nothing.
LEMMA OnHandGains ==
  ASSUME LedgerSound, RowsSound, OrderTyped, LedgerSound', RowsSound', OrderTyped',
         NEW s \in Sku, NEW m, m.sku = s,
         \A x : (x \in ledger' /\ x.sku = s) <=> ((x \in ledger /\ x.sku = s) \/ x = m)
  PROVE  OnHand(s)' = OnHand(s) + IF m \in ledger THEN 0 ELSE m.delta
<1> DEFINE f == Deltas(s)
           g == Deltas(s)'
<1>1. OnHand(s) = SumFunction(f) /\ OnHand(s)' = SumFunction(g)
  BY DEF OnHand, Deltas
<1>2. (DOMAIN f) \ {m} = (DOMAIN g) \ {m} /\ \A y \in (DOMAIN f) \ {m} : f[y] = g[y]
  BY DEF Deltas
<1>3. At(f, m) = (IF m \in ledger THEN m.delta ELSE 0) /\ At(g, m) = m.delta
  BY DEF At, Deltas
<1>4. /\ IsFiniteSet(DOMAIN f) /\ \A y \in DOMAIN f : f[y] \in Int
      /\ IsFiniteSet(DOMAIN g) /\ \A y \in DOMAIN g : g[y] \in Int
  <2>1. IsFiniteSet(DOMAIN f) /\ \A y \in DOMAIN f : f[y] \in Int
    BY Summands
  <2>2. IsFiniteSet(DOMAIN g)
    BY FS_Subset DEF Deltas, LedgerSound
  <2>3. \A y \in DOMAIN g : g[y] \in Int
    BY DEF Deltas, LedgerSound, Movement
  <2> QED BY <2>1, <2>2, <2>3
<1>5. m.delta \in Int
  <2>1. m \in ledger'
    OBVIOUS
  <2> QED BY <2>1 DEF LedgerSound, Movement
<1> HIDE DEF f, g
<1>6. SumFunction(g) = SumFunction(f) - At(f, m) + At(g, m)
  BY <1>2, <1>4, SumDiffers
<1>7. SumFunction(f) \in Int
  BY <1>1, SumsTyped
<1> QED BY <1>1, <1>3, <1>5, <1>6, <1>7

\* One order's hold changes.
LEMMA BoughtChanges ==
  ASSUME RowsSound, OrderTyped, RowsSound', OrderTyped', LedgerSound,
         NEW s \in Sku, NEW o \in Order, \A x \in Order : x # o => (Counts(x)' <=> Counts(x))
  PROVE  SumFunction(Bought(s)') = SumFunction(Bought(s)) - Holds(o, s) + Holds(o, s)'
<1> DEFINE f == Bought(s)
           g == Bought(s)'
<1>1. (DOMAIN f) \ {o} = (DOMAIN g) \ {o} /\ \A y \in (DOMAIN f) \ {o} : f[y] = g[y]
  BY DEF Bought
<1>2. At(f, o) = Holds(o, s) /\ At(g, o) = Holds(o, s)'
  BY DEF At, Bought, Holds
<1>3. /\ IsFiniteSet(DOMAIN f) /\ \A y \in DOMAIN f : f[y] \in Int
      /\ IsFiniteSet(DOMAIN g) /\ \A y \in DOMAIN g : g[y] \in Int
  <2>1. IsFiniteSet(DOMAIN f) /\ \A y \in DOMAIN f : f[y] \in Int
    BY Summands
  <2>2. DOMAIN g \subseteq {x \in Order : order'[x] # "none"}
    BY DEF Bought, Counts
  <2>3. IsFiniteSet(DOMAIN g)
    BY <2>2, FS_Subset DEF RowsSound
  <2>4. \A y \in DOMAIN g : g[y] \in Int
    BY InventoryAssumption DEF Bought
  <2> QED BY <2>1, <2>3, <2>4
<1> HIDE DEF f, g
<1>4. SumFunction(g) = SumFunction(f) - At(f, o) + At(g, o)
  BY <1>1, <1>3, SumDiffers
<1> QED BY <1>2, <1>4 DEF f, g

\* One campaign's reservation changes.
LEMMA PromisedChanges ==
  ASSUME RowsSound, OrderTyped, RowsSound', LedgerSound,
         NEW s \in Sku, NEW c \in Campaign, \A x \in Campaign : x # c => prize'[x] = prize[x]
  PROVE  SumFunction(Promised(s)') = SumFunction(Promised(s)) - Keeps(c, s) + Keeps(c, s)'
<1> DEFINE f == Promised(s)
           g == Promised(s)'
<1>1. (DOMAIN f) \ {c} = (DOMAIN g) \ {c} /\ \A y \in (DOMAIN f) \ {c} : f[y] = g[y]
  BY DEF Promised
<1>2. At(f, c) = Keeps(c, s) /\ At(g, c) = Keeps(c, s)'
  BY DEF At, Promised, Keeps
<1>3. /\ IsFiniteSet(DOMAIN f) /\ \A y \in DOMAIN f : f[y] \in Int
      /\ IsFiniteSet(DOMAIN g) /\ \A y \in DOMAIN g : g[y] \in Int
  <2>1. IsFiniteSet(DOMAIN f) /\ \A y \in DOMAIN f : f[y] \in Int
    BY Summands
  <2>2. DOMAIN g \subseteq {x \in Campaign : prize'[x].status # "none"}
    BY DEF Promised
  <2>3. IsFiniteSet(DOMAIN g)
    BY <2>2, FS_Subset DEF RowsSound
  <2>4. \A y \in DOMAIN g : g[y] \in Int
    BY DEF Promised, RowsSound
  <2> QED BY <2>1, <2>3, <2>4
<1> HIDE DEF f, g
<1>4. SumFunction(g) = SumFunction(f) - At(f, c) + At(g, c)
  BY <1>1, <1>3, SumDiffers
<1> QED BY <1>2, <1>4 DEF f, g

-----------------------------------------------------------------------------
(* Requests and rows keep their shape.                                     *)

\* What a request knows outlives the steps of others.
LEMMA RequestStays ==
  ASSUME NEW t, NEW overdue, NEW filed, NEW counted,
         RequestSound(t, overdue, filed, counted),
         NEW overdue2, overdue \subseteq overdue2, NEW filed2, filed \subseteq filed2,
         NEW counted2, t.op = "stocktake" => t.id \notin counted2
  PROVE  RequestSound(t, overdue2, filed2, counted2)
<1>1. ASSUME NEW op, NEW id, NEW s, NEW seen, Affords(op, id, s, seen, filed)
      PROVE  Affords(op, id, s, seen, filed2)
  BY <1>1 DEF Affords
<1> QED BY <1>1 DEF RequestSound

\* A row that was filed stays.
LEMMA FiledGrows ==
  ASSUME ledger \subseteq ledger'
  PROVE  Filed \subseteq Filed'
BY DEF Filed, HasRow

\* No request names a stocktake that is taken.
LEMMA Untaken ==
  ASSUME StockInv, NEW q \in Session, request[q].op = "stocktake"
  PROVE  request[q].id \in Count \ taken
BY DEF StockInv, RequestsSound, RequestSound, Idle

\* No stocktake in flight is taken, and a new one is of another key.
Alone(p, new) ==
  \A q \in Session : q # p /\ request[q].op = "stocktake" =>
    /\ request[q].id \notin taken'
    /\ new.op = "stocktake" => new.id # request[q].id

\* One request moves on.
LEMMA RequestMoves ==
  ASSUME StockInv, NEW p \in Session, NEW new, request' = [request EXCEPT ![p] = new],
         RequestSound(new, due', Filed', taken'), due \subseteq due', ledger \subseteq ledger',
         Alone(p, new)
  PROVE  RequestsSound'
<1>1. /\ DOMAIN request = Session /\ OneStocktake
      /\ \A q \in Session : RequestSound(request[q], due, Filed, taken)
  BY DEF StockInv, LocksAscend, RequestsSound
<1>2. request'[p] = new /\ \A q \in Session : q # p => request'[q] = request[q]
  BY <1>1
<1>3. ASSUME NEW q \in Session PROVE RequestSound(request'[q], due', Filed', taken')
  <2>1. CASE q = p
    BY <1>2, <2>1
  <2>2. CASE q # p
    <3>1. RequestSound(request[q], due', Filed', taken')
      BY <1>1, <2>2, RequestStays, FiledGrows DEF Alone
    <3> QED BY <1>2, <2>2, <3>1
  <2> QED BY <2>1, <2>2
<1>4. OneStocktake'
  BY <1>1, <1>2 DEF OneStocktake, Alone
<1> QED BY <1>3, <1>4 DEF RequestsSound

\* A request ends.
LEMMA RequestEnds ==
  ASSUME StockInv, NEW p \in Session, Done(p), due \subseteq due', ledger \subseteq ledger',
         \A q \in Session : q # p /\ request[q].op = "stocktake" => request[q].id \notin taken'
  PROVE  RequestsSound'
<1>1. RequestSound(Idle, due', Filed', taken') /\ Idle.op = "none"
  BY DEF RequestSound, Idle
<1>2. request' = [request EXCEPT ![p] = Idle]
  BY DEF Done
<1> HIDE DEF Idle
<1>3. Alone(p, Idle)
  BY <1>1 DEF Alone
<1> QED BY <1>1, <1>2, <1>3, RequestMoves

\* No request moves.
LEMMA RequestsStay ==
  ASSUME StockInv, request' = request, taken' = taken, due \subseteq due', ledger \subseteq ledger'
  PROVE  RequestsSound'
<1>1. ASSUME NEW q \in Session PROVE RequestSound(request[q], due', Filed', taken')
  <2>1. RequestSound(request[q], due, Filed, taken)
    BY DEF StockInv, RequestsSound
  <2> QED BY <2>1, RequestStays, FiledGrows, Untaken
<1> QED BY <1>1 DEF RequestsSound, OneStocktake, StockInv

\* A request begins with what it asks for.
LEMMA RequestBegins ==
  ASSUME StockInv, NEW p \in Session,
         BeginReserve(p) \/ BeginCampaign(p) \/ BeginStocktake(p) \/ BeginAdjust(p) \/ BeginReady(p)
  PROVE  RequestsSound'
<1>1. PICK op, id :
        /\ op \in Ops \ {"none"} /\ Begin(p, op, id)
        /\ op = "reserve" => id \in Order
        /\ op = "campaign" => id \in Campaign
        /\ op = "adjust" => id \in Change
        /\ op = "stocktake" =>
             /\ id \in Count \ taken
             /\ ~\E q \in Session : request[q].op = "stocktake" /\ request[q].id = id
  <2>1. CASE BeginReserve(p)
    BY <2>1 DEF BeginReserve, Ops
  <2>2. CASE BeginCampaign(p)
    BY <2>2 DEF BeginCampaign, Ops
  <2>3. CASE BeginStocktake(p)
    BY <2>3 DEF BeginStocktake, Ops
  <2>4. CASE BeginAdjust(p)
    BY <2>4 DEF BeginAdjust, Ops
  <2>5. CASE BeginReady(p)
    BY <2>5 DEF BeginReady, Ops
  <2> QED BY <2>1, <2>2, <2>3, <2>4, <2>5
<1>2. PICK new :
        /\ new = [op |-> op, id |-> id, todo |-> SkusOf(op, id), view |-> <<>>,
                  expiring |-> IF op = "reserve" THEN DueOrders ELSE {}]
        /\ request' = [request EXCEPT ![p] = new]
  BY <1>1 DEF Begin
<1>3. UNCHANGED <<due, ledger, taken>>
  BY <1>1 DEF Begin, shop
<1>4. /\ new.op = op /\ new.id = id /\ new.todo = SkusOf(op, id) /\ DOMAIN new.view = {}
      /\ new.expiring \subseteq due
  BY <1>2 DEF DueOrders
<1>5. RequestSound(new, due', Filed', taken')
  BY <1>1, <1>3, <1>4 DEF RequestSound
<1>6. Alone(p, new)
  BY <1>1, <1>3, <1>4, Untaken DEF Alone
<1> QED BY <1>2, <1>3, <1>5, <1>6, RequestMoves

\* The lock statement's snapshot is of numbers.
LEMMA RequestReads ==
  ASSUME StockInv, NEW p \in Session, Read(p)
  PROVE  RequestsSound'
<1> DEFINE t == request[p]
           s == Upcoming(t)
           sums == [onHand |-> OnHand(s), reserved |-> Reserved(s)]
           view == [x \in DOMAIN t.view \cup {s} |-> IF x = s THEN sums ELSE t.view[x]]
           new == [t EXCEPT !.view = view]
<1>1. /\ t.op \notin {"none", "ready"} /\ t.todo # {} /\ s \notin DOMAIN t.view
      /\ UNCHANGED <<ledger, due, taken>>
  BY DEF Read, shop
<1>2. request' = [request EXCEPT ![p] = new]
  BY DEF Read
<1>3. Ascends(t) /\ RequestSound(t, due, Filed, taken) /\ t # Idle
  BY <1>1 DEF StockInv, LocksAscend, RequestsSound, Idle
<1>4. s \in Sku /\ s \in t.todo
  BY <1>1, <1>3, UpcomingIsFirst DEF Ascends
<1>5. sums \in [onHand : Int, reserved : Nat]
  BY <1>4, SumsTyped DEF StockInv, IInv
<1>6. /\ DOMAIN view = DOMAIN t.view \cup {s} /\ view[s] = sums
      /\ \A x \in DOMAIN t.view : view[x] = t.view[x]
  BY <1>1
<1>7. /\ new.op = t.op /\ new.id = t.id /\ new.todo = t.todo /\ new.view = view
      /\ new.expiring = t.expiring
  BY <1>1, <1>3 DEF Ascends
<1> HIDE DEF new, view, sums, s
<1>8. \A x \in DOMAIN new.view : x \in Sku /\ new.view[x] \in [onHand : Int, reserved : Nat]
  BY <1>3, <1>4, <1>5, <1>6, <1>7 DEF RequestSound
<1>9. \A x \in SkusOf(new.op, new.id) \ new.todo :
        /\ x \in DOMAIN new.view
        /\ x \notin Unlimited => Affords(new.op, new.id, x, new.view[x], Filed)
  BY <1>1, <1>3, <1>6, <1>7 DEF RequestSound
<1>10. RequestSound(new, due, Filed, taken)
  BY <1>3, <1>7, <1>8, <1>9 DEF RequestSound
<1>11. new.op = "stocktake" => new.id \notin taken'
  BY <1>1, <1>7, Untaken
<1>12. RequestSound(new, due', Filed', taken')
  BY <1>1, <1>10, <1>11, RequestStays, FiledGrows
<1>13. Alone(p, new)
  BY <1>1, <1>7, Untaken DEF StockInv, RequestsSound, OneStocktake, Alone
<1> QED BY <1>1, <1>2, <1>12, <1>13, RequestMoves

\* A request that is not refused can afford what it wants.
LEMMA Unrefused ==
  ASSUME NEW op \in Ops \ {"none", "ready"}, NEW id, NEW s \in Sku \ Unlimited, NEW seen,
         ~Refuses(op, id, s, seen), seen \in [onHand : Int, reserved : Nat],
         s \in SkusOf(op, id), op = "reserve" => id \in Order, op = "campaign" => id \in Campaign,
         op = "stocktake" => id \in Count, op = "adjust" => id \in Change
  PROVE  Affords(op, id, s, seen, Filed)
<1>1. seen.onHand \in Int /\ seen.reserved \in Int
  OBVIOUS
<1>2. CASE op = "reserve"
  <2>1. Wants[id][s] \in Int
    BY <1>2, InventoryAssumption DEF SkusOf
  <2> QED BY <1>1, <1>2, <2>1 DEF Refuses, Affords
<1>3. CASE op = "campaign"
  <2>1. Prize[id].winners * Prize[id].units \in Int
    <3>1. Prize[id].winners \in Int /\ Prize[id].units \in Int
      BY <1>3, InventoryAssumption
    <3> QED BY <3>1
  <2> QED BY <1>1, <1>3, <2>1 DEF Refuses, Affords
<1>4. CASE op = "stocktake"
  <2>1. Target[id][s] \in Int
    BY <1>4, InventoryAssumption DEF SkusOf
  <2> QED BY <1>1, <1>4, <2>1 DEF Refuses, Affords
<1>5. CASE op = "adjust"
  <2>1. Move[id].delta \in Int
    BY <1>5, InventoryAssumption
  <2> QED BY <1>1, <1>5, <2>1 DEF Refuses, Affords, Filed
<1> QED BY <1>2, <1>3, <1>4, <1>5 DEF Ops

\* A granted lock was read and not refused.
LEMMA RequestLocks ==
  ASSUME StockInv, NEW p \in Session, Lock(p)
  PROVE  RequestsSound'
<1> DEFINE t == request[p]
           s == Upcoming(t)
           new == [t EXCEPT !.todo = t.todo \ {s}]
<1>1. /\ t.op # "none" /\ t.todo # {} /\ (t.op = "ready" \/ s \in DOMAIN t.view)
      /\ UNCHANGED <<ledger, due, taken>>
  BY DEF Lock, shop
<1>2. Ascends(t) /\ RequestSound(t, due, Filed, taken) /\ t # Idle
  BY <1>1 DEF StockInv, LocksAscend, RequestsSound, Idle
<1>3. CASE Refuses(t.op, t.id, s, t.view[s])
  <2>1. Done(p)
    BY <1>3 DEF Lock, Done
  <2> QED BY <1>1, <2>1, RequestEnds, Untaken
<1>4. CASE ~Refuses(t.op, t.id, s, t.view[s])
  <2>1. request' = [request EXCEPT ![p] = new]
    BY <1>4 DEF Lock
  <2>2. /\ new.op = t.op /\ new.id = t.id /\ new.todo = t.todo \ {s} /\ new.view = t.view
        /\ new.expiring = t.expiring
    BY <1>1, <1>2 DEF Ascends
  <2>3. s \in t.todo /\ s \in SkusOf(t.op, t.id) /\ s \in Sku
    BY <1>1, <1>2, UpcomingIsFirst DEF Ascends
  <2> HIDE DEF new, s
  <2>4. t.op # "ready" /\ s \notin Unlimited => Affords(t.op, t.id, s, t.view[s], Filed)
    <3> HAVE t.op # "ready" /\ s \notin Unlimited
    <3>1. /\ t.op \in Ops \ {"none", "ready"} /\ t.view[s] \in [onHand : Int, reserved : Nat]
          /\ t.op = "reserve" => t.id \in Order
          /\ t.op = "campaign" => t.id \in Campaign
          /\ t.op = "stocktake" => t.id \in Count
          /\ t.op = "adjust" => t.id \in Change
      BY <1>1, <1>2 DEF RequestSound
    <3> QED BY <1>4, <2>3, <3>1, Unrefused
  <2>5. t.op # "ready" =>
          \A x \in SkusOf(t.op, t.id) \ (t.todo \ {s}) :
            /\ x \in DOMAIN t.view
            /\ x \notin Unlimited => Affords(t.op, t.id, x, t.view[x], Filed)
    BY <1>1, <1>2, <2>4 DEF RequestSound
  <2>6. RequestSound(new, due, Filed, taken)
    BY <1>2, <2>2, <2>5 DEF RequestSound
  <2>7. new.op = "stocktake" => new.id \notin taken'
    BY <1>1, <2>2, Untaken
  <2>8. RequestSound(new, due', Filed', taken')
    BY <1>1, <2>6, <2>7, RequestStays, FiledGrows
  <2>9. Alone(p, new)
    BY <1>1, <2>2, Untaken DEF StockInv, RequestsSound, OneStocktake, Alone
  <2> QED BY <1>1, <2>1, <2>8, <2>9, RequestMoves
<1> QED BY <1>3, <1>4

-----------------------------------------------------------------------------
(* The ledger and the rows keep their shape.                               *)

\* A granted request has read its variants, and what it read suffices; Excess
\* makes up for what the rows no longer hold.
LEMMA GrantedFacts ==
  ASSUME StockInv, NEW p \in Session, NEW op \in Ops \ {"none", "ready"}, Granted(p, op),
         NEW s \in SkusOf(op, request[p].id)
  PROVE  /\ s \in Sku /\ request[p].view[s] \in [onHand : Int, reserved : Nat]
         /\ s \notin Unlimited => Affords(op, request[p].id, s, request[p].view[s], Filed)
         /\ Excess(p, s) \in Nat
         /\ request[p].view[s].onHand - request[p].view[s].reserved <= Available(s) + Excess(p, s)
<1>1. request[p].op = op /\ request[p].todo = {} /\ request[p] # Idle
  BY DEF Granted, Idle
<1>2. RequestSound(request[p], due, Filed, taken)
  BY DEF StockInv, RequestsSound
<1>3. /\ s \in Sku /\ request[p].view[s] \in [onHand : Int, reserved : Nat]
      /\ s \notin Unlimited => Affords(op, request[p].id, s, request[p].view[s], Filed)
  BY <1>1, <1>2 DEF RequestSound
<1>4. Available(s) \in Int
  BY <1>3, SumsTyped DEF StockInv, IInv
<1> DEFINE promised == request[p].view[s].onHand - request[p].view[s].reserved
<1>5. promised \in Int
  BY <1>3
<1>6. Excess(p, s) = IF promised > Available(s) THEN promised - Available(s) ELSE 0
  BY DEF Excess
<1> QED BY <1>3, <1>4, <1>5, <1>6

\* A granted request names something of the right kind.
LEMMA GrantedId ==
  ASSUME StockInv, NEW p \in Session
  PROVE  /\ Granted(p, "reserve") => request[p].id \in Order /\ request[p].expiring \subseteq due
         /\ Granted(p, "campaign") => request[p].id \in Campaign
         /\ Granted(p, "stocktake") => request[p].id \in Count \ taken
         /\ Granted(p, "adjust") => request[p].id \in Change
BY DEF StockInv, RequestsSound, RequestSound, Granted, Idle

\* The history counts natural numbers.
LEMMA StaleTyped ==
  ASSUME StockInv, NEW p \in Session, NEW op \in Ops \ {"none", "ready"}, Granted(p, op),
         NEW skus \in SUBSET SkusOf(op, request[p].id), Overtaken(p, skus)
  PROVE  stale' \in [Sku -> Nat]
<1>1. \A s \in skus : Excess(p, s) \in Nat
  BY GrantedFacts
<1>2. \A s \in Sku : stale[s] \in Nat
  BY DEF StockInv, RowsSound
<1> QED BY <1>1, <1>2 DEF Overtaken

\* Finitely many rows of the right kind are filed.
LEMMA LedgerGrows ==
  ASSUME LedgerSound, NEW rows, ledger' = ledger \cup rows, rows \subseteq Movement,
         IsFiniteSet(rows), taken \subseteq taken',
         \A m \in rows : m.key[1] = "stocktake" => m.key[2] \in taken'
  PROVE  LedgerSound'
<1>1. IsFiniteSet(ledger')
  BY FS_Union DEF LedgerSound
<1>2. Movement' = Movement
  BY DEF Movement
<1> QED BY <1>1, <1>2 DEF LedgerSound

LEMMA LedgerStays ==
  ASSUME LedgerSound, UNCHANGED <<ledger, taken>>
  PROVE  LedgerSound'
BY DEF LedgerSound, Movement

\* At most one order is new.
LEMMA OrdersFinite ==
  ASSUME RowsSound, NEW o, \A x \in Order : x # o /\ order[x] = "none" => order'[x] = "none"
  PROVE  IsFiniteSet({x \in Order : order'[x] # "none"})
<1> DEFINE old == {x \in Order : order[x] # "none"}
<1>1. IsFiniteSet(old \cup {o})
  BY FS_AddElement DEF RowsSound
<1>2. {x \in Order : order'[x] # "none"} \subseteq old \cup {o}
  OBVIOUS
<1> QED BY <1>1, <1>2, FS_Subset

\* At most one campaign is new.
LEMMA CampaignsFinite ==
  ASSUME RowsSound, NEW c, \A x \in Campaign : x # c => prize'[x] = prize[x]
  PROVE  IsFiniteSet({x \in Campaign : prize'[x].status # "none"})
<1> DEFINE old == {x \in Campaign : prize[x].status # "none"}
<1>1. IsFiniteSet(old \cup {c})
  BY FS_AddElement DEF RowsSound
<1>2. {x \in Campaign : prize'[x].status # "none"} \subseteq old \cup {c}
  OBVIOUS
<1> QED BY <1>1, <1>2, FS_Subset

\* One row as the handlers file it.
LEMMA OneRow ==
  ASSUME NEW kind \in {"reservation", "stocktake", "adjust", "fulfillment"},
         NEW id \in Order \cup Count \cup Change \cup (Campaign \X Nat),
         NEW s \in Sku, NEW n \in Int \ {0}
  PROVE  /\ [key |-> <<kind, id>>, sku |-> s, delta |-> n] \in Movement
         /\ IsFiniteSet({[key |-> <<kind, id>>, sku |-> s, delta |-> n]})
BY FS_Singleton DEF Movement

\* A function from a finite set has finitely many values.
LEMMA FiniteValues ==
  ASSUME NEW S, IsFiniteSet(S), NEW f, f = [x \in S |-> f[x]]
  PROVE  IsFiniteSet({f[x] : x \in S})
<1> DEFINE T == {f[x] : x \in S}
<1>1. f \in Surjection(S, T)
  BY DEF Surjection
<1> QED BY <1>1, FS_Surjection

\* An order's rows are finitely many, one per variant.
LEMMA SaleRowsSound ==
  ASSUME NEW o \in Order
  PROVE  SaleRows(o) \subseteq Movement /\ IsFiniteSet(SaleRows(o))
<1>1. DOMAIN Wants[o] \subseteq Sku /\ \A s \in DOMAIN Wants[o] : Wants[o][s] \in Nat \ {0}
  BY InventoryAssumption
<1>2. IsFiniteSet(DOMAIN Wants[o])
  BY <1>1, InventoryAssumption, FS_Subset
<1>3. IsFiniteSet(SaleRows(o))
  <2> DEFINE f == [s \in DOMAIN Wants[o] |->
                    [key |-> <<"reservation", o>>, sku |-> s, delta |-> -Wants[o][s]]]
  <2>1. SaleRows(o) = {f[s] : s \in DOMAIN Wants[o]}
    BY DEF SaleRows
  <2>2. f = [s \in DOMAIN Wants[o] |-> f[s]]
    OBVIOUS
  <2> HIDE DEF f
  <2> QED BY <1>2, <2>1, <2>2, FiniteValues
<1>4. \A s \in DOMAIN Wants[o] : -Wants[o][s] \in Int \ {0}
  BY <1>1
<1>5. SaleRows(o) \subseteq Movement
  BY <1>1, <1>4, OneRow DEF SaleRows
<1> QED BY <1>3, <1>5

\* A stocktake's rows are finitely many, one per variant whose count differs.
LEMMA StocktakeRowsSound ==
  ASSUME NEW c \in Count, NEW view,
         \A s \in DOMAIN Target[c] : view[s] \in [onHand : Int, reserved : Nat]
  PROVE  /\ StocktakeRows(c, view) \subseteq Movement /\ IsFiniteSet(StocktakeRows(c, view))
         /\ \A m \in StocktakeRows(c, view) : m.key = <<"stocktake", c>>
<1> DEFINE differ == {s \in DOMAIN Target[c] : Target[c][s] # view[s].onHand}
           f == [s \in differ |->
                  [key |-> <<"stocktake", c>>, sku |-> s, delta |-> Target[c][s] - view[s].onHand]]
<1>1. DOMAIN Target[c] \subseteq Sku /\ \A s \in DOMAIN Target[c] : Target[c][s] \in Nat
  BY InventoryAssumption
<1>2. IsFiniteSet(differ)
  BY <1>1, InventoryAssumption, FS_Subset
<1>3. StocktakeRows(c, view) = {f[s] : s \in differ} /\ f = [s \in differ |-> f[s]]
  BY DEF StocktakeRows
<1>4. IsFiniteSet(StocktakeRows(c, view))
  <2> HIDE DEF f, differ
  <2> QED BY <1>2, <1>3, FiniteValues
<1>5. \A s \in differ : s \in Sku /\ Target[c][s] - view[s].onHand \in Int \ {0}
  BY <1>1
<1>6. StocktakeRows(c, view) \subseteq Movement
  <2>1. ASSUME NEW s \in differ PROVE f[s] \in Movement
    <3> DEFINE n == Target[c][s] - view[s].onHand
    <3>1. f[s] = [key |-> <<"stocktake", c>>, sku |-> s, delta |-> n] /\ s \in Sku /\ n \in Int \ {0}
      BY <1>5
    <3> HIDE DEF f, n
    <3> QED BY <3>1 DEF Movement
  <2> HIDE DEF f, differ
  <2> QED BY <1>3, <2>1
<1> QED BY <1>4, <1>6 DEF StocktakeRows

-----------------------------------------------------------------------------
(* Every action keeps the shapes.                                          *)

\* The parts of StockInv that speak of shape alone.
Sound == LedgerSound /\ RowsSound /\ RequestsSound

\* Beginning, reading, locking and timing out write no row.
LEMMA WaitSound ==
  ASSUME StockInv, NEW p \in Session,
         \/ BeginReserve(p) \/ BeginCampaign(p) \/ BeginStocktake(p) \/ BeginAdjust(p) \/ BeginReady(p)
         \/ Read(p) \/ Lock(p) \/ Timeout(p)
  PROVE  Sound' /\ UNCHANGED <<ledger, order, due, shop, late, stale>>
<1>1. UNCHANGED <<ledger, order, due, shop, late, stale>>
  BY DEF BeginReserve, BeginCampaign, BeginStocktake, BeginAdjust, BeginReady, Begin, Read, Lock, Timeout
<1>2. LedgerSound' /\ RowsSound'
  BY <1>1, LedgerStays DEF StockInv, RowsSound, shop
<1>3. RequestsSound'
  <2>1. CASE Timeout(p)
    BY <1>1, <2>1, RequestEnds, Untaken DEF Timeout, shop
  <2> QED BY <2>1, RequestBegins, RequestReads, RequestLocks
<1> QED BY <1>1, <1>2, <1>3 DEF Sound

\* A reservation is one new order.
LEMMA ReserveSound ==
  ASSUME StockInv, NEW p \in Session, Reserve(p)
  PROVE  Sound'
<1> DEFINE o == request[p].id
<1>1. Granted(p, "reserve") /\ Done(p) /\ UNCHANGED <<ledger, due, shop, late>>
  BY DEF Reserve
<1>2. o \in Order /\ request[p].expiring \subseteq due
  BY <1>1, GrantedId
<1>3. LedgerSound'
  BY <1>1, LedgerStays DEF StockInv, shop
<1>4. stale' \in [Sku -> Nat]
  <2>1. CASE order[o] = "none"
    <3>1. Overtaken(p, DOMAIN Wants[o]) /\ DOMAIN Wants[o] = SkusOf("reserve", o)
      BY <2>1 DEF Reserve, SkusOf
    <3> QED BY <1>1, <3>1, StaleTyped DEF Ops
  <2>2. CASE order[o] # "none"
    BY <2>2 DEF Reserve, StockInv, RowsSound
  <2> QED BY <2>1, <2>2
<1>5. \A x \in request[p].expiring : order[x] # "none"
  BY <1>2 DEF StockInv, RowsSound
<1>6. \A x \in Order : x # o /\ order[x] = "none" => order'[x] = "none"
  <2>1. CASE order[o] = "none"
    <3>1. order' = [Swept(request[p].expiring) EXCEPT ![o] = "active"]
      BY <2>1 DEF Reserve
    <3> QED BY <1>5, <3>1 DEF Swept
  <2>2. CASE order[o] # "none"
    BY <2>2 DEF Reserve
  <2> QED BY <2>1, <2>2
<1>7. IsFiniteSet({x \in Order : order'[x] # "none"})
  BY <1>6, OrdersFinite DEF StockInv
<1>8. \A x \in due' : order'[x] # "none"
  <2>1. ASSUME NEW x \in due PROVE order'[x] # "none"
    BY DEF StockInv, RowsSound, IInv, OrderTyped, Reserve, Swept
  <2> QED BY <1>1, <2>1
<1>9. RowsSound'
  BY <1>1, <1>4, <1>7, <1>8 DEF StockInv, RowsSound, shop
<1>10. RequestsSound'
  BY <1>1, RequestEnds, Untaken DEF shop
<1> QED BY <1>3, <1>9, <1>10 DEF Sound

\* A campaign is one new reservation.
LEMMA CampaignSound ==
  ASSUME StockInv, NEW p \in Session, CreateCampaign(p)
  PROVE  Sound'
<1> DEFINE c == request[p].id
           whole == [status |-> "active", quantity |-> Prize[c].winners * Prize[c].units]
<1>1. /\ Granted(p, "campaign") /\ Done(p)
      /\ UNCHANGED <<ledger, order, due, winner, activation, taken, late>>
  BY DEF CreateCampaign
<1>2. c \in Campaign
  BY <1>1, GrantedId
<1>3. LedgerSound' /\ RequestsSound'
  BY <1>1, LedgerStays, RequestEnds, Untaken DEF StockInv
<1>4. whole \in [status : {"none", "active", "released", "committed"}, quantity : Nat]
  <2>1. Prize[c].winners \in Nat /\ Prize[c].units \in Nat
    BY <1>2, InventoryAssumption
  <2>2. Prize[c].winners * Prize[c].units \in Nat
    BY <2>1
  <2> QED BY <2>2
<1>5. CASE draw[c] = "none"
  <2>1. /\ draw' = [draw EXCEPT ![c] = "scheduled"] /\ prize' = [prize EXCEPT ![c] = whole]
        /\ Overtaken(p, {Prize[c].sku})
    BY <1>5 DEF CreateCampaign
  <2>2. stale' \in [Sku -> Nat]
    <3>1. {Prize[c].sku} = SkusOf("campaign", c)
      BY DEF SkusOf
    <3> QED BY <1>1, <2>1, <3>1, StaleTyped DEF Ops
  <2> HIDE DEF c, whole
  <2>3. /\ draw' \in [Campaign -> {"none", "scheduled", "cancelled", "completed"}]
        /\ prize' \in [Campaign -> [status : {"none", "active", "released", "committed"}, quantity : Nat]]
    BY <1>4, <2>1 DEF StockInv, RowsSound
  <2>4. \A x \in Campaign : x # c => prize'[x] = prize[x]
    BY <2>1 DEF StockInv, RowsSound
  <2>5. IsFiniteSet({x \in Campaign : prize'[x].status # "none"})
    BY <2>4, CampaignsFinite DEF StockInv
  <2>6. RowsSound'
    BY <1>1, <2>2, <2>3, <2>5 DEF StockInv, RowsSound
  <2> QED BY <1>3, <2>6 DEF Sound
<1>6. CASE draw[c] # "none"
  <2>1. UNCHANGED <<draw, prize, stale>>
    BY <1>6 DEF CreateCampaign
  <2> QED BY <1>1, <1>3, <2>1 DEF StockInv, RowsSound, Sound
<1> QED BY <1>5, <1>6

\* What a stocktake counts it has read.
LEMMA StocktakeReads ==
  ASSUME StockInv, NEW p \in Session, Granted(p, "stocktake")
  PROVE  /\ request[p].id \in Count \ taken
         /\ \A s \in DOMAIN Target[request[p].id] : request[p].view[s] \in [onHand : Int, reserved : Nat]
<1>1. request[p].id \in Count \ taken
  BY GrantedId
<1>2. "stocktake" \in Ops \ {"none", "ready"}
  BY DEF Ops
<1>3. SkusOf("stocktake", request[p].id) = DOMAIN Target[request[p].id]
  BY DEF SkusOf
<1> QED BY <1>1, <1>2, <1>3, GrantedFacts

\* A stocktake files its rows under a key nobody else has.
LEMMA StocktakeSound ==
  ASSUME StockInv, NEW p \in Session, Stocktake(p)
  PROVE  Sound'
<1> DEFINE c == request[p].id
           rows == StocktakeRows(c, request[p].view)
<1>1. /\ Granted(p, "stocktake") /\ Done(p) /\ Overtaken(p, DOMAIN Target[c])
      /\ ledger' = ledger \cup rows /\ taken' = taken \cup {c}
      /\ UNCHANGED <<order, due, draw, prize, winner, activation, late>>
  BY DEF Stocktake
<1>2. c \in Count \ taken /\ taken' \subseteq Count
  BY <1>1, StocktakeReads DEF StockInv, RowsSound
<1>3. rows \subseteq Movement /\ IsFiniteSet(rows) /\ \A m \in rows : m.key = <<"stocktake", c>>
  BY <1>1, StocktakeReads, StocktakeRowsSound
<1>4. LedgerSound'
  <2>1. \A m \in rows : m.key[1] = "stocktake" => m.key[2] \in taken'
    BY <1>1, <1>3
  <2> HIDE DEF rows, c
  <2> QED BY <1>1, <1>3, <2>1, LedgerGrows DEF StockInv
<1>5. stale' \in [Sku -> Nat]
  <2>1. DOMAIN Target[c] = SkusOf("stocktake", c)
    BY DEF SkusOf
  <2> QED BY <1>1, <2>1, StaleTyped DEF Ops
<1>6. RowsSound'
  BY <1>1, <1>2, <1>5 DEF StockInv, RowsSound
<1>7. RequestsSound'
  <2>1. ASSUME NEW q \in Session, q # p, request[q].op = "stocktake" PROVE request[q].id \notin taken'
    <3>1. request[q].id # c
      BY <1>1, <2>1 DEF StockInv, RequestsSound, OneStocktake, Granted
    <3> QED BY <1>1, <2>1, <3>1, Untaken
  <2> QED BY <1>1, <2>1, RequestEnds
<1> QED BY <1>4, <1>6, <1>7 DEF Sound

\* A manual movement is one row.
LEMMA AdjustSound ==
  ASSUME StockInv, NEW p \in Session, Adjust(p)
  PROVE  Sound'
<1> DEFINE c == request[p].id
           row == [key |-> <<"adjust", c>>, sku |-> Move[c].sku, delta |-> Move[c].delta]
           fresh == ~HasRow(<<"adjust", c>>)
           rows == IF fresh THEN {row} ELSE {}
           skus == IF fresh /\ Move[c].delta < 0 THEN {Move[c].sku} ELSE {}
<1>1. /\ Granted(p, "adjust") /\ Done(p) /\ Overtaken(p, skus) /\ ledger' = ledger \cup rows
      /\ UNCHANGED <<order, due, shop, late>>
  BY DEF Adjust
<1>2. c \in Change
  BY <1>1, GrantedId
<1>3. row \in Movement
  <2>1. Move[c].sku \in Sku /\ Move[c].delta \in Int \ {0}
    BY <1>2, InventoryAssumption
  <2> QED BY <1>2, <2>1 DEF Movement
<1>4. rows \subseteq Movement /\ IsFiniteSet(rows) /\ \A m \in rows : m.key[1] # "stocktake"
  <2>1. row.key[1] = "adjust"
    OBVIOUS
  <2> HIDE DEF row, fresh
  <2> QED BY <1>3, <2>1, FS_Singleton, FS_EmptySet
<1>5. LedgerSound'
  <2> HIDE DEF rows
  <2> QED BY <1>1, <1>4, LedgerGrows DEF StockInv, shop
<1>6. stale' \in [Sku -> Nat]
  <2>1. skus \in SUBSET SkusOf("adjust", c)
    BY DEF SkusOf
  <2>2. "adjust" \in Ops \ {"none", "ready"}
    BY DEF Ops
  <2> HIDE DEF skus
  <2> QED BY <1>1, <2>1, <2>2, StaleTyped
<1>7. RowsSound'
  BY <1>1, <1>6 DEF StockInv, RowsSound, shop
<1>8. RequestsSound'
  <2> HIDE DEF rows
  <2> QED BY <1>1, RequestEnds, Untaken DEF shop
<1> QED BY <1>5, <1>7, <1>8 DEF Sound

\* The activation writes its own row only.
LEMMA ReadySound ==
  ASSUME StockInv, NEW p \in Session, MarkReady(p)
  PROVE  Sound'
<1>1. /\ Done(p) /\ UNCHANGED <<ledger, order, due, draw, prize, winner, taken, late, stale>>
      /\ activation' \in {"preparing", "ready"}
  BY DEF MarkReady, StockInv, RowsSound
<1>2. LedgerSound' /\ RequestsSound'
  BY <1>1, LedgerStays, RequestEnds, Untaken DEF StockInv
<1>3. RowsSound'
  BY <1>1 DEF StockInv, RowsSound
<1> QED BY <1>2, <1>3 DEF Sound

\* Replays, releases and the passing of an expiry concern placed orders only.
LEMMA OrderSound ==
  ASSUME StockInv, NEW o \in Order, Replay(o) \/ ReleaseOrder(o) \/ BecomeDue(o)
  PROVE  Sound' /\ due \subseteq due' /\ UNCHANGED <<ledger, shop, request, late, stale>>
<1>1. UNCHANGED <<ledger, shop, request, late, stale>> /\ due \subseteq due'
  BY DEF Replay, ReleaseOrder, BecomeDue
<1>2. LedgerSound' /\ RequestsSound'
  BY <1>1, LedgerStays, RequestsStay DEF StockInv, shop
<1>3. OrderTyped
  BY DEF StockInv, IInv
<1>4. \A x \in Order : order[x] = "none" <=> order'[x] = "none"
  BY <1>3 DEF Replay, ReleaseOrder, BecomeDue, Swept, DueOrders, OrderTyped
<1>5. IsFiniteSet({x \in Order : order'[x] # "none"})
  BY <1>4, OrdersFinite DEF StockInv
<1>6. \A x \in due' : order'[x] # "none"
  <2>1. \A x \in due : x \in Order /\ order[x] # "none"
    BY DEF StockInv, IInv, RowsSound
  <2>2. due' \subseteq due \cup {o} /\ (o \in due' => o \in due \/ order[o] # "none")
    BY DEF Replay, ReleaseOrder, BecomeDue
  <2> QED BY <1>4, <2>1, <2>2
<1>7. RowsSound'
  BY <1>1, <1>5, <1>6 DEF StockInv, RowsSound, shop
<1> QED BY <1>1, <1>2, <1>7 DEF Sound

\* A payment files the order's rows.
LEMMA CommitSound ==
  ASSUME StockInv, NEW o \in Order, CommitOrder(o)
  PROVE  Sound'
<1>1. /\ ledger' = ledger \cup SaleRows(o) /\ order' = [order EXCEPT ![o] = "committed"]
      /\ late' = [s \in Sku |-> late[s] + IF Counts(o) \/ s \notin DOMAIN Wants[o] THEN 0 ELSE Wants[o][s]]
      /\ UNCHANGED <<due, shop, request, stale>>
  BY DEF CommitOrder
<1>2. OrderTyped
  BY DEF StockInv, IInv
<1>3. LedgerSound'
  <2>1. \A m \in SaleRows(o) : m.key[1] # "stocktake"
    BY DEF SaleRows
  <2>2. SaleRows(o) \subseteq Movement /\ IsFiniteSet(SaleRows(o))
    BY SaleRowsSound
  <2> QED BY <1>1, <2>1, <2>2, LedgerGrows DEF StockInv, shop
<1>4. RequestsSound'
  BY <1>1, RequestsStay DEF shop
<1>5. IsFiniteSet({x \in Order : order'[x] # "none"})
  <2>1. \A x \in Order : x # o => order'[x] = order[x]
    BY <1>1, <1>2 DEF OrderTyped
  <2> QED BY <2>1, OrdersFinite DEF StockInv
<1>6. \A x \in due' : order'[x] # "none"
  BY <1>1, <1>2 DEF OrderTyped, StockInv, IInv, RowsSound
<1>7. late' \in [Sku -> Nat]
  <2>1. \A s \in DOMAIN Wants[o] : Wants[o][s] \in Nat
    BY InventoryAssumption
  <2>2. \A s \in Sku : late[s] \in Nat
    BY DEF StockInv, RowsSound
  <2> QED BY <1>1, <2>1, <2>2
<1>8. RowsSound'
  BY <1>1, <1>5, <1>6, <1>7 DEF StockInv, RowsSound, shop
<1> QED BY <1>3, <1>4, <1>8 DEF Sound

\* A cancelled or drawn campaign gives back what it does not need.
LEMMA DrawnSound ==
  ASSUME StockInv, NEW c \in Campaign, CancelCampaign(c) \/ CompleteDraw(c)
  PROVE  Sound'
<1>1. UNCHANGED <<ledger, order, due, activation, taken, request, late, stale>>
  BY DEF CancelCampaign, CompleteDraw
<1>2. LedgerSound' /\ RequestsSound'
  BY <1>1, LedgerStays, RequestsStay DEF StockInv
<1>3. /\ draw \in [Campaign -> {"none", "scheduled", "cancelled", "completed"}]
      /\ prize \in [Campaign -> [status : {"none", "active", "released", "committed"}, quantity : Nat]]
  BY DEF StockInv, RowsSound
<1>4. draw' \in [Campaign -> {"none", "scheduled", "cancelled", "completed"}]
  BY <1>3 DEF CancelCampaign, CompleteDraw
<1>5. /\ prize' \in [Campaign -> [status : {"none", "active", "released", "committed"}, quantity : Nat]]
      /\ \A x \in Campaign : x # c => prize'[x] = prize[x]
  <2>1. CASE CancelCampaign(c)
    BY <1>3, <2>1 DEF CancelCampaign
  <2>2. CASE CompleteDraw(c)
    <3>1. PICK selected \in 0..Prize[c].winners :
            prize' = [prize EXCEPT ![c] = [status   |-> IF selected = 0 THEN "released" ELSE "active",
                                           quantity |-> Units(c, selected)]]
      BY <2>2, DrawKeeps DEF StockInv
    <3>2. Units(c, selected) \in Nat
      BY InventoryAssumption, UnitFacts
    <3> QED BY <1>3, <3>1, <3>2
  <2> QED BY <2>1, <2>2
<1>6. IsFiniteSet({x \in Campaign : prize'[x].status # "none"})
  BY <1>5, CampaignsFinite DEF StockInv
<1>7. RowsSound'
  BY <1>1, <1>4, <1>5, <1>6 DEF StockInv, RowsSound
<1> QED BY <1>2, <1>7 DEF Sound

\* What a fulfilment takes, the reservation still has.
LEMMA FulfilledFacts ==
  ASSUME StockInv, NEW c \in Campaign, NEW r \in Ranks(c), NEW status, NEW rows,
         Fulfilled(c, r, status, rows)
  PROVE  /\ prize[c].status = "active" /\ prize[c].quantity \in Nat /\ Prize[c].units \in Nat \ {0}
         /\ prize[c].quantity >= Prize[c].units
         /\ prize'[c] = Consumed(c, rows) /\ \A x \in Campaign : x # c => prize'[x] = prize[x]
         /\ prize' \in [Campaign -> [status : {"none", "active", "released", "committed"}, quantity : Nat]]
<1>1. /\ winner[c][r] = "pending" /\ prize[c].quantity >= Prize[c].units
      /\ prize' = [prize EXCEPT ![c] = Consumed(c, rows)]
  BY DEF Fulfilled
<1>2. /\ prize \in [Campaign -> [status : {"none", "active", "released", "committed"}, quantity : Nat]]
      /\ Prize[c].units \in Nat \ {0} /\ prize[c].quantity \in Nat
  BY InventoryAssumption DEF StockInv, RowsSound
<1>3. prize[c].status = "active"
  <2>1. PrizeSound(c)
    BY DEF StockInv, PrizeInv
  <2>2. Balanced(c) /\ r \in Open(c)
    BY <1>1, <2>1 DEF PrizeSound, Open
  <2> QED BY <2>2 DEF Balanced
<1>4. Consumed(c, rows) \in [status : {"none", "active", "released", "committed"}, quantity : Nat]
  <2>1. prize[c].quantity - Prize[c].units \in Nat
    BY <1>1, <1>2
  <2> QED BY <1>3, <2>1 DEF Consumed
<1>5. prize' \in [Campaign -> [status : {"none", "active", "released", "committed"}, quantity : Nat]]
  BY <1>1, <1>2, <1>4
<1> QED BY <1>1, <1>2, <1>3, <1>5

\* A prize leaves the reservation, and the stock if it is handed over.
LEMMA FulfilSound ==
  ASSUME StockInv, NEW c \in Campaign, NEW r \in Ranks(c), DeliverPrize(c, r) \/ CancelPrize(c, r)
  PROVE  Sound'
<1> DEFINE row == [key |-> <<"fulfillment", <<c, r>>>>, sku |-> Prize[c].sku, delta |-> -Prize[c].units]
<1>1. PICK status : Fulfilled(c, r, status, ledger')
  BY DEF DeliverPrize, CancelPrize, Fulfilled
<1>2. UNCHANGED <<order, due, draw, activation, taken, request, late, stale>>
  BY <1>1 DEF Fulfilled
<1>3. row \in Movement /\ row.key[1] = "fulfillment"
  <2>1. Prize[c].sku \in Sku /\ Prize[c].units \in Nat \ {0} /\ r \in Nat
    BY InventoryAssumption DEF Ranks
  <2>2. -Prize[c].units \in Int \ {0}
    BY <2>1
  <2> QED BY <2>1, <2>2 DEF Movement
<1>4. ledger' = ledger \/ ledger' = ledger \cup {row}
  BY DEF DeliverPrize, CancelPrize, Fulfilled
<1>5. LedgerSound' /\ ledger \subseteq ledger'
  <2> HIDE DEF row
  <2>1. IsFiniteSet({row})
    BY FS_Singleton
  <2> QED BY <1>2, <1>3, <1>4, <2>1, LedgerGrows, LedgerStays DEF StockInv
<1>6. RequestsSound'
  BY <1>2, <1>5, RequestsStay
<1>7. IsFiniteSet({x \in Campaign : prize'[x].status # "none"})
  BY <1>1, FulfilledFacts, CampaignsFinite DEF StockInv
<1>8. RowsSound'
  BY <1>1, <1>2, <1>7, FulfilledFacts DEF StockInv, RowsSound
<1> QED BY <1>5, <1>6, <1>8 DEF Sound

-----------------------------------------------------------------------------
(* What is available, and the history beside it.                           *)

Covered(s) == Available(s) + late[s] + stale[s] >= 0

\* A step takes nothing of what is available, but of these variants.
Spared(skus) == \A s \in Sku \ skus : Available(s)' >= Available(s)

Safe(s, skus) ==
  /\ s \notin Unlimited => Covered(s)'
  /\ s \notin skus => Available(s)' >= Available(s)

\* What a step makes of the three sums it makes of what is available.
LEMMA AvailableChanges ==
  ASSUME StockInv, NEW s \in Sku, NEW gain \in Int, NEW hold \in Int, NEW keep \in Int,
         OnHand(s)' = OnHand(s) + gain,
         SumFunction(Bought(s)') = SumFunction(Bought(s)) + hold,
         SumFunction(Promised(s)') = SumFunction(Promised(s)) + keep
  PROVE  Available(s)' = Available(s) + gain - hold - keep
<1>1. /\ OnHand(s) \in Int /\ SumFunction(Bought(s)) \in Int /\ SumFunction(Promised(s)) \in Int
      /\ Reserved(s) = SumFunction(Bought(s)) + SumFunction(Promised(s))
  BY SumsTyped DEF StockInv, IInv
<1>2. Available(s)' = OnHand(s)' - (SumFunction(Bought(s)') + SumFunction(Promised(s)'))
  BY DEF Available, Reserved, Bought, Promised
<1> QED BY <1>1, <1>2 DEF Available

\* Nothing to count changed.
LEMMA SameOnHand ==
  ASSUME NEW s \in Sku, \A x : (x \in ledger' /\ x.sku = s) <=> (x \in ledger /\ x.sku = s)
  PROVE  OnHand(s)' = OnHand(s)
<1>1. {x \in ledger' : x.sku = s} = {x \in ledger : x.sku = s}
  OBVIOUS
<1> QED BY <1>1 DEF OnHand

LEMMA SameBought ==
  ASSUME NEW s \in Sku, \A x \in Order : Counts(x)' <=> Counts(x)
  PROVE  SumFunction(Bought(s)') = SumFunction(Bought(s))
<1>1. {x \in Order : Counts(x)' /\ s \in DOMAIN Wants[x]} = {x \in Order : Counts(x) /\ s \in DOMAIN Wants[x]}
  OBVIOUS
<1>2. Bought(s)' = Bought(s)
  BY <1>1 DEF Bought
<1> QED BY <1>2

LEMMA SamePromised ==
  ASSUME NEW s \in Sku, prize' = prize
  PROVE  SumFunction(Promised(s)') = SumFunction(Promised(s))
BY DEF Promised

\* The numbers the invariant adds.
LEMMA Numbers ==
  ASSUME StockInv, NEW s \in Sku
  PROVE  /\ Available(s) \in Int /\ OnHand(s) \in Int
         /\ SumFunction(Bought(s)) \in Int /\ SumFunction(Promised(s)) \in Int
         /\ late[s] \in Nat /\ stale[s] \in Nat
         /\ s \notin Unlimited => Available(s) + late[s] + stale[s] >= 0
         /\ \A o \in Order : Holds(o, s) \in Nat
         /\ \A c \in Campaign : Keeps(c, s) \in Nat
<1>1. /\ Available(s) \in Int /\ OnHand(s) \in Int
      /\ SumFunction(Bought(s)) \in Int /\ SumFunction(Promised(s)) \in Int
  BY SumsTyped DEF StockInv, IInv
<1>2. late[s] \in Nat /\ stale[s] \in Nat
  BY DEF StockInv, RowsSound
<1>3. s \notin Unlimited => Available(s) + late[s] + stale[s] >= 0
  BY DEF StockInv, ShortageAccounted
<1>4. \A o \in Order : Holds(o, s) \in Nat
  BY InventoryAssumption DEF Holds
<1>5. \A c \in Campaign : Keeps(c, s) \in Nat
  BY DEF Keeps, StockInv, RowsSound
<1> QED BY <1>1, <1>2, <1>3, <1>4, <1>5

\* A step that leaves all the sums alone.
LEMMA QuietCovers ==
  ASSUME StockInv, UNCHANGED <<ledger, order, due, prize, late, stale>>
  PROVE  ShortageAccounted' /\ Spared({})
<1>1. \A s \in Sku : Available(s)' = Available(s)
  BY DEF Available, OnHand, Reserved, Counts
<1> QED BY <1>1, Numbers DEF StockInv, ShortageAccounted, Spared

\* An order that stops counting gives back what it held.
LEMMA OrderCovers ==
  ASSUME StockInv, Sound', OrderTyped', NEW o \in Order, Replay(o) \/ ReleaseOrder(o) \/ BecomeDue(o)
  PROVE  ShortageAccounted' /\ Spared({})
<1>1. UNCHANGED <<ledger, prize, late, stale>>
  BY DEF Replay, ReleaseOrder, BecomeDue, shop
<1>2. \A x \in Order : x # o => (Counts(x)' <=> Counts(x))
  BY DEF Replay, ReleaseOrder, BecomeDue, Counts, Swept, DueOrders, StockInv, IInv, OrderTyped
<1>3. Counts(o)' => Counts(o)
  BY DEF Replay, ReleaseOrder, BecomeDue, Counts, Swept, DueOrders, StockInv, IInv, OrderTyped
<1>4. ASSUME NEW s \in Sku PROVE Safe(s, {})
  <2>1. SumFunction(Bought(s)') = SumFunction(Bought(s)) - Holds(o, s) + Holds(o, s)'
    BY <1>2, BoughtChanges DEF StockInv, IInv, Sound
  <2>2. OnHand(s)' = OnHand(s) /\ SumFunction(Promised(s)') = SumFunction(Promised(s))
    BY <1>1, SamePromised DEF OnHand
  <2>3. Holds(o, s)' \in Nat /\ Holds(o, s)' <= Holds(o, s)
    BY <1>3, InventoryAssumption DEF Holds
  <2> DEFINE hold == Holds(o, s)' - Holds(o, s)
  <2>4. hold \in Int /\ hold <= 0 /\ SumFunction(Bought(s)') = SumFunction(Bought(s)) + hold
    BY <2>1, <2>3, Numbers
  <2> HIDE DEF hold
  <2>5. OnHand(s)' = OnHand(s) + 0 /\ SumFunction(Promised(s)') = SumFunction(Promised(s)) + 0
    BY <2>2, Numbers
  <2>6. Available(s)' = Available(s) + 0 - hold - 0
    BY <2>4, <2>5, AvailableChanges
  <2> QED BY <1>1, <2>4, <2>6, Numbers DEF Covered, Safe
<1> QED BY <1>4 DEF ShortageAccounted, Covered, Spared, Safe

\* A reservation promises no more than its request read; what the read was ahead
\* of the rows, Excess counts.
LEMMA ReserveCovers ==
  ASSUME StockInv, Sound', OrderTyped', NEW p \in Session, Reserve(p)
  PROVE  ShortageAccounted' /\ Spared(DOMAIN Wants[request[p].id])
<1>1. Granted(p, "reserve") /\ UNCHANGED <<ledger, due, shop, late>>
  BY DEF Reserve
<1>2. PICK o \in Order : o = request[p].id /\ request[p].expiring \subseteq due
  BY <1>1, GrantedId
<1> DEFINE W(s) == IF s \in DOMAIN Wants[o] THEN Wants[o][s] ELSE 0
<1>3. CASE order[o] # "none"
  BY <1>1, <1>2, <1>3, QuietCovers DEF Reserve, shop, Spared
<1>4. CASE order[o] = "none"
  <2>1. /\ order' = [Swept(request[p].expiring) EXCEPT ![o] = "active"]
        /\ Overtaken(p, DOMAIN Wants[o])
    BY <1>2, <1>4 DEF Reserve
  <2>2. o \notin due /\ ~Counts(o)
    BY <1>4 DEF StockInv, RowsSound, Counts
  <2>3. \A x \in Order : x # o => (Counts(x)' <=> Counts(x))
    BY <1>1, <1>2, <2>1 DEF Counts, Swept
  <2>4. Counts(o)'
    BY <1>1, <1>2, <2>1, <2>2 DEF Counts, Swept
  <2>5. ASSUME NEW s \in Sku PROVE Safe(s, DOMAIN Wants[o])
    <3>1. SumFunction(Bought(s)') = SumFunction(Bought(s)) - Holds(o, s) + Holds(o, s)'
      BY <1>2, <2>3, BoughtChanges DEF StockInv, IInv, Sound
    <3>2. Holds(o, s) = 0 /\ Holds(o, s)' = W(s) /\ W(s) \in Nat
      BY <1>2, <2>2, <2>4, InventoryAssumption DEF Holds
    <3> HIDE DEF W
    <3>3. /\ OnHand(s)' = OnHand(s) + 0 /\ SumFunction(Promised(s)') = SumFunction(Promised(s)) + 0
          /\ SumFunction(Bought(s)') = SumFunction(Bought(s)) + W(s)
      <4>1. OnHand(s)' = OnHand(s) /\ SumFunction(Promised(s)') = SumFunction(Promised(s))
        BY <1>1, SamePromised DEF OnHand, shop
      <4> QED BY <3>1, <3>2, <4>1, Numbers
    <3>4. Available(s)' = Available(s) + 0 - W(s) - 0
      BY <3>2, <3>3, AvailableChanges
    <3>5. CASE s \in DOMAIN Wants[o]
      <4>1. s \in SkusOf("reserve", o) /\ "reserve" \in Ops \ {"none", "ready"}
        BY <3>5 DEF SkusOf, Ops
      <4> DEFINE seen == request[p].view[s]
      <4>2. /\ seen \in [onHand : Int, reserved : Nat] /\ Excess(p, s) \in Nat
            /\ s \notin Unlimited => Affords("reserve", o, s, seen, Filed)
            /\ seen.onHand - seen.reserved <= Available(s) + Excess(p, s)
        BY <1>1, <1>2, <4>1, GrantedFacts
      <4>3. (s \notin Unlimited => seen.onHand - seen.reserved >= W(s)) /\ seen.onHand \in Int /\ seen.reserved \in Int
        BY <3>5, <4>2 DEF Affords, W
      <4>4. stale'[s] = stale[s] + Excess(p, s)
        BY <2>1, <3>5 DEF Overtaken
      <4> HIDE DEF seen
      <4>5. s \notin Unlimited => Covered(s)'
        BY <1>1, <3>2, <3>4, <4>2, <4>3, <4>4, Numbers DEF Covered
      <4> QED BY <3>5, <4>5 DEF Safe
    <3>6. CASE s \notin DOMAIN Wants[o]
      <4>1. stale'[s] = stale[s] /\ W(s) = 0
        BY <2>1, <3>6, Numbers DEF Overtaken, W
      <4> QED BY <1>1, <3>4, <4>1, Numbers DEF Covered, Safe
    <3> QED BY <3>5, <3>6
  <2> QED BY <1>2, <2>5 DEF ShortageAccounted, Covered, Spared, Safe
<1> QED BY <1>2, <1>3, <1>4

\* A campaign promises no more than its request read.
LEMMA CampaignCovers ==
  ASSUME StockInv, Sound', OrderTyped', NEW p \in Session, CreateCampaign(p)
  PROVE  ShortageAccounted' /\ Spared({Prize[request[p].id].sku})
<1>1. Granted(p, "campaign") /\ UNCHANGED <<ledger, order, due, late>>
  BY DEF CreateCampaign
<1>2. PICK c \in Campaign : c = request[p].id
  BY <1>1, GrantedId
<1> DEFINE need == Prize[c].winners * Prize[c].units
<1>3. CASE draw[c] # "none"
  BY <1>1, <1>2, <1>3, QuietCovers DEF CreateCampaign, Spared
<1>4. CASE draw[c] = "none"
  <2>1. /\ prize' = [prize EXCEPT ![c] = [status |-> "active", quantity |-> need]]
        /\ Overtaken(p, {Prize[c].sku})
    BY <1>2, <1>4 DEF CreateCampaign
  <2>2. need \in Nat
    <3>1. Prize[c].winners \in Nat /\ Prize[c].units \in Nat
      BY <1>2, InventoryAssumption
    <3> QED BY <3>1
  <2>3. /\ prize'[c] = [status |-> "active", quantity |-> need]
        /\ \A x \in Campaign : x # c => prize'[x] = prize[x]
    BY <1>2, <2>1 DEF StockInv, PrizeInv
  <2> HIDE DEF need
  <2>4. ASSUME NEW s \in Sku PROVE Safe(s, {Prize[c].sku})
    <3>1. SumFunction(Promised(s)') = SumFunction(Promised(s)) - Keeps(c, s) + Keeps(c, s)'
      BY <1>2, <2>3, PromisedChanges DEF StockInv, IInv, Sound
    <3>2. Keeps(c, s)' = IF Prize[c].sku = s THEN need ELSE 0
      BY <2>3 DEF Keeps
    <3> DEFINE keep == Keeps(c, s)' - Keeps(c, s)
    <3>3. /\ keep \in Int /\ keep <= (IF Prize[c].sku = s THEN need ELSE 0)
          /\ SumFunction(Promised(s)') = SumFunction(Promised(s)) + keep
      BY <1>2, <2>2, <3>1, <3>2, Numbers
    <3> HIDE DEF keep
    <3>4. OnHand(s)' = OnHand(s) + 0 /\ SumFunction(Bought(s)') = SumFunction(Bought(s)) + 0
      <4>1. OnHand(s)' = OnHand(s) /\ SumFunction(Bought(s)') = SumFunction(Bought(s))
        BY <1>1, SameBought DEF OnHand, Counts
      <4> QED BY <4>1, Numbers
    <3>5. Available(s)' = Available(s) + 0 - 0 - keep
      BY <3>3, <3>4, AvailableChanges
    <3>6. CASE s = Prize[c].sku
      <4>1. s \in SkusOf("campaign", c) /\ "campaign" \in Ops \ {"none", "ready"}
        BY <3>6 DEF SkusOf, Ops
      <4> DEFINE seen == request[p].view[s]
      <4>2. /\ seen \in [onHand : Int, reserved : Nat] /\ Excess(p, s) \in Nat
            /\ s \notin Unlimited => Affords("campaign", c, s, seen, Filed)
            /\ seen.onHand - seen.reserved <= Available(s) + Excess(p, s)
        BY <1>1, <1>2, <4>1, GrantedFacts
      <4>3. (s \notin Unlimited => seen.onHand - seen.reserved >= need) /\ seen.onHand \in Int /\ seen.reserved \in Int
        BY <4>2 DEF Affords, need
      <4>4. stale'[s] = stale[s] + Excess(p, s)
        BY <2>1, <3>6 DEF Overtaken
      <4> HIDE DEF seen
      <4> QED BY <1>1, <2>2, <3>3, <3>5, <3>6, <4>2, <4>3, <4>4, Numbers DEF Covered, Safe
    <3>7. CASE s # Prize[c].sku
      <4>1. stale'[s] = stale[s] /\ keep <= 0
        BY <2>1, <3>3, <3>7, Numbers DEF Overtaken
      <4> QED BY <1>1, <3>3, <3>5, <4>1, Numbers DEF Covered, Safe
    <3> QED BY <3>6, <3>7
  <2> QED BY <1>2, <2>4 DEF ShortageAccounted, Covered, Spared, Safe
<1> QED BY <1>2, <1>3, <1>4

\* A row nobody has filed changes the stock of its variant, and of no other.
LEMMA OnHandWith ==
  ASSUME StockInv, Sound', OrderTyped', NEW s \in Sku, NEW m, m \notin ledger, m.sku = s,
         NEW rows, ledger' = ledger \cup rows, \A x : x \in rows /\ x.sku = s <=> x = m
  PROVE  OnHand(s)' = OnHand(s) + m.delta
<1>1. \A x : (x \in ledger' /\ x.sku = s) <=> ((x \in ledger /\ x.sku = s) \/ x = m)
  OBVIOUS
<1> QED BY <1>1, OnHandGains DEF StockInv, IInv, Sound

\* A stocktake sets the stock it read to its count.
LEMMA StocktakeCovers ==
  ASSUME StockInv, Sound', OrderTyped', NEW p \in Session, Stocktake(p)
  PROVE  ShortageAccounted' /\ Spared(DOMAIN Target[request[p].id])
<1>1. Granted(p, "stocktake") /\ UNCHANGED <<order, due, prize, late>>
  BY DEF Stocktake
<1>2. PICK c \in Count \ taken : c = request[p].id
  BY <1>1, GrantedId
<1> DEFINE view == request[p].view
           rows == StocktakeRows(c, view)
<1>3. ledger' = ledger \cup rows /\ Overtaken(p, DOMAIN Target[c])
  BY <1>2 DEF Stocktake
<1>4. \A m \in ledger : m.key # <<"stocktake", c>>
  BY <1>2 DEF StockInv, LedgerSound
<1>5. ASSUME NEW s \in Sku PROVE Safe(s, DOMAIN Target[c])
  <2>1. SumFunction(Bought(s)') = SumFunction(Bought(s)) + 0 /\ SumFunction(Promised(s)') = SumFunction(Promised(s)) + 0
    <3>1. SumFunction(Bought(s)') = SumFunction(Bought(s)) /\ SumFunction(Promised(s)') = SumFunction(Promised(s))
      BY <1>1, SameBought, SamePromised DEF Counts
    <3> QED BY <3>1, Numbers
  <2>2. CASE s \in DOMAIN Target[c]
    <3>1. s \in SkusOf("stocktake", c) /\ "stocktake" \in Ops \ {"none", "ready"}
      BY <2>2 DEF SkusOf, Ops
    <3>2. /\ view[s] \in [onHand : Int, reserved : Nat] /\ Excess(p, s) \in Nat
          /\ s \notin Unlimited => Affords("stocktake", c, s, view[s], Filed)
          /\ view[s].onHand - view[s].reserved <= Available(s) + Excess(p, s)
      BY <1>1, <1>2, <3>1, GrantedFacts
    <3> DEFINE delta == Target[c][s] - view[s].onHand
    <3>3. Target[c][s] \in Nat /\ view[s].onHand \in Int /\ view[s].reserved \in Int /\ delta \in Int
      BY <2>2, <3>2, InventoryAssumption
    <3>4. OnHand(s)' = OnHand(s) + delta
      <4> DEFINE m == [key |-> <<"stocktake", c>>, sku |-> s, delta |-> delta]
      <4>1. CASE delta = 0
        <5>1. \A x \in rows : x.sku # s
          BY <3>3, <4>1 DEF StocktakeRows
        <5> HIDE DEF rows, delta
        <5>2. OnHand(s)' = OnHand(s)
          BY <1>3, <5>1, SameOnHand
        <5> QED BY <4>1, <5>2, Numbers
      <4>2. CASE delta # 0
        <5>1. \A x : x \in rows /\ x.sku = s <=> x = m
          BY <2>2, <3>3, <4>2 DEF StocktakeRows
        <5>2. m.sku = s /\ m.delta = delta /\ m \notin ledger
          BY <1>4
        <5> HIDE DEF rows, m, delta
        <5> QED BY <1>3, <5>1, <5>2, OnHandWith
      <4> QED BY <4>1, <4>2
    <3>5. Available(s)' = Available(s) + delta - 0 - 0
      <4> HIDE DEF delta
      <4> QED BY <2>1, <3>3, <3>4, AvailableChanges
    <3>6. s \notin Unlimited => Target[c][s] >= view[s].reserved
      BY <3>2 DEF Affords
    <3>7. stale'[s] = stale[s] + Excess(p, s)
      BY <1>3, <2>2 DEF Overtaken
    <3> HIDE DEF view
    <3>8. s \notin Unlimited => Covered(s)'
      BY <1>1, <3>2, <3>3, <3>5, <3>6, <3>7, Numbers DEF Covered
    <3> QED BY <2>2, <3>8 DEF Safe
  <2>3. CASE s \notin DOMAIN Target[c]
    <3>1. \A x \in rows : x.sku # s
      BY <2>3 DEF StocktakeRows
    <3> HIDE DEF rows
    <3>2. OnHand(s)' = OnHand(s)
      BY <1>3, <3>1, SameOnHand
    <3>3. OnHand(s)' = OnHand(s) + 0
      BY <3>2, Numbers
    <3>4. Available(s)' = Available(s) + 0 - 0 - 0
      BY <2>1, <3>3, AvailableChanges
    <3>5. stale'[s] = stale[s]
      BY <1>3, <2>3, Numbers DEF Overtaken
    <3> QED BY <1>1, <3>4, <3>5, Numbers DEF Covered, Safe
  <2> QED BY <2>2, <2>3
<1> QED BY <1>2, <1>5 DEF ShortageAccounted, Covered, Spared, Safe

\* A movement takes no more than its request read.
LEMMA AdjustCovers ==
  ASSUME StockInv, Sound', OrderTyped', NEW p \in Session, Adjust(p)
  PROVE  ShortageAccounted' /\ Spared({Move[request[p].id].sku})
<1>1. Granted(p, "adjust") /\ UNCHANGED <<order, due, prize, late>>
  BY DEF Adjust, shop
<1>2. PICK c \in Change : c = request[p].id
  BY <1>1, GrantedId
<1> DEFINE fresh == ~HasRow(<<"adjust", c>>)
           m == [key |-> <<"adjust", c>>, sku |-> Move[c].sku, delta |-> Move[c].delta]
           rows == IF fresh THEN {m} ELSE {}
           skus == IF fresh /\ Move[c].delta < 0 THEN {Move[c].sku} ELSE {}
<1>3. ledger' = ledger \cup rows /\ Overtaken(p, skus)
  BY <1>2 DEF Adjust
<1>4. Move[c].sku \in Sku /\ Move[c].delta \in Int
  BY InventoryAssumption
<1>5. m.sku = Move[c].sku /\ m.delta = Move[c].delta /\ (fresh => m \notin ledger)
  BY DEF HasRow
<1>6. ASSUME NEW s \in Sku PROVE Safe(s, {Move[c].sku})
  <2>1. SumFunction(Bought(s)') = SumFunction(Bought(s)) + 0 /\ SumFunction(Promised(s)') = SumFunction(Promised(s)) + 0
    <3>1. SumFunction(Bought(s)') = SumFunction(Bought(s)) /\ SumFunction(Promised(s)') = SumFunction(Promised(s))
      BY <1>1, SameBought, SamePromised DEF Counts
    <3> QED BY <3>1, Numbers
  <2>2. CASE fresh /\ s = Move[c].sku
    <3>1. rows = {m}
      BY <2>2
    <3> HIDE DEF rows, m, fresh
    <3>2. OnHand(s)' = OnHand(s) + Move[c].delta
      BY <1>3, <1>5, <2>2, <3>1, OnHandWith
    <3>3. Available(s)' = Available(s) + Move[c].delta - 0 - 0
      BY <1>4, <2>1, <3>2, AvailableChanges
    <3>4. CASE Move[c].delta < 0
      <4>1. s \in SkusOf("adjust", c) /\ "adjust" \in Ops \ {"none", "ready"}
        BY <2>2 DEF SkusOf, Ops
      <4> DEFINE seen == request[p].view[s]
      <4>2. /\ seen \in [onHand : Int, reserved : Nat] /\ Excess(p, s) \in Nat
            /\ s \notin Unlimited => Affords("adjust", c, s, seen, Filed)
            /\ seen.onHand - seen.reserved <= Available(s) + Excess(p, s)
        BY <1>1, <1>2, <4>1, GrantedFacts
      <4>3. c \notin Filed
        BY <2>2 DEF Filed, fresh
      <4>4. (s \notin Unlimited => seen.onHand + Move[c].delta >= seen.reserved) /\ seen.onHand \in Int /\ seen.reserved \in Int
        BY <1>4, <3>4, <4>2, <4>3 DEF Affords
      <4>5. stale'[s] = stale[s] + Excess(p, s)
        BY <1>3, <2>2, <3>4 DEF Overtaken
      <4> HIDE DEF seen
      <4>6. s \notin Unlimited => Covered(s)'
        BY <1>1, <1>4, <3>3, <4>2, <4>4, <4>5, Numbers DEF Covered
      <4> QED BY <2>2, <4>6 DEF Safe
    <3>5. CASE ~(Move[c].delta < 0)
      <4>1. stale'[s] = stale[s]
        BY <1>3, <3>5, Numbers DEF Overtaken
      <4> QED BY <1>1, <1>4, <3>3, <3>5, <4>1, Numbers DEF Covered, Safe
    <3> QED BY <3>4, <3>5
  <2>3. CASE ~(fresh /\ s = Move[c].sku)
    <3>1. \A x \in rows : x.sku # s
      BY <1>5, <2>3
    <3>2. s \notin skus
      BY <2>3
    <3> HIDE DEF rows, skus, fresh, m
    <3>3. OnHand(s)' = OnHand(s)
      BY <1>3, <3>1, SameOnHand
    <3>4. OnHand(s)' = OnHand(s) + 0
      BY <3>3, Numbers
    <3>5. Available(s)' = Available(s) + 0 - 0 - 0
      BY <2>1, <3>4, AvailableChanges
    <3>6. stale'[s] = stale[s]
      BY <1>3, <3>2, Numbers DEF Overtaken
    <3> QED BY <1>1, <3>5, <3>6, Numbers DEF Covered, Safe
  <2> QED BY <2>2, <2>3
<1> QED BY <1>2, <1>6 DEF ShortageAccounted, Covered, Spared, Safe

\* A payment takes what its order held, or is late.
LEMMA CommitCovers ==
  ASSUME StockInv, Sound', OrderTyped', NEW o \in Order, CommitOrder(o)
  PROVE  ShortageAccounted' /\ Spared(DOMAIN Wants[o])
<1> DEFINE rows == SaleRows(o)
<1>1. /\ ledger' = ledger \cup rows /\ order' = [order EXCEPT ![o] = "committed"]
      /\ late' = [s \in Sku |-> late[s] + IF Counts(o) \/ s \notin DOMAIN Wants[o] THEN 0 ELSE Wants[o][s]]
      /\ order[o] # "committed" /\ UNCHANGED <<due, prize, stale>>
  BY DEF CommitOrder, shop
<1>2. \A m \in ledger : m.key # <<"reservation", o>>
  <2>1. {m \in ledger : m.key = <<"reservation", o>>} = {}
    BY <1>1 DEF StockInv, IInv, PaidOnce
  <2> QED BY <2>1
<1>3. ~Counts(o)' /\ \A x \in Order : x # o => (Counts(x)' <=> Counts(x))
  BY <1>1 DEF Counts, StockInv, IInv, OrderTyped
<1>4. ASSUME NEW s \in Sku PROVE Safe(s, DOMAIN Wants[o])
  <2>1. SumFunction(Bought(s)') = SumFunction(Bought(s)) - Holds(o, s) + Holds(o, s)'
    BY <1>3, BoughtChanges DEF StockInv, IInv, Sound
  <2>2. Holds(o, s)' = 0
    BY <1>3 DEF Holds
  <2>3. SumFunction(Bought(s)') = SumFunction(Bought(s)) + -Holds(o, s) /\ -Holds(o, s) \in Int
    BY <2>1, <2>2, Numbers
  <2>4. SumFunction(Promised(s)') = SumFunction(Promised(s)) + 0
    <3>1. SumFunction(Promised(s)') = SumFunction(Promised(s))
      BY <1>1, SamePromised
    <3> QED BY <3>1, Numbers
  <2>5. CASE s \in DOMAIN Wants[o]
    <3> DEFINE m == [key |-> <<"reservation", o>>, sku |-> s, delta |-> -Wants[o][s]]
    <3>1. \A x : x \in rows /\ x.sku = s <=> x = m
      BY <2>5 DEF SaleRows
    <3>2. m.sku = s /\ m.delta = -Wants[o][s] /\ m \notin ledger
      BY <1>2
    <3>3. Wants[o][s] \in Nat
      BY <2>5, InventoryAssumption
    <3> HIDE DEF rows, m
    <3>4. OnHand(s)' = OnHand(s) + -Wants[o][s] /\ -Wants[o][s] \in Int
      <4>1. ledger' = ledger \cup rows
        BY <1>1
      <4>2. OnHand(s)' = OnHand(s) + m.delta
        BY <3>1, <3>2, <4>1, OnHandWith
      <4> QED BY <3>2, <3>3, <4>2
    <3>5. Available(s)' = Available(s) + -Wants[o][s] - (-Holds(o, s)) - 0
      BY <2>3, <2>4, <3>4, AvailableChanges
    <3>6. late'[s] = late[s] + (IF Counts(o) THEN 0 ELSE Wants[o][s])
      BY <1>1, <2>5
    <3>7. Holds(o, s) = IF Counts(o) THEN Wants[o][s] ELSE 0
      BY <2>5 DEF Holds
    <3> QED BY <1>1, <3>3, <3>5, <3>6, <3>7, Numbers DEF Covered, Safe
  <2>6. CASE s \notin DOMAIN Wants[o]
    <3>1. \A x \in rows : x.sku # s
      BY <2>6 DEF SaleRows
    <3> HIDE DEF rows
    <3>2. OnHand(s)' = OnHand(s)
      BY <1>1, <3>1, SameOnHand
    <3>3. OnHand(s)' = OnHand(s) + 0
      BY <3>2, Numbers
    <3>4. Available(s)' = Available(s) + 0 - (-Holds(o, s)) - 0
      BY <2>3, <2>4, <3>3, AvailableChanges
    <3>5. late'[s] = late[s] /\ Holds(o, s) = 0
      BY <1>1, <2>6, Numbers DEF Holds
    <3> QED BY <1>1, <3>4, <3>5, Numbers DEF Covered, Safe
  <2> QED BY <2>5, <2>6
<1> QED BY <1>4 DEF ShortageAccounted, Covered, Spared, Safe

\* A cancelled or drawn campaign keeps no more than it did.
LEMMA DrawnCovers ==
  ASSUME StockInv, Sound', OrderTyped', NEW c \in Campaign, CancelCampaign(c) \/ CompleteDraw(c)
  PROVE  ShortageAccounted' /\ Spared({})
<1>1. UNCHANGED <<ledger, order, due, late, stale>>
  BY DEF CancelCampaign, CompleteDraw
<1>2. PrizeSound(c) /\ draw[c] = "scheduled" /\ DOMAIN prize = Campaign
  BY DEF StockInv, PrizeInv, CancelCampaign, CompleteDraw
<1>3. prize[c] = [status |-> "active", quantity |-> Units(c, Prize[c].winners)]
  <2>1. Prize[c].winners \in Nat
    BY InventoryAssumption
  <2>2. Prize[c].winners * Prize[c].units = Units(c, Prize[c].winners)
    BY <2>1, UnitFacts
  <2> QED BY <1>2, <2>2 DEF PrizeSound
<1>4. /\ \A x \in Campaign : x # c => prize'[x] = prize[x]
      /\ prize'[c].status = "active" => prize'[c].quantity \in Nat /\ prize'[c].quantity <= prize[c].quantity
  <2>1. CASE CancelCampaign(c)
    <3>1. prize' = [prize EXCEPT ![c] = [prize[c] EXCEPT !.status = "released"]]
      BY <2>1 DEF CancelCampaign
    <3>2. prize'[c].status = "released"
      BY <1>2, <1>3, <3>1
    <3> QED BY <1>2, <3>1, <3>2
  <2>2. CASE CompleteDraw(c)
    <3>1. PICK selected \in 0..Prize[c].winners :
            prize' = [prize EXCEPT ![c] = [status   |-> IF selected = 0 THEN "released" ELSE "active",
                                           quantity |-> Units(c, selected)]]
      BY <2>2, DrawKeeps DEF StockInv
    <3>2. Prize[c].winners \in Nat /\ selected \in Nat /\ selected <= Prize[c].winners
      BY InventoryAssumption
    <3>3. Units(c, selected) \in Nat /\ Units(c, selected) <= Units(c, Prize[c].winners)
      BY <3>2, UnitFacts
    <3> QED BY <1>2, <1>3, <3>1, <3>3
  <2> QED BY <2>1, <2>2
<1>5. ASSUME NEW s \in Sku PROVE Safe(s, {})
  <2>1. SumFunction(Promised(s)') = SumFunction(Promised(s)) - Keeps(c, s) + Keeps(c, s)'
    BY <1>4, PromisedChanges DEF StockInv, IInv, Sound
  <2>2. Keeps(c, s)' \in Nat /\ Keeps(c, s)' <= Keeps(c, s)
    <3>1. Keeps(c, s) = IF Prize[c].sku = s THEN prize[c].quantity ELSE 0
      BY <1>3 DEF Keeps
    <3>2. Keeps(c, s) \in Nat
      BY Numbers
    <3> QED BY <1>4, <3>1, <3>2 DEF Keeps
  <2> DEFINE keep == Keeps(c, s)' - Keeps(c, s)
  <2>3. keep \in Int /\ keep <= 0 /\ SumFunction(Promised(s)') = SumFunction(Promised(s)) + keep
    BY <2>1, <2>2, Numbers
  <2> HIDE DEF keep
  <2>4. OnHand(s)' = OnHand(s) + 0 /\ SumFunction(Bought(s)') = SumFunction(Bought(s)) + 0
    <3>1. OnHand(s)' = OnHand(s) /\ SumFunction(Bought(s)') = SumFunction(Bought(s))
      BY <1>1, SameBought DEF OnHand, Counts
    <3> QED BY <3>1, Numbers
  <2>5. Available(s)' = Available(s) + 0 - 0 - keep
    BY <2>3, <2>4, AvailableChanges
  <2> QED BY <1>1, <2>3, <2>5, Numbers DEF Covered, Safe
<1> QED BY <1>5 DEF ShortageAccounted, Covered, Spared, Safe

\* A prize that is handed over takes the units its reservation gives up.
LEMMA FulfilCovers ==
  ASSUME StockInv, Sound', OrderTyped', NEW c \in Campaign, NEW r \in Ranks(c),
         DeliverPrize(c, r) \/ CancelPrize(c, r)
  PROVE  ShortageAccounted' /\ Spared({})
<1> DEFINE m == [key |-> <<"fulfillment", <<c, r>>>>, sku |-> Prize[c].sku, delta |-> -Prize[c].units]
<1>1. PICK status : Fulfilled(c, r, status, ledger')
  BY DEF DeliverPrize, CancelPrize, Fulfilled
<1>2. UNCHANGED <<order, due, late, stale>>
  BY <1>1 DEF Fulfilled
<1>3. ledger' = ledger \/ ledger' = ledger \cup {m}
  BY DEF DeliverPrize, CancelPrize, Fulfilled
<1>4. m.sku = Prize[c].sku /\ m.delta = -Prize[c].units
  OBVIOUS
<1> HIDE DEF m
<1>5. /\ prize[c].status = "active" /\ prize[c].quantity \in Nat /\ Prize[c].units \in Nat \ {0}
      /\ prize[c].quantity >= Prize[c].units
      /\ prize'[c] = Consumed(c, ledger') /\ \A x \in Campaign : x # c => prize'[x] = prize[x]
  BY <1>1, FulfilledFacts
<1>6. /\ prize'[c].quantity = prize[c].quantity - Prize[c].units
      /\ prize'[c].status # "active" => prize[c].quantity - Prize[c].units = 0
  BY <1>5 DEF Consumed
<1>7. ASSUME NEW s \in Sku PROVE Safe(s, {})
  <2> DEFINE units == IF Prize[c].sku = s THEN Prize[c].units ELSE 0
  <2>1. units \in Nat
    BY <1>5
  <2>2. SumFunction(Promised(s)') = SumFunction(Promised(s)) - Keeps(c, s) + Keeps(c, s)'
    BY <1>5, PromisedChanges DEF StockInv, IInv, Sound
  <2>3. Keeps(c, s)' = Keeps(c, s) - units
    BY <1>5, <1>6 DEF Keeps
  <2> HIDE DEF units
  <2>4. SumFunction(Promised(s)') = SumFunction(Promised(s)) + -units /\ -units \in Int
    BY <2>1, <2>2, <2>3, Numbers
  <2>5. SumFunction(Bought(s)') = SumFunction(Bought(s)) + 0
    <3>1. SumFunction(Bought(s)') = SumFunction(Bought(s))
      BY <1>2, SameBought DEF Counts
    <3> QED BY <3>1, Numbers
  <2>6. PICK gain \in Int : gain >= -units /\ OnHand(s)' = OnHand(s) + gain
    <3>1. CASE ledger' = ledger \cup {m} /\ Prize[c].sku = s /\ m \notin ledger
      <4>1. OnHand(s)' = OnHand(s) + m.delta
        BY <1>4, <3>1, OnHandWith
      <4> QED BY <1>4, <2>1, <3>1, <4>1 DEF units
    <3>2. CASE ~(ledger' = ledger \cup {m} /\ Prize[c].sku = s /\ m \notin ledger)
      <4>1. \A x : (x \in ledger' /\ x.sku = s) <=> (x \in ledger /\ x.sku = s)
        BY <1>3, <1>4, <3>2
      <4>2. OnHand(s)' = OnHand(s)
        BY <4>1, SameOnHand
      <4>3. OnHand(s)' = OnHand(s) + 0 /\ 0 >= -units
        BY <2>1, <4>2, Numbers
      <4> QED BY <4>3
    <3> QED BY <3>1, <3>2
  <2>7. Available(s)' = Available(s) + gain - 0 - (-units)
    BY <2>4, <2>5, <2>6, AvailableChanges
  <2> QED BY <1>2, <2>1, <2>6, <2>7, Numbers DEF Covered, Safe
<1> QED BY <1>7 DEF ShortageAccounted, Covered, Spared, Safe

-----------------------------------------------------------------------------

\* Every step.
LEMMA StockStep == StockInv /\ [Next]_vars => StockInv'
<1> SUFFICES ASSUME StockInv, [Next]_vars PROVE StockInv'
  OBVIOUS
<1>1. IInv' /\ PrizeInv' /\ LocksAscend' /\ OrderTyped'
  <2>1. IInv' /\ PrizeInv' /\ LocksAscend'
    BY Step, PrizeStep, LockStep DEF StockInv
  <2> QED BY <2>1 DEF IInv
<1>2. SUFFICES Sound' /\ ShortageAccounted'
  BY <1>1, <1>2 DEF StockInv, Sound
<1>3. ASSUME NEW p \in Session,
             \/ BeginReserve(p) \/ BeginCampaign(p) \/ BeginStocktake(p) \/ BeginAdjust(p) \/ BeginReady(p)
             \/ Read(p) \/ Lock(p) \/ Timeout(p)
      PROVE  Sound' /\ ShortageAccounted'
  BY <1>3, WaitSound, QuietCovers DEF shop
<1>4. ASSUME NEW p \in Session, Reserve(p) PROVE Sound' /\ ShortageAccounted'
  BY <1>1, <1>4, ReserveSound, ReserveCovers
<1>5. ASSUME NEW p \in Session, CreateCampaign(p) PROVE Sound' /\ ShortageAccounted'
  BY <1>1, <1>5, CampaignSound, CampaignCovers
<1>6. ASSUME NEW p \in Session, Stocktake(p) PROVE Sound' /\ ShortageAccounted'
  BY <1>1, <1>6, StocktakeSound, StocktakeCovers
<1>7. ASSUME NEW p \in Session, Adjust(p) PROVE Sound' /\ ShortageAccounted'
  BY <1>1, <1>7, AdjustSound, AdjustCovers
<1>8. ASSUME NEW p \in Session, MarkReady(p) PROVE Sound' /\ ShortageAccounted'
  BY <1>8, ReadySound, QuietCovers DEF MarkReady
<1>9. ASSUME NEW o \in Order, Replay(o) \/ ReleaseOrder(o) \/ BecomeDue(o)
      PROVE  Sound' /\ ShortageAccounted'
  BY <1>1, <1>9, OrderSound, OrderCovers
<1>10. ASSUME NEW o \in Order, CommitOrder(o) PROVE Sound' /\ ShortageAccounted'
  BY <1>1, <1>10, CommitSound, CommitCovers
<1>11. ASSUME NEW c \in Campaign, CancelCampaign(c) \/ CompleteDraw(c)
       PROVE  Sound' /\ ShortageAccounted'
  BY <1>1, <1>11, DrawnSound, DrawnCovers
<1>12. ASSUME NEW c \in Campaign, NEW r \in Ranks(c), DeliverPrize(c, r) \/ CancelPrize(c, r)
       PROVE  Sound' /\ ShortageAccounted'
  BY <1>1, <1>12, FulfilSound, FulfilCovers
<1>13. CASE UNCHANGED vars
  <2>1. LedgerSound' /\ RequestsSound'
    BY <1>13, LedgerStays, RequestsStay DEF vars, shop, StockInv
  <2>2. RowsSound' /\ UNCHANGED <<ledger, order, due, prize, late, stale>>
    BY <1>13 DEF vars, shop, StockInv, RowsSound
  <2> QED BY <2>1, <2>2, QuietCovers DEF Sound
<1> QED BY <1>3, <1>4, <1>5, <1>6, <1>7, <1>8, <1>9, <1>10, <1>11, <1>12, <1>13 DEF Next

\* The first state.
LEMMA StockInit == Init => StockInv
<1> SUFFICES ASSUME Init PROVE StockInv
  OBVIOUS
<1>1. IInv /\ PrizeInv /\ LocksAscend
  BY InitSound, PrizeInit, InitAscends
<1>2. LedgerSound
  BY FS_EmptySet DEF Init, LedgerSound
<1>3. RowsSound
  <2>1. {o \in Order : order[o] # "none"} = {} /\ {c \in Campaign : prize[c].status # "none"} = {}
    BY DEF Init
  <2> QED BY <2>1, FS_EmptySet DEF Init, RowsSound
<1>4. RequestsSound
  BY DEF Init, RequestsSound, OneStocktake, RequestSound, Idle
<1>5. ASSUME NEW s \in Sku PROVE Available(s) = 0
  <2>1. DOMAIN Deltas(s) = {} /\ DOMAIN Bought(s) = {} /\ DOMAIN Promised(s) = {}
    BY DEF Init, Deltas, Bought, Promised, Counts
  <2>2. \A f : DOMAIN f = {} => SumFunction(f) = 0
    BY FS_EmptySet, SumUnfolds DEF SumFunction
  <2>3. SumFunction(Deltas(s)) = 0 /\ SumFunction(Bought(s)) = 0 /\ SumFunction(Promised(s)) = 0
    BY <2>1, <2>2
  <2> QED BY <2>3 DEF Available, OnHand, Reserved, Deltas, Bought, Promised
<1>6. ShortageAccounted
  BY <1>5 DEF Init, ShortageAccounted
<1> QED BY <1>1, <1>2, <1>3, <1>4, <1>6 DEF StockInv

LEMMA StockInvariant == Spec => []StockInv
BY StockInit, StockStep, PTL DEF Spec

\* reserve_inventory, create_reward_campaign, stocktake and adjust_inventory
\* against payments, releases, expiries, draws and prizes, however many run at
\* once: what a shop has promised beyond what it owns is never more than the
\* units of late payments and those by which a lock's sums were out of date.
THEOREM ShortageIsAccounted == Spec => []ShortageAccounted
<1>1. StockInv => ShortageAccounted
  BY DEF StockInv
<1> QED BY <1>1, StockInvariant, PTL

\* Every row the handlers write and every sum a request reads has its type:
\* in particular no reservation of a prize falls below zero.
THEOREM InventoryTyped == Spec => []TypeOK
<1>1. StockInv => TypeOK
  <2> SUFFICES ASSUME StockInv PROVE TypeOK
    OBVIOUS
  <2>1. /\ ledger \subseteq Movement /\ due \subseteq Order
        /\ order \in [Order -> {"none", "active", "expired", "released", "committed"}]
    BY DEF StockInv, LedgerSound, IInv, OrderTyped
  <2>2. \A c \in Campaign : winner[c] \in [Ranks(c) -> {"none", "pending", "delivered", "cancelled"}]
    BY DEF StockInv, PrizeInv, PrizeSound
  <2>3. ASSUME NEW p \in Session, request[p] # Idle
        PROVE  /\ request[p].op \in Ops \ {"none"}
               /\ request[p].expiring \subseteq Order
               /\ \A s \in DOMAIN request[p].view :
                    s \in Sku /\ request[p].view[s] \in [onHand : Int, reserved : Nat]
    <3>1. RequestSound(request[p], due, Filed, taken)
      BY DEF StockInv, RequestsSound
    <3> QED BY <2>1, <2>3, <3>1 DEF RequestSound
  <2> QED BY <2>1, <2>2, <2>3 DEF TypeOK, StockInv, RowsSound
<1> QED BY <1>1, StockInvariant, PTL

-----------------------------------------------------------------------------
(* What a lock is good for.                                                *)

\* A variant is locked by one request.
LocksExclusive == \A p, q \in Session : \A s \in Locks(p) \cap Locks(q) : p = q

\* What a request that looks like t has locked.
LocksOf(t) == IF t.op = "none" THEN {} ELSE SkusOf(t.op, t.id) \ t.todo

\* One request moves, and locks at most a variant that nobody had.
OneLocks(p) ==
  /\ \A q \in Session : q # p => Locks(q)' = Locks(q)
  /\ \A s \in Locks(p)' : s \in Locks(p) \/ ~Locked(s)

LEMMA LocksMove ==
  ASSUME StockInv, NEW p \in Session, NEW new, request' = [request EXCEPT ![p] = new],
         \A s \in LocksOf(new) : s \in Locks(p) \/ ~Locked(s)
  PROVE  OneLocks(p)
<1>1. DOMAIN request = Session
  BY DEF StockInv, LocksAscend
<1>2. Locks(p)' = LocksOf(new)
  BY <1>1 DEF Locks, LocksOf
<1>3. \A q \in Session : q # p => Locks(q)' = Locks(q)
  BY <1>1 DEF Locks
<1> QED BY <1>2, <1>3 DEF OneLocks

\* A request that ends locks nothing.
LEMMA EndUnlocks ==
  ASSUME StockInv, NEW p \in Session, Done(p)
  PROVE  OneLocks(p) /\ Locks(p)' = {}
<1>1. request' = [request EXCEPT ![p] = Idle] /\ LocksOf(Idle) = {}
  BY DEF Done, LocksOf, Idle
<1>2. Locks(p)' = {}
  BY <1>1 DEF Locks, LocksOf, StockInv, LocksAscend
<1> HIDE DEF Idle
<1> QED BY <1>1, <1>2, LocksMove

\* Only a grant locks.
LEMMA WaitLocks ==
  ASSUME StockInv, NEW p \in Session,
         \/ BeginReserve(p) \/ BeginCampaign(p) \/ BeginStocktake(p) \/ BeginAdjust(p) \/ BeginReady(p)
         \/ Read(p) \/ Lock(p) \/ Timeout(p)
  PROVE  OneLocks(p)
<1>1. CASE BeginReserve(p) \/ BeginCampaign(p) \/ BeginStocktake(p) \/ BeginAdjust(p) \/ BeginReady(p)
  <2>1. PICK op, id : Begin(p, op, id)
    BY <1>1 DEF BeginReserve, BeginCampaign, BeginStocktake, BeginAdjust, BeginReady
  <2> DEFINE new == [op |-> op, id |-> id, todo |-> SkusOf(op, id), view |-> <<>>,
                     expiring |-> IF op = "reserve" THEN DueOrders ELSE {}]
  <2>2. request' = [request EXCEPT ![p] = new] /\ LocksOf(new) = {}
    BY <2>1 DEF Begin, LocksOf
  <2> HIDE DEF new
  <2> QED BY <2>2, LocksMove
<1>2. CASE Read(p)
  <2>1. Ascends(request[p]) /\ request[p].op # "none"
    BY <1>2 DEF Read, StockInv, LocksAscend
  <2>2. PICK value : request' = [request EXCEPT ![p] = [request[p] EXCEPT !.view = value]]
    BY <1>2 DEF Read, StockInv, LocksAscend
  <2> DEFINE new == [request[p] EXCEPT !.view = value]
  <2>3. new.op = request[p].op /\ new.id = request[p].id /\ new.todo = request[p].todo
    BY <2>1 DEF Ascends
  <2>4. request' = [request EXCEPT ![p] = new]
    BY <2>2
  <2> HIDE DEF new
  <2>5. LocksOf(new) = Locks(p)
    BY <2>3 DEF LocksOf, Locks
  <2> QED BY <2>4, <2>5, LocksMove
<1>3. CASE Lock(p)
  <2>1. CASE Done(p)
    BY <2>1, EndUnlocks
  <2>2. CASE ~Done(p)
    <3> DEFINE t == request[p]
               s == Upcoming(t)
               new == [t EXCEPT !.todo = t.todo \ {s}]
    <3>1. t.op # "none" /\ Ascends(t) /\ ~Locked(s)
      BY <1>3 DEF Lock, StockInv, LocksAscend
    <3>2. request' = [request EXCEPT ![p] = new]
      BY <1>3, <2>2 DEF Lock, Done
    <3> HIDE DEF s
    <3>3. new.op = t.op /\ new.id = t.id /\ new.todo = t.todo \ {s}
      BY <3>1 DEF Ascends
    <3> HIDE DEF new
    <3>4. \A x \in LocksOf(new) : x \in Locks(p) \/ x = s
      BY <3>1, <3>3 DEF LocksOf, Locks
    <3> QED BY <3>1, <3>2, <3>4, LocksMove
  <2> QED BY <2>1, <2>2
<1>4. CASE Timeout(p)
  BY <1>4, EndUnlocks DEF Timeout
<1> QED BY <1>1, <1>2, <1>3, <1>4

\* A lock is granted to one request at a time.
LEMMA OneHolder ==
  ASSUME LocksExclusive, NEW p \in Session, OneLocks(p)
  PROVE  LocksExclusive'
<1> SUFFICES ASSUME NEW q \in Session, NEW r \in Session, q # r, NEW s \in Locks(q)' \cap Locks(r)'
             PROVE  FALSE
  BY DEF LocksExclusive
<1>1. \A x, y \in Session : x # y => ~(s \in Locks(x) /\ s \in Locks(y))
  BY DEF LocksExclusive
<1>2. CASE p # q /\ p # r
  BY <1>1, <1>2 DEF OneLocks
<1>3. CASE p = q
  BY <1>1, <1>3 DEF OneLocks, Locked
<1>4. CASE p = r
  BY <1>1, <1>4 DEF OneLocks, Locked
<1> QED BY <1>2, <1>3, <1>4

\* What is spared for one who holds a lock throughout the step.
Held(s) == \E q \in Session : s \in Locks(q) /\ s \in Locks(q)'

\* A request that ends takes only of what it had locked, and so of nothing that
\* is another's.
LEMMA OwnTakes ==
  ASSUME StockInv, LocksExclusive, NEW p \in Session, Done(p),
         request[p].op # "none", request[p].todo = {},
         Spared(SkusOf(request[p].op, request[p].id))
  PROVE  \A s \in Sku : Held(s) => Available(s)' >= Available(s)
<1> SUFFICES ASSUME NEW s \in Sku, NEW q \in Session, s \in Locks(q), s \in Locks(q)'
             PROVE  Available(s)' >= Available(s)
  BY DEF Held
<1>1. q # p
  BY EndUnlocks
<1>2. s \notin Locks(p)
  BY <1>1 DEF LocksExclusive
<1>3. s \notin SkusOf(request[p].op, request[p].id)
  BY <1>2 DEF Locks
<1> QED BY <1>3 DEF Spared

\* Every step keeps the locks apart and takes of nothing that stays locked.
LEMMA HoldStep ==
  ASSUME StockInv, StockInv', LocksExclusive, [Next]_vars
  PROVE  /\ LocksExclusive'
         /\ \A s \in Sku : Held(s) => Available(s)' >= Available(s)
<1> DEFINE Goal == /\ LocksExclusive'
                   /\ \A s \in Sku : Held(s) => Available(s)' >= Available(s)
<1> SUFFICES Goal
  OBVIOUS
<1>0. Sound' /\ OrderTyped'
  BY DEF StockInv, Sound, IInv
<1>1. ASSUME request' = request, Spared({})
      PROVE  Goal
  BY <1>1 DEF LocksExclusive, Locks, Spared
<1>2. ASSUME NEW p \in Session,
             \/ BeginReserve(p) \/ BeginCampaign(p) \/ BeginStocktake(p) \/ BeginAdjust(p) \/ BeginReady(p)
             \/ Read(p) \/ Lock(p) \/ Timeout(p)
      PROVE  Goal
  BY <1>2, WaitSound, WaitLocks, OneHolder, QuietCovers DEF shop, Spared
<1>3. ASSUME NEW p \in Session, NEW op \in Ops \ {"none"}, Granted(p, op), Done(p),
             Spared(SkusOf(op, request[p].id))
      PROVE  Goal
  BY <1>3, EndUnlocks, OneHolder, OwnTakes DEF Granted
<1>4. ASSUME NEW p \in Session, Reserve(p)
      PROVE  Goal
  <2>1. Granted(p, "reserve") /\ Done(p) /\ SkusOf("reserve", request[p].id) = DOMAIN Wants[request[p].id]
    BY <1>4 DEF Reserve, SkusOf
  <2> QED BY <1>0, <1>3, <1>4, <2>1, ReserveCovers DEF Ops
<1>5. ASSUME NEW p \in Session, CreateCampaign(p)
      PROVE  Goal
  <2>1. Granted(p, "campaign") /\ Done(p) /\ SkusOf("campaign", request[p].id) = {Prize[request[p].id].sku}
    BY <1>5 DEF CreateCampaign, SkusOf
  <2> QED BY <1>0, <1>3, <1>5, <2>1, CampaignCovers DEF Ops
<1>6. ASSUME NEW p \in Session, Stocktake(p)
      PROVE  Goal
  <2>1. Granted(p, "stocktake") /\ Done(p) /\ SkusOf("stocktake", request[p].id) = DOMAIN Target[request[p].id]
    BY <1>6 DEF Stocktake, SkusOf
  <2> QED BY <1>0, <1>3, <1>6, <2>1, StocktakeCovers DEF Ops
<1>7. ASSUME NEW p \in Session, Adjust(p)
      PROVE  Goal
  <2>1. Granted(p, "adjust") /\ Done(p) /\ SkusOf("adjust", request[p].id) = {Move[request[p].id].sku}
    BY <1>7 DEF Adjust, SkusOf
  <2> QED BY <1>0, <1>3, <1>7, <2>1, AdjustCovers DEF Ops
<1>8. ASSUME NEW p \in Session, MarkReady(p)
      PROVE  Goal
  <2>1. Granted(p, "ready") /\ Done(p) /\ UNCHANGED <<ledger, order, due, prize, late, stale>>
    BY <1>8 DEF MarkReady
  <2>2. Spared(SkusOf("ready", request[p].id))
    BY <2>1, QuietCovers DEF Spared
  <2> QED BY <1>3, <2>1, <2>2 DEF Ops
<1>9. ASSUME NEW o \in Order, Replay(o) \/ ReleaseOrder(o) \/ BecomeDue(o)
      PROVE  Goal
  BY <1>0, <1>1, <1>9, OrderCovers DEF Replay, ReleaseOrder, BecomeDue
<1>10. ASSUME NEW o \in Order, CommitOrder(o)
       PROVE  Goal
  <2>1. request' = request /\ Spared(DOMAIN Wants[o]) /\ \A s \in DOMAIN Wants[o] : ~Locked(s)
    BY <1>0, <1>10, CommitCovers DEF CommitOrder
  <2>2. LocksExclusive'
    BY <2>1 DEF LocksExclusive, Locks
  <2> QED BY <2>1, <2>2 DEF Held, Locked, Spared
<1>11. ASSUME NEW c \in Campaign, CancelCampaign(c) \/ CompleteDraw(c)
       PROVE  Goal
  BY <1>0, <1>1, <1>11, DrawnCovers DEF CancelCampaign, CompleteDraw
<1>12. ASSUME NEW c \in Campaign, NEW r \in Ranks(c), DeliverPrize(c, r) \/ CancelPrize(c, r)
       PROVE  Goal
  BY <1>0, <1>1, <1>12, FulfilCovers DEF DeliverPrize, CancelPrize, Fulfilled
<1>13. CASE UNCHANGED vars
  BY <1>1, <1>13, QuietCovers DEF vars, shop
<1> QED BY <1>2, <1>4, <1>5, <1>6, <1>7, <1>8, <1>9, <1>10, <1>11, <1>12, <1>13 DEF Next

\* lock_variant_availability: from the moment a request holds a variant's row
\* until it commits, nobody else takes of it - not another request, a payment,
\* a draw or a prize.  What a decision may be wrong about is what happened while
\* it waited for the lock, and nothing else.
THEOREM LocksHold == Spec => LockHolds
<1>1. Init => LocksExclusive
  BY DEF Init, LocksExclusive, Locks, Idle
<1>2. StockInv /\ StockInv' /\ LocksExclusive /\ [Next]_vars => LocksExclusive'
  BY HoldStep
<1>3. StockInv /\ StockInv' /\ LocksExclusive /\ [Next]_vars
        => [\A p \in Session, s \in Sku :
              s \in Locks(p) /\ s \in Locks(p)' => Available(s)' >= Available(s)]_vars
  BY HoldStep DEF Held
<1> QED BY <1>1, <1>2, <1>3, StockInvariant, PTL DEF Spec, LockHolds
=============================================================================
