--------------------------- MODULE InventoryProofs --------------------------
(***************************************************************************)
(* Proofs about Inventory, for any variants, requests, orders, campaigns,  *)
(* stocktakes and movements: an order takes its units out of stock once,   *)
(* when it ends as paid, requests that lock in SKU order never wait for    *)
(* each other in a circle, and a campaign's prizes are accounted for.      *)
(*                                                                         *)
(* What could undo it is a request that has swept an order it found        *)
(* expired and has not committed: it would turn a payment into an expiry.  *)
(* The row lock of its update keeps the payment waiting, so ExpiringUnpaid *)
(* is the strengthening that makes PaidOnce inductive.  What excludes a    *)
(* circle is LocksAscend: a request's locked variants come before those it *)
(* still needs, so along a chain of waiting requests the places only grow. *)
(***************************************************************************)
EXTENDS Inventory, FiniteSetTheorems, TLAPS

\* No request is about to commit the expiry of an order that was paid.
ExpiringUnpaid == \A o \in Expiring : o \in Order /\ order[o] # "committed"

OrderTyped == order \in [Order -> {"none", "active", "expired", "released", "committed"}]

\* A request in flight has an operation and the orders it has swept.
Shaped(r) == r.op # "none" => {"op", "expiring"} \subseteq DOMAIN r

RequestsShaped == DOMAIN request = Session /\ \A p \in Session : Shaped(request[p])

IInv == OrderTyped /\ due \subseteq Order /\ RequestsShaped /\ ExpiringUnpaid /\ PaidOnce

\* The rows of the ledger an order accounts for.
RowsOf(o) == {m \in ledger : m.key = <<"reservation", o>>}

-----------------------------------------------------------------------------
(* What the kinds of step keep.                                            *)

\* Rows of anything but a reservation are no order's rows.
LEMMA OtherRows ==
  ASSUME PaidOnce, NEW rows, ledger' = ledger \cup rows, order' = order,
         \A m \in rows : m.key[1] # "reservation"
  PROVE  PaidOnce'
<1> SUFFICES ASSUME NEW o \in Order
             PROVE  {m \in ledger' : m.key = <<"reservation", o>>} = RowsOf(o)
  BY DEF PaidOnce, RowsOf, SaleRows
<1>1. \A m \in rows : m.key # <<"reservation", o>>
  OBVIOUS
<1> QED BY <1>1 DEF RowsOf

\* With the ledger as it is, an order may become anything but paid, and one that
\* is paid stays so.
LEMMA SameRows ==
  ASSUME PaidOnce, ledger' = ledger,
         \A o \in Order : order[o] = "committed" <=> order'[o] = "committed"
  PROVE  PaidOnce'
BY DEF PaidOnce, SaleRows

\* What a request may become: over, just begun, or further on with what it has
\* swept.
Moves(p, new) ==
  /\ request' = [request EXCEPT ![p] = new]
  /\ Shaped(new)
  /\ \/ new.op = "none"
     \/ new.expiring \subseteq DueOrders
     \/ request[p].op # "none" /\ new.expiring = request[p].expiring

\* The lock a sweep holds outlives whatever the request does next.
LEMMA MovesKeep ==
  ASSUME IInv, NEW p \in Session, NEW new, Moves(p, new),
         \A o \in Order : order'[o] = "committed" => order[o] = "committed"
  PROVE  RequestsShaped' /\ ExpiringUnpaid'
<1>1. RequestsShaped'
  BY DEF IInv, RequestsShaped, Moves
<1>2. ASSUME NEW q \in Session, request'[q].op # "none", NEW o \in request'[q].expiring
      PROVE  o \in Expiring \/ o \in DueOrders
  <2>1. CASE q # p
    <3>1. request'[q] = request[q]
      BY <2>1 DEF Moves, IInv, RequestsShaped
    <3> QED BY <1>2, <3>1 DEF Expiring
  <2>2. CASE q = p
    <3>1. request'[q] = new
      BY <2>2 DEF Moves, IInv, RequestsShaped
    <3> QED BY <1>2, <2>2, <3>1 DEF Expiring, Moves
  <2> QED BY <2>1, <2>2
<1>3. \A o \in Expiring' : o \in Expiring \/ o \in DueOrders
  BY <1>2 DEF Expiring
<1>4. \A o \in DueOrders : o \in Order /\ order[o] # "committed"
  BY DEF IInv, DueOrders
<1> QED BY <1>1, <1>3, <1>4 DEF IInv, ExpiringUnpaid

\* A request moves on and the rows stay, but for orders that do not become paid.
LEMMA RequestStep ==
  ASSUME IInv, NEW p \in Session, NEW new, Moves(p, new), UNCHANGED <<ledger, due>>, OrderTyped',
         \A o \in Order : order[o] = "committed" <=> order'[o] = "committed"
  PROVE  IInv'
BY MovesKeep, SameRows DEF IInv

\* A request writes rows of its own kind and is over.
LEMMA WritingStep ==
  ASSUME IInv, NEW p \in Session, Done(p), UNCHANGED <<order, due>>,
         NEW rows, ledger' = ledger \cup rows, \A m \in rows : m.key[1] # "reservation"
  PROVE  IInv'
<1>1. Moves(p, Idle)
  BY DEF Done, Moves, Shaped, Idle
<1> QED BY <1>1, MovesKeep, OtherRows DEF IInv, OrderTyped

\* The requests stay as they are.
LEMMA QuietStep ==
  ASSUME IInv, request' = request, due' \subseteq Order, OrderTyped', ledger' = ledger,
         \A o \in Order : order[o] = "committed" <=> order'[o] = "committed"
  PROVE  IInv'
<1>1. PaidOnce'
  BY SameRows DEF IInv
<1>2. Expiring' = Expiring
  BY DEF Expiring
<1>3. ExpiringUnpaid' /\ RequestsShaped'
  BY <1>2 DEF IInv, ExpiringUnpaid, RequestsShaped, Shaped
<1> QED BY <1>1, <1>3 DEF IInv

\* commit_inventory files the order's rows the first time, for they were not
\* there: no other path files them.
LEMMA CommitStep ==
  ASSUME IInv, NEW o \in Order, CommitOrder(o)
  PROVE  IInv'
<1>1. /\ ledger' = ledger \cup SaleRows(o) /\ order' = [order EXCEPT ![o] = "committed"]
      /\ order[o] # "committed" /\ o \notin Expiring /\ UNCHANGED <<due, request>>
  BY DEF CommitOrder, shop
<1>2. OrderTyped'
  BY <1>1 DEF IInv, OrderTyped
<1>3. \A m \in SaleRows(o) : m.key = <<"reservation", o>>
  BY DEF SaleRows
<1>4. ASSUME NEW x \in Order
      PROVE  {m \in ledger' : m.key = <<"reservation", x>>}
               = IF order'[x] = "committed" THEN SaleRows(x) ELSE {}
  <2>1. RowsOf(x) = IF order[x] = "committed" THEN SaleRows(x) ELSE {}
    BY DEF IInv, PaidOnce, RowsOf
  <2>2. CASE x = o
    <3>1. RowsOf(x) = {} /\ order'[x] = "committed"
      BY <1>1, <2>1, <2>2 DEF IInv, OrderTyped
    <3>2. {m \in ledger' : m.key = <<"reservation", x>>} = SaleRows(x)
      BY <1>1, <1>3, <2>2, <3>1 DEF RowsOf
    <3> QED BY <3>1, <3>2
  <2>3. CASE x # o
    <3>1. <<"reservation", x>> # <<"reservation", o>>
      BY <2>3
    <3>2. {m \in ledger' : m.key = <<"reservation", x>>} = RowsOf(x)
      BY <1>1, <1>3, <3>1 DEF RowsOf
    <3>3. order'[x] = order[x]
      BY <1>1, <2>3 DEF IInv, OrderTyped
    <3> QED BY <2>1, <3>2, <3>3
  <2> QED BY <2>2, <2>3
<1>5. PaidOnce'
  <2>1. \A x \in Order : SaleRows(x)' = SaleRows(x)
    BY DEF SaleRows
  <2> QED BY <1>4, <2>1 DEF PaidOnce
<1>6. Expiring' = Expiring
  BY <1>1 DEF Expiring
<1>7. ExpiringUnpaid' /\ RequestsShaped'
  BY <1>1, <1>6 DEF IInv, ExpiringUnpaid, RequestsShaped, Shaped, OrderTyped
<1> QED BY <1>1, <1>2, <1>5, <1>7 DEF IInv

-----------------------------------------------------------------------------
(* The requests.                                                           *)

\* A request begins, sweeping only orders that are due and active.
LEMMA BeginStep ==
  ASSUME IInv, NEW p \in Session, NEW op, op # "none", NEW id, Begin(p, op, id)
  PROVE  IInv'
<1> DEFINE new == [op |-> op, id |-> id, todo |-> SkusOf(op, id), view |-> <<>>,
                   expiring |-> IF op = "reserve" THEN DueOrders ELSE {}]
<1>1. request' = [request EXCEPT ![p] = new] /\ UNCHANGED <<ledger, order, due>>
  BY DEF Begin
<1>2. Shaped(new) /\ new.expiring \subseteq DueOrders
  BY DEF Shaped
<1> HIDE DEF new
<1>3. Moves(p, new)
  BY <1>1, <1>2 DEF Moves
<1> QED BY <1>1, <1>3, RequestStep DEF IInv, OrderTyped

\* Reading, locking, being refused and timing out.
LEMMA WaitStep ==
  ASSUME IInv, NEW p \in Session, Read(p) \/ Lock(p) \/ Timeout(p)
  PROVE  IInv'
<1>1. UNCHANGED <<ledger, order, due>> /\ request[p].op # "none"
  BY DEF Read, Lock, Timeout
<1>2. /\ Shaped(request[p]) /\ DOMAIN request = Session
      /\ {"op", "expiring"} \subseteq DOMAIN request[p]
  BY <1>1 DEF IInv, RequestsShaped, Shaped
<1>3. ASSUME NEW r, Shaped(r), r.op # "none", NEW value
      PROVE  /\ Shaped([r EXCEPT !.view = value]) /\ [r EXCEPT !.view = value].expiring = r.expiring
             /\ Shaped([r EXCEPT !.todo = value]) /\ [r EXCEPT !.todo = value].expiring = r.expiring
  BY <1>3 DEF Shaped
<1>4. PICK new : Moves(p, new)
  <2>1. CASE Read(p)
    <3>1. PICK value : request' = [request EXCEPT ![p] = [request[p] EXCEPT !.view = value]]
      BY <2>1, <1>2 DEF Read
    <3>2. Moves(p, [request[p] EXCEPT !.view = value])
      BY <1>1, <1>2, <1>3, <3>1 DEF Moves
    <3> QED BY <3>2
  <2>2. CASE Lock(p)
    <3>1. CASE Done(p)
      <4>1. Moves(p, Idle)
        BY <3>1 DEF Done, Moves, Shaped, Idle
      <4> QED BY <4>1
    <3>2. CASE ~Done(p)
      <4>1. PICK value : request' = [request EXCEPT ![p] = [request[p] EXCEPT !.todo = value]]
        BY <2>2, <3>2 DEF Lock, Done
      <4>2. Moves(p, [request[p] EXCEPT !.todo = value])
        BY <1>1, <1>2, <1>3, <4>1 DEF Moves
      <4> QED BY <4>2
    <3> QED BY <3>1, <3>2
  <2>3. CASE Timeout(p)
    <3>1. Moves(p, Idle)
      BY <2>3 DEF Timeout, Done, Moves, Shaped, Idle
    <3> QED BY <3>1
  <2> QED BY <1>1, <2>1, <2>2, <2>3
<1> QED BY <1>1, <1>4, RequestStep DEF IInv, OrderTyped

\* A reservation commits the expiries it swept, none of them of a paid order.
LEMMA ReserveStep ==
  ASSUME IInv, NEW p \in Session, Reserve(p)
  PROVE  IInv'
<1>1. Moves(p, Idle) /\ UNCHANGED <<ledger, due>>
  BY DEF Reserve, Done, Moves, Shaped, Idle
<1>2. \A o \in request[p].expiring : order[o] # "committed"
  BY DEF Reserve, Granted, Expiring, IInv, ExpiringUnpaid
<1>3. \/ order' = order
      \/ \E o : order[o] = "none" /\ order' = [Swept(request[p].expiring) EXCEPT ![o] = "active"]
  BY DEF Reserve
<1>4. OrderTyped' /\ \A o \in Order : order[o] = "committed" <=> order'[o] = "committed"
  BY <1>2, <1>3 DEF IInv, OrderTyped, Swept
<1> QED BY <1>1, <1>4, RequestStep

-----------------------------------------------------------------------------

\* Every step.
LEMMA Step == IInv /\ [Next]_vars => IInv'
<1> SUFFICES ASSUME IInv, [Next]_vars PROVE IInv'
  OBVIOUS
<1>0. OrderTyped /\ due \subseteq Order
  BY DEF IInv
<1>1. ASSUME NEW p \in Session,
             BeginReserve(p) \/ BeginCampaign(p) \/ BeginStocktake(p) \/ BeginAdjust(p) \/ BeginReady(p)
      PROVE  IInv'
  <2>1. PICK op, id : op # "none" /\ Begin(p, op, id)
    BY <1>1 DEF BeginReserve, BeginCampaign, BeginStocktake, BeginAdjust, BeginReady
  <2> QED BY <2>1, BeginStep
<1>2. ASSUME NEW p \in Session, Read(p) \/ Lock(p) \/ Timeout(p)
      PROVE  IInv'
  BY <1>2, WaitStep
<1>3. ASSUME NEW p \in Session, Reserve(p)
      PROVE  IInv'
  BY <1>3, ReserveStep
<1>4. ASSUME NEW p \in Session, CreateCampaign(p) \/ MarkReady(p)
      PROVE  IInv'
  <2>1. Moves(p, Idle) /\ UNCHANGED <<ledger, order, due>>
    BY <1>4 DEF CreateCampaign, MarkReady, Done, Moves, Shaped, Idle
  <2> QED BY <1>0, <2>1, RequestStep DEF OrderTyped
<1>5. ASSUME NEW p \in Session, Stocktake(p)
      PROVE  IInv'
  <2>1. PICK rows : /\ ledger' = ledger \cup rows
                    /\ \A m \in rows : m.key[1] = "stocktake"
    <3>1. \A c, view : \A m \in StocktakeRows(c, view) : m.key[1] = "stocktake"
      BY DEF StocktakeRows
    <3>2. ledger' = ledger \cup StocktakeRows(request[p].id, request[p].view)
      BY <1>5 DEF Stocktake
    <3> QED BY <3>1, <3>2
  <2> QED BY <1>5, <2>1, WritingStep DEF Stocktake
<1>6. ASSUME NEW p \in Session, Adjust(p)
      PROVE  IInv'
  <2>1. PICK rows : /\ ledger' = ledger \cup rows
                    /\ \A m \in rows : m.key[1] = "adjust"
    <3> DEFINE c == request[p].id
               row == [key |-> <<"adjust", c>>, sku |-> Move[c].sku, delta |-> Move[c].delta]
    <3>1. ledger' = ledger \cup {row} \/ ledger' = ledger \cup {}
      BY <1>6 DEF Adjust
    <3>2. row.key[1] = "adjust"
      OBVIOUS
    <3> HIDE DEF row
    <3>3. PICK rows \in {{row}, {}} : ledger' = ledger \cup rows
      BY <3>1
    <3>4. \A m \in rows : m.key[1] = row.key[1]
      BY <3>3
    <3> QED BY <3>2, <3>3, <3>4
  <2> QED BY <1>6, <2>1, WritingStep DEF Adjust, shop
<1>7. ASSUME NEW o \in Order, CommitOrder(o)
      PROVE  IInv'
  BY <1>7, CommitStep
<1>8. ASSUME NEW o \in Order, Replay(o) \/ ReleaseOrder(o) \/ BecomeDue(o)
      PROVE  IInv'
  <2>1. request' = request /\ ledger' = ledger /\ due' \subseteq Order
    BY <1>0, <1>8 DEF Replay, ReleaseOrder, BecomeDue
  <2>2. OrderTyped' /\ \A x \in Order : order[x] = "committed" <=> order'[x] = "committed"
    BY <1>0, <1>8 DEF Replay, ReleaseOrder, BecomeDue, OrderTyped, Swept, DueOrders
  <2> QED BY <2>1, <2>2, QuietStep
<1>9. ASSUME NEW c \in Campaign, CancelCampaign(c) \/ CompleteDraw(c)
      PROVE  IInv'
  <2>1. UNCHANGED <<request, ledger, order, due>>
    BY <1>9 DEF CancelCampaign, CompleteDraw
  <2> QED BY <1>0, <2>1, QuietStep DEF OrderTyped
<1>10. ASSUME NEW c \in Campaign, NEW r \in Ranks(c), DeliverPrize(c, r) \/ CancelPrize(c, r)
       PROVE  IInv'
  <2>1. PICK rows : /\ ledger' = ledger \cup rows
                    /\ \A m \in rows : m.key[1] = "fulfillment"
    <3> DEFINE row == [key |-> <<"fulfillment", <<c, r>>>>, sku |-> Prize[c].sku, delta |-> -Prize[c].units]
    <3>1. ledger' = ledger \cup {row} \/ ledger' = ledger \cup {}
      BY <1>10 DEF DeliverPrize, CancelPrize, Fulfilled
    <3>2. row.key[1] = "fulfillment"
      OBVIOUS
    <3> HIDE DEF row
    <3>3. PICK rows \in {{row}, {}} : ledger' = ledger \cup rows
      BY <3>1
    <3>4. \A m \in rows : m.key[1] = row.key[1]
      BY <3>3
    <3> QED BY <3>2, <3>3, <3>4
  <2>2. UNCHANGED <<request, order, due>>
    BY <1>10 DEF DeliverPrize, CancelPrize, Fulfilled
  <2>3. PaidOnce'
    BY <2>1, <2>2, OtherRows DEF IInv
  <2>4. ExpiringUnpaid' /\ RequestsShaped'
    BY <2>2 DEF IInv, ExpiringUnpaid, RequestsShaped, Shaped, Expiring
  <2> QED BY <1>0, <2>2, <2>3, <2>4 DEF IInv, OrderTyped
<1>11. CASE UNCHANGED vars
  BY <1>0, <1>11, QuietStep DEF vars, OrderTyped
<1> QED BY <1>1, <1>2, <1>3, <1>4, <1>5, <1>6, <1>7, <1>8, <1>9, <1>10, <1>11 DEF Next

\* The first state.
LEMMA InitSound == Init => IInv
BY DEF Init, IInv, OrderTyped, RequestsShaped, Shaped, Idle, ExpiringUnpaid, Expiring, PaidOnce

\* commit_inventory, release_inventory and the expiry sweep, however they
\* interleave and however often they are repeated: an order's units have left
\* the stock exactly if it ended as paid, one row per variant.
THEOREM OrderPaidOnce == Spec => []PaidOnce
<1>1. IInv => PaidOnce
  BY DEF IInv
<1> QED BY <1>1, InitSound, Step, PTL DEF Spec

-----------------------------------------------------------------------------
(* Places in an order of locking.                                          *)

\* A set of numbers has a least one.
LEMMA Least ==
  ASSUME NEW T, T \subseteq Nat, T # {}
  PROVE  \E x \in T : \A y \in T : x <= y
<1> DEFINE R == OpToRel(<, Nat)
<1>1. IsWellFoundedOn(R, Nat)
  BY NatLessThanWellFounded, Zenon
<1>2. \A x, y \in Nat : y < x => <<y, x>> \in R
  BY DEF OpToRel
<1> HIDE DEF R
<1>3. PICK x \in T : \A y \in T : <<y, x>> \notin R
  BY <1>1, WFMin
<1>4. ASSUME NEW y \in T PROVE x <= y
  <2>1. x \in Nat /\ y \in Nat
    OBVIOUS
  <2>2. ~ (y < x)
    BY <1>2, <1>3, <2>1
  <2> QED BY <2>1, <2>2
<1> QED BY <1>4

\* A set of numbers up to n has a greatest one.
LEMMA Greatest ==
  ASSUME NEW n \in Nat, NEW T, T \subseteq 0..n, T # {}
  PROVE  \E x \in T : \A y \in T : y <= x
<1> DEFINE U == {n - x : x \in T}
<1>1. U \subseteq Nat /\ U # {}
  <2>1. \A x \in T : n - x \in Nat
    OBVIOUS
  <2> QED BY <2>1
<1> HIDE DEF U
<1>2. PICK least \in U : \A u \in U : least <= u
  BY <1>1, Least
<1>3. PICK x \in T : least = n - x
  BY DEF U
<1>4. \A y \in T : n - y \in U
  BY DEF U
<1>5. \A y \in T : y <= x
  BY <1>2, <1>3, <1>4
<1> QED BY <1>5

\* Variants have places, and no two the same.
LEMMA PlaceFacts ==
  ASSUME NEW op, NEW id, NEW s \in Sku
  PROVE  /\ LockPlace(op, id, s) \in 1..Cardinality(Sku)
         /\ \A x \in Sku : LockPlace(op, id, x) = LockPlace(op, id, s) => x = s
BY InventoryAssumption DEF LockPlace, Ordered

\* The variant a request asks for next is the first of those it still needs.
LEMMA UpcomingIsFirst ==
  ASSUME NEW t, t.todo \subseteq Sku, t.todo # {}
  PROVE  /\ Upcoming(t) \in t.todo
         /\ \A x \in t.todo : LockPlace(t.op, t.id, Upcoming(t)) <= LockPlace(t.op, t.id, x)
<1> DEFINE T == {LockPlace(t.op, t.id, s) : s \in t.todo}
<1>1. T \subseteq Nat /\ T # {}
  <2>1. Cardinality(Sku) \in Nat
    BY InventoryAssumption, FS_CardinalityType
  <2> QED BY <2>1, PlaceFacts
<1> HIDE DEF T
<1>2. PICK least \in T : \A place \in T : least <= place
  BY <1>1, Least
<1>3. \E s \in t.todo : \A x \in t.todo : LockPlace(t.op, t.id, s) <= LockPlace(t.op, t.id, x)
  BY <1>2 DEF T
<1> QED BY <1>3 DEF Upcoming

-----------------------------------------------------------------------------
(* Requests lock upwards.                                                  *)

\* What a request has locked comes before what it still needs.
Ascends(t) ==
  t.op # "none" =>
    /\ {"op", "id", "todo", "view"} \subseteq DOMAIN t
    /\ SkusOf(t.op, t.id) \subseteq Sku
    /\ t.todo \subseteq SkusOf(t.op, t.id)
    /\ \A s \in SkusOf(t.op, t.id) \ t.todo : \A x \in t.todo :
         LockPlace(t.op, t.id, s) < LockPlace(t.op, t.id, x)

LocksAscend == DOMAIN request = Session /\ \A p \in Session : Ascends(request[p])

\* One request changes.
LEMMA AscendStep ==
  ASSUME LocksAscend, NEW p \in Session, NEW new, Ascends(new),
         request' = [request EXCEPT ![p] = new]
  PROVE  LocksAscend'
<1>1. ASSUME NEW q \in Session PROVE Ascends(request'[q])
  <2>1. CASE q = p
    BY <2>1 DEF LocksAscend
  <2>2. CASE q # p
    BY <2>2 DEF LocksAscend
  <2> QED BY <2>1, <2>2
<1> QED BY <1>1 DEF LocksAscend

\* A request begins with nothing locked.
LEMMA BeginAscends ==
  ASSUME LocksAscend, NEW p \in Session,
         BeginReserve(p) \/ BeginCampaign(p) \/ BeginStocktake(p) \/ BeginAdjust(p) \/ BeginReady(p)
  PROVE  LocksAscend'
<1>1. PICK op, id : Begin(p, op, id) /\ SkusOf(op, id) \subseteq Sku
  <2>1. CASE BeginReserve(p)
    BY <2>1, InventoryAssumption DEF BeginReserve, SkusOf
  <2>2. CASE BeginCampaign(p)
    BY <2>2, InventoryAssumption DEF BeginCampaign, SkusOf
  <2>3. CASE BeginStocktake(p)
    BY <2>3, InventoryAssumption DEF BeginStocktake, SkusOf
  <2>4. CASE BeginAdjust(p)
    BY <2>4, InventoryAssumption DEF BeginAdjust, SkusOf
  <2>5. CASE BeginReady(p)
    BY <2>5 DEF BeginReady, SkusOf
  <2> QED BY <2>1, <2>2, <2>3, <2>4, <2>5
<1> DEFINE new == [op |-> op, id |-> id, todo |-> SkusOf(op, id), view |-> <<>>,
                   expiring |-> IF op = "reserve" THEN DueOrders ELSE {}]
<1>2. request' = [request EXCEPT ![p] = new]
  BY <1>1 DEF Begin
<1>3. Ascends(new)
  BY <1>1 DEF Ascends
<1> HIDE DEF new
<1> QED BY <1>2, <1>3, AscendStep

\* A lock is granted on the first of the variants still needed.
LEMMA LockAscends ==
  ASSUME LocksAscend, NEW p \in Session, Lock(p)
  PROVE  LocksAscend'
<1> DEFINE t == request[p]
           s == Upcoming(t)
<1>1. t.op # "none" /\ t.todo # {} /\ Ascends(t) /\ DOMAIN request = Session
  BY DEF Lock, LocksAscend
<1>2. \/ request' = [request EXCEPT ![p] = Idle]
      \/ request' = [request EXCEPT ![p] = [t EXCEPT !.todo = t.todo \ {s}]]
  BY <1>1 DEF Lock
<1>3. CASE request' = [request EXCEPT ![p] = Idle]
  <2>1. Ascends(Idle)
    BY DEF Ascends, Idle
  <2> QED BY <1>3, <2>1, AscendStep
<1>4. CASE request' = [request EXCEPT ![p] = [t EXCEPT !.todo = t.todo \ {s}]]
  <2>1. t.todo \subseteq Sku
    BY <1>1 DEF Ascends
  <2>2. s \in t.todo /\ \A x \in t.todo : LockPlace(t.op, t.id, s) <= LockPlace(t.op, t.id, x)
    BY <1>1, <2>1, UpcomingIsFirst
  <2> HIDE DEF s, t
  <2>3. \A x \in t.todo \ {s} : LockPlace(t.op, t.id, s) < LockPlace(t.op, t.id, x)
    <3>1. Cardinality(Sku) \in Nat
      BY InventoryAssumption, FS_CardinalityType
    <3>2. TAKE x \in t.todo \ {s}
    <3>3. /\ LockPlace(t.op, t.id, s) \in Nat /\ LockPlace(t.op, t.id, x) \in Nat
          /\ LockPlace(t.op, t.id, s) # LockPlace(t.op, t.id, x)
      BY <2>1, <2>2, <3>1, PlaceFacts
    <3> QED BY <2>2, <3>3
  <2> DEFINE new == [t EXCEPT !.todo = t.todo \ {s}]
  <2>4. new.op = t.op /\ new.id = t.id /\ new.todo = t.todo \ {s} /\ DOMAIN new = DOMAIN t
    BY <1>1 DEF Ascends
  <2> HIDE DEF new
  <2>5. Ascends(new)
    BY <1>1, <2>2, <2>3, <2>4 DEF Ascends
  <2> QED BY <1>4, <2>5, AscendStep DEF new
<1> QED BY <1>2, <1>3, <1>4

\* Every step.
LEMMA LockStep == LocksAscend /\ [Next]_vars => LocksAscend'
<1> SUFFICES ASSUME LocksAscend, [Next]_vars PROVE LocksAscend'
  OBVIOUS
<1>1. ASSUME request' = request PROVE LocksAscend'
  <2>1. ASSUME NEW p \in Session PROVE Ascends(request'[p])
    BY <1>1 DEF LocksAscend
  <2> QED BY <1>1, <2>1 DEF LocksAscend
<1>2. ASSUME NEW p \in Session,
             BeginReserve(p) \/ BeginCampaign(p) \/ BeginStocktake(p) \/ BeginAdjust(p) \/ BeginReady(p)
      PROVE  LocksAscend'
  BY <1>2, BeginAscends
<1>3. ASSUME NEW p \in Session, Read(p) PROVE LocksAscend'
  <2>1. PICK value : request' = [request EXCEPT ![p] = [request[p] EXCEPT !.view = value]]
    BY <1>3 DEF Read, LocksAscend
  <2> DEFINE new == [request[p] EXCEPT !.view = value]
  <2>2. Ascends(request[p]) /\ request[p].op # "none"
    BY <1>3 DEF Read, LocksAscend
  <2>3. /\ new.op = request[p].op /\ new.id = request[p].id /\ new.todo = request[p].todo
        /\ DOMAIN new = DOMAIN request[p]
    BY <2>2 DEF Ascends
  <2> HIDE DEF new
  <2>4. Ascends(new)
    BY <2>2, <2>3 DEF Ascends
  <2> QED BY <2>1, <2>4, AscendStep DEF new
<1>4. ASSUME NEW p \in Session, Lock(p) PROVE LocksAscend'
  BY <1>4, LockAscends
<1>5. ASSUME NEW p \in Session,
             Timeout(p) \/ Reserve(p) \/ CreateCampaign(p) \/ Stocktake(p) \/ Adjust(p) \/ MarkReady(p)
      PROVE  LocksAscend'
  <2>1. request' = [request EXCEPT ![p] = Idle]
    BY <1>5 DEF Timeout, Reserve, CreateCampaign, Stocktake, Adjust, MarkReady, Done
  <2>2. Ascends(Idle)
    BY DEF Ascends, Idle
  <2> QED BY <2>1, <2>2, AscendStep
<1>6. ASSUME NEW o \in Order, Replay(o) \/ CommitOrder(o) \/ ReleaseOrder(o) \/ BecomeDue(o)
      PROVE  LocksAscend'
  BY <1>1, <1>6 DEF Replay, CommitOrder, ReleaseOrder, BecomeDue
<1>7. ASSUME NEW c \in Campaign, CancelCampaign(c) \/ CompleteDraw(c) PROVE LocksAscend'
  BY <1>1, <1>7 DEF CancelCampaign, CompleteDraw
<1>8. ASSUME NEW c \in Campaign, NEW r \in Ranks(c), DeliverPrize(c, r) \/ CancelPrize(c, r)
      PROVE  LocksAscend'
  BY <1>1, <1>8 DEF DeliverPrize, CancelPrize, Fulfilled
<1>9. CASE UNCHANGED vars
  BY <1>1, <1>9 DEF vars
<1> QED BY <1>2, <1>3, <1>4, <1>5, <1>6, <1>7, <1>8, <1>9 DEF Next

\* In a circle, take the request that asks for the highest variant: the one it
\* waits for holds that variant and asks for a higher one.
LEMMA NoCircle == LocksAscend => SortedRequestsNeverCircle
<1> DEFINE waits(p, q) ==
      /\ request[p].op \notin {"none", "ready"} /\ request[p].todo # {}
      /\ Upcoming(request[p]) \in Locks(q)
<1> SUFFICES ASSUME LocksAscend, NEW circle \in SUBSET Session, circle # {},
                    \A p \in circle : \E q \in circle : waits(p, q)
             PROVE  FALSE
  BY DEF SortedRequestsNeverCircle
<1> DEFINE place(p) == ByName[Upcoming(request[p])]
<1>1. ASSUME NEW p \in circle
      PROVE  /\ Upcoming(request[p]) \in request[p].todo
             /\ place(p) = LockPlace(request[p].op, request[p].id, Upcoming(request[p]))
             /\ place(p) \in 0..Cardinality(Sku)
  <2>1. request[p].todo # {} /\ request[p].todo \subseteq Sku /\ request[p].op # "ready"
    BY DEF LocksAscend, Ascends
  <2>2. Upcoming(request[p]) \in request[p].todo
    BY <2>1, UpcomingIsFirst
  <2>3. place(p) = LockPlace(request[p].op, request[p].id, Upcoming(request[p]))
    BY <2>1 DEF LockPlace
  <2>4. Cardinality(Sku) \in Nat
    BY InventoryAssumption, FS_CardinalityType
  <2> QED BY <2>1, <2>2, <2>3, <2>4, PlaceFacts
<1>2. PICK p \in circle : \A q \in circle : place(q) <= place(p)
  <2> DEFINE T == {place(q) : q \in circle}
  <2>1. T \subseteq 0..Cardinality(Sku) /\ T # {}
    BY <1>1
  <2>2. Cardinality(Sku) \in Nat
    BY InventoryAssumption, FS_CardinalityType
  <2> HIDE DEF T
  <2>3. PICK x \in T : \A y \in T : y <= x
    BY <2>1, <2>2, Greatest
  <2> QED BY <2>3 DEF T
<1>3. PICK q \in circle : waits(p, q)
  OBVIOUS
<1>4. Upcoming(request[p]) \in SkusOf(request[q].op, request[q].id) \ request[q].todo
  BY <1>3 DEF Locks
<1>5. LockPlace(request[q].op, request[q].id, Upcoming(request[p])) < place(q)
  <2>1. Ascends(request[q]) /\ request[q].op # "none"
    BY <1>3 DEF LocksAscend, Locks
  <2> QED BY <1>1, <1>4, <2>1 DEF Ascends
<1>6. LockPlace(request[q].op, request[q].id, Upcoming(request[p])) = place(p)
  <2>1. request[q].op # "ready"
    OBVIOUS
  <2> QED BY <2>1 DEF LockPlace
<1>7. place(p) \in Nat /\ place(q) \in Nat /\ place(q) <= place(p)
  <2>1. Cardinality(Sku) \in Nat
    BY InventoryAssumption, FS_CardinalityType
  <2> QED BY <1>1, <1>2, <2>1
<1> QED BY <1>5, <1>6, <1>7

\* The first state.
LEMMA InitAscends == Init => LocksAscend
BY DEF Init, LocksAscend, Ascends, Idle

\* reserve_inventory, create_reward_campaign, stocktake and adjust_inventory
\* lock variants in SKU order: however many of them run at once, no circle of
\* them waits for each other's row locks.
THEOREM SortedRequestsDoNotDeadlock == Spec => []SortedRequestsNeverCircle
BY NoCircle, InitAscends, LockStep, PTL DEF Spec

-----------------------------------------------------------------------------
(* Prizes.  PrizesBalance speaks of drawn campaigns only.  PrizeSound adds *)
(* what is true before the draw: the reservation is whole, no rank has a   *)
(* fulfilment and the ledger no row, so the draw starts from a balance.    *)

Open(c) == {r \in Ranks(c) : winner[c][r] = "pending"}
Given(c) == {r \in Ranks(c) : winner[c][r] = "delivered"}

\* The rows a campaign's deliveries have filed, and their ranks.
Handed(c) == {x \in ledger : x.key[1] = "fulfillment" /\ x.key[2][1] = c}
HandedRanks(c) == {m.key[2][2] : m \in Handed(c)}

\* The units of n prizes.
Units(c, n) == Prize[c].units * n

Balanced(c) ==
  /\ prize[c].quantity = Units(c, Cardinality(Open(c)))
  /\ (prize[c].status = "active") <=> (Open(c) # {})
  /\ (prize[c].status = "committed") <=> (Open(c) = {} /\ Given(c) # {})
  /\ HandedRanks(c) = Given(c)

PrizeSound(c) ==
  /\ winner[c] \in [Ranks(c) -> {"none", "pending", "delivered", "cancelled"}]
  /\ draw[c] # "completed" => /\ Handed(c) = {}
                              /\ \A r \in Ranks(c) : winner[c][r] = "none"
  /\ draw[c] = "scheduled" =>
       prize[c] = [status |-> "active", quantity |-> Prize[c].winners * Prize[c].units]
  /\ draw[c] = "completed" => Balanced(c)

PrizeInv ==
  /\ DOMAIN draw = Campaign /\ DOMAIN prize = Campaign /\ DOMAIN winner = Campaign
  /\ \A c \in Campaign : PrizeSound(c)

-----------------------------------------------------------------------------
(* Counting units and ranks.                                               *)

\* Units are a product of positive numbers.
LEMMA UnitFacts ==
  ASSUME NEW c \in Campaign, NEW n \in Nat
  PROVE  /\ Units(c, n) \in Nat
         /\ Units(c, n + 1) - Prize[c].units = Units(c, n)
         /\ Units(c, n) > 0 <=> n > 0
         /\ n * Prize[c].units = Units(c, n)
         /\ \A k \in Nat : k <= n => Units(c, k) <= Units(c, n)
<1> DEFINE u == Prize[c].units
<1>1. u \in Nat \ {0}
  BY InventoryAssumption
<1> HIDE DEF u
<1>2. u * n \in Nat /\ u * (n + 1) = u * n + u /\ n * u = u * n
  BY <1>1
<1>3. u * n > 0 <=> n > 0
  BY <1>1
<1>4. ASSUME NEW k \in Nat, k <= n PROVE u * k <= u * n
  BY <1>1, <1>4
<1>5. Units(c, n) = u * n /\ Units(c, n + 1) = u * (n + 1) /\ \A k \in Nat : Units(c, k) = u * k
  BY DEF Units, u
<1>6. Units(c, n + 1) - u = Units(c, n)
  BY <1>1, <1>2, <1>5
<1> QED BY <1>2, <1>3, <1>4, <1>5, <1>6 DEF u

\* The open ranks are countable, and one less when one of them closes.
LEMMA OpenCount ==
  ASSUME NEW c \in Campaign
  PROVE  /\ IsFiniteSet(Open(c)) /\ Cardinality(Open(c)) \in Nat
         /\ Cardinality(Open(c)) = 0 <=> Open(c) = {}
         /\ \A r \in Open(c) : /\ Cardinality(Open(c) \ {r}) \in Nat
                               /\ Cardinality(Open(c)) = Cardinality(Open(c) \ {r}) + 1
                               /\ Cardinality(Open(c) \ {r}) = 0 <=> Open(c) \ {r} = {}
<1>1. Prize[c].winners \in Nat
  BY InventoryAssumption
<1>2. IsFiniteSet(Ranks(c))
  BY <1>1, FS_Interval DEF Ranks
<1>3. IsFiniteSet(Open(c))
  BY <1>2, FS_Subset DEF Open
<1>4. ASSUME NEW S, IsFiniteSet(S)
      PROVE  Cardinality(S) \in Nat /\ (Cardinality(S) = 0 <=> S = {})
  BY <1>4, FS_CardinalityType, FS_EmptySet
<1>5. ASSUME NEW r \in Open(c)
      PROVE  /\ IsFiniteSet(Open(c) \ {r})
             /\ Cardinality(Open(c) \ {r}) = Cardinality(Open(c)) - 1
  BY <1>3, FS_RemoveElement
<1> QED BY <1>3, <1>4, <1>5

-----------------------------------------------------------------------------
(* What the kinds of step keep.                                            *)

\* Nothing of the campaign changes.
LEMMA Untouched ==
  ASSUME NEW c \in Campaign, PrizeSound(c), Handed(c)' = Handed(c),
         draw'[c] = draw[c], prize'[c] = prize[c], winner'[c] = winner[c]
  PROVE  PrizeSound(c)'
<1>1. Open(c)' = Open(c) /\ Given(c)' = Given(c) /\ HandedRanks(c)' = HandedRanks(c)
  BY DEF Open, Given, HandedRanks, Ranks
<1>2. Units(c, Cardinality(Open(c)))' = Units(c, Cardinality(Open(c)))
  BY <1>1 DEF Units
<1>3. Balanced(c) => Balanced(c)'
  BY <1>1, <1>2 DEF Balanced
<1> QED BY <1>3 DEF PrizeSound, Ranks

\* The rows other handlers file are no prize's.
LEMMA OtherMovements ==
  ASSUME NEW rows, ledger' = ledger \cup rows, \A m \in rows : m.key[1] # "fulfillment"
  PROVE  \A c : Handed(c)' = Handed(c)
BY DEF Handed

\* A step that leaves campaigns alone but for rows of another kind.
LEMMA PrizeOtherStep ==
  ASSUME PrizeInv, UNCHANGED <<draw, prize, winner>>,
         NEW rows, ledger' = ledger \cup rows, \A m \in rows : m.key[1] # "fulfillment"
  PROVE  PrizeInv'
<1>1. \A c : Handed(c)' = Handed(c)
  BY OtherMovements
<1>2. ASSUME NEW c \in Campaign PROVE PrizeSound(c)'
  <2>1. PrizeSound(c)
    BY DEF PrizeInv
  <2> QED BY <1>1, <2>1, Untouched
<1> QED BY <1>2 DEF PrizeInv

\* A step that leaves campaigns and the ledger alone.
LEMMA PrizeQuietStep ==
  ASSUME PrizeInv, UNCHANGED <<draw, prize, winner, ledger>>
  PROVE  PrizeInv'
<1>1. PICK rows : ledger' = ledger \cup rows /\ rows = {}
  OBVIOUS
<1>2. \A m \in rows : m.key[1] # "fulfillment"
  BY <1>1
<1> QED BY <1>1, <1>2, PrizeOtherStep

\* create_campaign and its cancellation: nobody has won yet.
LEMMA CampaignStep ==
  ASSUME PrizeInv, UNCHANGED <<winner, ledger>>, NEW c, draw[c] # "completed",
         NEW status \in {"scheduled", "cancelled"}, draw' = [draw EXCEPT ![c] = status],
         DOMAIN prize' = Campaign, \A x \in Campaign : x # c => prize'[x] = prize[x],
         c \in Campaign /\ status = "scheduled" =>
           prize'[c] = [status |-> "active", quantity |-> Prize[c].winners * Prize[c].units]
  PROVE  PrizeInv'
<1>1. \A x : Handed(x)' = Handed(x)
  BY DEF Handed
<1>2. ASSUME NEW x \in Campaign PROVE PrizeSound(x)'
  <2>1. PrizeSound(x) /\ DOMAIN draw = Campaign
    BY DEF PrizeInv
  <2>2. CASE x # c
    <3>1. draw'[x] = draw[x] /\ prize'[x] = prize[x] /\ winner'[x] = winner[x]
      BY <2>1, <2>2
    <3> QED BY <1>1, <2>1, <3>1, Untouched
  <2>3. CASE x = c
    <3>1. draw'[x] = status /\ winner'[x] = winner[x] /\ Handed(x)' = {}
      BY <1>1, <2>1, <2>3 DEF PrizeSound
    <3> QED BY <2>1, <2>3, <3>1 DEF PrizeSound, Ranks
  <2> QED BY <2>2, <2>3
<1> QED BY <1>2 DEF PrizeInv

\* The draw keeps the units its winners need of the whole reservation.
LEMMA DrawKeeps ==
  ASSUME PrizeInv, NEW c \in Campaign, CompleteDraw(c)
  PROVE  \E selected \in 0..Prize[c].winners :
           /\ winner' = [winner EXCEPT ![c] = [r \in Ranks(c) |-> IF r <= selected THEN "pending" ELSE "none"]]
           /\ prize' = [prize EXCEPT ![c] = [status   |-> IF selected = 0 THEN "released" ELSE "active",
                                            quantity |-> Units(c, selected)]]
<1>1. PICK selected \in 0..Prize[c].winners :
        /\ winner' = [winner EXCEPT ![c] = [r \in Ranks(c) |-> IF r <= selected THEN "pending" ELSE "none"]]
        /\ prize' = [prize EXCEPT ![c] =
             IF selected * Prize[c].units = 0 THEN [status |-> "released", quantity |-> 0]
             ELSE [prize[c] EXCEPT !.quantity = Min({prize[c].quantity, selected * Prize[c].units})]]
  BY DEF CompleteDraw
<1> DEFINE need == selected * Prize[c].units
           whole == Prize[c].winners * Prize[c].units
<1>2. Prize[c].winners \in Nat /\ selected \in Nat /\ selected <= Prize[c].winners
  BY InventoryAssumption
<1>3. need = Units(c, selected) /\ whole = Units(c, Prize[c].winners)
  BY <1>2, UnitFacts
<1>4. need \in Nat /\ whole \in Nat /\ need <= whole /\ (need = 0 <=> selected = 0)
  BY <1>2, <1>3, UnitFacts
<1>5. prize[c] = [status |-> "active", quantity |-> whole]
  BY DEF PrizeInv, PrizeSound, CompleteDraw
<1>6. Min({whole, need}) = need
  BY <1>4 DEF Min
<1> HIDE DEF need, whole
<1>7. [prize[c] EXCEPT !.quantity = Min({prize[c].quantity, need})] = [status |-> "active", quantity |-> need]
  BY <1>5, <1>6
<1>8. prize' = [prize EXCEPT ![c] = [status   |-> IF selected = 0 THEN "released" ELSE "active",
                                    quantity |-> need]]
  <2>1. CASE selected = 0
    <3>1. need = 0
      BY <1>4, <2>1
    <3> QED BY <1>1, <2>1, <3>1 DEF need
  <2>2. CASE selected # 0
    <3>1. need # 0
      BY <1>4, <2>2
    <3>2. prize' = [prize EXCEPT ![c] = [prize[c] EXCEPT !.quantity = Min({prize[c].quantity, need})]]
      BY <1>1, <3>1 DEF need
    <3> QED BY <1>7, <2>2, <3>2
  <2> QED BY <2>1, <2>2
<1> QED BY <1>1, <1>3, <1>8

\* The draw opens as many fulfilments as it has winners, and keeps their units.
LEMMA DrawStep ==
  ASSUME PrizeInv, NEW c \in Campaign, CompleteDraw(c)
  PROVE  PrizeInv'
<1>0. /\ PrizeSound(c) /\ draw[c] = "scheduled"
      /\ DOMAIN draw = Campaign /\ DOMAIN prize = Campaign /\ DOMAIN winner = Campaign
  BY DEF PrizeInv, CompleteDraw
<1>1. PICK selected \in 0..Prize[c].winners :
        /\ winner' = [winner EXCEPT ![c] = [r \in Ranks(c) |-> IF r <= selected THEN "pending" ELSE "none"]]
        /\ prize' = [prize EXCEPT ![c] = [status   |-> IF selected = 0 THEN "released" ELSE "active",
                                         quantity |-> Units(c, selected)]]
  BY DrawKeeps
<1>2. draw' = [draw EXCEPT ![c] = "completed"] /\ ledger' = ledger
  BY DEF CompleteDraw
<1>3. /\ Prize[c].winners \in Nat /\ selected \in Nat /\ selected <= Prize[c].winners
  BY InventoryAssumption
<1>4. \A r \in Ranks(c) : winner'[c][r] = IF r <= selected THEN "pending" ELSE "none"
  BY <1>0, <1>1
<1>5. Open(c)' = 1..selected /\ Given(c)' = {}
  BY <1>3, <1>4 DEF Open, Given, Ranks
<1>6. Cardinality(Open(c)') = selected /\ (Open(c)' = {} <=> selected = 0)
  <2>1. Cardinality(1..selected) = selected
    BY <1>3, FS_Interval
  <2>2. 1..selected = {} <=> selected = 0
    BY <1>3
  <2> QED BY <1>5, <2>1, <2>2
<1>7. prize'[c] = [status   |-> IF selected = 0 THEN "released" ELSE "active",
                   quantity |-> Units(c, selected)]
  BY <1>0, <1>1
<1>8. HandedRanks(c)' = {}
  <2>1. Handed(c)' = {}
    BY <1>0, <1>2 DEF PrizeSound, Handed
  <2> QED BY <2>1 DEF HandedRanks
<1>9. Balanced(c)'
  <2>1. Units(c, Cardinality(Open(c)))' = Units(c, selected)
    BY <1>6 DEF Units
  <2> QED BY <1>5, <1>6, <1>7, <1>8, <2>1 DEF Balanced
<1>10. PrizeSound(c)'
  <2>1. draw'[c] = "completed" /\ winner'[c] \in [Ranks(c) -> {"none", "pending", "delivered", "cancelled"}]
    BY <1>0, <1>1, <1>2
  <2> QED BY <1>9, <2>1 DEF PrizeSound, Ranks
<1>11. ASSUME NEW x \in Campaign, x # c PROVE PrizeSound(x)'
  <2>1. /\ draw'[x] = draw[x] /\ prize'[x] = prize[x] /\ winner'[x] = winner[x]
        /\ Handed(x)' = Handed(x)
    BY <1>0, <1>1, <1>2, <1>11 DEF Handed
  <2> QED BY <2>1, Untouched DEF PrizeInv
<1>12. DOMAIN draw' = Campaign /\ DOMAIN prize' = Campaign /\ DOMAIN winner' = Campaign
  BY <1>0, <1>1, <1>2
<1> QED BY <1>10, <1>11, <1>12 DEF PrizeInv

\* The rows a step of rank r files are of that rank, or it files none.
LEMMA HandedStep ==
  ASSUME NEW c \in Campaign, NEW r \in Ranks(c),
         DeliverPrize(c, r) \/ CancelPrize(c, r)
  PROVE  /\ \A x \in Campaign : x # c => Handed(x)' = Handed(x)
         /\ HandedRanks(c)' = HandedRanks(c) \cup IF DeliverPrize(c, r) THEN {r} ELSE {}
<1> DEFINE row == [key |-> <<"fulfillment", <<c, r>>>>, sku |-> Prize[c].sku, delta |-> -Prize[c].units]
<1>1. row.key[1] = "fulfillment" /\ row.key[2][1] = c /\ row.key[2][2] = r
  OBVIOUS
<1>2. CASE DeliverPrize(c, r)
  <2>1. ledger' = ledger \cup {row}
    BY <1>2 DEF DeliverPrize, Fulfilled
  <2> HIDE DEF row
  <2>2. Handed(c)' = Handed(c) \cup {row} /\ \A x \in Campaign : x # c => Handed(x)' = Handed(x)
    BY <1>1, <2>1 DEF Handed
  <2> QED BY <1>1, <1>2, <2>2 DEF HandedRanks
<1>3. CASE ~DeliverPrize(c, r)
  <2>1. ledger' = ledger
    BY <1>3 DEF CancelPrize, Fulfilled
  <2> QED BY <1>3, <2>1 DEF Handed, HandedRanks
<1> QED BY <1>2, <1>3

\* One fulfilment closes: its units leave the reservation, and the last closes it.
LEMMA FulfilStep ==
  ASSUME PrizeInv, NEW c \in Campaign, NEW r \in Ranks(c),
         DeliverPrize(c, r) \/ CancelPrize(c, r)
  PROVE  PrizeInv'
<1>0. /\ PrizeSound(c)
      /\ DOMAIN draw = Campaign /\ DOMAIN prize = Campaign /\ DOMAIN winner = Campaign
  BY DEF PrizeInv
<1>1. PICK status \in {"delivered", "cancelled"} :
        /\ Fulfilled(c, r, status, ledger')
        /\ status = "delivered" <=> DeliverPrize(c, r)
  <2>1. CASE DeliverPrize(c, r)
    BY <2>1 DEF DeliverPrize, Fulfilled
  <2>2. CASE ~DeliverPrize(c, r)
    BY <2>2 DEF CancelPrize, Fulfilled
  <2> QED BY <2>1, <2>2
<1>2. /\ winner[c][r] = "pending" /\ draw' = draw
      /\ winner' = [winner EXCEPT ![c][r] = status]
      /\ prize' = [prize EXCEPT ![c] = Consumed(c, ledger')]
  BY <1>1 DEF Fulfilled
<1>3. draw[c] = "completed" /\ Balanced(c)
  BY <1>0, <1>2 DEF PrizeSound
<1>4. /\ winner'[c] \in [Ranks(c) -> {"none", "pending", "delivered", "cancelled"}]
      /\ winner'[c][r] = status /\ \A x \in Ranks(c) : x # r => winner'[c][x] = winner[c][x]
  BY <1>0, <1>2 DEF PrizeSound
<1>5. /\ r \in Open(c)
      /\ Open(c)' = Open(c) \ {r}
      /\ Given(c)' = Given(c) \cup IF status = "delivered" THEN {r} ELSE {}
  BY <1>1, <1>2, <1>4 DEF Open, Given, Ranks
<1>6. HandedRanks(c)' = Given(c)'
  BY <1>1, <1>3, <1>5, HandedStep DEF Balanced
<1>7. PICK n \in Nat : /\ n = Cardinality(Open(c)') /\ (n = 0 <=> Open(c)' = {})
                       /\ Cardinality(Open(c)) = n + 1
  BY <1>5, OpenCount
<1>8. /\ prize[c].quantity - Prize[c].units = Units(c, n)
      /\ Units(c, n) \in Nat /\ (Units(c, n) > 0 <=> n > 0)
  BY <1>3, <1>7, UnitFacts DEF Balanced
<1>9. prize[c].status = "active"
  BY <1>3, <1>5 DEF Balanced
<1>10. (\E m \in ledger' : m.key[1] = "fulfillment" /\ m.key[2][1] = c) <=> Given(c)' # {}
  BY <1>6 DEF HandedRanks, Handed
<1>11. /\ prize'[c].quantity = Units(c, n)
       /\ prize'[c].status = IF n > 0 THEN "active"
                             ELSE IF Given(c)' # {} THEN "committed" ELSE "released"
  <2>1. prize'[c] = Consumed(c, ledger')
    BY <1>0, <1>2
  <2> QED BY <1>8, <1>9, <1>10, <2>1 DEF Consumed
<1>12. Balanced(c)'
  <2>1. Units(c, Cardinality(Open(c)))' = Units(c, n)
    BY <1>7 DEF Units
  <2> QED BY <1>6, <1>7, <1>11, <2>1 DEF Balanced
<1>13. PrizeSound(c)'
  BY <1>2, <1>3, <1>4, <1>12 DEF PrizeSound, Ranks
<1>14. ASSUME NEW x \in Campaign, x # c PROVE PrizeSound(x)'
  <2>1. draw'[x] = draw[x] /\ prize'[x] = prize[x] /\ winner'[x] = winner[x]
    BY <1>0, <1>2, <1>14
  <2>2. Handed(x)' = Handed(x)
    BY <1>14, HandedStep
  <2> QED BY <2>1, <2>2, Untouched DEF PrizeInv
<1>15. DOMAIN draw' = Campaign /\ DOMAIN prize' = Campaign /\ DOMAIN winner' = Campaign
  BY <1>0, <1>2
<1> QED BY <1>13, <1>14, <1>15 DEF PrizeInv

-----------------------------------------------------------------------------

\* Every step.
LEMMA PrizeStep == PrizeInv /\ [Next]_vars => PrizeInv'
<1> SUFFICES ASSUME PrizeInv, [Next]_vars PROVE PrizeInv'
  OBVIOUS
<1>1. ASSUME NEW p \in Session,
             \/ BeginReserve(p) \/ BeginCampaign(p) \/ BeginStocktake(p) \/ BeginAdjust(p) \/ BeginReady(p)
             \/ Read(p) \/ Lock(p) \/ Timeout(p) \/ Reserve(p) \/ MarkReady(p)
      PROVE  PrizeInv'
  <2>1. UNCHANGED <<draw, prize, winner, ledger>>
    BY <1>1 DEF BeginReserve, BeginCampaign, BeginStocktake, BeginAdjust, BeginReady, Begin,
                Read, Lock, Timeout, Reserve, MarkReady, shop
  <2> QED BY <2>1, PrizeQuietStep
<1>2. ASSUME NEW p \in Session, CreateCampaign(p)
      PROVE  PrizeInv'
  <2> DEFINE c == request[p].id
  <2>1. UNCHANGED <<winner, ledger>> /\ DOMAIN prize = Campaign
    BY <1>2 DEF CreateCampaign, PrizeInv
  <2>2. CASE draw[c] = "none"
    <3>1. /\ draw' = [draw EXCEPT ![c] = "scheduled"]
          /\ prize' = [prize EXCEPT ![c] =
               [status |-> "active", quantity |-> Prize[c].winners * Prize[c].units]]
      BY <1>2, <2>2 DEF CreateCampaign
    <3> HIDE DEF c
    <3> QED BY <2>1, <2>2, <3>1, CampaignStep
  <2>3. CASE draw[c] # "none"
    <3>1. UNCHANGED <<draw, prize>>
      BY <1>2, <2>3 DEF CreateCampaign
    <3> QED BY <2>1, <3>1, PrizeQuietStep
  <2> QED BY <2>2, <2>3
<1>3. ASSUME NEW p \in Session, Stocktake(p)
      PROVE  PrizeInv'
  <2>1. PICK rows : ledger' = ledger \cup rows /\ \A m \in rows : m.key[1] # "fulfillment"
    <3>1. \A c, view : \A m \in StocktakeRows(c, view) : m.key[1] = "stocktake"
      BY DEF StocktakeRows
    <3>2. ledger' = ledger \cup StocktakeRows(request[p].id, request[p].view)
      BY <1>3 DEF Stocktake
    <3> QED BY <3>1, <3>2
  <2> QED BY <1>3, <2>1, PrizeOtherStep DEF Stocktake
<1>4. ASSUME NEW p \in Session, Adjust(p)
      PROVE  PrizeInv'
  <2>1. PICK rows : ledger' = ledger \cup rows /\ \A m \in rows : m.key[1] # "fulfillment"
    <3> DEFINE c == request[p].id
               row == [key |-> <<"adjust", c>>, sku |-> Move[c].sku, delta |-> Move[c].delta]
    <3>1. ledger' = ledger \cup {row} \/ ledger' = ledger \cup {}
      BY <1>4 DEF Adjust
    <3>2. row.key[1] = "adjust"
      OBVIOUS
    <3> HIDE DEF row
    <3>3. PICK rows \in {{row}, {}} : ledger' = ledger \cup rows
      BY <3>1
    <3> QED BY <3>2, <3>3
  <2> QED BY <1>4, <2>1, PrizeOtherStep DEF Adjust, shop
<1>5. ASSUME NEW o \in Order, CommitOrder(o)
      PROVE  PrizeInv'
  <2>1. UNCHANGED <<draw, prize, winner>> /\ ledger' = ledger \cup SaleRows(o)
    BY <1>5 DEF CommitOrder, shop
  <2>2. \A m \in SaleRows(o) : m.key[1] = "reservation"
    BY DEF SaleRows
  <2> QED BY <2>1, <2>2, PrizeOtherStep
<1>6. ASSUME NEW o \in Order, Replay(o) \/ ReleaseOrder(o) \/ BecomeDue(o)
      PROVE  PrizeInv'
  BY <1>6, PrizeQuietStep DEF Replay, ReleaseOrder, BecomeDue, shop
<1>7. ASSUME NEW c \in Campaign, CancelCampaign(c)
      PROVE  PrizeInv'
  <2>1. /\ draw[c] # "completed" /\ draw' = [draw EXCEPT ![c] = "cancelled"]
        /\ UNCHANGED <<winner, ledger>> /\ DOMAIN prize = Campaign
        /\ prize' = [prize EXCEPT ![c].status = "released"]
    BY <1>7 DEF CancelCampaign, PrizeInv
  <2> QED BY <2>1, CampaignStep
<1>8. ASSUME NEW c \in Campaign, CompleteDraw(c)
      PROVE  PrizeInv'
  BY <1>8, DrawStep
<1>9. ASSUME NEW c \in Campaign, NEW r \in Ranks(c), DeliverPrize(c, r) \/ CancelPrize(c, r)
      PROVE  PrizeInv'
  BY <1>9, FulfilStep
<1>10. CASE UNCHANGED vars
  BY <1>10, PrizeQuietStep DEF vars
<1> QED BY <1>1, <1>2, <1>3, <1>4, <1>5, <1>6, <1>7, <1>8, <1>9, <1>10 DEF Next

\* The first state.
LEMMA PrizeInit == Init => PrizeInv
<1> SUFFICES ASSUME Init PROVE PrizeInv
  OBVIOUS
<1>1. ASSUME NEW c \in Campaign PROVE PrizeSound(c)
  <2>1. draw[c] = "none" /\ Handed(c) = {} /\ winner[c] = [r \in Ranks(c) |-> "none"]
    BY DEF Init, Handed
  <2> QED BY <2>1 DEF PrizeSound
<1> QED BY <1>1 DEF Init, PrizeInv

\* fulfill_reward and the draw worker: in whatever order the prizes of a drawn
\* campaign are handed over or given up, the reservation holds what the open
\* fulfilments need, the ledger has a row for each prize handed over, and the
\* reservation ends as a sale exactly if there is one.
THEOREM PrizesAreAccounted == Spec => []PrizesBalance
<1>1. PrizeInv => PrizesBalance
  <2> SUFFICES ASSUME PrizeInv, NEW c \in Campaign, draw[c] = "completed"
               PROVE  /\ prize[c].quantity = Prize[c].units * Cardinality(Open(c))
                      /\ (prize[c].status = "active") <=> (Open(c) # {})
                      /\ (prize[c].status = "committed") <=> (Open(c) = {} /\ Given(c) # {})
                      /\ HandedRanks(c) = Given(c)
    BY DEF PrizesBalance, Open, Given, HandedRanks, Handed
  <2> QED BY DEF PrizeInv, PrizeSound, Balanced, Units
<1> QED BY <1>1, PrizeInit, PrizeStep, PTL DEF Spec
=============================================================================
