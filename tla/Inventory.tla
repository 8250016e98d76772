----------------------------- MODULE Inventory ------------------------------
(***************************************************************************)
(* Merchandise stock: the ledger of movements, the order reservations a    *)
(* checkout holds while the buyer pays, the prize reservations of reward   *)
(* campaigns, manual movements, stocktakes and the activation of the shop. *)
(*                                                                         *)
(* A request that needs variant rows locks them one after the other, and   *)
(* the one statement that takes the lock also adds up stock and            *)
(* reservations.  PostgreSQL runs at READ COMMITTED: that sum is of the    *)
(* statement's snapshot, taken before the wait for the lock, and a row     *)
(* that was only locked is not read again.  Read and Lock are therefore    *)
(* two steps.  Payments, releases and prize handling lock only rows of     *)
(* their own and are one step each; a ledger row they insert takes its     *)
(* variant's key-share lock, which waits for a FOR UPDATE holder.          *)
(***************************************************************************)
EXTENDS Integers, FiniteSets, FiniteSetsExt

CONSTANTS
  Sku,         \* variants
  ByName,      \* a variant's place in the order of SKUs
  ById,        \* a variant's place in the order of row ids
  Unlimited,   \* variants with sell_without_stock
  Session,     \* API requests in flight
  Order,       \* order reservations, by external_reference
  Wants,       \* order -> [SKU -> quantity]
  Campaign,    \* reward campaigns with a physical prize
  Prize,       \* campaign -> [sku, winners, units]
  Count,       \* stocktakes, by idempotency key
  Target,      \* stocktake -> [SKU -> counted quantity]
  Change,      \* manual movements, by idempotency key
  Move         \* movement -> [sku, delta]

Ordered(place) ==
  /\ place \in [Sku -> 1..Cardinality(Sku)]
  /\ \A s, t \in Sku : place[s] = place[t] => s = t

ASSUME InventoryAssumption ==
  /\ IsFiniteSet(Sku) /\ Ordered(ByName) /\ Ordered(ById)
  /\ Unlimited \subseteq Sku
  /\ \A o \in Order : DOMAIN Wants[o] \subseteq Sku /\ Wants[o] \in [DOMAIN Wants[o] -> Nat \ {0}]
  /\ Prize \in [Campaign -> [sku : Sku, winners : Nat \ {0}, units : Nat \ {0}]]
  /\ \A c \in Count : DOMAIN Target[c] \subseteq Sku /\ Target[c] \in [DOMAIN Target[c] -> Nat]
  /\ Move \in [Change -> [sku : Sku, delta : Int \ {0}]]

VARIABLES
  ledger,      \* inventory_ledger
  order,       \* inventory_reservations of kind order
  due,         \* orders whose expires_at has passed
  draw,        \* reward_draws.status
  prize,       \* the campaign's reservation: status and reserved quantity
  winner,      \* reward_draw_fulfillments.status, per campaign and rank
  activation,  \* inventory_activation_state.status
  taken,       \* inventory_stocktakes
  request,     \* what each session is doing
  late,        \* history: units sold to payments nothing was reserved for
  stale        \* history: units the sums of a decision were ahead of the rows

vars == <<ledger, order, due, draw, prize, winner, activation, taken,
          request, late, stale>>

shop == <<draw, prize, winner, activation, taken>>

Ranks(c) == 1..Prize[c].winners
Movement == [key : {"reservation", "stocktake", "adjust", "fulfillment"}
                    \X (Order \cup Count \cup Change \cup (Campaign \X Nat)),
             sku : Sku, delta : Int \ {0}]

Idle == [op |-> "none"]

Init ==
  /\ ledger = {}
  /\ order = [o \in Order |-> "none"]
  /\ due = {}
  /\ draw = [c \in Campaign |-> "none"]
  /\ prize = [c \in Campaign |-> [status |-> "none", quantity |-> 0]]
  /\ winner = [c \in Campaign |-> [r \in Ranks(c) |-> "none"]]
  /\ activation = "preparing"
  /\ taken = {}
  /\ request = [p \in Session |-> Idle]
  /\ late = [s \in Sku |-> 0]
  /\ stale = [s \in Sku |-> 0]

-----------------------------------------------------------------------------
(* What the sums say.                                                      *)

OnHand(s) == SumFunction([m \in {x \in ledger : x.sku = s} |-> m.delta])

\* an order counts until its expiry passes, swept or not
Counts(o) == order[o] = "active" /\ o \notin due

Reserved(s) ==
  SumFunction([o \in {x \in Order : Counts(x) /\ s \in DOMAIN Wants[x]} |-> Wants[o][s]])
  + SumFunction([c \in {x \in Campaign : prize[x].status = "active" /\ Prize[x].sku = s} |->
                   prize[c].quantity])

Available(s) == OnHand(s) - Reserved(s)

HasRow(key) == \E m \in ledger : m.key = key

SaleRows(o) == {[key |-> <<"reservation", o>>, sku |-> s, delta |-> -Wants[o][s]] : s \in DOMAIN Wants[o]}

-----------------------------------------------------------------------------
(* Requests that lock variants.                                            *)

Ops == {"none", "reserve", "campaign", "stocktake", "adjust", "ready"}

SkusOf(op, id) ==
  CASE op = "reserve"   -> DOMAIN Wants[id]
    [] op = "campaign"  -> {Prize[id].sku}
    [] op = "stocktake" -> DOMAIN Target[id]
    [] op = "adjust"    -> {Move[id].sku}
    [] op = "ready"     -> Sku

\* Wrong: a HashMap's order, which differs from request to request.
LockPlaceHashed(op, id, s) ==
  IF op = "ready" \/ id = CHOOSE o \in Order : TRUE THEN ById[s] ELSE ByName[s]

\* items are merged in a BTreeMap or sorted; activation orders by variant id
LockPlace(op, id, s) == IF op = "ready" THEN ById[s] ELSE ByName[s]

\* the variant a request asks for next
Upcoming(t) ==
  CHOOSE s \in t.todo : \A x \in t.todo : LockPlace(t.op, t.id, s) <= LockPlace(t.op, t.id, x)

Locks(p) == IF request[p].op = "none" THEN {}
            ELSE SkusOf(request[p].op, request[p].id) \ request[p].todo

Locked(s) == \E p \in Session : s \in Locks(p)

\* rows expire_due_reservations has updated and not committed
Expiring == UNION {request[p].expiring : p \in {q \in Session : request[q].op # "none"}}

DueOrders == {o \in due : order[o] = "active"}

Begin(p, op, id) ==
  /\ request[p].op = "none"
  /\ request' = [request EXCEPT ![p] =
       [op |-> op, id |-> id, todo |-> SkusOf(op, id), view |-> <<>>,
        expiring |-> IF op = "reserve" THEN DueOrders ELSE {}]]
  /\ UNCHANGED <<ledger, order, due, shop, late, stale>>

BeginReserve(p) ==
  /\ activation = "ready"
  /\ DueOrders \cap Expiring = {}
  /\ \E o \in Order : order[o] = "none" /\ Begin(p, "reserve", o)

BeginCampaign(p) ==
  /\ activation = "ready"
  /\ \E c \in Campaign : draw[c] = "none" /\ Begin(p, "campaign", c)

\* the header row comes first, and its key is unique
BeginStocktake(p) ==
  \E c \in Count \ taken :
    /\ ~\E q \in Session : request[q].op = "stocktake" /\ request[q].id = c
    /\ Begin(p, "stocktake", c)

BeginAdjust(p) ==
  /\ activation = "ready"
  /\ \E c \in Change : Begin(p, "adjust", c)

\* the activation row is locked first
BeginReady(p) ==
  /\ activation = "preparing"
  /\ ~\E q \in Session : request[q].op = "ready"
  /\ Begin(p, "ready", "all")

\* the lock statement takes its snapshot
Read(p) ==
  /\ request[p].op \notin {"none", "ready"}
  /\ request[p].todo # {}
  /\ LET t == request[p]
         s == Upcoming(t)
         sums == [onHand |-> OnHand(s), reserved |-> Reserved(s)]
     IN /\ s \notin DOMAIN t.view
        /\ request' = [request EXCEPT ![p].view =
             [x \in DOMAIN t.view \cup {s} |-> IF x = s THEN sums ELSE t.view[x]]]
  /\ UNCHANGED <<ledger, order, due, shop, late, stale>>

\* Wrong: looks at the stock and not at what is reserved.
RefusesOnHand(op, id, s, seen) ==
  /\ s \notin Unlimited
  /\ CASE op = "reserve"   -> seen.onHand < Wants[id][s]
       [] op = "campaign"  -> seen.onHand < Prize[id].winners * Prize[id].units
       [] op = "stocktake" -> Target[id][s] < seen.reserved
       [] op = "adjust"    -> Move[id].delta < 0 /\ seen.onHand + Move[id].delta < seen.reserved
       [] op = "ready"     -> FALSE

\* what a request refuses on the sums it was given
Refuses(op, id, s, seen) ==
  /\ s \notin Unlimited
  /\ CASE op = "reserve"   -> seen.onHand - seen.reserved < Wants[id][s]
       [] op = "campaign"  -> seen.onHand - seen.reserved < Prize[id].winners * Prize[id].units
       [] op = "stocktake" -> Target[id][s] < seen.reserved
       [] op = "adjust"    -> /\ ~HasRow(<<"adjust", id>>)
                              /\ Move[id].delta < 0
                              /\ seen.onHand + Move[id].delta < seen.reserved
       [] op = "ready"     -> FALSE

\* the lock is granted; a refusal rolls the whole request back
Lock(p) ==
  /\ request[p].op # "none"
  /\ request[p].todo # {}
  /\ LET t == request[p]
         s == Upcoming(t)
     IN /\ ~Locked(s)
        /\ t.op = "ready" \/ s \in DOMAIN t.view
        /\ request' = [request EXCEPT ![p] =
             IF Refuses(t.op, t.id, s, t.view[s]) THEN Idle ELSE [t EXCEPT !.todo = @ \ {s}]]
  /\ UNCHANGED <<ledger, order, due, shop, late, stale>>

-----------------------------------------------------------------------------
(* A request with all its variants locked writes and commits.              *)

Granted(p, op) == request[p].op = op /\ request[p].todo = {}

Done(p) == request' = [request EXCEPT ![p] = Idle]

\* what its sums promised that the rows do not hold
Excess(p, s) ==
  LET promised == request[p].view[s].onHand - request[p].view[s].reserved
  IN IF promised > Available(s) THEN promised - Available(s) ELSE 0

Overtaken(p, skus) == stale' = [s \in Sku |-> stale[s] + IF s \in skus THEN Excess(p, s) ELSE 0]

Swept(orders) == [o \in Order |-> IF o \in orders THEN "expired" ELSE order[o]]

\* external_reference is unique: the loser of two inserts rolls back
Reserve(p) ==
  /\ Granted(p, "reserve")
  /\ LET o == request[p].id IN
       IF order[o] = "none"
       THEN /\ order' = [Swept(request[p].expiring) EXCEPT ![o] = "active"]
            /\ Overtaken(p, DOMAIN Wants[o])
       ELSE UNCHANGED <<order, stale>>
  /\ Done(p)
  /\ UNCHANGED <<ledger, due, shop, late>>

CreateCampaign(p) ==
  /\ Granted(p, "campaign")
  /\ LET c == request[p].id IN
       IF draw[c] = "none"
       THEN /\ draw' = [draw EXCEPT ![c] = "scheduled"]
            /\ prize' = [prize EXCEPT ![c] =
                 [status |-> "active", quantity |-> Prize[c].winners * Prize[c].units]]
            /\ Overtaken(p, {Prize[c].sku})
       ELSE UNCHANGED <<draw, prize, stale>>
  /\ Done(p)
  /\ UNCHANGED <<ledger, order, due, winner, activation, taken, late>>

\* Wrong: writes the rows of variants whose count agrees.
StocktakeRowsAll(c, view) ==
  {[key |-> <<"stocktake", c>>, sku |-> s, delta |-> Target[c][s] - view[s].onHand] : s \in DOMAIN Target[c]}

\* no row where the count agrees
StocktakeRows(c, view) ==
  {[key |-> <<"stocktake", c>>, sku |-> s, delta |-> Target[c][s] - view[s].onHand] :
     s \in {x \in DOMAIN Target[c] : Target[c][x] # view[x].onHand}}

Stocktake(p) ==
  /\ Granted(p, "stocktake")
  /\ LET c == request[p].id IN
       /\ ledger' = ledger \cup StocktakeRows(c, request[p].view)
       /\ taken' = taken \cup {c}
       /\ Overtaken(p, DOMAIN Target[c])
  /\ Done(p)
  /\ UNCHANGED <<order, due, draw, prize, winner, activation, late>>

\* a key that is filed already is a replay
Adjust(p) ==
  /\ Granted(p, "adjust")
  /\ LET c == request[p].id
         fresh == ~HasRow(<<"adjust", c>>)
     IN /\ ledger' = ledger \cup
             IF fresh THEN {[key |-> <<"adjust", c>>, sku |-> Move[c].sku, delta |-> Move[c].delta]} ELSE {}
        /\ Overtaken(p, IF fresh /\ Move[c].delta < 0 THEN {Move[c].sku} ELSE {})
  /\ Done(p)
  /\ UNCHANGED <<order, due, shop, late>>

Counted == UNION {DOMAIN Target[c] : c \in taken}

\* counts after the locks, in statements of their own
MarkReady(p) ==
  /\ Granted(p, "ready")
  /\ activation' = IF Sku \subseteq Counted /\ \A s \in Sku \ Unlimited : Available(s) >= 0
                   THEN "ready" ELSE activation
  /\ Done(p)
  /\ UNCHANGED <<ledger, order, due, draw, prize, winner, taken, late, stale>>

\* operation_timeout drops the request, and with it its transaction
Timeout(p) ==
  /\ request[p].op # "none"
  /\ Done(p)
  /\ UNCHANGED <<ledger, order, due, shop, late, stale>>

-----------------------------------------------------------------------------
(* Orders after their reservation.                                         *)

\* a replayed reservation commits only what it swept
Replay(o) ==
  /\ activation = "ready"
  /\ DueOrders # {} /\ DueOrders \cap Expiring = {}
  /\ Counts(o)
  /\ order' = Swept(DueOrders)
  /\ UNCHANGED <<ledger, due, shop, request, late, stale>>

\* Stripe's word is final: an expired or released reservation commits too
CommitOrder(o) ==
  /\ order[o] \in {"active", "expired", "released"}
  /\ o \notin Expiring
  /\ \A s \in DOMAIN Wants[o] : ~Locked(s)
  /\ ledger' = ledger \cup SaleRows(o)
  /\ order' = [order EXCEPT ![o] = "committed"]
  /\ late' = [s \in Sku |-> late[s] + IF Counts(o) \/ s \notin DOMAIN Wants[o] THEN 0 ELSE Wants[o][s]]
  /\ UNCHANGED <<due, shop, request, stale>>

\* Wrong: a release after the payment counts.
ReleaseOrderPaid(o) ==
  /\ order[o] \in {"active", "committed"}
  /\ o \notin Expiring
  /\ order' = [order EXCEPT ![o] = "released"]
  /\ UNCHANGED <<ledger, due, shop, request, late, stale>>

ReleaseOrder(o) ==
  /\ order[o] = "active"
  /\ o \notin Expiring
  /\ order' = [order EXCEPT ![o] = "released"]
  /\ UNCHANGED <<ledger, due, shop, request, late, stale>>

BecomeDue(o) ==
  /\ order[o] = "active"
  /\ o \notin due
  /\ due' = due \cup {o}
  /\ UNCHANGED <<ledger, order, shop, request, late, stale>>

-----------------------------------------------------------------------------
(* Prizes after their reservation.                                         *)

CancelCampaign(c) ==
  /\ draw[c] = "scheduled"
  /\ draw' = [draw EXCEPT ![c] = "cancelled"]
  /\ prize' = [prize EXCEPT ![c].status = "released"]
  /\ UNCHANGED <<ledger, order, due, winner, activation, taken, request, late, stale>>

\* the worker draws up to as many winners as there are entrants
CompleteDraw(c) ==
  /\ draw[c] = "scheduled"
  /\ draw' = [draw EXCEPT ![c] = "completed"]
  /\ \E selected \in 0..Prize[c].winners :
       LET required == selected * Prize[c].units IN
       /\ winner' = [winner EXCEPT ![c] = [r \in Ranks(c) |-> IF r <= selected THEN "pending" ELSE "none"]]
       /\ prize' = [prize EXCEPT ![c] =
            IF required = 0 THEN [status |-> "released", quantity |-> 0]
            ELSE [@ EXCEPT !.quantity = Min({prize[c].quantity, required})]]
  /\ UNCHANGED <<ledger, order, due, activation, taken, request, late, stale>>

\* Wrong: closes by the last fulfilment alone.
ConsumedLast(c, rows) ==
  LET left == prize[c].quantity - Prize[c].units
  IN [status   |-> IF prize[c].status # "active" \/ left > 0 THEN prize[c].status
                   ELSE IF rows # ledger THEN "committed" ELSE "released",
      quantity |-> left]

\* the last unit taken closes the reservation, as a sale if anything was sold
Consumed(c, rows) ==
  LET left == prize[c].quantity - Prize[c].units
      sold == \E m \in rows : m.key[1] = "fulfillment" /\ m.key[2][1] = c
  IN [status   |-> IF prize[c].status # "active" \/ left > 0 THEN prize[c].status
                   ELSE IF sold THEN "committed" ELSE "released",
      quantity |-> left]

Fulfilled(c, r, status, rows) ==
  /\ winner[c][r] = "pending"
  /\ prize[c].quantity >= Prize[c].units
  /\ winner' = [winner EXCEPT ![c][r] = status]
  /\ prize' = [prize EXCEPT ![c] = Consumed(c, rows)]
  /\ ledger' = rows
  /\ UNCHANGED <<order, due, draw, activation, taken, request, late, stale>>

DeliverPrize(c, r) ==
  /\ activation = "ready"
  /\ ~Locked(Prize[c].sku)
  /\ Fulfilled(c, r, "delivered", ledger \cup
       {[key |-> <<"fulfillment", <<c, r>>>>, sku |-> Prize[c].sku, delta |-> -Prize[c].units]})

CancelPrize(c, r) == Fulfilled(c, r, "cancelled", ledger)

Next ==
  \/ \E p \in Session :
       \/ BeginReserve(p) \/ BeginCampaign(p) \/ BeginStocktake(p) \/ BeginAdjust(p) \/ BeginReady(p)
       \/ Read(p) \/ Lock(p) \/ Timeout(p)
       \/ Reserve(p) \/ CreateCampaign(p) \/ Stocktake(p) \/ Adjust(p) \/ MarkReady(p)
  \/ \E o \in Order : Replay(o) \/ CommitOrder(o) \/ ReleaseOrder(o) \/ BecomeDue(o)
  \/ \E c \in Campaign : CancelCampaign(c) \/ CompleteDraw(c)
  \/ \E c \in Campaign : \E r \in Ranks(c) : DeliverPrize(c, r) \/ CancelPrize(c, r)

Spec == Init /\ [][Next]_vars

-----------------------------------------------------------------------------
(* Properties.                                                             *)

\* Every row and every request has the shape the schema and the handlers give.
TypeOK ==
  /\ ledger \subseteq Movement
  /\ order \in [Order -> {"none", "active", "expired", "released", "committed"}]
  /\ due \subseteq Order
  /\ draw \in [Campaign -> {"none", "scheduled", "cancelled", "completed"}]
  /\ prize \in [Campaign -> [status : {"none", "active", "released", "committed"}, quantity : Nat]]
  /\ \A c \in Campaign : winner[c] \in [Ranks(c) -> {"none", "pending", "delivered", "cancelled"}]
  /\ activation \in {"preparing", "ready"}
  /\ taken \subseteq Count
  /\ \A p \in Session : request[p] = Idle \/
       /\ request[p].op \in Ops \ {"none"}
       /\ request[p].expiring \subseteq Order
       /\ \A s \in DOMAIN request[p].view :
            s \in Sku /\ request[p].view[s] \in [onHand : Int, reserved : Nat]
  /\ late \in [Sku -> Nat] /\ stale \in [Sku -> Nat]

\* commit_inventory, release_inventory and the expiry sweep: however payment,
\* release, expiry and their repetitions interleave, an order has taken its
\* units out of stock exactly when it ended as paid, and one row per variant.
PaidOnce ==
  \A o \in Order :
    {m \in ledger : m.key = <<"reservation", o>>}
      = IF order[o] = "committed" THEN SaleRows(o) ELSE {}

\* The stock a shop has promised beyond what it owns is never more than the
\* units of payments that came after their reservation had lapsed and the
\* units by which a locking statement's sums were out of date.
ShortageAccounted ==
  \A s \in Sku \ Unlimited : Available(s) + late[s] + stale[s] >= 0

\* lock_variant_availability: its sums may be out of date when the lock is
\* granted, but from then on no other request, payment, draw or prize takes of
\* the variant what the request is about to promise.
LockHolds ==
  [][\A p \in Session, s \in Sku :
       s \in Locks(p) /\ s \in Locks(p)' => Available(s)' >= Available(s)]_vars

\* fulfill_reward and the draw worker: the units a campaign still holds are
\* those of its open fulfilments, and it closes with the last of them, as a
\* sale exactly when a prize was handed over.
PrizesBalance ==
  \A c \in Campaign :
    LET open == {r \in Ranks(c) : winner[c][r] = "pending"}
        given == {r \in Ranks(c) : winner[c][r] = "delivered"}
    IN draw[c] = "completed" =>
         /\ prize[c].quantity = Prize[c].units * Cardinality(open)
         /\ (prize[c].status = "active") <=> (open # {})
         /\ (prize[c].status = "committed") <=> (open = {} /\ given # {})
         /\ {m.key[2][2] : m \in {x \in ledger : x.key[1] = "fulfillment" /\ x.key[2][1] = c}} = given

\* Requests that lock variants in SKU order never wait for each other in a
\* circle; only the activation, which locks by row id, can close one.
SortedRequestsNeverCircle ==
  LET waitsFor(p, q) ==
        /\ request[p].op \notin {"none", "ready"} /\ request[p].todo # {}
        /\ Upcoming(request[p]) \in Locks(q)
  IN \A circle \in SUBSET Session :
       circle # {} => ~ \A p \in circle : \E q \in circle : waitsFor(p, q)
=============================================================================
