------------------------------ MODULE OrderBook ------------------------------
(***************************************************************************)
(* What the store promises: every operation on orders and stock is atomic. *)
(* An order is placed only if the stock covers all its lines, it moves     *)
(* along the status diagram of models.OrderStatus, and the two withdrawals *)
(* give its units back exactly once.  Orders.tla implements this with      *)
(* multi-statement transactions, row locks, retries and a sweeper.         *)
(***************************************************************************)
EXTENDS StoreTypes

VARIABLES
    status,   \* order id -> its status, "absent" before it is placed
    items,    \* order id -> its lines
    owner,    \* order id -> the user who placed it
    rows,     \* the products that exist
    stock,    \* product -> units on the shelf
    supply    \* product -> units the administrators ever put in (history)

vars == <<status, items, owner, rows, stock, supply>>

Init ==
    /\ status = [o \in OrderIds |-> "absent"]
    /\ items = [o \in OrderIds |-> {}]
    /\ owner = [o \in OrderIds |-> None]
    /\ rows = InitRows
    /\ stock = [p \in Products |-> IF p \in InitRows THEN InitStock ELSE 0]
    /\ supply = stock

CreateProduct(p, s) ==
    /\ p \notin rows
    /\ rows' = rows \cup {p}
    /\ stock' = [stock EXCEPT ![p] = s]
    /\ supply' = [supply EXCEPT ![p] = s]
    /\ UNCHANGED <<status, items, owner>>

(* An administrator's correction overwrites the stock whatever orders took. *)
SetStock(p, s) ==
    /\ p \in rows
    /\ stock' = [stock EXCEPT ![p] = s]
    /\ supply' = [supply EXCEPT ![p] = @ + s - stock[p]]
    /\ UNCHANGED <<status, items, owner, rows>>

Place(o, u, b) ==
    /\ status[o] = "absent"
    /\ Distinct(b)
    /\ \A p \in Products : Qty(b, p) <= stock[p]
    /\ \A l \in b : l[1] \in rows
    /\ status' = [status EXCEPT ![o] = "pending"]
    /\ items' = [items EXCEPT ![o] = b]
    /\ owner' = [owner EXCEPT ![o] = u]
    /\ stock' = [p \in Products |-> stock[p] - Qty(b, p)]
    /\ UNCHANGED <<rows, supply>>

Advance(o, from, to) ==
    /\ status[o] = from
    /\ status' = [status EXCEPT ![o] = to]
    /\ UNCHANGED <<items, owner, rows, stock, supply>>

Withdraw(o, from, to) ==
    /\ status[o] = from
    /\ \A p \in Products : stock[p] + Qty(items[o], p) <= MaxStock
    /\ status' = [status EXCEPT ![o] = to]
    /\ stock' = [p \in Products |-> stock[p] + Qty(items[o], p)]
    /\ UNCHANGED <<items, owner, rows, supply>>

Next ==
    \/ \E p \in Products, s \in 0..MaxStock : CreateProduct(p, s) \/ SetStock(p, s)
    \/ \E o \in OrderIds, u \in Users, b \in SUBSET Lines : Place(o, u, b)
    \/ \E o \in OrderIds :
        \/ Advance(o, "pending", "paid")
        \/ Advance(o, "paid", "shipped")
        \/ Advance(o, "shipped", "completed")
        \/ Withdraw(o, "pending", "cancelled")
        \/ Withdraw(o, "paid", "refunded")

Spec == Init /\ [][Next]_vars

-----------------------------------------------------------------------------
(* The unit tokens of product p that live orders hold. *)
Held(p) ==
    {t \in OrderIds \X (1..MaxQty) :
        status[t[1]] \in Holding /\ t[2] <= Qty(items[t[1]], p)}

(* Invariant: units on the shelf and units in live orders add up to what   *)
(* was ever supplied.  Overselling, a restock that runs twice or not at    *)
(* all (service._restock_order_core), or a partial order would break it.   *)
StockConserved ==
    \A p \in Products : stock[p] + Cardinality(Held(p)) = supply[p]
=============================================================================
