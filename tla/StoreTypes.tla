----------------------------- MODULE StoreTypes -----------------------------
(***************************************************************************)
(* The data of the store domain (app/domains/store/models.py): products    *)
(* with an integer stock, orders with a status and a set of item lines.    *)
(* Names, prices and timestamps carry no control and are left out.         *)
(***************************************************************************)
EXTENDS Integers, FiniteSets

CONSTANTS
    OrderIds,   \* ids the orders table may hand out (bound: a finite set)
    Products,   \* ids the products table may hand out
    Users,      \* ids of registered users
    MaxQty,     \* largest quantity of an item line (bound; the schema has none)
    MaxStock,   \* largest value of the int4 column products.stock
    InitRows,   \* products that exist at the start
    InitStock,  \* their stock
    None        \* no user, no lock holder, no payment id

ASSUME StoreAssumption ==
    /\ MaxQty \in Nat \ {0}
    /\ MaxStock \in Nat
    /\ IsFiniteSet(OrderIds)
    /\ InitRows \subseteq Products
    /\ InitStock \in 0..MaxStock

(* OrderStatus; an id without a row is "absent". *)
Statuses == {"pending", "paid", "shipped", "completed", "cancelled", "refunded"}

(* The statuses in which an order keeps the units it took out of stock. *)
Holding == {"pending", "paid", "shipped", "completed"}

(* An item line is a pair <<product, quantity>>; a basket is a set of lines. *)
Lines == Products \X (1..MaxQty)

(* uq_order_items_order_product: one line per product. *)
Distinct(b) == \A l, m \in b : l[1] = m[1] => l = m

(* Units of product p in basket b, for a basket that satisfies Distinct. *)
Qty(b, p) ==
    IF \E q \in 1..MaxQty : <<p, q>> \in b
    THEN CHOOSE q \in 1..MaxQty : <<p, q>> \in b
    ELSE 0
=============================================================================
