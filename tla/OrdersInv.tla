------------------------------ MODULE OrdersInv ------------------------------
(***************************************************************************)
(* The inductive invariant of Orders: what every handler knows at every    *)
(* place of its code about the rows it holds and the writes it has made.   *)
(***************************************************************************)
EXTENDS Orders

(* The loop of task w stands at one of the lines it still has to process. *)
AtLine(w) == IF todo[w] = {} THEN cur[w] = None ELSE cur[w] \in todo[w]

(* create_order has taken from stock exactly the lines it is done with. *)
Deducting(w) ==
    /\ w \in Workers
    /\ req[w].user \in Users
    /\ req[w].lines \subseteq Lines
    /\ todo[w] \subseteq req[w].lines
    /\ AtLine(w)
    /\ \A l \in req[w].lines \ todo[w] : l[1] \in rows
    /\ Distinct(req[w].lines) =>
         \A p \in Products : delta[w][p] = Qty(todo[w], p) - Qty(req[w].lines, p)

(* A handler that serves an order has loaded its lines, which never change. *)
Loaded(w) ==
    /\ req[w].oid \in OrderIds
    /\ status[req[w].oid] # "absent"
    /\ req[w].lines = items[req[w].oid]

(* _restock_order_core holds its order in from_status and has given back    *)
(* exactly the lines it is done with.                                       *)
Restocking(w) ==
    /\ orderLock[req[w].oid] = w
    /\ status[req[w].oid] = From(req[w].op)
    /\ todo[w] \subseteq req[w].lines
    /\ AtLine(w)
    /\ \A p \in Products : delta[w][p] = Qty(req[w].lines, p) - Qty(todo[w], p)

Handler(w) ==
    /\ pc[w] = "deduct" => Deducting(w)
    /\ pc[w] \in {"dedup", "replay", "check", "update", "transition", "restock"} => Loaded(w)
    /\ pc[w] \in {"dedup", "replay"} => req[w].key \in PaymentIds
    /\ pc[w] \in {"dedup", "replay", "check"} => req[w].op = "pay"
    /\ pc[w] = "update" => req[w].op \in {"pay", "ship", "complete"}
    /\ pc[w] \in {"transition", "restock"} => req[w].op \in {"pay", "cancel", "refund", "sweep"}
    /\ pc[w] = "restock" => Restocking(w)
    /\ pc[w] = "edit" => cur[w] \in rows \X (0..MaxStock)

(* What a task would commit keeps every stock within bounds. *)
StockBounds ==
    \A w \in Tasks, p \in Products : stock[p] + delta[w][p] \in 0..MaxStock

PlacedOrders ==
    /\ \A o \in OrderIds : status[o] # "absent" =>
         Distinct(items[o]) /\ \A l \in items[o] : l[1] \in rows
    /\ \A o \in overdue \cup batch : status[o] # "absent"

LockedRowsExist == \A p \in Products : stockLock[p] # None => p \in rows

(* The inductive invariant; it implies the lock discipline and that each    *)
(* commit is one atomic operation of OrderBook.                             *)
IInv ==
    /\ TypeOK
    /\ LocksBelongToTransactions
    /\ StockBounds
    /\ PlacedOrders
    /\ LockedRowsExist
    /\ \A w \in Tasks : Handler(w)
=============================================================================
