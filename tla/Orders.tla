------------------------------- MODULE Orders -------------------------------
(***************************************************************************)
(* The order service as it runs: request handlers and the expiry sweeper   *)
(* interleave between database statements.  PostgreSQL runs READ COMMITTED *)
(* transactions: a statement sees the last committed rows (and its own     *)
(* writes), an UPDATE keeps its row locked until commit or rollback, and   *)
(* an UPDATE whose condition fails on the committed row returns at once    *)
(* without waiting.  One action is one statement or one commit; only an    *)
(* UPDATE that is its whole transaction commits in the same step.          *)
(***************************************************************************)
EXTENDS StoreTypes

CONSTANTS
    Workers,     \* concurrent request handlers
    Sweeper,     \* the task of tasks.order_expiry_loop
    Admins,      \* users whose role is "admin"
    Baskets,     \* the item lists clients may send
    StockEdits,  \* stock values administrators may write
    PaymentIds,  \* payment_id values clients may send
    ClientOps,   \* operations on existing orders that clients send
    Faults       \* TRUE: connections to PostgreSQL or Redis may break

Tasks == Workers \cup {Sweeper}

ASSUME OrdersAssumption ==
    /\ StockEdits \subseteq 0..MaxStock
    /\ Admins \subseteq Users
    /\ Baskets \subseteq (SUBSET Lines) \ {{}}
    /\ ClientOps \subseteq {"pay", "cancel", "refund", "ship", "complete"}
    /\ Faults \in BOOLEAN
    /\ IsFiniteSet(Workers) /\ Sweeper \notin Workers
    /\ None \notin Tasks \cup OrderIds \cup Users \cup PaymentIds
    /\ None \notin Products \X Nat

VARIABLES
    status, items, owner,  \* the committed orders (see OrderBook)
    rows, stock,           \* the committed products
    supply,                \* history: units ever supplied
    overdue,               \* pending orders older than ORDER_TIMEOUT_MINUTES
    orderLock, stockLock,  \* row -> the transaction holding its lock
    payKey,                \* Redis payment:{payment_id} -> order id
    paidWith,              \* history: payment id an order was paid with, until its key ends
    dirty,                 \* history: products changed since their detail key was
                           \* deleted, but for what a handler that broke left over
    pc,                    \* task -> where its handler stands
    req,                   \* task -> the request it serves
    todo, cur,             \* task -> lines left in its loop, the line it is at
    delta,                 \* task -> uncommitted change of each stock row
    reply,                 \* task -> status code it answers
    batch,                 \* expired_ids the sweeper still has to visit
    scanned                \* history: the expired_ids its round began with

orderRows == <<status, items, owner>>
productRows == <<rows, stock, supply>>
shared == <<orderRows, productRows, overdue, payKey, paidWith, dirty>>
locks == <<orderLock, stockLock>>
handler == <<pc, req, todo, cur, delta, reply>>
vars == <<shared, locks, handler, batch, scanned>>

OrderOps == {"pay", "cancel", "refund", "ship", "complete"}
AdminOps == {"refund", "ship", "complete"}
Ops == OrderOps \cup {"create", "edit", "sweep", "none"}
Places == {"idle", "deduct", "dedup", "replay", "check", "update", "reload", "transition",
           "restock", "edit", "invalidate", "reply", "sweep"}
Codes == {"200", "201", "404", "409", "500"}

NoReq == [op |-> "none", user |-> None, oid |-> None, lines |-> {},
          key |-> None, seen |-> "absent", late |-> FALSE]
NoDelta == [p \in Products |-> 0]

(* Mutant: the sweeper asks for paid orders. *)
FromPaid(op) ==
    CASE op \in {"pay", "cancel"} -> "pending"
      [] op \in {"refund", "ship", "sweep"} -> "paid"
      [] op = "complete" -> "shipped"

(* The from_status and to_status arguments of transition_order_status. *)
From(op) ==
    CASE op \in {"pay", "cancel", "sweep"} -> "pending"
      [] op \in {"refund", "ship"} -> "paid"
      [] op = "complete" -> "shipped"
Advanced(op) ==
    CASE op = "pay" -> "paid" [] op = "ship" -> "shipped" [] op = "complete" -> "completed"
Withdrawn(op) == IF op = "refund" THEN "refunded" ELSE "cancelled"

Init ==
    /\ status = [o \in OrderIds |-> "absent"]
    /\ items = [o \in OrderIds |-> {}]
    /\ owner = [o \in OrderIds |-> None]
    /\ rows = InitRows
    /\ stock = [p \in Products |-> IF p \in InitRows THEN InitStock ELSE 0]
    /\ supply = stock
    /\ overdue = {}
    /\ orderLock = [o \in OrderIds |-> None]
    /\ stockLock = [p \in Products |-> None]
    /\ payKey = [k \in PaymentIds |-> None]
    /\ paidWith = [o \in OrderIds |-> None]
    /\ dirty = {}
    /\ pc = [w \in Tasks |-> "idle"]
    /\ req = [w \in Tasks |-> NoReq]
    /\ todo = [w \in Tasks |-> {}]
    /\ cur = [w \in Tasks |-> None]
    /\ delta = [w \in Tasks |-> NoDelta]
    /\ reply = [w \in Tasks |-> None]
    /\ batch = {} /\ scanned = {}

-----------------------------------------------------------------------------
(* Conditions of the statements *)

(* Mutant: "AND stock >= q" is missing. *)
CoversAnything(w) == TRUE

(* The stock a deduction sees, its transaction's own writes included.       *)
Covers(w) == LET p == cur[w][1] IN stock[p] + delta[w][p] >= cur[w][2]

(* Mutant: only the id is compared. *)
InAnyStatus(w) == TRUE

(* WHERE id = ... AND status = from_status *)
InFrom(w) == status[req[w].oid] = From(req[w].op)

(* Mutant: SET without NX. *)
AnyKeyFree(w) == TRUE

KeyFree(w) == payKey[req[w].key] = None

(* Mutant: whatever is not pending counts as paid. *)
NotPending(w) == req[w].seen # "pending"

AlreadyPaid(w) == req[w].seen = "paid"

(* Mutant: the deadline is left to the sweeper. *)
NeverLate(w) == FALSE

TooLate(w) == req[w].seen = "pending" /\ req[w].oid \in overdue

(* Mutant: the comparison with the deadline is inverted. *)
NotExpired == {o \in OrderIds \ overdue : status[o] = "pending"}

(* The SELECT of cancel_expired. *)
Expired == {o \in overdue : status[o] = "pending"}

-----------------------------------------------------------------------------
(* Building blocks of the handlers *)

(* The head of "for item in items": lines come in any order. *)
Loop(w, ls) ==
    /\ todo' = [todo EXCEPT ![w] = ls]
    /\ \/ ls = {} /\ cur' = [cur EXCEPT ![w] = None]
       \/ \E l \in ls : cur' = [cur EXCEPT ![w] = l]

NoLoop(w) ==
    /\ todo' = [todo EXCEPT ![w] = {}]
    /\ cur' = [cur EXCEPT ![w] = None]

(* End of a transaction: the row locks go, the uncommitted writes with them. *)
EndTransaction(w) ==
    /\ orderLock' = [o \in OrderIds |-> IF orderLock[o] = w THEN None ELSE orderLock[o]]
    /\ stockLock' = [p \in Products |-> IF stockLock[p] = w THEN None ELSE stockLock[p]]
    /\ delta' = [delta EXCEPT ![w] = NoDelta]

(* Mutant: get_session yields a session that nobody closes. *)
LeaveOpen(w) == UNCHANGED <<locks, delta>>

(* "async with" closes the session an exception leaves, and so rolls back.  *)
CloseSession(w) == EndTransaction(w)

CommitStock(w) ==
    /\ stock' = [p \in Products |-> stock[p] + delta[w][p]]
    /\ dirty' = dirty \cup {p \in Products : delta[w][p] # 0}

(* Mutant: the sweeper leaves the keys to their TTL. *)
OwedByRequests(w) == IF w = Sweeper THEN {} ELSE req[w].lines

(* After the commit the handler owes every line an invalidate_product.      *)
Owed(w) == req[w].lines

(* The handler answers; in the sweeper control returns to its for loop. *)
Answer(w, code) ==
    IF w = Sweeper
    THEN pc' = [pc EXCEPT ![w] = "sweep"] /\ UNCHANGED reply
    ELSE pc' = [pc EXCEPT ![w] = "reply"] /\ reply' = [reply EXCEPT ![w] = code]

(* The code a handler answers after its last invalidation. *)
FinalCode(op) == CASE op = "create" -> "201" [] op = "pay" -> "409" [] OTHER -> "200"

(* session.rollback() followed by a domain error. *)
Refuse(w, code) ==
    /\ EndTransaction(w)
    /\ NoLoop(w)
    /\ Answer(w, code)
    /\ UNCHANGED <<shared, req, batch, scanned>>

Visible(o, u) == status[o] # "absent" /\ (owner[o] = u \/ u \in Admins)

-----------------------------------------------------------------------------
(* Requests: authentication, then the first read of the handler *)

Start(w, r, place, ls) ==
    /\ w \in Workers
    /\ pc[w] = "idle"
    /\ req' = [req EXCEPT ![w] = r]
    /\ pc' = [pc EXCEPT ![w] = place]
    /\ Loop(w, ls)
    /\ UNCHANGED <<shared, locks, delta, batch, scanned>>

(* POST /orders; the guard leaves an id for every order being placed. *)
StartCreate(w, u, b) ==
    /\ Cardinality({o \in OrderIds : status[o] = "absent"})
         > Cardinality({v \in Workers : req[v].op = "create"})
    /\ Start(w, [NoReq EXCEPT !.op = "create", !.user = u, !.lines = b], "deduct", b)
    /\ UNCHANGED reply

FirstPlace(op, k) ==
    CASE op = "pay" /\ k # None -> "dedup"
      [] op = "pay" /\ k = None -> "check"
      [] op \in {"cancel", "refund"} -> "transition"
      [] op \in {"ship", "complete"} -> "update"

(* POST /orders/{id}/...: get_order has loaded the row, or answers 404.  Of  *)
(* what it loaded only pay_order looks at the status again.                 *)
StartOrderOp(w, u, op, o, k) ==
    /\ op \in AdminOps => u \in Admins
    /\ op # "pay" => k = None
    /\ LET r == [op |-> op, user |-> u, oid |-> o, lines |-> items[o], key |-> k,
                 seen |-> IF op = "pay" THEN status[o] ELSE "absent",
                 late |-> op = "pay" /\ o \in overdue]
       IN IF Visible(o, u)
          THEN Start(w, r, FirstPlace(op, k), {}) /\ UNCHANGED reply
          ELSE Start(w, r, "reply", {}) /\ reply' = [reply EXCEPT ![w] = "404"]

(* PATCH /products/{id} with a stock: the UPDATE is emitted only when the   *)
(* value differs from the one loaded.                                       *)
StartEdit(w, u, p, s) ==
    /\ u \in Admins
    /\ LET r == [NoReq EXCEPT !.op = "edit", !.user = u, !.lines = {<<p, s>>}]
       IN IF p \notin rows
          THEN Start(w, r, "reply", {}) /\ reply' = [reply EXCEPT ![w] = "404"]
          ELSE /\ Start(w, r, IF s = stock[p] THEN "invalidate" ELSE "edit", {<<p, s>>})
               /\ UNCHANGED reply

(* The response is sent and the session closed. *)
Respond(w) ==
    /\ pc[w] = "reply"
    /\ pc' = [pc EXCEPT ![w] = "idle"]
    /\ req' = [req EXCEPT ![w] = NoReq]
    /\ reply' = [reply EXCEPT ![w] = None]
    /\ UNCHANGED <<shared, locks, todo, cur, delta, batch, scanned>>

-----------------------------------------------------------------------------
(* create_order *)

(* UPDATE products SET stock = stock - q WHERE id = p AND stock >= q *)
Deduct(w) ==
    /\ pc[w] = "deduct" /\ cur[w] # None
    /\ Covers(w)
    /\ LET p == cur[w][1]
           q == cur[w][2]
       IN /\ p \in rows
          /\ stockLock[p] \in {None, w}
          /\ stockLock' = [stockLock EXCEPT ![p] = w]
          /\ delta' = [delta EXCEPT ![w][p] = @ - q]
          /\ Loop(w, todo[w] \ {cur[w]})
    /\ UNCHANGED <<shared, orderLock, pc, req, reply, batch, scanned>>

DeductRefused(w) ==
    /\ pc[w] = "deduct" /\ cur[w] # None
    /\ IF cur[w][1] \in rows
       THEN ~Covers(w) /\ Refuse(w, "409")
       ELSE Refuse(w, "404")

(* save: the order and its lines are inserted and everything commits. *)
SaveOrder(w) ==
    /\ pc[w] = "deduct" /\ todo[w] = {}
    /\ Distinct(req[w].lines)
    /\ \E o \in OrderIds :
        /\ status[o] = "absent"
        /\ status' = [status EXCEPT ![o] = "pending"]
        /\ items' = [items EXCEPT ![o] = req[w].lines]
        /\ owner' = [owner EXCEPT ![o] = req[w].user]
    /\ CommitStock(w)
    /\ EndTransaction(w)
    /\ pc' = [pc EXCEPT ![w] = "invalidate"]
    /\ todo' = [todo EXCEPT ![w] = Owed(w)]
    /\ UNCHANGED <<rows, supply, overdue, payKey, paidWith, req, cur, reply, batch, scanned>>

-----------------------------------------------------------------------------
(* pay_order, ship_order, complete_order *)

(* SET payment:{payment_id} NX *)
Dedup(w) ==
    /\ pc[w] = "dedup"
    /\ IF KeyFree(w)
       THEN /\ payKey' = [payKey EXCEPT ![req[w].key] = req[w].oid]
            /\ pc' = [pc EXCEPT ![w] = "check"]
       ELSE /\ pc' = [pc EXCEPT ![w] = "replay"]
            /\ UNCHANGED payKey
    /\ UNCHANGED <<orderRows, productRows, overdue, locks, paidWith, dirty, req, todo,
                   cur, delta, reply, batch, scanned>>

(* GET of a key that was not free; by now it may have ended, or be another  *)
(* order's.  A replay answers without a look at the status.                 *)
Replay(w) ==
    /\ pc[w] = "replay"
    /\ Answer(w, IF payKey[req[w].key] = req[w].oid THEN "200" ELSE "409")
    /\ UNCHANGED <<shared, locks, req, todo, cur, delta, batch, scanned>>

(* The status the handler loaded, and the clock, decide how to go on. *)
CheckPayable(w) ==
    /\ pc[w] = "check"
    /\ IF AlreadyPaid(w)
       THEN Answer(w, "200")
       ELSE /\ pc' = [pc EXCEPT ![w] = IF TooLate(w) THEN "transition" ELSE "update"]
            /\ UNCHANGED reply
    /\ UNCHANGED <<shared, locks, req, todo, cur, delta, batch, scanned>>

(* The conditional UPDATE and its COMMIT, a transaction of one statement: a *)
(* failure between the two undoes it, and those who wait for its row in     *)
(* between find what they find after the COMMIT.                            *)
UpdateStatus(w) ==
    /\ pc[w] = "update"
    /\ InFrom(w)
    /\ LET o == req[w].oid
           op == req[w].op
       IN /\ orderLock[o] = None
          /\ status' = [status EXCEPT ![o] = Advanced(op)]
          /\ paidWith' = IF op = "pay" THEN [paidWith EXCEPT ![o] = req[w].key] ELSE paidWith
    /\ pc' = [pc EXCEPT ![w] = "reload"]
    /\ UNCHANGED <<items, owner, productRows, overdue, locks, payKey, dirty, req,
                   todo, cur, delta, reply, batch, scanned>>

(* get_order_by_id after the commit: if it fails the client gets 500 for an *)
(* order that has moved on.                                                 *)
Reload(w) ==
    /\ pc[w] = "reload"
    /\ Answer(w, "200")
    /\ UNCHANGED <<shared, locks, req, todo, cur, delta, batch, scanned>>

UpdateRefused(w) ==
    /\ pc[w] = "update"
    /\ ~InFrom(w)
    /\ Refuse(w, "409")

-----------------------------------------------------------------------------
(* _restock_order_core: cancel, refund, an overdue pay, the sweeper *)

Transition(w) ==
    /\ pc[w] = "transition"
    /\ InFrom(w)
    /\ orderLock[req[w].oid] = None
    /\ orderLock' = [orderLock EXCEPT ![req[w].oid] = w]
    /\ Loop(w, req[w].lines)
    /\ pc' = [pc EXCEPT ![w] = "restock"]
    /\ UNCHANGED <<shared, stockLock, req, delta, reply, batch, scanned>>

(* Mutant: the UPDATE skips a locked row, and so matches none. *)
RefusedWhenLocked(w) ==
    /\ pc[w] = "transition"
    /\ ~InFrom(w) \/ orderLock[req[w].oid] # None
    /\ Refuse(w, "409")

TransitionRefused(w) ==
    /\ pc[w] = "transition"
    /\ ~InFrom(w)
    /\ Refuse(w, "409")

(* UPDATE products SET stock = stock + q WHERE id = p *)
AddStock(w) ==
    /\ pc[w] = "restock" /\ cur[w] # None
    /\ LET p == cur[w][1]
           q == cur[w][2]
       IN /\ stockLock[p] \in {None, w}
          /\ stock[p] + delta[w][p] + q <= MaxStock
          /\ stockLock' = [stockLock EXCEPT ![p] = w]
          /\ delta' = [delta EXCEPT ![w][p] = @ + q]
          /\ Loop(w, todo[w] \ {cur[w]})
    /\ UNCHANGED <<shared, orderLock, pc, req, reply, batch, scanned>>

CommitRestock(w) ==
    /\ pc[w] = "restock" /\ todo[w] = {}
    /\ status' = [status EXCEPT ![req[w].oid] = Withdrawn(req[w].op)]
    /\ CommitStock(w)
    /\ EndTransaction(w)
    /\ pc' = [pc EXCEPT ![w] = "invalidate"]
    /\ todo' = [todo EXCEPT ![w] = Owed(w)]
    /\ UNCHANGED <<items, owner, rows, supply, overdue, payKey, paidWith, req, cur,
                   reply, batch, scanned>>

-----------------------------------------------------------------------------
(* Products *)

(* update_product: the absolute write and its COMMIT. *)
WriteStock(w) ==
    /\ pc[w] = "edit"
    /\ LET p == cur[w][1]
           s == cur[w][2]
       IN /\ stockLock[p] = None
          /\ stock' = [stock EXCEPT ![p] = s]
          /\ supply' = [supply EXCEPT ![p] = @ + s - stock[p]]
          /\ dirty' = dirty \cup {p}
    /\ pc' = [pc EXCEPT ![w] = "invalidate"]
    /\ cur' = [cur EXCEPT ![w] = None]
    /\ UNCHANGED <<orderRows, rows, overdue, locks, payKey, paidWith, req, todo,
                   delta, reply, batch, scanned>>

CreateProduct(p, s) ==
    /\ p \notin rows
    /\ rows' = rows \cup {p}
    /\ stock' = [stock EXCEPT ![p] = s]
    /\ supply' = [supply EXCEPT ![p] = s]
    /\ UNCHANGED <<orderRows, overdue, locks, payKey, paidWith, dirty, handler, batch, scanned>>

(* cache.invalidate_product for one of the lines just committed. *)
InvalidateDetail(w) ==
    /\ pc[w] = "invalidate"
    /\ \E l \in todo[w] :
        /\ dirty' = dirty \ {l[1]}
        /\ todo' = [todo EXCEPT ![w] = @ \ {l}]
        /\ IF todo[w] = {l} THEN Answer(w, FinalCode(req[w].op)) ELSE UNCHANGED <<pc, reply>>
    /\ cur' = [cur EXCEPT ![w] = None]
    /\ UNCHANGED <<orderRows, productRows, overdue, locks, payKey, paidWith, req,
                   delta, batch, scanned>>

-----------------------------------------------------------------------------
(* order_expiry_loop and cancel_expired *)

(* A round that finds nothing to do changes nothing and is left out. *)
Scan ==
    /\ pc[Sweeper] = "idle"
    /\ batch' = Expired /\ batch' # {}
    /\ scanned' = batch'
    /\ pc' = [pc EXCEPT ![Sweeper] = "sweep"]
    /\ UNCHANGED <<shared, locks, req, todo, cur, delta, reply>>

SweepNext ==
    /\ pc[Sweeper] = "sweep"
    /\ \E o \in batch :
        /\ batch' = batch \ {o}
        /\ req' = [req EXCEPT ![Sweeper] = [NoReq EXCEPT !.op = "sweep", !.oid = o,
                                                         !.lines = items[o]]]
    /\ pc' = [pc EXCEPT ![Sweeper] = "transition"]
    /\ UNCHANGED <<shared, locks, todo, cur, delta, reply, scanned>>

SweepEnd ==
    /\ pc[Sweeper] = "sweep" /\ batch = {}
    /\ pc' = [pc EXCEPT ![Sweeper] = "idle"]
    /\ req' = [req EXCEPT ![Sweeper] = NoReq]
    /\ scanned' = {}
    /\ UNCHANGED <<shared, locks, todo, cur, delta, reply, batch>>

-----------------------------------------------------------------------------
(* What ends a handler early *)

(* An exception nobody handles: the session closes, which rolls back; the   *)
(* client gets 500, the sweeper gives up its round.                         *)
Abort(w) ==
    /\ CloseSession(w)
    /\ NoLoop(w)
    /\ dirty' = IF pc[w] = "invalidate" THEN dirty \ {l[1] : l \in todo[w]} ELSE dirty
    /\ IF w = Sweeper
       THEN /\ pc' = [pc EXCEPT ![w] = "idle"]
            /\ req' = [req EXCEPT ![w] = NoReq]
            /\ batch' = {} /\ scanned' = {}
            /\ UNCHANGED reply
       ELSE /\ pc' = [pc EXCEPT ![w] = "reply"]
            /\ reply' = [reply EXCEPT ![w] = "500"]
            /\ UNCHANGED <<req, batch, scanned>>
    /\ UNCHANGED <<orderRows, productRows, overdue, payKey, paidWith>>

(* A basket names a product twice: the unique constraint of order_items. *)
SaveViolatesUnique(w) ==
    /\ pc[w] = "deduct" /\ todo[w] = {}
    /\ ~Distinct(req[w].lines)
    /\ Abort(w)

(* The int4 column cannot hold the sum. *)
AddStockOverflows(w) ==
    /\ pc[w] = "restock" /\ cur[w] # None
    /\ LET p == cur[w][1]
       IN /\ stockLock[p] \in {None, w}
          /\ stock[p] + delta[w][p] + cur[w][2] > MaxStock
    /\ Abort(w)

(* The transaction whose row lock task w's next statement waits for. *)
WaitsFor(w) ==
    IF /\ cur[w] # None
       /\ \/ pc[w] = "deduct" /\ Covers(w)
          \/ pc[w] \in {"restock", "edit"}
    THEN IF stockLock[cur[w][1]] = w THEN None ELSE stockLock[cur[w][1]]
    ELSE IF pc[w] \in {"update", "transition"} /\ InFrom(w)
         THEN orderLock[req[w].oid]
         ELSE None

(* Tasks that wait for each other in a circle, or in several. *)
Deadlocked(S) == {WaitsFor(v) : v \in S} = S

(* PostgreSQL breaks a cycle of waiting transactions by aborting one. *)
DeadlockVictim(w) ==
    /\ \E S \in SUBSET Tasks : w \in S /\ Deadlocked(S)
    /\ Abort(w)

(* A broken connection or a crash of the process, in the middle of a request. *)
Fault(w) ==
    /\ Faults
    /\ pc[w] \notin {"idle", "reply"}
    /\ Abort(w)

(* created_at + ORDER_TIMEOUT_MINUTES passes; the code asks only about pending orders. *)
TimePasses(o) ==
    /\ status[o] = "pending"
    /\ o \notin overdue
    /\ overdue' = overdue \cup {o}
    /\ UNCHANGED <<orderRows, productRows, locks, payKey, paidWith, dirty, handler, batch,
                   scanned>>

(* The 24 h of a payment key run out; they are assumed to be enough for the *)
(* request that set it to come from its SET to its UPDATE.                  *)
PaymentKeyExpires(k) ==
    /\ payKey[k] # None
    /\ \A w \in Workers : pc[w] \in {"check", "update"} => req[w].key # k
    /\ payKey' = [payKey EXCEPT ![k] = None]
    /\ paidWith' = [o \in OrderIds |-> IF paidWith[o] = k THEN None ELSE paidWith[o]]
    /\ UNCHANGED <<orderRows, productRows, overdue, locks, dirty, handler, batch, scanned>>

-----------------------------------------------------------------------------
Arrival(w) ==
    \/ \E u \in Users, b \in Baskets : StartCreate(w, u, b)
    \/ \E u \in Users, op \in ClientOps, o \in OrderIds, k \in PaymentIds \cup {None} :
        StartOrderOp(w, u, op, o, k)
    \/ \E u \in Users, p \in Products, s \in StockEdits : StartEdit(w, u, p, s)

(* The steps a handler takes by itself once it has started. *)
Step(w) ==
    \/ Respond(w) \/ Deduct(w) \/ DeductRefused(w) \/ SaveOrder(w) \/ SaveViolatesUnique(w)
    \/ Dedup(w) \/ Replay(w) \/ CheckPayable(w)
    \/ UpdateStatus(w) \/ UpdateRefused(w) \/ Reload(w)
    \/ Transition(w) \/ TransitionRefused(w) \/ AddStock(w) \/ AddStockOverflows(w)
    \/ CommitRestock(w) \/ WriteStock(w) \/ InvalidateDetail(w)

SweepStep == Scan \/ SweepNext \/ SweepEnd

Next ==
    \/ \E w \in Workers : Arrival(w)
    \/ \E w \in Tasks : Step(w) \/ DeadlockVictim(w) \/ Fault(w)
    \/ SweepStep
    \/ \E p \in Products, s \in StockEdits : CreateProduct(p, s)
    \/ \E o \in OrderIds : TimePasses(o)
    \/ \E k \in PaymentIds : PaymentKeyExpires(k)

Spec == Init /\ [][Next]_vars

(* PostgreSQL queues the waiters of a row lock, so a handler that can go on  *)
(* again and again does (SF); it always breaks a deadlock; asyncio resumes   *)
(* the sweeper.  Nothing makes clients send requests.                        *)
Fairness ==
    /\ \A w \in Tasks : SF_vars(Step(w))
    /\ WF_vars(\E w \in Tasks : DeadlockVictim(w))
    /\ WF_vars(SweepStep)

FairSpec == Spec /\ Fairness

-----------------------------------------------------------------------------
(* Properties *)

OrderIdOrNone == OrderIds \cup {None}
Request == [op : Ops, user : Users \cup {None}, oid : OrderIdOrNone,
            lines : SUBSET (Products \X Nat), key : PaymentIds \cup {None},
            seen : Statuses \cup {"absent"}, late : BOOLEAN]

(* Type invariant.  The range of stock also says that no sequence of        *)
(* deductions, restocks and corrections leaves 0..MaxStock (the check       *)
(* constraint and the int4 column of models.Product).                       *)
TypeOK ==
    /\ status \in [OrderIds -> Statuses \cup {"absent"}]
    /\ items \in [OrderIds -> SUBSET Lines]
    /\ owner \in [OrderIds -> Users \cup {None}]
    /\ rows \subseteq Products
    /\ stock \in [Products -> 0..MaxStock]
    /\ supply \in [Products -> Int]
    /\ overdue \subseteq OrderIds
    /\ orderLock \in [OrderIds -> Tasks \cup {None}]
    /\ stockLock \in [Products -> Tasks \cup {None}]
    /\ payKey \in [PaymentIds -> OrderIdOrNone]
    /\ paidWith \in [OrderIds -> PaymentIds \cup {None}]
    /\ dirty \subseteq Products
    /\ pc \in [Tasks -> Places]
    /\ req \in [Tasks -> Request]
    /\ todo \in [Tasks -> SUBSET (Products \X Nat)]
    /\ cur \in [Tasks -> (Products \X Nat) \cup {None}]
    /\ delta \in [Tasks -> [Products -> Int]]
    /\ reply \in [Tasks -> Codes \cup {None}]
    /\ batch \subseteq OrderIds /\ scanned \subseteq OrderIds

(* Every row lock, and every uncommitted write, belongs to a transaction    *)
(* that is still running: no early return or exception of a handler leaves  *)
(* one behind (the rollback calls before each raise in service.py).         *)
LocksBelongToTransactions ==
    /\ \A o \in OrderIds : orderLock[o] # None =>
         pc[orderLock[o]] = "restock" /\ req[orderLock[o]].oid = o
    /\ \A p \in Products : stockLock[p] # None =>
         pc[stockLock[p]] \in {"deduct", "restock"}
    /\ \A w \in Tasks, p \in Products : delta[w][p] # 0 => stockLock[p] = w

(* A success answer is true whatever ran in between: a cancel or refund     *)
(* answered 200 withdrew the order, a ship or complete moved it on, a pay   *)
(* without payment_id found or left it paid (service.pay_order .. complete_ *)
(* order).  A pay with payment_id may answer 200 for another one's attempt. *)
SuccessMeansDone ==
    \A w \in Workers : pc[w] = "reply" /\ reply[w] = "200" =>
        LET now == status[req[w].oid]
        IN CASE req[w].op = "cancel" -> now = "cancelled"
             [] req[w].op = "refund" -> now = "refunded"
             [] req[w].op = "ship" -> now \in {"shipped", "completed"}
             [] req[w].op = "complete" -> now = "completed"
             [] req[w].op = "pay" /\ req[w].key = None ->
                    now \in {"paid", "shipped", "completed", "refunded"}
             [] OTHER -> TRUE

(* A refusal is final: a cancel, or a pay without payment_id, that is       *)
(* answered 409 leaves an order that is not pending any more, so nobody was *)
(* refused for a change that was then rolled back (the conditional UPDATE   *)
(* waits for the row; _restock_order_core, pay_order).                      *)
RefusalsAreFinal ==
    \A w \in Workers :
        /\ pc[w] = "reply" /\ reply[w] = "409"
        /\ req[w].op = "cancel" \/ (req[w].op = "pay" /\ req[w].key = None)
        => status[req[w].oid] \notin {"absent", "pending"}

(* Within the life of its key a payment_id pays at most one order, however  *)
(* the handlers that carry it interleave (the SETNX of pay_order).          *)
PaymentIdBindsOneOrder ==
    \A o1, o2 \in OrderIds :
        paidWith[o1] # None /\ paidWith[o1] = paidWith[o2] => o1 = o2

(* Once a stock change is committed, the detail key of its product is       *)
(* deleted or some handler is still about to delete it, unless the handler  *)
(* breaks between the two (invalidate_product after each commit).           *)
ChangesAreInvalidated ==
    \A p \in dirty :
        \E w \in Tasks : pc[w] = "invalidate" /\ \E l \in todo[w] : l[1] = p

(* A pay request that arrived after the deadline never makes the order paid, *)
(* even if it waits or races with others (the guard of pay_order).          *)
LatePaymentRefused ==
    [][\A o \in OrderIds : status[o] = "pending" /\ status'[o] = "paid" =>
        \A w \in Workers : pc[w] = "update" /\ pc'[w] = "reload" => ~req[w].late]_vars

(* Transaction v stands at a statement it can execute or at its commit. *)
CanGoOn(v) ==
    /\ pc[v] \in {"deduct", "restock"}
    /\ WaitsFor(v) = None
    /\ cur[v] = None => todo[v] = {}

(* Nobody waits for a row lock in vain: whoever is followed from a waiting  *)
(* task to the one it waits for, and on from there, there is a transaction  *)
(* that can go on, or a deadlock, which PostgreSQL breaks.  No lock is held *)
(* by a handler that has answered or awaits something else.                 *)
WaitingEnds ==
    \A S \in SUBSET Tasks :
        /\ \E w \in S : WaitsFor(w) # None
        /\ \A w \in S : WaitsFor(w) \in S \cup {None}
        => \/ \E v \in S : CanGoOn(v)
           \/ \E C \in SUBSET S : C # {} /\ Deadlocked(C)

(* A round of the sweeper that comes to its end leaves none of the orders   *)
(* it found pending: each was cancelled by it, or moved on by a request     *)
(* that was faster (the loop of cancel_expired goes on after a refusal).    *)
RoundSettles ==
    pc[Sweeper] = "sweep" /\ batch = {} => \A o \in scanned : status[o] # "pending"

Book == INSTANCE OrderBook

(* Units on the shelf and in live orders add up to the units supplied, at   *)
(* every commit (deduct_stock, add_stock, the rollbacks).                   *)
Conserved == Book!StockConserved

(* Each commit of the service is one atomic operation of the order book and *)
(* every other step leaves the book alone.                                  *)
RefinesBook == Book!Spec

(* Every request is answered: no deadlock, lock queue or loop holds it.     *)
RequestsEnd == \A w \in Workers : pc[w] # "idle" ~> pc[w] = "idle"

(* An overdue pending order is eventually cancelled or was paid in time,    *)
(* unless the sweeper is the victim of deadlocks for ever (cancel_expired). *)
OverdueSettled ==
    \/ []<><<DeadlockVictim(Sweeper)>>_vars
    \/ \A o \in OrderIds : status[o] = "pending" /\ o \in overdue ~> status[o] # "pending"

-----------------------------------------------------------------------------
(* A statement of the repository that the code breaks *)

(* "CANCELLED still gets 409" (the docstring of service.pay_order). *)
CancelledPayRejected ==
    \A w \in Workers : pc[w] = "reply" /\ req[w].op = "pay" /\ reply[w] = "200" =>
        req[w].seen # "cancelled"
=============================================================================
