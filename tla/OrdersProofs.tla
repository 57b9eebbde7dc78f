---------------------------- MODULE OrdersProofs ----------------------------
(***************************************************************************)
(* Proofs about Orders for every value of its constants.                   *)
(***************************************************************************)
EXTENDS OrdersInv, FiniteSetTheorems, TLAPS

(* Quantities are natural numbers. *)
LEMMA QtyType ==
    ASSUME NEW b, NEW p
    PROVE  Qty(b, p) \in 0..MaxQty
<1>1. CASE \E q \in 1..MaxQty : <<p, q>> \in b
  <2>1. Qty(b, p) = CHOOSE q \in 1..MaxQty : <<p, q>> \in b
    BY <1>1 DEF Qty
  <2>2. (CHOOSE q \in 1..MaxQty : <<p, q>> \in b) \in 1..MaxQty
    BY <1>1
  <2> QED BY <2>1, <2>2, StoreAssumption
<1>2. CASE ~ \E q \in 1..MaxQty : <<p, q>> \in b
  BY <1>2, StoreAssumption DEF Qty
<1> QED BY <1>1, <1>2

(* A line of a basket with distinct products gives the quantity. *)
LEMMA QtyOfLine ==
    ASSUME NEW b \in SUBSET Lines, Distinct(b), NEW l \in b
    PROVE  l[2] \in 1..MaxQty /\ Qty(b, l[1]) = l[2]
<1>1. /\ l[1] \in Products
      /\ l[2] \in 1..MaxQty
      /\ l = <<l[1], l[2]>>
  BY DEF Lines
<1>2. \A q \in 1..MaxQty : <<l[1], q>> \in b => q = l[2]
  <2> TAKE q \in 1..MaxQty
  <2> HAVE <<l[1], q>> \in b
  <2>1. <<l[1], q>>[1] = l[1]
    OBVIOUS
  <2>2. <<l[1], q>> = l
    BY <2>1 DEF Distinct
  <2> QED BY <2>2
<1>3. (CHOOSE q \in 1..MaxQty : <<l[1], q>> \in b) = l[2]
  BY <1>1, <1>2
<1> QED BY <1>1, <1>3 DEF Qty

(* Taking a line out of what is left of a basket changes its product only. *)
LEMMA QtyRemove ==
    ASSUME NEW b \in SUBSET Lines, Distinct(b), NEW t \in SUBSET b, NEW l \in t,
           NEW p \in Products
    PROVE  Qty(t \ {l}, p) = IF p = l[1] THEN Qty(t, p) - l[2] ELSE Qty(t, p)
<1>1. /\ l[1] \in Products
      /\ l[2] \in 1..MaxQty
      /\ l = <<l[1], l[2]>>
  BY DEF Lines
<1>2. Distinct(t) /\ t \in SUBSET Lines
  BY DEF Distinct
<1>3. CASE p = l[1]
  <2>1. ~ \E q \in 1..MaxQty : <<p, q>> \in t \ {l}
    <3> SUFFICES ASSUME NEW q \in 1..MaxQty, <<p, q>> \in t \ {l} PROVE FALSE
      OBVIOUS
    <3>1. <<p, q>>[1] = l[1]
      BY <1>3
    <3>2. <<p, q>> = l
      BY <3>1, <1>2 DEF Distinct
    <3> QED BY <3>2
  <2>2. Qty(t \ {l}, p) = 0
    BY <2>1 DEF Qty
  <2>3. Qty(t, p) = l[2]
    BY <1>2, <1>3, QtyOfLine
  <2> QED BY <1>1, <1>3, <2>2, <2>3
<1>4. CASE p # l[1]
  <2>1. \A q \in 1..MaxQty : <<p, q>> \in t \ {l} <=> <<p, q>> \in t
    BY <1>1, <1>4
  <2>2. (CHOOSE q \in 1..MaxQty : <<p, q>> \in t \ {l})
          = CHOOSE q \in 1..MaxQty : <<p, q>> \in t
    BY <2>1
  <2> QED BY <1>4, <2>1, <2>2 DEF Qty
<1> QED BY <1>3, <1>4

LEMMA QtyEmpty == \A p : Qty({}, p) = 0
  BY DEF Qty

-----------------------------------------------------------------------------
(* Frame lemmas: what a step of one task leaves true of the others *)

LEMMA LinesType == Lines \subseteq Products \X Nat
  BY StoreAssumption DEF Lines

(* Outside its transactional places a task has no uncommitted write. *)
LEMMA QuietDelta ==
    ASSUME IInv, NEW w \in Tasks, pc[w] \notin {"deduct", "restock"}
    PROVE  delta[w] = NoDelta
<1>1. \A p \in Products : delta[w][p] = 0
  BY OrdersAssumption DEF IInv, LocksBelongToTransactions
<1>2. delta[w] \in [Products -> Int]
  BY DEF IInv, TypeOK
<1> QED BY <1>1, <1>2 DEF NoDelta

(* A task that did not move keeps its knowledge if its rows are left alone. *)
LEMMA OtherHandler ==
    ASSUME NEW v \in Tasks, Handler(v),
           pc'[v] = pc[v], req'[v] = req[v], todo'[v] = todo[v], cur'[v] = cur[v],
           delta'[v] = delta[v], rows \subseteq rows',
           \A o \in OrderIds : status[o] # "absent" =>
               status'[o] # "absent" /\ items'[o] = items[o],
           \A o \in OrderIds : orderLock[o] = v =>
               orderLock'[o] = v /\ status'[o] = status[o]
    PROVE  Handler(v)'
<1>1. pc[v] = "deduct" => Deducting(v)'
  BY DEF Handler, Deducting, AtLine
<1>2. pc[v] \in {"dedup", "replay", "check", "update", "transition", "restock"} => Loaded(v)'
  BY DEF Handler, Loaded
<1>3. pc[v] = "restock" => Restocking(v)'
  BY DEF Handler, Loaded, Restocking, AtLine
<1>4. pc[v] = "edit" => cur'[v] \in rows' \X (0..MaxStock)
  BY DEF Handler
<1> QED BY <1>1, <1>2, <1>3, <1>4 DEF Handler

(* Steps of a task that holds no row, and take none. *)
LEMMA QuietLocks ==
    ASSUME IInv, NEW w \in Tasks, pc[w] \notin {"deduct", "restock"},
           UNCHANGED <<orderLock, stockLock, delta>>,
           \A v \in Tasks \ {w} : pc'[v] = pc[v] /\ req'[v] = req[v]
    PROVE  LocksBelongToTransactions'
<1>1. /\ orderLock \in [OrderIds -> Tasks \cup {None}]
      /\ stockLock \in [Products -> Tasks \cup {None}]
      /\ LocksBelongToTransactions
  BY DEF IInv, TypeOK
<1>2. ASSUME NEW o \in OrderIds, orderLock'[o] # None
      PROVE  pc'[orderLock'[o]] = "restock" /\ req'[orderLock'[o]].oid = o
  <2>1. /\ orderLock[o] \in Tasks
        /\ pc[orderLock[o]] = "restock"
        /\ req[orderLock[o]].oid = o
    BY <1>1, <1>2 DEF LocksBelongToTransactions
  <2> QED BY <2>1
<1>3. ASSUME NEW p \in Products, stockLock'[p] # None
      PROVE  pc'[stockLock'[p]] \in {"deduct", "restock"}
  <2>1. stockLock[p] \in Tasks /\ pc[stockLock[p]] \in {"deduct", "restock"}
    BY <1>1, <1>3 DEF LocksBelongToTransactions
  <2> QED BY <2>1
<1>4. \A v \in Tasks, p \in Products : delta'[v][p] # 0 => stockLock'[p] = v
  BY <1>1 DEF LocksBelongToTransactions
<1> QED BY <1>2, <1>3, <1>4 DEF LocksBelongToTransactions

(* The end of a transaction of task w. *)
LEMMA EndLocks ==
    ASSUME IInv, NEW w \in Tasks, EndTransaction(w),
           \A v \in Tasks \ {w} : pc'[v] = pc[v] /\ req'[v] = req[v]
    PROVE  /\ LocksBelongToTransactions'
           /\ delta' \in [Tasks -> [Products -> Int]]
           /\ orderLock' \in [OrderIds -> Tasks \cup {None}]
           /\ stockLock' \in [Products -> Tasks \cup {None}]
           /\ \A v \in Tasks \ {w} : delta'[v] = delta[v]
           /\ \A o \in OrderIds : orderLock[o] # w => orderLock'[o] = orderLock[o]
           /\ \A p \in Products : delta'[w][p] = 0
<1>1. /\ delta' = [delta EXCEPT ![w] = NoDelta]
      /\ delta \in [Tasks -> [Products -> Int]]
      /\ NoDelta \in [Products -> Int]
  BY DEF EndTransaction, IInv, TypeOK, NoDelta
<1>2. /\ delta' \in [Tasks -> [Products -> Int]]
      /\ \A v \in Tasks \ {w} : delta'[v] = delta[v]
      /\ delta'[w] = NoDelta
  BY <1>1
<1>3. \A p \in Products : delta'[w][p] = 0
  BY <1>2 DEF NoDelta
<1>4. /\ orderLock' \in [OrderIds -> Tasks \cup {None}]
      /\ stockLock' \in [Products -> Tasks \cup {None}]
      /\ \A o \in OrderIds : orderLock'[o] = IF orderLock[o] = w THEN None ELSE orderLock[o]
      /\ \A p \in Products : stockLock'[p] = IF stockLock[p] = w THEN None ELSE stockLock[p]
  BY DEF EndTransaction, IInv, TypeOK
<1>5. LocksBelongToTransactions'
  <2>1. \A o \in OrderIds : orderLock'[o] # None =>
           pc'[orderLock'[o]] = "restock" /\ req'[orderLock'[o]].oid = o
    BY <1>4 DEF IInv, LocksBelongToTransactions, TypeOK
  <2>2. \A p \in Products : stockLock'[p] # None =>
           pc'[stockLock'[p]] \in {"deduct", "restock"}
    BY <1>4 DEF IInv, LocksBelongToTransactions, TypeOK
  <2>3. \A v \in Tasks, p \in Products : delta'[v][p] # 0 => stockLock'[p] = v
    BY <1>2, <1>3, <1>4 DEF IInv, LocksBelongToTransactions
  <2> QED BY <2>1, <2>2, <2>3 DEF LocksBelongToTransactions
<1> QED BY <1>2, <1>3, <1>4, <1>5

(* The other tasks stand still while task w moves. *)
OthersStand(w) ==
    \A v \in Tasks \ {w} :
        /\ pc'[v] = pc[v]
        /\ req'[v] = req[v]
        /\ todo'[v] = todo[v]
        /\ cur'[v] = cur[v]

(* A step of a task outside its transactions; it may advance an order that   *)
(* nobody has locked.                                                        *)
LEMMA AdvanceStep ==
    ASSUME IInv, NEW w \in Tasks, pc[w] \notin {"deduct", "restock"}, OthersStand(w),
           UNCHANGED <<items, rows, stock, orderLock, stockLock, delta>>,
           \A o \in OrderIds :
               /\ status[o] = "absent" <=> status'[o] = "absent"
               /\ orderLock[o] # None => status'[o] = status[o],
           \A o \in overdue' \cup batch' : status'[o] # "absent",
           TypeOK', Handler(w)'
    PROVE  IInv'
<1>1. LocksBelongToTransactions'
  BY QuietLocks DEF OthersStand
<1>2. StockBounds' /\ LockedRowsExist'
  BY DEF IInv, StockBounds, LockedRowsExist
<1>3. PlacedOrders'
  BY DEF IInv, PlacedOrders
<1>4. ASSUME NEW v \in Tasks PROVE Handler(v)'
  <2>1. CASE v = w
    BY <2>1
  <2>2. CASE v # w
    BY <2>2, OtherHandler, OrdersAssumption DEF OthersStand, IInv
  <2> QED BY <2>1, <2>2
<1> QED BY <1>1, <1>2, <1>3, <1>4 DEF IInv

(* A step of a task outside its transactions that commits nothing. *)
LEMMA QuietStep ==
    ASSUME IInv, NEW w \in Tasks, pc[w] \notin {"deduct", "restock"}, OthersStand(w),
           UNCHANGED <<status, items, rows, stock, orderLock, stockLock, delta>>,
           \A o \in overdue' \cup batch' : status[o] # "absent",
           TypeOK', Handler(w)'
    PROVE  IInv'
  BY AdvanceStep

(* A rollback: the committed rows stay, the locks of w go. *)
LEMMA RollbackStep ==
    ASSUME IInv, NEW w \in Tasks, EndTransaction(w), OthersStand(w),
           UNCHANGED <<status, items, rows, stock>>,
           \A o \in overdue' \cup batch' : status[o] # "absent",
           TypeOK', Handler(w)'
    PROVE  IInv'
<1>1. LocksBelongToTransactions'
  BY EndLocks DEF OthersStand
<1>2. ASSUME NEW v \in Tasks, NEW p \in Products
      PROVE  stock'[p] + delta'[v][p] \in 0..MaxStock
  <2>1. stock[p] \in 0..MaxStock /\ stock[p] + delta[v][p] \in 0..MaxStock
    BY DEF IInv, TypeOK, StockBounds
  <2>2. CASE v = w
    BY <2>1, <2>2, EndLocks, StoreAssumption DEF OthersStand
  <2>3. CASE v # w
    BY <2>1, <2>3, EndLocks DEF OthersStand
  <2> QED BY <2>2, <2>3
<1>3. LockedRowsExist'
  BY DEF IInv, LockedRowsExist, EndTransaction
<1>4. PlacedOrders'
  BY DEF IInv, PlacedOrders
<1>5. ASSUME NEW v \in Tasks PROVE Handler(v)'
  <2>1. CASE v = w
    BY <2>1
  <2>2. CASE v # w
    BY <2>2, OtherHandler, EndLocks DEF OthersStand, IInv
  <2> QED BY <2>1, <2>2
<1> QED BY <1>1, <1>2, <1>3, <1>4, <1>5 DEF IInv, StockBounds

(* A commit of w: its stock changes are added, its locks go; orders it does *)
(* not hold keep their status, except that absent ones may be placed.       *)
LEMMA CommitStep ==
    ASSUME IInv, NEW w \in Tasks, EndTransaction(w), CommitStock(w), OthersStand(w),
           rows' = rows, UNCHANGED <<overdue, batch, scanned>>,
           \A o \in OrderIds : status[o] # "absent" =>
               /\ status'[o] # "absent"
               /\ items'[o] = items[o]
               /\ orderLock[o] \notin {None, w} => status'[o] = status[o],
           \A o \in OrderIds : status[o] = "absent" /\ status'[o] # "absent" =>
               Distinct(items'[o]) /\ \A l \in items'[o] : l[1] \in rows,
           TypeOK', Handler(w)'
    PROVE  IInv'
<1>1. LocksBelongToTransactions'
  BY EndLocks DEF OthersStand
<1>2. ASSUME NEW v \in Tasks, NEW p \in Products
      PROVE  stock'[p] + delta'[v][p] \in 0..MaxStock
  <2>1. stock'[p] = stock[p] + delta[w][p]
    BY DEF CommitStock
  <2>2. stock[p] + delta[w][p] \in 0..MaxStock /\ stock[p] + delta[v][p] \in 0..MaxStock
    BY DEF IInv, StockBounds
  <2>3. CASE v = w
    BY <2>1, <2>2, <2>3, EndLocks DEF OthersStand
  <2>4. CASE v # w
    <3>1. delta'[v][p] = delta[v][p]
      BY <2>4, EndLocks DEF OthersStand
    <3>2. delta[v][p] = 0 \/ delta[w][p] = 0
      BY <2>4 DEF IInv, LocksBelongToTransactions
    <3>3. /\ delta[v][p] \in Int
          /\ delta[w][p] \in Int
          /\ stock[p] \in Int
      BY DEF IInv, TypeOK
    <3> QED BY <2>1, <2>2, <3>1, <3>2, <3>3
  <2> QED BY <2>3, <2>4
<1>3. LockedRowsExist'
  BY DEF IInv, LockedRowsExist, EndTransaction
<1>4. PlacedOrders'
  BY DEF IInv, PlacedOrders, TypeOK
<1>5. ASSUME NEW v \in Tasks PROVE Handler(v)'
  <2>1. CASE v = w
    BY <2>1
  <2>2. CASE v # w
    <3>1. \A o \in OrderIds : orderLock[o] = v =>
              orderLock'[o] = v /\ status'[o] = status[o]
      <4> SUFFICES ASSUME NEW o \in OrderIds, orderLock[o] = v
                   PROVE  orderLock'[o] = v /\ status'[o] = status[o]
        OBVIOUS
      <4>1. pc[v] = "restock" /\ req[v].oid = o /\ v # None
        BY OrdersAssumption DEF IInv, LocksBelongToTransactions
      <4>2. status[o] # "absent"
        BY <4>1 DEF IInv, Handler, Loaded
      <4> QED BY <2>2, <4>1, <4>2, EndLocks DEF OthersStand
    <3> QED BY <2>2, <3>1, OtherHandler, EndLocks DEF OthersStand, IInv
  <2> QED BY <2>1, <2>2
<1> QED BY <1>1, <1>2, <1>3, <1>4, <1>5 DEF IInv, StockBounds

-----------------------------------------------------------------------------
(* Building blocks *)

LEMMA NoReqType == NoReq \in Request
  BY DEF NoReq, Request, Ops, OrderOps, OrderIdOrNone, Statuses

LEMMA LoopType ==
    ASSUME TypeOK, NEW w \in Tasks, NEW ls \in SUBSET (Products \X Nat), Loop(w, ls)
    PROVE  /\ todo' \in [Tasks -> SUBSET (Products \X Nat)]
           /\ cur' \in [Tasks -> (Products \X Nat) \cup {None}]
           /\ todo'[w] = ls
           /\ IF ls = {} THEN cur'[w] = None ELSE cur'[w] \in ls
           /\ \A v \in Tasks \ {w} : todo'[v] = todo[v] /\ cur'[v] = cur[v]
  BY DEF TypeOK, Loop

LEMMA NoLoopType ==
    ASSUME TypeOK, NEW w \in Tasks, NoLoop(w)
    PROVE  /\ todo' \in [Tasks -> SUBSET (Products \X Nat)]
           /\ cur' \in [Tasks -> (Products \X Nat) \cup {None}]
           /\ \A v \in Tasks \ {w} : todo'[v] = todo[v] /\ cur'[v] = cur[v]
  BY DEF TypeOK, NoLoop

LEMMA AnswerType ==
    ASSUME TypeOK, NEW w \in Tasks, NEW code \in Codes, Answer(w, code)
    PROVE  /\ pc' \in [Tasks -> Places]
           /\ reply' \in [Tasks -> Codes \cup {None}]
           /\ pc'[w] \in {"sweep", "reply"}
           /\ \A v \in Tasks \ {w} : pc'[v] = pc[v]
  BY DEF TypeOK, Answer, Places

(* A place where the invariant asks nothing of the handler. *)
LEMMA RestHandler ==
    ASSUME NEW w \in Tasks, pc'[w] \in {"idle", "sweep", "reply", "reload", "invalidate"}
    PROVE  Handler(w)'
  BY DEF Handler

LEMMA RefuseStep ==
    ASSUME IInv, NEW w \in Tasks, NEW code \in Codes, Refuse(w, code)
    PROVE  IInv'
<1>1. TypeOK' /\ OthersStand(w) /\ Handler(w)'
  <2>1. TypeOK /\ EndTransaction(w) /\ NoLoop(w) /\ Answer(w, code)
    BY DEF IInv, Refuse
  <2>2. TypeOK'
    BY <2>1, NoLoopType, AnswerType, EndLocks
       DEF Refuse, TypeOK, orderRows, productRows, shared, locks
  <2>3. OthersStand(w)
    BY <2>1, NoLoopType, AnswerType DEF OthersStand, Refuse
  <2> QED BY <2>1, <2>2, <2>3, AnswerType, RestHandler
<1> QED BY <1>1, RollbackStep DEF Refuse, orderRows, productRows, IInv, PlacedOrders, shared, locks

LEMMA AbortStep ==
    ASSUME IInv, NEW w \in Tasks, Abort(w)
    PROVE  IInv'
<1>1. TypeOK' /\ OthersStand(w) /\ Handler(w)'
  <2>1. TypeOK /\ EndTransaction(w) /\ NoLoop(w)
    BY DEF IInv, Abort, CloseSession
  <2>2. /\ pc' \in [Tasks -> Places]
        /\ reply' \in [Tasks -> Codes \cup {None}]
        /\ req' \in [Tasks -> Request]
        /\ batch' \subseteq OrderIds
        /\ pc'[w] \in {"idle", "reply"}
        /\ \A v \in Tasks \ {w} : pc'[v] = pc[v] /\ req'[v] = req[v]
    <3>1. CASE w = Sweeper
      BY <2>1, <3>1, NoReqType DEF Abort, TypeOK, Places
    <3>2. CASE w # Sweeper
      BY <2>1, <3>2 DEF Abort, TypeOK, Places, Codes
    <3> QED BY <3>1, <3>2
  <2>3. OthersStand(w)
    BY <2>1, <2>2, NoLoopType DEF OthersStand
  <2>4. TypeOK'
    BY <2>1, <2>2, NoLoopType, EndLocks DEF Abort, TypeOK, orderRows, productRows, shared, locks
  <2> QED BY <2>2, <2>3, <2>4, RestHandler
<1> QED BY <1>1, RollbackStep
        DEF Abort, CloseSession, orderRows, productRows, IInv, PlacedOrders, shared, locks

-----------------------------------------------------------------------------
(* One lemma per action *)

(* The arrival of a request: pc was "idle", so no row was held. *)
LEMMA ArrivalStep ==
    ASSUME IInv, NEW w \in Workers, NEW r \in Request, NEW place \in Places,
           NEW ls \in SUBSET (Products \X Nat), Start(w, r, place, ls),
           reply' \in [Tasks -> Codes \cup {None}], Handler(w)'
    PROVE  IInv'
<1>1. w \in Tasks /\ TypeOK /\ Loop(w, ls) /\ pc[w] = "idle"
  BY DEF Tasks, IInv, Start
<1>2. TypeOK'
  BY <1>1, LoopType DEF TypeOK, Start, orderRows, productRows, shared, locks
<1>3. OthersStand(w)
  BY <1>1, LoopType DEF OthersStand, Start, TypeOK
<1> QED BY <1>1, <1>2, <1>3, QuietStep
        DEF Start, orderRows, productRows, IInv, PlacedOrders, shared, locks

LEMMA StartCreateStep ==
    ASSUME IInv, NEW w \in Workers, NEW u \in Users, NEW b \in Baskets, StartCreate(w, u, b)
    PROVE  IInv'
<1> DEFINE r == [NoReq EXCEPT !.op = "create", !.user = u, !.lines = b]
<1>1. b \in SUBSET Lines /\ b # {} /\ b \in SUBSET (Products \X Nat)
  BY LinesType, OrdersAssumption
<1>2. r \in Request /\ r.lines = b /\ r.user = u
  BY <1>1 DEF NoReq, Request, Ops, OrderOps, OrderIdOrNone, Statuses
<1>3. w \in Tasks /\ TypeOK /\ Start(w, r, "deduct", b) /\ reply' = reply
  BY DEF Tasks, IInv, StartCreate
<1>4. /\ pc'[w] = "deduct"
      /\ req'[w] = r
      /\ todo'[w] = b
      /\ cur'[w] \in b
      /\ delta'[w] = NoDelta
  BY <1>1, <1>3, LoopType, QuietDelta DEF Start, TypeOK
<1>5. Deducting(w)'
  <2>1. \A p \in Products : delta'[w][p] = Qty(b, p) - Qty(b, p)
    BY <1>4, QtyType, StoreAssumption DEF NoDelta
  <2> QED BY <1>1, <1>2, <1>4, <2>1 DEF Deducting, AtLine
<1>6. Handler(w)'
  BY <1>4, <1>5 DEF Handler
<1>7. reply' \in [Tasks -> Codes \cup {None}] /\ "deduct" \in Places
  BY <1>3 DEF TypeOK, Places
<1> QED BY <1>1, <1>2, <1>3, <1>6, <1>7, ArrivalStep

LEMMA StartOrderOpStep ==
    ASSUME IInv, NEW w \in Workers, NEW u \in Users, NEW op \in OrderOps,
           NEW o \in OrderIds, NEW k \in PaymentIds \cup {None}, StartOrderOp(w, u, op, o, k)
    PROVE  IInv'
<1> DEFINE r == [op |-> op, user |-> u, oid |-> o, lines |-> items[o], key |-> k,
                 seen |-> IF op = "pay" THEN status[o] ELSE "absent",
                 late |-> op = "pay" /\ o \in overdue]
<1>1. w \in Tasks /\ TypeOK
  BY DEF Tasks, IInv
<1>2. r \in Request
  BY <1>1, LinesType DEF TypeOK, Request, Ops, OrderIdOrNone
<1>3. CASE Visible(o, u)
  <2>1. Start(w, r, FirstPlace(op, k), {}) /\ reply' = reply
    BY <1>3 DEF StartOrderOp
  <2>2. FirstPlace(op, k) \in {"dedup", "check", "transition", "update"}
    BY DEF FirstPlace, OrderOps
  <2>3. pc'[w] = FirstPlace(op, k) /\ req'[w] = r
    BY <1>1, <2>1 DEF Start, TypeOK
  <2>4. Loaded(w)'
    BY <1>3, <2>1, <2>3 DEF Loaded, Visible, Start, orderRows, shared, locks
  <2>5. Handler(w)'
    BY <2>2, <2>3, <2>4 DEF Handler, FirstPlace, OrderOps
  <2>6. reply' \in [Tasks -> Codes \cup {None}] /\ FirstPlace(op, k) \in Places
    BY <1>1, <2>1, <2>2 DEF TypeOK, Places
  <2> QED BY <1>2, <2>1, <2>5, <2>6, ArrivalStep
<1>4. CASE ~Visible(o, u)
  <2>1. Start(w, r, "reply", {}) /\ reply' = [reply EXCEPT ![w] = "404"]
    BY <1>4 DEF StartOrderOp
  <2>2. pc'[w] = "reply" /\ reply' \in [Tasks -> Codes \cup {None}]
    BY <1>1, <2>1 DEF Start, TypeOK, Codes
  <2>3. Handler(w)'
    BY <1>1, <2>2, RestHandler
  <2> QED BY <1>2, <2>1, <2>2, <2>3, ArrivalStep DEF Places
<1> QED BY <1>3, <1>4

LEMMA StartEditStep ==
    ASSUME IInv, NEW w \in Workers, NEW u \in Users, NEW p \in Products, NEW s \in StockEdits,
           StartEdit(w, u, p, s)
    PROVE  IInv'
<1>1. w \in Tasks /\ TypeOK /\ s \in 0..MaxStock /\ s \in Nat
  BY OrdersAssumption, StoreAssumption DEF Tasks, IInv
<1> DEFINE ls == {<<p, s>>}
           r == [NoReq EXCEPT !.op = "edit", !.user = u, !.lines = ls]
<1>5. ls \in SUBSET (Products \X Nat)
  BY <1>1
<1> HIDE DEF ls
<1>2. r \in Request
  BY <1>5 DEF NoReq, Request, Ops, OrderOps, OrderIdOrNone, Statuses
<1>3. CASE p \notin rows
  <2>1. Start(w, r, "reply", {}) /\ reply' = [reply EXCEPT ![w] = "404"]
    BY <1>3 DEF StartEdit, ls
  <2>2. pc'[w] = "reply" /\ reply' \in [Tasks -> Codes \cup {None}]
    BY <1>1, <2>1 DEF Start, TypeOK, Codes
  <2>3. Handler(w)'
    BY <1>1, <2>2, RestHandler
  <2> QED BY <1>2, <2>1, <2>2, <2>3, ArrivalStep DEF Places
<1>4. CASE p \in rows
  <2> DEFINE place == IF s = stock[p] THEN "invalidate" ELSE "edit"
  <2>1. Start(w, r, place, ls) /\ reply' = reply
    BY <1>4 DEF StartEdit, ls
  <2>2. pc'[w] = place /\ rows' = rows /\ Loop(w, ls)
    BY <1>1, <2>1 DEF Start, TypeOK, shared, productRows
  <2>5. cur'[w] = <<p, s>>
    BY <1>1, <1>5, <2>2, LoopType DEF ls
  <2>3. Handler(w)'
    BY <1>1, <1>4, <2>2, <2>5 DEF Handler
  <2>4. place \in Places /\ reply' \in [Tasks -> Codes \cup {None}]
    BY <1>1, <2>1 DEF Places, TypeOK
  <2> QED BY <1>2, <1>5, <2>1, <2>3, <2>4, ArrivalStep
<1> QED BY <1>3, <1>4

LEMMA RespondStep ==
    ASSUME IInv, NEW w \in Tasks, Respond(w)
    PROVE  IInv'
<1>1. TypeOK /\ pc[w] = "reply" /\ pc' = [pc EXCEPT ![w] = "idle"]
  BY DEF IInv, Respond
<1>2. TypeOK'
  BY <1>1, NoReqType DEF TypeOK, Respond, orderRows, productRows, Places, shared, locks
<1>3. OthersStand(w) /\ pc'[w] = "idle"
  BY <1>1 DEF OthersStand, Respond, TypeOK
<1> QED BY <1>1, <1>2, <1>3, RestHandler, QuietStep
        DEF Respond, orderRows, productRows, IInv, PlacedOrders, shared, locks

LEMMA DedupStep ==
    ASSUME IInv, NEW w \in Tasks, Dedup(w)
    PROVE  IInv'
<1>1. TypeOK /\ pc[w] = "dedup" /\ Handler(w)
  BY DEF IInv, Dedup
<1>2. req[w].oid \in OrderIds /\ Loaded(w) /\ req[w].op = "pay" /\ req[w].key \in PaymentIds
  BY <1>1 DEF Handler, Loaded
<1>3. PICK place \in {"check", "replay"} : pc' = [pc EXCEPT ![w] = place]
  BY DEF Dedup
<1>4. payKey' \in [PaymentIds -> OrderIdOrNone]
  BY <1>1, <1>2 DEF TypeOK, Dedup, OrderIdOrNone
<1>5. TypeOK'
  BY <1>1, <1>3, <1>4 DEF TypeOK, Dedup, orderRows, productRows, Places, locks
<1>6. OthersStand(w) /\ pc'[w] = place
  BY <1>1, <1>3 DEF OthersStand, Dedup, TypeOK
<1>7. Handler(w)'
  BY <1>2, <1>3, <1>6 DEF Handler, Loaded, Dedup, orderRows
<1> QED BY <1>1, <1>5, <1>6, <1>7, QuietStep
        DEF Dedup, orderRows, productRows, IInv, PlacedOrders, locks

(* Answers that touch nothing but the place of the task. *)
LEMMA AnswerStep ==
    ASSUME IInv, NEW w \in Tasks, pc[w] \in {"replay", "check", "reload"}, NEW code \in Codes,
           Answer(w, code),
           UNCHANGED <<shared, locks, req, todo, cur, delta, batch, scanned>>
    PROVE  IInv'
<1>1. TypeOK
  BY DEF IInv
<1>2. TypeOK'
  BY <1>1, AnswerType DEF TypeOK, orderRows, productRows, shared, locks
<1>3. OthersStand(w) /\ Handler(w)'
  BY <1>1, AnswerType, RestHandler DEF OthersStand
<1> QED BY <1>1, <1>2, <1>3, QuietStep
        DEF orderRows, productRows, IInv, PlacedOrders, shared, locks

LEMMA ReplayStep ==
    ASSUME IInv, NEW w \in Tasks, Replay(w)
    PROVE  IInv'
  BY AnswerStep DEF Replay, Codes

LEMMA ReloadStep ==
    ASSUME IInv, NEW w \in Tasks, Reload(w)
    PROVE  IInv'
  BY AnswerStep DEF Reload, Codes

LEMMA CheckPayableStep ==
    ASSUME IInv, NEW w \in Tasks, CheckPayable(w)
    PROVE  IInv'
<1>1. TypeOK /\ pc[w] = "check" /\ Handler(w)
  BY DEF IInv, CheckPayable, AlreadyPaid, TooLate
<1>2. req[w].oid \in OrderIds /\ Loaded(w) /\ req[w].op = "pay"
  BY <1>1 DEF Handler, Loaded
<1>3. ASSUME NEW place \in {"transition", "update"}, pc' = [pc EXCEPT ![w] = place],
             UNCHANGED reply
      PROVE  IInv'
  <2>1. TypeOK'
    BY <1>1, <1>3 DEF TypeOK, CheckPayable, orderRows, productRows, Places, AlreadyPaid, TooLate,
           shared, locks
  <2>2. OthersStand(w) /\ pc'[w] = place
    BY <1>1, <1>3 DEF OthersStand, CheckPayable, TypeOK, AlreadyPaid, TooLate
  <2>3. Handler(w)'
    BY <1>2, <2>2, <1>3 DEF Handler, Loaded, CheckPayable, orderRows, AlreadyPaid, TooLate,
           shared, locks
  <2> QED BY <1>1, <2>1, <2>2, <2>3, QuietStep
          DEF CheckPayable, orderRows, productRows, IInv, PlacedOrders, AlreadyPaid, TooLate,
                 shared, locks
<1>4. CASE Answer(w, "200")
  BY <1>1, <1>4, AnswerStep DEF CheckPayable, Codes
<1> QED BY <1>3, <1>4 DEF CheckPayable, AlreadyPaid, TooLate

LEMMA StatusType ==
    ASSUME NEW op \in {"pay", "cancel", "refund", "ship", "complete", "sweep"}
    PROVE  /\ From(op) # "absent"
           /\ op \in {"pay", "ship", "complete"} => Advanced(op) \in Statuses
           /\ Withdrawn(op) \in Statuses
           /\ "absent" \notin Statuses
  BY DEF From, Advanced, Withdrawn, Statuses

LEMMA UpdateStatusStep ==
    ASSUME IInv, NEW w \in Tasks, UpdateStatus(w)
    PROVE  IInv'
<1> DEFINE o == req[w].oid
           op == req[w].op
<1>1. /\ TypeOK /\ pc[w] = "update" /\ Handler(w)
      /\ pc' = [pc EXCEPT ![w] = "reload"]
  BY DEF IInv, UpdateStatus, InFrom
<1>2. o \in OrderIds /\ op \in {"pay", "ship", "complete"} /\ status[o] # "absent"
  BY <1>1 DEF Handler, Loaded
<1>3. /\ orderLock[o] = None
      /\ status' = [status EXCEPT ![o] = Advanced(op)]
      /\ paidWith' = IF op = "pay" THEN [paidWith EXCEPT ![o] = req[w].key] ELSE paidWith
      /\ Advanced(op) \in Statuses
  BY <1>2, StatusType DEF UpdateStatus, InFrom
<1>4. /\ status' \in [OrderIds -> Statuses \cup {"absent"}]
      /\ \A i \in OrderIds : /\ status[i] = "absent" <=> status'[i] = "absent"
                             /\ orderLock[i] # None => status'[i] = status[i]
  BY <1>1, <1>2, <1>3, StatusType DEF TypeOK
<1>5. paidWith' \in [OrderIds -> PaymentIds \cup {None}]
  <2>1. req[w] \in Request
    BY <1>1 DEF TypeOK
  <2>2. req[w].key \in PaymentIds \cup {None}
    BY <2>1 DEF Request
  <2> QED BY <1>1, <1>2, <1>3, <2>2 DEF TypeOK
<1>6. TypeOK'
  BY <1>1, <1>4, <1>5 DEF TypeOK, UpdateStatus, productRows, locks, Places
<1>7. OthersStand(w) /\ pc'[w] = "reload"
  BY <1>1 DEF OthersStand, UpdateStatus, TypeOK
<1>8. Handler(w)'
  BY <1>7, RestHandler
<1>9. \A i \in overdue' \cup batch' : status'[i] # "absent"
  BY <1>1, <1>4 DEF UpdateStatus, IInv, PlacedOrders, TypeOK, InFrom
<1> QED BY <1>1, <1>4, <1>6, <1>7, <1>8, <1>9, AdvanceStep
        DEF UpdateStatus, productRows, locks, InFrom

LEMMA RefusedSteps ==
    ASSUME IInv, NEW w \in Tasks, DeductRefused(w) \/ UpdateRefused(w) \/ TransitionRefused(w)
    PROVE  IInv'
<1>1. Refuse(w, "404") \/ Refuse(w, "409")
  BY DEF DeductRefused, UpdateRefused, TransitionRefused, Covers, InFrom
<1> QED BY <1>1, RefuseStep DEF Codes

(* An UPDATE of a stock row inside a transaction: it takes the row lock. *)
LEMMA LockStep ==
    ASSUME IInv, NEW w \in Tasks, pc[w] \in {"deduct", "restock"},
           NEW p \in rows, NEW d \in Int, stockLock[p] \in {None, w},
           stockLock' = [stockLock EXCEPT ![p] = w],
           delta' = [delta EXCEPT ![w] = [delta[w] EXCEPT ![p] = @ + d]],
           stock[p] + delta[w][p] + d \in 0..MaxStock,
           Loop(w, todo[w] \ {cur[w]}),
           UNCHANGED <<shared, orderLock, pc, req, reply, batch, scanned>>,
           Handler(w)'
    PROVE  IInv'
<1>1. /\ TypeOK
      /\ p \in Products
      /\ todo[w] \ {cur[w]} \in SUBSET (Products \X Nat)
      /\ delta \in [Tasks -> [Products -> Int]]
      /\ stock \in [Products -> 0..MaxStock]
  BY DEF IInv, TypeOK
<1>2. /\ delta' \in [Tasks -> [Products -> Int]]
      /\ delta'[w][p] = delta[w][p] + d
      /\ \A x \in Products : x # p => delta'[w][x] = delta[w][x]
      /\ \A v \in Tasks \ {w} : delta'[v] = delta[v]
  <2>1. [delta[w] EXCEPT ![p] = @ + d] \in [Products -> Int]
    BY <1>1
  <2> QED BY <1>1, <2>1
<1>3. TypeOK'
  BY <1>1, <1>2, LoopType DEF TypeOK, orderRows, productRows, shared, locks
<1>4. OthersStand(w)
  BY <1>1, LoopType DEF OthersStand
<1>5. stockLock' \in [Products -> Tasks \cup {None}] /\ w # None
  BY <1>3, OrdersAssumption DEF TypeOK
<1>6. LocksBelongToTransactions'
  <2>1. \A o \in OrderIds : orderLock'[o] # None =>
           pc'[orderLock'[o]] = "restock" /\ req'[orderLock'[o]].oid = o
    BY DEF IInv, LocksBelongToTransactions
  <2>2. \A x \in Products : stockLock'[x] # None =>
           pc'[stockLock'[x]] \in {"deduct", "restock"}
    BY <1>1 DEF IInv, LocksBelongToTransactions, TypeOK
  <2>3. \A v \in Tasks, x \in Products : delta'[v][x] # 0 => stockLock'[x] = v
    <3> SUFFICES ASSUME NEW v \in Tasks, NEW x \in Products, delta'[v][x] # 0
                 PROVE  stockLock'[x] = v
      OBVIOUS
    <3>1. stockLock'[x] = IF x = p THEN w ELSE stockLock[x]
      BY <1>1 DEF IInv, TypeOK
    <3>2. CASE v = w /\ x = p
      BY <3>1, <3>2
    <3>3. CASE v # w \/ x # p
      <4>1. stockLock[x] = v
        BY <1>2, <3>3 DEF IInv, LocksBelongToTransactions
      <4> QED BY <3>1, <3>3, <4>1, OrdersAssumption
    <3> QED BY <3>2, <3>3
  <2> QED BY <2>1, <2>2, <2>3 DEF LocksBelongToTransactions
<1>7. ASSUME NEW v \in Tasks, NEW x \in Products
      PROVE  stock'[x] + delta'[v][x] \in 0..MaxStock
  <2>1. stock'[x] = stock[x] /\ stock[x] + delta[v][x] \in 0..MaxStock
    BY DEF shared, productRows, IInv, StockBounds
  <2>2. CASE v = w /\ x = p
    BY <1>1, <1>2, <2>1, <2>2
  <2>3. CASE v # w \/ x # p
    BY <1>2, <2>1, <2>3
  <2> QED BY <2>2, <2>3
<1>8. LockedRowsExist' /\ PlacedOrders'
  BY <1>1 DEF IInv, LockedRowsExist, PlacedOrders, orderRows, productRows, TypeOK, shared, locks
<1>9. ASSUME NEW v \in Tasks PROVE Handler(v)'
  <2>1. CASE v = w
    BY <2>1
  <2>2. CASE v # w
    BY <2>2, <1>2, <1>4, OtherHandler DEF OthersStand, IInv, orderRows, productRows, shared, locks
  <2> QED BY <2>1, <2>2
<1> QED BY <1>3, <1>6, <1>7, <1>8, <1>9 DEF IInv, StockBounds

LEMMA DeductStep ==
    ASSUME IInv, NEW w \in Tasks, Deduct(w)
    PROVE  IInv'
<1> DEFINE p == cur[w][1]
           q == cur[w][2]
<1>1. /\ TypeOK
      /\ pc[w] = "deduct"
      /\ Deducting(w)
      /\ StockBounds
  BY DEF IInv, Deduct, Handler, Covers
<1>2. cur[w] \in todo[w] /\ cur[w] \in Lines /\ todo[w] \in SUBSET req[w].lines
  BY <1>1 DEF Deduct, Deducting, AtLine, Covers
<1>3. p \in rows /\ p \in Products /\ q \in 1..MaxQty
  BY <1>2 DEF Deduct, Lines, Covers
<1>4. /\ stock[p] \in Int
      /\ delta[w][p] \in Int
      /\ stock[p] + delta[w][p] \in 0..MaxStock
      /\ stock[p] + delta[w][p] >= q
  BY <1>1, <1>3 DEF TypeOK, StockBounds, Deduct, Covers
<1>5. delta' = [delta EXCEPT ![w] = [delta[w] EXCEPT ![p] = @ + (-q)]]
  BY <1>1, <1>3 DEF Deduct, TypeOK, Covers
<1>6. stock[p] + delta[w][p] + (-q) \in 0..MaxStock
  BY <1>3, <1>4, StoreAssumption
<1>7. Loop(w, todo[w] \ {cur[w]}) /\ todo[w] \ {cur[w]} \in SUBSET (Products \X Nat)
  BY <1>1 DEF Deduct, TypeOK, Covers
<1>8. Deducting(w)'
  <2>1. /\ todo'[w] = todo[w] \ {cur[w]}
        /\ AtLine(w)'
    BY <1>1, <1>7, LoopType DEF AtLine
  <2>2. \A l \in req'[w].lines \ todo'[w] : l[1] \in rows'
    BY <1>1, <1>3, <2>1 DEF Deduct, Deducting, shared, productRows, Covers
  <2>3. ASSUME Distinct(req[w].lines), NEW x \in Products
        PROVE  delta'[w][x] = Qty(todo'[w], x) - Qty(req[w].lines, x)
    <3>1. delta[w][x] = Qty(todo[w], x) - Qty(req[w].lines, x)
      BY <1>1, <2>3 DEF Deducting
    <3>2. Qty(todo'[w], x) = IF x = p THEN Qty(todo[w], x) - q ELSE Qty(todo[w], x)
      <4>1. req[w].lines \in SUBSET Lines
        BY <1>1 DEF Deducting
      <4>2. Qty(todo[w] \ {cur[w]}, x)
              = IF x = p THEN Qty(todo[w], x) - q ELSE Qty(todo[w], x)
        BY <4>1, <1>2, <2>3, QtyRemove
      <4> QED BY <4>2, <2>1
    <3>3. delta'[w][x] = IF x = p THEN delta[w][x] - q ELSE delta[w][x]
      BY <1>1, <1>3, <1>5 DEF TypeOK
    <3>4. Qty(todo[w], x) \in Int /\ Qty(req[w].lines, x) \in Int /\ q \in Int
      BY <1>3, QtyType, StoreAssumption
    <3> QED BY <3>1, <3>2, <3>3, <3>4
  <2> QED BY <1>1, <2>1, <2>2, <2>3 DEF Deducting, Deduct, Covers
<1>9. Handler(w)'
  BY <1>1, <1>8 DEF Handler, Deduct, Covers
<1>10. /\ -q \in Int
       /\ stockLock[p] \in {None, w}
       /\ stockLock' = [stockLock EXCEPT ![p] = w]
       /\ UNCHANGED <<shared, orderLock, pc, req, reply, batch, scanned>>
  BY <1>3 DEF Deduct, Covers
<1> HIDE DEF p, q
<1> QED BY <1>1, <1>3, <1>5, <1>6, <1>7, <1>9, <1>10, LockStep

LEMMA AddStockStep ==
    ASSUME IInv, NEW w \in Tasks, AddStock(w)
    PROVE  IInv'
<1> DEFINE p == cur[w][1]
           q == cur[w][2]
           o == req[w].oid
<1>1. /\ TypeOK
      /\ pc[w] = "restock"
      /\ Loaded(w)
      /\ Restocking(w)
      /\ StockBounds
      /\ Handler(w)
  BY DEF IInv, AddStock, Handler
<1>2. /\ req[w].lines \in SUBSET Lines
      /\ Distinct(req[w].lines)
      /\ \A l \in req[w].lines : l[1] \in rows
  BY <1>1 DEF Loaded, TypeOK, IInv, PlacedOrders
<1>3. cur[w] \in todo[w] /\ cur[w] \in Lines /\ todo[w] \in SUBSET req[w].lines
  BY <1>1, <1>2 DEF AddStock, Restocking, AtLine
<1>4. p \in rows /\ p \in Products /\ q \in 1..MaxQty
  BY <1>2, <1>3 DEF Lines
<1>5. /\ stock[p] \in Int
      /\ delta[w][p] \in Int
      /\ stock[p] + delta[w][p] \in 0..MaxStock
      /\ stock[p] + delta[w][p] + q <= MaxStock
  BY <1>1, <1>4 DEF TypeOK, StockBounds, AddStock
<1>6. delta' = [delta EXCEPT ![w] = [delta[w] EXCEPT ![p] = @ + q]]
  BY <1>1, <1>4 DEF AddStock, TypeOK
<1>7. stock[p] + delta[w][p] + q \in 0..MaxStock
  BY <1>4, <1>5, StoreAssumption
<1>8. Loop(w, todo[w] \ {cur[w]}) /\ todo[w] \ {cur[w]} \in SUBSET (Products \X Nat)
  BY <1>1 DEF AddStock, TypeOK
<1>9. Restocking(w)'
  <2>1. /\ todo'[w] = todo[w] \ {cur[w]}
        /\ AtLine(w)'
    BY <1>1, <1>8, LoopType DEF AtLine
  <2>2. ASSUME NEW x \in Products
        PROVE  delta'[w][x] = Qty(req[w].lines, x) - Qty(todo'[w], x)
    <3>1. delta[w][x] = Qty(req[w].lines, x) - Qty(todo[w], x)
      BY <1>1 DEF Restocking
    <3>2. Qty(todo'[w], x) = IF x = p THEN Qty(todo[w], x) - q ELSE Qty(todo[w], x)
      <4>1. Qty(todo[w] \ {cur[w]}, x)
              = IF x = p THEN Qty(todo[w], x) - q ELSE Qty(todo[w], x)
        BY <1>2, <1>3, QtyRemove
      <4> QED BY <4>1, <2>1
    <3>3. delta'[w][x] = IF x = p THEN delta[w][x] + q ELSE delta[w][x]
      BY <1>1, <1>4, <1>6 DEF TypeOK
    <3>4. Qty(todo[w], x) \in Int /\ Qty(req[w].lines, x) \in Int /\ q \in Int
      BY <1>4, QtyType, StoreAssumption
    <3> QED BY <3>1, <3>2, <3>3, <3>4
  <2> QED BY <1>1, <2>1, <2>2 DEF Restocking, AddStock, orderRows, shared, locks
<1>10. Handler(w)'
  BY <1>1, <1>9 DEF Handler, Loaded, AddStock, orderRows, shared, locks
<1>11. /\ q \in Int
       /\ stockLock[p] \in {None, w}
       /\ stockLock' = [stockLock EXCEPT ![p] = w]
       /\ UNCHANGED <<shared, orderLock, pc, req, reply, batch, scanned>>
  BY <1>4 DEF AddStock
<1> HIDE DEF p, q
<1> QED BY <1>1, <1>4, <1>6, <1>7, <1>8, <1>10, <1>11, LockStep

LEMMA TransitionStep ==
    ASSUME IInv, NEW w \in Tasks, Transition(w)
    PROVE  IInv'
<1> DEFINE o == req[w].oid
<1>1. /\ TypeOK
      /\ pc[w] = "transition"
      /\ Loaded(w)
      /\ req[w].op \in {"pay", "cancel", "refund", "sweep"}
  BY DEF IInv, Transition, Handler, InFrom
<1>2. /\ o \in OrderIds
      /\ req[w].lines \in SUBSET Lines
      /\ req[w].lines \in SUBSET (Products \X Nat)
  BY <1>1, LinesType DEF Loaded, TypeOK
<1>3. /\ status[o] = From(req[w].op)
      /\ orderLock[o] = None
      /\ orderLock' = [orderLock EXCEPT ![o] = w]
      /\ Loop(w, req[w].lines)
      /\ pc' = [pc EXCEPT ![w] = "restock"]
      /\ delta[w] = NoDelta
  BY <1>1, QuietDelta DEF Transition, InFrom
<1>4. /\ orderLock' \in [OrderIds -> Tasks \cup {None}]
      /\ orderLock'[o] = w
      /\ \A i \in OrderIds : i # o => orderLock'[i] = orderLock[i]
      /\ pc'[w] = "restock"
      /\ pc' \in [Tasks -> Places]
      /\ \A v \in Tasks \ {w} : pc'[v] = pc[v]
  BY <1>1, <1>2, <1>3 DEF TypeOK, Places
<1>5. TypeOK'
  BY <1>1, <1>2, <1>3, <1>4, LoopType DEF TypeOK, Transition, orderRows, productRows, InFrom,
         shared, locks
<1>6. OthersStand(w)
  BY <1>1, <1>2, <1>3, <1>4, LoopType DEF OthersStand, Transition, InFrom
<1>7. LocksBelongToTransactions'
  <2>1. ASSUME NEW i \in OrderIds, orderLock'[i] # None
        PROVE  pc'[orderLock'[i]] = "restock" /\ req'[orderLock'[i]].oid = i
    <3>1. CASE i = o
      BY <1>4, <3>1 DEF Transition, InFrom
    <3>2. CASE i # o
      <4>1. /\ orderLock[i] \in Tasks
            /\ pc[orderLock[i]] = "restock"
            /\ req[orderLock[i]].oid = i
        BY <1>1, <1>4, <2>1, <3>2 DEF TypeOK, IInv, LocksBelongToTransactions
      <4> QED BY <1>1, <1>4, <3>2, <4>1 DEF Transition, InFrom
    <3> QED BY <3>1, <3>2
  <2>2. ASSUME NEW x \in Products, stockLock'[x] # None
        PROVE  pc'[stockLock'[x]] \in {"deduct", "restock"}
    <3>1. stockLock[x] \in Tasks /\ pc[stockLock[x]] \in {"deduct", "restock"}
      BY <1>1, <2>2 DEF Transition, TypeOK, IInv, LocksBelongToTransactions, InFrom
    <3> QED BY <1>4, <3>1 DEF Transition, InFrom
  <2>3. \A v \in Tasks, x \in Products : delta'[v][x] # 0 => stockLock'[x] = v
    BY DEF Transition, IInv, LocksBelongToTransactions, InFrom
  <2> QED BY <2>1, <2>2, <2>3 DEF LocksBelongToTransactions
<1>8. StockBounds' /\ LockedRowsExist' /\ PlacedOrders'
  BY DEF IInv, StockBounds, LockedRowsExist, PlacedOrders, Transition, orderRows, productRows,
         InFrom, shared, locks
<1>9. Handler(w)'
  <2>1. todo'[w] = req[w].lines /\ AtLine(w)'
    BY <1>1, <1>2, <1>3, LoopType DEF AtLine
  <2>2. \A x \in Products : delta'[w][x] = Qty(req[w].lines, x) - Qty(req[w].lines, x)
    BY <1>3, QtyType, StoreAssumption DEF NoDelta, Transition, InFrom
  <2>3. Restocking(w)'
    BY <1>2, <1>3, <1>4, <2>1, <2>2 DEF Restocking, Transition, orderRows, InFrom, shared, locks
  <2> QED BY <1>1, <1>4, <2>3 DEF Handler, Loaded, Transition, orderRows, InFrom, shared, locks
<1>10. ASSUME NEW v \in Tasks PROVE Handler(v)'
  <2>1. CASE v = w
    BY <1>9, <2>1
  <2>2. CASE v # w
    <3>1. \A i \in OrderIds : orderLock[i] = v => orderLock'[i] = v
      BY <1>3, <1>4, OrdersAssumption
    <3> QED BY <2>2, <1>6, <3>1, OtherHandler
            DEF OthersStand, IInv, Transition, orderRows, productRows, InFrom, shared, locks
  <2> QED BY <2>1, <2>2
<1> QED BY <1>5, <1>7, <1>8, <1>10 DEF IInv

LEMMA CommitStockType ==
    ASSUME IInv, NEW w \in Tasks, CommitStock(w)
    PROVE  stock' \in [Products -> 0..MaxStock] /\ dirty' \subseteq Products
  BY DEF CommitStock, IInv, StockBounds, TypeOK

LEMMA SaveOrderStep ==
    ASSUME IInv, NEW w \in Tasks, SaveOrder(w)
    PROVE  IInv'
<1>1. /\ TypeOK
      /\ Deducting(w)
      /\ todo[w] = {}
      /\ Distinct(req[w].lines)
      /\ CommitStock(w)
      /\ EndTransaction(w)
      /\ rows' = rows
  BY DEF IInv, SaveOrder, Handler, Owed
<1>2. PICK o \in OrderIds :
        /\ status[o] = "absent"
        /\ status' = [status EXCEPT ![o] = "pending"]
        /\ items' = [items EXCEPT ![o] = req[w].lines]
        /\ owner' = [owner EXCEPT ![o] = req[w].user]
  BY DEF SaveOrder, Owed
<1>3. /\ pc' = [pc EXCEPT ![w] = "invalidate"]
      /\ todo' = [todo EXCEPT ![w] = req[w].lines]
      /\ UNCHANGED <<rows, supply, overdue, payKey, paidWith, req, cur, reply, batch, scanned>>
  BY DEF SaveOrder, Owed
<1>4. OthersStand(w) /\ pc'[w] = "invalidate"
  BY <1>1, <1>3 DEF OthersStand, TypeOK
<1>5. /\ status' \in [OrderIds -> Statuses \cup {"absent"}]
      /\ items' \in [OrderIds -> SUBSET Lines]
      /\ owner' \in [OrderIds -> Users \cup {None}]
      /\ todo' \in [Tasks -> SUBSET (Products \X Nat)]
      /\ pc' \in [Tasks -> Places]
  BY <1>1, <1>2, <1>3, LinesType DEF TypeOK, Deducting, Statuses, Places
<1>6. TypeOK'
  BY <1>1, <1>3, <1>4, <1>5, CommitStockType, EndLocks DEF TypeOK, OthersStand
<1>7. \A i \in OrderIds : status[i] # "absent" =>
          status'[i] # "absent" /\ items'[i] = items[i] /\ status'[i] = status[i]
  BY <1>1, <1>2 DEF TypeOK
<1>8. \A i \in OrderIds : status[i] = "absent" /\ status'[i] # "absent" =>
          Distinct(items'[i]) /\ \A l \in items'[i] : l[1] \in rows
  <2>1. \A l \in req[w].lines : l[1] \in rows
    BY <1>1 DEF Deducting
  <2>2. \A i \in OrderIds : status[i] = "absent" /\ status'[i] # "absent" =>
            items'[i] = req[w].lines
    BY <1>1, <1>2 DEF TypeOK
  <2> QED BY <1>1, <2>1, <2>2
<1> QED BY <1>1, <1>3, <1>4, <1>6, <1>7, <1>8, CommitStep, RestHandler

LEMMA CommitRestockStep ==
    ASSUME IInv, NEW w \in Tasks, CommitRestock(w)
    PROVE  IInv'
<1> DEFINE o == req[w].oid
<1>1. /\ TypeOK
      /\ Loaded(w)
      /\ Restocking(w)
      /\ req[w].op \in {"pay", "cancel", "refund", "sweep"}
      /\ CommitStock(w)
      /\ EndTransaction(w)
  BY DEF IInv, CommitRestock, Handler, Owed
<1>2. /\ status' = [status EXCEPT ![o] = Withdrawn(req[w].op)]
      /\ pc' = [pc EXCEPT ![w] = "invalidate"]
      /\ todo' = [todo EXCEPT ![w] = req[w].lines]
      /\ UNCHANGED <<items, owner, rows, supply, overdue, payKey, paidWith, req, cur,
                     reply, batch, scanned>>
  BY DEF CommitRestock, Owed
<1>3. OthersStand(w) /\ pc'[w] = "invalidate"
  BY <1>1, <1>2 DEF OthersStand, TypeOK
<1>4. /\ o \in OrderIds
      /\ Withdrawn(req[w].op) \in Statuses
      /\ Withdrawn(req[w].op) # "absent"
      /\ orderLock[o] = w
  BY <1>1, StatusType DEF Loaded, Restocking
<1>5. /\ status' \in [OrderIds -> Statuses \cup {"absent"}]
      /\ todo' \in [Tasks -> SUBSET (Products \X Nat)]
      /\ pc' \in [Tasks -> Places]
  BY <1>1, <1>2, <1>4, LinesType DEF TypeOK, Loaded, Places
<1>6. TypeOK'
  BY <1>1, <1>2, <1>3, <1>5, CommitStockType, EndLocks DEF TypeOK, OthersStand
<1>7. \A i \in OrderIds : status[i] # "absent" =>
          /\ status'[i] # "absent"
          /\ items'[i] = items[i]
          /\ orderLock[i] \notin {None, w} => status'[i] = status[i]
  BY <1>1, <1>2, <1>4 DEF TypeOK
<1>8. \A i \in OrderIds : ~ (status[i] = "absent" /\ status'[i] # "absent")
  BY <1>1, <1>2, <1>4 DEF TypeOK, Loaded
<1> QED BY <1>1, <1>2, <1>3, <1>6, <1>7, <1>8, CommitStep, RestHandler

(* A direct write of a stock row that nobody has locked. *)
LEMMA OverwriteStep ==
    ASSUME IInv, NEW p \in Products, NEW s \in 0..MaxStock, stockLock[p] = None,
           stock' = [stock EXCEPT ![p] = s], rows \subseteq rows',
           UNCHANGED <<status, items, orderLock, stockLock, delta, overdue, batch, scanned>>
    PROVE  StockBounds' /\ LockedRowsExist' /\ PlacedOrders'
<1>1. ASSUME NEW v \in Tasks, NEW x \in Products
      PROVE  stock'[x] + delta'[v][x] \in 0..MaxStock
  <2>1. stock'[x] = IF x = p THEN s ELSE stock[x]
    BY DEF IInv, TypeOK
  <2>2. CASE x = p
    BY <2>1, <2>2, OrdersAssumption DEF IInv, LocksBelongToTransactions, Tasks
  <2>3. CASE x # p
    BY <2>1, <2>3 DEF IInv, StockBounds
  <2> QED BY <2>2, <2>3
<1> QED BY <1>1 DEF IInv, StockBounds, LockedRowsExist, PlacedOrders

LEMMA WriteStockStep ==
    ASSUME IInv, NEW w \in Tasks, WriteStock(w)
    PROVE  IInv'
<1> DEFINE p == cur[w][1]
           s == cur[w][2]
<1>1. TypeOK /\ pc[w] = "edit" /\ cur[w] \in rows \X (0..MaxStock)
  BY DEF IInv, WriteStock, Handler
<1>2. p \in Products /\ s \in 0..MaxStock /\ s \in Int
  BY <1>1, StoreAssumption DEF TypeOK
<1>3. /\ stockLock[p] = None
      /\ stock' = [stock EXCEPT ![p] = s]
      /\ supply' = [supply EXCEPT ![p] = supply[p] + s - stock[p]]
      /\ dirty' = dirty \cup {p}
      /\ pc' = [pc EXCEPT ![w] = "invalidate"]
      /\ cur' = [cur EXCEPT ![w] = None]
      /\ UNCHANGED <<orderRows, rows, overdue, locks, payKey, paidWith, req, todo,
                     delta, reply, batch, scanned>>
  BY DEF WriteStock
<1>4. /\ stock' \in [Products -> 0..MaxStock]
      /\ supply' \in [Products -> Int]
      /\ pc' \in [Tasks -> Places]
      /\ cur' \in [Tasks -> (Products \X Nat) \cup {None}]
  <2>1. supply[p] + s - stock[p] \in Int
    BY <1>1, <1>2 DEF TypeOK
  <2> HIDE DEF p, s
  <2> QED BY <1>1, <1>2, <1>3, <2>1 DEF TypeOK, Places
<1>5. TypeOK'
  BY <1>1, <1>2, <1>3, <1>4 DEF TypeOK, orderRows, shared, locks
<1>6. OthersStand(w) /\ pc'[w] = "invalidate"
  BY <1>1, <1>3 DEF OthersStand, TypeOK
<1>7. LocksBelongToTransactions'
  BY <1>1, <1>3, <1>6, QuietLocks DEF OthersStand, locks
<1>8. StockBounds' /\ LockedRowsExist' /\ PlacedOrders'
  BY <1>2, <1>3, OverwriteStep DEF orderRows, shared, locks
<1>9. ASSUME NEW v \in Tasks PROVE Handler(v)'
  <2>1. CASE v = w
    BY <1>6, <2>1, RestHandler
  <2>2. CASE v # w
    BY <1>3, <1>6, <2>2, OtherHandler DEF OthersStand, IInv, orderRows, shared, locks
  <2> QED BY <2>1, <2>2
<1> QED BY <1>5, <1>7, <1>8, <1>9 DEF IInv

LEMMA CreateProductStep ==
    ASSUME IInv, NEW p \in Products, NEW s \in StockEdits, CreateProduct(p, s)
    PROVE  IInv'
<1>1. TypeOK /\ s \in 0..MaxStock /\ stockLock[p] = None
  BY OrdersAssumption DEF IInv, CreateProduct, LockedRowsExist
<1>2. TypeOK'
  BY <1>1 DEF TypeOK, CreateProduct, orderRows, handler, shared, locks
<1>3. LocksBelongToTransactions'
  BY DEF IInv, LocksBelongToTransactions, CreateProduct, handler, shared, locks
<1>4. StockBounds' /\ LockedRowsExist' /\ PlacedOrders'
  BY <1>1, OverwriteStep DEF CreateProduct, orderRows, handler, shared, locks
<1>5. \A v \in Tasks : Handler(v)'
  BY OtherHandler DEF IInv, CreateProduct, orderRows, handler, shared, locks
<1> QED BY <1>2, <1>3, <1>4, <1>5 DEF IInv

LEMMA InvalidateDetailStep ==
    ASSUME IInv, NEW w \in Tasks, InvalidateDetail(w)
    PROVE  IInv'
<1>1. TypeOK /\ pc[w] = "invalidate"
  BY DEF IInv, InvalidateDetail
<1>2. PICK l \in todo[w] :
        /\ dirty' = dirty \ {l[1]}
        /\ todo' = [todo EXCEPT ![w] = todo[w] \ {l}]
        /\ IF todo[w] = {l} THEN Answer(w, FinalCode(req[w].op)) ELSE UNCHANGED <<pc, reply>>
  BY DEF InvalidateDetail
<1>3. FinalCode(req[w].op) \in Codes
  BY DEF FinalCode, Codes
<1>4. /\ pc' \in [Tasks -> Places]
      /\ reply' \in [Tasks -> Codes \cup {None}]
      /\ pc'[w] \in {"sweep", "reply", "invalidate"}
      /\ \A v \in Tasks \ {w} : pc'[v] = pc[v]
  <2>1. CASE todo[w] = {l}
    BY <1>1, <1>2, <1>3, <2>1, AnswerType
  <2>2. CASE todo[w] # {l}
    BY <1>1, <1>2, <2>2 DEF TypeOK
  <2> QED BY <2>1, <2>2
<1>5. /\ todo' \in [Tasks -> SUBSET (Products \X Nat)]
      /\ cur' \in [Tasks -> (Products \X Nat) \cup {None}]
  BY <1>1, <1>2 DEF TypeOK, InvalidateDetail
<1>6. TypeOK'
  BY <1>1, <1>2, <1>4, <1>5 DEF TypeOK, InvalidateDetail, orderRows, productRows, shared, locks
<1>7. OthersStand(w)
  BY <1>1, <1>2, <1>4 DEF OthersStand, InvalidateDetail, TypeOK
<1> QED BY <1>1, <1>4, <1>6, <1>7, RestHandler, QuietStep
        DEF InvalidateDetail, orderRows, productRows, IInv, PlacedOrders, shared, locks

LEMMA SweepSteps ==
    ASSUME IInv, SweepStep
    PROVE  IInv'
<1>1. TypeOK /\ Sweeper \in Tasks /\ PlacedOrders
  BY DEF IInv, Tasks
<1>2. CASE Scan
  <2>1. /\ pc' = [pc EXCEPT ![Sweeper] = "sweep"]
        /\ batch' = {o \in overdue : status[o] = "pending"}
    BY <1>2 DEF Scan, Expired
  <2>2. TypeOK'
    BY <1>1, <1>2, <2>1 DEF TypeOK, Scan, orderRows, productRows, Places, Expired, shared, locks
  <2>3. OthersStand(Sweeper) /\ pc'[Sweeper] = "sweep"
    BY <1>1, <1>2, <2>1 DEF OthersStand, Scan, TypeOK, Expired
  <2> QED BY <1>1, <1>2, <2>1, <2>2, <2>3, RestHandler, QuietStep
          DEF Scan, orderRows, productRows, PlacedOrders, Expired, shared, locks
<1>3. CASE SweepNext
  <2>1. PICK o \in batch :
          /\ batch' = batch \ {o}
          /\ req' = [req EXCEPT ![Sweeper] = [NoReq EXCEPT !.op = "sweep", !.oid = o,
                                                           !.lines = items[o]]]
    BY <1>3 DEF SweepNext
  <2> DEFINE r == [NoReq EXCEPT !.op = "sweep", !.oid = o, !.lines = items[o]]
  <2>2. o \in OrderIds /\ status[o] # "absent" /\ items[o] \in SUBSET (Products \X Nat)
    BY <1>1, LinesType DEF TypeOK, PlacedOrders
  <2>3. r \in Request /\ r.op = "sweep" /\ r.oid = o /\ r.lines = items[o]
    BY <2>2 DEF NoReq, Request, Ops, OrderOps, OrderIdOrNone, Statuses
  <2>4. TypeOK'
    BY <1>1, <1>3, <2>1, <2>3 DEF TypeOK, SweepNext, orderRows, productRows, Places, shared, locks
  <2>5. OthersStand(Sweeper) /\ pc'[Sweeper] = "transition" /\ req'[Sweeper] = r
    BY <1>1, <1>3, <2>1 DEF OthersStand, SweepNext, TypeOK
  <2>6. Handler(Sweeper)'
    BY <1>3, <2>2, <2>3, <2>5 DEF Handler, Loaded, SweepNext, orderRows, shared, locks
  <2> QED BY <1>1, <1>3, <2>1, <2>4, <2>5, <2>6, QuietStep
          DEF SweepNext, orderRows, productRows, PlacedOrders, shared, locks
<1>4. CASE SweepEnd
  <2>1. TypeOK'
    BY <1>1, <1>4, NoReqType DEF TypeOK, SweepEnd, orderRows, productRows, Places, shared, locks
  <2>2. OthersStand(Sweeper) /\ pc'[Sweeper] = "idle"
    BY <1>1, <1>4 DEF OthersStand, SweepEnd, TypeOK
  <2> QED BY <1>1, <1>4, <2>1, <2>2, RestHandler, QuietStep
          DEF SweepEnd, orderRows, productRows, PlacedOrders, shared, locks
<1> QED BY <1>2, <1>3, <1>4 DEF SweepStep

LEMMA TimePassesStep ==
    ASSUME IInv, NEW o \in OrderIds, TimePasses(o)
    PROVE  IInv'
<1>1. TypeOK'
  BY DEF IInv, TypeOK, TimePasses, orderRows, productRows, handler, shared, locks
<1>2. LocksBelongToTransactions' /\ StockBounds' /\ LockedRowsExist' /\ PlacedOrders'
  BY DEF IInv, LocksBelongToTransactions, StockBounds, LockedRowsExist, PlacedOrders,
         TimePasses, orderRows, productRows, handler, shared, locks
<1>3. \A v \in Tasks : Handler(v)'
  BY OtherHandler DEF IInv, TimePasses, orderRows, productRows, handler, shared, locks
<1> QED BY <1>1, <1>2, <1>3 DEF IInv

LEMMA PaymentKeyExpiresStep ==
    ASSUME IInv, NEW k \in PaymentIds, PaymentKeyExpires(k)
    PROVE  IInv'
<1>1. TypeOK'
  <2>1. /\ payKey' \in [PaymentIds -> OrderIdOrNone]
        /\ paidWith' \in [OrderIds -> PaymentIds \cup {None}]
    BY DEF IInv, TypeOK, PaymentKeyExpires, OrderIdOrNone
  <2> QED BY <2>1 DEF IInv, TypeOK, PaymentKeyExpires, orderRows, productRows, handler, shared,
         locks
<1>2. LocksBelongToTransactions' /\ StockBounds' /\ LockedRowsExist' /\ PlacedOrders'
  BY DEF IInv, LocksBelongToTransactions, StockBounds, LockedRowsExist, PlacedOrders,
         PaymentKeyExpires, orderRows, productRows, handler, shared, locks
<1>3. \A v \in Tasks : Handler(v)'
  BY OtherHandler DEF IInv, PaymentKeyExpires, orderRows, productRows, handler, shared, locks
<1> QED BY <1>1, <1>2, <1>3 DEF IInv

-----------------------------------------------------------------------------
(* The invariant *)

LEMMA InitIInv == Init => IInv
<1> SUFFICES ASSUME Init PROVE IInv
  OBVIOUS
<1>1. stock \in [Products -> 0..MaxStock] /\ stock \in [Products -> Int]
  BY OrdersAssumption, StoreAssumption DEF Init
<1>2. TypeOK
  BY <1>1, NoReqType, OrdersAssumption, StoreAssumption
     DEF Init, TypeOK, NoDelta, Places, OrderIdOrNone
<1>3. \A w \in Tasks, p \in Products : delta[w][p] = 0
  BY DEF Init, NoDelta
<1>4. LocksBelongToTransactions /\ LockedRowsExist /\ PlacedOrders
  BY <1>3 DEF Init, LocksBelongToTransactions, LockedRowsExist, PlacedOrders
<1>5. StockBounds
  BY <1>1, <1>3, StoreAssumption DEF StockBounds
<1>6. \A w \in Tasks : Handler(w)
  BY DEF Init, Handler
<1> QED BY <1>2, <1>4, <1>5, <1>6 DEF IInv

LEMMA NextIInv == IInv /\ [Next]_vars => IInv'
<1> SUFFICES ASSUME IInv, [Next]_vars PROVE IInv'
  OBVIOUS
<1>1. CASE UNCHANGED vars
  <2>1. TypeOK'
    BY <1>1 DEF IInv, TypeOK, vars, orderRows, productRows, handler, shared, locks
  <2>2. LocksBelongToTransactions' /\ StockBounds' /\ LockedRowsExist' /\ PlacedOrders'
    BY <1>1 DEF IInv, LocksBelongToTransactions, StockBounds, LockedRowsExist,
                PlacedOrders, vars, orderRows, productRows, handler, shared, locks
  <2>3. \A v \in Tasks : Handler(v)'
    BY <1>1, OtherHandler DEF IInv, vars, orderRows, productRows, handler, shared, locks
  <2> QED BY <2>1, <2>2, <2>3 DEF IInv
<1>2. ASSUME NEW w \in Workers, Arrival(w) PROVE IInv'
  <2>1. CASE \E u \in Users, b \in Baskets : StartCreate(w, u, b)
    BY <2>1, StartCreateStep
  <2>2. CASE \E u \in Users, op \in ClientOps, o \in OrderIds, k \in PaymentIds \cup {None} :
               StartOrderOp(w, u, op, o, k)
    <3>1. ClientOps \subseteq OrderOps
      BY OrdersAssumption DEF OrderOps
    <3> QED BY <2>2, <3>1, StartOrderOpStep
  <2>3. CASE \E u \in Users, p \in Products, s \in StockEdits : StartEdit(w, u, p, s)
    BY <2>3, StartEditStep
  <2> QED BY <1>2, <2>1, <2>2, <2>3 DEF Arrival
<1>3. ASSUME NEW w \in Tasks, Step(w) PROVE IInv'
  <2>1. SaveViolatesUnique(w) \/ AddStockOverflows(w) => Abort(w)
    BY DEF SaveViolatesUnique, AddStockOverflows
  <2>2. CASE Respond(w)
    BY <2>2, RespondStep
  <2>3. CASE Deduct(w)
    BY <2>3, DeductStep
  <2>4. CASE DeductRefused(w) \/ UpdateRefused(w) \/ TransitionRefused(w)
    BY <2>4, RefusedSteps
  <2>5. CASE SaveOrder(w)
    BY <2>5, SaveOrderStep
  <2>6. CASE SaveViolatesUnique(w) \/ AddStockOverflows(w)
    BY <2>1, <2>6, AbortStep
  <2>7. CASE Dedup(w)
    BY <2>7, DedupStep
  <2>8. CASE CheckPayable(w)
    BY <2>8, CheckPayableStep
  <2>9. CASE UpdateStatus(w)
    BY <2>9, UpdateStatusStep
  <2>10. CASE Transition(w)
    BY <2>10, TransitionStep
  <2>11. CASE AddStock(w)
    BY <2>11, AddStockStep
  <2>12. CASE CommitRestock(w)
    BY <2>12, CommitRestockStep
  <2>13. CASE WriteStock(w)
    BY <2>13, WriteStockStep
  <2>14. CASE InvalidateDetail(w)
    BY <2>14, InvalidateDetailStep
  <2>15. CASE Replay(w) \/ Reload(w)
    BY <2>15, ReplayStep, ReloadStep
  <2> QED BY <1>3, <2>2, <2>3, <2>4, <2>5, <2>6, <2>7, <2>8, <2>9, <2>10, <2>11, <2>12,
             <2>13, <2>14, <2>15 DEF Step
<1>4. ASSUME NEW w \in Tasks, DeadlockVictim(w) \/ Fault(w) PROVE IInv'
  BY <1>4, AbortStep DEF DeadlockVictim, Fault
<1>5. CASE SweepStep
  BY <1>5, SweepSteps
<1>6. CASE \E p \in Products, s \in StockEdits : CreateProduct(p, s)
  BY <1>6, CreateProductStep
<1>7. CASE \E o \in OrderIds : TimePasses(o)
  BY <1>7, TimePassesStep
<1>8. CASE \E k \in PaymentIds : PaymentKeyExpires(k)
  BY <1>8, PaymentKeyExpiresStep
<1> QED BY <1>1, <1>2, <1>3, <1>4, <1>5, <1>6, <1>7, <1>8 DEF Next

(* Every reachable state satisfies the inductive invariant. *)
THEOREM Invariant == Spec => []IInv
  BY InitIInv, NextIInv, PTL DEF Spec

(* Types, and with them 0 <= stock <= MaxStock at every commit whatever     *)
(* orders, restocks and corrections interleave (models.Product).            *)
THEOREM TypeCorrect == Spec => []TypeOK
<1>1. IInv => TypeOK
  BY DEF IInv
<1> QED BY <1>1, Invariant, PTL

(* Row locks and uncommitted writes belong to running transactions.         *)
THEOREM LockDiscipline == Spec => []LocksBelongToTransactions
<1>1. IInv => LocksBelongToTransactions
  BY DEF IInv
<1> QED BY <1>1, Invariant, PTL

-----------------------------------------------------------------------------
(* Waiting for row locks *)

(* A map of a finite set into itself permutes a part of it: the smallest    *)
(* part it maps into itself.                                                *)
LEMMA Circle ==
    ASSUME NEW T, IsFiniteSet(T), T # {}, NEW f, \A v \in T : f[v] \in T
    PROVE  \E C \in SUBSET T : C # {} /\ {f[v] : v \in C} = C
<1> DEFINE Image(C) == {f[v] : v \in C}
           Closed == {C \in SUBSET T : C # {} /\ Image(C) \subseteq C}
<1>1. IsWellFoundedOn(StrictSubsetOrdering(T), SUBSET T)
  BY FS_StrictSubsetOrderingWellFounded, FS_FiniteSubsetsOfFinite
<1>2. T \in Closed /\ Closed \subseteq SUBSET T
  OBVIOUS
<1>3. PICK C \in Closed : \A D \in Closed : <<D, C>> \notin StrictSubsetOrdering(T)
  <2> HIDE DEF Closed
  <2> QED BY <1>1, <1>2, WFMin
<1>4. Image(C) \in Closed
  BY <1>3
<1>5. Image(C) = C
  <2>1. <<Image(C), C>> \notin StrictSubsetOrdering(T)
    BY <1>3, <1>4
  <2>2. Image(C) \in SUBSET T /\ C \in SUBSET T /\ Image(C) \subseteq C
    BY <1>3
  <2> HIDE DEF Image
  <2> QED BY <2>1, <2>2 DEF StrictSubsetOrdering
<1> QED BY <1>3, <1>5

(* The task another one waits for is in the middle of a transaction.        *)
LEMMA HolderIsInTransaction ==
    ASSUME IInv, NEW w \in Tasks, WaitsFor(w) # None
    PROVE  /\ WaitsFor(w) \in Tasks
           /\ pc[WaitsFor(w)] \in {"deduct", "restock"}
<1>1. TypeOK /\ LocksBelongToTransactions /\ Handler(w)
  BY DEF IInv
<1>2. CASE /\ cur[w] # None
           /\ \/ pc[w] = "deduct" /\ Covers(w)
              \/ pc[w] \in {"restock", "edit"}
  <2>1. cur[w][1] \in Products
    BY <1>1, <1>2 DEF TypeOK
  <2>2. WaitsFor(w) = stockLock[cur[w][1]]
    BY <1>2 DEF WaitsFor
  <2> QED BY <1>1, <2>1, <2>2 DEF TypeOK, LocksBelongToTransactions
<1>3. CASE ~ (/\ cur[w] # None
              /\ \/ pc[w] = "deduct" /\ Covers(w)
                 \/ pc[w] \in {"restock", "edit"})
  <2>1. pc[w] \in {"update", "transition"} /\ WaitsFor(w) = orderLock[req[w].oid]
    BY <1>3 DEF WaitsFor
  <2>2. req[w].oid \in OrderIds
    BY <1>1, <2>1 DEF Handler, Loaded
  <2> QED BY <1>1, <2>1, <2>2 DEF TypeOK, LocksBelongToTransactions
<1> QED BY <1>2, <1>3

(* Every wait for a row lock leads to a transaction that can go on or to a  *)
(* deadlock, for any number of handlers: the part of "every request is      *)
(* answered" that does not depend on scheduling (service.create_order,      *)
(* _restock_order_core and the rollbacks).                                  *)
THEOREM NoVainWait == Spec => []WaitingEnds
<1>1. IInv => WaitingEnds
  <2> SUFFICES ASSUME IInv, NEW S \in SUBSET Tasks,
                      NEW w \in S, WaitsFor(w) # None,
                      \A v \in S : WaitsFor(v) \in S \cup {None},
                      ~ \E v \in S : CanGoOn(v)
               PROVE  \E C \in SUBSET S : C # {} /\ Deadlocked(C)
    BY DEF WaitingEnds
  <2> DEFINE T == {v \in S : WaitsFor(v) # None}
             f == [v \in T |-> WaitsFor(v)]
  <2>1. IsFiniteSet(T) /\ T # {}
    <3>1. IsFiniteSet(Tasks)
      BY OrdersAssumption, FS_AddElement DEF Tasks
    <3> QED BY <3>1, FS_Subset
  <2>2. ASSUME NEW v \in T PROVE f[v] \in T
    <3>1. v \in Tasks /\ WaitsFor(v) \in S
      OBVIOUS
    <3> DEFINE u == WaitsFor(v)
    <3>2. u \in Tasks /\ pc[u] \in {"deduct", "restock"}
      BY <3>1, HolderIsInTransaction
    <3>3. AtLine(u)
      BY <3>2 DEF IInv, Handler, Deducting, Restocking
    <3>4. WaitsFor(u) # None
      <4>1. cur[u] = None => todo[u] = {}
        BY <3>2, <3>3, OrdersAssumption DEF AtLine, IInv, TypeOK
      <4> QED BY <3>1, <3>2, <4>1 DEF CanGoOn
    <3> QED BY <3>1, <3>4
  <2>3. PICK C \in SUBSET T : C # {} /\ {f[v] : v \in C} = C
    <3>1. \A v \in T : f[v] \in T
      BY <2>2
    <3> HIDE DEF T, f
    <3>2. \E C \in SUBSET T : C # {} /\ {f[v] : v \in C} = C
      BY ONLY <2>1, <3>1, Circle
    <3> QED BY <3>2
  <2>4. {WaitsFor(v) : v \in C} = C
    BY <2>3
  <2> QED BY <2>3, <2>4 DEF Deadlocked
<1> QED BY <1>1, Invariant, PTL
=============================================================================
