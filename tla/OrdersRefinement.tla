-------------------------- MODULE OrdersRefinement --------------------------
(***************************************************************************)
(* Orders implements OrderBook: every commit of the service is one atomic  *)
(* operation of the order book, for every value of the constants.  What    *)
(* the book conserves is carried over to the service.                      *)
(***************************************************************************)
EXTENDS OrdersProofs

(* The order book speaks of the same data. *)
LEMMA BookData ==
    /\ Book!Lines = Lines
    /\ \A b : Book!Distinct(b) <=> Distinct(b)
    /\ \A b, p : Book!Qty(b, p) = Qty(b, p)
  BY DEF Book!Lines, Lines, Book!Distinct, Distinct, Book!Qty, Qty

(* SaveOrder places an order whose lines the committed stock covers. *)
LEMMA SaveOrderRefines ==
    ASSUME IInv, NEW w \in Tasks, SaveOrder(w)
    PROVE  Book!Next
<1> DEFINE b == req[w].lines
           u == req[w].user
<1>1. /\ TypeOK
      /\ Deducting(w)
      /\ todo[w] = {}
      /\ Distinct(b)
      /\ CommitStock(w)
      /\ StockBounds
  BY DEF IInv, SaveOrder, Handler, Owed
<1>2. PICK o \in OrderIds :
        /\ status[o] = "absent"
        /\ status' = [status EXCEPT ![o] = "pending"]
        /\ items' = [items EXCEPT ![o] = b]
        /\ owner' = [owner EXCEPT ![o] = u]
  BY DEF SaveOrder, Owed
<1>3. /\ b \in SUBSET Lines
      /\ u \in Users
      /\ \A l \in b : l[1] \in rows
  BY <1>1 DEF Deducting
<1>4. ASSUME NEW p \in Products
      PROVE  /\ delta[w][p] = 0 - Qty(b, p)
             /\ Qty(b, p) <= stock[p]
             /\ stock[p] + delta[w][p] = stock[p] - Qty(b, p)
  <2>1. delta[w][p] = 0 - Qty(b, p)
    BY <1>1, QtyEmpty DEF Deducting
  <2>2. stock[p] + delta[w][p] >= 0 /\ stock[p] \in Int
    BY <1>1, StoreAssumption DEF StockBounds, TypeOK
  <2>3. Qty(b, p) \in Int
    BY QtyType, StoreAssumption
  <2> QED BY <2>1, <2>2, <2>3
<1>5. stock' = [p \in Products |-> stock[p] - Qty(b, p)]
  BY <1>1, <1>4 DEF CommitStock
<1>6. Book!Place(o, u, b)
  BY <1>1, <1>2, <1>3, <1>4, <1>5, BookData DEF Book!Place, SaveOrder, Owed
<1> HIDE DEF b, u
<1> QED BY <1>3, <1>6, BookData DEF Book!Next

(* CommitRestock withdraws an order and returns exactly its units. *)
LEMMA CommitRestockRefines ==
    ASSUME IInv, NEW w \in Tasks, CommitRestock(w)
    PROVE  Book!Next
<1> DEFINE o == req[w].oid
           op == req[w].op
<1>1. /\ TypeOK
      /\ Loaded(w)
      /\ Restocking(w)
      /\ todo[w] = {}
      /\ op \in {"pay", "cancel", "refund", "sweep"}
      /\ CommitStock(w)
      /\ StockBounds
  BY DEF IInv, CommitRestock, Handler, Owed
<1>2. ASSUME NEW p \in Products
      PROVE  /\ stock[p] + delta[w][p] = stock[p] + Qty(items[o], p)
             /\ stock[p] + Qty(items[o], p) <= MaxStock
  <2>1. delta[w][p] = Qty(items[o], p) - 0
    BY <1>1, QtyEmpty DEF Restocking, Loaded
  <2>2. stock[p] + delta[w][p] <= MaxStock /\ stock[p] \in Int
    BY <1>1, StoreAssumption DEF StockBounds, TypeOK
  <2>3. Qty(items[o], p) \in Int
    BY QtyType, StoreAssumption
  <2> QED BY <2>1, <2>2, <2>3
<1>3. stock' = [p \in Products |-> stock[p] + Qty(items[o], p)]
  BY <1>1, <1>2 DEF CommitStock
<1>4. o \in OrderIds /\ status[o] = From(op)
  BY <1>1 DEF Loaded, Restocking
<1>5. Book!Withdraw(o, From(op), Withdrawn(op))
  BY <1>2, <1>3, <1>4, BookData DEF Book!Withdraw, CommitRestock, Owed
<1>6. \/ From(op) = "pending" /\ Withdrawn(op) = "cancelled"
      \/ From(op) = "paid" /\ Withdrawn(op) = "refunded"
  BY <1>1 DEF From, Withdrawn
<1> HIDE DEF o, op
<1> QED BY <1>4, <1>5, <1>6 DEF Book!Next

LEMMA UpdateStatusRefines ==
    ASSUME IInv, NEW w \in Tasks, UpdateStatus(w)
    PROVE  Book!Next
<1> DEFINE o == req[w].oid
           op == req[w].op
<1>1. o \in OrderIds /\ op \in {"pay", "ship", "complete"}
  BY DEF IInv, UpdateStatus, Handler, Loaded, InFrom
<1>2. Book!Advance(o, From(op), Advanced(op))
  BY DEF Book!Advance, UpdateStatus, productRows, InFrom
<1>3. \/ From(op) = "pending" /\ Advanced(op) = "paid"
      \/ From(op) = "paid" /\ Advanced(op) = "shipped"
      \/ From(op) = "shipped" /\ Advanced(op) = "completed"
  BY <1>1 DEF From, Advanced
<1> HIDE DEF o, op
<1> QED BY <1>1, <1>2, <1>3 DEF Book!Next

LEMMA ProductsRefine ==
    ASSUME IInv,
           \/ \E w \in Tasks : WriteStock(w)
           \/ \E p \in Products, s \in StockEdits : CreateProduct(p, s)
    PROVE  Book!Next
<1>1. ASSUME NEW w \in Tasks, WriteStock(w) PROVE Book!Next
  <2> DEFINE p == cur[w][1]
             s == cur[w][2]
  <2>1. p \in rows /\ s \in 0..MaxStock /\ p \in Products
    BY <1>1 DEF IInv, TypeOK, WriteStock, Handler
  <2>2. Book!SetStock(p, s)
    BY <1>1, <2>1 DEF Book!SetStock, WriteStock, orderRows, shared, locks
  <2> HIDE DEF p, s
  <2> QED BY <2>1, <2>2 DEF Book!Next
<1>2. ASSUME NEW p \in Products, NEW s \in StockEdits, CreateProduct(p, s) PROVE Book!Next
  <2>1. s \in 0..MaxStock
    BY OrdersAssumption
  <2>2. Book!CreateProduct(p, s)
    BY <1>2 DEF Book!CreateProduct, CreateProduct, orderRows, shared, locks
  <2> QED BY <2>1, <2>2 DEF Book!Next
<1> QED BY <1>1, <1>2

(* The steps that commit nothing. *)
LEMMA OtherStepsStutter ==
    ASSUME Next,
           ~ \E w \in Tasks : \/ SaveOrder(w) \/ CommitRestock(w)
                              \/ UpdateStatus(w) \/ WriteStock(w),
           ~ \E p \in Products, s \in StockEdits : CreateProduct(p, s)
    PROVE  UNCHANGED <<status, items, owner, rows, stock, supply>>
<1> DEFINE Same == UNCHANGED <<orderRows, productRows>>
<1>1. ASSUME NEW w \in Tasks, NEW code, Refuse(w, code) PROVE Same
  BY <1>1 DEF Refuse, shared
<1>2. ASSUME NEW w \in Tasks, Abort(w) PROVE Same
  BY <1>2 DEF Abort
<1>3. ASSUME NEW w \in Workers, Arrival(w) PROVE Same
  <2>1. ASSUME NEW r, NEW place, NEW ls, Start(w, r, place, ls) PROVE Same
    BY <2>1 DEF Start, shared
  <2>2. \A u, b : StartCreate(w, u, b) => Same
    BY <2>1 DEF StartCreate
  <2>3. \A u, op, o, k : StartOrderOp(w, u, op, o, k) => Same
    BY <2>1 DEF StartOrderOp
  <2>4. \A u, p, s : StartEdit(w, u, p, s) => Same
    BY <2>1 DEF StartEdit
  <2> HIDE DEF Same
  <2> QED BY <1>3, <2>2, <2>3, <2>4 DEF Arrival
<1>4. ASSUME NEW w \in Tasks, Step(w) PROVE Same
  <2>1. (\/ Respond(w) \/ Deduct(w) \/ Dedup(w) \/ Replay(w) \/ CheckPayable(w) \/ Reload(w)
         \/ Transition(w) \/ AddStock(w) \/ InvalidateDetail(w)) => Same
    BY DEF Respond, Deduct, Dedup, Replay, CheckPayable, Reload, Transition, AddStock,
           InvalidateDetail, Covers, KeyFree, shared, AlreadyPaid, TooLate, InFrom
  <2>2. DeductRefused(w) \/ UpdateRefused(w) \/ TransitionRefused(w) => Same
    BY <1>1 DEF DeductRefused, UpdateRefused, TransitionRefused, Covers, InFrom
  <2>3. SaveViolatesUnique(w) \/ AddStockOverflows(w) => Same
    BY <1>2 DEF SaveViolatesUnique, AddStockOverflows
  <2> QED BY <1>4, <2>1, <2>2, <2>3 DEF Step
<1>5. ASSUME NEW w \in Tasks, DeadlockVictim(w) \/ Fault(w) PROVE Same
  BY <1>2, <1>5 DEF DeadlockVictim, Fault
<1>6. SweepStep => Same
  BY DEF SweepStep, Scan, SweepNext, SweepEnd, Expired, shared
<1>7. (\E o \in OrderIds : TimePasses(o)) => Same
  BY DEF TimePasses
<1>8. (\E k \in PaymentIds : PaymentKeyExpires(k)) => Same
  BY DEF PaymentKeyExpires
<1>9. Same
  BY <1>3, <1>4, <1>5, <1>6, <1>7, <1>8 DEF Next
<1> QED BY <1>9 DEF orderRows, productRows, shared, locks

LEMMA InitRefines == Init => Book!Init
  BY DEF Init, Book!Init

(* The refinement: however the handlers and the sweeper interleave, block,  *)
(* deadlock and fail, the committed state moves as the order book moves: no *)
(* oversold or partial order, no status outside the diagram, every          *)
(* withdrawal gives its units back exactly once.                            *)
THEOREM Refinement == Spec => RefinesBook
<1>1. ASSUME IInv, [Next]_vars PROVE [Book!Next]_Book!vars
  <2>1. CASE UNCHANGED vars
    BY <2>1 DEF Book!vars, vars, orderRows, productRows, shared, locks
  <2>2. CASE \E w \in Tasks : SaveOrder(w)
    BY <1>1, <2>2, SaveOrderRefines
  <2>3. CASE \E w \in Tasks : CommitRestock(w)
    BY <1>1, <2>3, CommitRestockRefines
  <2>4. CASE \E w \in Tasks : UpdateStatus(w)
    BY <1>1, <2>4, UpdateStatusRefines
  <2>5. CASE \/ \E w \in Tasks : WriteStock(w)
             \/ \E p \in Products, s \in StockEdits : CreateProduct(p, s)
    BY <1>1, <2>5, ProductsRefine
  <2>6. CASE /\ Next
             /\ ~ \E w \in Tasks : \/ SaveOrder(w) \/ CommitRestock(w)
                                   \/ UpdateStatus(w) \/ WriteStock(w)
             /\ ~ \E p \in Products, s \in StockEdits : CreateProduct(p, s)
    BY <2>6, OtherStepsStutter DEF Book!vars
  <2> QED BY <1>1, <2>1, <2>2, <2>3, <2>4, <2>5, <2>6
<1> QED BY <1>1, InitRefines, Invariant, PTL DEF Spec, RefinesBook, Book!Spec

-----------------------------------------------------------------------------
(* What the order book conserves, the service conserves. *)

Proofs == INSTANCE OrderBookProofs

(* The two instances of the book, with and without its proofs, agree. *)
LEMMA SameBook ==
    /\ Book!Init <=> Proofs!Init
    /\ [Book!Next]_Book!vars => [Proofs!Next]_Proofs!vars
    /\ Proofs!StockConserved => Book!StockConserved
<1>1. \A S : Proofs!Cardinality(S) = Book!Cardinality(S)
  BY DEF Proofs!Cardinality, Book!Cardinality
<1>2. Book!Lines = Proofs!Lines
  BY DEF Book!Lines, Proofs!Lines
<1>3. \A b, p : Book!Qty(b, p) = Proofs!Qty(b, p)
  BY DEF Book!Qty, Proofs!Qty
<1>4. Book!Init <=> Proofs!Init
  BY DEF Book!Init, Proofs!Init
<1>5. [Book!Next]_Book!vars => [Proofs!Next]_Proofs!vars
  <2>1. \A p, s : /\ Book!CreateProduct(p, s) <=> Proofs!CreateProduct(p, s)
                  /\ Book!SetStock(p, s) <=> Proofs!SetStock(p, s)
    BY DEF Book!CreateProduct, Proofs!CreateProduct, Book!SetStock, Proofs!SetStock
  <2>2. \A o, from, to : /\ Book!Advance(o, from, to) <=> Proofs!Advance(o, from, to)
                         /\ Book!Withdraw(o, from, to) <=> Proofs!Withdraw(o, from, to)
    BY <1>3 DEF Book!Advance, Proofs!Advance, Book!Withdraw, Proofs!Withdraw
  <2>3. \A o, u, b : Book!Place(o, u, b) <=> Proofs!Place(o, u, b)
    BY <1>3 DEF Book!Place, Proofs!Place, Book!Distinct, Proofs!Distinct
  <2>4. Book!Next => Proofs!Next
    BY <1>2, <2>1, <2>2, <2>3 DEF Book!Next, Proofs!Next
  <2> QED BY <2>4 DEF Book!vars, Proofs!vars
<1>6. Proofs!StockConserved => Book!StockConserved
  <2>1. \A p : Book!Held(p) = Proofs!Held(p)
    BY <1>3 DEF Book!Held, Proofs!Held, Book!Holding, Proofs!Holding
  <2> QED BY <1>1, <2>1 DEF Book!StockConserved, Proofs!StockConserved
<1> QED BY <1>4, <1>5, <1>6

(* Whatever the handlers and the sweeper do, and whatever fails, the units  *)
(* on the shelf and in live orders add up to the units supplied.            *)
THEOREM UnitsConserved == Spec => []Conserved
<1>1. Proofs!StoreAssumption
  BY StoreAssumption DEF Proofs!StoreAssumption, Proofs!IsFiniteSet, IsFiniteSet
<1>2. Proofs!Spec => []Proofs!StockConserved
  BY <1>1, Proofs!Conservation
<1> QED BY <1>2, SameBook, Refinement, PTL
       DEF RefinesBook, Conserved, Book!Spec, Proofs!Spec

-----------------------------------------------------------------------------
(* Rounds of the sweeper *)

(* While a round lasts, an order it found is still to be visited, is being  *)
(* visited, or is no longer pending.                                        *)
Visiting(o) == pc[Sweeper] \in {"transition", "restock"} /\ req[Sweeper].oid = o

Accounted(o) == status[o] # "absent" /\ (o \in batch \/ Visiting(o) \/ status[o] # "pending")

RInv ==
    /\ req[Sweeper].op \in {"sweep", "none"}
    /\ \A o \in scanned : Accounted(o)

(* The book never takes a status back. *)
LEMMA NoWayBack ==
    ASSUME TypeOK, [Book!Next]_Book!vars, NEW o \in OrderIds, status[o] # "absent"
    PROVE  /\ status'[o] # "absent"
           /\ status[o] # "pending" => status'[o] # "pending"
<1>1. ASSUME NEW i \in OrderIds, NEW from, NEW to,
             Book!Advance(i, from, to) \/ Book!Withdraw(i, from, to),
             to \notin {"absent", "pending"}
      PROVE  status'[o] # "absent" /\ (status[o] # "pending" => status'[o] # "pending")
  BY <1>1 DEF Book!Advance, Book!Withdraw, TypeOK
<1>2. ASSUME NEW i \in OrderIds, NEW u, NEW b, Book!Place(i, u, b) PROVE status'[o] = status[o]
  BY <1>2 DEF Book!Place, TypeOK
<1>3. ASSUME NEW p, NEW s, Book!CreateProduct(p, s) \/ Book!SetStock(p, s)
      PROVE  status' = status
  BY <1>3 DEF Book!CreateProduct, Book!SetStock
<1>4. CASE UNCHANGED Book!vars
  BY <1>4 DEF Book!vars
<1> QED BY <1>1, <1>2, <1>3, <1>4 DEF Book!Next

(* A step of one task leaves the others where they are, the sweeper's round *)
(* included; only an exception ends that.                                   *)
LEMMA StepFrame ==
    ASSUME TypeOK, NEW w \in Tasks, Step(w) \/ DeadlockVictim(w) \/ Fault(w)
    PROVE  /\ \A v \in Tasks \ {w} : pc'[v] = pc[v] /\ req'[v] = req[v]
           /\ req'[w] \in {req[w], NoReq}
           /\ \/ UNCHANGED <<batch, scanned>>
              \/ w = Sweeper /\ scanned' = {}
<1> DEFINE Framed == /\ \A v \in Tasks \ {w} : pc'[v] = pc[v] /\ req'[v] = req[v]
                     /\ req'[w] \in {req[w], NoReq}
                     /\ \/ UNCHANGED <<batch, scanned>>
                        \/ w = Sweeper /\ scanned' = {}
<1>1. ASSUME NEW code, Answer(w, code) PROVE \A v \in Tasks \ {w} : pc'[v] = pc[v]
  BY <1>1 DEF Answer, TypeOK
<1>2. ASSUME Abort(w) PROVE Framed
  BY <1>2 DEF Abort, TypeOK
<1>3. ASSUME NEW code, Refuse(w, code) PROVE Framed
  BY <1>1, <1>3 DEF Refuse
<1>4. CASE Respond(w)
  BY <1>4 DEF Respond, TypeOK
<1>5. CASE Deduct(w) \/ AddStock(w)
  BY <1>5 DEF Deduct, AddStock
<1>6. CASE DeductRefused(w) \/ UpdateRefused(w) \/ TransitionRefused(w)
  BY <1>3, <1>6 DEF DeductRefused, UpdateRefused, TransitionRefused
<1>7. CASE SaveOrder(w) \/ CommitRestock(w) \/ Transition(w) \/ WriteStock(w)
  BY <1>7 DEF SaveOrder, CommitRestock, Transition, WriteStock, TypeOK
<1>8. CASE SaveViolatesUnique(w) \/ AddStockOverflows(w) \/ DeadlockVictim(w) \/ Fault(w)
  BY <1>2, <1>8 DEF SaveViolatesUnique, AddStockOverflows, DeadlockVictim, Fault
<1>9. CASE Dedup(w)
  BY <1>1, <1>9 DEF Dedup, TypeOK
<1>10. CASE CheckPayable(w) \/ Replay(w) \/ Reload(w)
  BY <1>1, <1>10 DEF CheckPayable, Replay, Reload, TypeOK
<1>11. CASE UpdateStatus(w)
  BY <1>11 DEF UpdateStatus, TypeOK
<1>12. CASE InvalidateDetail(w)
  BY <1>1, <1>12 DEF InvalidateDetail
<1> QED BY <1>4, <1>5, <1>6, <1>7, <1>8, <1>9, <1>10, <1>11, <1>12 DEF Step

(* What the sweeper does to the order it visits. *)
LEMMA VisitEnds ==
    ASSUME IInv, RInv, Step(Sweeper) \/ DeadlockVictim(Sweeper) \/ Fault(Sweeper),
           NEW o \in OrderIds, Visiting(o)
    PROVE  Visiting(o)' \/ status'[o] # "pending" \/ scanned' = {}
<1>1. /\ TypeOK /\ Handler(Sweeper) /\ Sweeper \in Tasks
      /\ req[Sweeper].op = "sweep"
      /\ pc[Sweeper] \in {"transition", "restock"} /\ req[Sweeper].oid = o
  BY DEF IInv, RInv, Visiting, Handler, Tasks
<1>2. CASE Abort(Sweeper)
  BY <1>2 DEF Abort
<1>3. CASE Transition(Sweeper)
  BY <1>1, <1>3 DEF Transition, Visiting, TypeOK
<1>4. CASE TransitionRefused(Sweeper)
  BY <1>1, <1>4 DEF TransitionRefused, InFrom, From, Refuse, shared, orderRows
<1>5. CASE AddStock(Sweeper)
  BY <1>1, <1>5 DEF AddStock, Visiting
<1>6. CASE CommitRestock(Sweeper)
  BY <1>1, <1>6 DEF CommitRestock, Withdrawn, TypeOK
<1>7. ASSUME Step(Sweeper)
      PROVE  \/ Transition(Sweeper) \/ TransitionRefused(Sweeper) \/ AddStock(Sweeper)
             \/ CommitRestock(Sweeper) \/ Abort(Sweeper)
  BY <1>1, <1>7 DEF Step, Respond, Deduct, DeductRefused, SaveOrder, SaveViolatesUnique, Dedup,
       Replay, CheckPayable, Reload, UpdateStatus, UpdateRefused, AddStockOverflows,
       WriteStock, InvalidateDetail
<1> QED BY <1>2, <1>3, <1>4, <1>5, <1>6, <1>7 DEF DeadlockVictim, Fault

LEMMA RoundInductive ==
    ASSUME IInv, RInv, Next, [Book!Next]_Book!vars
    PROVE  RInv'
<1>1. /\ TypeOK /\ Sweeper \in Tasks /\ scanned \subseteq OrderIds
      /\ NoReq.op = "none"
  BY DEF IInv, TypeOK, Tasks, NoReq
<1>2. ASSUME NEW o \in scanned
      PROVE  /\ status'[o] # "absent"
             /\ status[o] # "pending" => status'[o] # "pending"
  BY <1>1, <1>2, NoWayBack DEF RInv, Accounted
<1>3. ASSUME UNCHANGED <<batch, scanned>>, pc'[Sweeper] = pc[Sweeper],
             req'[Sweeper] = req[Sweeper]
      PROVE  RInv'
  BY <1>2, <1>3 DEF RInv, Accounted, Visiting
<1>4. ASSUME NEW w \in Tasks, Step(w) \/ DeadlockVictim(w) \/ Fault(w) PROVE RInv'
  <2>1. CASE w # Sweeper
    BY <1>1, <1>3, <1>4, <2>1, StepFrame
  <2>2. CASE w = Sweeper
    <3>1. req'[Sweeper].op \in {"sweep", "none"}
      BY <1>1, <1>4, <2>2, StepFrame DEF RInv
    <3>2. CASE scanned' = {}
      BY <3>1, <3>2 DEF RInv
    <3>3. CASE scanned' # {}
      <4>1. UNCHANGED <<batch, scanned>>
        BY <1>1, <1>4, <3>3, StepFrame
      <4>2. ASSUME NEW o \in scanned PROVE Accounted(o)'
        <5>1. CASE Visiting(o)
          BY <1>1, <1>2, <1>4, <2>2, <3>3, <5>1, VisitEnds DEF Accounted
        <5>2. CASE ~Visiting(o)
          BY <1>2, <4>1, <5>2 DEF RInv, Accounted
        <5> QED BY <5>1, <5>2
      <4> QED BY <3>1, <4>1, <4>2 DEF RInv
    <3> QED BY <3>2, <3>3
  <2> QED BY <2>1, <2>2
<1>5. ASSUME NEW w \in Workers, Arrival(w) PROVE RInv'
  <2>1. ASSUME NEW r, NEW place, NEW ls, Start(w, r, place, ls) PROVE RInv'
    BY <1>1, <1>3, <2>1, OrdersAssumption DEF Start, TypeOK, Tasks
  <2>2. \A u, b : StartCreate(w, u, b) => RInv'
    BY <2>1 DEF StartCreate
  <2>3. \A u, op, o, k : StartOrderOp(w, u, op, o, k) => RInv'
    BY <2>1 DEF StartOrderOp
  <2>4. \A u, p, s : StartEdit(w, u, p, s) => RInv'
    BY <2>1 DEF StartEdit
  <2> QED BY <1>5, <2>2, <2>3, <2>4 DEF Arrival
<1>6. CASE Scan
  <2>1. /\ scanned' = {o \in overdue : status[o] = "pending"} /\ batch' = scanned'
        /\ UNCHANGED <<status, req>>
    BY <1>6 DEF Scan, Expired, shared, orderRows
  <2> QED BY <2>1 DEF RInv, Accounted
<1>7. CASE SweepNext
  <2>1. PICK o \in batch :
          /\ batch' = batch \ {o}
          /\ req' = [req EXCEPT ![Sweeper] = [NoReq EXCEPT !.op = "sweep", !.oid = o,
                                                            !.lines = items[o]]]
    BY <1>7 DEF SweepNext
  <2>2. /\ pc[Sweeper] = "sweep" /\ pc' = [pc EXCEPT ![Sweeper] = "transition"]
        /\ UNCHANGED <<status, scanned>>
    BY <1>7 DEF SweepNext, shared, orderRows
  <2>3. req'[Sweeper].op = "sweep" /\ req'[Sweeper].oid = o
    BY <1>1, <2>1 DEF TypeOK, NoReq
  <2>4. Visiting(o)'
    BY <1>1, <2>2, <2>3 DEF Visiting, TypeOK
  <2>5. ASSUME NEW i \in scanned PROVE Accounted(i)'
    BY <2>1, <2>2, <2>4 DEF RInv, Accounted, Visiting
  <2> QED BY <2>2, <2>3, <2>5 DEF RInv
<1>8. CASE SweepEnd
  BY <1>1, <1>8 DEF SweepEnd, RInv, TypeOK
<1>9. CASE \/ \E p \in Products, s \in StockEdits : CreateProduct(p, s)
           \/ \E o \in OrderIds : TimePasses(o)
           \/ \E k \in PaymentIds : PaymentKeyExpires(k)
  <2>1. UNCHANGED <<pc, req, batch, scanned>>
    BY <1>9 DEF CreateProduct, TimePasses, PaymentKeyExpires, handler
  <2> QED BY <1>3, <2>1
<1>10. CASE SweepStep
  BY <1>6, <1>7, <1>8, <1>10 DEF SweepStep
<1>11. CASE \E w \in Workers : Arrival(w)
  BY <1>5, <1>11
<1>12. CASE \E w \in Tasks : Step(w) \/ DeadlockVictim(w) \/ Fault(w)
  BY <1>4, <1>12
<1> QED BY <1>9, <1>10, <1>11, <1>12 DEF Next

(* A round of cancel_expired that is not broken off by an exception leaves  *)
(* no order pending that it found overdue, whoever races with it.           *)
THEOREM RoundsSettle == Spec => []RoundSettles
<1>1. Init => RInv
  BY DEF Init, RInv, NoReq, Tasks
<1>2. IInv /\ RInv /\ [Next]_vars /\ [Book!Next]_Book!vars => RInv'
  <2>1. ASSUME RInv, UNCHANGED vars PROVE RInv'
    BY <2>1 DEF vars, shared, orderRows, handler, RInv, Accounted, Visiting
  <2> QED BY <2>1, RoundInductive
<1>3. RInv => RoundSettles
  BY DEF RInv, Accounted, Visiting, RoundSettles
<1> QED BY <1>1, <1>2, <1>3, Invariant, Refinement, PTL DEF Spec, RefinesBook, Book!Spec
=============================================================================
