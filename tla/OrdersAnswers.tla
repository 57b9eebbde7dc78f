---------------------------- MODULE OrdersAnswers ----------------------------
(***************************************************************************)
(* What the answers of Orders are worth: statuses only move along the      *)
(* diagram of OrderStatus, so what a handler learnt about its order before *)
(* an await bounds what it can find after it.  From this follow that a 200 *)
(* is true, that a late payment never succeeds and that a payment_id pays  *)
(* one order, for every value of the constants.                            *)
(***************************************************************************)
EXTENDS OrdersProofs

(* Statuses an order that has been paid may have. *)
PaidOnce == {"paid", "shipped", "completed", "refunded"}

(* The diagram of models.OrderStatus. *)
Diagram ==
    {<<"absent", "pending">>, <<"pending", "paid">>, <<"pending", "cancelled">>,
     <<"paid", "shipped">>, <<"paid", "refunded">>, <<"shipped", "completed">>}

(* A 200 is true, but for that of a pay with key. *)
TrueAnswer(w) ==
    LET o == req[w].oid
    IN /\ req[w].op \in {"cancel", "refund"} =>
            o \in OrderIds /\ status[o] = Withdrawn(req[w].op)
       /\ req[w].op = "ship" => o \in OrderIds /\ status[o] \in {"shipped", "completed"}
       /\ req[w].op = "complete" => o \in OrderIds /\ status[o] = "completed"
       /\ req[w].op = "pay" /\ req[w].key = None =>
            o \in OrderIds /\ status[o] \in PaidOnce

(* The order of a cancel, or of a pay without key, is not pending any more. *)
Settled(w) ==
    req[w].op = "cancel" \/ (req[w].op = "pay" /\ req[w].key = None) =>
        req[w].oid \in OrderIds /\ status[req[w].oid] \notin {"absent", "pending"}

(* What task w knows of its order and of its payment key. *)
Knows(w) ==
    LET o == req[w].oid
        k == req[w].key
    IN /\ pc[w] = "deduct" => req[w].op = "create"
       /\ pc[w] = "edit" => req[w].op = "edit"
       /\ req[w].late => o \in overdue
       /\ pc[w] \in {"dedup", "check"} /\ req[w].seen = "paid" => status[o] \in PaidOnce
       /\ pc[w] \in {"dedup", "check", "update"} /\ req[w].op = "pay"
            /\ req[w].seen # "pending" => status[o] # "pending"
       /\ pc[w] = "update" /\ req[w].op = "pay" /\ req[w].late => req[w].seen # "pending"
       /\ pc[w] \in {"check", "update"} /\ k # None => payKey[k] = o
       /\ pc[w] = "invalidate" /\ req[w].op # "pay" => TrueAnswer(w)
       /\ pc[w] = "reload" \/ (pc[w] = "reply" /\ reply[w] = "200") => TrueAnswer(w)
       /\ pc[w] = "invalidate" \/ (pc[w] = "reply" /\ reply[w] = "409") => Settled(w)

(* An order paid with a key is the one its key names. *)
KeysBind == \A o \in OrderIds : paidWith[o] # None => payKey[paidWith[o]] = o

SweeperNeverPays == pc[Sweeper] \notin {"dedup", "check", "update"}

AInv ==
    /\ \A w \in Tasks : Knows(w)
    /\ KeysBind
    /\ SweeperNeverPays

-----------------------------------------------------------------------------
(* Steps *)

(* Orders follow the diagram, overdue orders stay so. *)
Forward ==
    /\ \A o \in OrderIds : status'[o] = status[o] \/ <<status[o], status'[o]>> \in Diagram
    /\ overdue \subseteq overdue'

(* Of what Knows speaks about, a step of w changes only w's part. *)
OthersKeep(w) ==
    \A v \in Tasks \ {w} : pc'[v] = pc[v] /\ req'[v] = req[v] /\ reply'[v] = reply[v]

KeysKept == \A k \in PaymentIds : payKey[k] # None => payKey'[k] = payKey[k]

LEMMA Bystander ==
    ASSUME IInv, NEW v \in Tasks, Knows(v), Forward, KeysKept,
           pc'[v] = pc[v], req'[v] = req[v], reply'[v] = reply[v]
    PROVE  Knows(v)'
<1> DEFINE o == req[v].oid
           k == req[v].key
<1>1. /\ TypeOK
      /\ req[v] \in Request
      /\ pc[v] \in {"dedup", "check", "update"} => o \in OrderIds /\ status[o] # "absent"
  BY DEF IInv, Handler, Loaded, TypeOK
<1>2. o \in OrderIds =>
        /\ status[o] \in PaidOnce => status'[o] \in PaidOnce
        /\ status[o] \notin {"absent", "pending"} => status'[o] # "pending"
        /\ status[o] \in {"cancelled", "refunded", "completed"} => status'[o] = status[o]
        /\ status[o] = "shipped" => status'[o] \in {"shipped", "completed"}
  BY DEF Forward, Diagram, PaidOnce
<1>3. TrueAnswer(v) => TrueAnswer(v)'
  BY <1>2 DEF TrueAnswer, Withdrawn
<1>4. Settled(v) => Settled(v)'
  BY <1>2 DEF Settled, Forward, Diagram
<1>5. req[v].late => o \in overdue'
  BY DEF Knows, Forward
<1>6. pc[v] \in {"dedup", "check"} /\ req[v].seen = "paid" => status'[o] \in PaidOnce
  BY <1>1, <1>2 DEF Knows
<1>7. pc[v] \in {"dedup", "check", "update"} /\ req[v].op = "pay"
        /\ req[v].seen # "pending" => status'[o] # "pending"
  BY <1>1, <1>2 DEF Knows
<1>8. pc[v] \in {"check", "update"} /\ k # None => payKey'[k] = o
  <2> SUFFICES ASSUME pc[v] \in {"check", "update"}, k # None PROVE payKey'[k] = o
    OBVIOUS
  <2>1. k \in PaymentIds /\ o # None
    BY <1>1, OrdersAssumption DEF Request
  <2> QED BY <2>1 DEF Knows, KeysKept
<1>9. pc[v] = "update" /\ req[v].op = "pay" /\ req[v].late => req[v].seen # "pending"
  BY DEF Knows
<1>10. /\ pc[v] = "invalidate" /\ req[v].op # "pay" => TrueAnswer(v)'
       /\ pc[v] = "reload" \/ (pc[v] = "reply" /\ reply[v] = "200") => TrueAnswer(v)'
       /\ pc[v] = "invalidate" \/ (pc[v] = "reply" /\ reply[v] = "409") => Settled(v)'
  BY <1>3, <1>4 DEF Knows
<1>11. /\ pc[v] = "deduct" => req[v].op = "create"
       /\ pc[v] = "edit" => req[v].op = "edit"
  BY DEF Knows
<1> QED BY <1>5, <1>6, <1>7, <1>8, <1>9, <1>10, <1>11 DEF Knows

(* A step of task w that leaves the keys of paid orders alone. *)
LEMMA TaskStep ==
    ASSUME IInv, AInv, NEW w \in Tasks, OthersKeep(w), Forward, KeysKept,
           paidWith' = paidWith, Knows(w)', SweeperNeverPays'
    PROVE  AInv'
<1>1. \A v \in Tasks : Knows(v)'
  BY Bystander DEF AInv, OthersKeep
<1>2. KeysBind'
  <2> SUFFICES ASSUME NEW o \in OrderIds, paidWith[o] # None
               PROVE  payKey'[paidWith[o]] = o
    BY DEF KeysBind
  <2>1. paidWith[o] \in PaymentIds /\ o # None
    BY OrdersAssumption DEF IInv, TypeOK
  <2> QED BY <2>1 DEF AInv, KeysBind, KeysKept
<1> QED BY <1>1, <1>2 DEF AInv

(* Places and answers of which Knows asks nothing but the deadline. *)
LEMMA Ignorant ==
    ASSUME IInv, AInv, NEW w \in Tasks, Forward, req'[w] = req[w] \/ req'[w] = NoReq,
           \/ pc'[w] \in {"idle", "transition", "restock", "sweep"}
           \/ /\ pc'[w] = "reply" /\ reply'[w] # "200"
              /\ reply'[w] = "409" => Settled(w)'
    PROVE  Knows(w)'
  BY DEF Knows, AInv, Forward, NoReq

(* What the frames of the lemmas above amount to for steps of one task. *)
LEMMA Frame ==
    ASSUME TypeOK, NEW w \in Tasks, NEW place \in Places,
           pc' = [pc EXCEPT ![w] = place],
           \/ req' = req
           \/ \E r \in Request : req' = [req EXCEPT ![w] = r],
           \/ reply' = reply
           \/ \E code \in Codes \cup {None} : reply' = [reply EXCEPT ![w] = code]
    PROVE  OthersKeep(w) /\ pc'[w] = place
  BY DEF TypeOK, OthersKeep

LEMMA Quiet == UNCHANGED <<status, overdue>> => Forward
  BY DEF Forward

LEMMA QuietKeys == UNCHANGED payKey => KeysKept
  BY DEF KeysKept

(* A handler that answers. *)
LEMMA Answering ==
    ASSUME TypeOK, NEW w \in Tasks, NEW code \in Codes, Answer(w, code), req' = req
    PROVE  /\ OthersKeep(w)
           /\ pc'[w] \in {"sweep", "reply"}
           /\ pc'[w] = "reply" => reply'[w] = code
           /\ SweeperNeverPays => SweeperNeverPays'
<1>1. Sweeper \in Tasks
  BY DEF Tasks
<1>2. pc' = [pc EXCEPT ![w] = "sweep"] \/ pc' = [pc EXCEPT ![w] = "reply"]
  BY DEF Answer
<1>3. SweeperNeverPays => SweeperNeverPays'
  BY <1>1, <1>2 DEF TypeOK, SweeperNeverPays
<1>4. OthersKeep(w) /\ (pc'[w] = "reply" => reply'[w] = code)
  BY DEF TypeOK, Answer, OthersKeep
<1> QED BY <1>2, <1>3, <1>4 DEF TypeOK

(* A step of w that neither reads nor writes what Knows is about. *)
LEMMA SilentStep ==
    ASSUME IInv, AInv, NEW w \in Tasks,
           UNCHANGED <<pc, req, reply, status, overdue, payKey, paidWith>>
    PROVE  AInv'
<1>1. OthersKeep(w) /\ Forward /\ KeysKept /\ SweeperNeverPays'
  BY Quiet, QuietKeys DEF OthersKeep, AInv, SweeperNeverPays
<1>2. Knows(w)'
  BY <1>1, Bystander DEF AInv
<1> QED BY <1>1, <1>2, TaskStep

LEMMA RefuseKeeps ==
    ASSUME IInv, AInv, NEW w \in Tasks, NEW code \in Codes \ {"200"}, Refuse(w, code),
           code = "409" => Settled(w)
    PROVE  AInv'
<1>1. TypeOK /\ Forward /\ KeysKept /\ SweeperNeverPays
  BY Quiet, QuietKeys DEF IInv, AInv, Refuse, shared, orderRows
<1>2. Answer(w, code) /\ req' = req /\ code \in Codes /\ code # "200"
  BY DEF Refuse
<1>3. Settled(w) => Settled(w)'
  BY <1>2 DEF Refuse, Settled, shared, orderRows
<1>4. /\ OthersKeep(w)
      /\ \/ pc'[w] = "sweep"
         \/ pc'[w] = "reply" /\ reply'[w] # "200" /\ (reply'[w] = "409" => Settled(w)')
      /\ SweeperNeverPays'
  BY <1>1, <1>2, <1>3, Answering
<1> QED BY <1>1, <1>2, <1>4, TaskStep, Ignorant DEF Refuse, shared

LEMMA AbortKeeps ==
    ASSUME IInv, AInv, NEW w \in Tasks, Abort(w)
    PROVE  AInv'
<1>1. TypeOK /\ Forward /\ KeysKept /\ SweeperNeverPays
  BY Quiet, QuietKeys DEF IInv, AInv, Abort, orderRows
<1>2. /\ OthersKeep(w)
      /\ pc'[w] = "idle" \/ (pc'[w] = "reply" /\ reply'[w] = "500")
      /\ SweeperNeverPays'
      /\ req'[w] = req[w] \/ req'[w] = NoReq
  BY <1>1 DEF Abort, TypeOK, OthersKeep, SweeperNeverPays, Tasks
<1> QED BY <1>1, <1>2, TaskStep, Ignorant DEF Abort

LEMMA StartKeeps ==
    ASSUME IInv, AInv, NEW w \in Workers, NEW r \in Request, NEW place \in Places, NEW ls,
           Start(w, r, place, ls),
           reply' = reply \/ reply' = [reply EXCEPT ![w] = "404"],
           Knows(w)'
    PROVE  AInv'
<1>1. TypeOK /\ w \in Tasks /\ w # Sweeper
  BY OrdersAssumption DEF IInv, Tasks
<1>2. OthersKeep(w) /\ SweeperNeverPays'
  BY <1>1 DEF Start, TypeOK, OthersKeep, AInv, SweeperNeverPays
<1>3. Forward /\ KeysKept /\ paidWith' = paidWith
  BY Quiet, QuietKeys DEF Start, shared, orderRows
<1> QED BY <1>1, <1>2, <1>3, TaskStep

LEMMA ArrivalKeeps ==
    ASSUME IInv, AInv, NEW w \in Workers, Arrival(w)
    PROVE  AInv'
<1>1. TypeOK /\ w \in Tasks
  BY DEF IInv, Tasks
<1>2. ASSUME NEW u \in Users, NEW b \in Baskets, StartCreate(w, u, b)
      PROVE  AInv'
  <2> DEFINE r == [NoReq EXCEPT !.op = "create", !.user = u, !.lines = b]
  <2>1. /\ r \in Request
        /\ r.late = FALSE
        /\ r.op = "create"
    BY NoReqType, LinesType, OrdersAssumption
       DEF NoReq, Request, Ops, OrderOps, OrderIdOrNone, Statuses
  <2> HIDE DEF r
  <2>2. Start(w, r, "deduct", b) /\ reply' = reply
    BY <1>2 DEF StartCreate, r
  <2>3. pc'[w] = "deduct" /\ req'[w] = r
    BY <1>1, <2>2 DEF Start, TypeOK
  <2>4. Knows(w)'
    BY <2>1, <2>3 DEF Knows
  <2> QED BY <2>1, <2>2, <2>4, StartKeeps DEF Places
<1>3. ASSUME NEW u \in Users, NEW op \in OrderOps, NEW o \in OrderIds,
             NEW k \in PaymentIds \cup {None}, StartOrderOp(w, u, op, o, k)
      PROVE  AInv'
  <2> DEFINE r == [op |-> op, user |-> u, oid |-> o, lines |-> items[o], key |-> k,
                   seen |-> IF op = "pay" THEN status[o] ELSE "absent",
                   late |-> op = "pay" /\ o \in overdue]
  <2>1. r \in Request
    BY <1>1, LinesType DEF TypeOK, Request, Ops, OrderOps, OrderIdOrNone
  <2>2. /\ op # "pay" => k = None
        /\ \/ Start(w, r, FirstPlace(op, k), {}) /\ reply' = reply
           \/ Start(w, r, "reply", {}) /\ reply' = [reply EXCEPT ![w] = "404"]
    BY <1>3 DEF StartOrderOp
  <2>3. /\ r.op = op /\ r.oid = o /\ r.key = k
        /\ r.late => op = "pay" /\ o \in overdue
        /\ op = "pay" => r.seen = status[o]
        /\ op # "pay" => r.seen = "absent"
    OBVIOUS
  <2> HIDE DEF r
  <2>4. CASE Start(w, r, "reply", {}) /\ reply' = [reply EXCEPT ![w] = "404"]
    <3>1. pc'[w] = "reply" /\ req'[w] = r /\ reply'[w] = "404" /\ overdue' = overdue
      BY <1>1, <2>4 DEF Start, TypeOK, shared
    <3>2. Knows(w)'
      BY <2>3, <3>1 DEF Knows
    <3> QED BY <2>1, <2>4, <3>2, StartKeeps DEF Places
  <2>5. CASE Start(w, r, FirstPlace(op, k), {}) /\ reply' = reply
    <3> DEFINE place == FirstPlace(op, k)
    <3>1. /\ place \in {"dedup", "check", "transition", "update"}
          /\ place = "dedup" => op = "pay"
          /\ place = "check" => op = "pay" /\ k = None
          /\ place = "update" => op # "pay"
      BY DEF FirstPlace, OrderOps
    <3> HIDE DEF place
    <3>2. /\ pc'[w] = place
          /\ req'[w] = r
          /\ UNCHANGED <<status, overdue>>
      BY <1>1, <2>5 DEF Start, TypeOK, shared, orderRows, place
    <3>3. Knows(w)'
      BY <2>2, <2>3, <3>1, <3>2 DEF Knows, PaidOnce
    <3>4. place \in Places /\ Start(w, r, place, {})
      BY <2>5, <3>1 DEF Places, place
    <3> QED BY <2>1, <2>5, <3>3, <3>4, StartKeeps
  <2> QED BY <2>2, <2>4, <2>5
<1>4. ASSUME NEW u \in Users, NEW p \in Products, NEW s \in StockEdits, StartEdit(w, u, p, s)
      PROVE  AInv'
  <2> DEFINE r == [NoReq EXCEPT !.op = "edit", !.user = u, !.lines = {<<p, s>>}]
  <2>1. /\ r \in Request
        /\ r.late = FALSE
        /\ r.op = "edit"
        /\ r.key = None
    <3>1. {<<p, s>>} \in SUBSET (Products \X Nat)
      BY OrdersAssumption, StoreAssumption
    <3> QED BY <3>1, NoReqType DEF NoReq, Request, Ops
  <2> HIDE DEF r
  <2>2. PICK place \in {"reply", "invalidate", "edit"}, ls \in {{}, {<<p, s>>}} :
          /\ Start(w, r, place, ls)
          /\ IF place = "reply" THEN reply' = [reply EXCEPT ![w] = "404"] ELSE reply' = reply
    BY <1>4 DEF StartEdit, r
  <2>3. /\ pc'[w] = place
        /\ req'[w] = r
        /\ place = "reply" => reply'[w] = "404"
    BY <1>1, <2>2 DEF Start, TypeOK
  <2>4. Knows(w)'
    <3>1. req'[w].op = "edit" /\ ~ req'[w].late /\ req'[w].key = None
      BY <2>1, <2>3
    <3>2. TrueAnswer(w)' /\ Settled(w)'
      BY <3>1 DEF TrueAnswer, Settled
    <3> QED BY <2>3, <3>1, <3>2 DEF Knows
  <2>5. reply' = reply \/ reply' = [reply EXCEPT ![w] = "404"]
    BY <2>2
  <2> QED BY <2>1, <2>2, <2>4, <2>5, StartKeeps DEF Places
<1>5. ClientOps \subseteq OrderOps
  BY OrdersAssumption DEF OrderOps
<1> QED BY <1>2, <1>3, <1>4, <1>5 DEF Arrival

LEMMA RespondKeeps ==
    ASSUME IInv, AInv, NEW w \in Tasks, Respond(w)
    PROVE  AInv'
<1>1. TypeOK /\ Forward /\ KeysKept /\ Sweeper \in Tasks
  BY Quiet, QuietKeys DEF IInv, Respond, shared, orderRows, Tasks
<1>2. /\ OthersKeep(w)
      /\ pc'[w] = "idle"
      /\ req'[w] = NoReq
      /\ SweeperNeverPays'
  BY <1>1 DEF Respond, TypeOK, OthersKeep, AInv, SweeperNeverPays
<1> QED BY <1>1, <1>2, TaskStep, Ignorant DEF Respond, shared

LEMMA SaveOrderKeeps ==
    ASSUME IInv, AInv, NEW w \in Tasks, SaveOrder(w)
    PROVE  AInv'
<1>1. /\ TypeOK
      /\ req[w].op = "create"
      /\ Sweeper \in Tasks
      /\ pc' = [pc EXCEPT ![w] = "invalidate"]
      /\ UNCHANGED <<overdue, payKey, paidWith, req, reply>>
  BY DEF IInv, AInv, Knows, SaveOrder, Tasks
<1>2. Forward
  <2>1. PICK o \in OrderIds : status[o] = "absent" /\ status' = [status EXCEPT ![o] = "pending"]
    BY DEF SaveOrder
  <2> QED BY <1>1, <2>1 DEF Forward, Diagram, TypeOK
<1>3. OthersKeep(w) /\ KeysKept /\ pc'[w] = "invalidate" /\ SweeperNeverPays'
  BY <1>1, QuietKeys DEF TypeOK, OthersKeep, AInv, SweeperNeverPays
<1>4. Knows(w)'
  BY <1>1, <1>3 DEF Knows, TrueAnswer, Settled, AInv
<1> QED BY <1>1, <1>2, <1>3, <1>4, TaskStep

LEMMA DedupKeeps ==
    ASSUME IInv, AInv, NEW w \in Tasks, Dedup(w)
    PROVE  AInv'
<1> DEFINE k == req[w].key
           o == req[w].oid
<1>1. /\ TypeOK
      /\ pc[w] = "dedup"
      /\ req[w].op = "pay"
      /\ k \in PaymentIds /\ k # None
      /\ Knows(w)
      /\ w # Sweeper /\ Sweeper \in Tasks
      /\ SweeperNeverPays
      /\ UNCHANGED <<status, overdue, paidWith, req>>
  BY OrdersAssumption DEF IInv, AInv, Dedup, Handler, SweeperNeverPays, Tasks, orderRows
<1>2. Forward
  BY <1>1, Quiet
<1>3. CASE KeyFree(w)
  <2>1. /\ payKey' = [payKey EXCEPT ![k] = o]
        /\ payKey[k] = None
        /\ pc' = [pc EXCEPT ![w] = "check"]
        /\ reply' = reply
    BY <1>3 DEF Dedup, KeyFree
  <2>2. KeysKept /\ payKey'[k] = o
    BY <1>1, <2>1 DEF KeysKept, TypeOK
  <2>3. OthersKeep(w) /\ pc'[w] = "check" /\ SweeperNeverPays'
    BY <1>1, <2>1 DEF OthersKeep, TypeOK, SweeperNeverPays
  <2>4. Knows(w)'
    BY <1>1, <2>2, <2>3 DEF Knows
  <2> QED BY <1>1, <1>2, <2>2, <2>3, <2>4, TaskStep
<1>4. CASE ~ KeyFree(w)
  <2>1. pc' = [pc EXCEPT ![w] = "replay"] /\ UNCHANGED <<payKey, reply>>
    BY <1>4 DEF Dedup
  <2>2. OthersKeep(w) /\ pc'[w] = "replay" /\ SweeperNeverPays'
    BY <1>1, <2>1 DEF OthersKeep, TypeOK, SweeperNeverPays
  <2>3. Knows(w)'
    BY <1>1, <2>2 DEF Knows
  <2> QED BY <1>1, <1>2, <2>1, <2>2, <2>3, TaskStep, QuietKeys
<1> QED BY <1>3, <1>4

(* A replay has a key, so nothing is claimed of its answer. *)
LEMMA ReplayKeeps ==
    ASSUME IInv, AInv, NEW w \in Tasks, Replay(w)
    PROVE  AInv'
<1>1. /\ TypeOK
      /\ req[w].op = "pay" /\ req[w].key # None
      /\ Knows(w)
      /\ SweeperNeverPays
      /\ UNCHANGED <<status, overdue, payKey, paidWith, req>>
  BY OrdersAssumption DEF IInv, AInv, Replay, Handler, shared, orderRows
<1>2. PICK code \in {"200", "409"} : Answer(w, code)
  BY DEF Replay
<1>3. Forward /\ KeysKept
  BY <1>1, Quiet, QuietKeys
<1>4. /\ OthersKeep(w)
      /\ pc'[w] \in {"sweep", "reply"}
      /\ SweeperNeverPays'
  BY <1>1, <1>2, Answering DEF Codes
<1>5. Knows(w)'
  BY <1>1, <1>4 DEF Knows, TrueAnswer, Settled
<1> QED BY <1>1, <1>3, <1>4, <1>5, TaskStep

LEMMA CheckPayableKeeps ==
    ASSUME IInv, AInv, NEW w \in Tasks, CheckPayable(w)
    PROVE  AInv'
<1>1. /\ TypeOK
      /\ pc[w] = "check"
      /\ req[w].op = "pay"
      /\ req[w].oid \in OrderIds
      /\ Knows(w)
      /\ w # Sweeper /\ Sweeper \in Tasks
      /\ SweeperNeverPays
      /\ UNCHANGED <<status, overdue, payKey, paidWith, req>>
  BY DEF IInv, AInv, CheckPayable, Handler, Loaded, SweeperNeverPays, Tasks, shared, orderRows
<1>2. Forward /\ KeysKept
  BY <1>1, Quiet, QuietKeys
<1>3. CASE AlreadyPaid(w)
  <2>1. Answer(w, "200") /\ req[w].seen = "paid"
    BY <1>3 DEF CheckPayable, AlreadyPaid
  <2>2. /\ OthersKeep(w)
        /\ pc'[w] \in {"sweep", "reply"}
        /\ SweeperNeverPays'
    BY <1>1, <2>1, Answering DEF Codes
  <2>3. pc'[w] = "reply" => reply'[w] = "200"
    BY <1>1, <2>1, Answering DEF Codes
  <2>4. Knows(w)'
    BY <1>1, <2>1, <2>2, <2>3 DEF Knows, TrueAnswer
  <2> QED BY <1>1, <1>2, <2>2, <2>4, TaskStep
<1>4. CASE ~ AlreadyPaid(w)
  <2> DEFINE place == IF TooLate(w) THEN "transition" ELSE "update"
  <2>1. pc' = [pc EXCEPT ![w] = place] /\ reply' = reply
    BY <1>4 DEF CheckPayable
  <2>2. place = "update" => req[w].seen # "pending" \/ ~ req[w].late
    BY <1>1 DEF TooLate, Knows
  <2>3. place \in {"transition", "update"}
    OBVIOUS
  <2> HIDE DEF place
  <2>4. OthersKeep(w) /\ pc'[w] = place /\ SweeperNeverPays'
    BY <1>1, <2>1 DEF OthersKeep, TypeOK, SweeperNeverPays
  <2>5. Knows(w)'
    BY <1>1, <2>2, <2>3, <2>4 DEF Knows
  <2> QED BY <1>1, <1>2, <2>4, <2>5, TaskStep
<1> QED BY <1>3, <1>4

(* The UPDATE of a status: an order paid with a key is the one of the key. *)
LEMMA UpdateStatusKeeps ==
    ASSUME IInv, AInv, NEW w \in Tasks, UpdateStatus(w)
    PROVE  AInv'
<1> DEFINE o == req[w].oid
           op == req[w].op
           k == req[w].key
<1>1. /\ TypeOK
      /\ pc[w] = "update"
      /\ op \in {"pay", "ship", "complete"}
      /\ o \in OrderIds
      /\ status[o] = From(op)
      /\ Knows(w)
      /\ w # Sweeper /\ Sweeper \in Tasks
      /\ SweeperNeverPays
  BY DEF IInv, AInv, UpdateStatus, InFrom, Handler, Loaded, SweeperNeverPays, Tasks
<1>2. /\ status' = [status EXCEPT ![o] = Advanced(op)]
      /\ paidWith' = IF op = "pay" THEN [paidWith EXCEPT ![o] = k] ELSE paidWith
      /\ pc' = [pc EXCEPT ![w] = "reload"]
      /\ UNCHANGED <<overdue, payKey, req, reply>>
  BY DEF UpdateStatus
<1>3. /\ <<status[o], Advanced(op)>> \in Diagram
      /\ op = "pay" => Advanced(op) = "paid"
      /\ op = "ship" => Advanced(op) = "shipped"
      /\ op = "complete" => Advanced(op) = "completed"
  BY <1>1 DEF From, Advanced, Diagram
<1>4. Forward /\ KeysKept /\ status'[o] = Advanced(op)
  BY <1>1, <1>2, <1>3, QuietKeys DEF Forward, TypeOK
<1>5. OthersKeep(w) /\ pc'[w] = "reload" /\ SweeperNeverPays'
  BY <1>1, <1>2 DEF OthersKeep, TypeOK, SweeperNeverPays
<1>6. Knows(w)'
  BY <1>1, <1>2, <1>3, <1>4, <1>5 DEF Knows, TrueAnswer, PaidOnce
<1>7. \A v \in Tasks : Knows(v)'
  BY <1>4, <1>5, <1>6, Bystander DEF AInv, OthersKeep
<1>8. KeysBind'
  <2> SUFFICES ASSUME NEW i \in OrderIds, paidWith'[i] # None
               PROVE  payKey'[paidWith'[i]] = i
    BY DEF KeysBind
  <2>1. CASE i = o /\ op = "pay"
    <3>1. paidWith'[i] = k
      BY <1>1, <1>2, <2>1 DEF TypeOK
    <3> QED BY <1>1, <1>2, <2>1, <3>1 DEF Knows
  <2>2. CASE ~ (i = o /\ op = "pay")
    <3>1. paidWith'[i] = paidWith[i]
      BY <1>1, <1>2, <2>2 DEF TypeOK
    <3> QED BY <1>2, <3>1 DEF AInv, KeysBind
  <2> QED BY <2>1, <2>2
<1> QED BY <1>5, <1>7, <1>8 DEF AInv

LEMMA ReloadKeeps ==
    ASSUME IInv, AInv, NEW w \in Tasks, Reload(w)
    PROVE  AInv'
<1>1. /\ TypeOK
      /\ Knows(w) /\ pc[w] = "reload"
      /\ SweeperNeverPays
      /\ Answer(w, "200")
      /\ UNCHANGED <<status, overdue, payKey, paidWith, req>>
  BY DEF IInv, AInv, Reload, shared, orderRows
<1>2. Forward /\ KeysKept
  BY <1>1, Quiet, QuietKeys
<1>3. /\ OthersKeep(w)
      /\ pc'[w] \in {"sweep", "reply"}
      /\ pc'[w] = "reply" => reply'[w] = "200"
      /\ SweeperNeverPays'
  BY <1>1, Answering DEF Codes
<1>4. TrueAnswer(w)'
  BY <1>1 DEF Knows, TrueAnswer
<1>5. Knows(w)'
  BY <1>1, <1>3, <1>4 DEF Knows
<1> QED BY <1>1, <1>2, <1>3, <1>5, TaskStep

LEMMA TransitionKeeps ==
    ASSUME IInv, AInv, NEW w \in Tasks, Transition(w)
    PROVE  AInv'
<1>1. /\ TypeOK
      /\ Sweeper \in Tasks
      /\ pc' = [pc EXCEPT ![w] = "restock"]
      /\ UNCHANGED <<status, overdue, payKey, paidWith, req, reply>>
  BY DEF IInv, Transition, Tasks, shared, orderRows
<1>2. OthersKeep(w) /\ pc'[w] = "restock" /\ SweeperNeverPays'
  BY <1>1 DEF OthersKeep, TypeOK, AInv, SweeperNeverPays
<1>3. Forward /\ KeysKept
  BY <1>1, Quiet, QuietKeys
<1> QED BY <1>1, <1>2, <1>3, TaskStep, Ignorant

LEMMA CommitRestockKeeps ==
    ASSUME IInv, AInv, NEW w \in Tasks, CommitRestock(w)
    PROVE  AInv'
<1> DEFINE o == req[w].oid
           op == req[w].op
<1>1. /\ TypeOK
      /\ o \in OrderIds
      /\ op \in {"pay", "cancel", "refund", "sweep"}
      /\ status[o] = From(op)
      /\ Knows(w)
      /\ Sweeper \in Tasks
  BY DEF IInv, AInv, CommitRestock, Handler, Loaded, Restocking, Tasks
<1>2. /\ status' = [status EXCEPT ![o] = Withdrawn(op)]
      /\ pc' = [pc EXCEPT ![w] = "invalidate"]
      /\ UNCHANGED <<overdue, payKey, paidWith, req, reply>>
  BY DEF CommitRestock
<1>3. <<status[o], Withdrawn(op)>> \in Diagram
  BY <1>1 DEF From, Withdrawn, Diagram
<1>4. Forward /\ KeysKept /\ status'[o] = Withdrawn(op)
  BY <1>1, <1>2, <1>3, QuietKeys DEF Forward, TypeOK
<1>5. OthersKeep(w) /\ pc'[w] = "invalidate" /\ SweeperNeverPays'
  BY <1>1, <1>2 DEF OthersKeep, TypeOK, AInv, SweeperNeverPays
<1>6. req'[w] = req[w]
  BY <1>2
<1>7. op # "pay" => TrueAnswer(w)'
  BY <1>1, <1>4, <1>6 DEF TrueAnswer
<1>8. Settled(w)'
  BY <1>1, <1>4, <1>6 DEF Settled, Withdrawn
<1>9. Knows(w)'
  BY <1>1, <1>2, <1>5, <1>6, <1>7, <1>8 DEF Knows
<1> QED BY <1>2, <1>4, <1>5, <1>9, TaskStep

LEMMA WriteStockKeeps ==
    ASSUME IInv, AInv, NEW w \in Tasks, WriteStock(w)
    PROVE  AInv'
<1>1. /\ TypeOK
      /\ Knows(w)
      /\ req[w].op = "edit"
      /\ Sweeper \in Tasks
      /\ pc' = [pc EXCEPT ![w] = "invalidate"]
      /\ UNCHANGED <<status, overdue, payKey, paidWith, req, reply>>
  BY DEF IInv, AInv, Knows, WriteStock, Tasks, orderRows
<1>2. OthersKeep(w) /\ pc'[w] = "invalidate" /\ SweeperNeverPays'
  BY <1>1 DEF OthersKeep, TypeOK, AInv, SweeperNeverPays
<1>3. Forward /\ KeysKept
  BY <1>1, Quiet, QuietKeys
<1>4. Knows(w)'
  BY <1>1, <1>2 DEF Knows, TrueAnswer, Settled
<1> QED BY <1>1, <1>2, <1>3, <1>4, TaskStep

(* The last deletion answers: 200 only after a cancel, a refund or an edit. *)
LEMMA InvalidateDetailKeeps ==
    ASSUME IInv, AInv, NEW w \in Tasks, InvalidateDetail(w)
    PROVE  AInv'
<1>1. /\ TypeOK
      /\ pc[w] = "invalidate"
      /\ Knows(w)
      /\ UNCHANGED <<status, overdue, payKey, paidWith, req>>
  BY DEF IInv, AInv, InvalidateDetail, orderRows
<1>2. CASE UNCHANGED <<pc, reply>>
  BY <1>1, <1>2, SilentStep
<1>3. CASE Answer(w, FinalCode(req[w].op))
  <2> DEFINE code == FinalCode(req[w].op)
  <2>1. /\ code \in Codes
        /\ req[w].op = "pay" => code # "200"
    BY DEF FinalCode, Codes
  <2> HIDE DEF code
  <2>2. /\ OthersKeep(w)
        /\ pc'[w] \in {"sweep", "reply"}
        /\ pc'[w] = "reply" => reply'[w] = code
        /\ SweeperNeverPays'
    BY <1>1, <1>3, <2>1, Answering DEF AInv, code
  <2>3. Forward /\ KeysKept
    BY <1>1, Quiet, QuietKeys
  <2>4. Knows(w)'
    BY <1>1, <2>1, <2>2 DEF Knows, TrueAnswer, Settled
  <2> QED BY <1>1, <2>2, <2>3, <2>4, TaskStep
<1> QED BY <1>2, <1>3 DEF InvalidateDetail

LEMMA SweepKeeps ==
    ASSUME IInv, AInv, SweepStep
    PROVE  AInv'
<1>1. TypeOK /\ Sweeper \in Tasks /\ Knows(Sweeper)
  BY DEF IInv, AInv, Tasks
<1>2. /\ UNCHANGED <<status, overdue, payKey, paidWith, reply>>
      /\ Forward /\ KeysKept
  BY Quiet, QuietKeys DEF SweepStep, Scan, SweepNext, SweepEnd, shared, orderRows
<1>3. \/ pc' = [pc EXCEPT ![Sweeper] = "sweep"] /\ req' = req
      \/ pc' = [pc EXCEPT ![Sweeper] = "idle"] /\ req' = [req EXCEPT ![Sweeper] = NoReq]
      \/ /\ pc' = [pc EXCEPT ![Sweeper] = "transition"]
         /\ \E o \in batch :
              req' = [req EXCEPT ![Sweeper] = [NoReq EXCEPT !.op = "sweep", !.oid = o,
                                                            !.lines = items[o]]]
  BY DEF SweepStep, Scan, SweepNext, SweepEnd
<1>4. /\ NoReq.late = FALSE
      /\ \A o : [NoReq EXCEPT !.op = "sweep", !.oid = o, !.lines = items[o]].late = FALSE
  BY DEF NoReq
<1>5. req' = req \/ \E r : r.late = FALSE /\ req' = [req EXCEPT ![Sweeper] = r]
  BY <1>3, <1>4
<1>6. /\ OthersKeep(Sweeper)
      /\ pc'[Sweeper] \in {"sweep", "idle", "transition"}
      /\ req'[Sweeper] = req[Sweeper] \/ req'[Sweeper].late = FALSE
  BY <1>1, <1>2, <1>3, <1>5 DEF OthersKeep, TypeOK
<1>7. Knows(Sweeper)' /\ SweeperNeverPays'
  BY <1>1, <1>2, <1>6 DEF Knows, SweeperNeverPays
<1> QED BY <1>1, <1>2, <1>6, <1>7, TaskStep

LEMMA TimePassesKeeps ==
    ASSUME IInv, AInv, NEW o \in OrderIds, TimePasses(o)
    PROVE  AInv'
<1>1. /\ Sweeper \in Tasks
      /\ Forward /\ KeysKept
      /\ UNCHANGED <<pc, req, reply, paidWith>>
  BY DEF TimePasses, Forward, KeysKept, Tasks, handler, orderRows
<1>2. OthersKeep(Sweeper) /\ SweeperNeverPays'
  BY <1>1 DEF OthersKeep, AInv, SweeperNeverPays
<1>3. Knows(Sweeper)'
  BY <1>1, Bystander DEF AInv
<1> QED BY <1>1, <1>2, <1>3, TaskStep

(* No request is between its SET and its UPDATE, so nobody relies on the key. *)
LEMMA PaymentKeyExpiresKeeps ==
    ASSUME IInv, AInv, NEW k \in PaymentIds, PaymentKeyExpires(k)
    PROVE  AInv'
<1>1. /\ TypeOK
      /\ SweeperNeverPays
      /\ \A w \in Workers : pc[w] \in {"check", "update"} => req[w].key # k
      /\ payKey' = [payKey EXCEPT ![k] = None]
      /\ paidWith' = [o \in OrderIds |-> IF paidWith[o] = k THEN None ELSE paidWith[o]]
      /\ UNCHANGED <<status, overdue, pc, req, reply>>
  BY DEF IInv, AInv, PaymentKeyExpires, handler, orderRows
<1>2. ASSUME NEW w \in Tasks PROVE Knows(w)'
  <2>1. /\ Knows(w)
        /\ w = Sweeper \/ (pc[w] \in {"check", "update"} => req[w].key # k)
        /\ req[w].key \in PaymentIds \cup {None}
    BY <1>1 DEF AInv, Tasks, TypeOK, Request
  <2>2. (TrueAnswer(w) => TrueAnswer(w)') /\ (Settled(w) => Settled(w)')
    BY <1>1 DEF TrueAnswer, Settled
  <2>3. pc[w] \in {"check", "update"} /\ req[w].key # None => payKey'[req[w].key] = req[w].oid
    BY <1>1, <2>1 DEF Knows, TypeOK, SweeperNeverPays
  <2> QED BY <1>1, <2>1, <2>2, <2>3 DEF Knows
<1>3. KeysBind'
  <2> SUFFICES ASSUME NEW o \in OrderIds, paidWith'[o] # None
               PROVE  payKey'[paidWith'[o]] = o
    BY DEF KeysBind
  <2>1. paidWith'[o] = paidWith[o] /\ paidWith[o] # k /\ paidWith[o] # None
    BY <1>1
  <2>2. paidWith[o] \in PaymentIds /\ payKey[paidWith[o]] = o
    BY <1>1, <2>1 DEF AInv, KeysBind, TypeOK
  <2> QED BY <1>1, <2>1, <2>2 DEF TypeOK
<1>4. SweeperNeverPays'
  BY <1>1 DEF SweeperNeverPays
<1> QED BY <1>2, <1>3, <1>4 DEF AInv

-----------------------------------------------------------------------------
(* The invariant *)

LEMMA InitAInv == Init => AInv
  BY DEF Init, AInv, Knows, KeysBind, SweeperNeverPays, NoReq, Tasks

LEMMA NextAInv == IInv /\ AInv /\ [Next]_vars => AInv'
<1> SUFFICES ASSUME IInv, AInv, [Next]_vars PROVE AInv'
  OBVIOUS
<1>1. Sweeper \in Tasks
  BY DEF Tasks
<1>2. CASE UNCHANGED vars
  BY <1>1, <1>2, SilentStep DEF vars, shared, orderRows, handler
<1>3. ASSUME NEW w \in Tasks, Step(w) PROVE AInv'
  <2>1. CASE Deduct(w) \/ AddStock(w)
    BY <2>1, SilentStep DEF Deduct, AddStock, shared, orderRows
  <2>2. CASE DeductRefused(w) \/ UpdateRefused(w) \/ TransitionRefused(w)
    <3>1. \E code \in Codes \ {"200"} : Refuse(w, code)
      BY <2>2 DEF DeductRefused, UpdateRefused, TransitionRefused, Codes
    <3>2. Settled(w)
      <4>1. CASE DeductRefused(w)
        BY <4>1 DEF DeductRefused, AInv, Knows, Settled
      <4>2. CASE UpdateRefused(w) \/ TransitionRefused(w)
        BY <4>2 DEF UpdateRefused, TransitionRefused, InFrom, From, IInv, Handler, Loaded, Settled
      <4> QED BY <2>2, <4>1, <4>2
    <3> QED BY <3>1, <3>2, RefuseKeeps
  <2>3. CASE SaveViolatesUnique(w) \/ AddStockOverflows(w)
    BY <2>3, AbortKeeps DEF SaveViolatesUnique, AddStockOverflows
  <2> QED BY <1>3, <2>1, <2>2, <2>3, RespondKeeps, SaveOrderKeeps, DedupKeeps,
             ReplayKeeps, ReloadKeeps, CheckPayableKeeps, UpdateStatusKeeps,
             TransitionKeeps, CommitRestockKeeps,
             WriteStockKeeps, InvalidateDetailKeeps DEF Step
<1>4. ASSUME NEW w \in Tasks, DeadlockVictim(w) \/ Fault(w) PROVE AInv'
  BY <1>4, AbortKeeps DEF DeadlockVictim, Fault
<1>5. ASSUME NEW p \in Products, NEW s \in StockEdits, CreateProduct(p, s) PROVE AInv'
  BY <1>1, <1>5, SilentStep DEF CreateProduct, orderRows, handler
<1> QED BY <1>2, <1>3, <1>4, <1>5, ArrivalKeeps, SweepKeeps, TimePassesKeeps,
           PaymentKeyExpiresKeeps DEF Next

LEMMA Answers == Spec => [](IInv /\ AInv)
  BY InitIInv, NextIInv, InitAInv, NextAInv, PTL DEF Spec

(* A 200 is true when it is sent, whatever ran since the handler loaded the *)
(* order, but for a pay with payment_id (service.py).                       *)
THEOREM SuccessIsTrue == Spec => []SuccessMeansDone
<1>1. IInv /\ AInv => SuccessMeansDone
  <2> SUFFICES ASSUME AInv, NEW w \in Workers, pc[w] = "reply", reply[w] = "200"
               PROVE  LET now == status[req[w].oid]
                      IN CASE req[w].op = "cancel" -> now = "cancelled"
                           [] req[w].op = "refund" -> now = "refunded"
                           [] req[w].op = "ship" -> now \in {"shipped", "completed"}
                           [] req[w].op = "complete" -> now = "completed"
                           [] req[w].op = "pay" /\ req[w].key = None ->
                                  now \in {"paid", "shipped", "completed", "refunded"}
                           [] OTHER -> TRUE
    BY DEF SuccessMeansDone
  <2>1. TrueAnswer(w)
    BY DEF AInv, Knows, Tasks
  <2> QED BY <2>1 DEF TrueAnswer, Withdrawn, PaidOnce
<1> QED BY <1>1, Answers, PTL

(* A 409 to a cancel, or to a pay without payment_id, is final: its order   *)
(* has left pending for good (the conditional UPDATEs of service.py).       *)
THEOREM RefusalIsFinal == Spec => []RefusalsAreFinal
<1>1. IInv /\ AInv => RefusalsAreFinal
  <2> SUFFICES ASSUME AInv, NEW w \in Workers, pc[w] = "reply", reply[w] = "409",
                      req[w].op = "cancel" \/ (req[w].op = "pay" /\ req[w].key = None)
               PROVE  status[req[w].oid] \notin {"absent", "pending"}
    BY DEF RefusalsAreFinal
  <2> QED BY DEF AInv, Knows, Tasks, Settled
<1> QED BY <1>1, Answers, PTL

(* While its key lives a payment_id pays one order (the SETNX of pay_order). *)
THEOREM OneOrderPerPaymentId == Spec => []PaymentIdBindsOneOrder
<1>1. AInv => PaymentIdBindsOneOrder
  BY DEF AInv, KeysBind, PaymentIdBindsOneOrder
<1> QED BY <1>1, Answers, PTL

(* A status that turns from pending to paid is the UPDATE of a pay_order.   *)
LEMMA PaidByPay ==
    ASSUME IInv, NEW o \in OrderIds, status[o] = "pending", status'[o] = "paid", [Next]_vars
    PROVE  \E v \in Tasks : UpdateStatus(v) /\ req[v].op = "pay" /\ req[v].oid = o
<1>1. TypeOK
  BY DEF IInv
<1>2. status' # status
  OBVIOUS
<1>3. ~ UNCHANGED vars
  BY <1>2 DEF vars, shared, orderRows
<1>4. ASSUME NEW w \in Workers, Arrival(w) PROVE FALSE
  <2>1. \A r, place, ls : Start(w, r, place, ls) => status' = status
    BY DEF Start, shared, orderRows
  <2>2. \A u, b : StartCreate(w, u, b) => status' = status
    BY <2>1 DEF StartCreate
  <2>3. \A u, op, i, k : StartOrderOp(w, u, op, i, k) => status' = status
    BY <2>1 DEF StartOrderOp
  <2>4. \A u, p, s : StartEdit(w, u, p, s) => status' = status
    BY <2>1 DEF StartEdit
  <2> QED BY <1>2, <1>4, <2>2, <2>3, <2>4 DEF Arrival
<1>5. ASSUME NEW w \in Tasks, Step(w) PROVE UpdateStatus(w) /\ req[w].op = "pay" /\ req[w].oid = o
  <2>1. CASE SaveOrder(w)
    <3>1. \E i \in OrderIds : status[i] = "absent" /\ status' = [status EXCEPT ![i] = "pending"]
      BY <2>1 DEF SaveOrder
    <3> QED BY <1>1, <3>1 DEF TypeOK
  <2>2. CASE CommitRestock(w)
    <3>1. /\ status' = [status EXCEPT ![req[w].oid] = Withdrawn(req[w].op)]
          /\ Withdrawn(req[w].op) # "paid"
      BY <2>2 DEF CommitRestock, Withdrawn
    <3> QED BY <1>1, <3>1 DEF TypeOK
  <2>3. CASE UpdateStatus(w)
    <3>1. /\ status' = [status EXCEPT ![req[w].oid] = Advanced(req[w].op)]
          /\ req[w].op \in {"pay", "ship", "complete"}
      BY <2>3 DEF UpdateStatus, IInv, Handler
    <3>2. req[w].oid = o /\ Advanced(req[w].op) = "paid"
      BY <1>1, <3>1 DEF TypeOK
    <3> QED BY <2>3, <3>1, <3>2 DEF Advanced
  <2>4. CASE ~ (SaveOrder(w) \/ CommitRestock(w) \/ UpdateStatus(w))
    BY <1>2, <1>5, <2>4
       DEF Step, Respond, Deduct, DeductRefused, SaveViolatesUnique, Dedup, Replay,
           CheckPayable, Reload, UpdateRefused, Transition, TransitionRefused,
           AddStock, AddStockOverflows,
           WriteStock, InvalidateDetail, Refuse, Abort, shared, orderRows
  <2> QED BY <2>1, <2>2, <2>3, <2>4
<1>6. ASSUME NEW w \in Tasks, DeadlockVictim(w) \/ Fault(w) PROVE FALSE
  BY <1>2, <1>6 DEF DeadlockVictim, Fault, Abort, orderRows
<1>7. ~ SweepStep
  BY <1>2 DEF SweepStep, Scan, SweepNext, SweepEnd, shared, orderRows
<1>8. /\ ~ \E p \in Products, s \in StockEdits : CreateProduct(p, s)
      /\ ~ \E i \in OrderIds : TimePasses(i)
      /\ ~ \E k \in PaymentIds : PaymentKeyExpires(k)
  BY <1>2 DEF CreateProduct, TimePasses, PaymentKeyExpires, orderRows
<1> QED BY <1>3, <1>4, <1>5, <1>6, <1>7, <1>8 DEF Next

(* A pay request that came after the deadline never makes the order paid:   *)
(* its order was not pending when it was loaded, and no order returns there. *)
THEOREM LatePayment == Spec => LatePaymentRefused
<1>1. IInv /\ AInv /\ [Next]_vars =>
        [\A o \in OrderIds : status[o] = "pending" /\ status'[o] = "paid" =>
           \A w \in Workers : pc[w] = "update" /\ pc'[w] = "reload" => ~req[w].late]_vars
  <2> SUFFICES ASSUME IInv, AInv, [Next]_vars,
                      NEW o \in OrderIds, status[o] = "pending", status'[o] = "paid",
                      NEW w \in Workers, pc[w] = "update", pc'[w] = "reload"
               PROVE  ~ req[w].late
    OBVIOUS
  <2>1. PICK v \in Tasks : UpdateStatus(v) /\ req[v].op = "pay" /\ req[v].oid = o
    BY PaidByPay
  <2>2. TypeOK /\ w \in Tasks
    BY DEF IInv, Tasks
  <2>3. w = v
    <3>1. OthersKeep(v)
      BY <2>1, <2>2 DEF UpdateStatus, OthersKeep, TypeOK
    <3> QED BY <2>2, <3>1 DEF OthersKeep
  <2> QED BY <2>1, <2>2, <2>3 DEF AInv, Knows
<1> QED BY <1>1, Answers, PTL DEF Spec, LatePaymentRefused

-----------------------------------------------------------------------------
(* Deleting the detail keys of what was committed *)

(* update_product still owes the key of the product it is about to write. *)
EditsOwe == \A w \in Tasks : pc[w] = "edit" => cur[w] \in todo[w]

DInv == ChangesAreInvalidated /\ EditsOwe

(* Of what DInv speaks about, a step of w changes only w's part. *)
OthersOwe(w) ==
    \A v \in Tasks \ {w} : pc'[v] = pc[v] /\ todo'[v] = todo[v] /\ cur'[v] = cur[v]

(* A step of a task that owes nothing, or that pays what it gives up.       *)
LEMMA OwingStep ==
    ASSUME IInv, DInv, NEW w \in Tasks, OthersOwe(w),
           pc'[w] = "edit" => cur'[w] \in todo'[w],
           \A p \in dirty' :
               \/ p \in dirty /\ (pc[w] # "invalidate" \/ \A l \in todo[w] : l[1] # p)
               \/ pc'[w] = "invalidate" /\ \E l \in todo'[w] : l[1] = p
    PROVE  DInv'
<1>1. EditsOwe'
  BY DEF DInv, EditsOwe, OthersOwe
<1>2. ASSUME NEW p \in dirty'
      PROVE  \E v \in Tasks : pc'[v] = "invalidate" /\ \E l \in todo'[v] : l[1] = p
  <2>1. CASE pc'[w] = "invalidate" /\ \E l \in todo'[w] : l[1] = p
    BY <2>1
  <2>2. CASE p \in dirty /\ (pc[w] # "invalidate" \/ \A l \in todo[w] : l[1] # p)
    <3>1. PICK v \in Tasks : pc[v] = "invalidate" /\ \E l \in todo[v] : l[1] = p
      BY <2>2 DEF DInv, ChangesAreInvalidated
    <3>2. v # w
      BY <2>2, <3>1
    <3> QED BY <3>1, <3>2 DEF OthersOwe
  <2> QED BY <2>1, <2>2
<1> QED BY <1>1, <1>2 DEF DInv, ChangesAreInvalidated

LEMMA RefuseOwes ==
    ASSUME IInv, DInv, NEW w \in Tasks, NEW code \in Codes, Refuse(w, code),
           pc[w] # "invalidate"
    PROVE  DInv'
<1>1. TypeOK /\ NoLoop(w) /\ Answer(w, code) /\ dirty' = dirty
  BY DEF IInv, Refuse, shared
<1>2. OthersOwe(w) /\ pc'[w] # "edit"
  BY <1>1, NoLoopType, AnswerType DEF OthersOwe
<1> QED BY <1>1, <1>2, OwingStep

(* Whoever breaks after its commit leaves the keys to their TTL. *)
LEMMA AbortOwes ==
    ASSUME IInv, DInv, NEW w \in Tasks, Abort(w)
    PROVE  DInv'
<1>1. /\ TypeOK
      /\ NoLoop(w)
      /\ dirty' = IF pc[w] = "invalidate" THEN dirty \ {l[1] : l \in todo[w]} ELSE dirty
      /\ pc' = [pc EXCEPT ![w] = "idle"] \/ pc' = [pc EXCEPT ![w] = "reply"]
  BY DEF IInv, Abort
<1>2. OthersOwe(w) /\ pc'[w] # "edit"
  BY <1>1, NoLoopType DEF OthersOwe, TypeOK
<1>3. \A p \in dirty' : p \in dirty /\ (pc[w] # "invalidate" \/ \A l \in todo[w] : l[1] # p)
  BY <1>1
<1> QED BY <1>2, <1>3, OwingStep

(* What a commit changed is among the lines the handler owes. *)
LEMMA CommitOwes ==
    ASSUME IInv, DInv, NEW w \in Tasks, SaveOrder(w) \/ CommitRestock(w)
    PROVE  DInv'
<1>1. /\ TypeOK
      /\ pc[w] # "invalidate"
      /\ CommitStock(w)
      /\ pc' = [pc EXCEPT ![w] = "invalidate"]
      /\ todo' = [todo EXCEPT ![w] = req[w].lines]
      /\ cur' = cur
      /\ req[w].lines \in SUBSET (Products \X Nat)
  BY DEF IInv, SaveOrder, CommitRestock, Owed, TypeOK, Request
<1>2. OthersOwe(w) /\ pc'[w] = "invalidate" /\ todo'[w] = req[w].lines
  BY <1>1 DEF OthersOwe, TypeOK
<1>3. ASSUME NEW p \in Products, delta[w][p] # 0
      PROVE  \E l \in req[w].lines : l[1] = p
  <2>1. /\ todo[w] = {}
        /\ \/ delta[w][p] = Qty(todo[w], p) - Qty(req[w].lines, p)
           \/ delta[w][p] = Qty(req[w].lines, p) - Qty(todo[w], p)
    BY DEF IInv, SaveOrder, CommitRestock, Handler, Deducting, Restocking
  <2>2. Qty(req[w].lines, p) # 0
    BY <1>3, <2>1, QtyEmpty
  <2>3. PICK q \in 1..MaxQty : <<p, q>> \in req[w].lines
    BY <2>2 DEF Qty
  <2>4. <<p, q>>[1] = p
    OBVIOUS
  <2> QED BY <2>3, <2>4
<1>4. \A p \in dirty' : p \in dirty \/ \E l \in todo'[w] : l[1] = p
  BY <1>1, <1>2, <1>3 DEF CommitStock
<1> QED BY <1>1, <1>2, <1>4, OwingStep

LEMMA ArrivalOwes ==
    ASSUME IInv, DInv, NEW w \in Workers, Arrival(w)
    PROVE  DInv'
<1>1. TypeOK /\ w \in Tasks
  BY DEF IInv, Tasks
<1>2. ASSUME NEW r, NEW place, NEW ls \in SUBSET (Products \X Nat),
             Start(w, r, place, ls), place = "edit" => ls # {}
      PROVE  DInv'
  <2>1. /\ pc[w] = "idle"
        /\ pc' = [pc EXCEPT ![w] = place]
        /\ Loop(w, ls)
        /\ dirty' = dirty
    BY <1>2 DEF Start, shared
  <2>2. OthersOwe(w) /\ (pc'[w] = "edit" => cur'[w] \in todo'[w])
    BY <1>1, <1>2, <2>1, LoopType DEF OthersOwe, TypeOK
  <2> QED BY <1>1, <2>1, <2>2, OwingStep
<1>3. ASSUME NEW u \in Users, NEW b \in Baskets, StartCreate(w, u, b)
      PROVE  DInv'
  <2>1. b \in SUBSET (Products \X Nat) /\ \E r : Start(w, r, "deduct", b)
    BY <1>3, LinesType, OrdersAssumption DEF StartCreate
  <2> QED BY <1>2, <2>1
<1>4. ASSUME NEW u, NEW op \in OrderOps, NEW o, NEW k, StartOrderOp(w, u, op, o, k)
      PROVE  DInv'
  <2>1. \E r : Start(w, r, FirstPlace(op, k), {}) \/ Start(w, r, "reply", {})
    BY <1>4 DEF StartOrderOp
  <2>2. FirstPlace(op, k) # "edit"
    BY DEF FirstPlace, OrderOps
  <2> QED BY <1>2, <2>1, <2>2
<1>5. ASSUME NEW u, NEW p \in Products, NEW s \in StockEdits, StartEdit(w, u, p, s)
      PROVE  DInv'
  <2>1. {<<p, s>>} \in SUBSET (Products \X Nat) /\ {<<p, s>>} # {}
    BY OrdersAssumption, StoreAssumption
  <2>2. \E r, place : Start(w, r, place, {<<p, s>>}) \/ Start(w, r, "reply", {})
    BY <1>5 DEF StartEdit
  <2> QED BY <1>2, <2>1, <2>2
<1>6. ClientOps \subseteq OrderOps
  BY OrdersAssumption DEF OrderOps
<1> QED BY <1>3, <1>4, <1>5, <1>6 DEF Arrival

LEMMA StepOwes ==
    ASSUME IInv, DInv, NEW w \in Tasks, Step(w)
    PROVE  DInv'
<1>1. TypeOK /\ DInv
  BY DEF IInv
<1>2. CASE Deduct(w) \/ AddStock(w) \/ Transition(w)
  <2>1. PICK ls \in SUBSET (Products \X Nat) : Loop(w, ls)
    <3>1. /\ todo[w] \ {cur[w]} \in SUBSET (Products \X Nat)
          /\ req[w].lines \in SUBSET (Products \X Nat)
      BY <1>1 DEF TypeOK, Request
    <3> QED BY <1>2, <3>1 DEF Deduct, AddStock, Transition
  <2>2. /\ pc[w] # "invalidate"
        /\ pc' = pc \/ pc' = [pc EXCEPT ![w] = "restock"]
        /\ pc[w] # "edit"
        /\ dirty' = dirty
    BY <1>2 DEF Deduct, AddStock, Transition, shared
  <2>3. OthersOwe(w) /\ pc'[w] # "edit"
    BY <1>1, <2>1, <2>2, LoopType DEF OthersOwe, TypeOK
  <2> QED BY <2>2, <2>3, OwingStep
<1>3. CASE DeductRefused(w) \/ UpdateRefused(w) \/ TransitionRefused(w)
  BY <1>3, RefuseOwes DEF DeductRefused, UpdateRefused, TransitionRefused, Codes
<1>4. CASE SaveViolatesUnique(w) \/ AddStockOverflows(w)
  BY <1>4, AbortOwes DEF SaveViolatesUnique, AddStockOverflows
<1>5. CASE SaveOrder(w) \/ CommitRestock(w)
  BY <1>5, CommitOwes
<1>6. CASE \/ Respond(w) \/ Dedup(w) \/ Replay(w) \/ CheckPayable(w)
           \/ UpdateStatus(w) \/ Reload(w)
  <2>1. /\ pc[w] # "invalidate"
        /\ UNCHANGED <<todo, cur, dirty>>
        /\ \/ \E place \in {"idle", "replay", "check", "transition", "update", "reload"} :
                pc' = [pc EXCEPT ![w] = place]
           \/ \E code \in Codes : Answer(w, code)
    BY <1>6 DEF Respond, Dedup, Replay, CheckPayable, UpdateStatus, Reload, shared, Codes
  <2>2. OthersOwe(w) /\ pc'[w] # "edit"
    BY <1>1, <2>1, AnswerType DEF OthersOwe, TypeOK
  <2> QED BY <2>1, <2>2, OwingStep
<1>7. CASE WriteStock(w)
  <2>1. /\ pc[w] = "edit"
        /\ cur[w] \in todo[w]
        /\ dirty' = dirty \cup {cur[w][1]}
        /\ pc' = [pc EXCEPT ![w] = "invalidate"]
        /\ cur' = [cur EXCEPT ![w] = None]
        /\ todo' = todo
    BY <1>7 DEF WriteStock, DInv, EditsOwe
  <2>2. OthersOwe(w) /\ pc'[w] = "invalidate"
    BY <1>1, <2>1 DEF OthersOwe, TypeOK
  <2> QED BY <2>1, <2>2, OwingStep
<1>8. CASE InvalidateDetail(w)
  <2>1. PICK l \in todo[w] :
          /\ dirty' = dirty \ {l[1]}
          /\ todo' = [todo EXCEPT ![w] = todo[w] \ {l}]
          /\ IF todo[w] = {l} THEN Answer(w, FinalCode(req[w].op)) ELSE UNCHANGED <<pc, reply>>
    BY <1>8 DEF InvalidateDetail
  <2>2. pc[w] = "invalidate" /\ cur' = [cur EXCEPT ![w] = None]
    BY <1>8 DEF InvalidateDetail
  <2>3. FinalCode(req[w].op) \in Codes
    BY DEF FinalCode, Codes
  <2>4. /\ \A v \in Tasks \ {w} : pc'[v] = pc[v]
        /\ pc'[w] # "edit"
        /\ todo[w] # {l} => pc'[w] = "invalidate"
    BY <1>1, <2>1, <2>2, <2>3, AnswerType
  <2>5. OthersOwe(w) /\ todo'[w] = todo[w] \ {l}
    BY <1>1, <2>1, <2>2, <2>4 DEF OthersOwe, TypeOK
  <2>6. ASSUME NEW p \in dirty'
        PROVE  \/ p \in dirty /\ \A m \in todo[w] : m[1] # p
               \/ pc'[w] = "invalidate" /\ \E m \in todo'[w] : m[1] = p
    BY <2>1, <2>4, <2>5
  <2> QED BY <2>4, <2>5, <2>6, OwingStep
<1> QED BY <1>2, <1>3, <1>4, <1>5, <1>6, <1>7, <1>8 DEF Step

LEMMA NextDInv == IInv /\ DInv /\ [Next]_vars => DInv'
<1> SUFFICES ASSUME IInv, DInv, [Next]_vars PROVE DInv'
  OBVIOUS
<1>1. TypeOK /\ Sweeper \in Tasks
  BY DEF IInv, Tasks
<1>2. CASE UNCHANGED <<pc, todo, cur, dirty>>
  BY <1>2 DEF DInv, ChangesAreInvalidated, EditsOwe
<1>3. CASE SweepStep
  <2>1. /\ pc[Sweeper] # "invalidate"
        /\ \E place \in {"idle", "sweep", "transition"} : pc' = [pc EXCEPT ![Sweeper] = place]
        /\ UNCHANGED <<todo, cur, dirty>>
    BY <1>3 DEF SweepStep, Scan, SweepNext, SweepEnd, shared
  <2>2. OthersOwe(Sweeper) /\ pc'[Sweeper] # "edit"
    BY <1>1, <2>1 DEF OthersOwe, TypeOK
  <2> QED BY <1>1, <2>1, <2>2, OwingStep
<1>4. ASSUME NEW w \in Tasks, DeadlockVictim(w) \/ Fault(w) PROVE DInv'
  BY <1>4, AbortOwes DEF DeadlockVictim, Fault
<1>5. /\ UNCHANGED vars => UNCHANGED <<pc, todo, cur, dirty>>
      /\ (\E p \in Products, s \in StockEdits : CreateProduct(p, s))
            => UNCHANGED <<pc, todo, cur, dirty>>
      /\ (\E o \in OrderIds : TimePasses(o)) => UNCHANGED <<pc, todo, cur, dirty>>
      /\ (\E k \in PaymentIds : PaymentKeyExpires(k)) => UNCHANGED <<pc, todo, cur, dirty>>
  BY DEF vars, handler, shared, CreateProduct, TimePasses, PaymentKeyExpires
<1> QED BY <1>2, <1>3, <1>4, <1>5, ArrivalOwes, StepOwes DEF Next

(* A committed change of a product leaves its detail key deleted, or some   *)
(* handler about to delete it (invalidate_product after each commit).       *)
THEOREM KeysAreOwed == Spec => []ChangesAreInvalidated
<1>1. Init => DInv
  BY DEF Init, DInv, ChangesAreInvalidated, EditsOwe, Tasks
<1>2. DInv => ChangesAreInvalidated
  BY DEF DInv
<1> QED BY <1>1, <1>2, InitIInv, NextIInv, NextDInv, PTL DEF Spec
=============================================================================
