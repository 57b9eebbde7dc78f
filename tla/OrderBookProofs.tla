--------------------------- MODULE OrderBookProofs ---------------------------
(***************************************************************************)
(* Units are conserved by the order book, for every value of its           *)
(* constants.  The units an order holds are counted as a set of tokens     *)
(* <<order, i>>, so that no sum over a set of orders is needed.            *)
(***************************************************************************)
EXTENDS OrderBook, TLAPS, FiniteSetTheorems

(* Types of the book, and orders only name products that exist. *)
BookType ==
    /\ status \in [OrderIds -> Statuses \cup {"absent"}]
    /\ items \in [OrderIds -> SUBSET Lines]
    /\ rows \subseteq Products
    /\ stock \in [Products -> Int]
    /\ supply \in [Products -> Int]
    /\ \A o \in OrderIds : status[o] # "absent" => \A l \in items[o] : l[1] \in rows

BookInv == BookType /\ StockConserved

LEMMA QtyRange ==
    ASSUME NEW b, NEW p
    PROVE  Qty(b, p) \in 0..MaxQty /\ Qty(b, p) \in Nat
<1>1. CASE \E q \in 1..MaxQty : <<p, q>> \in b
  <2>1. (CHOOSE q \in 1..MaxQty : <<p, q>> \in b) \in 1..MaxQty
    BY <1>1
  <2> QED BY <1>1, <2>1, StoreAssumption DEF Qty
<1>2. CASE ~ \E q \in 1..MaxQty : <<p, q>> \in b
  BY <1>2, StoreAssumption DEF Qty
<1> QED BY <1>1, <1>2

(* The tokens of one order. *)
LEMMA Tokens ==
    ASSUME NEW o, NEW n \in Nat
    PROVE  IsFiniteSet({o} \X (1..n)) /\ Cardinality({o} \X (1..n)) = n
<1>1. IsFiniteSet({o}) /\ Cardinality({o}) = 1
  BY FS_Singleton
<1>2. IsFiniteSet(1..n) /\ Cardinality(1..n) = n
  BY FS_Interval
<1>3. /\ IsFiniteSet({o} \X (1..n))
      /\ Cardinality({o} \X (1..n)) = Cardinality({o}) * Cardinality(1..n)
  BY <1>1, <1>2, FS_Product
<1> QED BY <1>1, <1>2, <1>3

LEMMA HeldFinite ==
    ASSUME NEW p
    PROVE  IsFiniteSet(Held(p)) /\ Cardinality(Held(p)) \in Nat
<1>1. IsFiniteSet(1..MaxQty)
  BY FS_Interval, StoreAssumption
<1>2. IsFiniteSet(OrderIds \X (1..MaxQty))
  BY <1>1, FS_Product, StoreAssumption
<1>3. Held(p) \in SUBSET (OrderIds \X (1..MaxQty))
  BY DEF Held
<1>4. IsFiniteSet(Held(p))
  BY <1>2, <1>3, FS_Subset
<1> QED BY <1>4, FS_CardinalityType

(* If the tokens of T are n new ones, the number grows by n. *)
LEMMA AddTokens ==
    ASSUME NEW S, IsFiniteSet(S), NEW o, NEW n \in Nat, S \cap ({o} \X (1..n)) = {}
    PROVE  Cardinality(S \cup ({o} \X (1..n))) = Cardinality(S) + n
<1>1. IsFiniteSet({o} \X (1..n)) /\ Cardinality({o} \X (1..n)) = n
  BY Tokens
<1>2. Cardinality(S \cup ({o} \X (1..n)))
        = Cardinality(S) + n - Cardinality(S \cap ({o} \X (1..n)))
  BY <1>1, FS_Union
<1>3. Cardinality(S \cap ({o} \X (1..n))) = 0
  BY FS_EmptySet
<1>4. Cardinality(S) \in Nat
  BY FS_CardinalityType
<1> QED BY <1>2, <1>3, <1>4

LEMMA SamePairs ==
    ASSUME NEW A, NEW B, NEW S \in SUBSET (A \X B), NEW R \in SUBSET (A \X B),
           \A t \in A \X B : t \in S <=> t \in R
    PROVE  S = R
  OBVIOUS

LEMMA PlaceConserves ==
    ASSUME BookInv, NEW o \in OrderIds, NEW u \in Users, NEW b \in SUBSET Lines, Place(o, u, b)
    PROVE  BookInv'
<1>1. /\ status \in [OrderIds -> Statuses \cup {"absent"}]
      /\ status[o] = "absent"
      /\ status' = [status EXCEPT ![o] = "pending"]
      /\ items' = [items EXCEPT ![o] = b]
      /\ items \in [OrderIds -> SUBSET Lines]
  BY DEF BookInv, BookType, Place
<1>2. BookType'
  <2>1. \A p \in Products : stock[p] - Qty(b, p) \in Int
    BY QtyRange DEF BookInv, BookType
  <2> QED BY <1>1, <2>1 DEF BookInv, BookType, Place, Statuses
<1>3. ASSUME NEW p \in Products
      PROVE  stock'[p] + Cardinality(Held(p)') = supply'[p]
  <2> DEFINE n == Qty(b, p)
             T == {o} \X (1..n)
  <2>1. n \in 0..MaxQty /\ n \in Nat
    BY QtyRange
  <2>2. Held(p)' = Held(p) \cup T
    <3>1. \A i \in OrderIds : i # o => status'[i] = status[i] /\ items'[i] = items[i]
      BY <1>1
    <3>2. status'[o] \in Holding /\ items'[o] = b /\ status[o] \notin Holding
      BY <1>1 DEF Holding
    <3> HIDE DEF n
    <3>3. Held(p)' = {t \in OrderIds \X (1..MaxQty) :
                        status'[t[1]] \in Holding /\ t[2] <= Qty(items'[t[1]], p)}
      BY DEF Held, Qty
    <3>4. \A t \in OrderIds \X (1..MaxQty) : t \in Held(p)' <=> t \in Held(p) \cup T
      BY <2>1, <3>1, <3>2, <3>3 DEF Held, n
    <3>5. T \subseteq OrderIds \X (1..MaxQty)
      BY <2>1, StoreAssumption
    <3>6. Held(p)' \subseteq OrderIds \X (1..MaxQty) /\ Held(p) \subseteq OrderIds \X (1..MaxQty)
      BY <3>3 DEF Held
    <3> HIDE DEF T
    <3> QED BY <3>4, <3>5, <3>6, SamePairs
  <2>3. Held(p) \cap T = {}
    BY <1>1 DEF Held, Holding
  <2> HIDE DEF n
  <2>4. Cardinality(Held(p)') = Cardinality(Held(p)) + n
    <3>1. IsFiniteSet(Held(p))
      BY HeldFinite
    <3>2. Cardinality(Held(p) \cup T) = Cardinality(Held(p)) + n
      BY <2>1, <2>3, <3>1, AddTokens
    <3> QED BY <2>2, <3>2
  <2>5. /\ stock'[p] = stock[p] - n
        /\ supply'[p] = supply[p]
        /\ stock[p] + Cardinality(Held(p)) = supply[p]
        /\ stock[p] \in Int
    BY DEF Place, BookInv, BookType, StockConserved, n
  <2> QED BY <2>1, <2>4, <2>5, HeldFinite
<1> QED BY <1>2, <1>3 DEF BookInv, StockConserved

LEMMA WithdrawConserves ==
    ASSUME BookInv, NEW o \in OrderIds, NEW from \in Holding,
           NEW to \in {"cancelled", "refunded"}, Withdraw(o, from, to)
    PROVE  BookInv'
<1>1. /\ status \in [OrderIds -> Statuses \cup {"absent"}]
      /\ status[o] = from
      /\ status' = [status EXCEPT ![o] = to]
      /\ items' = items
      /\ items \in [OrderIds -> SUBSET Lines]
  BY DEF BookInv, BookType, Withdraw
<1>2. BookType'
  <2>1. \A p \in Products : stock[p] + Qty(items[o], p) \in Int
    BY QtyRange DEF BookInv, BookType
  <2> QED BY <1>1, <2>1 DEF BookInv, BookType, Withdraw, Statuses, Holding
<1>3. ASSUME NEW p \in Products
      PROVE  stock'[p] + Cardinality(Held(p)') = supply'[p]
  <2> DEFINE n == Qty(items[o], p)
             T == {o} \X (1..n)
  <2>1. n \in 0..MaxQty /\ n \in Nat
    BY QtyRange
  <2>2. /\ \A i \in OrderIds : i # o => status'[i] = status[i]
        /\ status'[o] \notin Holding /\ status[o] \in Holding
    BY <1>1 DEF Holding
  <2>3. Held(p)' = {t \in OrderIds \X (1..MaxQty) :
                      status'[t[1]] \in Holding /\ t[2] <= Qty(items'[t[1]], p)}
    BY DEF Held, Qty
  <2> HIDE DEF n
  <2>4. Held(p) = Held(p)' \cup T
    <3>1. \A t \in OrderIds \X (1..MaxQty) : t \in Held(p) <=> t \in Held(p)' \cup T
      BY <1>1, <2>1, <2>2, <2>3 DEF Held, n
    <3>2. T \subseteq OrderIds \X (1..MaxQty)
      BY <2>1, StoreAssumption
    <3>3. Held(p)' \subseteq OrderIds \X (1..MaxQty) /\ Held(p) \subseteq OrderIds \X (1..MaxQty)
      BY <2>3 DEF Held
    <3> HIDE DEF T
    <3> QED BY <3>1, <3>2, <3>3, SamePairs
  <2>5. Held(p)' \cap T = {}
    BY <2>2, <2>3
  <2>6. IsFiniteSet(Held(p)') /\ Cardinality(Held(p)') \in Nat
    <3>1. Held(p)' \in SUBSET Held(p)
      BY <2>4
    <3>2. IsFiniteSet(Held(p)')
      BY <3>1, HeldFinite, FS_Subset
    <3> QED BY <3>2, FS_CardinalityType
  <2>7. Cardinality(Held(p)) = Cardinality(Held(p)') + n
    <3>1. ASSUME NEW S, IsFiniteSet(S), S \cap T = {}
          PROVE  Cardinality(S \cup T) = Cardinality(S) + n
      BY <2>1, <3>1, AddTokens
    <3> QED BY <2>4, <2>5, <2>6, <3>1
  <2>8. /\ stock'[p] = stock[p] + n
        /\ supply'[p] = supply[p]
        /\ stock[p] + Cardinality(Held(p)) = supply[p]
        /\ stock[p] \in Int
    BY DEF Withdraw, BookInv, BookType, StockConserved, n
  <2> QED BY <2>1, <2>6, <2>7, <2>8
<1> QED BY <1>2, <1>3 DEF BookInv, StockConserved

LEMMA AdvanceConserves ==
    ASSUME BookInv, NEW o \in OrderIds, NEW from \in Holding, NEW to \in Holding,
           Advance(o, from, to)
    PROVE  BookInv'
<1>1. /\ \A i \in OrderIds : status'[i] \in Holding <=> status[i] \in Holding
      /\ UNCHANGED <<items, rows, stock, supply>>
      /\ BookType'
  BY DEF BookInv, BookType, Advance, Statuses, Holding
<1>2. ASSUME NEW p \in Products PROVE Held(p)' = Held(p)
  <2>1. Held(p)' = {t \in OrderIds \X (1..MaxQty) :
                      status'[t[1]] \in Holding /\ t[2] <= Qty(items'[t[1]], p)}
    BY DEF Held, Qty
  <2> QED BY <1>1, <2>1 DEF Held
<1> QED BY <1>1, <1>2 DEF BookInv, StockConserved

LEMMA ProductConserves ==
    ASSUME BookInv, NEW p \in Products, NEW s \in 0..MaxStock,
           CreateProduct(p, s) \/ SetStock(p, s)
    PROVE  BookInv'
<1>1. s \in Int /\ stock[p] \in Int /\ supply[p] \in Int /\ UNCHANGED <<status, items>>
  BY StoreAssumption DEF BookInv, BookType, CreateProduct, SetStock
<1>2. BookType'
  <2>1. supply[p] + s - stock[p] \in Int
    BY <1>1
  <2> QED BY <1>1, <2>1 DEF BookInv, BookType, CreateProduct, SetStock
<1>3. \A x : Held(x)' = Held(x)
  BY <1>1 DEF Held, Qty
<1>4. ASSUME NEW x \in Products
      PROVE  stock'[x] + Cardinality(Held(x)) = supply'[x]
  <2>1. /\ stock[x] + Cardinality(Held(x)) = supply[x]
        /\ Cardinality(Held(x)) \in Nat
    BY HeldFinite DEF BookInv, StockConserved
  <2>2. CASE x # p
    BY <2>1, <2>2 DEF BookInv, BookType, CreateProduct, SetStock
  <2>3. CASE x = p /\ SetStock(p, s)
    BY <1>1, <2>1, <2>3 DEF BookInv, BookType, SetStock
  <2>4. CASE x = p /\ CreateProduct(p, s)
    <3>1. \A o \in OrderIds : status[o] \in Holding => Qty(items[o], p) = 0
      BY <2>4 DEF BookInv, BookType, CreateProduct, Qty, Holding
    <3>2. Held(p) = {}
      BY <3>1 DEF Held
    <3>3. Cardinality(Held(p)) = 0
      BY <3>2, FS_EmptySet
    <3> QED BY <1>1, <2>4, <3>3 DEF BookInv, BookType, CreateProduct
  <2> QED BY <2>2, <2>3, <2>4
<1> QED BY <1>2, <1>3, <1>4 DEF BookInv, StockConserved

LEMMA BookInitInv == Init => BookInv
<1> SUFFICES ASSUME Init PROVE BookInv
  OBVIOUS
<1>1. BookType
  BY StoreAssumption DEF Init, BookType
<1>2. \A p \in Products : Held(p) = {}
  BY DEF Init, Held, Holding
<1>3. StockConserved
  BY <1>1, <1>2, FS_EmptySet DEF Init, StockConserved, BookType
<1> QED BY <1>1, <1>3 DEF BookInv

LEMMA BookNextInv == BookInv /\ [Next]_vars => BookInv'
<1> SUFFICES ASSUME BookInv, [Next]_vars PROVE BookInv'
  OBVIOUS
<1>1. CASE UNCHANGED vars
  BY <1>1 DEF BookInv, BookType, StockConserved, Held, Qty, vars
<1>2. CASE \E p \in Products, s \in 0..MaxStock : CreateProduct(p, s) \/ SetStock(p, s)
  BY <1>2, ProductConserves
<1>3. CASE \E o \in OrderIds, u \in Users, b \in SUBSET Lines : Place(o, u, b)
  BY <1>3, PlaceConserves
<1>4. CASE \E o \in OrderIds :
             \/ Advance(o, "pending", "paid")
             \/ Advance(o, "paid", "shipped")
             \/ Advance(o, "shipped", "completed")
  BY <1>4, AdvanceConserves DEF Holding
<1>5. CASE \E o \in OrderIds :
             Withdraw(o, "pending", "cancelled") \/ Withdraw(o, "paid", "refunded")
  BY <1>5, WithdrawConserves DEF Holding
<1> QED BY <1>1, <1>2, <1>3, <1>4, <1>5 DEF Next

(* Whatever operations the book performs, units are neither lost nor made.  *)
THEOREM Conservation == Spec => []StockConserved
<1>1. BookInv => StockConserved
  BY DEF BookInv
<1> QED BY <1>1, BookInitInv, BookNextInv, PTL DEF Spec
=============================================================================
