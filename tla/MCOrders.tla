------------------------------ MODULE MCOrders ------------------------------
(* Small instances of Orders for TLC. *)
EXTENDS OrdersInv, TLC

CONSTANTS p1, p2

(* A product named twice, with different quantities: the order is refused. *)
TwiceBaskets == {{<<p1, 1>>}, {<<p1, 1>>, <<p1, 2>>}, {<<p1, 2>>}}

(* Every order takes both products, so two of them may lock in opposite order. *)
BothProducts == {{<<p1, 1>>, <<p2, 1>>}}

OneProduct == {{<<p1, 1>>}}

Symmetry == Permutations(Workers) \cup Permutations(OrderIds) \cup Permutations(PaymentIds)
=============================================================================
