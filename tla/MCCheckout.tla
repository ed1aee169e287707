----------------------------- MODULE MCCheckout -----------------------------
(* Checkout on a small instance: two products, two requests in flight, and *)
(* carts that race for one unit, list a product twice, or list the two     *)
(* products in opposite orders.                                            *)
EXTENDS Checkout

CONSTANTS p1, p2, s1, s2

ProductIds == {p1, p2}
Slots == {s1, s2}

Some(p, n) == [product |-> p, quantity |-> n]

CartsTried ==
    {<<Some(p1, 1), Some(p1, 1)>>, <<Some(p1, 1), Some(p2, 1)>>,
     <<Some(p2, 1), Some(p1, 1)>>}

AmountsTried == {0, 2}

PortionsTried == 0..2
=============================================================================
