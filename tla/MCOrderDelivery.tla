-------------------------- MODULE MCOrderDelivery --------------------------
(* OrderDelivery on a small instance: one order, two couriers and two      *)
(* requests in flight, so that two claims race each other, a merchant      *)
(* races a courier and one courier's two updates overlap.  The couriers    *)
(* are alike: it is enough that one of them may delete the account.        *)
EXTENDS OrderDelivery

CONSTANTS o1, c1, c2, s1, s2

OrderIds == {o1}
CourierIds == {c1, c2}
Slots == {s1, s2}
LeavingIds == {c1}
=============================================================================
