---------------------------- MODULE Reservation ----------------------------
(***************************************************************************)
(* What Inventory promises Order about one stock reservation: a receipt    *)
(* per order that is held at most once and finished at most once.  The     *)
(* Order-side modules (Checkout, PaymentOutcome) are written against this  *)
(* promise; Inventory is shown to implement it.                            *)
(*                                                                         *)
(* "none" is an order Inventory has never heard of (its HTTP answer is     *)
(* 404).  A release of such an order leaves a tombstone, so a Reserve that *)
(* was delayed on the network can never hold stock afterwards.             *)
(***************************************************************************)
CONSTANT Orders

VARIABLE receipt

Statuses == {"none", "held", "committed", "released", "expired"}

ReceiptTypeOK == receipt \in [Orders -> Statuses]

(* Orders that predate reservation_operations start with a legacy hold, or *)
(* with a receipt that is already finished.                                *)
Init == receipt \in [Orders -> Statuses]

Hold(o) == receipt[o] = "none" /\ receipt' = [receipt EXCEPT ![o] = "held"]

Commit(o) == receipt[o] = "held" /\ receipt' = [receipt EXCEPT ![o] = "committed"]

Release(o) ==
    /\ receipt[o] \in {"none", "held"}
    /\ receipt' = [receipt EXCEPT ![o] = "released"]

Expire(o) == receipt[o] = "held" /\ receipt' = [receipt EXCEPT ![o] = "expired"]

Next == \E o \in Orders : Hold(o) \/ Commit(o) \/ Release(o) \/ Expire(o)

Spec == Init /\ [][Next]_receipt
=============================================================================
