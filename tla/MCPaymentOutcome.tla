-------------------------- MODULE MCPaymentOutcome --------------------------
(***************************************************************************)
(* PaymentOutcome for TLC: one order and the intents opened for it.        *)
(* Orders share nothing, so one is enough.                                 *)
(***************************************************************************)
EXTENDS PaymentOutcome, TLC

CONSTANT o1

MCOrders == {o1}
MCOrderOf == [p \in Payments |-> o1]
Symmetry == Permutations(Payments)

(* Without the bus nothing is ever published to it (UseBus), so the steps *)
(* of the bus are never enabled: these are all the steps that are.         *)
HTTPNext ==
    \/ \E p \in Payments : PaymentStep(p) \/ HTTPStep(p)
    \/ \E o \in Orders : OrderStep(o)
HTTPSpec == Init /\ [][HTTPNext]_vars /\ \A p \in Payments : WF_vars(DeliverHTTP(p))

(* Every outcome is settled: captured money is applied or reviewed, and a  *)
(* failed payment ends its order.                                          *)
OutcomesSettle == CapturesSettle /\ FailuresSettle
=============================================================================
