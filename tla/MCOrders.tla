------------------------------ MODULE MCOrders -------------------------------
(***************************************************************************)
(* What happens to a paid order, for TLC: its lifecycle with the packages  *)
(* of its vendor orders, cancellations and failed deliveries of one of     *)
(* them, the row of one shipment, and returns to one of them.  One         *)
(* behaviour moves one of these: focus names it, and what it does not use  *)
(* rests in an initial state.                                              *)
(***************************************************************************)
EXTENDS DeliveryExceptions, Returns, TLC

CONSTANTS Components,    \* the components this run moves
          OrderBound,    \* bound: packages and refunds of an order together
          ParcelBound    \* bound: attempts and refunds of one package together

ASSUME ComponentsAssumption == Components \subseteq {"orders", "delivery", "shipment", "returns"}

VARIABLE focus           \* the component that moves

\* The vendor orders of the lifecycle are interchangeable.  A cancellation or
\* a return always moves the same one, so that exchanging two vendor orders
\* never takes one of its states to another it reaches.
MCSymmetry == Permutations(VendorOrders)

parcelVars == <<shipmentVars, cancelVars, deliveryVars>>
mcVars == <<focus, ordersVars, parcelVars, recordVars, returnVars>>

Only(component) ==
  /\ focus = component /\ UNCHANGED focus
  /\ IF component = "shipment" THEN UNCHANGED lifecycleVars ELSE TRUE
  /\ IF component = "orders" THEN TRUE ELSE UNCHANGED package
  /\ IF component = "delivery" THEN TRUE ELSE UNCHANGED parcelVars
  /\ IF component = "shipment" THEN TRUE ELSE UNCHANGED recordVars
  /\ IF component = "returns" THEN TRUE ELSE UNCHANGED returnVars

MCInit ==
  /\ focus \in Components
  /\ package = [v \in VendorOrders |-> "absent"]
  /\ RecordsInit /\ DeliveryInit /\ ReturnRowsInit
  /\ IF focus = "delivery" THEN PaidInit ELSE NoShipmentInit
  /\ IF focus = "returns" THEN CompletedInit ELSE destination = 0
  /\ focus \in {"orders", "shipment"} => LifecycleInit

MCNext ==
  \/ /\ Only("orders") /\ OrdersNext
     /\ Cardinality({v \in VendorOrders : package'[v] # "absent"}) + Len(refunds') <= OrderBound
  \/ Only("delivery") /\ ExceptionStep /\ Len(attempts') + Len(refunds') <= ParcelBound
  \/ Only("shipment") /\ RecordsNext
  \/ Only("returns") /\ ReturnsStep

MCSpec == MCInit /\ [][MCNext]_mcVars

-----------------------------------------------------------------------------
(* Properties. *)

\* Parcels and returns are recorded once: a loss is declared on files that are
\* still there, a carrier's decision is applied once, and a returned vendor
\* order has one refund per return (DeliveryExceptions, Returns).
ParcelsCountOnce ==
  /\ LostIsProven /\ EachDecisionAppliedOnce
  /\ focus = "returns" => OneRefundPerReturn
=============================================================================
