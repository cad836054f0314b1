--------------------------- MODULE OrderLifecycle ---------------------------
(***************************************************************************)
(* One order after checkout: the vendor orders it is split into, the       *)
(* status the buyer sees, the refunds asked of Payment and the durable     *)
(* effects that carry each transition to the other services.  Every action *)
(* is one transaction under the order lock (withOrder); an effect runs     *)
(* outside it, so it may run again when the process stops before MarkDone. *)
(***************************************************************************)
EXTENDS Naturals, FiniteSets, FiniteSetsExt, Sequences, SequencesExt

CONSTANTS VendorOrders,  \* the vendor orders of the order
          Total,         \* what the buyer paid for each
          MaxRefunds     \* bound: refunds ever requested for the order

ASSUME OrderAssumption == Total \in Nat \ {0} /\ MaxRefunds \in Nat /\ VendorOrders # {} /\ IsFiniteSet(VendorOrders)

VARIABLES orderStatus,   \* the parent's status
          voStatus,      \* [VendorOrders -> status]
          completed,     \* vendor orders with a completed_at
          refunded,      \* [VendorOrders -> refunded_amount]
          refunds,       \* order_refunds, in the order they were created
          effects,       \* order_effects by status
          payment,       \* Payment's refund record for each of refunds
          settled        \* vendor orders Payment's ledger was told of

moneyVars == <<refunds, refunded, payment>>
lifecycleVars == <<orderStatus, voStatus, completed, refunded, refunds, effects, payment, settled>>

RefundIds == 1 .. Len(refunds)

validTransitions ==
    [pending_payment |-> {"paid", "cancelled"}, paid |-> {"processing", "refunded"},
     processing |-> {"shipped", "refunded"}, shipped |-> {"completed", "refunded"},
     completed |-> {"refunded"}, cancelled |-> {}, refunded |-> {}]

CanTransition(from, to) == to \in validTransitions[from]

progressRank == <<"paid", "processing", "shipped", "completed">>

\* Position in progressRank; a status outside it ranks with the weakest.
rankOf(s) == IF s \in ToSet(progressRank) THEN CHOOSE i \in 1 .. 4 : progressRank[i] = s ELSE 1

AggregateStatusStrongest(vos) ==
    LET active == {s \in Range(vos) : s # "refunded"}
    IN IF active = {} THEN "refunded" ELSE progressRank[Max({rankOf(s) : s \in active})]

\* Weakest link: refunded parts do not count unless all are refunded.
AggregateStatus(vos) ==
    LET active == {s \in Range(vos) : s # "refunded"}
    IN IF active = {} THEN "refunded" ELSE progressRank[Min({rankOf(s) : s \in active})]

PaidOrFurther(s) == s \in {"paid", "processing", "shipped", "completed", "refunded"}

Fulfillable(v) == voStatus[v] \in {"paid", "processing"}

\* What recomputeOrderStatus leaves in orders.status.
recomputeOrderStatus(order, vos) ==
    LET target == AggregateStatus(vos)
    IN IF order \notin {"pending_payment", "cancelled"} /\ CanTransition(order, target)
       THEN target ELSE order

-----------------------------------------------------------------------------
(* Effects: (kind, target) is unique for ever, so a second Enqueue of an   *)
(* effect that is pending, done or parked leaves it untouched.             *)

Effect(kind, target) == <<kind, target>>

Enqueue(es, new) == [es EXCEPT !.pending = @ \cup (new \ (es.done \cup es.parked))]

MarkDone(es, e) == [es EXCEPT !.pending = @ \ {e}, !.done = @ \cup {e}]

\* runEffect: the effect's work is recorded done, or the process stops
\* before MarkDone and the worker claims it again.
AfterRun(e) == {effects, MarkDone(effects, e)}

RecordFailure(e) ==
    /\ e \in effects.pending
    /\ effects' = [effects EXCEPT !.pending = @ \ {e}, !.parked = @ \cup {e}]

Replay(e) ==
    /\ e \in effects.parked
    /\ effects' = [effects EXCEPT !.parked = @ \ {e}, !.pending = @ \cup {e}]

-----------------------------------------------------------------------------
(* Refund records.                                                         *)

OpenStatuses == {"requested", "submitted", "succeeded"}
RefundOpen(s) == s \in OpenStatuses

CanApplyOutcome(from, to) ==
    \/ to \in {"succeeded", "failed"} /\ from \in {"requested", "submitted"}
    \/ to = "rejected" /\ from = "requested"

\* A refund of n is n units of money.  What the refunds rs of the vendor
\* orders vs with one of the statuses add up to is the number of their units.
RefundUnits(rs, vs, statuses) ==
    UNION {{i} \X (1 .. rs[i].amount) : i \in {j \in 1 .. Len(rs) : rs[j].vo \in vs /\ rs[j].status \in statuses}}

Amount(vs, statuses) == Cardinality(RefundUnits(refunds, vs, statuses))

OpenTotalsSubmitted(vs) == Amount(vs, {"submitted", "succeeded"})

\* What the open and paid refunds of the vendor orders vs reserve.
OpenTotals(vs) == Amount(vs, OpenStatuses)

appliedCapture == Total * Cardinality(VendorOrders)

refundableFor(v) ==
    LET ofVendor == Total - OpenTotals({v})
        ofOrder  == appliedCapture - OpenTotals(VendorOrders)
    IN Max({0, Min({ofVendor, ofOrder})})

\* A refund row and the request_refund effect, in the caller's transaction.
createRefund(v, amount, reason, es) ==
    /\ Len(refunds) < MaxRefunds
    /\ refunds' = Append(refunds, [vo |-> v, amount |-> amount, reason |-> reason, status |-> "requested"])
    /\ payment' = Append(payment, "none")
    /\ effects' = Enqueue(es, {Effect("request_refund", Len(refunds) + 1)})

LifecycleInit ==
    /\ orderStatus = "pending_payment"
    /\ voStatus = [v \in VendorOrders |-> "pending_payment"]
    /\ completed = {} /\ settled = {}
    /\ refunded = [v \in VendorOrders |-> 0]
    /\ refunds = <<>> /\ payment = <<>>
    /\ effects = [pending |-> {}, done |-> {}, parked |-> {}]

-----------------------------------------------------------------------------
(* The buyer, the payment outcome and the shop.                            *)

\* A verified capture (PaymentOutcome decides whether it applies).
applyPayment ==
    /\ CanTransition(orderStatus, "paid")
    /\ orderStatus' = "paid"
    /\ voStatus' = [v \in VendorOrders |-> IF voStatus[v] = "pending_payment" THEN "paid" ELSE voStatus[v]]
    /\ effects' = Enqueue(effects, {Effect("create_shipment", v) : v \in VendorOrders})
    /\ UNCHANGED <<completed, moneyVars, settled>>

\* Cancel, AdminCancel and a failed payment all end here.
cancelLocked ==
    /\ CanTransition(orderStatus, "cancelled")
    /\ orderStatus' = "cancelled"
    /\ voStatus' = [v \in VendorOrders |-> IF voStatus[v] = "pending_payment" THEN "cancelled" ELSE voStatus[v]]
    /\ effects' = Enqueue(effects, {Effect("release_inventory", 0)}
                                     \cup {Effect("cancel_shipment", v) : v \in VendorOrders})
    /\ UNCHANGED <<completed, moneyVars, settled>>

\* One compare-and-set step of vendor order v, with the parent recomputed
\* after it, on the record [order, vos] of the statuses read so far.
advanceVendorOrder(st, v, status) ==
    LET vos == [st.vos EXCEPT ![v] = status]
    IN [order |-> recomputeOrderStatus(st.order, vos), vos |-> vos]

Advanced(v, steps) ==
    LET st[i \in 0 .. Len(steps)] == IF i = 0 THEN [order |-> orderStatus, vos |-> voStatus]
                                     ELSE advanceVendorOrder(st[i - 1], v, steps[i])
    IN st[Len(steps)]

ApplySteps(v, steps) ==
    /\ orderStatus' = Advanced(v, steps).order
    /\ voStatus' = Advanced(v, steps).vos
    /\ completed' = IF "completed" \in ToSet(steps) THEN completed \cup {v} ELSE completed
    /\ effects' = IF "completed" \in ToSet(steps)
                  THEN Enqueue(effects, {Effect("settle_vendor_order", v)}) ELSE effects

UpdateVendorOrderStatus(v) ==
    /\ CanTransition(voStatus[v], "processing")
    /\ ApplySteps(v, <<"processing">>)
    /\ UNCHANGED <<moneyVars, settled>>

shipmentPaths ==
    [shipped   |-> [paid |-> <<"processing", "shipped">>, processing |-> <<"shipped">>,
                    shipped |-> <<>>, completed |-> <<>>],
     delivered |-> [paid |-> <<"processing", "shipped", "completed">>, processing |-> <<"shipped", "completed">>,
                    shipped |-> <<"completed">>, completed |-> <<>>]]

\* A cancelled or refunded vendor order refuses the event.
EventAccepted(v, type) == voStatus[v] \in DOMAIN shipmentPaths[type]

ApplyShipmentEvent(v, type) ==
    /\ EventAccepted(v, type)
    /\ ApplySteps(v, shipmentPaths[type][voStatus[v]])

-----------------------------------------------------------------------------
(* Refunds.                                                                *)

AdminRequestRefund(v, amount) ==
    /\ PaidOrFurther(orderStatus)
    /\ amount <= refundableFor(v)
    /\ createRefund(v, amount, "dispute", effects)
    /\ UNCHANGED <<orderStatus, voStatus, completed, refunded, settled>>

\* submitRefund's call to Payment: accepted once per refund, or refused.
SubmitRefund(r) ==
    /\ Effect("request_refund", r) \in effects.pending
    /\ refunds[r].status = "requested"
    /\ payment[r] = "none"
    /\ \E answer \in {"held", "refused"} : payment' = [payment EXCEPT ![r] = answer]
    /\ UNCHANGED <<orderStatus, voStatus, completed, refunded, refunds, effects, settled>>

\* submitRefund's second transaction, on Payment's acceptance.
RecordSubmitted(r) ==
    /\ Effect("request_refund", r) \in effects.pending
    /\ payment[r] \notin {"none", "refused"}
    /\ refunds' = IF refunds[r].status = "requested" THEN [refunds EXCEPT ![r].status = "submitted"] ELSE refunds
    /\ effects' \in AfterRun(Effect("request_refund", r))
    /\ UNCHANGED <<orderStatus, voStatus, completed, refunded, payment, settled>>

\* The settlement of a fully refunded vendor order and its parent.
recordRefunded(r, es) ==
    LET v     == refunds[r].vo
        paid  == refunded[v] + refunds[r].amount
        close == paid >= Total /\ CanTransition(voStatus[v], "refunded")
        vos   == IF close THEN [voStatus EXCEPT ![v] = "refunded"] ELSE voStatus
    IN /\ refunded' = [refunded EXCEPT ![v] = paid]
       /\ voStatus' = vos
       /\ orderStatus' = recomputeOrderStatus(orderStatus, vos)
       /\ effects' = IF close THEN Enqueue(es, {Effect("cancel_shipment", v)}) ELSE es

\* applyRefundOutcome: a new outcome is applied once; a replay changes
\* nothing and a contradicting one is refused.
ApplyRefundOutcome(r, outcome, es) ==
    /\ CanApplyOutcome(refunds[r].status, outcome)
    /\ refunds' = [refunds EXCEPT ![r].status = outcome]
    /\ IF outcome = "succeeded"
       THEN recordRefunded(r, es)
       ELSE effects' = es /\ UNCHANGED <<orderStatus, voStatus, refunded>>

\* A refusal from Payment is final for the refund and ends the effect.
RejectRefund(r) ==
    /\ Effect("request_refund", r) \in effects.pending
    /\ payment[r] = "refused"
    /\ \E es \in AfterRun(Effect("request_refund", r)) :
          \/ ApplyRefundOutcome(r, "rejected", es)
          \/ /\ refunds[r].status = "rejected"
             /\ effects' = es
             /\ UNCHANGED <<refunds, orderStatus, voStatus, refunded>>
    /\ UNCHANGED <<completed, payment, settled>>

\* Payment's outcome, delivered at least once.
RefundOutcomeArrives(r) ==
    /\ payment[r] \in {"succeeded", "failed"}
    /\ ApplyRefundOutcome(r, payment[r], effects)
    /\ UNCHANGED <<completed, payment, settled>>

\* Payment's side of a refund it holds (Refunds models it).
PaymentDecides(r) ==
    /\ payment[r] = "held"
    /\ \E outcome \in {"succeeded", "failed"} : payment' = [payment EXCEPT ![r] = outcome]
    /\ UNCHANGED <<orderStatus, voStatus, completed, refunded, refunds, effects, settled>>

-----------------------------------------------------------------------------
(* Effects towards Inventory and the settlement ledger.  Running one again *)
(* changes nothing more, so they end at once.                              *)

releaseInventory ==
    /\ Effect("release_inventory", 0) \in effects.pending
    /\ effects' = MarkDone(effects, Effect("release_inventory", 0))
    /\ UNCHANGED <<orderStatus, voStatus, completed, moneyVars, settled>>

settleWhileCompleted(v) ==
    /\ Effect("settle_vendor_order", v) \in effects.pending
    /\ settled' = IF voStatus[v] = "completed" THEN settled \cup {v} ELSE settled
    /\ effects' = MarkDone(effects, Effect("settle_vendor_order", v))
    /\ UNCHANGED <<orderStatus, voStatus, completed, moneyVars>>

settleVendorOrder(v) ==
    /\ Effect("settle_vendor_order", v) \in effects.pending
    /\ settled' = IF v \in completed THEN settled \cup {v} ELSE settled
    /\ effects' = MarkDone(effects, Effect("settle_vendor_order", v))
    /\ UNCHANGED <<orderStatus, voStatus, completed, moneyVars>>

\* A settlement report of a vendor order without a commission snapshot is
\* parked; an admin replays it.
ParkSettlement(v) ==
    /\ RecordFailure(Effect("settle_vendor_order", v))
    /\ UNCHANGED <<orderStatus, voStatus, completed, moneyVars, settled>>

ReplayEffect(v) ==
    /\ Replay(Effect("settle_vendor_order", v))
    /\ UNCHANGED <<orderStatus, voStatus, completed, moneyVars, settled>>

-----------------------------------------------------------------------------
(* Admin requests, Payment's answers and lost answers in any order: what a *)
(* vendor order's open and paid refunds add up to never exceeds what the   *)
(* buyer paid for it, and refunded_amount is exactly what Payment          *)
(* confirmed.                                                              *)
RefundsWithinTotal ==
    \A v \in VendorOrders :
        /\ Amount({v}, {"requested", "submitted", "succeeded"}) <= Total
        /\ refunded[v] = Amount({v}, {"succeeded"})

(* The buyer is never shown more progress than the slowest vendor order    *)
(* that was not refunded has made.                                         *)
ParentNeverAhead ==
    orderStatus \notin {"pending_payment", "cancelled", "refunded"} =>
        \A v \in DOMAIN voStatus : voStatus[v] = "refunded" \/ rankOf(orderStatus) <= rankOf(voStatus[v])

(* A completed sale is in the settlement ledger or on its way there (its   *)
(* effect is pending or parked), whatever was refunded since.              *)
SalesReachLedger ==
    \A v \in completed : v \in settled \/ Effect("settle_vendor_order", v) \in effects.pending \cup effects.parked

(* The parent order is never ahead of its packages, and what was sold      *)
(* reaches the ledger.                                                     *)
PackagesDecideOrder == ParentNeverAhead /\ SalesReachLedger

-----------------------------------------------------------------------------
(***************************************************************************)
(* One order with the packages of its vendor orders reduced to what Order  *)
(* sees of them: created and cancelled by its effects, handed over and     *)
(* delivered by the shop.  DeliveryExceptions composes the same order with *)
(* Shipment in detail.                                                     *)
(***************************************************************************)
VARIABLE package    \* [VendorOrders -> the shop's package]

ordersVars == <<lifecycleVars, package>>

OrdersInit == LifecycleInit /\ package = [v \in VendorOrders |-> "absent"]

createPackage(v) ==
    /\ Effect("create_shipment", v) \in effects.pending
    /\ package' = IF Fulfillable(v) /\ package[v] = "absent" THEN [package EXCEPT ![v] = "pending"] ELSE package
    /\ effects' \in AfterRun(Effect("create_shipment", v))
    /\ UNCHANGED <<orderStatus, voStatus, completed, moneyVars, settled>>

cancelPackage(v) ==
    /\ Effect("cancel_shipment", v) \in effects.pending
    /\ package' = IF package[v] = "pending" THEN [package EXCEPT ![v] = "cancelled"] ELSE package
    /\ effects' = MarkDone(effects, Effect("cancel_shipment", v))
    /\ UNCHANGED <<orderStatus, voStatus, completed, moneyVars, settled>>

\* The shop's package as Order sees it: handed over while the vendor order
\* is fulfillable, then delivered (DeliveryExceptions has the detail).
PackageMoves(v) ==
    /\ \/ package[v] = "pending" /\ Fulfillable(v) /\ package' = [package EXCEPT ![v] = "shipped"]
       \/ package[v] = "shipped" /\ package' = [package EXCEPT ![v] = "delivered"]
    /\ UNCHANGED <<orderStatus, voStatus, completed, moneyVars, effects, settled>>

\* Shipment's outbox delivers its facts at least once and in any order.
ShipmentEventArrives(v) ==
    /\ \E type \in (CASE package[v] = "shipped" -> {"shipped"}
                      [] package[v] = "delivered" -> {"shipped", "delivered"}
                      [] OTHER -> {}) : ApplyShipmentEvent(v, type)
    /\ UNCHANGED <<moneyVars, settled, package>>

\* Transactions of Order that leave the packages alone.
OrderOnly ==
    /\ \/ applyPayment \/ cancelLocked \/ releaseInventory
       \/ \E v \in VendorOrders :
             \/ UpdateVendorOrderStatus(v) \/ settleVendorOrder(v) \/ ParkSettlement(v) \/ ReplayEffect(v)
             \/ \E amount \in 1 .. Total : AdminRequestRefund(v, amount)
       \/ \E r \in RefundIds :
             SubmitRefund(r) \/ RecordSubmitted(r) \/ RejectRefund(r) \/ RefundOutcomeArrives(r) \/ PaymentDecides(r)
    /\ UNCHANGED package

OrdersNext ==
    \/ OrderOnly
    \/ \E v \in VendorOrders : createPackage(v) \/ cancelPackage(v) \/ PackageMoves(v) \/ ShipmentEventArrives(v)

OrdersSpec == OrdersInit /\ [][OrdersNext]_ordersVars
=============================================================================
