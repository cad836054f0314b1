------------------------------- MODULE Returns ------------------------------
(***************************************************************************)
(* Returns of a delivered order item: the buyer's request, the shop's and  *)
(* the admin's decision, the way back (authorization, dispatch, the parcel *)
(* at Shipment), the goods receipt, the restock and the refund.  Commands  *)
(* to Shipment and Inventory are effects: they run after the transaction,  *)
(* in any order, and again when the process stops before MarkDone.         *)
(*                                                                         *)
(* The return window, fees, deadlines and notices decide nothing below and *)
(* are left out; one unit costs one.                                       *)
(***************************************************************************)
EXTENDS OrderLifecycle

CONSTANTS ReturnIds,        \* requests the buyer may open
          MaxDestinations   \* bound: return destinations the shop verifies

VARIABLES rr,            \* [ReturnIds -> return_requests row]
          parcel,        \* [ReturnIds -> Shipment's return parcel]
          destination,   \* version of the shop's verified destination, 0: none
          backInStock,   \* [ReturnIds -> units Inventory put back]
          tried          \* returns whose restock effect has a recorded attempt

returnVars == <<rr, parcel, destination, backInStock, tried>>
returnsVars == <<lifecycleVars, returnVars>>

\* The vendor order that sold the item, all of whose units it holds.
soldBy == CHOOSE v \in VendorOrders : TRUE
Units == Total

NoReturn == [status |-> "none", quantity |-> 0, auth |-> 0, dest |-> 0, shipping |-> "none", parcelSet |-> FALSE,
             receipt |-> "none", sellable |-> 0, disputed |-> FALSE,
             refunds |-> {}]

NoParcel == [status |-> "none", auth |-> 0, dispatchOp |-> FALSE]

returnTransitions ==
    [requested |-> {"vendor_confirmed", "approved", "rejected"}, vendor_confirmed |-> {"approved", "rejected"},
     approved |-> {"received", "refund_pending"}, received |-> {"refund_pending"},
     refund_pending |-> {"refunded", "refund_failed"}, refund_failed |-> {"refund_pending"},
     rejected |-> {}, refunded |-> {}, none |-> {}]

CanTransitionReturnAny(from, to) == from # "none"

CanTransitionReturn(from, to) == to \in returnTransitions[from]

Authorized(r) == rr[r].auth > 0

ReturnDispatched(r) == rr[r].shipping \in {"awaiting_verification", "received", "lost"}

\* Units of the item in requests that were not rejected.
ReturnedQuantity ==
    FoldSet(LAMBDA r, sum : IF rr[r].status = "rejected" THEN sum ELSE sum + rr[r].quantity, 0, ReturnIds)

ValidateNewReturn(quantity) ==
    /\ voStatus[soldBy] = "completed"
    /\ quantity \in 1 .. Units - ReturnedQuantity

NewReturnRow(quantity) == [NoReturn EXCEPT !.status = "requested", !.quantity = quantity]

CreateReturn(r, quantity) ==
    /\ rr[r].status = "none"
    /\ ValidateNewReturn(quantity)
    /\ rr' = [rr EXCEPT ![r] = NewReturnRow(quantity)]
    /\ UNCHANGED <<lifecycleVars, parcel, destination, backInStock, tried>>

\* The row moves on from the status it was read with.
MoveReturn(r, ret, to) == rr' = [rr EXCEPT ![r] = [ret EXCEPT !.status = to]]

\* One step of return r, without anything else.
transitionReturn(r, to) ==
    /\ CanTransitionReturn(rr[r].status, to)
    /\ MoveReturn(r, rr[r], to)
    /\ UNCHANGED <<lifecycleVars, parcel, destination, backInStock, tried>>

VendorConfirmReturn(r) == transitionReturn(r, "vendor_confirmed")

\* A rejection, or an approval while return shipping is off.
AdminDecideReturn(r) == \E to \in {"approved", "rejected"} : transitionReturn(r, to)

-----------------------------------------------------------------------------
(* The way back.                                                           *)

\* Vendor: the shop gets a (new) verified return destination.
VerifyDestination ==
    /\ destination < MaxDestinations
    /\ destination' = destination + 1
    /\ UNCHANGED <<lifecycleVars, rr, parcel, backInStock, tried>>

SaveShipping(r, ret) == rr' = [rr EXCEPT ![r] = ret]

\* Row and effect of an authorization; without a destination it waits.
authorizeReturnShipping(r, ret) ==
    IF destination = 0
    THEN /\ SaveShipping(r, [ret EXCEPT !.shipping = "destination_missing"])
         /\ UNCHANGED effects
    ELSE /\ SaveShipping(r, [ret EXCEPT !.auth = @ + 1, !.dest = destination, !.shipping = "awaiting_dispatch"])
         /\ effects' = Enqueue(effects, {Effect("authorize_return_shipment", <<r, ret.auth + 1>>)})

AdminDecideReturnWithTerms(r) ==
    /\ CanTransitionReturn(rr[r].status, "approved")
    /\ authorizeReturnShipping(r, [rr[r] EXCEPT !.status = "approved"])
    /\ UNCHANGED <<orderStatus, voStatus, completed, moneyVars, settled, parcel, destination, backInStock, tried>>

\* Bound: one correction, to a destination verified since.
AuthorizeReturnShipping(r) ==
    /\ rr[r].status = "approved" /\ ~ReturnDispatched(r)
    /\ destination > rr[r].dest
    /\ authorizeReturnShipping(r, rr[r])
    /\ UNCHANGED <<orderStatus, voStatus, completed, moneyVars, settled, parcel, destination, backInStock, tried>>

ReportReturnDispatch(r) ==
    /\ rr[r].status = "approved" /\ Authorized(r) /\ ~ReturnDispatched(r)
    /\ SaveShipping(r, [rr[r] EXCEPT !.shipping = "awaiting_verification"])
    /\ effects' = Enqueue(effects, {Effect("dispatch_return_shipment", r)})
    /\ UNCHANGED <<orderStatus, voStatus, completed, moneyVars, settled, parcel, destination, backInStock, tried>>

-----------------------------------------------------------------------------
(* Receipt, restock and refund.                                            *)

\* The refund of a received (or lost) return: refused, with the step it is
\* part of, when less than its amount is refundable.
requestReturnRefund(r, ret, es) ==
    /\ ret.quantity <= refundableFor(soldBy)
    /\ CanTransitionReturn(ret.status, "refund_pending")
    /\ createRefund(soldBy, ret.quantity, "return", es)
    /\ MoveReturn(r, [ret EXCEPT !.refunds = @ \cup {Len(refunds) + 1}], "refund_pending")

ValidateReturnReceipt(r, sellable) == sellable \in 0 .. rr[r].quantity

\* What is not sellable is damaged or missing.
Disputed(r, sellable) == sellable < rr[r].quantity

AddReceipt(ret, sellable, disputed) ==
    [ret EXCEPT !.receipt = "recorded", !.sellable = sellable, !.disputed = disputed]

ReceiptEffects(r, ret, sellable) ==
    (IF sellable > 0 THEN {Effect("restock_return", r)} ELSE {})
        \cup (IF ret.auth > 0 THEN {Effect("close_return_shipment", r)} ELSE {})

\* Disputed goods wait for an admin, clean goods are refunded at once.
RecordReturnReceipt(r, sellable) ==
    LET disputed == Disputed(r, sellable)
        ret == [AddReceipt(rr[r], sellable, disputed) EXCEPT !.status = "received",
                                                             !.shipping = IF @ = "none" THEN @ ELSE "received"]
        es  == Enqueue(effects, ReceiptEffects(r, ret, sellable))
    IN /\ rr[r].status = "approved"
       /\ ValidateReturnReceipt(r, sellable)
       /\ IF disputed
          THEN rr' = [rr EXCEPT ![r] = ret] /\ effects' = es /\ UNCHANGED <<refunds, payment>>
          ELSE requestReturnRefund(r, ret, es)
       /\ UNCHANGED <<orderStatus, voStatus, completed, refunded, settled, parcel, destination, backInStock, tried>>

\* A return without shipping instructions, received by hand.
MarkReturnReceived(r, restock) ==
    /\ ~Authorized(r)
    /\ CanTransitionReturn(rr[r].status, "received")
    /\ requestReturnRefund(r, [rr[r] EXCEPT !.status = "received", !.sellable = IF restock THEN rr[r].quantity ELSE 0],
                           Enqueue(effects, IF restock THEN {Effect("restock_return", r)} ELSE {}))
    /\ UNCHANGED <<orderStatus, voStatus, completed, refunded, settled, parcel, destination, backInStock, tried>>

\* An admin refunds disputed goods, or a parcel lost on the way.
DecideReturnShipping(r) ==
    /\ \/ rr[r].status = "received" /\ rr[r].disputed
       \/ rr[r].status = "approved" /\ rr[r].shipping = "lost"
    /\ requestReturnRefund(r, rr[r], effects)
    /\ UNCHANGED <<orderStatus, voStatus, completed, refunded, settled, parcel, destination, backInStock, tried>>

MarkLost(r) ==
    /\ rr[r].status = "approved" /\ rr[r].shipping = "awaiting_verification"
    /\ SaveShipping(r, [rr[r] EXCEPT !.shipping = "lost"])
    /\ effects' = Enqueue(effects, {Effect("close_return_shipment", r)})
    /\ UNCHANGED <<orderStatus, voStatus, completed, moneyVars, settled, parcel, destination, backInStock, tried>>

\* Whether the restock effect ran: it is no longer pending or has a
\* recorded attempt.  A claim alone records none.
restockStarted(r) == Effect("restock_return", r) \in effects.done \cup effects.parked \/ r \in tried

CorrectReceipt(ret, sellable, disputed) == [ret EXCEPT !.sellable = sellable, !.disputed = disputed]

CorrectReturnReceipt(r, sellable) ==
    LET disputed == Disputed(r, sellable)
        ret == CorrectReceipt(rr[r], sellable, disputed)
        es  == IF sellable > 0 /\ ~restockStarted(r) THEN Enqueue(effects, {Effect("restock_return", r)}) ELSE effects
    IN /\ rr[r].status = "received" /\ rr[r].receipt = "recorded"
       /\ ValidateReturnReceipt(r, sellable)
       /\ restockStarted(r) => sellable = rr[r].sellable
       /\ IF disputed
          THEN rr' = [rr EXCEPT ![r] = ret] /\ effects' = es /\ UNCHANGED <<refunds, payment>>
          ELSE requestReturnRefund(r, ret, es)
       /\ UNCHANGED <<orderStatus, voStatus, completed, refunded, settled, parcel, destination, backInStock, tried>>

RetryReturnRefund(r) ==
    /\ rr[r].status = "refund_failed"
    /\ requestReturnRefund(r, rr[r], effects)
    /\ UNCHANGED <<orderStatus, voStatus, completed, refunded, settled, parcel, destination, backInStock, tried>>

\* The return follows its refund, in the outcome's transaction.
moveReturn(r, to) ==
    IF rr[r].status = to THEN UNCHANGED rr
    ELSE CanTransitionReturn(rr[r].status, to) /\ MoveReturn(r, rr[r], to)

ReturnRefundAnswered(i) ==
    LET of == {r \in ReturnIds : i \in rr[r].refunds}
    IN
    /\ RefundOutcomeArrives(i) \/ RejectRefund(i)
    /\ IF of = {} \/ refunds'[i].status = refunds[i].status THEN UNCHANGED rr
       ELSE moveReturn(CHOOSE r \in of : TRUE, IF payment[i] = "succeeded" THEN "refunded" ELSE "refund_failed")
    /\ UNCHANGED <<parcel, destination, backInStock, tried>>

-----------------------------------------------------------------------------
(* Effects.                                                                *)

\* Inventory puts a return's units back once per return id.
restockReturn(r) ==
    LET e == Effect("restock_return", r)
    IN /\ e \in effects.pending
       /\ \/ /\ backInStock' = [backInStock EXCEPT ![r] = IF @ = 0 THEN rr[r].sellable ELSE @]
             /\ effects' \in AfterRun(e)
             /\ UNCHANGED tried
          \/ tried' = tried \cup {r} /\ UNCHANGED <<effects, backInStock>>
       /\ UNCHANGED <<orderStatus, voStatus, completed, moneyVars, settled, rr, parcel, destination>>

\* Shipment opens the parcel, or points one not sent yet at a newer
\* authorization; a parcel on its way refuses (409: the effect is parked).
AuthorizeParcel(r) ==
    LET p == parcel[r]
    IN IF p.status \in {"pending_dispatch", "in_transit"}
       THEN [p EXCEPT !.auth = IF p.status = "pending_dispatch" THEN rr[r].auth ELSE @]
       ELSE [status |-> "pending_dispatch", auth |-> rr[r].auth, dispatchOp |-> FALSE]

SetReturnShipment(r) == rr' = [rr EXCEPT ![r].parcelSet = TRUE]

authorizeReturnShipment(r, version) ==
    LET e == Effect("authorize_return_shipment", <<r, version>>)
    IN /\ e \in effects.pending
       /\ IF version # rr[r].auth
          THEN effects' = MarkDone(effects, e) /\ UNCHANGED <<rr, parcel>>
          ELSE IF parcel[r].status = "in_transit" /\ parcel[r].auth < version
               THEN RecordFailure(e) /\ UNCHANGED <<rr, parcel>>
               ELSE /\ parcel' = [parcel EXCEPT ![r] = AuthorizeParcel(r)]
                    /\ SetReturnShipment(r)
                    /\ effects' = MarkDone(effects, e)
       /\ UNCHANGED <<orderStatus, voStatus, completed, moneyVars, settled, destination, backInStock, tried>>

\* Shipment's dispatch of a parcel, and its end: received or an exception.
Dispatch(r) == parcel' = [parcel EXCEPT ![r].status = "in_transit", ![r].dispatchOp = TRUE]

Close(r, to) == parcel' = [parcel EXCEPT ![r].status = to]

\* Until the parcel is open the effect only fails and is retried.
dispatchReturnShipment(r) ==
    LET e == Effect("dispatch_return_shipment", r)
    IN /\ e \in effects.pending /\ rr[r].parcelSet
       /\ IF parcel[r].dispatchOp
          THEN effects' = MarkDone(effects, e) /\ UNCHANGED parcel
          ELSE IF parcel[r].status = "pending_dispatch"
               THEN /\ Dispatch(r)
                    /\ effects' \in AfterRun(e)
               ELSE RecordFailure(e) /\ UNCHANGED parcel
       /\ UNCHANGED <<orderStatus, voStatus, completed, moneyVars, settled, rr, destination, backInStock, tried>>

closeReturnShipment(r) ==
    LET e  == Effect("close_return_shipment", r)
        to == IF rr[r].shipping = "lost" THEN "delivery_exception" ELSE "received"
    IN /\ e \in effects.pending /\ rr[r].parcelSet
       /\ IF parcel[r].status \in {to, "pending_dispatch", "in_transit"}
          THEN /\ Close(r, to)
               /\ effects' = MarkDone(effects, e)
          ELSE RecordFailure(e) /\ UNCHANGED parcel
       /\ UNCHANGED <<orderStatus, voStatus, completed, moneyVars, settled, rr, destination, backInStock, tried>>

-----------------------------------------------------------------------------
ReturnsStep ==
    \/ VerifyDestination
    \/ \E r \in ReturnIds :
          \/ \E q \in 1 .. Units : CreateReturn(r, q)
          \/ VendorConfirmReturn(r) \/ AdminDecideReturn(r) \/ AdminDecideReturnWithTerms(r)
          \/ AuthorizeReturnShipping(r) \/ ReportReturnDispatch(r)
          \/ \E s \in 0 .. Units : RecordReturnReceipt(r, s) \/ CorrectReturnReceipt(r, s)
          \/ \E restock \in BOOLEAN : MarkReturnReceived(r, restock)
          \/ DecideReturnShipping(r) \/ MarkLost(r) \/ RetryReturnRefund(r)
          \/ restockReturn(r) \/ dispatchReturnShipment(r) \/ closeReturnShipment(r)
          \/ \E n \in 1 .. MaxDestinations : authorizeReturnShipment(r, n)
    \/ \E i \in RefundIds : ReturnRefundAnswered(i)
    \/ /\ \/ Len(refunds) = 0 /\ AdminRequestRefund(soldBy, 1)
          \/ \E i \in RefundIds : SubmitRefund(i) \/ RecordSubmitted(i) \/ PaymentDecides(i)
       /\ UNCHANGED returnVars

\* A delivered order whose sale is settled.
CompletedInit ==
    /\ orderStatus = "completed" /\ voStatus = [v \in VendorOrders |-> "completed"]
    /\ completed = VendorOrders /\ settled = VendorOrders
    /\ refunded = [v \in VendorOrders |-> 0] /\ refunds = <<>> /\ payment = <<>>
    /\ effects = [pending |-> {}, done |-> {}, parked |-> {}]
    /\ destination \in 0 .. 1

ReturnRowsInit ==
    /\ rr = [r \in ReturnIds |-> NoReturn] /\ parcel = [r \in ReturnIds |-> NoParcel]
    /\ backInStock = [r \in ReturnIds |-> 0] /\ tried = {}

ReturnsInit == CompletedInit /\ ReturnRowsInit

ReturnsSpec == ReturnsInit /\ [][ReturnsStep]_returnsVars

-----------------------------------------------------------------------------
(* A return is refunded once: through failed refunds, retries, corrected   *)
(* receipts and lost parcels at most one of its refunds is open or paid,   *)
(* and the return says "refunded" exactly when one was paid.               *)
OneRefundPerReturn ==
    \A r \in ReturnIds :
        LET of(statuses) == {i \in rr[r].refunds : refunds[i].status \in statuses}
        IN /\ Cardinality(of({"requested", "submitted", "succeeded"})) <= 1
           /\ rr[r].status = "refunded" <=> of({"succeeded"}) # {}

=============================================================================
