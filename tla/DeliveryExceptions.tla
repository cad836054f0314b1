------------------------- MODULE DeliveryExceptions -------------------------
(***************************************************************************)
(* The fulfilment attempts of one vendor order at the Shipment service and *)
(* the outbox that tells Order what happened to them.  Attempt n is        *)
(* attempts[n]; a redelivery is a new attempt, never an old one reset.     *)
(* Handing a package over takes two steps: Order grants the claim, then    *)
(* the shipment row moves, with anything in between.                       *)
(***************************************************************************)
EXTENDS OrderLifecycle, Sequences, FiniteSets

CONSTANTS AttemptLimit,   \* failed deliveries before Order opens a case
          MaxAttempts     \* fulfilment attempts of one vendor order

VARIABLES attempts,   \* the shipments of the vendor order, by attempt_no
          outbox,     \* shipment_outbox rows
          handing     \* attempts whose MarkShipped holds a grant and has not committed

shipmentVars == <<attempts, outbox, handing>>

shipmentTransitions ==
    [pending |-> {"ready_to_ship", "cancelled"}, ready_to_ship |-> {"shipped", "cancelled"},
     shipped |-> {"delivered", "interception_requested", "returned", "lost"},
     interception_requested |-> {"shipped", "cancelled", "returned", "lost"},
     delivered |-> {}, cancelled |-> {}, returned |-> {}, lost |-> {}]

CanMoveShipment(from, to) == to \in shipmentTransitions[from]

IsCancellable(s) == s \in {"pending", "ready_to_ship"}

RedeliverableFrom(s) == s \in {"returned", "lost"}

\* What Order is told of a status change: OrderEventFor and ExceptionFor.
\* The plain "returned" event changes nothing at Order and is left out.
OrderEventsFor(to) ==
    CASE to = "shipped"   -> {"shipped"}
      [] to = "delivered" -> {"delivered"}
      [] to = "returned"  -> {"exception_returned"}
      [] to = "lost"      -> {"exception_lost"}
      [] OTHER            -> {}

\* A fact is written once per shipment and type.
OutboxEnqueue(n, types) ==
    outbox \cup {[n |-> n, type |-> t, state |-> "pending"] :
                   t \in {t \in types : \A e \in outbox : e.n # n \/ e.type # t}}

Attempts == 1 .. Len(attempts)

\* FindByVendorOrderID: the latest attempt.
LatestAttempt == Len(attempts)

NewAttempt == [status |-> "pending", handed |-> FALSE, failed |-> 0, operation |-> "none"]

\* One status change with its outbox row; more names extra facts for Order.
transition(n, to, more) ==
    /\ CanMoveShipment(attempts[n].status, to)
    /\ attempts' = [attempts EXCEPT ![n].status = to, ![n].handed = @ \/ to = "shipped"]
    /\ outbox' = OutboxEnqueue(n, OrderEventsFor(to) \cup more)

resolveAndCreate ==
    /\ attempts' = IF attempts = <<>> THEN <<NewAttempt>> ELSE attempts
    /\ UNCHANGED <<outbox, handing>>

MarkReady(n) ==
    /\ transition(n, "ready_to_ship", {})
    /\ UNCHANGED handing

\* The claim was granted; MarkShipped goes on to the shipment row.
HandoverGranted(n) ==
    /\ IsCancellable(attempts[n].status)
    /\ n \notin handing
    /\ handing' = handing \cup {n}
    /\ UNCHANGED <<attempts, outbox>>

\* The shipment transaction of MarkShipped: a package stopped since the
\* grant is refused.  A package the carrier was asked to stop was handed over
\* before; a shop that marks it shipped again needs no grant.
MarkShipped(n) ==
    /\ n \in handing \/ attempts[n].status = "interception_requested"
    /\ handing' = handing \ {n}
    /\ IF attempts[n].status \in {"pending", "ready_to_ship", "interception_requested"}
       THEN /\ attempts' = [attempts EXCEPT ![n].status = "shipped", ![n].handed = TRUE]
            /\ outbox' = OutboxEnqueue(n, OrderEventsFor("shipped"))
       ELSE UNCHANGED <<attempts, outbox>>

RecordFailedAttempt(n) ==
    /\ attempts[n].status = "shipped"
    /\ attempts[n].failed < AttemptLimit
    /\ attempts' = [attempts EXCEPT ![n].failed = @ + 1]
    /\ outbox' = IF attempts[n].failed + 1 >= AttemptLimit
                 THEN OutboxEnqueue(n, {"exception_attempts_exhausted"}) ELSE outbox
    /\ UNCHANGED handing

MarkDelivered(n) ==
    /\ transition(n, "delivered", {})
    /\ UNCHANGED handing

\* A shop reports a package returned, an admin reports one lost.
ReportFailure(n, to) ==
    /\ to \in {"returned", "lost"}
    /\ transition(n, to, {})
    /\ UNCHANGED handing

\* After handover the carrier is asked to stop the package.
requestInterception(n, operation) ==
    /\ attempts' = [attempts EXCEPT ![n].status = "interception_requested",
                                    ![n].operation = IF operation = "none" THEN @ ELSE operation]
    /\ UNCHANGED <<outbox, handing>>

\* The cancel_shipment effect at Shipment.  It reads the package and then
\* locks it: one that was cancellable when read and is shipped when locked is
\* left alone, and no carrier is asked to stop it.
CancelForVendorOrder ==
    LET n == LatestAttempt
    IN IF attempts # <<>> /\ IsCancellable(attempts[n].status)
       THEN transition(n, "cancelled", {}) /\ UNCHANGED handing
       ELSE \/ UNCHANGED shipmentVars
            \/ attempts # <<>> /\ attempts[n].status = "shipped" /\ requestInterception(n, "none")

\* What StopFulfillment answers, and does, for a paid cancellation.
StopResult ==
    LET s == attempts[LatestAttempt]
    IN IF attempts = <<>> \/ IsCancellable(s.status) \/ (s.status = "cancelled" /\ ~s.handed) THEN "stopped"
       ELSE IF s.status \in {"cancelled", "shipped", "interception_requested"} THEN "handed_over" ELSE "delivered"

StopFulfillment ==
    IF attempts # <<>> /\ IsCancellable(attempts[LatestAttempt].status)
    THEN transition(LatestAttempt, "cancelled", {}) /\ UNCHANGED handing
    ELSE UNCHANGED shipmentVars

InterceptFulfillment ==
    IF attempts # <<>> /\ attempts[LatestAttempt].status = "shipped"
    THEN requestInterception(LatestAttempt, "cancellation")
    ELSE UNCHANGED shipmentVars

\* The carrier's decision, by an operator or the carrier's webhook.
applyInterception(n, accepted) ==
    /\ attempts[n].status = "interception_requested"
    /\ IF accepted
       THEN transition(n, "cancelled", IF attempts[n].operation = "cancellation" THEN {"exception_returned"} ELSE {})
       ELSE transition(n, "shipped", {})
    /\ UNCHANGED handing

\* Whether Shipment accepts attempt n + 1 after attempt n.
ReplacementAccepted(n) ==
    /\ n = LatestAttempt
    /\ RedeliverableFrom(attempts[n].status)
    /\ n + 1 <= MaxAttempts

CreateReplacementAttempt(n) ==
    /\ attempts' = Append(attempts, NewAttempt)
    /\ UNCHANGED <<outbox, handing>>

\* Dispatch: shipped goes before every other fact of the same shipment;
\* beyond that any due row may be next.
Dispatchable(e) ==
    /\ e \in outbox /\ e.state = "pending"
    /\ e.type = "shipped" \/ \A s \in outbox : s.n = e.n /\ s.type = "shipped" => s.state = "delivered"

Dispatched(e, state) == outbox' = (outbox \ {e}) \cup {[e EXCEPT !.state = state]}

\* RetryOrderEvent: an admin sends a parked fact again.
Requeue(e) ==
    /\ e \in outbox /\ e.state = "review"
    /\ Dispatched(e, "pending")
    /\ UNCHANGED <<attempts, handing>>

\* Steps of the shop, the carrier and the marketplace on an attempt.
ShopMoves ==
    \E n \in Attempts :
        \/ MarkReady(n) \/ MarkShipped(n) \/ RecordFailedAttempt(n) \/ MarkDelivered(n)
        \/ \E to \in {"returned", "lost"} : ReportFailure(n, to)
        \/ \E accepted \in BOOLEAN : applyInterception(n, accepted)

----------------------------------------------------------------------------
(***************************************************************************)
(* One shipment row at the Shipment service, the people and the carrier    *)
(* who change it, and the files that prove a failure report.  An action of *)
(* a person is decided on the locked row; a failure report also names the  *)
(* version its reporter read; the carrier's decision finds its shipment by *)
(* the reference of the interception and locks the row afterwards; the     *)
(* cleaner lists old uploads and deletes them one by one.                  *)
(***************************************************************************)
CONSTANTS Files,          \* uploads of the shipment
          RecordAttemptLimit,   \* failed deliveries before Order opens a case
          MaxVersion,     \* bound on the changes of the row
          MaxRequests     \* bound on the interceptions asked of the carrier

None == [op |-> "none", expected |-> 0, files |-> {}]

VARIABLES row,        \* the shipments row
          told,       \* exception facts in the outbox
          asked,      \* the failure report being sent
          calls,      \* interceptions asked of the carrier
          answered,   \* the carrier's answer to the last one is not on the row yet
          found,      \* carrier events whose shipment was found, before its lock
          keys,       \* keyed timeline entries: the carrier events recorded
          applied,    \* applied[c]: how often the decision of request c moved the row
          file,       \* file[f]: state of the evidence row
          object,     \* objects in the evidence bucket
          aged,       \* uploads older than EvidenceOrphanAge
          orphans     \* uploads the cleaner listed

recordVars == <<row, told, asked, calls, answered, found, keys, applied, file, object, aged, orphans>>
rowOnly == <<told, asked, calls, answered, found, keys, applied, file, object, aged, orphans>>
evidenceOnly == <<row, told, asked, calls, answered, found, keys, applied>>

NewShipment ==
    [status |-> "pending", version |-> 1, failed |-> 0, ref |-> 0,
     operation |-> FALSE, redacted |-> FALSE]

Final == {"delivered", "cancelled", "returned", "lost"}

ExceptionFor(to) == IF to \in {"returned", "lost"} THEN {to} ELSE {}

\* Compare-and-set on the status and the version read under the lock.
Transition(to, change) ==
    /\ to \in shipmentTransitions[row.status] /\ row.version < MaxVersion
    /\ row' = [change EXCEPT !.status = to, !.version = row.version + 1]
    /\ told' = told \cup ExceptionFor(to)

RecordsInit ==
    /\ row = NewShipment /\ told = {}
    /\ asked = None
    /\ calls = 0 /\ answered = FALSE /\ found = {} /\ keys = {}
    /\ applied = [c \in 1 .. MaxRequests |-> 0]
    /\ file = [f \in Files |-> "none"]
    /\ object = {} /\ aged = {} /\ orphans = {}

-----------------------------------------------------------------------------
(* People.                                                                 *)

\* FailureReport: the version the reporter read, the files it cites; a lost
\* package is declared by an administrator, with the carrier's confirmation.
Reports(kind, cited) ==
    /\ asked = None /\ (kind = "lost" => cited # {})
    /\ asked' = [op |-> kind, expected |-> row.version, files |-> cited]
    /\ UNCHANGED <<row, told, calls, answered, found, keys, applied, file, object, aged, orphans>>

RecordMarkReady == row.status # "ready_to_ship" /\ Transition("ready_to_ship", row)

RecordMarkShipped ==
    /\ row.status \in {"pending", "ready_to_ship", "interception_requested"} /\ row.version + 1 < MaxVersion
    /\ row' = [row EXCEPT !.status = "shipped",
                          !.version = @ + IF row.status = "pending" THEN 2 ELSE 1]
    /\ UNCHANGED told

\* The number itself is left out: the change of the row is what others see.
UpdateTracking ==
    /\ row.status = "shipped" /\ row.version < MaxVersion
    /\ row' = [row EXCEPT !.version = @ + 1]
    /\ UNCHANGED told

RecordRecordFailedAttempt ==
    /\ row.status = "shipped" /\ row.version < MaxVersion
    /\ row' = [row EXCEPT !.failed = @ + 1, !.version = @ + 1]
    /\ told' = told \cup (IF row.failed + 1 >= RecordAttemptLimit THEN {"attempts_exhausted"} ELSE {})

RecordMarkDelivered == Transition("delivered", row)

MarkReturned == Transition("returned", row)

\* Accepted: the package is on its way back; rejected: delivery continues.
RecordApplyInterception(accepted) ==
    /\ row.status = "interception_requested" /\ row.version < MaxVersion
    /\ row' = [row EXCEPT !.status = IF accepted THEN "cancelled" ELSE "shipped", !.version = @ + 1]
    /\ told' = told \cup (IF accepted /\ row.operation THEN {"returned"} ELSE {})

\* act: authorized, then decided on the locked row.
Act ==
    /\ RecordMarkReady \/ RecordMarkShipped \/ UpdateTracking \/ RecordRecordFailedAttempt \/ RecordMarkDelivered \/ MarkReturned
       \/ \E accepted \in BOOLEAN : RecordApplyInterception(accepted)
    /\ UNCHANGED <<asked, calls, answered, found, keys, applied, file, object, aged, orphans>>

\* A report refused by the row, or lost: nothing is changed.
Refused ==
    /\ asked # None /\ asked' = None
    /\ UNCHANGED <<row, told, calls, answered, found, keys, applied, file, object, aged, orphans>>

\* Attach: every cited file still an upload, or the report is refused.
Attachable(cited) == \A f \in cited : file[f] = "uploaded"

SameVersion(expected) == row.version = expected

\* RecordReportFailure on the row the reporter read; its files in its transaction.
RecordReportFailure ==
    /\ asked # None /\ asked' = None
    /\ SameVersion(asked.expected) /\ Attachable(asked.files)
    /\ Transition(asked.op, row)
    /\ file' = [f \in Files |-> IF f \in asked.files THEN "attached" ELSE file[f]]
    /\ UNCHANGED <<calls, answered, found, keys, applied, object, aged, orphans>>

-----------------------------------------------------------------------------
(* The carrier.                                                            *)

\* requestInterception: the carrier answers with a reference, the row takes
\* it when the package is still on its way.
AsksCarrier ==
    /\ row.status = "shipped" /\ calls < MaxRequests /\ ~answered
    /\ calls' = calls + 1 /\ answered' = TRUE
    /\ UNCHANGED <<row, told, asked, found, keys, applied, file, object, aged, orphans>>

InterceptionRequested(operation) ==
    /\ answered /\ answered' = FALSE
    /\ IF row.status = "shipped"
       THEN Transition("interception_requested", [row EXCEPT !.ref = calls, !.operation = @ \/ operation])
       ELSE UNCHANGED <<row, told>>
    /\ UNCHANGED <<asked, calls, found, keys, applied, file, object, aged, orphans>>

\* ProcessCarrierWebhook: the reference finds the shipment; the carrier may
\* send its decision twice, at once or late.
DecisionArrives(nth) ==
    /\ row.ref # 0
    /\ found' = found \cup {[ref |-> row.ref, nth |-> nth]}
    /\ UNCHANGED <<row, told, asked, calls, answered, keys, applied, file, object, aged, orphans>>

Seen(key) == key \in keys

\* Under the row lock: a recorded event is skipped, one that finds the
\* shipment moved on is recorded only.
DecisionApplied(e, accepted) ==
    /\ e \in found /\ found' = found \ {e}
    /\ keys' = keys \cup {e.ref}
    /\ IF ~Seen(e.ref) /\ row.status = "interception_requested"
       THEN /\ RecordApplyInterception(accepted)
            /\ applied' = [applied EXCEPT ![e.ref] = @ + 1]
       ELSE UNCHANGED <<row, told, applied>>
    /\ UNCHANGED <<asked, calls, answered, file, object, aged, orphans>>

\* Order cancelling before handover.
RecordCancelForVendorOrder ==
    /\ Transition("cancelled", row) /\ row.status \in {"pending", "ready_to_ship"}
    /\ UNCHANGED <<asked, calls, answered, found, keys, applied, file, object, aged, orphans>>

\* Buyer details leave a shipment that has been over for long.
MayRedact == row.status \in Final

RedactAddresses ==
    /\ MayRedact /\ ~row.redacted
    /\ row' = [row EXCEPT !.redacted = TRUE]
    /\ UNCHANGED rowOnly

-----------------------------------------------------------------------------
(* Evidence files.                                                         *)

\* UploadEvidence writes the object before its row.
Put(f) ==
    /\ file[f] = "none" /\ f \notin object
    /\ object' = object \cup {f}
    /\ UNCHANGED <<file, aged, orphans>> /\ UNCHANGED evidenceOnly

Create(f) ==
    /\ file[f] = "none" /\ f \in object
    /\ file' = [file EXCEPT ![f] = "uploaded"]
    /\ UNCHANGED <<object, aged, orphans>> /\ UNCHANGED evidenceOnly

\* The row could not be written: its object is deleted.
CreateFails(f) ==
    /\ file[f] = "none" /\ f \in object
    /\ object' = object \ {f}
    /\ UNCHANGED <<file, aged, orphans>> /\ UNCHANGED evidenceOnly

DayPasses(f) ==
    /\ file[f] = "uploaded" /\ f \notin aged
    /\ aged' = aged \cup {f}
    /\ UNCHANGED <<file, object, orphans>> /\ UNCHANGED evidenceOnly

\* CleanEvidence: the list, then one tombstone at a time.
Orphans ==
    /\ orphans = {}
    /\ orphans' = {f \in aged : file[f] = "uploaded"}
    /\ orphans' # {}
    /\ UNCHANGED <<file, object, aged>> /\ UNCHANGED evidenceOnly

AnyState(f) == TRUE
StillUploaded(f) == file[f] = "uploaded"

MarkDeleted(f) ==
    /\ f \in orphans /\ orphans' = orphans \ {f}
    /\ IF StillUploaded(f) THEN /\ file' = [file EXCEPT ![f] = "deleted"]
                                /\ object' = object \ {f}
                           ELSE UNCHANGED <<file, object>>
    /\ UNCHANGED aged /\ UNCHANGED evidenceOnly

-----------------------------------------------------------------------------
RecordsNext ==
    \/ Act \/ Refused \/ RecordReportFailure
    \/ \E kind \in {"returned", "lost"}, cited \in SUBSET Files : Reports(kind, cited)
    \/ AsksCarrier \/ RecordCancelForVendorOrder \/ RedactAddresses \/ Orphans
    \/ \E operation \in BOOLEAN : InterceptionRequested(operation)
    \/ \E nth \in 1 .. 2 : DecisionArrives(nth)
    \/ \E e \in found, accepted \in BOOLEAN : DecisionApplied(e, accepted)
    \/ \E f \in Files : Put(f) \/ Create(f) \/ CreateFails(f) \/ DayPasses(f) \/ MarkDeleted(f)

RecordsSpec == RecordsInit /\ [][RecordsNext]_recordVars

-----------------------------------------------------------------------------
\* A package is declared lost only on the carrier's confirmation, and that
\* file (like every file a report cites) stays in the bucket, whatever the
\* cleaner had listed before (CleanEvidence, attachEvidence).
LostIsProven ==
    /\ row.status = "lost" => \E f \in Files : file[f] = "attached"
    /\ \A f \in Files : file[f] = "attached" => f \in object

\* The decision on one interception moves the shipment at most once, however
\* often and however late the carrier repeats it (ProcessCarrierWebhook).
EachDecisionAppliedOnce == \A c \in 1 .. MaxRequests : applied[c] <= 1

-----------------------------------------------------------------------------
(***************************************************************************)
(* Cancelling a paid package before it is handed over: the request, its    *)
(* decision, stopping the package at Shipment, putting the stock back and  *)
(* refunding, against the shop that is about to hand the package over.     *)
(* Order's transactions and Shipment's are separate; the calls between     *)
(* them may be repeated and other steps fall in between.                   *)
(***************************************************************************)
CONSTANTS MaxCancellations,  \* bound: requests for the package
          MaxDisputes        \* bound: dispute refunds an admin asks for

VARIABLES claim,        \* vendor_orders.handover_shipment_id, 0 when unclaimed
          cancel,       \* the latest cancellation request
          creating,     \* a request to open the shipment is under way
          stopAnswer,   \* Shipment's answer to the stop under way
          restocked     \* recoveries Inventory applied

cancelVars == <<claim, cancel, creating, stopAnswer, restocked>>
cancellationVars == <<lifecycleVars, shipmentVars, cancelVars>>

\* The one vendor order.
vo == CHOOSE v \in VendorOrders : TRUE

NoCancellation == [id |-> 0, status |-> "none", restock |-> FALSE, stop |-> "none", refund |-> 0, intercept |-> FALSE]

cancellationTransitions ==
    [preparing |-> {"requested", "rejected"}, requested |-> {"stopping", "rejected"},
     stopping |-> {"approved", "needs_review"}, approved |-> {"refund_pending", "resolved"},
     refund_pending |-> {"resolved", "needs_review"},
     needs_review |-> {"refund_pending", "rejected", "resolved", "transferred"}]

CancellationOpen == cancel.status \in DOMAIN cancellationTransitions

CheckCancellableUnclaimed(claimed) == voStatus[vo] \in {"paid", "processing"}

\* Only a paid package not handed over and not claimed can be cancelled.
CheckCancellable(claimed) == voStatus[vo] \in {"paid", "processing"} /\ ~claimed

orderUnchanged == UNCHANGED lifecycleVars

-----------------------------------------------------------------------------
(* The shipment of a paid package.                                         *)

\* The create_shipment effect: skipped, for good, while a cancellation is
\* open; otherwise the request reaches Shipment later (createdAtShipment).
createShipment ==
    /\ Effect("create_shipment", vo) \in effects.pending
    /\ creating' = (creating \/ (Fulfillable(vo) /\ ~CancellationOpen))
    /\ effects' = MarkDone(effects, Effect("create_shipment", vo))
    /\ UNCHANGED <<orderStatus, voStatus, completed, moneyVars, settled, shipmentVars, claim, cancel, stopAnswer, restocked>>

\* The shop's fallback: Order's answer decides whether the package may
\* ship, then the shipment is created.
CreateOrGet ==
    /\ ~creating /\ attempts = <<>>
    /\ Fulfillable(vo) /\ ~CancellationOpen
    /\ creating' = TRUE
    /\ orderUnchanged /\ UNCHANGED <<shipmentVars, claim, cancel, stopAnswer, restocked>>

createdAtShipment ==
    /\ creating
    /\ creating' = FALSE
    /\ resolveAndCreate
    /\ orderUnchanged /\ UNCHANGED <<claim, cancel, stopAnswer, restocked>>

cancelShipmentEffect ==
    /\ Effect("cancel_shipment", vo) \in effects.pending
    /\ CancelForVendorOrder
    /\ effects' = MarkDone(effects, Effect("cancel_shipment", vo))
    /\ UNCHANGED <<orderStatus, voStatus, completed, moneyVars, settled, cancelVars>>

\* Order's grant, under the order lock, before the package is handed over.
ClaimHandover(n) ==
    /\ Fulfillable(vo)
    /\ ~CancellationOpen
    /\ claim' = IF claim = 0 THEN n ELSE claim
    /\ HandoverGranted(n)
    /\ orderUnchanged /\ UNCHANGED <<cancel, creating, stopAnswer, restocked>>

-----------------------------------------------------------------------------
(* The request and its decision.                                           *)

RequestCancellation ==
    /\ ~CancellationOpen
    /\ cancel.id < MaxCancellations
    /\ CheckCancellable(claim # 0)
    /\ cancel' = [NoCancellation EXCEPT !.id = cancel.id + 1, !.status = "preparing"]
    /\ orderUnchanged /\ UNCHANGED <<shipmentVars, claim, creating, stopAnswer, restocked>>

\* Payment confirmed the payout hold, or flagged it for review.
acquireCancellationHold ==
    /\ cancel.status = "preparing"
    /\ cancel' = [cancel EXCEPT !.status = "requested"]
    /\ orderUnchanged /\ UNCHANGED <<shipmentVars, claim, creating, stopAnswer, restocked>>

Approve(restock) ==
    /\ cancel.status = "requested"
    /\ cancel' = [cancel EXCEPT !.status = "stopping", !.restock = restock]
    /\ effects' = Enqueue(effects, {Effect("stop_fulfillment", cancel.id)})
    /\ UNCHANGED <<orderStatus, voStatus, completed, moneyVars, settled, shipmentVars, claim, creating, stopAnswer, restocked>>

Reject ==
    /\ cancel.refund = 0
    /\ cancel.status \in {"preparing", "requested", "needs_review"}
    /\ cancel' = [cancel EXCEPT !.status = "rejected"]
    /\ orderUnchanged /\ UNCHANGED <<shipmentVars, claim, creating, stopAnswer, restocked>>

Intercept ==
    /\ cancel.status = "needs_review" /\ cancel.stop = "handed_over"
    /\ cancel.refund = 0 /\ ~cancel.intercept
    /\ cancel' = [cancel EXCEPT !.intercept = TRUE]
    /\ effects' = Enqueue(effects, {Effect("intercept_shipment", cancel.id)})
    /\ UNCHANGED <<orderStatus, voStatus, completed, moneyVars, settled, shipmentVars, claim, creating, stopAnswer, restocked>>

\* What is left of the vendor order is refunded through Payment; with
\* nothing refundable the request is resolved.
requestCancellationRefund(c, es) ==
    IF refundableFor(vo) > 0
    THEN /\ createRefund(vo, refundableFor(vo), "cancellation", es)
         /\ cancel' = [c EXCEPT !.status = "refund_pending", !.refund = Len(refunds) + 1]
    ELSE /\ cancel' = [c EXCEPT !.status = "resolved"]
         /\ effects' = es
         /\ UNCHANGED <<refunds, payment>>

RetryRefund ==
    /\ cancel.status = "needs_review" /\ cancel.refund # 0
    /\ requestCancellationRefund(cancel, effects)
    /\ UNCHANGED <<orderStatus, voStatus, completed, refunded, settled, shipmentVars, claim, creating, stopAnswer, restocked>>

\* The stop effect asks Shipment ...
AskStop ==
    /\ Effect("stop_fulfillment", cancel.id) \in effects.pending
    /\ cancel.status = "stopping"
    /\ stopAnswer = "none"
    /\ stopAnswer' = StopResult
    /\ StopFulfillment
    /\ orderUnchanged /\ UNCHANGED <<claim, cancel, creating, restocked>>

\* ... and records the answer under the order lock.
stopFulfillment ==
    LET done == MarkDone(effects, Effect("stop_fulfillment", cancel.id))
        c    == [cancel EXCEPT !.stop = stopAnswer]
    IN /\ cancel.status = "stopping"
       /\ stopAnswer # "none"
       /\ stopAnswer' = "none"
       /\ IF stopAnswer # "stopped"
          THEN /\ cancel' = [c EXCEPT !.status = "needs_review"]
               /\ effects' = done
               /\ UNCHANGED <<refunds, payment>>
          ELSE requestCancellationRefund(c, IF c.restock THEN Enqueue(done, {Effect("recover_cancelled_stock", c.id)}) ELSE done)
       /\ UNCHANGED <<orderStatus, voStatus, completed, refunded, settled, shipmentVars, claim, creating, restocked>>

interceptShipment ==
    /\ Effect("intercept_shipment", cancel.id) \in effects.pending
    /\ IF cancel.status = "needs_review" THEN InterceptFulfillment ELSE UNCHANGED shipmentVars
    /\ effects' = MarkDone(effects, Effect("intercept_shipment", cancel.id))
    /\ UNCHANGED <<orderStatus, voStatus, completed, moneyVars, settled, cancelVars>>

\* Inventory applies a recovery id once, however often the effect runs.
recoverCancelledStock ==
    /\ Effect("recover_cancelled_stock", cancel.id) \in effects.pending
    /\ restocked' = restocked \cup {"cancellation"}
    /\ effects' = MarkDone(effects, Effect("recover_cancelled_stock", cancel.id))
    /\ UNCHANGED <<orderStatus, voStatus, completed, moneyVars, settled, shipmentVars, claim, cancel, creating, stopAnswer>>

\* The request follows its refund's outcome, in the outcome's transaction.
syncCancellationRefund(r, succeeded) ==
    cancel' = IF cancel.refund = r /\ cancel.status = "refund_pending"
              THEN [cancel EXCEPT !.status = IF succeeded THEN "resolved" ELSE "needs_review"]
              ELSE cancel

RefundAnswered(r) ==
    /\ RefundOutcomeArrives(r) \/ RejectRefund(r)
    /\ syncCancellationRefund(r, payment[r] = "succeeded")
    /\ UNCHANGED <<shipmentVars, claim, creating, stopAnswer, restocked>>

-----------------------------------------------------------------------------
\* Order's transactions that touch neither Shipment nor the request.
OrderAlone ==
    /\ \/ UpdateVendorOrderStatus(vo) \/ settleVendorOrder(vo)
       \/ Len(refunds) < MaxDisputes /\ AdminRequestRefund(vo, refundableFor(vo)) /\ refundableFor(vo) > 0
       \/ \E r \in RefundIds : SubmitRefund(r) \/ RecordSubmitted(r) \/ PaymentDecides(r)
    /\ UNCHANGED <<shipmentVars, cancelVars>>

\* The outbox hands Order a fact; a refusal (409) parks it.
FactArrives(e) ==
    /\ Dispatchable(e) /\ e.type \in DOMAIN shipmentPaths
    /\ \/ ApplyShipmentEvent(vo, e.type) /\ Dispatched(e, "delivered")
       \/ ~EventAccepted(vo, e.type) /\ Dispatched(e, "review") /\ UNCHANGED <<orderStatus, voStatus, completed, effects>>
    /\ UNCHANGED <<moneyVars, settled, attempts, handing, cancelVars>>

CancellationStep ==
    \/ createShipment \/ CreateOrGet \/ createdAtShipment \/ cancelShipmentEffect
    \/ \E n \in Attempts : ClaimHandover(n)
    \/ RequestCancellation \/ acquireCancellationHold \/ \E restock \in BOOLEAN : Approve(restock)
    \/ Reject \/ Intercept \/ RetryRefund \/ AskStop \/ stopFulfillment \/ interceptShipment \/ recoverCancelledStock
    \/ \E r \in RefundIds : RefundAnswered(r)
    \/ OrderAlone
    \/ \E e \in outbox : FactArrives(e) \/ (Requeue(e) /\ orderUnchanged /\ UNCHANGED cancelVars)
    \/ ShopMoves /\ orderUnchanged /\ UNCHANGED cancelVars

\* A paid order whose shipment is still to be created, or a package handed
\* over before handover claims were recorded, its "shipped" still unsent.
NoShipmentInit == attempts = <<>> /\ outbox = {}

CancelInit ==
    /\ handing = {} /\ claim = 0 /\ cancel = NoCancellation
    /\ creating = FALSE /\ stopAnswer = "none" /\ restocked = {}

PaidInit ==
    /\ orderStatus = "paid" /\ voStatus = [v \in VendorOrders |-> "paid"]
    /\ completed = {} /\ settled = {} /\ refunded = [v \in VendorOrders |-> 0]
    /\ refunds = <<>> /\ payment = <<>>
    /\ LET created(vs) == {Effect("create_shipment", v) : v \in vs} IN
       \/ /\ NoShipmentInit
          /\ effects = [pending |-> created({vo}), done |-> created(VendorOrders \ {vo}), parked |-> {}]
       \/ /\ attempts = <<[NewAttempt EXCEPT !.status = "shipped", !.handed = TRUE]>>
          /\ outbox = {[n |-> 1, type |-> "shipped", state |-> "pending"]}
          /\ effects = [pending |-> {}, done |-> created(VendorOrders), parked |-> {}]

CancellationInit == PaidInit /\ CancelInit

CancellationSpec == CancellationInit /\ [][CancellationStep]_cancellationVars

-----------------------------------------------------------------------------
(* The fence between a cancellation and the handover, whose two halves are *)
(* in two services: a package whose cancellation is open is with the       *)
(* carrier, or about to be, only if it was handed over before claims were  *)
(* recorded.                                                               *)
FenceHolds ==
    CancellationOpen => /\ \A n \in Attempts : attempts[n].handed => claim = 0
                        /\ handing # {} => \E n \in Attempts : attempts[n].handed

(* StopFulfillment's "stopped": never handed over, the package will not    *)
(* ship, so that its stock can be put back.  The code breaks it: an        *)
(* approved cancellation whose vendor order is under a dispute refund      *)
(* finds nothing left to refund, is resolved and restocks at once; the     *)
(* vendor order is fulfillable again while the dispute goes on, and for    *)
(* good once that refund fails.                                            *)
StoppedNeverShips ==
    (cancel.stop = "stopped" /\ attempts # <<>>) => ~attempts[LatestAttempt].handed

(* As long as the cancellation's own refund is the only one asked for, a   *)
(* stopped package never ships, through failed and retried refunds, late   *)
(* creations of the shipment and the shop's fallback.                      *)
StoppedStaysStopped ==
    (\A r \in RefundIds : refunds[r].reason # "dispute") => StoppedNeverShips

-----------------------------------------------------------------------------
(***************************************************************************)
(* A package the carrier could not deliver: the case Order opens on        *)
(* Shipment's report, the goods that come back, and its three ends - the   *)
(* package is redelivered as a new attempt, the buyer is refunded and the  *)
(* sellable goods return to stock, or the carrier delivered after all.     *)
(* Reports of one attempt reach Order in any order.                        *)
(***************************************************************************)
CONSTANT RedeliveryLimit   \* redeliveries a case allows (delivery-resolution-v1: 1)

VARIABLES dx,         \* the case; a vendor order meets one (its end is final)
          receipts,   \* [attempt -> what the shop recorded of the goods back]
          replacing   \* Shipment's answer to the redelivery under way

deliveryVars == <<dx, receipts, replacing>>
exceptionVars == <<cancellationVars, deliveryVars>>

NoCase == [status |-> "none", shipment |-> 0, current |-> 0, outcome |-> "none", resolution |-> "none", count |-> 0,
           replacement |-> 0, refund |-> 0, recovery |-> FALSE, late |-> FALSE, hold |-> "none"]

deliveryExceptionTransitions ==
    [investigating |-> {"awaiting_goods", "refund_pending", "needs_review", "resolved"},
     awaiting_goods |-> {"investigating", "awaiting_buyer", "refund_pending", "needs_review", "resolved"},
     awaiting_buyer |-> {"redelivery_pending", "refund_pending", "needs_review"},
     redelivery_pending |-> {"investigating", "awaiting_goods", "needs_review", "resolved"},
     refund_pending |-> {"awaiting_goods", "needs_review", "resolved"},
     needs_review |-> {"investigating", "awaiting_goods", "refund_pending", "resolved"}]

CaseOpen == dx.status \in DOMAIN deliveryExceptionTransitions

CanTransitionDeliveryException(from, to) == to \in deliveryExceptionTransitions[from]

exceptionFacts == [exception_attempts_exhausted |-> "attempts_exhausted", exception_returned |-> "returned",
                   exception_lost |-> "lost"]

StatusForFact(fact) == IF fact = "returned" THEN "awaiting_goods" ELSE "investigating"

GoodsBack(d) == d.outcome = "returned"

CarrierFinal(d) == d.outcome \in {"returned", "lost"}

\* What the shop may record: all units sellable, some, or none.
Conditions == {"sellable", "partly", "damaged"}

AllSellable(n) == receipts[n] = "sellable"

SellableByItem(n) == receipts[n] \in {"sellable", "partly"}

\* One transition of the case (or a step in the same status); hold release
\* follows from a resolved case.
moveDelivery(d) ==
    /\ d.status # dx.status => CanTransitionDeliveryException(dx.status, d.status)
    /\ dx' = d

releaseDeliveryHold(d) == [d EXCEPT !.hold = IF @ \in {"preparing", "active"} THEN "releasing" ELSE @]

-----------------------------------------------------------------------------
(* Shipment's facts.                                                       *)

transferCancellation ==
    cancel' = IF cancel.status = "needs_review" /\ cancel.intercept THEN [cancel EXCEPT !.status = "transferred"] ELSE cancel

\* A later fact of the open case: the same attempt, or its redelivery.
applyFactToOpen(n, fact) ==
    LET d == [dx EXCEPT !.current = n, !.outcome = fact,
                        !.status = IF @ \in {"investigating", "redelivery_pending"} THEN StatusForFact(fact) ELSE @]
    IN IF (n = dx.current /\ fact # dx.outcome) \/ (n # dx.current /\ n = dx.replacement)
       THEN moveDelivery(d) ELSE UNCHANGED dx

ApplyShipmentException(n, fact) ==
    IF CaseOpen
    THEN applyFactToOpen(n, fact) /\ UNCHANGED cancel
    ELSE IF dx.status = "none" /\ voStatus[vo] \in {"paid", "processing", "shipped"}
         THEN /\ dx' = [NoCase EXCEPT !.status = StatusForFact(fact), !.shipment = n, !.current = n, !.outcome = fact,
                                      !.hold = "preparing"]
              /\ transferCancellation
         ELSE UNCHANGED <<dx, cancel>>

ExceptionArrives(e) ==
    /\ Dispatchable(e) /\ e.type \in DOMAIN exceptionFacts
    /\ ApplyShipmentException(e.n, exceptionFacts[e.type])
    /\ Dispatched(e, "delivered")
    /\ UNCHANGED <<lifecycleVars, attempts, handing, claim, creating, stopAnswer, restocked, receipts, replacing>>

\* The delivered fact meets an open case: the redelivery arrived, or the
\* carrier delivered after all.
noteDeliveredForException(n) ==
    IF CaseOpen /\ n = dx.replacement /\ dx.status = "redelivery_pending"
    THEN moveDelivery(releaseDeliveryHold([dx EXCEPT !.current = n, !.outcome = "delivered", !.status = "resolved"]))
    ELSE IF CaseOpen /\ n \in {dx.current, dx.shipment}
         THEN LET d == [dx EXCEPT !.late = TRUE, !.outcome = "delivered"]
              IN dx' = IF CanTransitionDeliveryException(dx.status, "needs_review")
                       THEN [d EXCEPT !.status = "needs_review"] ELSE d
         ELSE UNCHANGED dx

\* Shipped and delivered facts, as above; a delivered fact an
\* off-path vendor order skips is settled all the same.
ShipmentFactArrives(e) ==
    /\ Dispatchable(e) /\ e.type \in DOMAIN shipmentPaths
    /\ \/ /\ EventAccepted(vo, e.type)
          /\ ApplyShipmentEvent(vo, e.type)
          /\ IF e.type = "delivered" THEN noteDeliveredForException(e.n) ELSE UNCHANGED dx
          /\ Dispatched(e, "delivered")
       \/ /\ ~EventAccepted(vo, e.type)
          /\ e.type = "delivered" /\ CaseOpen /\ e.n \in {dx.current, dx.shipment}
          /\ noteDeliveredForException(e.n)
          /\ Dispatched(e, "delivered") /\ UNCHANGED <<orderStatus, voStatus, completed, effects>>
       \/ /\ ~EventAccepted(vo, e.type)
          /\ ~(e.type = "delivered" /\ CaseOpen /\ e.n \in {dx.current, dx.shipment})
          /\ Dispatched(e, "review") /\ UNCHANGED <<orderStatus, voStatus, completed, effects, dx>>
    /\ UNCHANGED <<moneyVars, settled, attempts, handing, cancelVars, receipts, replacing>>

\* Payment confirmed the payout hold (or flagged it for review) ...
acquireDeliveryHold ==
    /\ dx.hold = "preparing"
    /\ dx' = [dx EXCEPT !.hold = "active"]
    /\ UNCHANGED <<cancellationVars, receipts, replacing>>

\* ... and its release.
releaseDeliveryHoldEffect ==
    /\ dx.hold = "releasing"
    /\ dx' = [dx EXCEPT !.hold = "released"]
    /\ UNCHANGED <<cancellationVars, receipts, replacing>>

requireDeliveryHold == dx.hold # "preparing"

-----------------------------------------------------------------------------
(* The goods and the decisions.                                            *)

finishDelivery(d) ==
    releaseDeliveryHold([d EXCEPT !.status = "resolved", !.recovery = GoodsBack(d) /\ SellableByItem(d.current)])

\* Whether the goods are still to be recorded, after the buyer's refund.
afterDeliveryRefund(d) ==
    IF GoodsBack(d) /\ receipts[d.current] = "none" THEN [d EXCEPT !.status = "awaiting_goods"] ELSE finishDelivery(d)

StockEffects(d) == IF d.recovery THEN {Effect("recover_delivery_stock", 0)} ELSE {}

RecordGoodsReceipt(actor, condition) ==
    /\ CaseOpen /\ GoodsBack(dx) /\ ~dx.recovery
    /\ receipts[dx.current] = "none" \/ actor = "admin"
    /\ receipts' = [receipts EXCEPT ![dx.current] = condition]
    /\ LET refundedAlready == dx.status = "awaiting_goods" /\ dx.resolution = "refund" /\ dx.refund # 0
           sellable == condition # "damaged"
           d == IF refundedAlready
                THEN releaseDeliveryHold([dx EXCEPT !.status = "resolved", !.recovery = sellable]) ELSE dx
       IN moveDelivery(d) /\ effects' = Enqueue(effects, StockEffects(d))
    /\ UNCHANGED <<orderStatus, voStatus, completed, moneyVars, settled, shipmentVars, cancelVars, replacing>>

checkRedelivery ==
    /\ dx.resolution # "refund"
    /\ dx.status \in {"awaiting_goods", "needs_review"}
    /\ GoodsBack(dx)
    /\ dx.count < RedeliveryLimit
    /\ requireDeliveryHold
    /\ AllSellable(dx.current)

Redeliver ==
    /\ CaseOpen /\ checkRedelivery
    /\ moveDelivery([dx EXCEPT !.resolution = "redelivery", !.status = "awaiting_buyer"])
    /\ UNCHANGED <<cancellationVars, receipts, replacing>>

\* What is left of the vendor order is refunded; with nothing left the case
\* goes on as after a refund.
requestDeliveryRefund(d) ==
    /\ IF refundableFor(vo) > 0
       THEN /\ createRefund(vo, refundableFor(vo), "delivery_exception", effects)
            /\ moveDelivery([d EXCEPT !.refund = Len(refunds) + 1, !.status = "refund_pending"])
       ELSE /\ moveDelivery(afterDeliveryRefund(d))
            /\ effects' = Enqueue(effects, StockEffects(afterDeliveryRefund(d)))
            /\ UNCHANGED <<refunds, payment>>
    /\ UNCHANGED <<orderStatus, voStatus, completed, refunded, settled, shipmentVars, cancelVars, receipts, replacing>>

RefundBuyer ==
    /\ CaseOpen /\ dx.refund = 0
    /\ dx.status \in {"investigating", "awaiting_goods", "awaiting_buyer", "needs_review"}
    /\ CarrierFinal(dx)
    /\ requireDeliveryHold
    /\ requestDeliveryRefund([dx EXCEPT !.resolution = "refund"])

RetryDeliveryRefund ==
    /\ dx.status = "needs_review" /\ dx.refund # 0 /\ ~dx.late
    /\ refunds[dx.refund].status \in {"failed", "rejected"}
    /\ requestDeliveryRefund(dx)

CloseDelivered ==
    /\ CaseOpen /\ dx.late /\ dx.outcome = "delivered"
    /\ dx.status # "refund_pending"
    /\ dx.refund # 0 => refunds[dx.refund].status \in {"succeeded", "failed", "rejected"}
    /\ moveDelivery(releaseDeliveryHold([dx EXCEPT !.resolution = IF @ = "none" THEN "closed" ELSE @, !.status = "resolved"]))
    /\ UNCHANGED <<cancellationVars, receipts, replacing>>

\* The case follows its refund, in the outcome's transaction.
syncDeliveryRefund(succeeded) ==
    CASE dx.status = "refund_pending" /\ succeeded -> afterDeliveryRefund(dx)
      [] dx.status = "refund_pending" /\ ~succeeded -> [dx EXCEPT !.status = "needs_review"]
      [] OTHER -> dx

DeliveryRefundAnswered(r) ==
    /\ IF dx.refund = r
       THEN LET d == syncDeliveryRefund(payment[r] = "succeeded")
            IN /\ moveDelivery(d)
               /\ \/ /\ payment[r] \in {"succeeded", "failed"}
                     /\ ApplyRefundOutcome(r, payment[r], Enqueue(effects, StockEffects(d)))
                     /\ UNCHANGED <<completed, payment, settled>>
                  \/ RejectRefund(r)
               /\ UNCHANGED <<shipmentVars, cancelVars>>
       ELSE RefundAnswered(r) /\ UNCHANGED dx
    /\ UNCHANGED <<receipts, replacing>>

ConsentRedelivery(accept) ==
    /\ dx.status = "awaiting_buyer"
    /\ IF accept
       THEN /\ moveDelivery([dx EXCEPT !.count = @ + 1, !.replacement = 0, !.status = "redelivery_pending"])
            /\ effects' = Enqueue(effects, {Effect("create_replacement_attempt", dx.count + 1)})
       ELSE moveDelivery([dx EXCEPT !.status = "needs_review"]) /\ UNCHANGED effects
    /\ UNCHANGED <<orderStatus, voStatus, completed, moneyVars, settled, shipmentVars, cancelVars, receipts, replacing>>

\* The redelivery effect asks Shipment for the next attempt, once per
\* operation ...
AskReplacement ==
    /\ Effect("create_replacement_attempt", dx.count) \in effects.pending
    /\ dx.status = "redelivery_pending" /\ dx.replacement = 0 /\ replacing = "none"
    /\ IF LatestAttempt > dx.current
       THEN replacing' = "created" /\ UNCHANGED shipmentVars
       ELSE IF ReplacementAccepted(dx.current)
            THEN replacing' = "created" /\ CreateReplacementAttempt(dx.current)
            ELSE replacing' = "refused" /\ UNCHANGED shipmentVars
    /\ UNCHANGED <<lifecycleVars, cancelVars, dx, receipts>>

\* ... and records the answer; the worker may stop in between and ask again.
createReplacementAttempt ==
    /\ replacing # "none"
    /\ replacing' = "none"
    /\ \/ UNCHANGED <<effects, dx>>
       \/ /\ effects' = MarkDone(effects, Effect("create_replacement_attempt", dx.count))
          /\ IF dx.status # "redelivery_pending" \/ dx.replacement # 0 THEN UNCHANGED dx
             ELSE IF replacing = "refused" THEN moveDelivery([dx EXCEPT !.status = "needs_review"])
                  ELSE moveDelivery([dx EXCEPT !.replacement = dx.current + 1])
    /\ UNCHANGED <<orderStatus, voStatus, completed, moneyVars, settled, shipmentVars, cancelVars, receipts>>

\* Sellable goods go back once per case and item.
recoverDeliveryStock ==
    /\ Effect("recover_delivery_stock", 0) \in effects.pending
    /\ restocked' = IF dx.recovery THEN restocked \cup {"delivery"} ELSE restocked
    /\ effects' = MarkDone(effects, Effect("recover_delivery_stock", 0))
    /\ UNCHANGED <<orderStatus, voStatus, completed, moneyVars, settled, shipmentVars, claim, cancel, creating, stopAnswer, deliveryVars>>

\* With a case open only its recorded redelivery may ship; without one the
\* usual rules apply.
deliveryHandoverAllowed(n) ==
    IF CaseOpen
    THEN /\ dx.status = "redelivery_pending" /\ dx.replacement = n
         /\ HandoverGranted(n)
         /\ UNCHANGED <<lifecycleVars, cancelVars>>
    ELSE ClaimHandover(n)

-----------------------------------------------------------------------------
ExceptionStep ==
    \/ acquireDeliveryHold \/ releaseDeliveryHoldEffect
    \/ \E actor \in {"vendor", "admin"}, c \in Conditions : RecordGoodsReceipt(actor, c)
    \/ Redeliver \/ RefundBuyer \/ RetryDeliveryRefund \/ CloseDelivered
    \/ \E accept \in BOOLEAN : ConsentRedelivery(accept)
    \/ AskReplacement \/ createReplacementAttempt \/ recoverDeliveryStock
    \/ \E r \in RefundIds : DeliveryRefundAnswered(r)
    \/ \E e \in outbox : ExceptionArrives(e) \/ ShipmentFactArrives(e)
    \/ \E n \in Attempts : deliveryHandoverAllowed(n) /\ UNCHANGED deliveryVars
    \/ /\ \/ OrderAlone \/ createShipment \/ CreateOrGet \/ createdAtShipment \/ cancelShipmentEffect
          \/ RequestCancellation \/ acquireCancellationHold \/ \E restock \in BOOLEAN : Approve(restock)
          \/ Reject \/ Intercept \/ RetryRefund \/ AskStop \/ stopFulfillment \/ interceptShipment \/ recoverCancelledStock
          \/ \E e \in outbox : Requeue(e) /\ orderUnchanged /\ UNCHANGED cancelVars
          \/ ShopMoves /\ orderUnchanged /\ UNCHANGED cancelVars
       /\ UNCHANGED deliveryVars

\* A paid order, or a package handed over before claims were recorded.
DeliveryInit ==
    /\ CancelInit
    /\ dx = NoCase /\ receipts = [n \in 1 .. MaxAttempts |-> "none"] /\ replacing = "none"

ExceptionInit == PaidInit /\ DeliveryInit

ExceptionSpec == ExceptionInit /\ [][ExceptionStep]_exceptionVars

-----------------------------------------------------------------------------
(* Goods put back on sale are at the shop: the last attempt of the package *)
(* was never handed over, came back or was stopped on its way, however the *)
(* facts, the receipts, the redelivery and the refunds were ordered, a     *)
(* dispute's among them.  The one exception is the package stopped for a   *)
(* cancellation beside a dispute that ships after all (StoppedNeverShips). *)
RestockedGoodsAreBack ==
    (restocked # {} /\ attempts # <<>> /\ StoppedNeverShips) =>
        LET last == attempts[LatestAttempt] IN last.handed => last.status \in {"returned", "cancelled"}

(* A buyer the case refunds gets no redelivery: with the case's refund     *)
(* open or paid, no attempt of the package is on its way to the buyer or   *)
(* can still be handed over.                                               *)
RefundedIsNotRedelivered ==
    (dx.refund # 0 /\ RefundOpen(refunds[dx.refund].status)) =>
        \A n \in Attempts : n > dx.current => attempts[n].status \notin {"shipped", "delivered"} /\ n \notin handing

(* Goods and money of an unhappy delivery agree.                           *)
GoodsAndMoneyAgree ==
    FenceHolds /\ StoppedStaysStopped /\ RestockedGoodsAreBack /\ RefundedIsNotRedelivered
=============================================================================
