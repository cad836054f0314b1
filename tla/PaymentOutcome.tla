--------------------------- MODULE PaymentOutcome ---------------------------
(***************************************************************************)
(* How a payment's outcome reaches its order: Payment's intents and the    *)
(* payment_order_sync outbox, Order's verdict on a capture or a failure,   *)
(* and the way back for an outcome Order refused.                          *)
(*                                                                         *)
(* Payment delivers either over HTTP, where the answer is the verdict, or  *)
(* over the event bus (UseBus), where delivery only means "published" and  *)
(* a refusal comes back as an event of its own.  The bus is used through   *)
(* its promise (EventDelivery), Inventory through its own (Reservation).   *)
(*                                                                         *)
(* Orders here have been made ready with their stock held, since no intent *)
(* is opened before.  An intent's amount is the order's total, so a        *)
(* capture that disagrees with it ends as a rejected receipt at Payment    *)
(* and never gets this far.                                                *)
(*                                                                         *)
(* MarkPaid without a capture (payment_outcome.go:55-67) is left out: only *)
(* Payment builds from before the contract call it so, none of this        *)
(* repository does.                                                        *)
(***************************************************************************)
EXTENDS Naturals, FiniteSets

CONSTANTS
    Orders,
    Payments,     \* payment intents
    OrderOf,      \* the order an intent is for
    UseBus        \* bus.Publish: outcomes go over the event bus

ASSUME OrderOfAssumption == OrderOf \in [Payments -> Orders]
ASSUME UseBusAssumption == UseBus \in BOOLEAN

VARIABLES
    intent,       \* payment_intents.status
    sync,         \* payment_order_sync, by intent
    sent,         \* HTTP calls that may still arrive
    order,        \* orders.status
    record,       \* order_payments, by intent
    receipt,      \* Inventory's receipt, by order
    event,        \* payment.outcome events, by intent and outcome
    report,       \* the report_rejected_outcome effect of an intent
    rejection     \* order.payment_outcome_rejected events, by intent

vars == <<intent, sync, sent, order, record, receipt, event, report, rejection>>
paymentVars == <<intent, sync, sent>>
orderVars == <<order, record, receipt>>
busVars == <<event, report, rejection>>

Outcomes == {"captured", "failed"}
OutcomeEvents == Payments \X Outcomes

Inv == INSTANCE Reservation
Bus == INSTANCE EventDelivery WITH Events <- OutcomeEvents
Back == INSTANCE EventDelivery WITH Events <- Payments, event <- rejection

TypeOK ==
    /\ intent \in [Payments -> {"none", "open", "expired", "failed", "captured"}]
    /\ sync \in [Payments -> [row : {"none", "pending", "review", "delivered"},
                              outcome : Outcomes \cup {"none"}]]
    /\ sent \subseteq OutcomeEvents
    /\ order \in [Orders -> {"pending_payment", "paid", "cancelled"}]
    /\ record \in [Payments -> {"none", "applied", "rejected"}]
    /\ Inv!ReceiptTypeOK
    /\ Bus!EventTypeOK
    /\ report \in [Payments -> [status : {"none", "pending", "done", "parked"},
                                about : Outcomes \cup {"none"}]]
    /\ Back!EventTypeOK

Init ==
    /\ intent = [p \in Payments |-> "none"]
    /\ sync = [p \in Payments |-> [row |-> "none", outcome |-> "none"]]
    /\ sent = {}
    /\ order = [o \in Orders |-> "pending_payment"]
    /\ record = [p \in Payments |-> "none"]
    /\ receipt = [o \in Orders |-> "held"]
    /\ Bus!Init
    /\ report = [p \in Payments |-> [status |-> "none", about |-> "none"]]
    /\ Back!Init

Siblings(p) == {q \in Payments : OrderOf[q] = OrderOf[p]}

----------------------------------------------------------------------------
(* Payment: intents and provider receipts.                                 *)

(* CreateIntent for a payable order; at most one intent of it is open.     *)
CreateIntent(p) ==
    /\ intent[p] = "none"
    /\ order[OrderOf[p]] = "pending_payment" /\ receipt[OrderOf[p]] = "held"
    /\ \A q \in Siblings(p) : intent[q] # "open"
    /\ intent' = [intent EXCEPT ![p] = "open"]
    /\ UNCHANGED <<sync, sent, orderVars, busVars>>

(* The provider link closed unpaid, was superseded or never made.          *)
Close(p) ==
    /\ intent[p] = "open"
    /\ intent' = [intent EXCEPT ![p] = "expired"]
    /\ UNCHANGED <<sync, sent, orderVars, busVars>>

(* Mutant: a capture that follows an earlier outcome queues nothing.       *)
QueueOnce(p, outcome) ==
    sync' = [sync EXCEPT ![p] = IF @.row = "none" THEN [row |-> "pending", outcome |-> outcome] ELSE @]

(* The status trigger queues the outcome, replacing the intent's earlier   *)
(* one and whatever became of it.                                          *)
QueueOrderSync(p, outcome) == sync' = [sync EXCEPT ![p] = [row |-> "pending", outcome |-> outcome]]

(* DecideReceipt.  Money that arrived is recorded whatever became of the   *)
(* link; a failure only counts on an open intent.                          *)
ReceiptSucceeded(p) ==
    /\ intent[p] \in {"open", "expired", "failed"}
    /\ intent' = [intent EXCEPT ![p] = "captured"]
    /\ QueueOrderSync(p, "captured")
    /\ UNCHANGED <<sent, orderVars, busVars>>

ReceiptFailed(p) ==
    /\ intent[p] = "open"
    /\ intent' = [intent EXCEPT ![p] = "failed"]
    /\ QueueOrderSync(p, "failed")
    /\ UNCHANGED <<sent, orderVars, busVars>>

----------------------------------------------------------------------------
(* Order's verdict.                                                        *)

(* Mutant: a paid order takes another capture.                             *)
JudgeAnyOrder(p) == order[OrderOf[p]] # "cancelled"

JudgeCapture(p) ==
    /\ order[OrderOf[p]] = "pending_payment"
    /\ \A q \in Siblings(p) : record[q] # "applied"

(* Inventory.Commit answers: done, now or for an earlier attempt.          *)
CommitStock(o) ==
    \/ Inv!Commit(o)
    \/ receipt[o] = "committed" /\ UNCHANGED receipt

(* markPaid: a capture that is already applied is answered again.          *)
AppliesCapture(p) ==
    LET o == OrderOf[p]
    IN  \/ record[p] = "applied" /\ UNCHANGED orderVars
        \/ /\ record[p] = "none" /\ JudgeCapture(p)
           /\ CommitStock(o)
           /\ record' = [record EXCEPT ![p] = "applied"]
           /\ order' = [order EXCEPT ![o] = "paid"]

(* Refused before, not payable, or the stock is not held any more (a hold  *)
(* past its deadline is refused before it is expired).                     *)
RefusesCapture(p) ==
    \/ record[p] = "rejected"
    \/ record[p] = "none" /\ (~JudgeCapture(p) \/ receipt[OrderOf[p]] # "committed")

(* Mutants: a failure report cancels a paid order; it cancels nothing.     *)
CancelPaid(p) == order' = [order EXCEPT ![OrderOf[p]] = "cancelled"] /\ UNCHANGED <<record, receipt>>
FailureIgnored(p) == order[OrderOf[p]] # "paid" /\ UNCHANGED orderVars

(* MarkPaymentFailed cancels an unpaid order.                              *)
AppliesFailure(p) ==
    /\ order[OrderOf[p]] # "paid"
    /\ order' = [order EXCEPT ![OrderOf[p]] = "cancelled"]
    /\ UNCHANGED <<record, receipt>>

Accepts(p, outcome) ==
    \/ outcome = "captured" /\ AppliesCapture(p)
    \/ outcome = "failed" /\ AppliesFailure(p)

Refuses(p, outcome) ==
    \/ outcome = "captured" /\ RefusesCapture(p)
    \/ outcome = "failed" /\ order[OrderOf[p]] = "paid"

(* A refused capture is recorded as money to refund or review.             *)
RecordRefusal(p, outcome) ==
    /\ record' = IF outcome = "captured" THEN [record EXCEPT ![p] = "rejected"] ELSE record
    /\ UNCHANGED <<order, receipt>>

----------------------------------------------------------------------------
(* Delivery over HTTP.  OrderSync.dispatch holds the row while it calls.   *)

SetRow(p, row) == sync' = [sync EXCEPT ![p].row = row]

(* Mutant: a refusal counts as delivered.                                  *)
DeliverForgets(p) ==
    /\ ~UseBus /\ sync[p].row = "pending"
    /\ \/ Accepts(p, sync[p].outcome)
       \/ Refuses(p, sync[p].outcome) /\ RecordRefusal(p, sync[p].outcome)
    /\ SetRow(p, "delivered")
    /\ UNCHANGED <<intent, sent, busVars>>

DeliverHTTP(p) ==
    /\ ~UseBus /\ sync[p].row = "pending"
    /\ \/ Accepts(p, sync[p].outcome) /\ SetRow(p, "delivered")
       \/ Refuses(p, sync[p].outcome) /\ RecordRefusal(p, sync[p].outcome) /\ SetRow(p, "review")
    /\ UNCHANGED <<intent, sent, busVars>>

(* No answer: the call is lost or arrives later; the 30th attempt asks for *)
(* review.                                                                 *)
DeliverUnanswered(p) ==
    /\ ~UseBus /\ sync[p].row = "pending"
    /\ sent' = sent \cup {<<p, sync[p].outcome>>}
    /\ \E row \in {"pending", "review"} : SetRow(p, row)
    /\ UNCHANGED <<intent, orderVars, busVars>>

LateCall(p, outcome) ==
    /\ <<p, outcome>> \in sent
    /\ \/ Accepts(p, outcome)
       \/ Refuses(p, outcome) /\ RecordRefusal(p, outcome)
    /\ UNCHANGED <<paymentVars, busVars>>

(* Order committed the stock and its transaction then failed.              *)
CommitRollsBack(p) ==
    /\ sync[p].outcome = "captured"
    /\ record[p] = "none" /\ JudgeCapture(p)
    /\ sync[p].row = "pending" \/ event[<<p, "captured">>] = "published"
    /\ Inv!Commit(OrderOf[p])
    /\ UNCHANGED <<paymentVars, order, record, busVars>>

(* RetryOrderSync: an admin sends an undelivered outcome again.            *)
Requeue(p) ==
    /\ sync[p].row = "review"
    /\ SetRow(p, "pending")
    /\ UNCHANGED <<intent, sent, orderVars, busVars>>

----------------------------------------------------------------------------
(* Delivery over the bus.  The event id is the intent and the outcome.     *)

PublishOutcome(p) ==
    /\ UseBus /\ sync[p].row = "pending"
    /\ Bus!Publish(<<p, sync[p].outcome>>)
    /\ SetRow(p, "delivered")
    /\ UNCHANGED <<intent, sent, orderVars, report, rejection>>

(* The broker's acknowledgement is lost, or the event never reached it.    *)
PublishUnacked(p) ==
    /\ UseBus /\ sync[p].row = "pending"
    /\ Bus!Publish(<<p, sync[p].outcome>>) \/ UNCHANGED event
    /\ \E row \in {"pending", "review"} : SetRow(p, row)
    /\ UNCHANGED <<intent, sent, orderVars, report, rejection>>

(* Effects.Enqueue: one effect per (order, kind, target), and the target   *)
(* is "payment-<id>"; an existing one is left untouched.                   *)
ReportRejection(p, outcome) ==
    report' = [report EXCEPT ![p] = IF @.status = "none" THEN [status |-> "pending", about |-> outcome] ELSE @]

(* PaymentOutcomeHandler: a refusal rolls the attempt back to its          *)
(* savepoint, its order_payments row included, and queues the report.      *)
HandleOutcome(p, outcome) ==
    \/ Accepts(p, outcome) /\ UNCHANGED report
    \/ Refuses(p, outcome) /\ UNCHANGED orderVars /\ ReportRejection(p, outcome)

OrderConsumes(p, outcome) ==
    /\ Bus!Process(<<p, outcome>>) \/ Bus!Replay(<<p, outcome>>)
    /\ HandleOutcome(p, outcome)
    /\ UNCHANGED <<paymentVars, rejection>>

OrderSetsAside(p, outcome) ==
    /\ Bus!Park(<<p, outcome>>) \/ Bus!Discard(<<p, outcome>>)
    /\ UNCHANGED <<paymentVars, orderVars, report, rejection>>

(* The report effect publishes the rejection under the effect's id.        *)
RunReport(p) ==
    /\ report[p].status = "pending"
    /\ Back!Publish(p)
    /\ report' = [report EXCEPT ![p].status = "done"]
    /\ UNCHANGED <<paymentVars, orderVars, event>>

RunReportUnacked(p) ==
    /\ report[p].status = "pending"
    /\ Back!Publish(p) \/ UNCHANGED rejection
    /\ \E status \in {"pending", "parked"} : report' = [report EXCEPT ![p].status = status]
    /\ UNCHANGED <<paymentVars, orderVars, event>>

ReplayEffect(p) ==
    /\ report[p].status = "parked"
    /\ report' = [report EXCEPT ![p].status = "pending"]
    /\ UNCHANGED <<paymentVars, orderVars, event, rejection>>

(* Mutant: only a row that is not delivered yet is put up for review.      *)
MarkPending(p) == sync' = [sync EXCEPT ![p].row = IF @ = "delivered" THEN @ ELSE "review"]

(* MarkRejected, whatever the intent's outcome is by now.                  *)
MarkRejected(p) == sync' = [sync EXCEPT ![p].row = IF @ = "none" THEN @ ELSE "review"]

PaymentConsumes(p) ==
    /\ Back!Process(p) \/ Back!Replay(p)
    /\ MarkRejected(p)
    /\ UNCHANGED <<intent, sent, orderVars, event, report>>

PaymentSetsAside(p) ==
    /\ Back!Park(p) \/ Back!Discard(p)
    /\ UNCHANGED <<paymentVars, orderVars, event, report>>

----------------------------------------------------------------------------
(* The order's other ends: the buyer or an admin cancels it, its hold      *)
(* expires and Inventory says so, its stock is given back.                 *)

CancelOrder(o) ==
    /\ order[o] = "pending_payment"
    /\ order' = [order EXCEPT ![o] = "cancelled"]
    /\ UNCHANGED <<paymentVars, record, receipt, busVars>>

HoldExpires(o) ==
    /\ Inv!Expire(o)
    /\ UNCHANGED <<paymentVars, order, record, busVars>>

ReservationExpired(o) ==
    /\ receipt[o] = "expired" /\ order[o] = "pending_payment"
    /\ order' = [order EXCEPT ![o] = "cancelled"]
    /\ UNCHANGED <<paymentVars, record, receipt, busVars>>

ReleaseStock(o) ==
    /\ order[o] = "cancelled"
    /\ Inv!Release(o)
    /\ UNCHANGED <<paymentVars, order, record, busVars>>

----------------------------------------------------------------------------
PaymentStep(p) == \/ CreateIntent(p) \/ Close(p) \/ ReceiptSucceeded(p) \/ ReceiptFailed(p)
                  \/ CommitRollsBack(p) \/ Requeue(p)

HTTPStep(p) == DeliverHTTP(p) \/ DeliverUnanswered(p) \/ \E outcome \in Outcomes : LateCall(p, outcome)

BusStep(p) ==
    \/ PublishOutcome(p) \/ PublishUnacked(p)
    \/ \E outcome \in Outcomes : OrderConsumes(p, outcome) \/ OrderSetsAside(p, outcome)
    \/ RunReport(p) \/ RunReportUnacked(p) \/ ReplayEffect(p)
    \/ PaymentConsumes(p) \/ PaymentSetsAside(p)

OrderStep(o) == CancelOrder(o) \/ HoldExpires(o) \/ ReservationExpired(o) \/ ReleaseStock(o)

Next ==
    \/ \E p \in Payments : PaymentStep(p) \/ HTTPStep(p) \/ BusStep(p)
    \/ \E o \in Orders : OrderStep(o)

Spec == Init /\ [][Next]_vars

(* The workers come round to every due row, effect and event; a call or a  *)
(* publication that keeps failing ends in review (30 attempts), an event   *)
(* that keeps failing is parked.                                           *)
Fairness ==
    \A p \in Payments :
        /\ WF_vars(DeliverHTTP(p)) /\ WF_vars(PublishOutcome(p))
        /\ WF_vars(RunReport(p))
        /\ WF_vars(PaymentConsumes(p) \/ PaymentSetsAside(p))
        /\ \A outcome \in Outcomes : WF_vars(OrderConsumes(p, outcome) \/ OrderSetsAside(p, outcome))

FairSpec == Spec /\ Fairness

----------------------------------------------------------------------------
PaidBy(o) == {p \in Payments : OrderOf[p] = o /\ record[p] = "applied"}

(* An order is paid by exactly one capture, the money of that capture      *)
(* really arrived, and its stock is sold: however late, often or out of    *)
(* order Payment's reports arrive.                                         *)
PaidByOneCapture ==
    \A o \in Orders :
        /\ order[o] = "paid" <=> PaidBy(o) # {}
        /\ \A p, q \in PaidBy(o) : p = q
        /\ \A p \in PaidBy(o) : intent[p] = "captured" /\ receipt[o] = "committed"

(* No failure report, late call or expiry takes back a verdict: paid and   *)
(* cancelled are final, and so is what Order recorded about a capture.     *)
VerdictIsFinal ==
    [][/\ \A o \in Orders : order[o] # "pending_payment" => order'[o] = order[o]
       /\ \A p \in Payments : record[p] # "none" => record'[p] = record[p]]_vars

OnTheWay(status) == status \in {"published", "parked", "discarded"}

(* Captured money that did not pay its order is never out of sight: the    *)
(* outcome waits for delivery or review, its event or the report of its    *)
(* refusal is on the way, or an operator set one of these aside.           *)
CapturedMoneyAccounted ==
    \A p \in Payments : intent[p] = "captured" /\ record[p] # "applied" =>
        \/ sync[p].row \in {"pending", "review"}
        \/ OnTheWay(event[<<p, "captured">>])
        \/ report[p].status \in {"pending", "parked"}
        \/ OnTheWay(rejection[p])

(* Captured money pays its order or is put up for review.                  *)
CapturesSettle ==
    \A p \in Payments : intent[p] = "captured" ~> (record[p] = "applied" \/ sync[p].row = "review")

(* A failed payment ends its order, unless the money arrives after all or  *)
(* Payment could not tell Order.                                           *)
FailureSettled(p) == \/ order[OrderOf[p]] # "pending_payment"
                     \/ intent[p] = "captured"
                     \/ sync[p].row = "review"
                     \/ event[<<p, "failed">>] \in {"parked", "discarded"}
FailuresSettle == \A p \in Payments : intent[p] = "failed" ~> FailureSettled(p)

(* A refusal Order reports is put up for review at Payment, unless an      *)
(* operator has to look at the report itself.                              *)
ReportSettled(p) == \/ sync[p].row = "review"
                    \/ report[p].status = "parked"
                    \/ rejection[p] \in {"parked", "discarded"}
=============================================================================
